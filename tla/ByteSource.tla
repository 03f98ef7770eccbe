---------------------------- MODULE ByteSource -----------------------------
(***************************************************************************)
(* What the stream cache promises to its client, with no ring buffer, no    *)
(* mailbox and no second process: a medium of FileLen bytes that is fetched *)
(* ahead of a read position, from which the fetched bytes are delivered in  *)
(* order, each at its position, and an end that is reported only when the   *)
(* whole rest has been fetched.  A byte is its file position.               *)
(***************************************************************************)
EXTENDS Integers, Sequences

CONSTANTS FileLen, Targets

VARIABLES
  position,  \* next byte to deliver
  fetched,   \* the medium is fetched up to here
  out,       \* bytes delivered by the current read
  ended      \* the client was told that the medium ends

srcVars == <<position, fetched, out, ended>>

Init == position = 0 /\ fetched = 0 /\ out = <<>> /\ ended = FALSE

(* The medium is fetched further, or anew from the read position.           *)
Fetch ==
  /\ fetched' \in {position} \cup fetched .. FileLen
  /\ UNCHANGED <<position, out, ended>>

(* The client starts another read.                                          *)
Begin == out' = <<>> /\ UNCHANGED <<position, fetched, ended>>

(* The next n bytes are appended to what the read has delivered.            *)
Deliver(n) ==
  /\ out' = out \o [i \in 1 .. n |-> position + i - 1]
  /\ position' = position + n
  /\ UNCHANGED <<fetched, ended>>

(* The client is told whether the medium has ended.                         *)
Report ==
  /\ ended' \in BOOLEAN
  /\ ended' => fetched = FileLen
  /\ UNCHANGED <<position, fetched, out>>

Seek(t) == position' = t /\ UNCHANGED <<fetched, out, ended>>

Next ==
  \/ Fetch
  \/ Begin
  \/ \E n \in 0 .. fetched - position : Deliver(n)
  \/ Report
  \/ \E t \in Targets : Seek(t)

Spec == Init /\ [][Next]_srcVars
============================================================================
