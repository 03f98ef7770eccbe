----------------------------- MODULE RtpCache ------------------------------
(***************************************************************************)
(* The RTP receiver of MPlayer (stream/rtp.c): datagrams that the network   *)
(* loses, repeats and reorders are put back into the order of their 16-bit  *)
(* sequence numbers with a ring of MAXRTPPACKETSIN slots.                   *)
(*                                                                         *)
(* A packet is its number in the sender's order; on the wire it carries the *)
(* sequence number its sender gave it.  A slot holds a packet, or is Empty  *)
(* when its len is 0.                                                       *)
(***************************************************************************)
EXTENDS Integers, Sequences, FiniteSets, FiniteSetsExt

CONSTANTS
  N,          \* MAXRTPPACKETSIN
  SeqRange,   \* number of sequence numbers, 2^16 in the code
  MaxSent,    \* the sender sends packets 0 .. MaxSent-1
  Numberings, \* how the sender may number them: functions on the packets
  Reorder,    \* a packet overtakes only packets at most this far before it
  MaxLost,    \* packets the network loses
  LossGap,    \* how far apart the lost packets are, at least
  MaxRepeat,  \* packets the network delivers a second time
  MaxLate,    \* how far such a packet is behind the first still to arrive
  MaxBad      \* receptions that fail or carry no packet

ASSUME RtpAssumption ==
  /\ N \in Nat /\ N > 3
  /\ SeqRange \in Nat /\ SeqRange > 4 * N
  /\ MaxSent \in Nat
  /\ Numberings \subseteq [0 .. MaxSent - 1 -> 0 .. SeqRange - 1]
  /\ Reorder \in Nat /\ MaxLost \in Nat /\ LossGap \in Nat /\ MaxBad \in Nat
  /\ MaxRepeat \in Nat /\ MaxLate \in Nat

Packets == 0 .. MaxSent - 1
Slots   == 0 .. N - 1
Empty   == -1

VARIABLES
  (* struct rtpbuffer rtpbuf, and the statics of rtp_cache *)
  slot,      \* data and len
  seq,       \* sequence number of each slot; seq[first] is the expected one
  first,     \* slot of the expected packet
  is_first,  \* no packet has been received yet
  (* read_rtp_from_server *)
  pc,        \* "idle", or "get" inside rtp_get_next
  tries,     \* rtp_get_next: i
  out,       \* packets handed to the player
  (* the network *)
  number,    \* sequence number of each packet
  wire,      \* packets still to arrive
  lost, repeated, bad

vars == <<slot, seq, first, is_first, pc, tries, out, number, wire, lost, repeated, bad>>
ringVars == <<slot, seq, first, is_first>>
netVars  == <<number, wire, lost, repeated, bad>>

Next1(s) == (s + 1) % SeqRange

(* The static structure is zero at the start.                               *)
Init ==
  /\ slot = [i \in Slots |-> Empty] /\ seq = [i \in Slots |-> 0]
  /\ first = 0 /\ is_first = TRUE
  /\ pc = "idle" /\ tries = 0 /\ out = <<>>
  /\ number \in Numberings /\ wire = Packets /\ lost = {} /\ repeated = 0 /\ bad = 0
-----------------------------------------------------------------------------
(* read_rtp_from_server enters rtp_get_next.                                *)
Read ==
  /\ pc = "idle" /\ pc' = "get" /\ tries' = 0
  /\ UNCHANGED <<ringVars, out, netVars>>

(* A packet goes straight to the player.                                    *)
Feed(p) ==
  /\ out' = Append(out, p) /\ pc' = "idle" /\ UNCHANGED tries

(* A packet does not: rtp_cache returns 0 and rtp_get_next tries again.     *)
Again == tries' = tries + 1 /\ UNCHANGED <<pc, out>>

(* rtp_cache_reset(seq), then the packet is fed.                            *)
Reset(p) ==
  /\ slot' = [i \in Slots |-> Empty]
  /\ first' = 0 /\ seq' = [seq EXCEPT ![0] = Next1(number[p])]
  /\ UNCHANGED is_first
  /\ Feed(p)

(* newseq: an int, so the difference of two 16-bit numbers may be negative. *)
Newseq(p) == number[p] - seq[first]

(* The packet that is expected, or the first of all.                        *)
InSequence(p) ==
  LET f == (first + 1) % N IN
    /\ Newseq(p) = 0 \/ is_first
    /\ is_first' = FALSE
    /\ first' = f /\ seq' = [seq EXCEPT ![f] = Next1(number[p])]
    /\ UNCHANGED slot
    /\ Feed(p)

Overrun(p) ==
  /\ ~is_first /\ Newseq(p) > N
  /\ Reset(p)

(* A packet of the past: one that is still named in the ring or is not too  *)
(* far back is dropped, anything else starts over.                          *)
Dropped(p) == (\E i \in Slots : seq[i] = number[p]) \/ Newseq(p) > -(3 * N)

DropOld(p) ==
  /\ ~is_first /\ Newseq(p) < 0 /\ Dropped(p)
  /\ Again /\ UNCHANGED ringVars

Underrun(p) ==
  /\ ~is_first /\ Newseq(p) < 0 /\ ~Dropped(p)
  /\ Reset(p)

(* Not part of the specification: the packet goes one slot too far.         *)
BugStore(p) ==
  LET k == (Newseq(p) + 1 + first) % N IN
    /\ ~is_first /\ Newseq(p) \in 1 .. N
    /\ slot' = [slot EXCEPT ![k] = p] /\ seq' = [seq EXCEPT ![k] = number[p]]
    /\ UNCHANGED <<first, is_first>>
    /\ Again

(* "Out of Seq": the packet waits in its slot.                              *)
Store(p) ==
  LET k == (Newseq(p) + first) % N IN
    /\ ~is_first /\ Newseq(p) \in 1 .. N
    /\ slot' = [slot EXCEPT ![k] = p] /\ seq' = [seq EXCEPT ![k] = number[p]]
    /\ UNCHANGED <<first, is_first>>
    /\ Again

rtp_cache(p) == InSequence(p) \/ Overrun(p) \/ DropOld(p) \/ Underrun(p) \/ Store(p)

(* Not part of the specification: the loop gives up too early, or once too  *)
(* late.                                                                    *)
BugTryLonger == pc = "get" /\ slot[first] = Empty /\ tries <= N - 3
BugTryAgain == pc = "get" /\ slot[first] = Empty /\ tries < N - 5

(* rtp_get_next goes on receiving while the expected slot is empty.         *)
TryAgain == pc = "get" /\ slot[first] = Empty /\ tries < N - 3

(* The numbers wrap at 2^16 or jump because the sender starts over.  The    *)
(* code compares numbers without regard to the wrap and forgets what waits  *)
(* in the ring at a jump: what is shown then is for a network that delivers *)
(* every packet in order.                                                   *)
Uneven == \E p \in Packets : p > 0 /\ number[p] # number[p - 1] + 1

(* The first packet still to arrive.                                        *)
Foremost == Min(wire \cup {MaxSent})

(* One packet arrives; the network reorders within its bound.               *)
Arrives(p) == p <= Foremost + (IF Uneven THEN 0 ELSE Reorder)

Receive ==
  /\ TryAgain
  /\ \E p \in wire :
       /\ Arrives(p) /\ rtp_cache(p)
       /\ wire' = wire \ {p}
  /\ UNCHANGED <<number, lost, repeated, bad>>

(* A packet that arrived before arrives again, not too late: "handling of   *)
(* repeated UDP packets".                                                   *)
Recent(p) == Foremost - p <= MaxLate

ReceiveRepeated ==
  /\ TryAgain
  /\ ~Uneven /\ repeated < MaxRepeat /\ repeated' = repeated + 1
  /\ \E p \in Packets \ (wire \cup lost) : Recent(p) /\ rtp_cache(p)
  /\ UNCHANGED <<number, wire, lost, bad>>

(* getrtp2: recv fails, or the datagram is too short to be an RTP packet.   *)
ReceiveBad ==
  /\ TryAgain
  /\ bad < MaxBad /\ bad' = bad + 1
  /\ Again
  /\ UNCHANGED <<ringVars, number, wire, lost, repeated>>

Lose ==
  /\ ~Uneven /\ Cardinality(lost) < MaxLost
  /\ \E p \in wire :
       /\ Arrives(p) /\ \A q \in lost : LossGap <= p - q \/ LossGap <= q - p
       /\ wire' = wire \ {p} /\ lost' = lost \cup {p}
  /\ UNCHANGED <<ringVars, pc, tries, out, number, repeated, bad>>
-----------------------------------------------------------------------------
(* Distance from first to the next slot that is not empty, N if all are.    *)
Ahead == Min({k \in Slots : slot[(first + k) % N] # Empty} \cup {N})

(* Not part of the specification: the slot that is handed out is not        *)
(* cleared.                                                                 *)
BugGetCached ==
  LET i == (first + Ahead) % N
      f == (i + 1) % N
  IN  /\ pc = "get" /\ ~TryAgain
      /\ first' = f /\ seq' = [seq EXCEPT ![f] = Next1(seq[i])]
      /\ IF slot[i] # Empty THEN Feed(slot[i])
                            ELSE tries' = 0 /\ UNCHANGED <<pc, out>>
      /\ UNCHANGED <<slot, is_first, netVars>>

(* rtp_get_next gives up on what is missing and takes the next packet in    *)
(* the ring.  When there is none it returns an empty packet, which counts   *)
(* as the expected one, and read_rtp_from_server calls again.               *)
GetCached ==
  LET i == (first + Ahead) % N
      f == (i + 1) % N
  IN  /\ pc = "get" /\ ~TryAgain
      /\ slot' = [slot EXCEPT ![i] = Empty]
      /\ first' = f /\ seq' = [seq EXCEPT ![f] = Next1(seq[i])]
      /\ IF slot[i] # Empty THEN Feed(slot[i])
                            ELSE tries' = 0 /\ UNCHANGED <<pc, out>>
      /\ UNCHANGED <<is_first, netVars>>

(* recv blocks for good when the sender has stopped.                        *)
SenderStopped == wire = {} /\ UNCHANGED vars

Next == Read \/ Receive \/ ReceiveRepeated \/ ReceiveBad \/ Lose \/ GetCached \/ SenderStopped

Spec == Init /\ [][Next]_vars
-----------------------------------------------------------------------------
(* The ring, the receive loop and the network have their types.             *)
TypeOK ==
  /\ slot \in [Slots -> Packets \cup {Empty}] /\ seq \in [Slots -> 0 .. SeqRange - 1]
  /\ first \in Slots /\ is_first \in BOOLEAN
  /\ pc \in {"idle", "get"} /\ tries \in 0 .. N - 3 /\ out \in Seq(Packets)
  /\ number \in Numberings /\ wire \subseteq Packets /\ lost \subseteq Packets
  /\ repeated \in 0 .. MaxRepeat /\ bad \in 0 .. MaxBad

(* The player gets the packets in the order they were sent, none of them    *)
(* twice: "get rtp packets reordered", "handling of repeated UDP packets".  *)
InOrder == \A i, j \in 1 .. Len(out) : i < j => out[i] < out[j]

(* A packet is passed over only if the network lost it, provided that the   *)
(* receive loop had more tries than the network could waste: by a packet    *)
(* that comes late, one that comes early, a repeated one and a bad one.     *)
OnlyLostSkipped ==
  2 * Reorder + repeated + bad < N - 3 =>
    \A i \in 1 .. Len(out) - 1 : (out[i] + 1) .. (out[i + 1] - 1) \subseteq lost

(* The packets that the network may deliver next.                           *)
CanArrive(p) ==
  \/ p \in wire /\ Arrives(p)
  \/ p \notin wire \cup lost /\ Recent(p) /\ repeated < MaxRepeat

(* rtp_get_next gives up often enough: none of the packets that may arrive  *)
(* while it waits is exactly MAXRTPPACKETSIN ahead of the expected one,     *)
(* whose slot it would get, and none so far behind that the ring starts     *)
(* over with it.  Everything that keeps the order of evenly numbered        *)
(* packets rests on this.                                                   *)
InReach ==
  ~Uneven /\ TryAgain /\ ~is_first =>
    \A p \in Packets : CanArrive(p) => Newseq(p) # N /\ (Newseq(p) < 0 => Dropped(p))

(* "Write in a cache the rtp packet in right rtp sequence order": a packet  *)
(* k slots after first is the one expected k packets later, and it is not   *)
(* one the player has already passed.                                       *)
RingInOrder ==
  \A k \in Slots :
    LET i == (first + k) % N IN
      slot[i] # Empty =>
        /\ number[slot[i]] = (seq[first] + k) % SeqRange
        /\ \A j \in 1 .. Len(out) : out[j] < slot[i]
=============================================================================
