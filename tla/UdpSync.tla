------------------------------ MODULE UdpSync -------------------------------
(***************************************************************************)
(* A master and a slave player kept in step over UDP (udp_sync.c and its    *)
(* callers in mplayer.c).  The master sends its position with every frame,  *)
(* also while it is paused, and "bye" when it exits; the slave plays a      *)
(* frame once the master has come to it, waits while it is slightly ahead,  *)
(* seeks when it is way off, and goes on by itself when it hears nothing.   *)
(* Datagrams may be lost, repeated and reordered.                           *)
(*                                                                         *)
(* Positions are counted in frames; UDP_TIMING_TOLERANCE is less than one.  *)
(***************************************************************************)
EXTENDS Integers, Sequences, SequencesExt

CONSTANTS
  MaxPos,      \* last frame of the medium
  Threshold,   \* udp_seek_threshold, in frames
  SeekError,   \* how far from its target a seek may end
  NetSize,     \* bound on the datagrams under way
  SocketSize,  \* datagrams that the slave's socket holds; more are lost
  MaxSeeks,    \* bound on the master's seeks
  MaxFaults    \* bound on datagrams repeated, on datagrams that are not a
               \* number and on silences of 30 seconds of a living master

ASSUME UdpAssumption ==
  /\ MaxPos \in Nat /\ Threshold \in Nat /\ SeekError \in Nat /\ SeekError <= Threshold
  /\ NetSize \in Nat \ {0} /\ SocketSize \in Nat \ {0}
  /\ MaxSeeks \in Nat /\ MaxFaults \in Nat

Bye == -1
Bad == -2
Frames == 0 .. MaxPos

VARIABLES
  (* the master *)
  master,      \* "plays", "exited" or "crashed"
  position,    \* its sh_video->pts
  (* the network *)
  net,         \* datagrams under way
  socket,      \* and those that have arrived
  (* the slave *)
  slave,       \* "sync": about to show a frame; "loop" and "wait": in
               \* udp_slave_sync; "seek": off to a new position; "exited"
  pts,         \* its sh_video->pts
  udp_master_position, timed_out,
  master_exited,  \* what get_udp returned
  (* history *)
  ahead,       \* a frame was shown in step that the master had not come to
  seeks, faults

netVars    == <<net, socket>>
slaveVars  == <<slave, pts, udp_master_position, timed_out, master_exited, ahead>>
countVars  == <<seeks, faults>>
vars == <<master, position, net, socket, slave, pts, udp_master_position, timed_out,
          master_exited, ahead, seeks, faults>>

(* The first call of udp_slave_sync sets udp_master_position.               *)
FirstPosition == 0 - ((Threshold + 1) \div 2)

Init ==
  /\ master = "plays" /\ position = 0
  /\ net = <<>> /\ socket = <<>>
  /\ slave = "sync" /\ pts = 0 /\ udp_master_position = FirstPosition
  /\ timed_out = FALSE /\ master_exited = 0
  /\ ahead = FALSE /\ seeks = 0 /\ faults = 0
-----------------------------------------------------------------------------
(* The master                                                               *)

(* The datagram is on its way, or lost.                                     *)
send_udp(m) == \/ Len(net) < NetSize /\ net' = Append(net, m)
               \/ UNCHANGED net

(* sleep_until_update and the frame after it; at the last frame, and in     *)
(* pause_loop, the position is sent again and again.                        *)
MasterFrame ==
  /\ master = "plays" /\ send_udp(position)
  /\ position' \in {position, IF position < MaxPos THEN position + 1 ELSE position}
  /\ UNCHANGED <<master, socket, slaveVars, countVars>>

MasterSeek ==
  /\ master = "plays" /\ seeks < MaxSeeks /\ seeks' = seeks + 1
  /\ position' \in Frames
  /\ UNCHANGED <<master, netVars, slaveVars, faults>>

(* exit_player_with_rc, or no time for it.                                  *)
MasterEnds ==
  /\ master = "plays"
  /\ \/ master' = "exited" /\ send_udp(Bye)
     \/ master' = "crashed" /\ UNCHANGED net
  /\ UNCHANGED <<position, socket, slaveVars, countVars>>
-----------------------------------------------------------------------------
(* The network                                                              *)

Arrive(m) ==
  socket' = IF Len(socket) < SocketSize THEN Append(socket, m) ELSE socket

Deliver ==
  /\ \E i \in 1 .. Len(net) : Arrive(net[i]) /\ net' = RemoveAt(net, i)
  /\ UNCHANGED <<master, position, slaveVars, countVars>>

Fault == faults < MaxFaults /\ faults' = faults + 1

Repeat ==
  /\ Fault
  /\ \E i \in 1 .. Len(net) : Arrive(net[i]) /\ UNCHANGED net
  /\ UNCHANGED <<master, position, slaveVars, seeks>>

ArriveBad ==
  /\ Fault /\ Arrive(Bad) /\ UNCHANGED net
  /\ UNCHANGED <<master, position, slaveVars, seeks>>
-----------------------------------------------------------------------------
(* The slave                                                                *)

(* Not part of the specification: what is not a position is taken for one.  *)
BugParse ==
  LET n == SelectInSeq(socket, LAMBDA m : m = Bye)
      k == IF n = 0 THEN Len(socket) ELSE n - 1
  IN /\ socket' = IF n = 0 THEN <<>> ELSE SubSeq(socket, n + 1, Len(socket))
     /\ udp_master_position' = IF k = 0 THEN udp_master_position ELSE socket[k]
     /\ master_exited' = IF n = 0 THEN 0 ELSE 1

(* Not part of the specification: only the last datagram counts.            *)
BugLastCounts ==
  LET m == Last(socket) IN
    /\ socket' = <<>>
    /\ udp_master_position' = IF m \in {Bye, Bad} THEN udp_master_position ELSE m
    /\ master_exited' = CASE m = Bye -> 1 [] m = Bad -> -1 [] OTHER -> 0

(* get_udp with something to receive: it takes all there is, up to a "bye"  *)
(* or to what is not a number, of which strtod makes the position 0.        *)
get_udp ==
  LET n == SelectInSeq(socket, LAMBDA m : m \in {Bye, Bad})
      k == IF n = 0 THEN Len(socket) ELSE n - 1
  IN /\ socket' = IF n = 0 THEN <<>> ELSE SubSeq(socket, n + 1, Len(socket))
     /\ udp_master_position' = CASE n # 0 /\ socket[n] = Bad -> 0
                                 [] k = 0 -> udp_master_position
                                 [] OTHER -> socket[k]
     /\ master_exited' = CASE n = 0 -> 0 [] socket[n] = Bye -> 1 [] OTHER -> -1

WayOff == pts - udp_master_position > Threshold \/ udp_master_position - pts > Threshold

(* "grab any waiting datagrams without blocking"                            *)
udp_slave_sync ==
  /\ slave = "sync" /\ slave' = "loop"
  /\ IF socket = <<>>
     THEN master_exited' = -1 /\ UNCHANGED <<socket, udp_master_position>>
     ELSE get_udp
  /\ UNCHANGED <<master, position, net, pts, timed_out, ahead, countVars>>

(* Not part of the specification: after a timeout there is no way back.     *)
BugInLoop == ~timed_out /\ master_exited <= 0

InLoop == master_exited = 0 \/ (~timed_out /\ master_exited < 0)

(* The next frame is decoded.                                               *)
NextFrame == pts' = IF pts <= MaxPos THEN pts + 1 ELSE pts

(* More than 30 seconds since the last datagram.                            *)
Silence ==
  /\ socket = <<>>
  /\ IF master = "plays" THEN Fault ELSE UNCHANGED faults

(* The end of udp_slave_sync, when it is not to be left to normal timing.   *)
Heard ==
  \/ timed_out' = FALSE /\ UNCHANGED faults
  \/ master_exited < 0 /\ timed_out' = TRUE /\ Silence

(* "if we're way off, seek to catch up": the frame is still shown.          *)
SlaveSeeks ==
  /\ slave = "loop" /\ InLoop /\ WayOff /\ slave' = "seek" /\ Heard
  /\ UNCHANGED <<master, position, netVars, pts, udp_master_position, master_exited,
                 ahead, seeks>>

(* Not part of the specification: slightly ahead is taken for in step.      *)
BugInStep == udp_master_position + 1 >= pts

(* "normally we expect that the master will have just played the frame      *)
(* we're ready to play"                                                     *)
InStep == udp_master_position >= pts

(* In step: the frame is shown at once.                                     *)
SlaveShows ==
  /\ slave = "loop" /\ InLoop /\ ~WayOff /\ InStep
  /\ slave' = "sync" /\ NextFrame /\ Heard
  /\ ahead' = (ahead \/ (seeks = 0 /\ pts > position))
  /\ UNCHANGED <<master, position, netVars, udp_master_position, master_exited,
                 seeks>>

(* "the remaining case is that we're slightly ahead of the master"          *)
SlaveWaits ==
  /\ slave = "loop" /\ InLoop /\ ~WayOff /\ ~InStep /\ slave' = "wait"
  /\ UNCHANGED <<master, position, netVars, pts, udp_master_position, timed_out,
                 master_exited, ahead, countVars>>

SlaveReceives ==
  /\ slave = "wait" /\ socket # <<>> /\ get_udp /\ slave' = "loop"
  /\ timed_out' = (timed_out \/ master_exited' < 0)
  /\ UNCHANGED <<master, position, net, pts, ahead, countVars>>

(* SO_RCVTIMEO                                                              *)
SlaveTimesOut ==
  /\ slave = "wait" /\ Silence /\ timed_out' = TRUE /\ master_exited' = -1 /\ slave' = "loop"
  /\ UNCHANGED <<master, position, netVars, pts, udp_master_position, ahead,
                 seeks>>

(* "normal timing should be used again"                                     *)
SlaveAlone ==
  /\ slave = "loop" /\ ~InLoop /\ master_exited < 0
  /\ slave' = "sync" /\ NextFrame
  /\ UNCHANGED <<master, position, netVars, udp_master_position, timed_out, master_exited,
                 ahead, countVars>>

(* MSGTR_MasterQuit                                                         *)
SlaveExits ==
  /\ slave = "loop" /\ master_exited = 1 /\ slave' = "exited"
  /\ UNCHANGED <<master, position, netVars, pts, udp_master_position, timed_out,
                 master_exited, ahead, countVars>>

(* The main loop seeks to udp_master_position, to a frame nearby.           *)
SlaveSought ==
  /\ slave = "seek" /\ slave' = "sync"
  /\ pts' \in {p \in Frames : /\ p >= udp_master_position - SeekError
                              /\ p <= udp_master_position + SeekError}
  /\ UNCHANGED <<master, position, netVars, udp_master_position, timed_out, master_exited,
                 ahead, countVars>>
-----------------------------------------------------------------------------
SlaveStep ==
  \/ udp_slave_sync \/ SlaveSeeks \/ SlaveShows \/ SlaveWaits \/ SlaveReceives
  \/ SlaveAlone \/ SlaveExits \/ SlaveSought

Next ==
  \/ MasterFrame \/ MasterSeek \/ MasterEnds
  \/ Deliver \/ Repeat \/ ArriveBad
  \/ SlaveStep \/ SlaveTimesOut

(* Both players run, a wait ends after 30 seconds, and of the datagrams     *)
(* that the master keeps sending some arrive.                               *)
Fairness ==
  /\ WF_vars(SlaveStep) /\ WF_vars(SlaveTimesOut)
  /\ SF_vars(MasterFrame /\ net' # net) /\ SF_vars(Deliver)

Spec == Init /\ [][Next]_vars
FairSpec == Spec /\ Fairness
-----------------------------------------------------------------------------
(* Positions, datagrams and the state of both players have their types.     *)
TypeOK ==
  /\ master \in {"plays", "exited", "crashed"} /\ position \in Frames
  /\ net \in Seq(Frames \cup {Bye}) /\ Len(net) <= NetSize
  /\ socket \in Seq(Frames \cup {Bye, Bad}) /\ Len(socket) <= SocketSize
  /\ slave \in {"sync", "loop", "wait", "seek", "exited"} /\ pts \in 0 .. MaxPos + 1
  /\ udp_master_position \in Frames \cup {FirstPosition}
  /\ timed_out \in BOOLEAN /\ master_exited \in {-1, 0, 1} /\ ahead \in BOOLEAN
  /\ seeks \in 0 .. MaxSeeks /\ faults \in 0 .. MaxFaults

(* As long as the master has not sought, the slave never shows in step a    *)
(* frame that the master has not come to, whatever happens to datagrams.    *)
NeverAhead == ~ahead

(* A "bye" that has arrived ends the slave, also when it waits and when     *)
(* older positions arrive behind it.                                        *)
ByeEnds == Bye \in Range(socket) ~> slave = "exited"

Close == position - pts <= Threshold + 1 /\ pts - position <= Threshold + 1

(* "makes sure we stay as close as possible to the master's position": a    *)
(* slave that has lost the master, gone on alone or was led astray by late  *)
(* datagrams comes back to a master that stays alive.                       *)
ComesBack == [](master = "plays") => <>[]Close
=============================================================================
