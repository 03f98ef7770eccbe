--------------------------- MODULE UdpSyncProofs ----------------------------
(***************************************************************************)
(* Proofs about UdpSync for every medium, threshold, network and number of  *)
(* faults: the types, and that the slave never runs ahead of the master.    *)
(***************************************************************************)
EXTENDS UdpSync, WellFoundedInduction, TLAPS

(* What a datagram can be.                                                  *)
Datagrams == Frames \cup {Bye, Bad}

(* Until the master seeks, no position under way, received or remembered is *)
(* ahead of the master.                                                     *)
Behind ==
  seeks = 0 =>
    /\ \A i \in 1 .. Len(net) : net[i] <= position
    /\ \A i \in 1 .. Len(socket) : socket[i] <= position
    /\ udp_master_position <= position

(* The inductive invariant.                                                 *)
UdpInv == TypeOK /\ Behind /\ NeverAhead

(* The constants and the numbers of frames.                                 *)
LEMMA Numbers ==
  /\ MaxPos \in Nat /\ Threshold \in Nat /\ NetSize \in Nat /\ SocketSize \in Nat
  /\ MaxSeeks \in Nat /\ MaxFaults \in Nat
  /\ FirstPosition \in Int /\ FirstPosition <= 0
  /\ Frames \subseteq Nat /\ 0 \in Frames
PROOF BY UdpAssumption DEF UdpAssumption, FirstPosition, Frames

(* A set of naturals that is not empty has a least element.                 *)
LEMMA LeastElement ==
  ASSUME NEW S \in SUBSET Nat, S # {}
  PROVE  \E x \in S : \A y \in S : x <= y
PROOF
<1>1. PICK x \in S : \A y \in S : ~ (<<y, x>> \in OpToRel(<, Nat))
  BY NatLessThanWellFounded, WFMin
<1>2. \A y \in S : ~ (y < x)
  BY <1>1 DEF OpToRel
<1> QED
  BY <1>2

(* The datagrams that end get_udp.                                          *)
Stops(s) == {i \in 1 .. Len(s) : s[i] \in {Bye, Bad}}
Stop(s)  == IF Stops(s) # {} THEN Min(Stops(s)) ELSE 0

(* The first of them is one of those in the socket, what is before it are   *)
(* positions.                                                               *)
LEMMA FirstStop ==
  ASSUME NEW s \in Seq(Datagrams)
  PROVE  /\ Stop(s) \in 0 .. Len(s)
         /\ Stop(s) # 0 => s[Stop(s)] \in {Bye, Bad}
         /\ \A i \in 1 .. Len(s) : Stop(s) = 0 \/ i < Stop(s) => s[i] \in Frames
PROOF
<1>1. Stops(s) \in SUBSET (1 .. Len(s)) /\ Len(s) \in Nat
  BY DEF Stops
<1>2. Stops(s) # {} => Min(Stops(s)) \in Stops(s) /\ \A i \in Stops(s) : Min(Stops(s)) <= i
  <2>1. Stops(s) # {} => \E k \in Stops(s) : \A i \in Stops(s) : k <= i
    BY <1>1, LeastElement
  <2> QED
    BY <2>1 DEF Min
<1>3. \A i \in 1 .. Len(s) : i \notin Stops(s) => s[i] \in Frames
  BY DEF Datagrams, Stops
<1>4. CASE Stops(s) = {}
  BY <1>1, <1>3, <1>4 DEF Stop
<1>5. CASE Stops(s) # {}
  <2>1. Stop(s) \in Stops(s) /\ \A i \in Stops(s) : Stop(s) <= i
    BY <1>2, <1>5 DEF Stop
  <2>2. Stop(s) \in 1 .. Len(s) /\ s[Stop(s)] \in {Bye, Bad}
    BY <2>1 DEF Stops
  <2>3. \A i \in 1 .. Len(s) : i < Stop(s) => i \notin Stops(s)
    BY <2>1, <2>2
  <2> QED
    BY <2>2, <2>3, <1>3
<1> QED
  BY <1>4, <1>5

(* What get_udp does, said with Stop.                                       *)
LEMMA GetUdpIs ==
  ASSUME get_udp
  PROVE  LET n == Stop(socket)
             k == IF n = 0 THEN Len(socket) ELSE n - 1
         IN /\ socket' = IF n = 0 THEN <<>> ELSE SubSeq(socket, n + 1, Len(socket))
            /\ udp_master_position' = CASE n # 0 /\ socket[n] = Bad -> 0
                                        [] k = 0 -> udp_master_position
                                        [] OTHER -> socket[k]
            /\ master_exited' = CASE n = 0 -> 0 [] socket[n] = Bye -> 1 [] OTHER -> -1
PROOF BY DEF get_udp, Stop, Stops, SelectInSeq

(* What it leaves in the socket was there before, and the position is 0,    *)
(* the old one or one that was received.                                    *)
LEMMA GetUdpStep ==
  ASSUME TypeOK, get_udp
  PROVE  /\ socket' \in Seq(Datagrams) /\ Len(socket') <= SocketSize
         /\ \A i \in 1 .. Len(socket') : \E j \in 1 .. Len(socket) : socket'[i] = socket[j]
         /\ \/ udp_master_position' \in {0, udp_master_position}
            \/ \E j \in 1 .. Len(socket) :
                 socket[j] \in Frames /\ udp_master_position' = socket[j]
         /\ master_exited' \in {-1, 0, 1}
PROOF
<1> DEFINE n == Stop(socket)
           k == IF n = 0 THEN Len(socket) ELSE n - 1
<1>1. socket \in Seq(Datagrams) /\ Len(socket) <= SocketSize /\ Len(socket) \in Nat
  BY DEF TypeOK, Datagrams
<1>2. /\ n \in 0 .. Len(socket)
      /\ \A i \in 1 .. Len(socket) : n = 0 \/ i < n => socket[i] \in Frames
  BY <1>1, FirstStop
<1>3. /\ socket' = IF n = 0 THEN <<>> ELSE SubSeq(socket, n + 1, Len(socket))
      /\ udp_master_position' = CASE n # 0 /\ socket[n] = Bad -> 0
                                  [] k = 0 -> udp_master_position
                                  [] OTHER -> socket[k]
      /\ master_exited' = CASE n = 0 -> 0 [] socket[n] = Bye -> 1 [] OTHER -> -1
  BY GetUdpIs
<1> HIDE DEF n
<1>4. socket' \in Seq(Datagrams) /\ Len(socket') <= SocketSize
  BY <1>1, <1>2, <1>3, Numbers
<1>5. \A i \in 1 .. Len(socket') : \E j \in 1 .. Len(socket) : socket'[i] = socket[j]
  <2>1. CASE n = 0
    BY <2>1, <1>3
  <2>2. CASE n # 0
    <3>1. SUFFICES ASSUME NEW i \in 1 .. Len(socket')
                   PROVE  socket'[i] = socket[n + i] /\ n + i \in 1 .. Len(socket)
      OBVIOUS
    <3>2. Len(socket') = Len(socket) - n
      BY <2>2, <1>1, <1>2, <1>3
    <3> QED
      BY <3>1, <3>2, <2>2, <1>1, <1>2, <1>3
  <2> QED
    BY <2>1, <2>2
<1>6. k # 0 => k \in 1 .. Len(socket) /\ socket[k] \in Frames
  BY <1>1, <1>2
<1>7. \/ udp_master_position' \in {0, udp_master_position}
      \/ \E j \in 1 .. Len(socket) : socket[j] \in Frames /\ udp_master_position' = socket[j]
  BY <1>3, <1>6
<1>8. master_exited' \in {-1, 0, 1}
  BY <1>3
<1> QED
  BY <1>4, <1>5, <1>7, <1>8

(* A datagram that arrives, or is lost because the socket is full.          *)
LEMMA ArriveStep ==
  ASSUME TypeOK, NEW m \in Datagrams, Arrive(m)
  PROVE  /\ socket' \in Seq(Datagrams) /\ Len(socket') <= SocketSize
         /\ \A i \in 1 .. Len(socket') :
              socket'[i] = m \/ \E j \in 1 .. Len(socket) : socket'[i] = socket[j]
PROOF
<1>1. socket \in Seq(Datagrams) /\ Len(socket) <= SocketSize /\ SocketSize \in Nat
  BY Numbers DEF TypeOK, Datagrams
<1>2. CASE Len(socket) < SocketSize
  BY <1>1, <1>2 DEF Arrive
<1>3. CASE ~(Len(socket) < SocketSize)
  BY <1>1, <1>3 DEF Arrive
<1> QED
  BY <1>2, <1>3

(* A datagram that is sent, or is lost.                                     *)
LEMMA SendStep ==
  ASSUME TypeOK, NEW m \in Frames \cup {Bye}, send_udp(m)
  PROVE  /\ net' \in Seq(Frames \cup {Bye}) /\ Len(net') <= NetSize
         /\ \A i \in 1 .. Len(net') :
              net'[i] = m \/ \E j \in 1 .. Len(net) : net'[i] = net[j]
PROOF
<1>1. net \in Seq(Frames \cup {Bye}) /\ Len(net) <= NetSize /\ NetSize \in Nat
  BY Numbers DEF TypeOK
<1>2. CASE Len(net) < NetSize /\ net' = Append(net, m)
  BY <1>1, <1>2
<1>3. CASE UNCHANGED net
  BY <1>1, <1>3
<1> QED
  BY <1>2, <1>3 DEF send_udp

(* The network without the datagram that is delivered.                      *)
LEMMA RemoveStep ==
  ASSUME NEW S, NEW s \in Seq(S), NEW i \in 1 .. Len(s)
  PROVE  /\ RemoveAt(s, i) \in Seq(S) /\ Len(RemoveAt(s, i)) = Len(s) - 1
         /\ \A j \in 1 .. Len(s) - 1 :
              \E l \in 1 .. Len(s) : RemoveAt(s, i)[j] = s[l]
PROOF
<1> DEFINE a == SubSeq(s, 1, i - 1)
           b == SubSeq(s, i + 1, Len(s))
<1>1. /\ a \in Seq(S) /\ Len(a) = i - 1
      /\ \A j \in 1 .. i - 1 : a[j] = s[j]
  OBVIOUS
<1>2. /\ b \in Seq(S) /\ Len(b) = Len(s) - i
      /\ \A j \in 1 .. Len(s) - i : b[j] = s[i + j]
  OBVIOUS
<1>3. RemoveAt(s, i) = a \o b
  BY DEF RemoveAt
<1> HIDE DEF a, b
<1>4. RemoveAt(s, i) \in Seq(S) /\ Len(RemoveAt(s, i)) = Len(s) - 1
  BY <1>1, <1>2, <1>3
<1>5. ASSUME NEW j \in 1 .. Len(s) - 1
      PROVE  \E l \in 1 .. Len(s) : RemoveAt(s, i)[j] = s[l]
  <2>1. CASE j < i
    <3>1. RemoveAt(s, i)[j] = a[j]
      BY <1>1, <1>2, <1>3, <2>1
    <3> QED
      BY <3>1, <1>1, <2>1
  <2>2. CASE j >= i
    <3>1. RemoveAt(s, i)[j] = b[j - (i - 1)]
      BY <1>1, <1>2, <1>3, <2>2
    <3>2. b[j - (i - 1)] = s[j + 1]
      BY <1>2, <2>2
    <3> QED
      BY <3>1, <3>2
  <2> QED
    BY <2>1, <2>2
<1> QED
  BY <1>4, <1>5
-----------------------------------------------------------------------------
(* Types                                                                    *)

(* The initial state has the types.                                         *)
LEMMA TypeInit == Init => TypeOK
PROOF
<1> SUFFICES ASSUME Init PROVE TypeOK
  OBVIOUS
<1>1. position \in Frames /\ pts \in 0 .. MaxPos + 1
  BY Numbers DEF Init
<1>2. /\ net \in Seq(Frames \cup {Bye}) /\ Len(net) <= NetSize
      /\ socket \in Seq(Frames \cup {Bye, Bad}) /\ Len(socket) <= SocketSize
  BY Numbers DEF Init
<1>3. udp_master_position \in Frames \cup {FirstPosition}
  BY DEF Init
<1>4. seeks \in 0 .. MaxSeeks /\ faults \in 0 .. MaxFaults
  BY Numbers DEF Init
<1> QED
  BY <1>1, <1>2, <1>3, <1>4 DEF Init, TypeOK

(* The end of udp_slave_sync.                                               *)
LEMMA HeardStep ==
  ASSUME TypeOK, Heard
  PROVE  timed_out' \in BOOLEAN /\ faults' \in 0 .. MaxFaults
PROOF
<1>1. timed_out' \in BOOLEAN
  BY DEF Heard
<1>2. faults' \in 0 .. MaxFaults
  BY Numbers DEF Heard, Silence, Fault, TypeOK
<1> QED
  BY <1>1, <1>2

(* Every step keeps the types.                                              *)
LEMMA TypeStep == TypeOK /\ [Next]_vars => TypeOK'
PROOF
<1> SUFFICES ASSUME TypeOK, [Next]_vars PROVE TypeOK'
  OBVIOUS
<1> USE Numbers
<1>1. ASSUME MasterFrame PROVE TypeOK'
  <2>1. position \in Frames /\ send_udp(position)
    BY <1>1 DEF MasterFrame, TypeOK
  <2>2. net' \in Seq(Frames \cup {Bye}) /\ Len(net') <= NetSize
    BY <2>1, SendStep
  <2>3. position' \in Frames
    BY <1>1 DEF MasterFrame, TypeOK, Frames
  <2> QED
    BY <1>1, <2>2, <2>3 DEF MasterFrame, TypeOK, slaveVars, countVars
<1>2. CASE MasterSeek
  BY <1>2 DEF MasterSeek, TypeOK, netVars, slaveVars
<1>3. ASSUME MasterEnds PROVE TypeOK'
  <2>1. net' \in Seq(Frames \cup {Bye}) /\ Len(net') <= NetSize
    <3>1. CASE send_udp(Bye)
      BY <3>1, SendStep
    <3>2. CASE UNCHANGED net
      BY <3>2 DEF TypeOK
    <3> QED
      BY <1>3, <3>1, <3>2 DEF MasterEnds
  <2> QED
    BY <1>3, <2>1 DEF MasterEnds, TypeOK, slaveVars, countVars
<1>4. ASSUME Deliver PROVE TypeOK'
  <2>1. PICK i \in 1 .. Len(net) : Arrive(net[i]) /\ net' = RemoveAt(net, i)
    BY <1>4 DEF Deliver
  <2>2. net[i] \in Datagrams
    BY <2>1 DEF TypeOK, Datagrams
  <2>3. socket' \in Seq(Datagrams) /\ Len(socket') <= SocketSize
    BY <2>1, <2>2, ArriveStep
  <2>4. net' \in Seq(Frames \cup {Bye}) /\ Len(net') <= NetSize
    BY <2>1, RemoveStep DEF TypeOK
  <2> QED
    BY <1>4, <2>3, <2>4 DEF Deliver, TypeOK, Datagrams, slaveVars, countVars
<1>5. ASSUME Repeat PROVE TypeOK'
  <2>1. PICK i \in 1 .. Len(net) : Arrive(net[i]) /\ UNCHANGED net
    BY <1>5 DEF Repeat
  <2>2. net[i] \in Datagrams
    BY <2>1 DEF TypeOK, Datagrams
  <2>3. socket' \in Seq(Datagrams) /\ Len(socket') <= SocketSize
    BY <2>1, <2>2, ArriveStep
  <2> QED
    BY <1>5, <2>1, <2>3 DEF Repeat, Fault, TypeOK, Datagrams, slaveVars
<1>6. ASSUME ArriveBad PROVE TypeOK'
  <2>1. socket' \in Seq(Datagrams) /\ Len(socket') <= SocketSize
    BY <1>6, ArriveStep DEF ArriveBad, Datagrams
  <2> QED
    BY <1>6, <2>1 DEF ArriveBad, Fault, TypeOK, Datagrams, slaveVars
<1>7. ASSUME udp_slave_sync PROVE TypeOK'
  <2>1. CASE socket = <<>>
    BY <1>7, <2>1 DEF udp_slave_sync, TypeOK, countVars
  <2>2. CASE socket # <<>>
    <3>1. get_udp
      BY <1>7, <2>2 DEF udp_slave_sync
    <3> QED
      BY <1>7, <3>1, GetUdpStep DEF udp_slave_sync, TypeOK, Datagrams, countVars
  <2> QED
    BY <2>1, <2>2
<1>8. CASE SlaveSeeks
  <2>1. timed_out' \in BOOLEAN /\ faults' \in 0 .. MaxFaults
    BY <1>8, HeardStep DEF SlaveSeeks
  <2> QED
    BY <1>8, <2>1 DEF SlaveSeeks, TypeOK, netVars
<1>9. CASE SlaveShows
  <2>1. timed_out' \in BOOLEAN /\ faults' \in 0 .. MaxFaults
    BY <1>9, HeardStep DEF SlaveShows
  <2>2. ahead' \in BOOLEAN
    BY <1>9 DEF SlaveShows
  <2>3. pts' \in 0 .. MaxPos + 1
    BY <1>9 DEF SlaveShows, NextFrame, TypeOK
  <2> QED
    BY <1>9, <2>1, <2>2, <2>3 DEF SlaveShows, TypeOK, netVars
<1>10. CASE SlaveWaits
  BY <1>10 DEF SlaveWaits, TypeOK, netVars, countVars
<1>11. ASSUME SlaveReceives PROVE TypeOK'
  <2>1. get_udp
    BY <1>11 DEF SlaveReceives
  <2> QED
    BY <1>11, <2>1, GetUdpStep DEF SlaveReceives, TypeOK, Datagrams, countVars
<1>12. CASE SlaveAlone
  BY <1>12 DEF SlaveAlone, NextFrame, TypeOK, netVars, countVars
<1>13. CASE SlaveExits
  BY <1>13 DEF SlaveExits, TypeOK, netVars, countVars
<1>14. CASE SlaveSought
  BY <1>14 DEF SlaveSought, TypeOK, Frames, netVars, countVars
<1>15. CASE SlaveTimesOut
  BY <1>15 DEF SlaveTimesOut, Silence, Fault, TypeOK, netVars
<1>16. CASE UNCHANGED vars
  BY <1>16 DEF vars, TypeOK
<1> QED
  BY <1>1, <1>2, <1>3, <1>4, <1>5, <1>6, <1>7, <1>8, <1>9, <1>10, <1>11, <1>12, <1>13,
     <1>14, <1>15, <1>16 DEF Next, SlaveStep
-----------------------------------------------------------------------------
(* The slave is never ahead                                                 *)

(* At the start nothing is under way and the slave knows no position.       *)
LEMMA BehindInit == Init => Behind
PROOF BY Numbers DEF Init, Behind

(* Every step keeps the positions that are known behind the master's.       *)
LEMMA BehindStep == TypeOK /\ Behind /\ [Next]_vars => Behind'
PROOF
<1> SUFFICES ASSUME TypeOK, Behind, [Next]_vars, seeks' = 0
             PROVE  /\ \A i \in 1 .. Len(net') : net'[i] <= position'
                    /\ \A i \in 1 .. Len(socket') : socket'[i] <= position'
                    /\ udp_master_position' <= position'
  BY DEF Behind
<1> USE Numbers
<1>0. /\ position \in Nat /\ udp_master_position \in Int /\ seeks \in Nat
      /\ \A i \in 1 .. Len(net) : net[i] \in Int
      /\ \A i \in 1 .. Len(socket) : socket[i] \in Int
  <2>1. Frames \cup {Bye} \subseteq Int /\ Frames \cup {Bye, Bad} \subseteq Int
    BY DEF Bye, Bad
  <2>2. position \in Nat /\ udp_master_position \in Int
    BY DEF TypeOK
  <2>3. seeks \in Nat
    BY DEF TypeOK
  <2>4. net \in Seq(Frames \cup {Bye}) /\ socket \in Seq(Frames \cup {Bye, Bad})
    BY DEF TypeOK
  <2>5. \A i \in 1 .. Len(net) : net[i] \in Frames \cup {Bye}
    BY <2>4
  <2>6. \A i \in 1 .. Len(socket) : socket[i] \in Frames \cup {Bye, Bad}
    BY <2>4
  <2> QED
    BY <2>1, <2>2, <2>3, <2>5, <2>6
<1>a. seeks = 0
  BY <1>0 DEF Next, SlaveStep, MasterFrame, MasterSeek, MasterEnds, Deliver, Repeat,
     ArriveBad, udp_slave_sync, SlaveSeeks, SlaveShows, SlaveWaits, SlaveReceives,
     SlaveAlone, SlaveExits, SlaveSought, SlaveTimesOut, countVars, vars
<1>b. /\ \A i \in 1 .. Len(net) : net[i] <= position
      /\ \A i \in 1 .. Len(socket) : socket[i] <= position
      /\ udp_master_position <= position
  BY <1>a DEF Behind
<1>1. CASE MasterFrame
  <2>1. position \in Frames /\ send_udp(position)
    BY <1>1 DEF MasterFrame, TypeOK
  <2>2. \A i \in 1 .. Len(net') :
          net'[i] = position \/ \E j \in 1 .. Len(net) : net'[i] = net[j]
    BY <2>1, SendStep
  <2>3. position' \in Nat /\ position <= position'
    BY <1>1, <1>0 DEF MasterFrame
  <2>4. \A i \in 1 .. Len(net') : net'[i] <= position'
    BY <2>2, <2>3, <1>0, <1>b
  <2> QED
    BY <1>1, <1>0, <1>b, <2>3, <2>4 DEF MasterFrame, slaveVars
<1>2. CASE MasterSeek
  BY <1>2, <1>a DEF MasterSeek
<1>3. CASE MasterEnds
  <2>1. \A i \in 1 .. Len(net') : net'[i] <= position
    <3>1. CASE send_udp(Bye)
      <4>1. \A i \in 1 .. Len(net') :
              net'[i] = Bye \/ \E j \in 1 .. Len(net) : net'[i] = net[j]
        BY <3>1, SendStep
      <4> QED
        BY <4>1, <1>0, <1>b DEF Bye
    <3>2. CASE UNCHANGED net
      BY <3>2, <1>b
    <3> QED
      BY <1>3, <3>1, <3>2 DEF MasterEnds
  <2> QED
    BY <1>3, <2>1, <1>b DEF MasterEnds, slaveVars
<1>4. CASE Deliver
  <2>1. PICK i \in 1 .. Len(net) : Arrive(net[i]) /\ net' = RemoveAt(net, i)
    BY <1>4 DEF Deliver
  <2>2. net[i] \in Datagrams
    BY <2>1 DEF TypeOK, Datagrams
  <2>3. \A j \in 1 .. Len(socket') :
          socket'[j] = net[i] \/ \E l \in 1 .. Len(socket) : socket'[j] = socket[l]
    BY <2>1, <2>2, ArriveStep
  <2>4. \A j \in 1 .. Len(net') : \E l \in 1 .. Len(net) : net'[j] = net[l]
    <3> DEFINE S == Frames \cup {Bye}
    <3>1. net \in Seq(S)
      BY DEF TypeOK
    <3> HIDE DEF S
    <3>2. /\ Len(RemoveAt(net, i)) = Len(net) - 1
          /\ \A j \in 1 .. Len(net) - 1 :
               \E l \in 1 .. Len(net) : RemoveAt(net, i)[j] = net[l]
      BY <3>1, RemoveStep
    <3> QED
      BY <2>1, <3>2
  <2> QED
    BY <1>4, <2>3, <2>4, <1>b DEF Deliver, slaveVars
<1>5. CASE Repeat
  <2>1. PICK i \in 1 .. Len(net) : Arrive(net[i]) /\ UNCHANGED net
    BY <1>5 DEF Repeat
  <2>2. net[i] \in Datagrams
    BY <2>1 DEF TypeOK, Datagrams
  <2>3. \A j \in 1 .. Len(socket') :
          socket'[j] = net[i] \/ \E l \in 1 .. Len(socket) : socket'[j] = socket[l]
    BY <2>1, <2>2, ArriveStep
  <2> QED
    BY <1>5, <2>1, <2>3, <1>b DEF Repeat, slaveVars
<1>6. CASE ArriveBad
  <2>1. \A j \in 1 .. Len(socket') :
          socket'[j] = Bad \/ \E l \in 1 .. Len(socket) : socket'[j] = socket[l]
    BY <1>6, ArriveStep DEF ArriveBad, Datagrams
  <2> QED
    BY <1>6, <2>1, <1>0, <1>b DEF ArriveBad, Bad, slaveVars
<1>7. ASSUME get_udp, UNCHANGED <<position, net>>
      PROVE  /\ \A i \in 1 .. Len(net') : net'[i] <= position'
             /\ \A i \in 1 .. Len(socket') : socket'[i] <= position'
             /\ udp_master_position' <= position'
  <2>1. /\ \A i \in 1 .. Len(socket') : \E j \in 1 .. Len(socket) : socket'[i] = socket[j]
        /\ \/ udp_master_position' \in {0, udp_master_position}
           \/ \E j \in 1 .. Len(socket) :
                socket[j] \in Frames /\ udp_master_position' = socket[j]
    BY <1>7, GetUdpStep
  <2> QED
    BY <1>7, <2>1, <1>0, <1>b
<1>8. CASE udp_slave_sync
  BY <1>8, <1>7, <1>b DEF udp_slave_sync
<1>9. CASE SlaveReceives
  BY <1>9, <1>7 DEF SlaveReceives
<1>10. CASE \/ SlaveSeeks \/ SlaveShows \/ SlaveWaits \/ SlaveAlone \/ SlaveExits
            \/ SlaveSought \/ SlaveTimesOut \/ UNCHANGED vars
  BY <1>10, <1>b DEF SlaveSeeks, SlaveShows, SlaveWaits, SlaveAlone, SlaveExits, SlaveSought,
     SlaveTimesOut, netVars, vars
<1> QED
  BY <1>1, <1>2, <1>3, <1>4, <1>5, <1>6, <1>8, <1>9, <1>10 DEF Next, SlaveStep

(* Only SlaveShows could set the mark, and then the position that let the   *)
(* frame through is not ahead of the master.                                *)
LEMMA AheadStep == TypeOK /\ Behind /\ NeverAhead /\ [Next]_vars => NeverAhead'
PROOF
<1> SUFFICES ASSUME TypeOK, Behind, NeverAhead, [Next]_vars PROVE NeverAhead'
  OBVIOUS
<1>1. CASE SlaveShows
  <2>1. seeks = 0 => pts <= position
    <3>1. position \in Int /\ pts \in Int /\ udp_master_position \in Int
      BY Numbers DEF TypeOK
    <3> QED
      BY <1>1, <3>1 DEF SlaveShows, InStep, Behind
  <2>2. ~(seeks = 0 /\ pts > position)
    BY <2>1, Numbers DEF TypeOK
  <2> QED
    BY <1>1, <2>2 DEF SlaveShows, NeverAhead
<1>2. CASE ~SlaveShows
  <2>1. ahead' = ahead
    BY <1>2 DEF Next, SlaveStep, MasterFrame, MasterSeek, MasterEnds, Deliver, Repeat,
       ArriveBad, udp_slave_sync, SlaveSeeks, SlaveWaits, SlaveReceives, SlaveAlone,
       SlaveExits, SlaveSought, SlaveTimesOut, slaveVars, vars
  <2> QED
    BY <2>1 DEF NeverAhead
<1> QED
  BY <1>1, <1>2
-----------------------------------------------------------------------------
(* Positions, datagrams and the state of both players keep their types for  *)
(* every medium, threshold, network and number of faults.                   *)
THEOREM UdpTypeCorrect == Spec => []TypeOK
PROOF BY TypeInit, TypeStep, PTL DEF Spec

(* Until the master seeks, udp_slave_sync never shows in step a frame that  *)
(* the master has not come to, however many datagrams are lost, repeated,   *)
(* overtaken or nonsense.                                                   *)
THEOREM NeverAheadCorrect == Spec => []NeverAhead
PROOF
<1>1. Init => UdpInv
  BY TypeInit, BehindInit DEF Init, UdpInv, NeverAhead
<1>2. UdpInv /\ [Next]_vars => UdpInv'
  BY TypeStep, BehindStep, AheadStep DEF UdpInv
<1>3. UdpInv => NeverAhead
  BY DEF UdpInv
<1> QED
  BY <1>1, <1>2, <1>3, PTL DEF Spec
=============================================================================
