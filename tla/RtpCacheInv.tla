---------------------------- MODULE RtpCacheInv ----------------------------
(***************************************************************************)
(* Invariants of the RTP receiver from which its properties are proved.     *)
(***************************************************************************)
EXTENDS RtpCache

(* Slots count around the ring: the one that is k after slot f.             *)
Place(f, k) == (f + k) % N
At(k)       == Place(first, k)

(* In a ring that starts at slot f, what waits k slots after f is what the  *)
(* sequence number k after the expected one belongs to.                     *)
WaitsAt(sl, sq, f, k) ==
  LET i == Place(f, k) IN
    sl[i] # Empty => number[sl[i]] = sq[f] + k /\ sq[i] = sq[f] + k

Ring(sl, sq, f) == \A k \in Slots : WaitsAt(sl, sq, f, k)

(* What was handed out is before the expected packet.                       *)
Passed == \A j \in 1 .. Len(out) : number[out[j]] < seq[first]

(* Before the first packet nothing waits and nothing was handed out.        *)
RingInv ==
  /\ is_first => out = <<>> /\ \A i \in Slots : slot[i] = Empty
  /\ ~is_first => Passed /\ Ring(slot, seq, first)

(* The sender numbers its packets evenly, the number after the last one     *)
(* does not wrap, and neither does the expected one, which receptions of    *)
(* nothing also advance.                                                    *)
NumbersRunOn ==
  /\ ~Uneven /\ \A p \in Packets : number[p] < SeqRange - 1
  /\ seq[first] < SeqRange - 1
-----------------------------------------------------------------------------
(* A network that cannot use up the patience of the receive loop: of a ring *)
(* of N slots a wait takes N - 3 at most, and three are left for packets    *)
(* that were ahead when it began and for one that is ahead when it ends.    *)
TameNetwork ==
  /\ Reorder < N
  /\ MaxLost = 0 \/ (2 * Reorder < 3 /\ LossGap + 2 >= N + Reorder)
  /\ 2 * Reorder + 1 + MaxBad + MaxRepeat + MaxLate < 3 * N

(* The sender numbers its packets evenly and does not come near the wrap.   *)
CountsOn ==
  /\ ~Uneven
  /\ \A p \in Packets : number[p] + 2 * Reorder + MaxBad + MaxRepeat + 3 < SeqRange

(* The expected packet, in the sender's order.                              *)
Expected == seq[first] - number[0]

Arrived == Packets \ (wire \cup lost)
Behind(x) == {p \in Arrived : p > x}

(* Packets before the expected one that are yet to arrive, those that the   *)
(* sender never sends included: rtp_get_next has counted them as delivered. *)
Given == (0 .. Expected - 1) \ (Packets \ wire)

Waits(p) == \E i \in Slots : slot[i] = p
NoneWaits == \A i \in Slots : slot[i] = Empty

(* Tries that the call in progress has used.                                *)
Used == IF pc = "get" THEN tries ELSE 0

(* What the network has done so far.                                        *)
NetInv ==
  /\ wire \cap lost = {}
  /\ \A p \in Packets \ wire : p <= Foremost + Reorder
  /\ \A x, y \in lost : x < y => LossGap <= y - x
  /\ MaxLost = 0 => lost = {}

(* Before the first packet every try was in vain.                           *)
FirstInv == Arrived = {} /\ seq[first] + Used <= bad

(* Every packet that has arrived and was not passed waits in the ring, and  *)
(* nothing else.                                                            *)
KeptInv ==
  /\ Arrived # {} /\ Expected > 0
  /\ \A p \in Arrived : p >= Expected => Waits(p)
  /\ \A p \in Packets : Waits(p) => p \in Arrived

(* Behind a packet that is lost there wait no more than the tries of the    *)
(* call that waits for it, and those the network had moved ahead.           *)
BehindInv ==
  \A y \in lost : y >= Expected =>
    Cardinality(Behind(y)) <= Reorder + (IF y = Expected THEN Used ELSE 0)

(* The expected packet runs ahead of the sender only by tries in vain.      *)
GivenInv ==
  Cardinality(Given) + (IF NoneWaits THEN Used ELSE 0) <= Reorder + bad + repeated

CountInv ==
  /\ NetInv
  /\ is_first => FirstInv
  /\ ~is_first => KeptInv /\ BehindInv /\ GivenInv
-----------------------------------------------------------------------------
(* The network can waste fewer tries than a call has.                       *)
Patient == 2 * Reorder + repeated + bad < N - 3

(* Packets that arrived after the first one, which they should have preceded*)
Missed == {p \in Arrived : p < out[1]}

(* Since the first packet every packet before the expected one was handed   *)
(* out or is lost.                                                          *)
NoneSkipped ==
  \A p \in Packets : out[1] < p /\ p < Expected =>
    p \in lost \/ \E j \in 1 .. Len(out) : out[j] = p

SkipInv ==
  ~is_first =>
    /\ out # <<>> /\ \A j \in 1 .. Len(out) : out[j] \in Arrived
    /\ \A p \in Packets \ lost : out[1] <= p + Reorder
    /\ Patient => NoneSkipped
    /\ Patient => Used <= Cardinality(Missed) + Cardinality(Behind(Expected)) + repeated + bad

(* A tame network leaves nothing that was received without a place: what    *)
(* has arrived was handed out, waits in its slot or came too late for the   *)
(* receive loop, and the loop's tries bound how much waits.                 *)
WaitsCounted == TameNetwork /\ CountsOn => CountInv /\ SkipInv
=============================================================================
