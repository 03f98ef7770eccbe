--------------------------- MODULE RtpCacheProofs ---------------------------
(***************************************************************************)
(* Proofs about the RTP receiver for every size of the ring and every number*)
(* of packets: its order on every network that stays within its reach, and  *)
(* that every tame network does.                                            *)
(***************************************************************************)
EXTENDS RtpCacheInv, ProofFacts, FiniteSetTheorems

-----------------------------------------------------------------------------
(* One round of the ring.                                                   *)
LEMMA RingFacts ==
  ASSUME NEW x \in 0 .. 2 * N - 1
  PROVE  x % N \in Slots /\ x % N = IF x < N THEN x ELSE x - N
PROOF
<1>1. N \in Nat /\ N > 3
  BY RtpAssumption
<1>2. CASE x < N
  <2>1. x % N = x
    BY <1>1, <1>2
  <2> QED
    BY <2>1, <1>1, <1>2 DEF Slots
<1>3. CASE ~(x < N)
  <2>1. x \in N .. 2 * N - 1
    BY <1>1, <1>3
  <2>2. x % N = x - N
    BY <1>1, <2>1
  <2> QED
    BY <2>1, <2>2, <1>1, <1>3 DEF Slots
<1> QED
  BY <1>2, <1>3

(* The slots after a slot, one round of them.                               *)
LEMMA PlaceFacts ==
  ASSUME NEW f \in Slots, NEW k \in 0 .. N
  PROVE  Place(f, k) \in Slots /\ Place(f, k) = IF f + k < N THEN f + k ELSE f + k - N
PROOF
<1>1. N \in Nat /\ N > 3 /\ f \in 0 .. N - 1
  BY RtpAssumption DEF Slots
<1>2. f + k \in 0 .. 2 * N - 1
  BY <1>1
<1> DEFINE Once(x) == IF x < N THEN x ELSE x - N
<1>3. \A x \in 0 .. 2 * N - 1 : x % N \in Slots /\ x % N = Once(x)
  BY RingFacts
<1> HIDE DEF Once
<1>4. Place(f, k) \in Slots /\ Place(f, k) = Once(f + k)
  BY <1>2, <1>3, Zenon DEF Place
<1> QED
  BY <1>4, <1>1 DEF Once

(* No two of them are the same.                                             *)
LEMMA PlacesDiffer ==
  ASSUME NEW f \in Slots, NEW j \in Slots, NEW k \in Slots, Place(f, j) = Place(f, k)
  PROVE  j = k
PROOF
<1>1. N \in Nat /\ N > 3 /\ f \in 0 .. N - 1 /\ j \in 0 .. N - 1 /\ k \in 0 .. N - 1
  BY RtpAssumption DEF Slots
<1>2. /\ Place(f, j) = IF f + j < N THEN f + j ELSE f + j - N
      /\ Place(f, k) = IF f + k < N THEN f + k ELSE f + k - N
  BY <1>1, PlaceFacts
<1>3. (IF f + j < N THEN f + j ELSE f + j - N) = (IF f + k < N THEN f + k ELSE f + k - N)
  BY <1>2, Zenon
<1> QED
  BY <1>1, <1>3

(* Every slot is one of them.                                               *)
LEMMA PlacesAll ==
  ASSUME NEW f \in Slots, NEW i \in Slots
  PROVE  \E k \in Slots : Place(f, k) = i
PROOF
<1>1. N \in Nat /\ N > 3 /\ f \in 0 .. N - 1 /\ i \in 0 .. N - 1
  BY RtpAssumption DEF Slots
<1> DEFINE k == IF i >= f THEN i - f ELSE i - f + N
<1>2. k \in Slots /\ k \in 0 .. N /\ (IF f + k < N THEN f + k ELSE f + k - N) = i
  BY <1>1 DEF Slots
<1> HIDE DEF k
<1>3. Place(f, k) = i
  BY <1>2, PlaceFacts
<1> QED
  BY <1>2, <1>3

(* The slot that is k after the slot behind the one that is a after f.      *)
Shifted(f, a, k) == IF a + 1 + k < N THEN Place(f, a + 1 + k) ELSE Place(f, a + 1 + k - N)

(* So it is counted.                                                        *)
LEMMA PlaceShift ==
  ASSUME NEW f \in Slots, NEW a \in Slots, NEW k \in Slots
  PROVE  /\ Place(Place(f, a), 1) \in Slots
         /\ Place(Place(Place(f, a), 1), k) = Shifted(f, a, k)
PROOF
<1>1. /\ N \in Nat /\ N > 3 /\ f \in 0 .. N - 1 /\ a \in 0 .. N - 1 /\ k \in 0 .. N - 1
      /\ 1 \in 0 .. N
  BY RtpAssumption DEF Slots
<1> DEFINE g == Place(f, a)
           h == Place(g, 1)
<1>2. g \in Slots /\ g = IF f + a < N THEN f + a ELSE f + a - N
  BY <1>1, PlaceFacts
<1> HIDE DEF g
<1>3. h \in Slots /\ h = IF g + 1 < N THEN g + 1 ELSE g + 1 - N
  BY <1>1, <1>2, PlaceFacts
<1> HIDE DEF h
<1>4. Place(h, k) = IF h + k < N THEN h + k ELSE h + k - N
  BY <1>1, <1>3, PlaceFacts
<1>5. CASE a + 1 + k < N
  <2>1. a + 1 + k \in 0 .. N
    BY <1>1, <1>5
  <2>2. \A x \in 0 .. N : Place(f, x) = IF f + x < N THEN f + x ELSE f + x - N
    BY PlaceFacts
  <2>3. Place(f, a + 1 + k) =
          IF f + (a + 1 + k) < N THEN f + (a + 1 + k) ELSE f + (a + 1 + k) - N
    BY <2>1, <2>2
  <2>4. Place(h, k) = Place(f, a + 1 + k)
    BY <2>3, <1>1, <1>2, <1>3, <1>4, <1>5 DEF Slots
  <2> QED
    BY <2>4, <1>3, <1>5 DEF h, g, Shifted
<1>6. CASE ~(a + 1 + k < N)
  <2>1. a + 1 + k - N \in 0 .. N
    BY <1>1, <1>6
  <2>2. \A x \in 0 .. N : Place(f, x) = IF f + x < N THEN f + x ELSE f + x - N
    BY PlaceFacts
  <2>3. Place(f, a + 1 + k - N) =
          IF f + (a + 1 + k - N) < N THEN f + (a + 1 + k - N) ELSE f + (a + 1 + k - N) - N
    BY <2>1, <2>2
  <2>4. Place(h, k) = Place(f, a + 1 + k - N)
    BY <2>3, <1>1, <1>2, <1>3, <1>4, <1>6 DEF Slots
  <2> QED
    BY <2>4, <1>3, <1>6 DEF h, g, Shifted
<1> QED
  BY <1>5, <1>6

(* The search for the next slot that is not empty.                          *)
LEMMA AheadFacts ==
  /\ Ahead \in 0 .. N
  /\ Ahead < N => Ahead \in Slots /\ slot[At(Ahead)] # Empty
  /\ \A k \in Slots : k < Ahead => slot[At(k)] = Empty
PROOF
<1> DEFINE S == {k \in Slots : slot[(first + k) % N] # Empty} \cup {N}
<1>0. N \in Nat /\ Slots = 0 .. N - 1
  BY RtpAssumption DEF Slots
<1>1. S \in SUBSET (0 .. N) /\ N \in S
  BY <1>0
<1>2. \E x \in S : \A y \in S : x <= y
  <2>1. S \in SUBSET Nat /\ S # {}
    BY <1>0, <1>1
  <2> HIDE DEF S
  <2> QED
    BY <2>1, LeastElement
<1>3. Ahead = Min(S)
  BY Zenon DEF Ahead
<1>4. \A k : k \in S <=> (k \in Slots /\ slot[At(k)] # Empty) \/ k = N
  BY DEF At, Place
<1> HIDE DEF S
<1>5. Min(S) \in S /\ \A y \in S : Min(S) <= y
  BY <1>2 DEF Min
<1>6. Ahead \in S /\ \A y \in S : Ahead <= y
  BY <1>3, <1>5
<1>7. Ahead \in 0 .. N
  BY <1>1, <1>6
<1>8. Ahead < N => Ahead \in Slots /\ slot[At(Ahead)] # Empty
  BY <1>0, <1>4, <1>6, <1>7
<1>9. ASSUME NEW k \in Slots, k < Ahead PROVE slot[At(k)] = Empty
  <2>1. k \notin S
    BY <1>0, <1>6, <1>7, <1>9
  <2> QED
    BY <2>1, <1>4
<1> QED
  BY <1>7, <1>8, <1>9

(* Sequence numbers count on within their range.                            *)
LEMMA NumberFacts ==
  ASSUME TypeOK
  PROVE  /\ \A p \in Packets : number[p] \in 0 .. SeqRange - 1
         /\ \A s \in 0 .. SeqRange - 1 : Next1(s) \in 0 .. SeqRange - 1
         /\ \A s \in 0 .. SeqRange - 2 : Next1(s) = s + 1
         /\ SeqRange \in Nat /\ N \in Nat /\ N > 3 /\ SeqRange > 4 * N
PROOF
<1>1. SeqRange \in Nat /\ N \in Nat /\ N > 3 /\ SeqRange > 4 * N
  BY RtpAssumption, Zenon
<1>2. number \in [0 .. MaxSent - 1 -> 0 .. SeqRange - 1]
  BY RtpAssumption, Zenon DEF TypeOK
<1>3. ASSUME NEW M \in Nat, M > 0, NEW x \in Nat PROVE x % M \in 0 .. M - 1
  BY <1>3
<1>4. ASSUME NEW s \in 0 .. SeqRange - 1 PROVE Next1(s) \in 0 .. SeqRange - 1
  <2>1. s + 1 \in Nat /\ SeqRange > 0
    BY <1>1
  <2> QED
    BY <2>1, <1>1, <1>3, Zenon DEF Next1
<1>5. ASSUME NEW s \in 0 .. SeqRange - 2 PROVE Next1(s) = s + 1
  <2>1. ASSUME NEW M \in Nat, M > 0, NEW x \in 0 .. M - 1 PROVE x % M = x
    BY <2>1
  <2>2. s + 1 \in 0 .. SeqRange - 1 /\ SeqRange > 0
    BY <1>1
  <2> QED
    BY <2>1, <2>2, <1>1, Zenon DEF Next1
<1> QED
  BY <1>1, <1>2, <1>4, <1>5 DEF Packets
-----------------------------------------------------------------------------
(* Types                                                                    *)

RingType ==
  /\ slot \in [Slots -> Packets \cup {Empty}] /\ seq \in [Slots -> 0 .. SeqRange - 1]
  /\ first \in Slots /\ is_first \in BOOLEAN
  /\ pc \in {"idle", "get"} /\ tries \in 0 .. N - 3 /\ out \in Seq(Packets)

NetType ==
  /\ number \in Numberings /\ wire \subseteq Packets /\ lost \subseteq Packets
  /\ repeated \in 0 .. MaxRepeat /\ bad \in 0 .. MaxBad

(* The type invariant has two parts.                                        *)
LEMMA TypeParts == TypeOK <=> RingType /\ NetType
BY DEF TypeOK, RingType, NetType

(* What the steps do with a packet that is handed out and one that is not.  *)
LEMMA LoopTypes ==
  ASSUME TypeOK, NEW p \in Packets
  PROVE  /\ Feed(p) => pc' = "idle" /\ tries' \in 0 .. N - 3 /\ out' \in Seq(Packets)
         /\ Again /\ TryAgain => pc' = "get" /\ tries' \in 0 .. N - 3 /\ out' \in Seq(Packets)
PROOF
<1>1. out \in Seq(Packets) /\ tries \in 0 .. N - 3 /\ N \in Nat /\ N > 3
  BY NumberFacts DEF TypeOK
<1>2. Append(out, p) \in Seq(Packets)
  BY <1>1
<1>3. Feed(p) => pc' = "idle" /\ tries' \in 0 .. N - 3 /\ out' \in Seq(Packets)
  BY <1>1, <1>2 DEF Feed
<1>4. Again /\ TryAgain => pc' = "get" /\ tries' \in 0 .. N - 3 /\ out' \in Seq(Packets)
  BY <1>1 DEF Again, TryAgain
<1> QED
  BY <1>3, <1>4

(* rtp_cache keeps the types of the ring.                                   *)
LEMMA CacheType ==
  ASSUME TypeOK, TryAgain, NEW p \in Packets, rtp_cache(p)
  PROVE  RingType'
PROOF
<1>1. /\ slot \in [Slots -> Packets \cup {Empty}] /\ seq \in [Slots -> 0 .. SeqRange - 1]
      /\ first \in Slots /\ is_first \in BOOLEAN
  BY DEF TypeOK
<1>2. /\ number[p] \in 0 .. SeqRange - 1 /\ Next1(number[p]) \in 0 .. SeqRange - 1
      /\ N \in Nat /\ N > 3
  BY NumberFacts
<1>3. /\ Feed(p) => pc' = "idle" /\ tries' \in 0 .. N - 3 /\ out' \in Seq(Packets)
      /\ Again => pc' = "get" /\ tries' \in 0 .. N - 3 /\ out' \in Seq(Packets)
  BY LoopTypes
<1>4. 0 \in Slots /\ first + 1 \in 0 .. 2 * N - 1
  BY <1>1, <1>2 DEF Slots
<1>5. \A x \in 0 .. 2 * N - 1 : x % N \in Slots
  BY RingFacts
<1>6. CASE InSequence(p)
  <2>1. /\ is_first' = FALSE /\ first' = (first + 1) % N /\ slot' = slot
        /\ seq' = [seq EXCEPT ![(first + 1) % N] = Next1(number[p])] /\ Feed(p)
    BY <1>6 DEF InSequence
  <2>2. first' \in Slots
    BY <2>1, <1>4, <1>5, Zenon
  <2>3. seq' \in [Slots -> 0 .. SeqRange - 1]
    BY <2>1, <1>1, <1>2
  <2> QED
    BY <2>1, <2>2, <2>3, <1>1, <1>3 DEF RingType
<1>7. CASE Reset(p)
  <2>1. slot' \in [Slots -> Packets \cup {Empty}]
    BY <1>7 DEF Reset
  <2>2. seq' \in [Slots -> 0 .. SeqRange - 1]
    BY <1>1, <1>2, <1>7 DEF Reset
  <2> QED
    BY <2>1, <2>2, <1>1, <1>3, <1>4, <1>7 DEF Reset, RingType
<1>8. CASE DropOld(p)
  <2>1. UNCHANGED ringVars /\ Again
    BY <1>8 DEF DropOld
  <2> QED
    BY <2>1, <1>1, <1>3 DEF ringVars, RingType
<1>9. CASE Store(p)
  <2>1. /\ UNCHANGED <<first, is_first>> /\ Again
        /\ \E k : slot' = [slot EXCEPT ![k] = p] /\ seq' = [seq EXCEPT ![k] = number[p]]
    BY <1>9 DEF Store
  <2>2. slot' \in [Slots -> Packets \cup {Empty}] /\ seq' \in [Slots -> 0 .. SeqRange - 1]
    BY <2>1, <1>1, <1>2
  <2> QED
    BY <2>1, <2>2, <1>1, <1>3 DEF RingType
<1>10. Overrun(p) \/ Underrun(p) => Reset(p)
  BY DEF Overrun, Underrun
<1> QED
  BY <1>6, <1>7, <1>8, <1>9, <1>10 DEF rtp_cache

(* What GetCached does, in terms of the slots after first.                  *)
LEMMA CachedFacts ==
  ASSUME TypeOK, GetCached
  PROVE  LET i == At(Ahead) f == (i + 1) % N IN
           /\ i \in Slots /\ f \in Slots /\ first' = f /\ is_first' = is_first
           /\ slot' = [slot EXCEPT ![i] = Empty]
           /\ seq' = [seq EXCEPT ![f] = Next1(seq[i])]
           /\ slot[i] # Empty => Feed(slot[i])
           /\ slot[i] = Empty => tries' = 0 /\ UNCHANGED <<pc, out>>
           /\ UNCHANGED netVars /\ pc = "get"
PROOF
<1>1. first \in Slots /\ N \in Nat /\ N > 3
  BY NumberFacts DEF TypeOK
<1>2. At(Ahead) \in Slots
  BY <1>1, AheadFacts, PlaceFacts DEF At
<1>3. At(Ahead) + 1 \in 0 .. 2 * N - 1
  BY <1>1, <1>2 DEF Slots
<1>4. \A x \in 0 .. 2 * N - 1 : x % N \in Slots
  BY RingFacts
<1>5. (At(Ahead) + 1) % N \in Slots
  BY <1>3, <1>4, Zenon
<1> QED
  BY <1>2, <1>5 DEF GetCached, At, Place

(* The types of the ring, the receive loop and the network, for every ring  *)
(* size and every network; the receive loop never tries more often than     *)
(* MAXRTPPACKETSIN - 3 times.                                               *)
THEOREM RtpTypeCorrect == Spec => []TypeOK
PROOF
<1>1. ASSUME Init PROVE TypeOK
  <2>1. N \in Nat /\ N > 3 /\ SeqRange \in Nat /\ SeqRange > 4 * N /\ MaxRepeat \in Nat /\ MaxBad \in Nat
    BY RtpAssumption
  <2>2. 0 \in Slots /\ 0 \in 0 .. SeqRange - 1 /\ <<>> \in Seq(Packets)
    BY <2>1 DEF Slots
  <2> QED
    BY <1>1, <2>1, <2>2 DEF Init, TypeOK
<1>2. ASSUME TypeOK, [Next]_vars PROVE TypeOK'
  <2>1. RingType /\ NetType
    BY <1>2, TypeParts
  <2>2. MaxRepeat \in Nat /\ MaxBad \in Nat /\ N \in Nat /\ N > 3
    BY RtpAssumption
  <2>3. CASE UNCHANGED vars
    BY <1>2, <2>3 DEF vars, TypeOK
  <2>4. CASE Read
    <3>1. RingType'
      BY <2>1, <2>2, <2>4 DEF Read, RingType, ringVars
    <3>2. NetType'
      BY <2>1, <2>4 DEF Read, NetType, netVars
    <3> QED
      BY <3>1, <3>2, TypeParts DEF TypeOK, RingType, NetType
  <2>5. CASE Receive
    <3>1. RingType'
      BY <1>2, <2>1, <2>5, CacheType DEF Receive, NetType
    <3>2. NetType'
      BY <2>1, <2>5 DEF Receive, NetType
    <3> QED
      BY <3>1, <3>2 DEF TypeOK, RingType, NetType
  <2>6. CASE ReceiveRepeated
    <3>1. RingType'
      BY <1>2, <2>6, CacheType DEF ReceiveRepeated
    <3>2. NetType'
      BY <2>1, <2>2, <2>6 DEF ReceiveRepeated, NetType
    <3> QED
      BY <3>1, <3>2 DEF TypeOK, RingType, NetType
  <2>7. CASE ReceiveBad
    <3>1. RingType'
      BY <2>1, <2>2, <2>7 DEF ReceiveBad, RingType, ringVars, Again, TryAgain
    <3>2. NetType'
      BY <2>1, <2>2, <2>7 DEF ReceiveBad, NetType
    <3> QED
      BY <3>1, <3>2 DEF TypeOK, RingType, NetType
  <2>8. CASE Lose
    <3>1. RingType'
      BY <2>1, <2>8 DEF Lose, RingType, ringVars
    <3>2. NetType'
      BY <2>1, <2>8 DEF Lose, NetType
    <3> QED
      BY <3>1, <3>2 DEF TypeOK, RingType, NetType
  <2>9. CASE GetCached
    <3> DEFINE i == At(Ahead)
               f == (i + 1) % N
    <3>1. /\ i \in Slots /\ f \in Slots /\ first' = f /\ is_first' = is_first
          /\ slot' = [slot EXCEPT ![i] = Empty] /\ seq' = [seq EXCEPT ![f] = Next1(seq[i])]
          /\ slot[i] # Empty => Feed(slot[i])
          /\ slot[i] = Empty => tries' = 0 /\ UNCHANGED <<pc, out>>
          /\ UNCHANGED netVars
      BY <1>2, <2>9, CachedFacts
    <3> HIDE DEF i, f
    <3>2. slot' \in [Slots -> Packets \cup {Empty}]
      BY <2>1, <3>1 DEF RingType
    <3>3. seq' \in [Slots -> 0 .. SeqRange - 1]
      <4>1. seq[i] \in 0 .. SeqRange - 1
        BY <2>1, <3>1 DEF RingType
      <4>2. Next1(seq[i]) \in 0 .. SeqRange - 1
        BY <1>2, <4>1, NumberFacts
      <4> QED
        BY <2>1, <3>1, <4>2 DEF RingType
    <3>4. pc' \in {"idle", "get"} /\ tries' \in 0 .. N - 3 /\ out' \in Seq(Packets)
      <4>1. CASE slot[i] # Empty
        <5>1. slot[i] \in Packets
          BY <2>1, <3>1, <4>1 DEF RingType
        <5> QED
          BY <5>1, <3>1, <4>1, <1>2, LoopTypes
      <4>2. CASE slot[i] = Empty
        BY <2>1, <2>2, <3>1, <4>2 DEF RingType
      <4> QED
        BY <4>1, <4>2
    <3>5. RingType'
      BY <2>1, <3>1, <3>2, <3>3, <3>4 DEF RingType
    <3>6. NetType'
      BY <2>1, <3>1 DEF NetType, netVars
    <3> QED
      BY <3>5, <3>6 DEF TypeOK, RingType, NetType
  <2>10. CASE SenderStopped
    BY <1>2, <2>10 DEF SenderStopped, vars, TypeOK
  <2> QED
    BY <1>2, <2>3, <2>4, <2>5, <2>6, <2>7, <2>8, <2>9, <2>10 DEF Next
<1> QED
  BY <1>1, <1>2, PTL DEF Spec
-----------------------------------------------------------------------------
(* The order                                                                *)

(* Evenly numbered packets carry the first number and their place.          *)
LEMMA NumberSum ==
  ASSUME TypeOK, ~Uneven, NEW p \in Packets
  PROVE  number[p] = number[0] + p /\ number[0] \in Nat /\ p \in Nat /\ 0 \in Packets
PROOF
<1> DEFINE S == {n \in Nat : n \in Packets => number[n] = number[0] + n}
<1>0. Packets = 0 .. MaxSent - 1 /\ MaxSent \in Nat
  BY RtpAssumption DEF Packets
<1>n. \A r \in Packets : number[r] \in Nat
  BY NumberFacts
<1>1. 0 \in S
  <2>1. 0 \in Packets => number[0] \in Nat
    BY <1>n
  <2> QED
    BY <2>1
<1>2. ASSUME NEW n \in S PROVE n + 1 \in S
  <2> SUFFICES ASSUME n + 1 \in Packets PROVE number[n + 1] = number[0] + (n + 1)
    OBVIOUS
  <2>1. n \in Packets /\ 0 \in Packets /\ n + 1 > 0 /\ (n + 1) - 1 = n
    BY <1>0
  <2>2. \A r \in Packets : r > 0 => number[r] = number[r - 1] + 1
    BY DEF Uneven
  <2>3. number[n + 1] = number[(n + 1) - 1] + 1
    BY <2>1, <2>2
  <2>4. number[n] = number[0] + n /\ number[0] \in Nat
    BY <2>1, <1>n
  <2> QED
    BY <2>1, <2>3, <2>4
<1>3. S \in SUBSET Nat
  OBVIOUS
<1> HIDE DEF S
<1>4. S = Nat
  BY <1>1, <1>2, <1>3, SetInduction
<1>5. \A r \in Packets : number[r] = number[0] + r
  BY <1>0, <1>4 DEF S
<1>6. 0 \in Packets /\ p \in Nat
  BY <1>0
<1> QED
  BY <1>5, <1>6, <1>n

(* Evenly numbered packets are ordered as their numbers are.                *)
LEMMA NumbersInOrder ==
  ASSUME TypeOK, ~Uneven, NEW p \in Packets, NEW q \in Packets
  PROVE  number[p] < number[q] <=> p < q
PROOF
<1>1. number[p] = number[0] + p /\ number[q] = number[0] + q /\ number[0] \in Nat
      /\ p \in Nat /\ q \in Nat
  BY NumberSum
<1> QED
  BY <1>1

(* The expected packet is moved on past the slot that is a after first, up  *)
(* to which all are empty.                                                  *)
LEMMA Advance ==
  ASSUME TypeOK, Ring(slot, seq, first), NEW a \in Slots, NEW f, f = Place(At(a), 1),
         \A k \in Slots : k < a => slot[At(k)] = Empty,
         NEW sl, sl = [slot EXCEPT ![At(a)] = Empty],
         NEW sq, sq = [seq EXCEPT ![f] = seq[first] + a + 1]
  PROVE  Ring(sl, sq, f)
PROOF
<1>1. /\ slot \in [Slots -> Packets \cup {Empty}] /\ seq \in [Slots -> 0 .. SeqRange - 1]
      /\ first \in Slots /\ N \in Nat /\ N > 3 /\ Slots = 0 .. N - 1
  BY NumberFacts DEF TypeOK, Slots
<1>2. seq[first] \in Nat /\ a \in 0 .. N - 1 /\ At(a) \in Slots
  <2>1. a \in 0 .. N
    BY <1>1
  <2> QED
    BY <2>1, <1>1, PlaceFacts DEF At
<1>3. f \in Slots
  BY <1>1, PlaceShift DEF At
<1>4. sq[f] = seq[first] + a + 1 /\ \A i \in Slots : i # f => sq[i] = seq[i]
  BY <1>1, <1>3
<1>5. sl[At(a)] = Empty /\ \A i \in Slots : i # At(a) => sl[i] = slot[i]
  BY <1>1, <1>2
<1>6. SUFFICES ASSUME NEW k \in Slots, sl[Place(f, k)] # Empty
               PROVE  /\ number[sl[Place(f, k)]] = sq[f] + k
                      /\ sq[Place(f, k)] = sq[f] + k
  BY DEF Ring, WaitsAt
<1>7. Place(f, k) = IF a + 1 + k < N THEN Place(first, a + 1 + k) ELSE Place(first, a + 1 + k - N)
  <2>1. f = Place(Place(first, a), 1)
    BY DEF At
  <2>2. Place(Place(Place(first, a), 1), k) = Shifted(first, a, k)
    BY <1>1, PlaceShift, Zenon
  <2>3. Place(f, k) = Shifted(first, a, k)
    BY <2>1, <2>2, Zenon
  <2> QED
    BY <2>3, Zenon DEF Shifted
<1>8. k \in 0 .. N - 1
  BY <1>1
<1>9. CASE a + 1 + k < N
  <2> DEFINE m == a + 1 + k
  <2>1. m \in Slots /\ m \in 0 .. N /\ m # a
    BY <1>1, <1>2, <1>8, <1>9
  <2>2. Place(f, k) = At(m)
    BY <1>7, <1>9 DEF At
  <2> HIDE DEF m
  <2>3. At(m) \in Slots /\ At(m) # At(a)
    BY <2>1, <1>1, PlaceFacts, PlacesDiffer DEF At
  <2>4. sl[At(m)] = slot[At(m)] /\ slot[At(m)] # Empty
    BY <2>2, <2>3, <1>5, <1>6
  <2>5. number[slot[At(m)]] = seq[first] + m /\ seq[At(m)] = seq[first] + m
    BY <2>1, <2>4 DEF Ring, WaitsAt, At
  <2>6. seq[first] + m = sq[f] + k
    BY <1>2, <1>4, <1>8 DEF m
  <2>7. sq[At(m)] = seq[first] + m
    <3>1. CASE At(m) = f
      <4>0. 0 \in Slots
        BY <1>1
      <4>1. Place(f, 0) = f
        <5>1. 0 \in 0 .. N /\ (IF f + 0 < N THEN f + 0 ELSE f + 0 - N) = f
          BY <1>1, <1>3
        <5> QED
          BY <5>1, <1>3, PlaceFacts
      <4>2. k = 0
        BY <4>0, <4>1, <3>1, <2>2, <1>3, PlacesDiffer
      <4> QED
        BY <4>2, <3>1, <1>2, <1>4 DEF m
    <3>2. CASE At(m) # f
      BY <3>2, <2>3, <2>5, <1>4
    <3> QED
      BY <3>1, <3>2
  <2> QED
    BY <2>2, <2>4, <2>5, <2>6, <2>7
<1>10. CASE ~(a + 1 + k < N)
  <2> DEFINE m == a + 1 + k - N
  <2>1. m \in Slots /\ m <= a /\ m \in 0 .. N
    BY <1>1, <1>2, <1>8, <1>10
  <2>2. Place(f, k) = At(m)
    BY <1>7, <1>10 DEF At
  <2> HIDE DEF m
  <2>3. CASE m = a
    BY <2>2, <2>3, <1>5, <1>6
  <2>4. CASE m # a
    <3>1. slot[At(m)] = Empty /\ At(m) \in Slots
      <4>1. m < a
        BY <2>1, <2>4, <1>1, <1>2
      <4> QED
        BY <4>1, <2>1, <1>1, PlaceFacts DEF At
    <3> QED
      BY <3>1, <2>2, <1>5, <1>6
  <2> QED
    BY <2>3, <2>4
<1> QED
  BY <1>9, <1>10

(* A ring in which nothing waits is in order.                               *)
LEMMA EmptyRing ==
  ASSUME NEW sl, NEW sq, NEW f \in Slots, \A i \in Slots : sl[i] = Empty
  PROVE  Ring(sl, sq, f)
PROOF
<1>1. ASSUME NEW k \in Slots PROVE Place(f, k) \in Slots
  <2>1. k \in 0 .. N
    BY RtpAssumption DEF Slots
  <2> QED
    BY <2>1, PlaceFacts
<1> QED
  BY <1>1 DEF Ring, WaitsAt

(* A packet that is handed out comes after all that were before.            *)
LEMMA HandOut ==
  ASSUME TypeOK, ~Uneven, InOrder, NEW p \in Packets,
         \A j \in 1 .. Len(out) : number[out[j]] < number[p],
         Feed(p), number' = number, seq'[first'] = number[p] + 1
  PROVE  InOrder' /\ Passed'
PROOF
<1>1. out \in Seq(Packets) /\ out' = Append(out, p)
  BY DEF TypeOK, Feed
<1>2. /\ out' \in Seq(Packets) /\ Len(out') = Len(out) + 1 /\ Len(out) \in Nat
      /\ \A j \in 1 .. Len(out) : out'[j] = out[j]
      /\ out'[Len(out) + 1] = p
  BY <1>1
<1>3. \A r \in Packets : number[r] \in Int
  BY NumberFacts
<1>4. ASSUME NEW j \in 1 .. Len(out)
      PROVE  out[j] \in Packets /\ out[j] < p /\ number[out[j]] < number[p] + 1
  <2>1. out[j] \in Packets
    BY <1>1
  <2>2. number[out[j]] < number[p]
    OBVIOUS
  <2>3. number[out[j]] \in Int /\ number[p] \in Int
    BY <2>1, <1>3
  <2>4. out[j] < p
    BY <2>1, <2>2, NumbersInOrder
  <2> QED
    BY <2>1, <2>2, <2>3, <2>4
<1>5. Passed'
  <2> SUFFICES ASSUME NEW j \in 1 .. Len(out') PROVE number[out'[j]] < number[p] + 1
    BY DEF Passed
  <2>1. CASE j = Len(out) + 1
    BY <2>1, <1>2, <1>3
  <2>2. CASE j # Len(out) + 1
    <3>1. j \in 1 .. Len(out)
      BY <2>2, <1>2
    <3> QED
      BY <3>1, <1>2, <1>4
  <2> QED
    BY <2>1, <2>2
<1>6. InOrder'
  <2> SUFFICES ASSUME NEW i \in 1 .. Len(out'), NEW j \in 1 .. Len(out'), i < j
               PROVE  out'[i] < out'[j]
    BY DEF InOrder
  <2>1. i \in 1 .. Len(out) /\ out'[i] = out[i]
    BY <1>2
  <2>2. CASE j = Len(out) + 1
    BY <2>1, <2>2, <1>2, <1>4
  <2>3. CASE j # Len(out) + 1
    <3>1. j \in 1 .. Len(out) /\ out'[j] = out[j]
      BY <2>3, <1>2
    <3> QED
      BY <2>1, <3>1 DEF InOrder
  <2> QED
    BY <2>2, <2>3
<1> QED
  BY <1>5, <1>6

(* The ring in the next state, while the numbering stays the same.          *)
LEMMA SameNumbers ==
  ASSUME number' = number
  PROVE  Ring(slot, seq, first)' <=> Ring(slot', seq', first')
BY DEF Ring, WaitsAt, Place

(* rtp_cache keeps the ring and the order when the packet is within reach.  *)
LEMMA CacheStep ==
  ASSUME TypeOK, RingInv, InOrder, NumbersRunOn, TryAgain, NEW p \in Packets, rtp_cache(p),
         ~is_first => Newseq(p) # N /\ (Newseq(p) < 0 => Dropped(p)), number' = number
  PROVE  RingInv' /\ InOrder'
PROOF
<1>1. /\ slot \in [Slots -> Packets \cup {Empty}] /\ seq \in [Slots -> 0 .. SeqRange - 1]
      /\ first \in Slots /\ is_first \in BOOLEAN /\ out \in Seq(Packets)
  BY DEF TypeOK
<1>2. N \in Nat /\ N > 3 /\ Slots = 0 .. N - 1 /\ 0 \in Slots /\ SeqRange \in Nat
  BY NumberFacts DEF Slots
<1>3. number[p] \in Nat /\ seq[first] \in Nat /\ number[p] \in 0 .. SeqRange - 2
  <2>1. number[p] \in 0 .. SeqRange - 1 /\ number[p] < SeqRange - 1
    BY NumberFacts DEF NumbersRunOn
  <2>2. seq[first] \in 0 .. SeqRange - 1
    BY <1>1
  <2> QED
    BY <2>1, <2>2, <1>2
<1>4. Next1(number[p]) = number[p] + 1
  BY <1>3, NumberFacts
<1>5. ~Uneven /\ slot[first] = Empty
  BY DEF NumbersRunOn, TryAgain
<1>6. ASSUME NEW j \in 1 .. Len(out) PROVE number[out[j]] \in Nat /\ number[out[j]] < seq[first]
  <2>1. ~is_first
    BY <1>6 DEF RingInv
  <2>2. out[j] \in Packets
    BY <1>1
  <2> QED
    BY <2>1, <2>2, NumberFacts DEF RingInv, Passed
<1>7. ASSUME number[p] >= seq[first] \/ is_first, NEW j \in 1 .. Len(out)
      PROVE  number[out[j]] < number[p]
  <2>1. ~is_first
    BY <1>7 DEF RingInv
  <2> QED
    BY <2>1, <1>3, <1>6, <1>7
<1>8. CASE InSequence(p)
  <2> DEFINE f == Place(first, 1)
  <2>1. /\ is_first' = FALSE /\ first' = f /\ slot' = slot /\ Feed(p)
        /\ seq' = [seq EXCEPT ![f] = number[p] + 1] /\ (Newseq(p) = 0 \/ is_first)
    BY <1>4, <1>8 DEF InSequence, Place
  <2>2. f \in Slots
    <3>1. 1 \in 0 .. N
      BY <1>2
    <3> QED
      BY <3>1, <1>1, PlaceFacts
  <2> HIDE DEF f
  <2>3. seq'[first'] = number[p] + 1
    BY <2>1, <2>2, <1>1
  <2>4. number[p] = seq[first] \/ is_first
    BY <2>1, <1>3 DEF Newseq
  <2>5. InOrder' /\ Passed'
    <3>1. \A j \in 1 .. Len(out) : number[out[j]] < number[p]
      BY <2>4, <1>3, <1>7
    <3> QED
      BY <3>1, <2>1, <2>3, <1>5, HandOut
  <2>6. Ring(slot', seq', first')
    <3>1. CASE is_first
      <4>1. \A i \in Slots : slot'[i] = Empty
        BY <3>1, <2>1 DEF RingInv
      <4> QED
        BY <4>1, <2>1, <2>2, EmptyRing
    <3>2. CASE ~is_first
      <4>1. Ring(slot, seq, first)
        BY <3>2 DEF RingInv
      <4>2. At(0) = first
        <5>1. 0 \in 0 .. N /\ (IF first + 0 < N THEN first + 0 ELSE first + 0 - N) = first
          BY <1>1, <1>2
        <5> QED
          BY <5>1, <1>1, PlaceFacts DEF At
      <4>3. slot = [slot EXCEPT ![At(0)] = Empty]
        BY <4>2, <1>1, <1>5
      <4>4. f = Place(At(0), 1)
        BY <4>2 DEF f
      <4>5. seq' = [seq EXCEPT ![f] = seq[first] + 0 + 1]
        <5>1. number[p] + 1 = seq[first] + 0 + 1
          BY <2>4, <3>2, <1>3
        <5> QED
          BY <5>1, <2>1, Zenon
      <4>6. \A k \in Slots : k < 0 => slot[At(k)] = Empty
        BY <1>2
      <4>7. ASSUME NEW a \in Slots, NEW g, g = Place(At(a), 1),
                   \A k \in Slots : k < a => slot[At(k)] = Empty,
                   NEW sl, sl = [slot EXCEPT ![At(a)] = Empty],
                   NEW sq, sq = [seq EXCEPT ![g] = seq[first] + a + 1]
            PROVE  Ring(sl, sq, g)
        BY <4>1, <4>7, Advance
      <4>8. Ring(slot, seq', f)
        BY <4>3, <4>4, <4>5, <4>6, <4>7, <1>2, Zenon
      <4> QED
        BY <4>8, <2>1
    <3> QED
      BY <3>1, <3>2
  <2> QED
    BY <2>1, <2>5, <2>6, SameNumbers DEF RingInv
<1>9. CASE Overrun(p)
  <2>1. /\ slot' = [i \in Slots |-> Empty] /\ first' = 0 /\ is_first' = is_first /\ Feed(p)
        /\ seq' = [seq EXCEPT ![0] = number[p] + 1] /\ ~is_first /\ Newseq(p) > N
    BY <1>4, <1>9 DEF Overrun, Reset
  <2>2. seq'[first'] = number[p] + 1
    BY <2>1, <1>1, <1>2
  <2>3. number[p] >= seq[first]
    BY <2>1, <1>2, <1>3 DEF Newseq
  <2>4. InOrder' /\ Passed'
    BY <2>1, <2>2, <2>3, <1>5, <1>7, HandOut
  <2>5. Ring(slot', seq', first')
    BY <2>1, <1>2, EmptyRing
  <2> QED
    BY <2>1, <2>4, <2>5, SameNumbers DEF RingInv
<1>10. CASE DropOld(p)
  <2>1. UNCHANGED <<slot, seq, first, is_first, out>>
    BY <1>10 DEF DropOld, Again, ringVars
  <2>2. Ring(slot', seq', first') <=> Ring(slot, seq, first)
    BY <2>1
  <2>3. Passed' <=> Passed
    BY <2>1 DEF Passed
  <2> QED
    BY <2>1, <2>2, <2>3, SameNumbers DEF RingInv, InOrder
<1>11. CASE Underrun(p)
  BY <1>11 DEF Underrun
<1>12. CASE Store(p)
  <2> DEFINE m == Newseq(p)
             i == Place(first, m)
  <2>1. /\ ~is_first /\ m \in 1 .. N /\ UNCHANGED <<first, is_first, out>>
        /\ slot' = [slot EXCEPT ![i] = p] /\ seq' = [seq EXCEPT ![i] = number[p]]
    <3>1. (m + first) % N = (first + m) % N
      <4>1. m + first = first + m
        BY <1>1, <1>2, <1>3 DEF Newseq
      <4> QED
        BY <4>1
    <3> QED
      BY <3>1, <1>12 DEF Store, Again, Place
  <2>2. m \in Slots /\ m # 0 /\ number[p] = seq[first] + m
    BY <2>1, <1>2, <1>3 DEF Newseq
  <2>3. Ring(slot, seq, first)
    BY <2>1 DEF RingInv
  <2> HIDE DEF m
  <2>4. i \in Slots /\ i # first
    <3>1. m \in 0 .. N
      BY <2>1, <1>2
    <3>2. Place(first, m) \in Slots
          /\ Place(first, m) = IF first + m < N THEN first + m ELSE first + m - N
      BY <3>1, <1>1, PlaceFacts
    <3>3. (IF first + m < N THEN first + m ELSE first + m - N) # first
      BY <2>2, <1>1, <1>2
    <3> QED
      BY <3>2, <3>3
  <2> HIDE DEF i
  <2>5. seq'[first] = seq[first] /\ seq'[i] = number[p] /\ \A x \in Slots : x # i => seq'[x] = seq[x]
    BY <2>1, <2>4, <1>1
  <2>6. slot'[i] = p /\ \A x \in Slots : x # i => slot'[x] = slot[x]
    BY <2>1, <2>4, <1>1
  <2>7. Ring(slot', seq', first)
    <3> SUFFICES ASSUME NEW k \in Slots, slot'[Place(first, k)] # Empty
                 PROVE  /\ number[slot'[Place(first, k)]] = seq'[first] + k
                        /\ seq'[Place(first, k)] = seq'[first] + k
      BY DEF Ring, WaitsAt
    <3>1. Place(first, k) \in Slots
      <4>1. k \in 0 .. N
        BY <1>2
      <4> QED
        BY <4>1, <1>1, PlaceFacts
    <3>2. CASE Place(first, k) = i
      <4>1. k = m
        BY <3>2, <2>2, <1>1, PlacesDiffer DEF i
      <4> QED
        BY <4>1, <3>2, <2>2, <2>5, <2>6
    <3>3. CASE Place(first, k) # i
      <4>1. slot'[Place(first, k)] = slot[Place(first, k)] /\ seq'[Place(first, k)] = seq[Place(first, k)]
        BY <3>1, <3>3, <2>5, <2>6
      <4>2. /\ number[slot[Place(first, k)]] = seq[first] + k
            /\ seq[Place(first, k)] = seq[first] + k
        BY <4>1, <2>3 DEF Ring, WaitsAt
      <4> QED
        BY <4>1, <4>2, <2>5
    <3> QED
      BY <3>2, <3>3
  <2>8. Passed'
    BY <2>1, <2>5 DEF RingInv, Passed
  <2>9. InOrder'
    BY <2>1 DEF InOrder
  <2> QED
    BY <2>1, <2>7, <2>8, <2>9, SameNumbers DEF RingInv
<1> QED
  BY <1>8, <1>9, <1>10, <1>11, <1>12 DEF rtp_cache

(* So does rtp_get_next when it gives up waiting.                           *)
LEMMA CachedStep ==
  ASSUME TypeOK, RingInv, InOrder, NumbersRunOn, GetCached
  PROVE  RingInv' /\ InOrder'
PROOF
<1> DEFINE a == Ahead
           i == At(a)
           f == Place(i, 1)
<1>1. /\ slot \in [Slots -> Packets \cup {Empty}] /\ seq \in [Slots -> 0 .. SeqRange - 1]
      /\ first \in Slots /\ is_first \in BOOLEAN /\ out \in Seq(Packets)
  BY DEF TypeOK
<1>2. N \in Nat /\ N > 3 /\ Slots = 0 .. N - 1 /\ SeqRange \in Nat
  BY NumberFacts DEF Slots
<1>3. /\ i \in Slots /\ f \in Slots /\ first' = f /\ is_first' = is_first /\ number' = number
      /\ slot' = [slot EXCEPT ![i] = Empty] /\ seq' = [seq EXCEPT ![f] = Next1(seq[i])]
      /\ slot[i] # Empty => Feed(slot[i])
      /\ slot[i] = Empty => UNCHANGED out
  BY CachedFacts DEF Place, netVars
<1>4. /\ a \in 0 .. N /\ (a < N => a \in Slots /\ slot[i] # Empty)
      /\ \A k \in Slots : k < a => slot[At(k)] = Empty
  BY AheadFacts
<1>5. seq[first] \in Nat /\ seq[first] \in 0 .. SeqRange - 2
  <2>1. seq[first] \in 0 .. SeqRange - 1 /\ seq[first] < SeqRange - 1
    BY <1>1 DEF NumbersRunOn
  <2> QED
    BY <2>1, <1>2
<1> HIDE DEF a, i, f
<1>6. CASE slot[i] # Empty
  <2> DEFINE p == slot[i]
  <2>1. p \in Packets /\ ~is_first /\ Ring(slot, seq, first) /\ Passed
    BY <1>1, <1>3, <1>6 DEF RingInv
  <2>2. a \in Slots
    <3>1. CASE a < N
      BY <3>1, <1>4
    <3>2. CASE a = N
      <4>1. i = first
        <5>1. N \in 0 .. N /\ (IF first + N < N THEN first + N ELSE first + N - N) = first
          BY <1>1, <1>2
        <5>2. Place(first, N) = first
          BY <5>1, <1>1, PlaceFacts
        <5> QED
          BY <5>2, <3>2 DEF i, At
      <4>2. 0 \in Slots /\ 0 < a /\ At(0) = first
        <5>1. 0 \in 0 .. N /\ (IF first + 0 < N THEN first + 0 ELSE first + 0 - N) = first
          BY <1>1, <1>2
        <5>2. Place(first, 0) = first
          BY <5>1, <1>1, PlaceFacts
        <5> QED
          BY <5>2, <3>2, <1>2 DEF At
      <4>3. slot[first] = Empty
        BY <4>2, <1>4
      <4> QED
        BY <4>1, <4>3, <1>6
    <3> QED
      BY <3>1, <3>2, <1>2, <1>4
  <2>3. number[p] = seq[first] + a /\ seq[i] = seq[first] + a
    BY <2>1, <2>2, <1>6 DEF Ring, WaitsAt, i, At
  <2>4. number[p] \in 0 .. SeqRange - 2 /\ a \in Nat
    <3>1. number[p] \in 0 .. SeqRange - 1 /\ number[p] < SeqRange - 1
      BY <2>1, NumberFacts DEF NumbersRunOn
    <3> QED
      BY <3>1, <2>2, <1>2
  <2>5. Next1(seq[i]) = number[p] + 1
    BY <2>3, <2>4, NumberFacts
  <2>6. seq'[first'] = number[p] + 1
    BY <2>5, <1>1, <1>3
  <2>7. ASSUME NEW j \in 1 .. Len(out) PROVE number[out[j]] < number[p]
    <3>1. out[j] \in Packets /\ number[out[j]] < seq[first]
      BY <2>1, <1>1 DEF Passed
    <3>2. number[out[j]] \in Nat
      BY <3>1, NumberFacts
    <3> QED
      BY <3>1, <3>2, <2>3, <2>4, <1>5
  <2>8. InOrder' /\ Passed'
    <3>1. Feed(p) /\ ~Uneven
      BY <1>3, <1>6 DEF NumbersRunOn
    <3> HIDE DEF p
    <3> QED
      BY <3>1, <2>1, <2>6, <2>7, <1>3, HandOut
  <2>9. Ring(slot', seq', f)
    <3>1. seq' = [seq EXCEPT ![f] = seq[first] + a + 1]
      <4>1. Next1(seq[i]) = seq[first] + a + 1
        BY <2>3, <2>4, <2>5, <1>5
      <4> QED
        BY <4>1, <1>3, Zenon
    <3>2. ASSUME NEW b \in Slots, NEW g, g = Place(At(b), 1),
                 \A k \in Slots : k < b => slot[At(k)] = Empty,
                 NEW sl, sl = [slot EXCEPT ![At(b)] = Empty],
                 NEW sq, sq = [seq EXCEPT ![g] = seq[first] + b + 1]
          PROVE  Ring(sl, sq, g)
      BY <2>1, <3>2, Advance
    <3>3. f = Place(At(a), 1) /\ slot' = [slot EXCEPT ![At(a)] = Empty]
      BY <1>3, Zenon DEF f, i
    <3> QED
      BY <3>1, <3>2, <3>3, <2>2, <1>4, Zenon
  <2> QED
    BY <2>1, <2>8, <2>9, <1>3, SameNumbers DEF RingInv
<1>7. CASE slot[i] = Empty
  <2>1. a = N
    BY <1>2, <1>4, <1>7
  <2>2. i = first
    <3>1. N \in 0 .. N /\ (IF first + N < N THEN first + N ELSE first + N - N) = first
      BY <1>1, <1>2
    <3>2. Place(first, N) = first
      BY <3>1, <1>1, PlaceFacts
    <3> QED
      BY <3>2, <2>1 DEF i, At
  <2>3. \A x \in Slots : slot[x] = Empty
    <3>1. \A k \in Slots : slot[Place(first, k)] = Empty
      BY <2>1, <1>2, <1>4 DEF At
    <3> QED
      BY <3>1, <1>1, PlacesAll
  <2>4. \A x \in Slots : slot'[x] = Empty
    BY <2>3, <1>1, <1>3
  <2>5. Ring(slot', seq', f)
    BY <2>4, <1>3, EmptyRing
  <2>6. seq'[f] = seq[first] + 1
    <3>1. Next1(seq[i]) = seq[first] + 1
      BY <2>2, <1>5, NumberFacts
    <3> QED
      BY <3>1, <1>1, <1>3
  <2>7. Passed => Passed'
    <3> SUFFICES ASSUME Passed, NEW j \in 1 .. Len(out) PROVE number[out[j]] < seq[first] + 1
      BY <2>6, <1>3, <1>7 DEF Passed
    <3>1. out[j] \in Packets /\ number[out[j]] < seq[first]
      BY <1>1 DEF Passed
    <3>2. number[out[j]] \in Nat
      BY <3>1, NumberFacts
    <3> QED
      BY <3>1, <3>2, <1>5
  <2>8. out' = out /\ InOrder'
    BY <1>3, <1>7 DEF InOrder
  <2> QED
    BY <2>4, <2>5, <2>7, <2>8, <1>3, SameNumbers DEF RingInv
<1> QED
  BY <1>6, <1>7

(* Every step keeps the ring and the order.                                 *)
LEMMA OrderStep ==
  ASSUME TypeOK, RingInv, InOrder, NumbersRunOn, InReach, [Next]_vars
  PROVE  RingInv' /\ InOrder'
PROOF
<1>1. ASSUME UNCHANGED <<slot, seq, first, is_first, out, number>> PROVE RingInv' /\ InOrder'
  <2>1. Ring(slot', seq', first') <=> Ring(slot, seq, first)
    BY <1>1
  <2>2. Passed' <=> Passed
    BY <1>1 DEF Passed
  <2> QED
    BY <1>1, <2>1, <2>2, SameNumbers DEF RingInv, InOrder
<1>2. ASSUME TryAgain, NEW p \in Packets, CanArrive(p), rtp_cache(p), number' = number
      PROVE  RingInv' /\ InOrder'
  <2>1. ~Uneven
    BY DEF NumbersRunOn
  <2>2. ~is_first => Newseq(p) # N /\ (Newseq(p) < 0 => Dropped(p))
    BY <1>2, <2>1 DEF InReach
  <2> QED
    BY <1>2, <2>2, CacheStep
<1>3. CASE Receive
  <2>1. PICK p \in wire : Arrives(p) /\ rtp_cache(p)
    BY <1>3 DEF Receive
  <2>2. p \in Packets /\ CanArrive(p)
    BY <2>1 DEF TypeOK, CanArrive
  <2> QED
    BY <2>1, <2>2, <1>2, <1>3 DEF Receive
<1>4. CASE ReceiveRepeated
  <2>1. PICK p \in Packets \ (wire \cup lost) : Recent(p) /\ rtp_cache(p)
    BY <1>4 DEF ReceiveRepeated
  <2>2. CanArrive(p)
    BY <2>1, <1>4 DEF ReceiveRepeated, CanArrive
  <2> QED
    BY <2>1, <2>2, <1>2, <1>4 DEF ReceiveRepeated
<1>5. CASE GetCached
  BY <1>5, CachedStep
<1>6. CASE Read \/ ReceiveBad \/ Lose \/ SenderStopped \/ UNCHANGED vars
  <2>1. UNCHANGED <<slot, seq, first, is_first, out, number>>
    BY <1>6 DEF Read, ReceiveBad, Lose, SenderStopped, Again, vars, ringVars, netVars
  <2> QED
    BY <2>1, <1>1
<1> QED
  BY <1>3, <1>4, <1>5, <1>6 DEF Next

(* In the first state nothing waits.                                        *)
LEMMA RingInit == Init => RingInv /\ InOrder
BY DEF Init, RingInv, InOrder

(* The player gets evenly numbered packets in the order they were sent,     *)
(* none of them twice, whatever the network loses, repeats and reorders, as *)
(* long as no packet arrives exactly MAXRTPPACKETSIN ahead of the expected  *)
(* one or so far behind it that the ring starts over (InReach): these are   *)
(* the only two ways in which rtp_cache and rtp_get_next lose the order.    *)
THEOREM OrderCorrect == Spec /\ []NumbersRunOn /\ []InReach => []InOrder
PROOF
<1>1. Init => RingInv /\ InOrder
  BY RingInit
<1>2. TypeOK /\ NumbersRunOn /\ InReach /\ RingInv /\ InOrder /\ [Next]_vars
      => (RingInv /\ InOrder)'
  BY OrderStep
<1> QED
  BY <1>1, <1>2, RtpTypeCorrect, PTL DEF Spec

(* A ring of packets whose numbers run on is in order.                      *)
LEMMA RingPlaces ==
  ASSUME TypeOK, NumbersRunOn, RingInv
  PROVE  RingInOrder
PROOF
<1> SUFFICES ASSUME NEW k \in Slots, slot[Place(first, k)] # Empty
             PROVE  /\ number[slot[Place(first, k)]] = (seq[first] + k) % SeqRange
                    /\ \A j \in 1 .. Len(out) : out[j] < slot[Place(first, k)]
  BY DEF RingInOrder, Place
<1>1. first \in Slots /\ k \in 0 .. N /\ k \in Nat /\ seq[first] \in Nat /\ SeqRange \in Nat
  <2>1. seq \in [Slots -> 0 .. SeqRange - 1] /\ first \in Slots
    BY DEF TypeOK
  <2>2. seq[first] \in 0 .. SeqRange - 1 /\ SeqRange \in Nat /\ N \in Nat
    BY <2>1, NumberFacts
  <2> QED
    BY <2>1, <2>2 DEF Slots
<1>2. Place(first, k) \in Slots
  BY <1>1, PlaceFacts
<1> DEFINE p == slot[Place(first, k)]
<1>3. p \in Packets /\ ~is_first
  BY <1>2 DEF TypeOK, RingInv
<1>4. number[p] = seq[first] + k
  BY <1>3 DEF RingInv, Ring, WaitsAt
<1>5. number[p] \in 0 .. SeqRange - 1
  BY <1>3, NumberFacts
<1> HIDE DEF p
<1>6. number[p] = (seq[first] + k) % SeqRange
  <2>1. \A x \in 0 .. SeqRange - 1 : x % SeqRange = x
    <3>1. ASSUME NEW M \in Nat, NEW x \in 0 .. M - 1 PROVE x % M = x
      OBVIOUS
    <3> QED
      BY <3>1, <1>1
  <2> QED
    BY <2>1, <1>4, <1>5
<1>7. ASSUME NEW j \in 1 .. Len(out) PROVE out[j] < p
  <2>1. out[j] \in Packets /\ number[out[j]] < seq[first]
    BY <1>3 DEF TypeOK, RingInv, Passed
  <2>2. number[out[j]] \in Nat
    BY <2>1, NumberFacts
  <2>3. number[out[j]] < number[p]
    BY <2>1, <2>2, <1>1, <1>4
  <2> QED
    BY <2>1, <2>3, <1>3, NumbersInOrder DEF NumbersRunOn
<1> QED
  BY <1>6, <1>7 DEF p

(* Under the same conditions what waits in the ring is in its right place   *)
(* and was not passed by the player.                                        *)
THEOREM RingCorrect == Spec /\ []NumbersRunOn /\ []InReach => []RingInOrder
PROOF
<1>1. Init => RingInv /\ InOrder
  BY RingInit
<1>2. TypeOK /\ NumbersRunOn /\ InReach /\ RingInv /\ InOrder /\ [Next]_vars
      => (RingInv /\ InOrder)'
  BY OrderStep
<1>3. TypeOK /\ NumbersRunOn /\ RingInv => RingInOrder
  BY RingPlaces
<1> QED
  BY <1>1, <1>2, <1>3, RtpTypeCorrect, PTL DEF Spec
-----------------------------------------------------------------------------
(* The network                                                              *)

(* The bounds are natural numbers.                                          *)
LEMMA Bounds ==
  /\ N \in Nat /\ N > 3 /\ SeqRange \in Nat /\ SeqRange > 4 * N /\ MaxSent \in Nat
  /\ Reorder \in Nat /\ MaxLost \in Nat /\ LossGap \in Nat /\ MaxBad \in Nat
  /\ MaxRepeat \in Nat /\ MaxLate \in Nat
  /\ Packets = 0 .. MaxSent - 1 /\ Slots = 0 .. N - 1
BY RtpAssumption DEF Packets, Slots

(* The first packet of w, or the end when there is none.                    *)
LEMMA LeastOf ==
  ASSUME NEW w \in SUBSET Packets
  PROVE  LET m == Min(w \cup {MaxSent}) IN
           /\ m \in 0 .. MaxSent /\ (m = MaxSent \/ m \in w)
           /\ \A p \in w : m <= p
PROOF
<1> DEFINE S == w \cup {MaxSent}
<1>1. S \in SUBSET Nat /\ S # {} /\ MaxSent \in S /\ S \in SUBSET (0 .. MaxSent)
  BY Bounds
<1>2. \A x : x \in S <=> x \in w \/ x = MaxSent
  OBVIOUS
<1> HIDE DEF S
<1>3. \E x \in S : \A y \in S : x <= y
  BY <1>1, LeastElement
<1>4. Min(S) \in S /\ \A y \in S : Min(S) <= y
  BY <1>3 DEF Min
<1>5. /\ Min(S) \in 0 .. MaxSent /\ (Min(S) = MaxSent \/ Min(S) \in w)
      /\ \A p \in w : Min(S) <= p
  BY <1>1, <1>2, <1>4
<1> QED
  BY <1>5 DEF S

(* The first packet still to arrive, now and when fewer are.                *)
LEMMA FrontFacts ==
  ASSUME NEW w \in SUBSET Packets, NEW v \in SUBSET w
  PROVE  Min(w \cup {MaxSent}) <= Min(v \cup {MaxSent})
PROOF
<1> DEFINE a == Min(w \cup {MaxSent})
           b == Min(v \cup {MaxSent})
<1>1. a \in 0 .. MaxSent /\ \A p \in w : a <= p
  BY LeastOf
<1>2. b \in 0 .. MaxSent /\ (b = MaxSent \/ b \in v)
  BY LeastOf
<1> HIDE DEF a, b
<1>3. a <= b
  BY <1>1, <1>2, Bounds
<1> QED
  BY <1>3 DEF a, b

(* Packets that have arrived are finitely many.                             *)
LEMMA FiniteParts ==
  ASSUME NEW S \in SUBSET Packets
  PROVE  IsFiniteSet(S) /\ Cardinality(S) \in Nat
PROOF
<1>1. IsFiniteSet(Packets)
  BY Bounds, FS_Interval
<1> QED
  BY <1>1, FS_Subset, FS_CardinalityType

(* A set of packets within an interval is no larger than the interval.      *)
LEMMA Within ==
  ASSUME NEW a \in Int, NEW b \in Int, NEW S, S \subseteq a .. b
  PROVE  /\ IsFiniteSet(S) /\ Cardinality(S) \in Nat
         /\ a <= b + 1 => Cardinality(S) <= b - a + 1
         /\ a > b => Cardinality(S) = 0
PROOF
<1>1. IsFiniteSet(a .. b) /\ Cardinality(a .. b) = IF a > b THEN 0 ELSE b - a + 1
  BY FS_Interval
<1>2. IsFiniteSet(S) /\ Cardinality(S) <= Cardinality(a .. b)
  BY <1>1, FS_Subset
<1>3. Cardinality(S) \in Nat
  BY <1>2, FS_CardinalityType
<1> QED
  BY <1>1, <1>2, <1>3

(* And a set that contains an interval is no smaller.                       *)
LEMMA Holds ==
  ASSUME NEW a \in Int, NEW b \in Int, NEW S, IsFiniteSet(S), (a .. b) \subseteq S
  PROVE  b - a + 1 <= Cardinality(S)
PROOF
<1> DEFINE c == Cardinality(a .. b)
<1>0. c = IF a > b THEN 0 ELSE b - a + 1
  BY FS_Interval
<1> HIDE DEF c
<1>1. b - a + 1 <= c /\ c \in Nat
  BY <1>0
<1>2. (a .. b) \in SUBSET S
  OBVIOUS
<1>3. c <= Cardinality(S) /\ Cardinality(S) \in Nat
  BY <1>2, FS_Subset, FS_CardinalityType DEF c
<1> QED
  BY <1>1, <1>3
-----------------------------------------------------------------------------
(* What a step does to the expected packet and to those that wait           *)

(* The packet is handed out, or the call tries once more.                   *)
HandsOut(p) == out' = Append(out, p) /\ pc' = "idle"
TriesOn     == out' = out /\ pc' = "get" /\ tries' = tries + 1

(* The expected number and the expected packet.                             *)
LEMMA ExpectedFacts ==
  ASSUME TypeOK, ~Uneven, NEW p \in Packets
  PROVE  /\ number[p] = number[0] + p /\ number[0] \in Nat /\ p \in Nat
         /\ seq[first] \in Nat /\ Expected \in Int /\ seq[first] = number[0] + Expected
         /\ Newseq(p) = p - Expected
PROOF
<1>1. number[p] = number[0] + p /\ number[0] \in Nat /\ p \in Nat
  BY NumberSum
<1>2. seq[first] \in Nat
  <2>1. seq \in [Slots -> 0 .. SeqRange - 1] /\ first \in Slots
    BY DEF TypeOK
  <2> QED
    BY <2>1, Bounds
<1> QED
  BY <1>1, <1>2 DEF Expected, Newseq

(* A packet waits as far behind first as it is after the expected one.      *)
LEMMA WaitingPlace ==
  ASSUME TypeOK, ~Uneven, RingInv, ~is_first, NEW p \in Packets, Waits(p)
  PROVE  p - Expected \in Slots /\ slot[At(p - Expected)] = p
PROOF
<1>1. PICK i \in Slots : slot[i] = p
  BY DEF Waits
<1>2. first \in Slots
  BY DEF TypeOK
<1>3. PICK k \in Slots : Place(first, k) = i
  BY <1>2, PlacesAll
<1>4. p # Empty
  BY Bounds DEF Empty
<1>5. number[p] = seq[first] + k
  BY <1>1, <1>3, <1>4 DEF RingInv, Ring, WaitsAt
<1>6. k = p - Expected
  <2>1. k \in Int
    BY Bounds
  <2> QED
    BY <2>1, <1>5, ExpectedFacts
<1> QED
  BY <1>1, <1>3, <1>6 DEF At

(* What waits at a place is the packet that far after the expected one.     *)
LEMMA PlaceWaiting ==
  ASSUME TypeOK, ~Uneven, RingInv, ~is_first, NEW k \in Slots, slot[At(k)] # Empty
  PROVE  slot[At(k)] \in Packets /\ slot[At(k)] = Expected + k /\ Waits(slot[At(k)])
PROOF
<1>1. first \in Slots /\ k \in 0 .. N /\ k \in Int /\ slot \in [Slots -> Packets \cup {Empty}]
  BY Bounds DEF TypeOK
<1>2. At(k) \in Slots
  BY <1>1, PlaceFacts DEF At
<1> DEFINE p == slot[At(k)]
<1>3. p \in Packets /\ Waits(p)
  BY <1>1, <1>2 DEF Waits
<1>4. number[p] = seq[first] + k
  BY DEF RingInv, Ring, WaitsAt, At
<1> HIDE DEF p
<1>5. p = Expected + k
  BY <1>1, <1>3, <1>4, ExpectedFacts
<1> QED
  BY <1>3, <1>5 DEF p

(* The slot of the expected packet.                                         *)
LEMMA FirstPlace ==
  ASSUME TypeOK
  PROVE  first \in Slots /\ 0 \in Slots /\ At(0) = first
PROOF
<1>1. first \in Slots /\ 0 \in 0 .. N /\ 0 \in Slots /\ first \in 0 .. N - 1
  BY Bounds DEF TypeOK
<1>2. (IF first + 0 < N THEN first + 0 ELSE first + 0 - N) = first
  BY <1>1, Bounds
<1> QED
  BY <1>1, <1>2, PlaceFacts DEF At

(* The three things rtp_cache does with a packet within reach.              *)
Handled(p) ==
  \/ /\ p = Expected /\ Expected' = Expected + 1
     /\ slot' = slot /\ HandsOut(p)
  \/ /\ p > Expected /\ p < Expected + N /\ Expected' = Expected
     /\ \A q \in Packets : Waits(q)' <=> Waits(q) \/ q = p
     /\ ~NoneWaits' /\ TriesOn
  \/ /\ p < Expected /\ Expected' = Expected
     /\ slot' = slot /\ TriesOn

(* rtp_cache after the first packet.                                        *)
LEMMA ArrivalEffect ==
  ASSUME TypeOK, RingInv, NumbersRunOn, TryAgain, ~is_first, NEW p \in Packets, rtp_cache(p),
         Newseq(p) < N, Newseq(p) < 0 => Dropped(p), number' = number
  PROVE  is_first' = FALSE /\ Handled(p)
PROOF
<1>0. ~Uneven /\ pc = "get"
  BY DEF NumbersRunOn, TryAgain
<1>1. /\ slot \in [Slots -> Packets \cup {Empty}] /\ seq \in [Slots -> 0 .. SeqRange - 1]
      /\ first \in Slots /\ is_first \in BOOLEAN
  BY DEF TypeOK
<1>2. /\ number[p] = number[0] + p /\ number[0] \in Nat /\ p \in Nat
      /\ seq[first] \in Nat /\ Expected \in Int /\ seq[first] = number[0] + Expected
      /\ Newseq(p) = p - Expected
  BY <1>0, ExpectedFacts
<1>3. Next1(number[p]) = number[p] + 1
  <2>1. number[p] \in 0 .. SeqRange - 1 /\ number[p] < SeqRange - 1
    BY NumberFacts DEF NumbersRunOn
  <2>2. number[p] \in 0 .. SeqRange - 2
    BY <2>1, Bounds
  <2> QED
    BY <2>2, NumberFacts
<1>4. N \in Nat /\ N > 3 /\ Slots = 0 .. N - 1
  BY Bounds
<1>5. CASE InSequence(p)
  <2> DEFINE f == Place(first, 1)
  <2>1. /\ is_first' = FALSE /\ first' = f /\ slot' = slot /\ Feed(p)
        /\ seq' = [seq EXCEPT ![f] = number[p] + 1] /\ Newseq(p) = 0
    BY <1>3, <1>5 DEF InSequence, Place
  <2>2. f \in Slots
    <3>1. 1 \in 0 .. N
      BY <1>4
    <3> QED
      BY <3>1, <1>1, PlaceFacts
  <2> HIDE DEF f
  <2>3. seq'[first'] = number[p] + 1
    BY <2>1, <2>2, <1>1
  <2>4. Expected' = Expected + 1 /\ p = Expected
    BY <2>1, <2>3, <1>2 DEF Expected
  <2> QED
    BY <2>1, <2>4 DEF Handled, HandsOut, Feed
<1>6. CASE Overrun(p)
  BY <1>2, <1>4, <1>6 DEF Overrun
<1>7. CASE Underrun(p)
  BY <1>7 DEF Underrun
<1>8. CASE DropOld(p)
  <2>1. UNCHANGED <<slot, seq, first, is_first, out, pc>> /\ tries' = tries + 1 /\ Newseq(p) < 0
    BY <1>8 DEF DropOld, Again, ringVars
  <2>2. Expected' = Expected /\ p < Expected
    BY <2>1, <1>2 DEF Expected
  <2> QED
    BY <2>1, <2>2, <1>0, <1>1 DEF Handled, TriesOn
<1>9. CASE Store(p)
  <2> DEFINE m == Newseq(p)
             i == Place(first, m)
  <2>1. /\ m \in 1 .. N /\ UNCHANGED <<first, is_first, out, pc>> /\ tries' = tries + 1
        /\ slot' = [slot EXCEPT ![i] = p] /\ seq' = [seq EXCEPT ![i] = number[p]]
    <3>1. m + first = first + m
      BY <1>1, <1>2, <1>4
    <3> QED
      BY <3>1, <1>9 DEF Store, Again, Place
  <2>2. m \in Slots /\ m # 0 /\ m \in 0 .. N /\ p > Expected /\ p < Expected + N
    BY <2>1, <1>2, <1>4
  <2>3. m = p - Expected
    BY <1>2
  <2> HIDE DEF m
  <2>4. i \in Slots
    BY <2>2, <1>1, PlaceFacts
  <2>5. i # first
    <3>1. At(0) = first /\ 0 \in Slots
      BY FirstPlace
    <3> QED
      BY <3>1, <2>2, <1>1, PlacesDiffer DEF At
  <2>6. slot[i] = Empty \/ slot[i] = p
    <3>1. slot[i] # Empty => slot[i] = Expected + m
      BY <2>2, <1>0, PlaceWaiting DEF At
    <3> QED
      BY <3>1, <2>3, <1>2
  <2> HIDE DEF i
  <2>7. slot'[i] = p /\ \A x \in Slots : x # i => slot'[x] = slot[x]
    BY <2>1, <2>4, <1>1
  <2>8. Expected' = Expected
    <3>1. seq'[first'] = seq[first]
      BY <2>1, <2>4, <2>5, <1>1
    <3> QED
      BY <3>1 DEF Expected
  <2>9. p # Empty
    BY <1>2 DEF Empty
  <2>10. ~NoneWaits'
    BY <2>4, <2>7, <2>9 DEF NoneWaits
  <2>11. ASSUME NEW q \in Packets PROVE Waits(q)' <=> Waits(q) \/ q = p
    <3>1. q # Empty
      BY Bounds DEF Empty
    <3> QED
      BY <3>1, <2>4, <2>6, <2>7 DEF Waits
  <2> QED
    BY <2>1, <2>2, <2>8, <2>10, <2>11, <1>0 DEF Handled, TriesOn
<1> QED
  BY <1>5, <1>6, <1>7, <1>8, <1>9 DEF rtp_cache

(* rtp_cache and the first packet.                                          *)
LEMMA FirstEffect ==
  ASSUME TypeOK, RingInv, NumbersRunOn, TryAgain, is_first, NEW p \in Packets, rtp_cache(p),
         number' = number
  PROVE  /\ is_first' = FALSE /\ Expected' = p + 1 /\ slot' = slot /\ NoneWaits
         /\ out = <<>> /\ HandsOut(p)
PROOF
<1>0. ~Uneven /\ out = <<>> /\ NoneWaits
  BY DEF NumbersRunOn, RingInv, NoneWaits
<1>1. seq \in [Slots -> 0 .. SeqRange - 1] /\ first \in Slots
  BY DEF TypeOK
<1>2. number[p] = number[0] + p /\ number[0] \in Nat /\ p \in Nat
  BY <1>0, ExpectedFacts
<1>3. Next1(number[p]) = number[p] + 1
  <2>1. number[p] \in 0 .. SeqRange - 1 /\ number[p] < SeqRange - 1
    BY NumberFacts DEF NumbersRunOn
  <2>2. number[p] \in 0 .. SeqRange - 2
    BY <2>1, Bounds
  <2> QED
    BY <2>2, NumberFacts
<1> DEFINE f == Place(first, 1)
<1>4. /\ is_first' = FALSE /\ first' = f /\ slot' = slot /\ Feed(p)
      /\ seq' = [seq EXCEPT ![f] = number[p] + 1]
  BY <1>3 DEF rtp_cache, InSequence, Overrun, DropOld, Underrun, Store, Place
<1>5. f \in Slots
  <2>1. 1 \in 0 .. N
    BY Bounds
  <2> QED
    BY <2>1, <1>1, PlaceFacts
<1> HIDE DEF f
<1>6. seq'[first'] = number[p] + 1
  BY <1>1, <1>4, <1>5
<1>7. Expected' = p + 1
  BY <1>2, <1>6 DEF Expected
<1> QED
  BY <1>0, <1>4, <1>7 DEF HandsOut, Feed

(* rtp_get_next takes packet q from the ring.                               *)
Takes(q) ==
  /\ Waits(q) /\ q >= Expected /\ \A r \in Packets : Waits(r) => r >= q
  /\ q # Expected => tries = N - 3
  /\ Expected' = q + 1 /\ HandsOut(q)
  /\ \A r \in Packets : Waits(r)' <=> Waits(r) /\ r # q

(* It finds none.                                                           *)
FindsNone ==
  /\ NoneWaits /\ slot' = slot /\ tries = N - 3
  /\ seq'[first'] = seq[first] + 1
  /\ out' = out /\ pc' = "get" /\ tries' = 0

(* What rtp_get_next does after its loop.                                   *)
LEMMA CachedEffect ==
  ASSUME TypeOK, RingInv, NumbersRunOn, GetCached
  PROVE  /\ pc = "get" /\ is_first' = is_first /\ UNCHANGED netVars
         /\ \/ ~is_first /\ \E q \in Packets : Takes(q)
            \/ FindsNone
PROOF
<1> DEFINE a == Ahead
           i == At(a)
           f == Place(i, 1)
<1>0. ~Uneven
  BY DEF NumbersRunOn
<1>1. /\ slot \in [Slots -> Packets \cup {Empty}] /\ seq \in [Slots -> 0 .. SeqRange - 1]
      /\ first \in Slots /\ is_first \in BOOLEAN /\ tries \in 0 .. N - 3
  BY DEF TypeOK
<1>2. N \in Nat /\ N > 3 /\ Slots = 0 .. N - 1 /\ SeqRange \in Nat
  BY Bounds
<1>3. /\ i \in Slots /\ f \in Slots /\ first' = f /\ is_first' = is_first
      /\ slot' = [slot EXCEPT ![i] = Empty] /\ seq' = [seq EXCEPT ![f] = Next1(seq[i])]
      /\ slot[i] # Empty => Feed(slot[i])
      /\ slot[i] = Empty => tries' = 0 /\ UNCHANGED <<pc, out>>
      /\ UNCHANGED netVars /\ pc = "get"
  BY CachedFacts DEF Place
<1>4. /\ a \in 0 .. N /\ (a < N => a \in Slots /\ slot[i] # Empty)
      /\ \A k \in Slots : k < a => slot[At(k)] = Empty
  BY AheadFacts
<1>5. slot[first] = Empty => tries = N - 3
  <2>1. ~TryAgain
    BY DEF GetCached
  <2> QED
    BY <2>1, <1>1, <1>2, <1>3 DEF TryAgain
<1>6. At(0) = first /\ 0 \in Slots
  BY FirstPlace
<1>7. seq'[first'] = Next1(seq[i])
  BY <1>1, <1>3
<1>8. seq[first] \in 0 .. SeqRange - 2
  <2>1. seq[first] \in 0 .. SeqRange - 1 /\ seq[first] < SeqRange - 1
    BY <1>1 DEF NumbersRunOn
  <2> QED
    BY <2>1, <1>2
<1>9. a = N => slot[first] = Empty /\ i = first
  <2> SUFFICES ASSUME a = N PROVE slot[first] = Empty /\ i = first
    OBVIOUS
  <2>1. N \in 0 .. N /\ (IF first + N < N THEN first + N ELSE first + N - N) = first
    BY <1>1, <1>2
  <2>2. Place(first, N) = first
    BY <2>1, <1>1, PlaceFacts
  <2>3. 0 < a
    BY <1>2
  <2> QED
    BY <2>2, <2>3, <1>4, <1>6 DEF At
<1> HIDE DEF a, i, f
<1>10. CASE a < N
  <2> DEFINE q == slot[i]
  <2>1. ~is_first /\ a \in Slots /\ q # Empty
    BY <1>3, <1>4, <1>10 DEF RingInv
  <2>2. q \in Packets /\ q = Expected + a /\ Waits(q)
    BY <2>1, <1>0, PlaceWaiting DEF i
  <2> HIDE DEF q
  <2>3. /\ number[q] = number[0] + q /\ number[0] \in Nat /\ q \in Nat
        /\ Expected \in Int /\ seq[first] = number[0] + Expected
    BY <2>2, <1>0, ExpectedFacts
  <2>4. seq[i] = number[q]
    <3>1. number[q] = seq[first] + a /\ seq[i] = seq[first] + a
      BY <2>1 DEF RingInv, Ring, WaitsAt, At, i, q
    <3> QED
      BY <3>1
  <2>5. Next1(seq[i]) = number[q] + 1
    <3>1. number[q] \in 0 .. SeqRange - 1 /\ number[q] < SeqRange - 1
      BY <2>2, NumberFacts DEF NumbersRunOn
    <3>2. number[q] \in 0 .. SeqRange - 2
      BY <3>1, <1>2
    <3> QED
      BY <3>2, <2>4, NumberFacts
  <2>6. Expected' = q + 1
    BY <2>3, <2>5, <1>3, <1>7 DEF Expected, netVars
  <2>7. HandsOut(q)
    BY <2>1, <1>3 DEF q, HandsOut, Feed
  <2>8. ASSUME NEW r \in Packets, Waits(r) PROVE r >= q
    <3>1. r - Expected \in Slots /\ slot[At(r - Expected)] = r /\ r # Empty
      BY <2>1, <2>8, <1>0, WaitingPlace, Bounds DEF Empty
    <3>2. ~(r - Expected < a)
      BY <3>1, <1>4
    <3>3. r \in Nat /\ a \in Nat
      BY <2>1, Bounds
    <3> QED
      BY <3>2, <3>3, <2>2, <2>3
  <2>9. q >= Expected
    <3>1. a \in Nat
      BY <2>1, <1>2
    <3> QED
      BY <3>1, <2>2, <2>3
  <2>10. q # Expected => tries = N - 3
    <3>1. ASSUME slot[first] # Empty PROVE q = Expected
      <4>1. slot[first] \in Packets /\ slot[first] = Expected + 0 /\ Waits(slot[first])
        BY <3>1, <2>1, <1>0, <1>6, PlaceWaiting
      <4>2. Expected >= q
        BY <4>1, <2>3, <2>8
      <4> QED
        BY <4>2, <2>3, <2>9
    <3> QED
      BY <3>1, <1>5
  <2>11. ASSUME NEW r \in Packets PROVE Waits(r)' <=> Waits(r) /\ r # q
    <3>1. r # Empty
      BY Bounds DEF Empty
    <3>2. slot'[i] = Empty /\ \A x \in Slots : x # i => slot'[x] = slot[x]
      BY <1>1, <1>3
    <3>3. ASSUME NEW x \in Slots, slot[x] = q PROVE x = i
      <4>1. PICK k \in Slots : Place(first, k) = x
        BY <1>1, PlacesAll
      <4>2. slot[At(k)] = Expected + k
        BY <4>1, <3>3, <2>1, <1>0, PlaceWaiting DEF At
      <4>3. k \in Int /\ a \in Int
        BY <2>1, Bounds
      <4>4. k = a
        BY <4>1, <4>2, <4>3, <3>3, <2>2, <2>3 DEF At
      <4> QED
        BY <4>1, <4>4 DEF i, At
    <3> QED
      BY <3>1, <3>2, <3>3, <1>3 DEF Waits, q
  <2>12. Takes(q)
    BY <2>2, <2>6, <2>7, <2>8, <2>9, <2>10, <2>11 DEF Takes
  <2> QED
    BY <2>1, <2>2, <2>12, <1>3
<1>11. CASE ~(a < N)
  <2>1. a = N
    BY <1>2, <1>4, <1>11
  <2>2. i = first /\ slot[first] = Empty /\ tries = N - 3
    BY <2>1, <1>5, <1>9
  <2>3. NoneWaits
    <3>1. ASSUME NEW x \in Slots PROVE slot[x] = Empty
      <4>1. PICK k \in Slots : Place(first, k) = x
        BY <1>1, PlacesAll
      <4>2. k < a
        BY <2>1, <1>2
      <4> QED
        BY <4>1, <4>2, <1>4 DEF At
    <3> QED
      BY <3>1 DEF NoneWaits
  <2>4. slot' = slot
    BY <2>2, <1>1, <1>3
  <2>5. seq'[first'] = seq[first] + 1
    BY <2>2, <1>7, <1>8, NumberFacts
  <2> QED
    BY <2>2, <2>3, <2>4, <2>5, <1>3 DEF FindsNone
<1> QED
  BY <1>10, <1>11
-----------------------------------------------------------------------------
(* Packets under way                                                        *)

(* The sender does not number its packets anew.                             *)
LEMMA NumberStays == [Next]_vars => number' = number
BY DEF Next, vars, Read, Receive, ReceiveRepeated, ReceiveBad, Lose, GetCached, SenderStopped, netVars

(* What a step does to the packets under way: one arrives, one is lost, or  *)
(* nothing happens to them.                                                 *)
LEMMA WireStep ==
  ASSUME TypeOK, ~Uneven, NetInv, [Next]_vars
  PROVE  \/ UNCHANGED <<wire, lost>> /\ Arrived' = Arrived
         \/ /\ Receive /\ lost' = lost
            /\ \E p \in wire : /\ p <= Foremost + Reorder /\ wire' = wire \ {p}
                               /\ Arrived' = Arrived \cup {p} /\ rtp_cache(p)
         \/ /\ Lose /\ Arrived' = Arrived /\ Cardinality(lost) < MaxLost
            /\ \E p \in wire : /\ p <= Foremost + Reorder /\ wire' = wire \ {p} /\ lost' = lost \cup {p}
                               /\ \A q \in lost : LossGap <= p - q \/ LossGap <= q - p
PROOF
<1>1. wire \subseteq Packets /\ wire \cap lost = {}
  BY DEF TypeOK, NetInv
<1>2. ASSUME UNCHANGED <<wire, lost>> PROVE Arrived' = Arrived
  BY <1>2 DEF Arrived
<1>3. CASE Receive
  <2>1. PICK p \in wire : Arrives(p) /\ rtp_cache(p) /\ wire' = wire \ {p}
    BY <1>3 DEF Receive
  <2>2. lost' = lost /\ p <= Foremost + Reorder
    BY <2>1, <1>3 DEF Receive, Arrives
  <2>3. Arrived' = Arrived \cup {p}
    BY <2>1, <2>2, <1>1 DEF Arrived
  <2> QED
    BY <2>1, <2>2, <2>3, <1>3
<1>4. CASE Lose
  <2>1. PICK p \in wire : /\ Arrives(p) /\ wire' = wire \ {p} /\ lost' = lost \cup {p}
                          /\ \A q \in lost : LossGap <= p - q \/ LossGap <= q - p
    BY <1>4 DEF Lose
  <2>2. Arrived' = Arrived /\ p <= Foremost + Reorder
    BY <2>1 DEF Arrived, Arrives
  <2>3. Cardinality(lost) < MaxLost
    BY <1>4 DEF Lose
  <2> QED
    BY <2>1, <2>2, <2>3, <1>4
<1>5. CASE Read \/ ReceiveRepeated \/ ReceiveBad \/ GetCached \/ SenderStopped \/ UNCHANGED vars
  <2>1. UNCHANGED <<wire, lost>>
    BY <1>5 DEF Read, ReceiveRepeated, ReceiveBad, GetCached, SenderStopped, vars, netVars
  <2> QED
    BY <2>1, <1>2
<1> QED
  BY <1>3, <1>4, <1>5 DEF Next

(* The first packet still to arrive.                                        *)
LEMMA FrontPlace ==
  ASSUME TypeOK
  PROVE  /\ Foremost \in 0 .. MaxSent /\ (Foremost = MaxSent \/ Foremost \in wire)
         /\ \A p \in wire : Foremost <= p
BY LeastOf DEF TypeOK, Foremost

(* The network keeps within its bounds.                                     *)
LEMMA NetStep ==
  ASSUME TypeOK, TypeOK', ~Uneven, NetInv, [Next]_vars
  PROVE  NetInv' /\ Foremost <= Foremost'
PROOF
<1>1. wire \subseteq Packets /\ lost \subseteq Packets /\ wire' \subseteq Packets
  BY DEF TypeOK
<1>2. /\ wire \cap lost = {} /\ \A p \in Packets \ wire : p <= Foremost + Reorder
      /\ \A x, y \in lost : x < y => LossGap <= y - x
      /\ MaxLost = 0 => lost = {}
  BY DEF NetInv
<1>3. Foremost \in 0 .. MaxSent /\ Foremost' \in 0 .. MaxSent
  <2>1. Foremost \in 0 .. MaxSent
    BY FrontPlace
  <2>2. Min(wire' \cup {MaxSent}) \in 0 .. MaxSent
    BY <1>1, LeastOf
  <2> QED
    BY <2>1, <2>2 DEF Foremost
<1>4. ASSUME wire' \subseteq wire PROVE Foremost <= Foremost'
  <2>1. Min(wire \cup {MaxSent}) <= Min(wire' \cup {MaxSent})
    BY <1>1, <1>4, FrontFacts
  <2> QED
    BY <2>1 DEF Foremost
<1>5. CASE UNCHANGED <<wire, lost>>
  <2>1. Foremost' = Foremost
    BY <1>5 DEF Foremost
  <2> QED
    BY <2>1, <1>2, <1>3, <1>5 DEF NetInv
<1>6. ASSUME NEW p \in wire, p <= Foremost + Reorder, wire' = wire \ {p},
             lost' = lost \/ (lost' = lost \cup {p} /\ Cardinality(lost) < MaxLost
                              /\ \A q \in lost : LossGap <= p - q \/ LossGap <= q - p)
      PROVE  NetInv' /\ Foremost <= Foremost'
  <2>1. Foremost <= Foremost'
    BY <1>4, <1>6
  <2>2. wire' \cap lost' = {}
    BY <1>2, <1>6
  <2>3. ASSUME NEW q \in Packets \ wire' PROVE q <= Foremost' + Reorder
    <3>1. q <= Foremost + Reorder
      BY <2>3, <1>2, <1>6
    <3>2. q \in Int /\ Reorder \in Int /\ Foremost \in Int /\ Foremost' \in Int
      BY <2>3, <1>3, Bounds
    <3>3. \A a, b, r, x \in Int : x <= a + r /\ a <= b => x <= b + r
      OBVIOUS
    <3> QED
      BY <3>1, <3>2, <3>3, <2>1
  <2>4. ASSUME NEW x \in lost', NEW y \in lost', x < y PROVE LossGap <= y - x
    <3>1. CASE x \in lost /\ y \in lost
      BY <3>1, <2>4, <1>2
    <3>2. CASE ~(x \in lost /\ y \in lost)
      <4>1. /\ \A q \in lost : LossGap <= p - q \/ LossGap <= q - p
            /\ (x = p /\ y \in lost) \/ (x \in lost /\ y = p) \/ (x = p /\ y = p)
        BY <3>2, <2>4, <1>6
      <4>2. p \in Int /\ x \in Int /\ y \in Int /\ LossGap \in Nat
        <5>1. p \in Packets /\ x \in Packets /\ y \in Packets
          BY <4>1, <1>1, <1>6
        <5> QED
          BY <5>1, Bounds
      <4> QED
        BY <4>1, <4>2, <2>4
    <3> QED
      BY <3>1, <3>2
  <2>5. MaxLost = 0 => lost' = {}
    <3>1. Cardinality({}) = 0
      BY FS_EmptySet
    <3> QED
      BY <3>1, <1>2, <1>6
  <2> QED
    BY <2>1, <2>2, <2>3, <2>4, <2>5 DEF NetInv
<1> QED
  BY <1>5, <1>6, WireStep

(* The expected packet is not far ahead of the first one under way.         *)
LEMMA ExpectedBound ==
  ASSUME TypeOK, ~Uneven, NetInv, KeptInv, GivenInv
  PROVE  /\ Expected \in Nat /\ Expected > 0
         /\ Expected <= Foremost + 2 * Reorder + 1 + bad + repeated
         /\ IsFiniteSet(Given) /\ Cardinality(Given) \in Nat
PROOF
<1>1. PICK p \in Packets : TRUE
  BY DEF KeptInv, Arrived
<1>2. Expected \in Int /\ Expected > 0
  BY <1>1, ExpectedFacts DEF KeptInv
<1>3. Foremost \in 0 .. MaxSent /\ \A q \in Packets \ wire : q <= Foremost + Reorder
  BY FrontPlace DEF NetInv
<1>4. bad \in Nat /\ repeated \in Nat /\ tries \in Nat /\ Reorder \in Nat /\ MaxSent \in Nat
  BY Bounds DEF TypeOK
<1> DEFINE e == Expected
           a == Foremost + Reorder + 1
           c == Cardinality(Given)
<1> HIDE DEF e
<1>5. e \in Int /\ e > 0 /\ Given = (0 .. e - 1) \ (Packets \ wire)
  BY <1>2 DEF e, Given
<1>6. Given \subseteq 0 .. e - 1 /\ 0 \in Int /\ e - 1 \in Int
  BY <1>5
<1>7. IsFiniteSet(Given) /\ c \in Nat
  BY <1>6, Within
<1>8. a \in Int /\ a .. e - 1 \subseteq Given
  <2>1. a \in Int
    BY <1>3, <1>4
  <2>2. ASSUME NEW x \in a .. e - 1 PROVE x \in 0 .. e - 1 /\ x \notin Packets \ wire
    BY <2>2, <1>3, <1>4, <1>5
  <2> QED
    BY <2>1, <2>2, <1>5
<1>9. (e - 1) - a + 1 <= c
  BY <1>6, <1>7, <1>8, Holds
<1>10. c + (IF NoneWaits THEN Used ELSE 0) <= Reorder + bad + repeated
  BY DEF GivenInv
<1>11. (IF NoneWaits THEN Used ELSE 0) \in Nat
  BY <1>4 DEF Used
<1> HIDE DEF c
<1>12. c <= Reorder + bad + repeated
  BY <1>4, <1>7, <1>10, <1>11
<1>13. e <= Foremost + 2 * Reorder + 1 + bad + repeated
  BY <1>3, <1>4, <1>5, <1>7, <1>9, <1>12
<1> QED
  BY <1>2, <1>7, <1>13 DEF e, c

(* What the bounds on the network and on the numbers say.                   *)
LEMMA Conditions ==
  ASSUME TypeOK, TameNetwork, CountsOn
  PROVE  /\ ~Uneven /\ Reorder < N
         /\ MaxLost = 0 \/ (2 * Reorder < 3 /\ LossGap + 2 >= N + Reorder)
         /\ 2 * Reorder + 1 + MaxBad + MaxRepeat + MaxLate < 3 * N
         /\ \A p \in Packets : number[p] + 2 * Reorder + MaxBad + MaxRepeat + 3 < SeqRange
         /\ bad \in 0 .. MaxBad /\ repeated \in 0 .. MaxRepeat /\ bad \in Nat /\ repeated \in Nat
         /\ tries \in 0 .. N - 3 /\ Used \in 0 .. N - 3 /\ Used \in Nat
PROOF
<1>1. /\ bad \in 0 .. MaxBad /\ repeated \in 0 .. MaxRepeat /\ tries \in 0 .. N - 3
      /\ bad \in Nat /\ repeated \in Nat
  BY Bounds DEF TypeOK
<1>2. Used \in 0 .. N - 3 /\ Used \in Nat
  BY <1>1, Bounds DEF Used
<1> QED
  BY <1>1, <1>2 DEF TameNetwork, CountsOn

(* The expected number does not come near the wrap either.                  *)
LEMMA RunsOn ==
  ASSUME TypeOK, TameNetwork, CountsOn, CountInv
  PROVE  NumbersRunOn
PROOF
<1>1. /\ ~Uneven /\ 2 * Reorder + 1 + MaxBad + MaxRepeat + MaxLate < 3 * N
      /\ \A p \in Packets : number[p] + 2 * Reorder + MaxBad + MaxRepeat + 3 < SeqRange
      /\ bad \in 0 .. MaxBad /\ repeated \in 0 .. MaxRepeat /\ Used \in Nat
  BY Conditions
<1>2. /\ N \in Nat /\ SeqRange \in Nat /\ SeqRange > 4 * N /\ Reorder \in Nat /\ MaxSent \in Nat
      /\ MaxBad \in Nat /\ MaxRepeat \in Nat /\ MaxLate \in Nat
  BY Bounds
<1>3. ASSUME NEW p \in Packets PROVE number[p] < SeqRange - 1
  <2>1. number[p] \in Nat /\ number[p] + 2 * Reorder + MaxBad + MaxRepeat + 3 < SeqRange
    <3>1. number[p] \in 0 .. SeqRange - 1
      BY NumberFacts
    <3> QED
      BY <3>1, <1>1, <1>2
  <2> QED
    BY <2>1, <1>2
<1>4. seq[first] \in Nat
  <2>1. seq \in [Slots -> 0 .. SeqRange - 1] /\ first \in Slots
    BY DEF TypeOK
  <2> QED
    BY <2>1, Bounds
<1>5. CASE is_first
  <2>1. seq[first] + Used <= bad
    BY <1>5 DEF CountInv, FirstInv
  <2>2. seq[first] < SeqRange - 1
    BY <2>1, <1>1, <1>2, <1>4
  <2> QED
    BY <2>2, <1>1, <1>3 DEF NumbersRunOn
<1>6. CASE ~is_first
  <2>1. NetInv /\ KeptInv /\ GivenInv
    BY <1>6 DEF CountInv
  <2>2. Expected \in Nat /\ Expected <= Foremost + 2 * Reorder + 1 + bad + repeated
    BY <2>1, <1>1, ExpectedBound
  <2>3. Foremost \in 0 .. MaxSent
    BY FrontPlace
  <2>4. MaxSent - 1 \in Packets
    <3>1. Packets # {}
      BY <2>1 DEF KeptInv, Arrived
    <3> QED
      BY <3>1, Bounds
  <2> DEFINE l == MaxSent - 1
  <2>5. /\ number[l] = number[0] + l /\ number[0] \in Nat /\ seq[first] = number[0] + Expected
        /\ number[l] + 2 * Reorder + MaxBad + MaxRepeat + 3 < SeqRange
    BY <2>4, <1>1, ExpectedFacts
  <2>6. seq[first] < SeqRange - 1
    BY <2>2, <2>3, <2>5, <1>1, <1>2
  <2> QED
    BY <2>6, <1>1, <1>3 DEF NumbersRunOn
<1> QED
  BY <1>5, <1>6

(* How far behind a lost packet a call that waits for it can receive.       *)
LEMMA BehindLost ==
  ASSUME TypeOK, TameNetwork, CountsOn, NetInv, KeptInv, GivenInv, BehindInv, TryAgain,
         Expected \in lost, NEW p \in wire, p <= Foremost + Reorder
  PROVE  p < Expected + N /\ p <= Expected + LossGap
PROOF
<1>1. /\ N \in Nat /\ N > 3 /\ Reorder \in Nat /\ LossGap \in Nat /\ MaxSent \in Nat
      /\ Packets = 0 .. MaxSent - 1
  BY Bounds
<1>2. ~Uneven /\ (MaxLost = 0 \/ (2 * Reorder < 3 /\ LossGap + 2 >= N + Reorder)) /\ tries \in 0 .. N - 3
  BY Conditions
<1>3. 2 * Reorder < 3 /\ LossGap + 2 >= N + Reorder
  BY <1>2 DEF NetInv
<1> DEFINE e == Expected
           l == Foremost
           c == Cardinality(Behind(e))
<1>4. Used = tries /\ tries < N - 3
  BY DEF TryAgain, Used
<1>5. e \in Packets /\ e \in lost /\ e \in Nat
  <2>1. e \in Packets
    BY DEF TypeOK
  <2> QED
    BY <2>1, <1>1
<1>6. c <= Reorder + tries
  <2>1. e >= e
    BY <1>5
  <2> QED
    BY <2>1, <1>4 DEF BehindInv
<1>7. Behind(e) \subseteq Packets
  BY DEF Behind, Arrived
<1>8. IsFiniteSet(Behind(e)) /\ c \in Nat
  BY <1>7, FiniteParts
<1>9. l \in 0 .. MaxSent /\ \A q \in wire : l <= q
  BY FrontPlace
<1>10. p \in Packets /\ p \in Nat
  <2>1. p \in Packets
    BY DEF TypeOK
  <2> QED
    BY <2>1, <1>1
<1>11. \A x, y \in lost : x < y => LossGap <= y - x
  BY DEF NetInv
<1>12. lost \subseteq Packets
  BY DEF TypeOK
<1> HIDE DEF e, l
<1>13. ASSUME NEW x \in Int, e < x, x < l, x < e + LossGap PROVE x \in Behind(e)
  <2>1. x \in Packets
    BY <1>1, <1>5, <1>9, <1>13
  <2>2. x \notin wire
    BY <1>9, <1>13
  <2>3. x \notin lost
    <3> SUFFICES ASSUME x \in lost PROVE FALSE
      OBVIOUS
    <3>1. LossGap <= x - e
      BY <1>5, <1>11, <1>13
    <3> QED
      BY <3>1, <1>1, <1>5, <1>13
  <2> QED
    BY <2>1, <2>2, <2>3, <1>13 DEF Behind, Arrived
<1> HIDE DEF c
<1>14. p <= l + Reorder
  BY DEF l
<1>15. CASE l <= e + LossGap
  <2>1. (e + 1) .. (l - 1) \subseteq Behind(e)
    BY <1>1, <1>5, <1>9, <1>13, <1>15
  <2>2. e + 1 \in Int /\ l - 1 \in Int
    BY <1>5, <1>9
  <2>3. (l - 1) - (e + 1) + 1 <= c
    BY <2>1, <2>2, <1>8, Holds DEF c
  <2>4. p <= e + 2 * Reorder + N - 3
    <3>1. l \in Int
      BY <1>9
    <3>2. l <= e + 1 + c /\ c <= Reorder + N - 4
      BY <3>1, <2>3, <1>1, <1>2, <1>4, <1>5, <1>6, <1>8
    <3> QED
      BY <3>1, <3>2, <1>1, <1>5, <1>8, <1>10, <1>14
  <2>5. p < e + N /\ p <= e + LossGap
    BY <2>4, <1>1, <1>3, <1>5, <1>10
  <2> QED
    BY <2>5 DEF e
<1>16. CASE ~(l <= e + LossGap)
  <2>1. (e + 1) .. (e + LossGap - 1) \subseteq Behind(e)
    BY <1>1, <1>5, <1>9, <1>13, <1>16
  <2>2. e + 1 \in Int /\ e + LossGap - 1 \in Int
    BY <1>1, <1>5
  <2>3. (e + LossGap - 1) - (e + 1) + 1 <= c
    BY <2>1, <2>2, <1>8, Holds DEF c
  <2>4. FALSE
    BY <2>3, <1>1, <1>2, <1>3, <1>4, <1>5, <1>6, <1>8
  <2> QED
    BY <2>4
<1> QED
  BY <1>15, <1>16

(* A call that waits has not received the packet it waits for.              *)
LEMMA ExpectedMissing ==
  ASSUME TypeOK, ~Uneven, RingInv, KeptInv, TryAgain, ~is_first
  PROVE  Expected \notin Arrived
PROOF
<1> SUFFICES ASSUME Expected \in Arrived PROVE FALSE
  OBVIOUS
<1>1. Expected \in Packets /\ Expected \in Nat
  <2>1. Expected \in Packets
    BY DEF Arrived
  <2> QED
    BY <2>1, Bounds
<1>2. Waits(Expected)
  <2>1. Expected >= Expected
    BY <1>1
  <2> QED
    BY <2>1 DEF KeptInv
<1>3. slot[At(Expected - Expected)] = Expected
  BY <1>1, <1>2, WaitingPlace
<1>4. Expected - Expected = 0 /\ Expected # Empty
  BY <1>1 DEF Empty
<1>5. slot[first] # Empty
  BY <1>3, <1>4, FirstPlace
<1> QED
  BY <1>5 DEF TryAgain

(* What may arrive is less than a ring ahead of the expected packet and not *)
(* so far behind it that the ring starts over.                              *)
LEMMA Reach ==
  ASSUME TypeOK, TameNetwork, CountsOn, RingInv, CountInv, TryAgain, ~is_first,
         NEW p \in Packets, CanArrive(p)
  PROVE  Newseq(p) < N /\ Newseq(p) > -(3 * N)
PROOF
<1>1. /\ N \in Nat /\ N > 3 /\ Reorder \in Nat /\ MaxSent \in Nat /\ Packets = 0 .. MaxSent - 1
      /\ MaxBad \in Nat /\ MaxRepeat \in Nat /\ MaxLate \in Nat /\ Slots = 0 .. N - 1
  BY Bounds
<1>2. /\ ~Uneven /\ Reorder < N /\ 2 * Reorder + 1 + MaxBad + MaxRepeat + MaxLate < 3 * N
      /\ bad \in 0 .. MaxBad /\ repeated \in 0 .. MaxRepeat
  BY Conditions
<1>3. NetInv /\ KeptInv /\ GivenInv /\ BehindInv
  BY DEF CountInv
<1>4. Expected \in Nat /\ Expected > 0 /\ Expected <= Foremost + 2 * Reorder + 1 + bad + repeated
  BY <1>2, <1>3, ExpectedBound
<1>5. Newseq(p) = p - Expected /\ p \in Nat
  BY <1>2, ExpectedFacts
<1>6. Foremost \in 0 .. MaxSent /\ \A q \in wire : Foremost <= q
  BY FrontPlace
<1>7. p \in wire => p <= Foremost + Reorder
  BY <1>2 DEF CanArrive, Arrives
<1>8. p \notin wire => Foremost - p <= MaxLate /\ p \in Arrived
  BY DEF CanArrive, Recent, Arrived
<1> DEFINE e == Expected
           l == Foremost
<1> HIDE DEF e, l
<1>9. l - p <= MaxLate
  <2>1. l \in Int /\ (p \in wire => l <= p)
    BY <1>6 DEF l
  <2> QED
    BY <2>1, <1>1, <1>5, <1>8 DEF l
<1>10. p - e > -(3 * N)
  <2>1. e \in Nat /\ e <= l + 2 * Reorder + 1 + bad + repeated /\ l \in Int
    BY <1>4, <1>6 DEF e, l
  <2> QED
    BY <2>1, <1>1, <1>2, <1>5, <1>9
<1>11. p - e < N
  <2>1. CASE p < e
    BY <2>1, <1>1, <1>4, <1>5 DEF e
  <2>2. CASE p >= e /\ p \notin wire
    <3>1. Waits(p)
      BY <2>2, <1>3, <1>8 DEF KeptInv, e
    <3>2. p - e \in Slots
      BY <3>1, <1>2, WaitingPlace DEF e
    <3> QED
      BY <3>2, <1>1
  <2>3. CASE p >= e /\ p \in wire
    <3>1. e \in Packets
      BY <2>3, <1>1, <1>4, <1>5 DEF e
    <3>2. CASE e \in wire
      <4>1. l <= e /\ p <= l + Reorder /\ l \in Int /\ e \in Int
        BY <3>2, <2>3, <1>4, <1>6, <1>7 DEF l, e
      <4> QED
        BY <4>1, <1>1, <1>2, <1>5
    <3>3. CASE e \in lost
      <4>1. p < e + N
        BY <3>3, <2>3, <1>3, <1>7, BehindLost DEF e
      <4> QED
        BY <4>1, <1>1, <1>4, <1>5 DEF e
    <3>4. CASE e \in Arrived
      BY <3>4, <1>2, <1>3, ExpectedMissing DEF e
    <3> QED
      BY <3>1, <3>2, <3>3, <3>4 DEF Arrived
  <2> QED
    BY <2>1, <2>2, <2>3, <1>4, <1>5 DEF e
<1> QED
  BY <1>5, <1>10, <1>11 DEF e

(* InReach is part of that.                                                 *)
LEMMA ReachHolds ==
  ASSUME TypeOK, TameNetwork, CountsOn, RingInv, CountInv
  PROVE  InReach
PROOF
<1>1. ASSUME TryAgain, ~is_first, NEW p \in Packets, CanArrive(p)
      PROVE  Newseq(p) # N /\ (Newseq(p) < 0 => Dropped(p))
  <2>1. Newseq(p) < N /\ Newseq(p) > -(3 * N)
    BY <1>1, Reach
  <2>2. Newseq(p) \in Int
    <3>1. Newseq(p) = p - Expected /\ p \in Int /\ Expected \in Int
      BY ExpectedFacts DEF CountsOn
    <3> QED
      BY <3>1
  <2> QED
    BY <2>1, <2>2, Bounds DEF Dropped
<1> QED
  BY <1>1 DEF InReach
-----------------------------------------------------------------------------
(* What a step does, in terms of packets                                    *)

SameWaiting == \A q \in Packets : Waits(q)' <=> Waits(q)
SameRing == Expected' = Expected /\ SameWaiting /\ (NoneWaits' <=> NoneWaits)
SameNet  == UNCHANGED <<wire, lost, repeated, bad>> /\ Arrived' = Arrived
Gone(p) ==
  /\ p \in wire /\ p \notin Arrived /\ wire' = wire \ {p} /\ Arrived' = Arrived \cup {p}
  /\ UNCHANGED <<lost, repeated, bad>>

(* Nothing that counts happens; a try is wasted; a packet is lost.          *)
Idles  == SameRing /\ SameNet /\ Used' = Used /\ out' = out
Wastes ==
  /\ SameRing /\ UNCHANGED <<wire, lost>> /\ Arrived' = Arrived
  /\ repeated' + bad' = repeated + bad + 1 /\ Used' = Used + 1 /\ out' = out
Loses(p) ==
  /\ SameRing /\ p \in wire /\ wire' = wire \ {p} /\ lost' = lost \cup {p} /\ Arrived' = Arrived
  /\ UNCHANGED <<repeated, bad>> /\ Used' = Used /\ out' = out

(* A packet comes too late, too early, or just in time.                     *)
Misses(p) == Gone(p) /\ p < Expected /\ SameRing /\ Used' = Used + 1 /\ out' = out
Keeps(p) ==
  /\ Gone(p) /\ p > Expected /\ Expected' = Expected
  /\ Expected \in wire \/ (Expected \in lost /\ p <= Expected + LossGap)
  /\ \A q \in Packets : Waits(q)' <=> Waits(q) \/ q = p
  /\ ~NoneWaits' /\ Used' = Used + 1 /\ out' = out
Delivers(p) ==
  /\ Gone(p) /\ p = Expected /\ Expected' = Expected + 1 /\ SameWaiting
  /\ Used' = 0 /\ out' = Append(out, p)

(* The call takes a packet from the ring, or none.                          *)
TakesOne(q) ==
  /\ Waits(q) /\ q >= Expected /\ \A r \in Packets : Waits(r) => r >= q
  /\ q # Expected => Used = N - 3
  /\ Expected' = q + 1 /\ \A r \in Packets : Waits(r)' <=> Waits(r) /\ r # q
  /\ SameNet /\ Used' = 0 /\ out' = Append(out, q)
TakesNone ==
  /\ NoneWaits /\ SameWaiting /\ Expected' = Expected + 1
  /\ SameNet /\ Used = N - 3 /\ Used' = 0 /\ out' = out

Effect ==
  \/ Idles \/ Wastes \/ TakesNone
  \/ \E p \in Packets : Loses(p) \/ Misses(p) \/ Keeps(p) \/ Delivers(p) \/ TakesOne(p)

(* An unchanged ring.                                                       *)
LEMMA RingStays ==
  ASSUME UNCHANGED <<slot, number>>
  PROVE  SameWaiting /\ (NoneWaits' <=> NoneWaits)
BY DEF SameWaiting, Waits, NoneWaits

(* Every step after the first packet is one of these.                       *)
LEMMA Effects ==
  ASSUME TypeOK, TameNetwork, CountsOn, RingInv, CountInv, ~is_first, [Next]_vars
  PROVE  is_first' = FALSE /\ Effect
PROOF
<1>0. number' = number
  BY NumberStays
<1>1. ~Uneven /\ NetInv /\ KeptInv /\ GivenInv /\ BehindInv
  BY Conditions DEF CountInv
<1>2. NumbersRunOn
  BY RunsOn
<1>3. is_first \in BOOLEAN /\ wire \subseteq Packets /\ lost \subseteq Packets /\ wire \cap lost = {}
  BY <1>1 DEF TypeOK, NetInv
<1>4. Expected \in Int
  BY <1>1, ExpectedBound
<1>5. CASE Read \/ SenderStopped \/ UNCHANGED vars
  <2>1. UNCHANGED <<slot, seq, first, is_first, out, wire, lost, repeated, bad>> /\ Used' = Used
    BY <1>5 DEF Read, SenderStopped, vars, ringVars, netVars, Used
  <2>2. Expected' = Expected /\ Arrived' = Arrived
    BY <2>1, <1>0 DEF Expected, Arrived
  <2>3. Idles
    BY <2>1, <2>2, <1>0, RingStays DEF Idles, SameRing, SameNet
  <2> QED
    BY <2>1, <2>3, <1>3 DEF Effect
<1>6. CASE Lose
  <2>1. UNCHANGED <<slot, seq, first, is_first, out, repeated, bad, pc, tries>>
    BY <1>6 DEF Lose, ringVars
  <2>2. PICK p \in wire : wire' = wire \ {p} /\ lost' = lost \cup {p}
    BY <1>6 DEF Lose
  <2>3. Expected' = Expected /\ Arrived' = Arrived /\ Used' = Used
    BY <2>1, <2>2, <1>0 DEF Expected, Arrived, Used
  <2>4. Loses(p)
    BY <2>1, <2>2, <2>3, <1>0, RingStays DEF Loses, SameRing
  <2> QED
    BY <2>1, <2>4, <1>3 DEF Effect
<1>7. CASE ReceiveBad
  <2>1. UNCHANGED <<slot, seq, first, is_first, out, wire, lost, repeated, pc>> /\ pc = "get"
        /\ bad' = bad + 1 /\ tries' = tries + 1
    BY <1>7 DEF ReceiveBad, TryAgain, Again, ringVars
  <2>2. Expected' = Expected /\ Arrived' = Arrived /\ Used' = Used + 1
    BY <2>1, <1>0 DEF Expected, Arrived, Used
  <2>3. repeated' + bad' = repeated + bad + 1
    <3>1. repeated \in Nat /\ bad \in Nat
      BY Conditions
    <3> QED
      BY <3>1, <2>1
  <2>4. Wastes
    BY <2>1, <2>2, <2>3, <1>0, RingStays DEF Wastes, SameRing
  <2> QED
    BY <2>1, <2>4, <1>3 DEF Effect
<1>8. ASSUME TryAgain, NEW p \in Packets, CanArrive(p), rtp_cache(p)
      PROVE  /\ is_first' = FALSE /\ Handled(p) /\ pc = "get"
             /\ HandsOut(p) => Used' = 0 /\ out' = Append(out, p)
             /\ TriesOn => Used' = Used + 1 /\ out' = out
  <2>1. Newseq(p) < N /\ Newseq(p) > -(3 * N)
    BY <1>8, Reach
  <2>2. is_first' = FALSE /\ Handled(p)
    BY <2>1, <1>0, <1>2, <1>8, ArrivalEffect DEF Dropped
  <2>3. pc = "get"
    BY <1>8 DEF TryAgain
  <2> QED
    BY <2>2, <2>3 DEF HandsOut, TriesOn, Used
<1>9. CASE ReceiveRepeated
  <2>1. PICK p \in Packets \ (wire \cup lost) : Recent(p) /\ rtp_cache(p)
    BY <1>9 DEF ReceiveRepeated
  <2>2. UNCHANGED <<wire, lost, bad>> /\ repeated' = repeated + 1 /\ repeated < MaxRepeat /\ TryAgain
    BY <1>9 DEF ReceiveRepeated
  <2>3. p \in Packets /\ p \in Arrived /\ CanArrive(p)
    BY <2>1, <2>2 DEF CanArrive, Arrived
  <2>4. /\ is_first' = FALSE /\ Handled(p)
        /\ TriesOn => Used' = Used + 1 /\ out' = out
    BY <2>1, <2>2, <2>3, <1>8
  <2>5. p # Expected
    BY <2>2, <2>3, <1>1, ExpectedMissing
  <2>6. p \in Int
    BY <2>3, Bounds
  <2>7. p > Expected => Waits(p) /\ ~NoneWaits
    <3> SUFFICES ASSUME p > Expected PROVE Waits(p) /\ ~NoneWaits
      OBVIOUS
    <3>1. Waits(p)
      BY <2>3, <2>6, <1>1, <1>4 DEF KeptInv
    <3>2. p # Empty
      BY <2>3, Bounds DEF Empty
    <3> QED
      BY <3>1, <3>2 DEF Waits, NoneWaits
  <2>8. SameRing /\ TriesOn
    <3>1. CASE p > Expected
      BY <3>1, <2>4, <2>5, <2>6, <2>7, <1>4 DEF Handled, SameRing, SameWaiting
    <3>2. CASE ~(p > Expected)
      <4>1. Expected' = Expected /\ slot' = slot /\ TriesOn
        BY <3>2, <2>4, <2>5 DEF Handled
      <4> QED
        BY <4>1, <1>0, RingStays DEF SameRing
    <3> QED
      BY <3>1, <3>2
  <2>9. repeated' + bad' = repeated + bad + 1 /\ Arrived' = Arrived
    <3>1. repeated \in Nat /\ bad \in Nat
      BY Conditions
    <3> QED
      BY <3>1, <2>2 DEF Arrived
  <2>10. Wastes
    BY <2>2, <2>4, <2>8, <2>9 DEF Wastes
  <2> QED
    BY <2>4, <2>10 DEF Effect
<1>10. CASE Receive
  <2>1. PICK p \in wire : Arrives(p) /\ rtp_cache(p) /\ wire' = wire \ {p}
    BY <1>10 DEF Receive
  <2>2. UNCHANGED <<lost, repeated, bad>> /\ TryAgain
    BY <1>10 DEF Receive
  <2>3. p \in Packets /\ CanArrive(p) /\ p <= Foremost + Reorder
    BY <2>1, <1>1, <1>3 DEF CanArrive, Arrives
  <2>4. Gone(p)
    BY <2>1, <2>2, <1>3 DEF Gone, Arrived
  <2>5. /\ is_first' = FALSE /\ Handled(p)
        /\ HandsOut(p) => Used' = 0 /\ out' = Append(out, p)
        /\ TriesOn => Used' = Used + 1 /\ out' = out
    BY <2>1, <2>2, <2>3, <1>8
  <2>6. CASE p = Expected /\ Expected' = Expected + 1 /\ slot' = slot /\ HandsOut(p)
    <3>1. Delivers(p)
      BY <2>4, <2>5, <2>6, <1>0, RingStays DEF Delivers
    <3> QED
      BY <3>1, <2>3, <2>5 DEF Effect
  <2>7. CASE /\ p > Expected /\ p < Expected + N /\ Expected' = Expected
             /\ \A q \in Packets : Waits(q)' <=> Waits(q) \/ q = p
             /\ ~NoneWaits' /\ TriesOn
    <3>1. Expected \in Packets
      <4>1. Expected \in Nat
        BY <1>1, ExpectedBound
      <4> QED
        BY <4>1, <2>3, <2>7, Bounds
    <3>2. Expected \notin Arrived
      BY <2>2, <1>1, ExpectedMissing
    <3>3. Expected \in lost => p <= Expected + LossGap
      BY <2>1, <2>2, <2>3, <1>1, BehindLost
    <3>4. Keeps(p)
      BY <3>1, <3>2, <3>3, <2>4, <2>5, <2>7 DEF Keeps, Arrived
    <3> QED
      BY <3>4, <2>3, <2>5 DEF Effect
  <2>8. CASE p < Expected /\ Expected' = Expected /\ slot' = slot /\ TriesOn
    <3>1. Misses(p)
      BY <2>4, <2>5, <2>8, <1>0, RingStays DEF Misses, SameRing
    <3> QED
      BY <3>1, <2>3, <2>5 DEF Effect
  <2> QED
    BY <2>5, <2>6, <2>7, <2>8 DEF Handled
<1>11. CASE GetCached
  <2>1. /\ pc = "get" /\ is_first' = is_first /\ UNCHANGED netVars
        /\ (\E q \in Packets : Takes(q)) \/ FindsNone
    BY <1>2, <1>11, CachedEffect
  <2>2. SameNet /\ Used = tries
    BY <2>1 DEF SameNet, netVars, Arrived, Used
  <2>3. ASSUME NEW q \in Packets, Takes(q) PROVE TakesOne(q)
    BY <2>2, <2>3 DEF Takes, TakesOne, HandsOut, Used
  <2>4. ASSUME FindsNone PROVE TakesNone
    <3>1. /\ NoneWaits /\ slot' = slot /\ Used = N - 3 /\ seq'[first'] = seq[first] + 1
          /\ out' = out /\ Used' = 0
      BY <2>2, <2>4 DEF FindsNone, Used
    <3>2. Expected' = Expected + 1
      <4>1. number[0] \in Nat /\ seq[first] \in Nat
        <5>1. PICK p \in Packets : TRUE
          BY <1>1 DEF KeptInv, Arrived
        <5> QED
          BY <5>1, <1>1, ExpectedFacts
      <4> QED
        BY <4>1, <3>1, <1>0 DEF Expected
    <3> QED
      BY <3>1, <3>2, <2>2, <1>0, RingStays DEF TakesNone
  <2> QED
    BY <2>1, <2>3, <2>4, <1>3 DEF Effect
<1> QED
  BY <1>5, <1>6, <1>7, <1>9, <1>10, <1>11 DEF Next

(* The first packet goes to the player, and nothing waits.                  *)
Starts(p) ==
  /\ p \in wire /\ wire' = wire \ {p} /\ Arrived = {} /\ Arrived' = {p}
  /\ UNCHANGED <<lost, repeated, bad>>
  /\ Expected' = p + 1 /\ (\A q \in Packets : ~Waits(q)') /\ Used' = 0 /\ out' = <<p>>

(* Every step before the first packet, and the step that takes it.          *)
LEMMA FirstEffects ==
  ASSUME TypeOK, TameNetwork, CountsOn, RingInv, CountInv, is_first, [Next]_vars
  PROVE  \/ is_first' = TRUE /\ FirstInv'
         \/ is_first' = FALSE /\ \E p \in Packets : Starts(p)
PROOF
<1>0. number' = number
  BY NumberStays
<1>1. ~Uneven /\ Arrived = {} /\ seq[first] + Used <= bad /\ wire \cap lost = {}
  BY Conditions DEF CountInv, FirstInv, NetInv
<1>2. NumbersRunOn
  BY RunsOn
<1>3. is_first = TRUE /\ wire \subseteq Packets /\ lost \subseteq Packets
  BY DEF TypeOK
<1>4. seq[first] \in Nat /\ Used \in Nat /\ bad \in Nat
  <2>1. seq \in [Slots -> 0 .. SeqRange - 1] /\ first \in Slots
    BY DEF TypeOK
  <2> QED
    BY <2>1, Conditions, Bounds
<1>5. CASE Read \/ SenderStopped \/ UNCHANGED vars
  <2>1. UNCHANGED <<seq, first, is_first, wire, lost, bad>> /\ Used' = Used
    BY <1>5 DEF Read, SenderStopped, vars, ringVars, netVars, Used
  <2> QED
    BY <2>1, <1>1, <1>3 DEF FirstInv, Arrived
<1>6. CASE Lose
  <2>1. UNCHANGED <<seq, first, is_first, bad, pc, tries>>
    BY <1>6 DEF Lose, ringVars
  <2>2. PICK p \in wire : wire' = wire \ {p} /\ lost' = lost \cup {p}
    BY <1>6 DEF Lose
  <2>3. Arrived' = {} /\ Used' = Used
    BY <2>1, <2>2, <1>1 DEF Arrived, Used
  <2> QED
    BY <2>1, <2>3, <1>1, <1>3 DEF FirstInv
<1>7. CASE ReceiveBad
  <2>1. UNCHANGED <<seq, first, is_first, wire, lost, pc>> /\ pc = "get"
        /\ bad' = bad + 1 /\ tries' = tries + 1
    BY <1>7 DEF ReceiveBad, TryAgain, Again, ringVars
  <2>2. Arrived' = {} /\ Used' = Used + 1
    BY <2>1, <1>1 DEF Arrived, Used
  <2>3. seq'[first'] + Used' <= bad'
    BY <2>1, <2>2, <1>1, <1>4
  <2> QED
    BY <2>1, <2>2, <2>3, <1>3 DEF FirstInv
<1>8. CASE ReceiveRepeated
  <2>1. Packets \ (wire \cup lost) # {}
    BY <1>8 DEF ReceiveRepeated
  <2> QED
    BY <2>1, <1>1 DEF Arrived
<1>9. CASE Receive
  <2>1. PICK p \in wire : rtp_cache(p) /\ wire' = wire \ {p}
    BY <1>9 DEF Receive
  <2>2. UNCHANGED <<lost, repeated, bad>> /\ TryAgain /\ p \in Packets
    BY <1>3, <1>9 DEF Receive
  <2>3. /\ is_first' = FALSE /\ Expected' = p + 1 /\ slot' = slot /\ NoneWaits
        /\ out = <<>> /\ HandsOut(p)
    BY <2>1, <2>2, <1>0, <1>2, FirstEffect
  <2>4. Arrived' = {p}
    BY <2>1, <2>2, <1>1 DEF Arrived
  <2>5. ASSUME NEW q \in Packets PROVE ~Waits(q)'
    <3>1. q # Empty
      BY Bounds DEF Empty
    <3> QED
      BY <3>1, <2>3 DEF Waits, NoneWaits
  <2>6. Used' = 0 /\ out' = <<p>>
    BY <2>3 DEF HandsOut, Used
  <2>7. Starts(p)
    BY <2>1, <2>2, <2>3, <2>4, <2>5, <2>6, <1>1 DEF Starts
  <2> QED
    BY <2>2, <2>3, <2>7
<1>10. CASE GetCached
  <2>1. pc = "get" /\ is_first' = is_first /\ UNCHANGED netVars /\ FindsNone
    BY <1>2, <1>10, CachedEffect
  <2>2. Used = N - 3 /\ Used' = 0 /\ seq'[first'] = seq[first] + 1 /\ bad' = bad
    BY <2>1 DEF FindsNone, Used, netVars
  <2>3. Arrived' = {}
    BY <2>1, <1>1 DEF Arrived, netVars
  <2>4. seq'[first'] + Used' <= bad'
    BY <2>2, <1>1, <1>4, Bounds
  <2> QED
    BY <2>1, <2>3, <2>4, <1>3 DEF FirstInv
<1> QED
  BY <1>5, <1>6, <1>7, <1>8, <1>9, <1>10 DEF Next
-----------------------------------------------------------------------------
(* The counts                                                               *)

(* Of the packets before one that has arrived few are yet to come.          *)
LEMMA FewBefore ==
  ASSUME NEW w \in SUBSET Packets, NEW q \in Packets \ w, q <= Min(w \cup {MaxSent}) + Reorder
  PROVE  Cardinality((0 .. (q + 1) - 1) \ (Packets \ w)) <= Reorder
PROOF
<1> DEFINE S == (0 .. (q + 1) - 1) \ (Packets \ w)
           m == Min(w \cup {MaxSent})
<1>1. m \in 0 .. MaxSent /\ \A p \in w : m <= p
  BY LeastOf
<1>2. MaxSent \in Nat /\ Packets = 0 .. MaxSent - 1 /\ Reorder \in Nat
  BY Bounds
<1>3. q <= m + Reorder
  OBVIOUS
<1> HIDE DEF m
<1>4. ASSUME NEW x \in S PROVE x \in m .. q - 1
  <2>1. x \in Int /\ 0 <= x /\ x <= q /\ q \in Nat
    BY <1>2, <1>4
  <2>2. x \in Packets
    BY <2>1, <1>2
  <2>3. x \in w /\ x # q
    BY <2>2, <1>4
  <2> QED
    BY <2>1, <2>3, <1>1
<1>5. S \subseteq m .. q - 1 /\ m \in Int /\ q - 1 \in Int
  BY <1>1, <1>2, <1>4
<1> DEFINE c == Cardinality(S)
<1>6. /\ c \in Nat /\ (m <= (q - 1) + 1 => c <= (q - 1) - m + 1) /\ (m > q - 1 => c = 0)
  BY <1>5, Within
<1> HIDE DEF c, S
<1>7. c <= Reorder
  BY <1>2, <1>3, <1>5, <1>6
<1> QED
  BY <1>7 DEF c, S

(* Sets of packets grow by one.                                             *)
LEMMA OneMore ==
  ASSUME NEW S, IsFiniteSet(S), NEW T, NEW x, T \subseteq S \cup {x}
  PROVE  /\ Cardinality(S) \in Nat /\ Cardinality(T) \in Nat /\ Cardinality(T) <= Cardinality(S) + 1
         /\ T \subseteq S => Cardinality(T) <= Cardinality(S)
         /\ x \in S /\ T = S \ {x} => Cardinality(T) = Cardinality(S) - 1
         /\ x \notin S /\ T = S \cup {x} => Cardinality(T) = Cardinality(S) + 1
PROOF
<1>1. Cardinality(S) \in Nat
  BY FS_CardinalityType
<1>2. /\ IsFiniteSet(S \cup {x})
      /\ Cardinality(S \cup {x}) = IF x \in S THEN Cardinality(S) ELSE Cardinality(S) + 1
  BY FS_AddElement
<1>3. Cardinality(S \cup {x}) <= Cardinality(S) + 1 /\ Cardinality(S \cup {x}) \in Nat
  BY <1>1, <1>2
<1>4. IsFiniteSet(T) /\ Cardinality(T) <= Cardinality(S \cup {x})
  BY <1>2, FS_Subset
<1>5. Cardinality(T) \in Nat
  BY <1>4, FS_CardinalityType
<1>6. Cardinality(T) <= Cardinality(S) + 1
  BY <1>1, <1>3, <1>4, <1>5
<1>7. T \subseteq S => Cardinality(T) <= Cardinality(S)
  BY FS_Subset
<1>8. x \in S /\ T = S \ {x} => Cardinality(T) = Cardinality(S) - 1
  BY FS_RemoveElement
<1>9. x \notin S /\ T = S \cup {x} => Cardinality(T) = Cardinality(S) + 1
  BY <1>2
<1> QED
  BY <1>1, <1>5, <1>6, <1>7, <1>8, <1>9

(* What has arrived and was not passed still waits.                         *)
LEMMA KeptStep ==
  ASSUME TypeOK, ~Uneven, NetInv, KeptInv, GivenInv, Effect
  PROVE  KeptInv'
PROOF
<1>1. /\ Arrived # {} /\ (\A p \in Arrived : p >= Expected => Waits(p))
      /\ \A p \in Packets : Waits(p) => p \in Arrived
  BY DEF KeptInv
<1>2. Expected \in Nat /\ Expected > 0
  BY ExpectedBound
<1>3. Arrived \subseteq Packets /\ \A p \in Packets : p \in Nat
  BY Bounds DEF Arrived
<1> SUFFICES /\ Arrived' # {} /\ Expected' > 0
             /\ \A p \in Arrived' : p >= Expected' => Waits(p)'
             /\ \A p \in Packets : Waits(p)' => p \in Arrived'
  BY DEF KeptInv
<1>4. CASE SameWaiting /\ Arrived' = Arrived /\ (Expected' = Expected \/ Expected' = Expected + 1)
  BY <1>1, <1>2, <1>3, <1>4 DEF SameWaiting
<1>5. ASSUME NEW p \in Packets, Misses(p) \/ Delivers(p)
      PROVE  /\ Arrived' # {} /\ Expected' > 0
             /\ \A q \in Arrived' : q >= Expected' => Waits(q)'
             /\ \A q \in Packets : Waits(q)' => q \in Arrived'
  <2>1. /\ SameWaiting /\ Arrived' = Arrived \cup {p} /\ p < Expected'
        /\ (Expected' = Expected \/ Expected' = Expected + 1)
    BY <1>2, <1>5 DEF Misses, Delivers, Gone, SameRing
  <2> QED
    BY <2>1, <1>1, <1>2, <1>3 DEF SameWaiting
<1>6. ASSUME NEW p \in Packets, Keeps(p)
      PROVE  /\ Arrived' # {} /\ Expected' > 0
             /\ \A q \in Arrived' : q >= Expected' => Waits(q)'
             /\ \A q \in Packets : Waits(q)' => q \in Arrived'
  <2>1. /\ Arrived' = Arrived \cup {p} /\ Expected' = Expected
        /\ \A q \in Packets : Waits(q)' <=> Waits(q) \/ q = p
    BY <1>6 DEF Keeps, Gone
  <2> QED
    BY <2>1, <1>1, <1>2, <1>3
<1>7. ASSUME NEW p \in Packets, TakesOne(p)
      PROVE  /\ Arrived' # {} /\ Expected' > 0
             /\ \A q \in Arrived' : q >= Expected' => Waits(q)'
             /\ \A q \in Packets : Waits(q)' => q \in Arrived'
  <2>1. /\ Arrived' = Arrived /\ Expected' = p + 1 /\ p >= Expected
        /\ \A q \in Packets : Waits(q)' <=> Waits(q) /\ q # p
    BY <1>7 DEF TakesOne, SameNet
  <2>2. ASSUME NEW q \in Arrived, q >= p + 1 PROVE Waits(q)'
    <3>1. q \in Packets /\ q \in Nat /\ p \in Nat
      BY <1>3
    <3>2. q >= Expected /\ q # p
      BY <3>1, <2>1, <2>2, <1>2
    <3> QED
      BY <3>1, <3>2, <2>1, <1>1
  <2> QED
    BY <2>1, <2>2, <1>1, <1>2, <1>3
<1>8. Idles \/ Wastes \/ TakesNone \/ (\E p \in Packets : Loses(p))
      => SameWaiting /\ Arrived' = Arrived /\ (Expected' = Expected \/ Expected' = Expected + 1)
  BY DEF Idles, Wastes, TakesNone, Loses, SameRing, SameNet
<1> QED
  BY <1>4, <1>5, <1>6, <1>7, <1>8 DEF Effect

(* The expected packet gets ahead of the sender by wasted tries only.       *)
LEMMA GivenStep ==
  ASSUME TypeOK, TypeOK', ~Uneven, NetInv, NetInv', KeptInv, GivenInv, Effect,
         Used \in Nat, Used' \in Nat
  PROVE  GivenInv'
PROOF
<1>1. /\ Expected \in Nat /\ Expected > 0 /\ IsFiniteSet(Given) /\ Cardinality(Given) \in Nat
      /\ Packets = 0 .. MaxSent - 1 /\ MaxSent \in Nat /\ Reorder \in Nat /\ N \in Nat /\ N > 3
  BY ExpectedBound, Bounds
<1>2. /\ bad \in Nat /\ repeated \in Nat /\ bad' \in Nat /\ repeated' \in Nat
      /\ wire \subseteq Packets /\ wire' \subseteq Packets
  <2>1. /\ bad \in 0 .. MaxBad /\ repeated \in 0 .. MaxRepeat
        /\ bad' \in 0 .. MaxBad /\ repeated' \in 0 .. MaxRepeat
        /\ wire \subseteq Packets /\ wire' \subseteq Packets
    BY DEF TypeOK
  <2> QED
    BY <2>1, Bounds
<1> DEFINE c == Cardinality(Given)
           d == Cardinality(Given')
           u == IF NoneWaits THEN Used ELSE 0
           v == IF NoneWaits' THEN Used' ELSE 0
<1>3. c + u <= Reorder + bad + repeated
  BY DEF GivenInv
<1>4. u \in Nat /\ v \in Nat
  OBVIOUS
<1>5. Given = (0 .. Expected - 1) \ (Packets \ wire) /\ Given' = (0 .. Expected' - 1) \ (Packets \ wire')
  BY DEF Given
<1> SUFFICES d + v <= Reorder + bad' + repeated'
  BY DEF GivenInv
<1>6. ASSUME NEW x, Given' \subseteq Given \cup {x}
      PROVE  /\ d \in Nat /\ d <= c + 1 /\ (Given' \subseteq Given => d <= c)
             /\ x \in Given /\ Given' = Given \ {x} => d = c - 1
  BY <1>1, <1>6, OneMore
<1>7. ASSUME Idles PROVE d + v <= Reorder + bad' + repeated'
  <2>1. Given' = Given /\ bad' = bad /\ repeated' = repeated /\ v = u
    BY <1>5, <1>7 DEF Idles, SameNet, SameRing
  <2> QED
    BY <2>1, <1>3
<1>8. ASSUME Wastes PROVE d + v <= Reorder + bad' + repeated'
  <2>1. Given' = Given /\ repeated' + bad' = repeated + bad + 1 /\ v <= u + 1
    BY <1>5, <1>8 DEF Wastes, SameRing
  <2> HIDE DEF c, d, u, v
  <2>2. d = c
    BY <2>1 DEF c, d
  <2>3. c \in Nat
    BY <1>1 DEF c
  <2>4. \A x, y, z, r, a, b, i, j \in Nat :
          x + y <= r + a + b /\ z <= y + 1 /\ j + i = b + a + 1 => x + z <= r + i + j
    OBVIOUS
  <2> QED
    BY <2>1, <2>2, <2>3, <2>4, <1>1, <1>2, <1>3, <1>4
<1>9. ASSUME TakesNone PROVE d + v <= Reorder + bad' + repeated'
  <2>1. Given' \subseteq Given \cup {Expected}
    <3>1. wire' = wire /\ Expected' = Expected + 1
      BY <1>9 DEF TakesNone, SameNet
    <3>2. ASSUME NEW x \in 0 .. Expected PROVE x = Expected \/ x \in 0 .. Expected - 1
      BY <3>2, <1>1
    <3>3. (Expected + 1) - 1 = Expected
      BY <1>1
    <3> QED
      BY <3>1, <3>2, <3>3, <1>5
  <2>2. u = N - 3 /\ v = 0 /\ bad' = bad /\ repeated' = repeated
    BY <1>9 DEF TakesNone, SameNet
  <2>3. d \in Nat /\ d <= c + 1 /\ c \in Nat
    BY <2>1, <1>1, <1>6
  <2> HIDE DEF c, d, u, v
  <2> QED
    BY <2>2, <2>3, <1>1, <1>2, <1>3
<1>10. ASSUME NEW p \in Packets, Loses(p) PROVE d + v <= Reorder + bad' + repeated'
  <2>1. Given' \subseteq Given
    BY <1>5, <1>10 DEF Loses, SameRing
  <2>2. v = u /\ bad' = bad /\ repeated' = repeated
    BY <1>10 DEF Loses, SameRing
  <2>3. d \in Nat /\ d <= c /\ c \in Nat
    BY <2>1, <1>1, <1>6
  <2> HIDE DEF c, d, u, v
  <2> QED
    BY <2>2, <2>3, <1>1, <1>2, <1>3, <1>4
<1>11. ASSUME NEW p \in Packets, Misses(p) PROVE d + v <= Reorder + bad' + repeated'
  <2>1. /\ p \in wire /\ wire' = wire \ {p} /\ p < Expected /\ Expected' = Expected
        /\ bad' = bad /\ repeated' = repeated
    BY <1>11 DEF Misses, Gone, SameRing
  <2>2. p \in Given /\ Given' = Given \ {p}
    <3>1. p \in 0 .. Expected - 1
      BY <2>1, <1>1
    <3> QED
      BY <3>1, <2>1, <1>5
  <2>3. d = c - 1 /\ c \in Nat
    BY <2>2, <1>1, <1>6
  <2>4. v <= u + 1
    BY <1>11 DEF Misses, SameRing
  <2> HIDE DEF c, d, u, v
  <2> QED
    BY <2>1, <2>3, <2>4, <1>1, <1>2, <1>3, <1>4
<1>12. ASSUME NEW p \in Packets, Keeps(p) PROVE d + v <= Reorder + bad' + repeated'
  <2>1. /\ p \in wire /\ wire' = wire \ {p} /\ Expected' = Expected
        /\ bad' = bad /\ repeated' = repeated /\ v = 0
    BY <1>12 DEF Keeps, Gone
  <2>2. Given' \subseteq Given
    BY <2>1, <1>5
  <2>3. d \in Nat /\ d <= c /\ c \in Nat
    BY <2>2, <1>1, <1>6
  <2> HIDE DEF c, d, u, v
  <2> QED
    BY <2>1, <2>3, <1>1, <1>2, <1>3, <1>4
<1>13. ASSUME NEW p \in Packets, Delivers(p) PROVE d + v <= Reorder + bad' + repeated'
  <2>1. /\ p = Expected /\ wire' = wire \ {p} /\ Expected' = Expected + 1
        /\ bad' = bad /\ repeated' = repeated /\ v = 0
    BY <1>13 DEF Delivers, Gone
  <2>2. Given' \subseteq Given
    <3>1. ASSUME NEW x \in 0 .. Expected, x # Expected PROVE x \in 0 .. Expected - 1
      BY <3>1, <1>1
    <3>2. (Expected + 1) - 1 = Expected /\ Expected \in Packets /\ Expected \notin wire'
      BY <2>1, <1>1
    <3> QED
      BY <3>1, <3>2, <2>1, <1>5
  <2>3. d \in Nat /\ d <= c /\ c \in Nat
    BY <2>2, <1>1, <1>6
  <2> HIDE DEF c, d, u, v
  <2> QED
    BY <2>1, <2>3, <1>1, <1>2, <1>3, <1>4
<1>14. ASSUME NEW p \in Packets, TakesOne(p) PROVE d + v <= Reorder + bad' + repeated'
  <2>1. Expected' = p + 1 /\ bad' = bad /\ repeated' = repeated /\ wire' = wire /\ v = 0
    BY <1>14 DEF TakesOne, SameNet
  <2>2. p \in Packets \ wire'
    <3>1. p \in Arrived
      BY <1>14 DEF TakesOne, KeptInv
    <3> QED
      BY <3>1, <2>1 DEF Arrived
  <2>3. p <= Min(wire' \cup {MaxSent}) + Reorder
    BY <2>2 DEF NetInv, Foremost
  <2>4. d <= Reorder
    BY <2>1, <2>2, <2>3, <1>2, <1>5, FewBefore
  <2>5. d \in Nat
    <3>1. Given' \subseteq 0 .. (p + 1) - 1 /\ 0 \in Int /\ (p + 1) - 1 \in Int
      BY <2>1, <1>1, <1>5
    <3> QED
      BY <3>1, Within
  <2> HIDE DEF c, d, u, v
  <2> QED
    BY <2>1, <2>4, <2>5, <1>1, <1>2
<1> QED
  BY <1>7, <1>8, <1>9, <1>10, <1>11, <1>12, <1>13, <1>14 DEF Effect

(* What waits behind a lost packet is bounded by the tries spent on it.     *)
LEMMA BehindStep ==
  ASSUME TypeOK, TypeOK', ~Uneven, NetInv, NetInv', KeptInv, GivenInv, BehindInv, Effect,
         Used \in Nat, Used' \in Nat
  PROVE  BehindInv'
PROOF
<1>1. /\ Expected \in Nat /\ Packets = 0 .. MaxSent - 1 /\ MaxSent \in Nat /\ Reorder \in Nat
      /\ LossGap \in Nat /\ \A p \in Packets : p \in Nat
  BY ExpectedBound, Bounds
<1>2. lost \subseteq Packets /\ lost' \subseteq Packets /\ wire \subseteq Packets /\ Arrived \subseteq Packets
  BY DEF TypeOK, Arrived
<1>3. \A y \in lost : y >= Expected =>
        Cardinality(Behind(y)) <= Reorder + (IF y = Expected THEN Used ELSE 0)
  BY DEF BehindInv
<1>4. \A y : IsFiniteSet(Behind(y)) /\ Cardinality(Behind(y)) \in Nat
  <2>1. \A y : Behind(y) \subseteq Packets
    BY <1>2 DEF Behind
  <2> QED
    BY <2>1, FiniteParts
<1> DEFINE After(y) == {p \in Arrived' : p > y}
<1> SUFFICES ASSUME NEW y \in lost', y >= Expected'
             PROVE  Cardinality(After(y)) <= Reorder + (IF y = Expected' THEN Used' ELSE 0)
  BY DEF BehindInv, Behind
<1>5. y \in Packets /\ y \in Nat
  BY <1>1, <1>2
<1>6. CASE y \in lost /\ After(y) = Behind(y) /\ (y = Expected => Expected' = Expected /\ Used' >= Used)
           /\ Expected' >= Expected /\ Expected' \in Nat
  <2>1. y >= Expected
    BY <1>1, <1>5, <1>6
  <2>2. Cardinality(Behind(y)) <= Reorder + (IF y = Expected THEN Used ELSE 0)
    BY <2>1, <1>3, <1>6
  <2>3. (IF y = Expected THEN Used ELSE 0) <= (IF y = Expected' THEN Used' ELSE 0)
    BY <1>6
  <2> DEFINE u == IF y = Expected THEN Used ELSE 0
             v == IF y = Expected' THEN Used' ELSE 0
             c == Cardinality(Behind(y))
  <2>4. u \in Nat /\ v \in Nat /\ c \in Nat /\ u <= v /\ c <= Reorder + u
    BY <2>2, <2>3, <1>4
  <2> HIDE DEF u, v, c
  <2>5. c <= Reorder + v
    BY <2>4, <1>1
  <2> QED
    BY <2>5, <1>6 DEF c, v
<1>7. CASE Idles \/ Wastes \/ TakesNone
  <2>1. /\ lost' = lost /\ Arrived' = Arrived
        /\ (Expected' = Expected /\ Used' >= Used) \/ Expected' = Expected + 1
    BY <1>7 DEF Idles, Wastes, TakesNone, SameNet, SameRing
  <2>2. After(y) = Behind(y)
    BY <2>1 DEF Behind
  <2>3. y = Expected => Expected' = Expected
    BY <2>1, <1>1
  <2> QED
    BY <2>1, <2>2, <2>3, <1>1, <1>6
<1>8. ASSUME NEW p \in Packets, Loses(p)
      PROVE  Cardinality(After(y)) <= Reorder + (IF y = Expected' THEN Used' ELSE 0)
  <2>1. /\ p \in wire /\ lost' = lost \cup {p} /\ Arrived' = Arrived
        /\ Expected' = Expected /\ Used' = Used
    BY <1>8 DEF Loses, SameRing
  <2>2. After(y) = Behind(y)
    BY <2>1 DEF Behind
  <2>3. CASE y \in lost
    BY <2>1, <2>2, <2>3, <1>1, <1>6
  <2>4. CASE y = p
    <3>1. Foremost <= y /\ Foremost \in Int
      BY <2>1, <2>4, FrontPlace
    <3>2. ASSUME NEW x \in Behind(y) PROVE x \in y + 1 .. y + Reorder
      <4>1. x \in Packets \ wire /\ x > y /\ x \in Nat
        BY <3>2, <1>1 DEF Behind, Arrived
      <4>2. x <= Foremost + Reorder
        BY <4>1 DEF NetInv
      <4> QED
        BY <4>1, <4>2, <3>1, <1>1, <1>5
    <3>3. Behind(y) \subseteq y + 1 .. y + Reorder /\ y + 1 \in Int /\ y + Reorder \in Int
          /\ y + 1 <= y + Reorder + 1
      BY <3>2, <1>1, <1>5
    <3>4. Cardinality(Behind(y)) <= (y + Reorder) - (y + 1) + 1
      BY <3>3, Within
    <3> DEFINE c == Cardinality(Behind(y))
    <3> HIDE DEF c
    <3>5. c <= Reorder + (IF y = Expected' THEN Used' ELSE 0)
      BY <3>4, <1>1, <1>4, <1>5 DEF c
    <3> QED
      BY <3>5, <2>2 DEF c
  <2> QED
    BY <2>1, <2>3, <2>4
<1>9. ASSUME NEW p \in Packets, Misses(p) \/ Delivers(p)
      PROVE  Cardinality(After(y)) <= Reorder + (IF y = Expected' THEN Used' ELSE 0)
  <2>1. /\ lost' = lost /\ Arrived' = Arrived \cup {p} /\ p <= Expected
        /\ (Expected' = Expected /\ Used' >= Used) \/ Expected' = Expected + 1
    BY <1>1, <1>9 DEF Misses, Delivers, Gone, SameRing
  <2>2. After(y) = Behind(y)
    <3>1. ~(p > y)
      BY <2>1, <1>1, <1>5
    <3> QED
      BY <3>1, <2>1 DEF Behind
  <2>3. y = Expected => Expected' = Expected
    BY <2>1, <1>1
  <2> QED
    BY <2>1, <2>2, <2>3, <1>1, <1>6
<1>10. ASSUME NEW p \in Packets, TakesOne(p)
       PROVE  Cardinality(After(y)) <= Reorder + (IF y = Expected' THEN Used' ELSE 0)
  <2>1. lost' = lost /\ Arrived' = Arrived /\ p >= Expected /\ Expected' = p + 1
    BY <1>10 DEF TakesOne, SameNet
  <2>2. After(y) = Behind(y)
    BY <2>1 DEF Behind
  <2>3. y # Expected /\ Expected' >= Expected /\ Expected' \in Nat
    BY <2>1, <1>1, <1>5
  <2> QED
    BY <2>1, <2>2, <2>3, <1>6
<1>11. ASSUME NEW p \in Packets, Keeps(p)
       PROVE  Cardinality(After(y)) <= Reorder + (IF y = Expected' THEN Used' ELSE 0)
  <2>1. /\ lost' = lost /\ wire' = wire \ {p} /\ Arrived' = Arrived \cup {p} /\ p > Expected
        /\ Expected' = Expected /\ Used' = Used + 1
        /\ Expected \in wire \/ (Expected \in lost /\ p <= Expected + LossGap)
    BY <1>11 DEF Keeps, Gone
  <2>2. After(y) \subseteq Behind(y) \cup {p}
    BY <2>1 DEF Behind
  <2>3. CASE y = Expected
    <3> DEFINE c == Cardinality(Behind(y))
               d == Cardinality(After(y))
    <3>1. d \in Nat /\ d <= c + 1 /\ c \in Nat
      BY <2>2, <1>4, OneMore
    <3>2. c <= Reorder + Used
      <4>1. y >= Expected /\ y \in lost
        BY <2>1, <2>3, <1>1
      <4> QED
        BY <4>1, <2>3, <1>3
    <3> HIDE DEF c, d
    <3>3. d <= Reorder + Used'
      BY <3>1, <3>2, <2>1, <1>1
    <3> QED
      BY <3>3, <2>1, <2>3 DEF d
  <2>4. CASE y # Expected /\ Expected \in wire
    <3>1. y > Expected
      BY <2>1, <2>4, <1>1, <1>5
    <3>2. Expected \in wire'
      BY <2>1, <2>4, <1>1
    <3>3. Min(wire' \cup {MaxSent}) <= Expected /\ Min(wire' \cup {MaxSent}) \in Int
      <4>1. wire' \in SUBSET Packets
        BY <2>1, <1>2
      <4> QED
        BY <4>1, <3>2, LeastOf
    <3>4. ASSUME NEW x \in After(y) PROVE x \in y + 1 .. y + Reorder
      <4>1. x \in Packets \ wire' /\ x > y /\ x \in Nat
        BY <3>4, <1>1 DEF Arrived
      <4>2. x <= Min(wire' \cup {MaxSent}) + Reorder
        BY <4>1 DEF NetInv, Foremost
      <4>3. \A m, r, e, z, w \in Int : z <= m + r /\ m <= e /\ w > e => z <= w + r
        OBVIOUS
      <4>4. x <= y + Reorder
        BY <4>1, <4>2, <4>3, <3>1, <3>3, <1>1, <1>5
      <4> QED
        BY <4>1, <4>4, <1>1, <1>5
    <3>5. After(y) \subseteq y + 1 .. y + Reorder /\ y + 1 \in Int /\ y + Reorder \in Int
          /\ y + 1 <= y + Reorder + 1
      BY <3>4, <1>1, <1>5
    <3>6. Cardinality(After(y)) <= (y + Reorder) - (y + 1) + 1 /\ Cardinality(After(y)) \in Nat
      BY <3>5, Within
    <3> DEFINE c == Cardinality(After(y))
    <3> HIDE DEF c
    <3>7. c <= Reorder + 0
      BY <3>6, <1>1, <1>5 DEF c
    <3> QED
      BY <3>7, <2>1, <2>4 DEF c
  <2>5. CASE y # Expected /\ Expected \in lost /\ p <= Expected + LossGap
    <3>1. y > Expected /\ y \in lost
      BY <2>1, <2>5, <1>1, <1>5
    <3>2. LossGap <= y - Expected
      BY <3>1, <2>5 DEF NetInv
    <3>3. ~(p > y)
      BY <3>2, <2>5, <1>1, <1>5
    <3>4. After(y) = Behind(y)
      BY <3>3, <2>1 DEF Behind
    <3> QED
      BY <3>1, <3>4, <2>1, <2>5, <1>1, <1>6
  <2> QED
    BY <2>1, <2>3, <2>4, <2>5
<1> QED
  BY <1>7, <1>8, <1>9, <1>10, <1>11 DEF Effect

(* The counts after the first packet.                                       *)
LEMMA StartStep ==
  ASSUME TypeOK, TypeOK', NetInv', NEW p \in Packets, Starts(p)
  PROVE  KeptInv' /\ BehindInv' /\ GivenInv'
PROOF
<1>1. /\ wire' = wire \ {p} /\ Arrived' = {p} /\ Expected' = p + 1
      /\ (\A q \in Packets : ~Waits(q)') /\ Used' = 0
  BY DEF Starts
<1>2. p \in Nat /\ Reorder \in Nat /\ \A q \in Packets : q \in Nat
  BY Bounds
<1>3. KeptInv'
  BY <1>1, <1>2 DEF KeptInv
<1>4. BehindInv'
  <2>1. ASSUME NEW y \in lost', y >= p + 1 PROVE Behind(y)' = {}
    <3>1. y \in Nat
      BY <2>1, <1>2 DEF TypeOK
    <3> QED
      BY <3>1, <2>1, <1>1, <1>2 DEF Behind
  <2>2. Cardinality({}) = 0
    BY FS_EmptySet
  <2>3. 0 <= Reorder + 0
    BY <1>2
  <2> QED
    BY <2>1, <2>2, <2>3, <1>1 DEF BehindInv
<1>5. GivenInv'
  <2>1. wire' \in SUBSET Packets /\ p \in Packets \ wire'
    BY <1>1 DEF TypeOK
  <2>2. p <= Min(wire' \cup {MaxSent}) + Reorder
    BY <2>1 DEF NetInv, Foremost
  <2> DEFINE d == Cardinality(Given')
             v == IF NoneWaits' THEN Used' ELSE 0
  <2>3. Given' = (0 .. (p + 1) - 1) \ (Packets \ wire')
    BY <1>1 DEF Given
  <2>4. d <= Reorder
    BY <2>1, <2>2, <2>3, FewBefore
  <2>5. d \in Nat
    <3>1. Given' \subseteq 0 .. (p + 1) - 1 /\ 0 \in Int /\ (p + 1) - 1 \in Int
      BY <2>3, <1>2
    <3> QED
      BY <3>1, Within
  <2>6. v = 0
    BY <1>1
  <2>7. bad' \in Nat /\ repeated' \in Nat
    <3>1. bad' \in 0 .. MaxBad /\ repeated' \in 0 .. MaxRepeat
      BY DEF TypeOK
    <3> QED
      BY <3>1, Bounds
  <2> HIDE DEF d, v
  <2>8. d + v <= Reorder + bad' + repeated'
    <3>1. \A x, r, a, b \in Nat : x <= r => x + 0 <= r + a + b
      OBVIOUS
    <3> QED
      BY <3>1, <2>4, <2>5, <2>6, <2>7, <1>2
  <2> QED
    BY <2>8 DEF d, v, GivenInv
<1> QED
  BY <1>3, <1>4, <1>5

(* The counts at the start.                                                 *)
LEMMA CountInit == Init => CountInv
PROOF
<1> SUFFICES ASSUME Init PROVE CountInv
  OBVIOUS
<1>1. wire = Packets /\ lost = {} /\ bad = 0 /\ is_first = TRUE /\ pc = "idle" /\ first = 0
      /\ seq = [i \in Slots |-> 0]
  BY DEF Init
<1>2. NetInv
  BY <1>1 DEF NetInv
<1>3. Arrived = {} /\ Used = 0
  BY <1>1 DEF Arrived, Used
<1>4. seq[first] = 0
  BY <1>1, Bounds
<1>5. FirstInv
  BY <1>1, <1>3, <1>4 DEF FirstInv
<1> QED
  BY <1>1, <1>2, <1>5 DEF CountInv

(* Every step keeps the counts.                                             *)
LEMMA CountStep ==
  ASSUME TypeOK, TypeOK', TameNetwork, CountsOn, RingInv, CountInv, [Next]_vars
  PROVE  CountInv'
PROOF
<1>1. ~Uneven /\ NetInv /\ is_first \in BOOLEAN /\ Used \in Nat
  BY Conditions DEF CountInv, TypeOK
<1>2. NetInv'
  BY <1>1, NetStep
<1>3. Used' \in Nat
  <2>1. tries' \in 0 .. N - 3
    BY DEF TypeOK
  <2>2. tries' \in Nat
    BY <2>1, Bounds
  <2> QED
    BY <2>2 DEF Used
<1>4. CASE is_first
  <2>1. CASE is_first' = TRUE /\ FirstInv'
    BY <2>1, <1>2 DEF CountInv
  <2>2. CASE is_first' = FALSE /\ \E p \in Packets : Starts(p)
    <3>1. KeptInv' /\ BehindInv' /\ GivenInv'
      BY <2>2, <1>2, StartStep
    <3> QED
      BY <3>1, <2>2, <1>2 DEF CountInv
  <2> QED
    BY <2>1, <2>2, <1>4, FirstEffects
<1>5. CASE ~is_first
  <2>1. KeptInv /\ BehindInv /\ GivenInv
    BY <1>5 DEF CountInv
  <2>2. is_first' = FALSE /\ Effect
    BY <1>5, Effects
  <2>3. KeptInv'
    BY <2>1, <2>2, <1>1, KeptStep
  <2>4. GivenInv'
    BY <2>1, <2>2, <1>1, <1>2, <1>3, GivenStep
  <2>5. BehindInv'
    BY <2>1, <2>2, <1>1, <1>2, <1>3, BehindStep
  <2> QED
    BY <2>2, <2>3, <2>4, <2>5, <1>2 DEF CountInv
<1> QED
  BY <1>4, <1>5

(* The numbers stay even.                                                   *)
LEMMA CountsStay == [Next]_vars => (CountsOn' <=> CountsOn)
PROOF
<1> SUFFICES ASSUME [Next]_vars PROVE CountsOn' <=> CountsOn
  OBVIOUS
<1>1. number' = number
  BY NumberStays
<1> QED
  BY <1>1 DEF CountsOn, Uneven
-----------------------------------------------------------------------------
(* What is skipped                                                          *)

(* The packets that missed the first one are few.                           *)
LEMMA FewMissed ==
  ASSUME TypeOK, SkipInv, ~is_first, out[1] \in Int
  PROVE  IsFiniteSet(Missed) /\ Cardinality(Missed) \in Nat /\ Cardinality(Missed) <= Reorder
PROOF
<1>1. Reorder \in Nat /\ \A p \in Packets : p \in Nat
  BY Bounds
<1>2. \A p \in Packets \ lost : out[1] <= p + Reorder
  BY DEF SkipInv
<1> DEFINE o == out[1]
           c == Cardinality(Missed)
<1>3. ASSUME NEW p \in Missed PROVE p \in o - Reorder .. o - 1
  <2>1. p \in Packets /\ p \notin lost /\ p < o /\ p \in Nat
    BY <1>1, <1>3 DEF Missed, Arrived
  <2>2. o <= p + Reorder
    BY <2>1, <1>2
  <2> QED
    BY <2>1, <2>2, <1>1
<1>4. Missed \subseteq o - Reorder .. o - 1 /\ o - Reorder \in Int /\ o - 1 \in Int
  BY <1>1, <1>3
<1>5. /\ IsFiniteSet(Missed) /\ c \in Nat
      /\ o - Reorder <= (o - 1) + 1 => c <= (o - 1) - (o - Reorder) + 1
  BY <1>4, Within
<1> HIDE DEF c, o
<1>6. c <= Reorder
  <2>1. o \in Int
    BY DEF o
  <2> QED
    BY <2>1, <1>1, <1>5
<1> QED
  BY <1>5, <1>6 DEF c

(* The parts of SkipInv after a step that hands out nothing.                *)
LEMMA OutStays ==
  ASSUME TypeOK, SkipInv, ~is_first, out' = out, lost \subseteq lost', Arrived \subseteq Arrived'
  PROVE  /\ out' # <<>> /\ \A j \in 1 .. Len(out') : out'[j] \in Arrived'
         /\ \A p \in Packets \ lost' : out'[1] <= p + Reorder
BY DEF SkipInv

(* And after one that hands out packet q.                                   *)
LEMMA OutGrows ==
  ASSUME TypeOK, SkipInv, ~is_first, NEW q \in Packets, out' = Append(out, q),
         lost \subseteq lost', Arrived \subseteq Arrived', q \in Arrived'
  PROVE  /\ out' # <<>> /\ (\A j \in 1 .. Len(out') : out'[j] \in Arrived')
         /\ \A p \in Packets \ lost' : out'[1] <= p + Reorder
         /\ out'[1] = out[1] /\ Len(out') = Len(out) + 1 /\ out'[Len(out) + 1] = q
         /\ Len(out) \in Nat /\ \A j \in 1 .. Len(out) : out'[j] = out[j]
PROOF
<1>1. out \in Seq(Packets) /\ out # <<>>
  BY DEF TypeOK, SkipInv
<1>2. /\ Len(out) \in Nat /\ Len(out) > 0 /\ Len(out') = Len(out) + 1 /\ out'[Len(out) + 1] = q
      /\ \A j \in 1 .. Len(out) : out'[j] = out[j]
  BY <1>1
<1>3. out'[1] = out[1] /\ out' # <<>>
  BY <1>1, <1>2
<1>4. ASSUME NEW j \in 1 .. Len(out') PROVE out'[j] \in Arrived'
  <2>1. j \in 1 .. Len(out) \/ j = Len(out) + 1
    BY <1>2
  <2> QED
    BY <2>1, <1>2 DEF SkipInv
<1> QED
  BY <1>2, <1>3, <1>4 DEF SkipInv

(* While the call is patient no late packet was passed over: it missed the  *)
(* first one.                                                               *)
LEMMA LateMissed ==
  ASSUME TypeOK, SkipInv, NetInv, ~is_first, Patient, NEW p \in wire, p \notin Arrived, p < Expected,
         out[1] \in Int
  PROVE  p < out[1]
PROOF
<1>1. p \in Packets /\ p \in Nat /\ p \notin lost
  <2>1. p \in Packets /\ p \notin lost
    BY DEF TypeOK, NetInv
  <2> QED
    BY <2>1, Bounds
<1>2. out # <<>> /\ (\A j \in 1 .. Len(out) : out[j] \in Arrived) /\ NoneSkipped
  BY DEF SkipInv
<1>3. 1 \in 1 .. Len(out)
  BY <1>2 DEF TypeOK
<1>4. p # out[1]
  BY <1>2, <1>3
<1>5. ~(out[1] < p)
  BY <1>1, <1>2 DEF NoneSkipped
<1> QED
  BY <1>1, <1>4, <1>5

(* A patient call does not run out of tries when only packets that the      *)
(* network moved ahead are behind the expected one.                         *)
LEMMA TriesLast ==
  ASSUME TypeOK, SkipInv, ~is_first, Patient, out[1] \in Int, Used = N - 3,
         Cardinality(Behind(Expected)) \in Nat, Cardinality(Behind(Expected)) <= Reorder
  PROVE  FALSE
PROOF
<1> DEFINE c == Cardinality(Missed)
           d == Cardinality(Behind(Expected))
<1>1. c \in Nat /\ c <= Reorder /\ d \in Nat /\ d <= Reorder
  BY FewMissed
<1>2. Used <= c + d + repeated + bad
  BY DEF SkipInv
<1>3. bad \in Nat /\ repeated \in Nat /\ N \in Nat /\ Reorder \in Nat
  <2>1. bad \in 0 .. MaxBad /\ repeated \in 0 .. MaxRepeat
    BY DEF TypeOK
  <2> QED
    BY <2>1, Bounds
<1>4. 2 * Reorder + repeated + bad < N - 3
  BY DEF Patient
<1> HIDE DEF c, d
<1> QED
  BY <1>1, <1>2, <1>3, <1>4

(* The first packet handed out.                                             *)
LEMMA FirstOut ==
  ASSUME TypeOK, SkipInv, ~is_first
  PROVE  out[1] \in Packets /\ out[1] \in Int /\ out[1] \in Arrived /\ 1 \in 1 .. Len(out)
PROOF
<1>1. 1 \in 1 .. Len(out) /\ out[1] \in Packets
  BY DEF TypeOK, SkipInv
<1> QED
  BY <1>1, Bounds DEF SkipInv

(* A step that hands out nothing and does not move on.                      *)
LEMMA SkipWait ==
  ASSUME TypeOK, TypeOK', SkipInv, NetInv, ~is_first, Expected \in Int,
         Expected' = Expected, out' = out, lost \subseteq lost',
         NEW S, Arrived' = Arrived \cup S,
         repeated' + bad' >= repeated + bad,
         Patient => /\ \A p \in S : p \in Packets
                    /\ \/ S = {} /\ Used' + repeated + bad <= Used + repeated' + bad'
                       \/ /\ Used' = Used + 1 /\ repeated' = repeated /\ bad' = bad
                          /\ \E p : S = {p} /\ p \notin Arrived /\ (p < out[1] \/ p > Expected),
         Used \in Nat, Used' \in Nat, is_first' = FALSE
  PROVE  SkipInv'
PROOF
<1>1. out[1] \in Int
  BY FirstOut
<1>2. Arrived \subseteq Arrived'
  OBVIOUS
<1>3. /\ out' # <<>> /\ \A j \in 1 .. Len(out') : out'[j] \in Arrived'
      /\ \A p \in Packets \ lost' : out'[1] <= p + Reorder
  BY <1>2, OutStays
<1>4. /\ bad \in Nat /\ repeated \in Nat /\ bad' \in Nat /\ repeated' \in Nat
      /\ N \in Nat /\ Reorder \in Nat
  <2>1. /\ bad \in 0 .. MaxBad /\ repeated \in 0 .. MaxRepeat
        /\ bad' \in 0 .. MaxBad /\ repeated' \in 0 .. MaxRepeat
    BY DEF TypeOK
  <2> QED
    BY <2>1, Bounds
<1>5. Patient' => Patient
  <2>1. \A r, a, b, i, j \in Nat, n \in Int : i + j >= a + b /\ 2 * r + i + j < n => 2 * r + a + b < n
    OBVIOUS
  <2>2. N - 3 \in Int
    BY <1>4
  <2> QED
    BY <2>1, <2>2, <1>4 DEF Patient
<1> SUFFICES ASSUME Patient
             PROVE  /\ NoneSkipped'
                    /\ Used' <= Cardinality(Missed') + Cardinality(Behind(Expected)') + repeated' + bad'
  BY <1>3, <1>5 DEF SkipInv
<1>6. NoneSkipped'
  <2>1. NoneSkipped
    BY DEF SkipInv
  <2> QED
    BY <2>1 DEF NoneSkipped
<1>7. /\ Missed = {p \in Arrived : p < out[1]} /\ Missed' = {p \in Arrived' : p < out[1]}
      /\ Behind(Expected) = {p \in Arrived : p > Expected}
      /\ Behind(Expected)' = {p \in Arrived' : p > Expected}
  BY DEF Missed, Behind
<1> DEFINE a == Cardinality(Missed)
           b == Cardinality(Behind(Expected))
           c == Cardinality(Missed')
           d == Cardinality(Behind(Expected)')
<1>8. Used <= a + b + repeated + bad
  BY DEF SkipInv
<1>9. /\ IsFiniteSet(Missed) /\ IsFiniteSet(Behind(Expected)) /\ a \in Nat /\ b \in Nat
  <2>1. Missed \subseteq Packets /\ Behind(Expected) \subseteq Packets
    BY DEF Missed, Behind, Arrived
  <2> QED
    BY <2>1, FiniteParts
<1>10. CASE S = {} /\ Used' + repeated + bad <= Used + repeated' + bad'
  <2>1. a = c /\ b = d
    BY <1>7, <1>10
  <2> DEFINE u == Used
             v == Used'
             i == repeated
             j == bad
             k == repeated'
             l == bad'
  <2>2. /\ u \in Nat /\ v \in Nat /\ i \in Nat /\ j \in Nat /\ k \in Nat /\ l \in Nat
        /\ a \in Nat /\ b \in Nat /\ u <= a + b + i + j /\ v + i + j <= u + k + l
    BY <1>4, <1>8, <1>9, <1>10
  <2> HIDE DEF a, b, c, d, u, v, i, j, k, l
  <2>3. v <= c + d + k + l
    BY <2>1, <2>2
  <2> QED
    BY <2>3, <1>6 DEF c, d, v, k, l
<1>11. ASSUME NEW p, S = {p}, p \notin Arrived, p \in Packets, p < out[1] \/ p > Expected,
              Used' = Used + 1, repeated' = repeated, bad' = bad
       PROVE  Used' <= c + d + repeated' + bad'
  <2>0. p \in Nat
    BY <1>11, Bounds
  <2>1. /\ p < out[1] => Missed' = Missed \cup {p} /\ p \notin Missed
        /\ p > Expected => Behind(Expected)' = Behind(Expected) \cup {p} /\ p \notin Behind(Expected)
        /\ Missed \subseteq Missed' /\ Missed' \subseteq Missed \cup {p}
        /\ Behind(Expected) \subseteq Behind(Expected)' /\ Behind(Expected)' \subseteq Behind(Expected) \cup {p}
    BY <1>7, <1>11
  <2>2. /\ c \in Nat /\ d \in Nat /\ (p < out[1] => c = a + 1) /\ (p > Expected => d = b + 1)
    BY <2>1, <1>9, OneMore
  <2>3. IsFiniteSet(Missed') /\ IsFiniteSet(Behind(Expected)')
    BY <2>1, <1>9, FS_AddElement, FS_Subset
  <2>4. a <= c /\ b <= d
    BY <2>1, <2>3, FS_Subset
  <2> HIDE DEF a, b, c, d
  <2>5. c + d >= a + b + 1
    BY <2>2, <2>4, <1>9, <1>11
  <2>6. \A u, x, y, z, w, i, j \in Nat :
          u <= x + y + i + j /\ z + w >= x + y + 1 => u + 1 <= z + w + i + j
    OBVIOUS
  <2> QED
    BY <2>2, <2>5, <2>6, <1>4, <1>8, <1>9, <1>11
<1> QED
  BY <1>6, <1>10, <1>11

(* Tries are counted anew when a packet is handed out.                      *)
LEMMA CountedAnew ==
  ASSUME TypeOK', Used' = 0
  PROVE  Used' <= Cardinality(Missed') + Cardinality(Behind(Expected)') + repeated' + bad'
PROOF
<1> DEFINE c == Cardinality(Missed')
           d == Cardinality(Behind(Expected)')
           k == repeated'
           l == bad'
<1>1. Missed' \subseteq Packets /\ Behind(Expected)' \subseteq Packets
  BY DEF Missed, Behind, Arrived
<1>2. c \in Nat /\ d \in Nat
  BY <1>1, FiniteParts
<1>3. k \in Nat /\ l \in Nat
  <2>1. bad' \in 0 .. MaxBad /\ repeated' \in 0 .. MaxRepeat
    BY DEF TypeOK
  <2> QED
    BY <2>1, Bounds
<1> HIDE DEF c, d, k, l
<1>4. 0 <= c + d + k + l
  BY <1>2, <1>3
<1> QED
  BY <1>4 DEF c, d, k, l

(* A step that hands out packet q, and skips only lost ones.                *)
LEMMA SkipMove ==
  ASSUME TypeOK, TypeOK', SkipInv, ~is_first, is_first' = FALSE, Expected \in Int,
         NEW q \in Packets, out' = Append(out, q), q \in Arrived', Arrived \subseteq Arrived',
         Expected' = q + 1, q >= Expected, UNCHANGED <<lost, repeated, bad>>, Used' = 0,
         Patient => \A x \in Packets : Expected <= x /\ x < q => x \in lost
  PROVE  SkipInv'
PROOF
<1>1. /\ out' # <<>> /\ (\A j \in 1 .. Len(out') : out'[j] \in Arrived')
      /\ \A p \in Packets \ lost' : out'[1] <= p + Reorder
      /\ out'[1] = out[1] /\ Len(out') = Len(out) + 1 /\ out'[Len(out) + 1] = q
      /\ Len(out) \in Nat /\ \A j \in 1 .. Len(out) : out'[j] = out[j]
  BY OutGrows
<1>2. Patient' <=> Patient
  BY DEF Patient
<1>3. Used' <= Cardinality(Missed') + Cardinality(Behind(Expected)') + repeated' + bad'
  BY CountedAnew
<1>4. ASSUME Patient, NEW x \in Packets, out[1] < x, x < q + 1
      PROVE  x \in lost \/ \E j \in 1 .. Len(out') : out'[j] = x
  <2>1. x \in Int /\ q \in Int
    BY Bounds
  <2>2. CASE x < Expected
    <3>1. x \in lost \/ \E j \in 1 .. Len(out) : out[j] = x
      BY <2>2, <1>4 DEF SkipInv, NoneSkipped
    <3>2. \A j \in 1 .. Len(out) : j \in 1 .. Len(out')
      BY <1>1
    <3> QED
      BY <3>1, <3>2, <1>1
  <2>3. CASE Expected <= x /\ x < q
    BY <2>3, <1>4
  <2>4. CASE x = q
    <3>1. Len(out) + 1 \in 1 .. Len(out')
      BY <1>1
    <3> QED
      BY <3>1, <2>4, <1>1
  <2> QED
    BY <2>1, <2>2, <2>3, <2>4, <1>4
<1>5. Patient => NoneSkipped'
  BY <1>1, <1>4 DEF NoneSkipped
<1> QED
  BY <1>1, <1>2, <1>3, <1>5 DEF SkipInv

(* After the first packet nothing is skipped yet.                           *)
LEMMA SkipStart ==
  ASSUME TypeOK, TypeOK', NetInv, NetInv', NEW p \in Packets, Starts(p), is_first' = FALSE
  PROVE  SkipInv'
PROOF
<1>1. /\ wire' = wire \ {p} /\ Arrived' = {p} /\ Expected' = p + 1 /\ Used' = 0 /\ out' = <<p>>
      /\ lost' = lost
  BY DEF Starts
<1>2. p \in Nat /\ Reorder \in Nat /\ \A q \in Packets : q \in Nat
  BY Bounds
<1>3. Len(out') = 1 /\ out'[1] = p /\ out' # <<>>
  BY <1>1
<1>4. Used' <= Cardinality(Missed') + Cardinality(Behind(Expected)') + repeated' + bad'
  BY <1>1, CountedAnew
<1>5. NoneSkipped'
  <2>1. ~\E x \in Packets : p < x /\ x < p + 1
    BY <1>2
  <2> QED
    BY <2>1, <1>1, <1>3 DEF NoneSkipped
<1>6. ASSUME NEW q \in Packets \ lost PROVE p <= q + Reorder
  <2> DEFINE m == Min(wire' \cup {MaxSent})
  <2>1. wire' \in SUBSET Packets /\ p \in Packets \ wire'
    BY <1>1 DEF TypeOK
  <2>2. m \in Int /\ \A x \in wire' : m <= x
    BY <2>1, LeastOf
  <2>3. p <= m + Reorder
    BY <2>1 DEF NetInv, Foremost
  <2>4. q = p \/ q \in wire'
    <3>1. q \in wire' \cup Arrived'
      BY <1>1 DEF Arrived
    <3> QED
      BY <3>1, <1>1
  <2> HIDE DEF m
  <2> QED
    BY <2>2, <2>3, <2>4, <1>2
<1>7. \A j \in 1 .. Len(out') : out'[j] \in Arrived'
  BY <1>1, <1>3
<1> QED
  BY <1>1, <1>3, <1>4, <1>5, <1>6, <1>7 DEF SkipInv

(* A call that gives up on the expected packet while another waits gives up *)
(* on lost packets only, if it is patient.                                  *)
LEMMA GivesUp ==
  ASSUME TypeOK, SkipInv, NetInv, KeptInv, ~is_first, Patient, Expected \in Int,
         NEW q \in Packets, TakesOne(q), NEW x \in Packets, Expected <= x, x < q
  PROVE  x \in lost
PROOF
<1>1. q \in Int /\ x \in Int /\ Reorder \in Nat /\ \A r \in Packets : r \in Int
  BY Bounds
<1>2. Used = N - 3 /\ \A r \in Packets : Waits(r) => r >= q
  BY <1>1 DEF TakesOne
<1>3. out[1] \in Int
  BY FirstOut
<1>4. \A r \in Arrived : r >= Expected => r >= q
  BY <1>2 DEF KeptInv, Arrived
<1>5. x \notin Arrived
  BY <1>1, <1>4
<1>6. ASSUME x \in wire PROVE FALSE
  <2>1. Foremost <= x /\ Foremost \in Int
    BY <1>6, FrontPlace
  <2>2. ASSUME NEW r \in Behind(Expected) PROVE r \in x + 1 .. x + Reorder
    <3>1. r \in Arrived /\ r \in Packets \ wire /\ r > Expected /\ r \in Int
      BY <2>2, <1>1 DEF Behind, Arrived
    <3>2. r >= q
      BY <3>1, <1>4
    <3>3. r <= Foremost + Reorder
      BY <3>1 DEF NetInv
    <3> QED
      BY <3>1, <3>2, <3>3, <2>1, <1>1
  <2>3. /\ Behind(Expected) \subseteq x + 1 .. x + Reorder /\ x + 1 \in Int /\ x + Reorder \in Int
        /\ x + 1 <= (x + Reorder) + 1
    BY <2>2, <1>1
  <2> DEFINE c == Cardinality(Behind(Expected))
  <2>4. c \in Nat /\ c <= (x + Reorder) - (x + 1) + 1
    BY <2>3, Within
  <2> HIDE DEF c
  <2>5. c <= Reorder
    BY <2>4, <1>1
  <2> QED
    BY <2>4, <2>5, <1>2, <1>3, TriesLast DEF c
<1> QED
  BY <1>5, <1>6 DEF Arrived

(* Every step keeps what is skipped within what is lost.                    *)
LEMMA SkipStep ==
  ASSUME TypeOK, TypeOK', TameNetwork, CountsOn, RingInv, CountInv, CountInv', SkipInv, [Next]_vars
  PROVE  SkipInv'
PROOF
<1>1. ~Uneven /\ NetInv /\ NetInv' /\ is_first \in BOOLEAN /\ Used \in Nat
      /\ bad \in Nat /\ repeated \in Nat
  BY Conditions DEF CountInv, TypeOK
<1>2. Used' \in Nat
  <2>1. tries' \in 0 .. N - 3
    BY DEF TypeOK
  <2>2. tries' \in Nat
    BY <2>1, Bounds
  <2> QED
    BY <2>2 DEF Used
<1>3. CASE is_first
  <2>1. CASE is_first' = TRUE
    BY <2>1 DEF SkipInv
  <2>2. CASE is_first' = FALSE /\ \E p \in Packets : Starts(p)
    BY <2>2, <1>1, SkipStart
  <2> QED
    BY <2>1, <2>2, <1>3, FirstEffects
<1>4. CASE ~is_first
  <2>1. KeptInv /\ GivenInv /\ is_first' = FALSE /\ Effect
    BY <1>4, Effects DEF CountInv
  <2>2. Expected \in Int
    BY <2>1, <1>1, ExpectedBound
  <2>3. out[1] \in Int
    BY <1>4, FirstOut
  <2>4. CASE Idles \/ Wastes \/ \E p \in Packets : Loses(p)
    <3>1. /\ Expected' = Expected /\ out' = out /\ lost \subseteq lost' /\ Arrived' = Arrived \cup {}
          /\ (Used' = Used /\ repeated' = repeated /\ bad' = bad)
             \/ (Used' = Used + 1 /\ repeated' + bad' = repeated + bad + 1)
      BY <2>4 DEF Idles, Wastes, Loses, SameRing, SameNet
    <3>2. repeated' + bad' >= repeated + bad /\ Used' + repeated + bad <= Used + repeated' + bad'
      <4> DEFINE u == Used
                 v == Used'
                 i == repeated
                 j == bad
                 k == repeated'
                 l == bad'
      <4>1. /\ u \in Nat /\ i \in Nat /\ j \in Nat /\ k \in Int /\ l \in Int
            /\ (v = u /\ k = i /\ l = j) \/ (v = u + 1 /\ k + l = i + j + 1)
        <5>1. bad' \in 0 .. MaxBad /\ repeated' \in 0 .. MaxRepeat
          BY DEF TypeOK
        <5>2. bad' \in Int /\ repeated' \in Int
          BY <5>1, Bounds
        <5> QED
          BY <5>2, <3>1, <1>1
      <4> HIDE DEF u, v, i, j, k, l
      <4>2. k + l >= i + j /\ v + i + j <= u + k + l
        BY <4>1
      <4> QED
        BY <4>2 DEF u, v, i, j, k, l
    <3> QED
      BY <3>1, <3>2, <2>1, <2>2, <1>1, <1>2, <1>4, SkipWait
  <2>5. ASSUME NEW p \in Packets, Misses(p) \/ Keeps(p) PROVE SkipInv'
    <3>1. /\ Expected' = Expected /\ out' = out /\ lost \subseteq lost' /\ Arrived' = Arrived \cup {p}
          /\ Used' = Used + 1 /\ repeated' = repeated /\ bad' = bad /\ p \notin Arrived
          /\ p \in wire /\ (p < Expected \/ p > Expected)
      BY <2>5 DEF Misses, Keeps, SameRing, Gone
    <3>2. Patient => p < out[1] \/ p > Expected
      BY <3>1, <2>3, <1>1, <1>4, LateMissed
    <3>3. repeated' + bad' >= repeated + bad
      BY <3>1, <1>1
    <3>4. Patient => /\ \A x \in {p} : x \in Packets
                     /\ Used' = Used + 1 /\ repeated' = repeated /\ bad' = bad
                     /\ \E x : {p} = {x} /\ x \notin Arrived /\ (x < out[1] \/ x > Expected)
      BY <3>1, <3>2
    <3> QED
      BY <3>1, <3>3, <3>4, <2>1, <2>2, <1>1, <1>2, <1>4, SkipWait
  <2>6. ASSUME NEW p \in Packets, Delivers(p) PROVE SkipInv'
    <3>1. /\ p = Expected /\ out' = Append(out, p) /\ Arrived' = Arrived \cup {p}
          /\ Expected' = p + 1 /\ UNCHANGED <<lost, repeated, bad>> /\ Used' = 0
      BY <2>6 DEF Delivers, Gone
    <3>2. p \in Int /\ p >= Expected /\ \A x \in Packets : ~(Expected <= x /\ x < p)
      BY <3>1, <2>2, Bounds
    <3> QED
      BY <3>1, <3>2, <2>1, <2>2, <1>4, SkipMove
  <2>7. ASSUME NEW p \in Packets, TakesOne(p) PROVE SkipInv'
    <3>1. /\ out' = Append(out, p) /\ Arrived' = Arrived /\ p >= Expected /\ Waits(p)
          /\ Expected' = p + 1 /\ UNCHANGED <<lost, repeated, bad>> /\ Used' = 0
      BY <2>7 DEF TakesOne, SameNet
    <3>2. p \in Arrived'
      BY <3>1, <2>1 DEF KeptInv
    <3>3. Patient => \A x \in Packets : Expected <= x /\ x < p => x \in lost
      BY <2>1, <2>2, <2>7, <1>1, <1>4, GivesUp
    <3> QED
      BY <3>1, <3>2, <3>3, <2>1, <2>2, <1>4, SkipMove
  <2>8. CASE TakesNone
    <3>1. /\ NoneWaits /\ Used = N - 3 /\ out' = out
          /\ lost' = lost /\ Arrived' = Arrived /\ repeated' = repeated /\ bad' = bad
      BY <2>8 DEF TakesNone, SameNet
    <3>2. ~Patient
      <4> SUFFICES ASSUME Patient PROVE FALSE
        OBVIOUS
      <4>1. Behind(Expected) = {}
        <5>1. ASSUME NEW r \in Behind(Expected) PROVE FALSE
          <6>1. r \in Arrived /\ r \in Packets /\ r > Expected /\ r \in Int
            BY <5>1, Bounds DEF Behind, Arrived
          <6>2. Waits(r)
            BY <6>1, <2>1, <2>2 DEF KeptInv
          <6>3. r # Empty
            BY <6>1, Bounds DEF Empty
          <6> QED
            BY <6>2, <6>3, <3>1 DEF Waits, NoneWaits
        <5> QED
          BY <5>1
      <4>2. Cardinality(Behind(Expected)) = 0
        BY <4>1, FS_EmptySet
      <4> QED
        BY <4>2, <3>1, <2>3, <1>4, TriesLast, Bounds
    <3>3. ~Patient'
      BY <3>1, <3>2 DEF Patient
    <3>4. /\ out' # <<>> /\ \A j \in 1 .. Len(out') : out'[j] \in Arrived'
          /\ \A p \in Packets \ lost' : out'[1] <= p + Reorder
      BY <3>1, <1>4, OutStays
    <3> QED
      BY <3>3, <3>4 DEF SkipInv
  <2> QED
    BY <2>1, <2>4, <2>5, <2>6, <2>7, <2>8 DEF Effect
<1> QED
  BY <1>3, <1>4

(* What is not skipped before the expected packet is not skipped between    *)
(* two that are handed out.                                                 *)
LEMMA SkippedLost ==
  ASSUME TypeOK, CountsOn, RingInv, InOrder, SkipInv
  PROVE  OnlyLostSkipped
PROOF
<1> SUFFICES ASSUME Patient, NEW i \in 1 .. Len(out) - 1, NEW x \in (out[i] + 1) .. (out[i + 1] - 1)
             PROVE  x \in lost
  BY DEF OnlyLostSkipped, Patient
<1>1. out \in Seq(Packets) /\ Len(out) \in Nat
  BY DEF TypeOK
<1>2. i \in 1 .. Len(out) /\ i + 1 \in 1 .. Len(out) /\ 1 \in 1 .. Len(out) /\ i \in Nat
  BY <1>1
<1>3. ~is_first /\ ~Uneven
  BY <1>1, <1>2 DEF RingInv, CountsOn
<1>4. /\ out[i] \in Packets /\ out[i + 1] \in Packets /\ out[1] \in Packets
      /\ Packets = 0 .. MaxSent - 1 /\ MaxSent \in Nat
  BY <1>1, <1>2, Bounds
<1>5. x \in Packets /\ x \in Int /\ out[i] < x /\ x < out[i + 1]
  BY <1>4
<1>6. out[1] < x
  <2>1. CASE i = 1
    BY <2>1, <1>5
  <2>2. CASE i # 1
    <3>1. out[1] < out[i]
      BY <2>2, <1>2 DEF InOrder
    <3> QED
      BY <3>1, <1>4, <1>5
  <2> QED
    BY <2>1, <2>2
<1>7. x < Expected
  <2>1. number[out[i + 1]] < seq[first]
    BY <1>2, <1>3 DEF RingInv, Passed
  <2>2. /\ number[out[i + 1]] = number[0] + out[i + 1] /\ number[0] \in Nat
        /\ Expected \in Int /\ seq[first] = number[0] + Expected
    BY <1>3, <1>4, ExpectedFacts
  <2> QED
    BY <2>1, <2>2, <1>4, <1>5
<1>8. ASSUME NEW j \in 1 .. Len(out), out[j] = x PROVE FALSE
  <2>1. j < i \/ j = i \/ j = i + 1 \/ i + 1 < j
    BY <1>1, <1>2
  <2>2. j < i => x < out[i]
    BY <1>2, <1>8 DEF InOrder
  <2>3. i + 1 < j => out[i + 1] < x
    BY <1>2, <1>8 DEF InOrder
  <2> QED
    BY <2>1, <2>2, <2>3, <1>4, <1>5, <1>8
<1> QED
  BY <1>3, <1>5, <1>6, <1>7, <1>8 DEF SkipInv, NoneSkipped
-----------------------------------------------------------------------------
(* The receiver on a tame network                                           *)

(* What holds there of evenly numbered packets, together.                   *)
NetworkInv == TameNetwork /\ CountsOn => RingInv /\ InOrder /\ CountInv /\ SkipInv

(* It holds at the start, and every step keeps it.                          *)
LEMMA NetworkHolds == Spec => []NetworkInv
PROOF
<1>1. Init => NetworkInv
  <2>1. Init => RingInv /\ InOrder /\ CountInv
    BY RingInit, CountInit
  <2>2. Init => SkipInv
    BY DEF Init, SkipInv
  <2> QED
    BY <2>1, <2>2 DEF NetworkInv
<1>2. TypeOK /\ TypeOK' /\ NetworkInv /\ [Next]_vars => NetworkInv'
  <2> SUFFICES ASSUME TypeOK, TypeOK', NetworkInv, [Next]_vars, TameNetwork, CountsOn'
               PROVE  RingInv' /\ InOrder' /\ CountInv' /\ SkipInv'
    BY DEF NetworkInv, TameNetwork
  <2>1. CountsOn
    BY CountsStay
  <2>2. RingInv /\ InOrder /\ CountInv /\ SkipInv
    BY <2>1 DEF NetworkInv
  <2>3. NumbersRunOn /\ InReach
    BY <2>1, <2>2, RunsOn, ReachHolds
  <2>4. RingInv' /\ InOrder'
    BY <2>2, <2>3, OrderStep
  <2>5. CountInv'
    BY <2>1, <2>2, CountStep
  <2>6. SkipInv'
    BY <2>1, <2>2, <2>5, SkipStep
  <2> QED
    BY <2>4, <2>5, <2>6
<1> QED
  BY <1>1, <1>2, RtpTypeCorrect, PTL DEF Spec

(* The network stays tame, and the sender counts on.                        *)
LEMMA CountsHold == TameNetwork /\ CountsOn /\ Spec => [](TameNetwork /\ CountsOn)
PROOF
<1>1. TameNetwork /\ CountsOn /\ [Next]_vars => TameNetwork' /\ CountsOn'
  <2>1. TameNetwork => TameNetwork'
    BY DEF TameNetwork
  <2> QED
    BY <2>1, CountsStay
<1> QED
  BY <1>1, PTL DEF Spec

(* On a tame network every packet that was received has been handed out,    *)
(* waits in its slot or came too late for the receive loop; no more of them *)
(* wait behind a lost packet than the loop has tries; and the expected      *)
(* packet runs ahead of the sender only by tries in vain.                   *)
THEOREM CountsCorrect == Spec => []WaitsCounted
PROOF
<1>1. NetworkInv => WaitsCounted
  BY DEF NetworkInv, WaitsCounted
<1> QED
  BY <1>1, NetworkHolds, PTL

(* A tame network delivers no packet exactly MAXRTPPACKETSIN ahead of the   *)
(* expected one and none so far behind it that rtp_cache starts over: that  *)
(* follows from its bounds alone.                                           *)
THEOREM ReachCorrect == TameNetwork /\ CountsOn /\ Spec => []InReach
PROOF
<1>1. TypeOK /\ TameNetwork /\ CountsOn /\ NetworkInv => InReach
  BY ReachHolds DEF NetworkInv
<1> QED
  BY <1>1, CountsHold, NetworkHolds, RtpTypeCorrect, PTL

(* So the player gets the packets that come over a tame network in the      *)
(* order they were sent, none of them twice.                                *)
THEOREM NetworkOrder == TameNetwork /\ CountsOn /\ Spec => []InOrder
PROOF
<1>1. TameNetwork /\ CountsOn /\ NetworkInv => InOrder
  BY DEF NetworkInv
<1> QED
  BY <1>1, CountsHold, NetworkHolds, PTL

(* And what waits in the ring is in its right place.                        *)
THEOREM NetworkRing == TameNetwork /\ CountsOn /\ Spec => []RingInOrder
PROOF
<1>1. TypeOK /\ TameNetwork /\ CountsOn /\ NetworkInv => RingInOrder
  BY RunsOn, RingPlaces DEF NetworkInv
<1> QED
  BY <1>1, CountsHold, NetworkHolds, RtpTypeCorrect, PTL

(* A packet that the receive loop passes over was lost by the network, if   *)
(* the loop has more tries than the network can waste.                      *)
THEOREM SkipCorrect == TameNetwork /\ CountsOn /\ Spec => []OnlyLostSkipped
PROOF
<1>1. TypeOK /\ TameNetwork /\ CountsOn /\ NetworkInv => OnlyLostSkipped
  BY SkippedLost DEF NetworkInv
<1> QED
  BY <1>1, CountsHold, NetworkHolds, RtpTypeCorrect, PTL
=============================================================================
