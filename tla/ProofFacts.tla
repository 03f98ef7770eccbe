----------------------------- MODULE ProofFacts -----------------------------
(***************************************************************************)
(* Facts about naturals and sequences that the proofs of several components *)
(* rest on.  Induction is stated about sets and functions, not operators:   *)
(* the provers cannot instantiate an operator.                              *)
(***************************************************************************)
EXTENDS Integers, Sequences, SequencesExt, WellFoundedInduction, TLAPS

(* A set of naturals that is not empty has a least element.                 *)
LEMMA LeastElement ==
  ASSUME NEW S \in SUBSET Nat, S # {}
  PROVE  \E x \in S : \A y \in S : x <= y
PROOF
<1>1. PICK x \in S : \A y \in S : ~ (<<y, x>> \in OpToRel(<, Nat))
  BY NatLessThanWellFounded, WFMin
<1>2. \A y \in S : ~ (y < x)
  BY <1>1 DEF OpToRel
<1> QED
  BY <1>2

(* Induction: a set that holds 0 and every successor holds every natural.   *)
LEMMA SetInduction ==
  ASSUME NEW S \in SUBSET Nat, 0 \in S, \A n \in S : n + 1 \in S
  PROVE  S = Nat
PROOF
<1> SUFFICES ASSUME Nat \ S # {} PROVE FALSE
  OBVIOUS
<1>1. PICK x \in Nat \ S : \A y \in Nat \ S : x <= y
  BY LeastElement
<1>2. x - 1 \in Nat /\ x - 1 \notin S
  BY <1>1
<1> QED
  BY <1>1, <1>2

(* g is what the steps d make of v0, along 0 .. L.                          *)
Steps(d, V, L) == d \in [1 .. L -> [V -> V]]

IsRecursive(g, V, v0, L, d) ==
  g \in [0 .. L -> V] /\ g[0] = v0 /\ \A n \in 1 .. L : g[n] = d[n][g[n - 1]]

(* Definition by recursion along 0 .. L.                                    *)
LEMMA Recursion ==
  ASSUME NEW V, NEW v0 \in V, NEW L \in Nat, NEW d, Steps(d, V, L)
  PROVE  \E g : IsRecursive(g, V, v0, L, d)
PROOF
<1> USE DEF Steps, IsRecursive
<1> DEFINE Upto(n) == \E g \in [0 .. n -> V] :
                        g[0] = v0 /\ \A i \in 1 .. n : g[i] = d[i][g[i - 1]]
           S == {n \in Nat : n <= L => Upto(n)}
<1>1. 0 \in S
  <2> DEFINE g == [i \in 0 .. 0 |-> v0]
  <2>1. g \in [0 .. 0 -> V] /\ g[0] = v0
    OBVIOUS
  <2>2. 1 .. 0 = {}
    OBVIOUS
  <2> HIDE DEF g
  <2>3. Upto(0)
    BY <2>1, <2>2
  <2> QED
    BY <2>3
<1>2. ASSUME NEW n \in S PROVE n + 1 \in S
  <2> SUFFICES ASSUME n + 1 <= L PROVE Upto(n + 1)
    OBVIOUS
  <2>1. PICK g \in [0 .. n -> V] : g[0] = v0 /\ \A i \in 1 .. n : g[i] = d[i][g[i - 1]]
    OBVIOUS
  <2> DEFINE w == d[n + 1][g[n]]
             h == [i \in 0 .. n + 1 |-> IF i = n + 1 THEN w ELSE g[i]]
  <2>2. w \in V
    OBVIOUS
  <2> HIDE DEF w
  <2>3. h \in [0 .. n + 1 -> V]
    BY <2>2
  <2>4. h[0] = v0 /\ h[n + 1] = w /\ \A i \in 0 .. n : h[i] = g[i]
    BY <2>1
  <2> HIDE DEF h
  <2>5. ASSUME NEW i \in 1 .. n + 1 PROVE h[i] = d[i][h[i - 1]]
    <3>1. CASE i = n + 1
      BY <3>1, <2>4 DEF w
    <3>2. CASE i # n + 1
      BY <3>2, <2>1, <2>4
    <3> QED
      BY <3>1, <3>2
  <2> QED
    BY <2>3, <2>4, <2>5
<1>3. S = Nat
  <2> HIDE DEF S
  <2>1. S \in SUBSET Nat
    BY DEF S
  <2> QED
    BY <1>1, <1>2, <2>1, SetInduction
<1>4. L \in S
  BY <1>3
<1> QED
  BY <1>4

(* Taking one element out of a sequence.                                    *)
LEMMA RemoveAtFacts ==
  ASSUME NEW S, NEW s \in Seq(S), NEW i \in 1 .. Len(s)
  PROVE  /\ RemoveAt(s, i) \in Seq(S) /\ Len(RemoveAt(s, i)) = Len(s) - 1
         /\ \A j \in 1 .. Len(s) - 1 :
              RemoveAt(s, i)[j] = IF j < i THEN s[j] ELSE s[j + 1]
PROOF
<1> DEFINE a == SubSeq(s, 1, i - 1)
           b == SubSeq(s, i + 1, Len(s))
<1>1. /\ a \in Seq(S) /\ Len(a) = i - 1
      /\ \A j \in 1 .. i - 1 : a[j] = s[j]
  OBVIOUS
<1>2. /\ b \in Seq(S) /\ Len(b) = Len(s) - i
      /\ \A j \in 1 .. Len(s) - i : b[j] = s[i + j]
  OBVIOUS
<1>3. RemoveAt(s, i) = a \o b
  BY DEF RemoveAt
<1> HIDE DEF a, b
<1>4. RemoveAt(s, i) \in Seq(S) /\ Len(RemoveAt(s, i)) = Len(s) - 1
  BY <1>1, <1>2, <1>3
<1>5. ASSUME NEW j \in 1 .. Len(s) - 1
      PROVE  RemoveAt(s, i)[j] = IF j < i THEN s[j] ELSE s[j + 1]
  <2>1. CASE j < i
    <3>1. RemoveAt(s, i)[j] = a[j]
      BY <1>1, <1>2, <1>3, <2>1
    <3> QED
      BY <3>1, <1>1, <2>1
  <2>2. CASE j >= i
    <3>1. RemoveAt(s, i)[j] = b[j - (i - 1)]
      BY <1>1, <1>2, <1>3, <2>2
    <3>2. b[j - (i - 1)] = s[j + 1]
      BY <1>2, <2>2
    <3> QED
      BY <3>1, <3>2, <2>2
  <2> QED
    BY <2>1, <2>2
<1> QED
  BY <1>4, <1>5
=============================================================================
