---------------------------- MODULE InputProofs -----------------------------
(***************************************************************************)
(* Proofs about Input for every set of keys, bindings and commands and      *)
(* every size of fifo and queue: the types, autorepeat, and that no key is  *)
(* stuck.                                                                   *)
(***************************************************************************)
EXTENDS Input, ProofFacts

Events == [code : Codes \cup {None}, down : BOOLEAN, all : BOOLEAN]

(* A key event that presses key k, and one after which k is not down.       *)
IsPress(e, k) == e.down /\ e.code = k
Clears(e, k)  == ~e.down /\ (e.all \/ e.code = k)

(* The fifo q presses k; it leaves k not down.                              *)
Presses(q, k) == \E i \in 1 .. Len(q) : IsPress(q[i], k)
Cleared(q, k) ==
  \E i \in 1 .. Len(q) :
    /\ Clears(q[i], k)
    /\ \A j \in 1 .. Len(q) : i < j => ~IsPress(q[j], k)

(* The rule for the last slot: what fills the fifo resets the key state,    *)
(* and previous_down_key tells whether the newest event did.                *)
FifoInv(q, prev) ==
  /\ Len(q) = FifoSize => q[Len(q)].all
  /\ q # <<>> /\ prev.all => q[Len(q)].all
  /\ \A i \in 1 .. Len(q) : q[i].all => ~q[i].down

(* A key that the user does not hold, but that is down or will be pressed   *)
(* by an event in the fifo, is cleared by an event behind.                  *)
KeysInv ==
  \A k \in Codes :
    /\ k \notin held
    /\ k \in Range(key_down) \ grabbed \/ Presses(fifo, k)
    => Cleared(fifo, k)

Distinct(s) == \A i, j \in 1 .. Len(s) : s[i] = s[j] => i = j

(* The inductive invariant.                                                 *)
StuckInv == FifoInv(fifo, previous_down_key) /\ Distinct(key_down) /\ KeysInv
-----------------------------------------------------------------------------
(* Sequences                                                                *)

(* The place of the first k in s.                                           *)
Place(s, k) == {i \in 1 .. Len(s) : s[i] = k}

(* memmove over key_down[j]: the key goes, the others stay and stay         *)
(* different.                                                               *)
LEMMA RemoveFirstFacts ==
  ASSUME NEW S, NEW s \in Seq(S), Distinct(s), NEW k, k \in Range(s)
  PROVE  /\ RemoveFirst(s, k) \in Seq(S) /\ Distinct(RemoveFirst(s, k))
         /\ Range(RemoveFirst(s, k)) \subseteq Range(s) \ {k}
PROOF
<1>1. PICK i \in 1 .. Len(s) : s[i] = k
  BY DEF Range
<1>2. Place(s, k) = {i}
  BY <1>1 DEF Place, Distinct
<1>3. Min({i}) = i
  BY DEF Min
<1>4. RemoveFirst(s, k) = RemoveAt(s, i)
  <2>1. RemoveFirst(s, k) = RemoveAt(s, IF Place(s, k) = {} THEN 0 ELSE Min(Place(s, k)))
    BY <1>1 DEF RemoveFirst, SelectInSeq, Place
  <2> QED
    BY <2>1, <1>2, <1>3
<1> DEFINE r == RemoveAt(s, i)
<1>5. /\ r \in Seq(S) /\ Len(r) = Len(s) - 1 /\ Len(s) \in Nat
      /\ \A j \in 1 .. Len(s) - 1 : r[j] = IF j < i THEN s[j] ELSE s[j + 1]
  BY RemoveAtFacts
<1> HIDE DEF r
<1>6. Distinct(r)
  BY <1>5, <1>1 DEF Distinct
<1>7. \A j \in 1 .. Len(r) : r[j] \in Range(s) /\ r[j] # k
  <2> SUFFICES ASSUME NEW j \in 1 .. Len(r) PROVE r[j] \in Range(s) /\ r[j] # k
    OBVIOUS
  <2>1. PICK l \in 1 .. Len(s) : r[j] = s[l] /\ l # i
    BY <1>5, <1>1
  <2> QED
    BY <2>1, <1>1 DEF Range, Distinct
<1>8. Range(r) \subseteq Range(s) \ {k}
  BY <1>5, <1>7 DEF Range
<1> QED
  BY <1>4, <1>5, <1>6, <1>8 DEF r

(* A key added to those that are down.                                      *)
LEMMA AppendKey ==
  ASSUME NEW S, NEW s \in Seq(S), NEW k \in S
  PROVE  /\ Append(s, k) \in Seq(S) /\ Range(Append(s, k)) = Range(s) \cup {k}
         /\ Distinct(s) /\ k \notin Range(s) => Distinct(Append(s, k))
PROOF
<1> DEFINE r == Append(s, k)
<1>1. /\ r \in Seq(S) /\ Len(r) = Len(s) + 1 /\ Len(s) \in Nat
      /\ r[Len(s) + 1] = k /\ \A i \in 1 .. Len(s) : r[i] = s[i]
  OBVIOUS
<1> HIDE DEF r
<1>2. Range(r) = Range(s) \cup {k}
  <2>1. DOMAIN r = 1 .. Len(s) + 1 /\ DOMAIN s = 1 .. Len(s)
    BY <1>1
  <2>2. Range(r) \subseteq Range(s) \cup {k}
    BY <1>1, <2>1 DEF Range
  <2>3. Range(s) \cup {k} \subseteq Range(r)
    <3>1. k \in Range(r)
      BY <1>1, <2>1 DEF Range
    <3>2. \A i \in 1 .. Len(s) : s[i] \in Range(r)
      BY <1>1, <2>1 DEF Range
    <3> QED
      BY <3>1, <3>2, <2>1 DEF Range
  <2> QED
    BY <2>2, <2>3
<1>3. ASSUME Distinct(s), k \notin Range(s) PROVE Distinct(r)
  <2>1. \A i \in 1 .. Len(s) : s[i] # k
    BY <1>3 DEF Range
  <2> QED
    BY <1>1, <1>3, <2>1 DEF Distinct
<1> QED
  BY <1>1, <1>2, <1>3 DEF r
-----------------------------------------------------------------------------
(* The fifo                                                                 *)

PrevType == [code : Codes \cup {None}, down : {FALSE}, all : BOOLEAN]

(* The sizes of the fifo and of the arrays.                                 *)
LEMMA Sizes ==
  /\ FifoSize \in Nat /\ FifoSize >= 2 /\ FifoSize \div 2 \in Nat /\ FifoSize \div 2 >= 1
  /\ MaxKeyDown \in Nat /\ QueueSize \in Nat /\ QueueSize >= 1 /\ MaxPosts \in Nat
PROOF BY InputAssumption DEF InputAssumption

(* An event put behind the others.                                          *)
LEMMA AppendEvent ==
  ASSUME NEW q \in Seq(Events), NEW s \in Events
  PROVE  /\ Append(q, s) \in Seq(Events) /\ Len(Append(q, s)) = Len(q) + 1
         /\ Append(q, s)[Len(q) + 1] = s
         /\ \A i \in 1 .. Len(q) : Append(q, s)[i] = q[i]
         /\ \A k : ~IsPress(s, k) /\ Presses(Append(q, s), k) => Presses(q, k)
         /\ \A k : Clears(s, k) => Cleared(Append(q, s), k)
         /\ \A k : ~IsPress(s, k) /\ Cleared(q, k) => Cleared(Append(q, s), k)
PROOF
<1> DEFINE r == Append(q, s)
<1>1. /\ r \in Seq(Events) /\ Len(r) = Len(q) + 1 /\ Len(q) \in Nat
      /\ r[Len(q) + 1] = s /\ \A i \in 1 .. Len(q) : r[i] = q[i]
  OBVIOUS
<1> HIDE DEF r
<1>2. \A k : ~IsPress(s, k) /\ Presses(r, k) => Presses(q, k)
  BY <1>1 DEF Presses
<1>3. \A k : Clears(s, k) => Cleared(r, k)
  BY <1>1 DEF Cleared
<1>4. ASSUME NEW k, ~IsPress(s, k), Cleared(q, k) PROVE Cleared(r, k)
  <2>1. PICK i \in 1 .. Len(q) :
          Clears(q[i], k) /\ \A j \in 1 .. Len(q) : i < j => ~IsPress(q[j], k)
    BY <1>4 DEF Cleared
  <2>2. i \in 1 .. Len(r) /\ Clears(r[i], k)
    BY <2>1, <1>1
  <2>3. \A j \in 1 .. Len(r) : i < j => ~IsPress(r[j], k)
    BY <2>1, <1>1, <1>4
  <2> QED
    BY <2>2, <2>3 DEF Cleared
<1> QED
  BY <1>1, <1>2, <1>3, <1>4 DEF r

(* A fifo whose newest event resets the key state leaves no key down.       *)
LEMMA ResetClears ==
  ASSUME NEW q \in Seq(Events), q # <<>>, q[Len(q)].all,
         \A i \in 1 .. Len(q) : q[i].all => ~q[i].down, NEW k
  PROVE  Cleared(q, k)
PROOF
<1>1. Len(q) \in 1 .. Len(q) /\ Len(q) \in Nat
  OBVIOUS
<1>2. Clears(q[Len(q)], k)
  BY <1>1 DEF Clears
<1> QED
  BY <1>1, <1>2 DEF Cleared

(* mplayer_put_key_internal: an event that is dropped finds a fifo whose    *)
(* newest event resets the key state, so that a release clears its key in   *)
(* any case, and nothing but a press makes a key go down.                   *)
LEMMA PutInternal ==
  ASSUME NEW f \in [data : Seq(Events), prev : PrevType],
         Len(f.data) <= FifoSize, FifoInv(f.data, f.prev),
         NEW e \in Events, ~e.all, e.code # None
  PROVE  LET g == mplayer_put_key_internal(f, e) IN
         /\ g \in [data : Seq(Events), prev : PrevType]
         /\ Len(g.data) <= FifoSize /\ FifoInv(g.data, g.prev)
         /\ \A k : ~IsPress(e, k) /\ Presses(g.data, k) => Presses(f.data, k)
         /\ \A k : ~IsPress(e, k) /\ Cleared(f.data, k) => Cleared(g.data, k)
         /\ ~e.down => Cleared(g.data, e.code)
PROOF
<1> DEFINE q == f.data
           free == FifoSize - Len(q)
           s == IF free = 1 THEN LastSlot(f, e) ELSE e
           drop == free = 0 \/ (e.down /\ free <= FifoSize \div 2) \/ (free = 1 /\ f.prev.all)
           g == mplayer_put_key_internal(f, e)
<1> USE Sizes
<1>1. q \in Seq(Events) /\ Len(q) \in Nat /\ f.prev \in PrevType /\ free \in Nat
  OBVIOUS
<1>2. g = IF drop THEN f
          ELSE [data |-> Append(q, s),
                prev |-> IF s.down THEN Event(s.code, FALSE, FALSE) ELSE Event(None, FALSE, s.all)]
  BY DEF mplayer_put_key_internal
<1>3. s \in Events /\ (s.all => ~s.down) /\ (free = 1 => s.all) /\ (free # 1 => s = e)
  BY DEF LastSlot, Event, Events
<1>4. CASE drop
  <2>1. g = f
    BY <1>2, <1>4
  <2>2. ASSUME ~e.down PROVE Cleared(q, e.code)
    <3>1. Len(q) = FifoSize \/ (Len(q) = FifoSize - 1 /\ f.prev.all)
      BY <1>1, <1>4, <2>2
    <3>2. q # <<>> /\ q[Len(q)].all
      BY <3>1, <1>1 DEF FifoInv
    <3> QED
      BY <3>2, <1>1, ResetClears DEF FifoInv
  <2> QED
    BY <2>1, <2>2
<1>5. CASE ~drop
  <2>1. /\ g.data = Append(q, s)
        /\ g.prev = IF s.down THEN Event(s.code, FALSE, FALSE) ELSE Event(None, FALSE, s.all)
    BY <1>2, <1>5
  <2>2. g \in [data : Seq(Events), prev : PrevType]
    <3>1. Append(q, s) \in Seq(Events)
      BY <1>1, <1>3
    <3>2. g.prev \in PrevType
      BY <2>1, <1>3 DEF Event, PrevType, Events
    <3>3. g = [data |-> g.data, prev |-> g.prev]
      BY <1>2, <1>5
    <3> QED
      BY <3>1, <3>2, <3>3, <2>1
  <2> HIDE DEF s, g
  <2>3. /\ Len(g.data) = Len(q) + 1 /\ g.data[Len(q) + 1] = s
        /\ \A i \in 1 .. Len(q) : g.data[i] = q[i]
        /\ \A k : ~IsPress(s, k) /\ Presses(g.data, k) => Presses(q, k)
        /\ \A k : Clears(s, k) => Cleared(g.data, k)
        /\ \A k : ~IsPress(s, k) /\ Cleared(q, k) => Cleared(g.data, k)
    BY <2>1, <1>1, <1>3, AppendEvent
  <2>4. Len(g.data) <= FifoSize
    BY <2>3, <1>1, <1>5
  <2>5. FifoInv(g.data, g.prev)
    <3>1. Len(g.data) = FifoSize => g.data[Len(g.data)].all
      BY <2>3, <1>1, <1>3
    <3>2. g.prev.all => g.data[Len(g.data)].all
      BY <2>1, <2>3 DEF Event
    <3>3. \A i \in 1 .. Len(g.data) : g.data[i].all => ~g.data[i].down
      BY <2>3, <1>1, <1>3 DEF FifoInv
    <3> QED
      BY <3>1, <3>2, <3>3 DEF FifoInv
  <2>6. \A k : ~IsPress(e, k) => ~IsPress(s, k)
    BY <1>3 DEF IsPress
  <2>7. ~e.down => Clears(s, e.code)
    BY <1>3 DEF Clears
  <2> QED
    BY <2>2, <2>3, <2>4, <2>5, <2>6, <2>7 DEF g
<1> QED
  BY <1>4, <1>5

(* mplayer_put_key, with the double click that may follow.                  *)
LEMMA PutKey ==
  ASSUME NEW k \in Keys, NEW down \in BOOLEAN,
         fifo \in Seq(Events), Len(fifo) <= FifoSize, previous_down_key \in PrevType,
         FifoInv(fifo, previous_down_key), mplayer_put_key(k, down)
  PROVE  /\ fifo' \in Seq(Events) /\ Len(fifo') <= FifoSize /\ previous_down_key' \in PrevType
         /\ FifoInv(fifo', previous_down_key')
         /\ \A x : (x # k \/ ~down) /\ Presses(fifo', x) => Presses(fifo, x)
         /\ \A x : (x # k \/ ~down) /\ Cleared(fifo, x) => Cleared(fifo', x)
         /\ ~down => Cleared(fifo', k)
PROOF
<1> DEFINE f == [data |-> fifo, prev |-> previous_down_key]
           e == Event(k, down, FALSE)
           g == mplayer_put_key_internal(f, e)
           d == Event(Dbl[k], FALSE, FALSE)
           h == mplayer_put_key_internal(g, d)
<1>1. /\ k \in Codes /\ k # None
      /\ k \in DOMAIN Dbl => Dbl[k] \in Codes /\ Dbl[k] # None
  BY InputAssumption DEF InputAssumption, Codes
<1>2. e \in Events /\ ~e.all /\ e.code = k /\ (e.down <=> down)
  BY <1>1 DEF Event, Events
<1>3. k \in DOMAIN Dbl => d \in Events /\ ~d.all /\ d.code # None /\ ~d.down
  BY <1>1 DEF Event, Events
<1>4. f \in [data : Seq(Events), prev : PrevType] /\ f.data = fifo /\ f.prev = previous_down_key
  OBVIOUS
<1>5. \/ fifo' = g.data /\ previous_down_key' = g.prev
      \/ k \in DOMAIN Dbl /\ fifo' = h.data /\ previous_down_key' = h.prev
  BY DEF mplayer_put_key, put_double
<1> HIDE DEF e, d, f
<1>6. /\ g \in [data : Seq(Events), prev : PrevType]
      /\ Len(g.data) <= FifoSize /\ FifoInv(g.data, g.prev)
      /\ \A x : ~IsPress(e, x) /\ Presses(g.data, x) => Presses(fifo, x)
      /\ \A x : ~IsPress(e, x) /\ Cleared(fifo, x) => Cleared(g.data, x)
      /\ ~e.down => Cleared(g.data, k)
  BY <1>1, <1>2, <1>4, PutInternal
<1> HIDE DEF g
<1>7. k \in DOMAIN Dbl =>
      /\ h \in [data : Seq(Events), prev : PrevType]
      /\ Len(h.data) <= FifoSize /\ FifoInv(h.data, h.prev)
      /\ \A x : ~IsPress(d, x) /\ Presses(h.data, x) => Presses(g.data, x)
      /\ \A x : ~IsPress(d, x) /\ Cleared(g.data, x) => Cleared(h.data, x)
  BY <1>3, <1>6, PutInternal
<1> HIDE DEF h
<1>8. /\ \A x : x # k \/ ~down => ~IsPress(e, x)
      /\ k \in DOMAIN Dbl => \A x : ~IsPress(d, x)
  BY <1>2, <1>3 DEF IsPress
<1>9. CASE fifo' = g.data /\ previous_down_key' = g.prev
  BY <1>9, <1>6, <1>8, <1>2
<1>10. CASE k \in DOMAIN Dbl /\ fifo' = h.data /\ previous_down_key' = h.prev
  BY <1>10, <1>6, <1>7, <1>8, <1>2
<1> QED
  BY <1>5, <1>9, <1>10

(* mplayer_get_key takes the oldest event.                                  *)
LEMMA TailFifo ==
  ASSUME NEW q \in Seq(Events), q # <<>>, NEW prev, FifoInv(q, prev)
  PROVE  /\ Tail(q) \in Seq(Events) /\ Len(Tail(q)) = Len(q) - 1 /\ Head(q) \in Events
         /\ Len(q) <= FifoSize => FifoInv(Tail(q), prev)
         /\ Head(q).all => ~Head(q).down
         /\ \A k : Presses(Tail(q), k) => Presses(q, k)
         /\ \A k : IsPress(Head(q), k) => Presses(q, k)
         /\ \A k : Cleared(q, k) /\ ~Clears(Head(q), k) => Cleared(Tail(q), k)
         /\ \A k : Cleared(q, k) /\ Presses(Tail(q), k) => Cleared(Tail(q), k)
PROOF
<1> DEFINE t == Tail(q)
<1>1. /\ t \in Seq(Events) /\ Len(t) = Len(q) - 1 /\ Len(q) \in Nat \ {0}
      /\ \A i \in 1 .. Len(t) : t[i] = q[i + 1] /\ i + 1 \in 1 .. Len(q)
      /\ Head(q) = q[1] /\ Head(q) \in Events
  OBVIOUS
<1> HIDE DEF t
<1>2. \A i \in 2 .. Len(q) : i - 1 \in 1 .. Len(t) /\ t[i - 1] = q[i]
  BY <1>1
<1>3. Len(q) <= FifoSize => FifoInv(t, prev)
  <2>1. ASSUME Len(q) <= FifoSize PROVE Len(t) # FifoSize
    BY <1>1, <2>1, Sizes
  <2>2. t # <<>> => t[Len(t)] = q[Len(q)]
    BY <1>1
  <2>3. \A i \in 1 .. Len(t) : t[i].all => ~t[i].down
    BY <1>1 DEF FifoInv
  <2> QED
    BY <1>1, <2>1, <2>2, <2>3 DEF FifoInv
<1>4. Head(q).all => ~Head(q).down
  BY <1>1 DEF FifoInv
<1>5. \A k : Presses(t, k) => Presses(q, k)
  BY <1>1 DEF Presses
<1>6. \A k : IsPress(Head(q), k) => Presses(q, k)
  BY <1>1 DEF Presses
<1>7. ASSUME NEW k, NEW i \in 2 .. Len(q), Clears(q[i], k),
             \A j \in 1 .. Len(q) : i < j => ~IsPress(q[j], k)
      PROVE  Cleared(t, k)
  <2>1. i - 1 \in 1 .. Len(t) /\ Clears(t[i - 1], k)
    BY <1>2, <1>7
  <2>2. \A j \in 1 .. Len(t) : i - 1 < j => ~IsPress(t[j], k)
    BY <1>1, <1>7
  <2> QED
    BY <2>1, <2>2 DEF Cleared
<1>8. ASSUME NEW k, Cleared(q, k), ~Clears(Head(q), k) \/ Presses(t, k)
      PROVE  Cleared(t, k)
  <2>1. PICK i \in 1 .. Len(q) :
          Clears(q[i], k) /\ \A j \in 1 .. Len(q) : i < j => ~IsPress(q[j], k)
    BY <1>8 DEF Cleared
  <2>2. i # 1
    BY <2>1, <1>1, <1>8 DEF Presses
  <2> QED
    BY <2>1, <2>2, <1>1, <1>7
<1> QED
  BY <1>1, <1>3, <1>4, <1>5, <1>6, <1>8 DEF t
-----------------------------------------------------------------------------
(* Commands                                                                 *)

(* mp_input_queue_cmd never fills the queue beyond its size.                *)
LEMMA QueueFacts ==
  ASSUME NEW q \in Seq(Cmds), Len(q) <= QueueSize, NEW cs \in Seq(Cmds)
  PROVE  /\ mp_input_queue_cmd(q, cs) \in Seq(Cmds)
         /\ Len(mp_input_queue_cmd(q, cs)) <= QueueSize
         /\ q # <<>> => mp_input_queue_cmd(q, cs) # <<>>
PROOF
<1> DEFINE r == q \o cs
           n == IF Len(r) > QueueSize THEN QueueSize ELSE Len(r)
<1>1. r \in Seq(Cmds) /\ Len(r) = Len(q) + Len(cs) /\ Len(q) \in Nat /\ Len(cs) \in Nat
  OBVIOUS
<1>2. mp_input_queue_cmd(q, cs) = SubSeq(r, 1, n)
  BY DEF mp_input_queue_cmd
<1> HIDE DEF r
<1>3. n \in 0 .. Len(r) /\ n <= QueueSize /\ (Len(r) > 0 => n > 0)
  BY <1>1, Sizes
<1> HIDE DEF n
<1>4. SubSeq(r, 1, n) \in Seq(Cmds) /\ Len(SubSeq(r, 1, n)) = n
  BY <1>1, <1>3
<1>5. q # <<>> => Len(r) > 0
  BY <1>1
<1> QED
  BY <1>2, <1>3, <1>4, <1>5

(* What menus queue, and what keys are bound to, are commands.              *)
LEMMA CommandTypes ==
  /\ \A cs \in MenuCmds : cs \in Seq(Cmds)
  /\ \A ks : CmdFromKeys(ks) \in Cmds \cup {None}
  /\ {"quit", "pause", "menu", "hide"} \cup SlaveCmds \cup UserCmds \subseteq Cmds
  /\ None \notin Cmds /\ <<>> \in Seq(Cmds)
PROOF
<1>1. ASSUME NEW cs \in MenuCmds PROVE cs \in Seq(Cmds)
  <2>1. Range(cs) \subseteq Cmds
    BY DEF Cmds
  <2>2. cs \in Seq(Range(cs))
    BY InputAssumption DEF InputAssumption
  <2> QED
    BY <2>1, <2>2
<1>2. \A ks : CmdFromKeys(ks) \in Cmds \cup {None}
  BY DEF CmdFromKeys, Cmds
<1>3. {"quit", "pause", "menu", "hide"} \cup SlaveCmds \cup UserCmds \subseteq Cmds
  BY DEF Cmds
<1> QED
  BY <1>1, <1>2, <1>3, InputAssumption DEF InputAssumption
-----------------------------------------------------------------------------
(* The keys that are down                                                   *)

(* What reading a key leaves of the call: no command, or one to filter.     *)
KeyResult ==
  /\ ret' \in Cmds \cup {None} /\ from_queue' = FALSE
  /\ pc' = "repeat" \/ (pc' = "filter" /\ ret' # None)

(* What an ignored key leaves alone.                                        *)
LEMMA IgnoredFacts ==
  ASSUME NEW kd, NEW lkd, Ignored(kd, lkd)
  PROVE  /\ key_down' = kd /\ last_key_down' = lkd /\ UNCHANGED <<ar_state, ar_cmd, cmd_queue>>
         /\ KeyResult
PROOF BY DEF Ignored, Got, KeyResult

(* A press adds its key at most, and autorepeat starts over.                *)
LEMMA PressedFacts ==
  ASSUME NEW kd \in Seq(Codes), Distinct(kd), NEW lkd \in BOOLEAN, NEW k \in Codes,
         KeyPressed(kd, lkd, k)
  PROVE  /\ key_down' \in Seq(Codes) /\ Distinct(key_down')
         /\ Range(key_down') \subseteq Range(kd) \cup {k}
         /\ last_key_down' \in BOOLEAN /\ UNCHANGED <<ar_cmd, cmd_queue>> /\ KeyResult
         /\ ar_state' = 0 \/ (key_down' = kd /\ UNCHANGED ar_state)
PROOF
<1>1. CASE Ignored(kd, lkd)
  BY <1>1, IgnoredFacts
<1>2. CASE ~Ignored(kd, lkd)
  <2>1. k \notin Range(kd) /\ key_down' = Append(kd, k)
    BY <1>2 DEF KeyPressed
  <2>2. /\ key_down' \in Seq(Codes) /\ Distinct(key_down')
        /\ Range(key_down') \subseteq Range(kd) \cup {k}
    BY <2>1, AppendKey
  <2> QED
    BY <1>2, <2>2 DEF KeyPressed, Got, KeyResult
<1> QED
  BY <1>1, <1>2

(* A release takes its key away, also one that was not down, and stops      *)
(* autorepeat; only one that finds no room changes nothing.                 *)
LEMMA ReleasedFacts ==
  ASSUME NEW kd \in Seq(Codes), Distinct(kd), NEW lkd \in BOOLEAN, NEW k \in Codes,
         KeyReleased(kd, lkd, k)
  PROVE  /\ key_down' \in Seq(Codes) /\ Distinct(key_down')
         /\ Range(key_down') \subseteq Range(kd) \ {k}
         /\ last_key_down' \in BOOLEAN /\ UNCHANGED cmd_queue /\ KeyResult
         /\ \/ ar_state' = -1 /\ ar_cmd' = None
            \/ key_down' = kd /\ UNCHANGED <<ar_state, ar_cmd>>
PROOF
<1> DEFINE down == k \in Range(kd)
           ks == IF down THEN kd ELSE Append(kd, k)
           cmd == IF lkd \/ ~down THEN CmdFromKeys(ks) ELSE None
<1>1. CASE ~down /\ Ignored(kd, lkd)
  BY <1>1, IgnoredFacts
<1>2. CASE /\ key_down' = RemoveFirst(ks, k) /\ last_key_down' = FALSE
           /\ ar_state' = -1 /\ ar_cmd' = None
           /\ Got(cmd, IF cmd = None THEN "repeat" ELSE "filter")
  <2>1. ks \in Seq(Codes) /\ Distinct(ks) /\ k \in Range(ks) /\ Range(ks) \subseteq Range(kd) \cup {k}
    BY AppendKey
  <2>2. cmd \in Cmds \cup {None}
    BY CommandTypes
  <2> HIDE DEF ks, cmd
  <2>3. /\ RemoveFirst(ks, k) \in Seq(Codes) /\ Distinct(RemoveFirst(ks, k))
        /\ Range(RemoveFirst(ks, k)) \subseteq Range(kd) \ {k}
    BY <2>1, RemoveFirstFacts
  <2>4. UNCHANGED cmd_queue /\ KeyResult
    BY <1>2, <2>2 DEF Got, KeyResult
  <2> QED
    BY <1>2, <2>3, <2>4
<1> QED
  BY <1>1, <1>2 DEF KeyReleased

(* interpret_key: a key that is down afterwards and was not grabbed was     *)
(* pressed by this event, or was down before and is not cleared by it; and  *)
(* autorepeat never outlives a change of the keys.                          *)
LEMMA InterpretFacts ==
  ASSUME TypeOK, Distinct(key_down), NEW e \in Events, e.all => ~e.down, interpret_key(e)
  PROVE  /\ key_down' \in Seq(Codes) /\ Distinct(key_down') /\ last_key_down' \in BOOLEAN
         /\ grabbed' \subseteq Codes /\ KeyResult
         /\ cmd_queue' \in Seq(Cmds) /\ Len(cmd_queue') <= QueueSize
         /\ \/ ar_state' = -1 /\ ar_cmd' = None
            \/ ar_state' = 0 /\ UNCHANGED ar_cmd
            \/ UNCHANGED <<ar_state, ar_cmd>> /\ key_down' \in {<<>>, key_down}
         /\ \A k \in Codes : k \in Range(key_down') \ grabbed' =>
              IsPress(e, k) \/ (k \in Range(key_down) \ grabbed /\ ~Clears(e, k))
PROOF
<1> DEFINE kd  == IF e.all THEN <<>> ELSE key_down
           lkd == last_key_down /\ ~e.all
           c   == e.code
<1>1. /\ kd \in Seq(Codes) /\ Distinct(kd) /\ lkd \in BOOLEAN
      /\ kd \in {<<>>, key_down} /\ Range(kd) \subseteq Range(key_down)
      /\ e.all => Range(kd) = {}
  BY DEF TypeOK, Distinct, Range
<1>2. c = None \/ c \in Codes
  BY DEF Events
<1>3. None \notin Codes
  BY InputAssumption DEF InputAssumption
<1>4. cmd_queue \in Seq(Cmds) /\ Len(cmd_queue) <= QueueSize /\ grabbed \subseteq Codes
  BY DEF TypeOK
<1>5. CASE c = None /\ Ignored(kd, lkd) /\ UNCHANGED grabbed
  <2>1. /\ key_down' = kd /\ last_key_down' = lkd /\ UNCHANGED <<ar_state, ar_cmd, cmd_queue>>
        /\ KeyResult
    BY <1>5, IgnoredFacts
  <2> QED
    BY <2>1, <1>1, <1>3, <1>4, <1>5 DEF Clears
<1>6. CASE c \in Codes /\ e.down /\ Ignored(kd, lkd) /\ UNCHANGED grabbed
  <2>1. /\ key_down' = kd /\ last_key_down' = lkd /\ UNCHANGED <<ar_state, ar_cmd, cmd_queue>>
        /\ KeyResult
    BY <1>6, IgnoredFacts
  <2> QED
    BY <2>1, <1>1, <1>4, <1>6 DEF Clears
<1>7. CASE c \in Codes /\ ~e.down /\ MenuKey(kd, lkd, c) /\ grabbed' = grabbed \cup {c}
  <2>1. ASSUME Range(key_down') \subseteq Range(kd)
        PROVE  \A k \in Codes : k \in Range(key_down') \ grabbed' =>
                 k \in Range(key_down) \ grabbed /\ ~Clears(e, k)
    BY <2>1, <1>1, <1>7 DEF Clears
  <2>2. CASE /\ \E cs \in MenuCmds : cmd_queue' = mp_input_queue_cmd(cmd_queue, cs)
             /\ key_down' = kd /\ last_key_down' = lkd /\ UNCHANGED <<ar_state, ar_cmd>>
             /\ ret' = None /\ from_queue' = FALSE /\ pc' = "repeat"
    <3>1. cmd_queue' \in Seq(Cmds) /\ Len(cmd_queue') <= QueueSize
      BY <2>2, <1>4, QueueFacts, CommandTypes
    <3> QED
      BY <2>1, <2>2, <3>1, <1>1, <1>4, <1>7 DEF KeyResult
  <2>3. CASE KeyReleased(kd, lkd, IF c \in NoRepeat THEN Plain[c] ELSE c)
    <3> DEFINE x == IF c \in NoRepeat THEN Plain[c] ELSE c
    <3>1. x \in Codes
      BY <1>7 DEF Codes
    <3> HIDE DEF x
    <3>2. /\ key_down' \in Seq(Codes) /\ Distinct(key_down')
          /\ Range(key_down') \subseteq Range(kd) \ {x}
          /\ last_key_down' \in BOOLEAN /\ UNCHANGED cmd_queue /\ KeyResult
          /\ \/ ar_state' = -1 /\ ar_cmd' = None
             \/ key_down' = kd /\ UNCHANGED <<ar_state, ar_cmd>>
      BY <2>3, <3>1, <1>1, ReleasedFacts DEF x
    <3> QED
      BY <3>2, <2>1, <1>1, <1>4, <1>7
  <2> QED
    BY <1>7, <2>2, <2>3 DEF MenuKey
<1>8. CASE c \in Codes /\ e.down /\ KeyPressed(kd, lkd, c) /\ grabbed' = grabbed \ {c}
  <2>1. /\ key_down' \in Seq(Codes) /\ Distinct(key_down')
        /\ Range(key_down') \subseteq Range(kd) \cup {c}
        /\ last_key_down' \in BOOLEAN /\ UNCHANGED <<ar_cmd, cmd_queue>> /\ KeyResult
        /\ ar_state' = 0 \/ (key_down' = kd /\ UNCHANGED ar_state)
    BY <1>8, <1>1, PressedFacts
  <2> QED
    BY <2>1, <1>1, <1>4, <1>8 DEF Clears, IsPress
<1>9. CASE c \in Codes /\ ~e.down /\ KeyReleased(kd, lkd, c) /\ grabbed' = grabbed \ {c}
  <2>1. /\ key_down' \in Seq(Codes) /\ Distinct(key_down')
        /\ Range(key_down') \subseteq Range(kd) \ {c}
        /\ last_key_down' \in BOOLEAN /\ UNCHANGED cmd_queue /\ KeyResult
        /\ \/ ar_state' = -1 /\ ar_cmd' = None
           \/ key_down' = kd /\ UNCHANGED <<ar_state, ar_cmd>>
    BY <1>9, <1>1, ReleasedFacts
  <2> QED
    BY <2>1, <1>1, <1>4, <1>9 DEF Clears
<1>10. \/ c = None /\ Ignored(kd, lkd) /\ UNCHANGED grabbed
       \/ c # None /\ e.down /\ Ignored(kd, lkd) /\ UNCHANGED grabbed
       \/ c # None /\ ~e.down /\ MenuKey(kd, lkd, c) /\ grabbed' = grabbed \cup {c}
       \/ c # None /\ e.down /\ KeyPressed(kd, lkd, c) /\ grabbed' = grabbed \ {c}
       \/ c # None /\ ~e.down /\ KeyReleased(kd, lkd, c) /\ grabbed' = grabbed \ {c}
  BY DEF interpret_key
<1> QED
  BY <1>2, <1>5, <1>6, <1>7, <1>8, <1>9, <1>10
-----------------------------------------------------------------------------
(* Types                                                                    *)

(* What the steps of a call rely on: a command to filter or to queue is     *)
(* there, a command that was looked at is still in the queue, and a         *)
(* repeating key has its command.                                           *)
CallInv ==
  /\ pc \in {"filter", "end"} => ret # None
  /\ pc = "filter" /\ from_queue /\ peek_only => cmd_queue # <<>>
  /\ ar_state = 1 => ar_cmd # None

(* The first states.                                                        *)
LEMMA InputInit == Init => TypeOK /\ CallInv /\ StuckInv /\ AutoRepeatFresh
PROOF
<1> SUFFICES ASSUME Init PROVE TypeOK /\ CallInv /\ StuckInv /\ AutoRepeatFresh
  OBVIOUS
<1>1. TypeOK
  <2>1. last_key \in (Keys \cup {None}) \X (Keys \cup {None})
    BY DEF Init
  <2>2. previous_down_key \in [code : Codes \cup {None}, down : {FALSE}, all : BOOLEAN]
    BY DEF Init, Event
  <2>3. {async_quit_request, mp_input_key_cb, show, from_queue} \subseteq BOOLEAN
    BY DEF Init
  <2>4. held \subseteq Keys /\ posts \in 0 .. MaxPosts /\ Len(fifo) <= FifoSize
        /\ Len(cmd_queue) <= QueueSize /\ ar_state \in -1 .. 1
    BY Sizes DEF Init
  <2>5. {ret, peeked} \subseteq Cmds \cup {None} /\ grabbed \subseteq Codes
    BY DEF Init
  <2>6. fifo \in Seq([code : Codes \cup {None}, down : BOOLEAN, all : BOOLEAN])
    BY DEF Init
  <2>7. key_down \in Seq(Codes) /\ cmd_queue \in Seq(Cmds)
    BY DEF Init
  <2>8. ar_cmd \in Cmds \cup {None} /\ last_key_down \in BOOLEAN /\ quick \in BOOLEAN
    BY DEF Init
  <2>9. /\ mode \in {"play", "paused", "exit"}
        /\ pc \in {"idle", "call", "keys", "repeat", "cmds", "filter", "end", "done"}
    BY DEF Init
  <2> QED
    BY <2>1, <2>2, <2>3, <2>4, <2>5, <2>6, <2>7, <2>8, <2>9 DEF TypeOK
<1>2. CallInv /\ AutoRepeatFresh
  BY DEF Init, CallInv, AutoRepeatFresh
<1>3. FifoInv(fifo, previous_down_key) /\ Distinct(key_down)
  BY Sizes DEF Init, FifoInv, Distinct, Event
<1>4. KeysInv
  BY DEF Init, KeysInv, Presses, Range
<1> QED
  BY <1>1, <1>2, <1>3, <1>4 DEF StuckInv

(* A key event posted by a driver.                                          *)
LEMMA PostType ==
  ASSUME TypeOK, CallInv, StuckInv, NEW k \in Keys, NEW down \in BOOLEAN,
         Post, mplayer_put_key(k, down), held' \subseteq Keys
  PROVE  TypeOK' /\ CallInv'
PROOF
<1>1. /\ fifo' \in Seq(Events) /\ Len(fifo') <= FifoSize /\ previous_down_key' \in PrevType
  BY PutKey DEF TypeOK, StuckInv, Events, PrevType
<1>2. posts' \in 0 .. MaxPosts
  BY Sizes DEF Post, TypeOK
<1>3. last_key' \in (Keys \cup {None}) \X (Keys \cup {None}) /\ quick' \in BOOLEAN
  <2>1. last_key[1] \in Keys \cup {None}
    BY DEF TypeOK
  <2>2. <<k, last_key[1]>> \in (Keys \cup {None}) \X (Keys \cup {None})
    BY <2>1
  <2>3. last_key' = IF down THEN <<k, last_key[1]>> ELSE last_key
    BY DEF mplayer_put_key
  <2>4. quick' \in BOOLEAN
    BY DEF mplayer_put_key, TypeOK
  <2> QED
    BY <2>2, <2>3, <2>4 DEF TypeOK
<1>4. CallInv'
  BY DEF Post, CallInv, playerVars, keyVars, peek_only
<1> QED
  BY <1>1, <1>2, <1>3, <1>4 DEF Post, TypeOK, playerVars, keyVars, Events, PrevType

(* Every step keeps the types.                                              *)
LEMMA TypeStep == TypeOK /\ CallInv /\ StuckInv /\ [Next]_vars => TypeOK' /\ CallInv'
PROOF
<1> SUFFICES ASSUME TypeOK, CallInv, StuckInv, [Next]_vars PROVE TypeOK' /\ CallInv'
  OBVIOUS
<1>q. ASSUME NEW q, q \in Seq(Cmds), q # <<>>
      PROVE  Tail(q) \in Seq(Cmds) /\ Len(Tail(q)) = Len(q) - 1 /\ Head(q) \in Cmds
  BY <1>q
<1>c. /\ \A ks : CmdFromKeys(ks) \in Cmds \cup {None}
      /\ {"quit", "pause", "menu", "hide"} \cup SlaveCmds \cup UserCmds \subseteq Cmds
      /\ None \notin Cmds
  BY CommandTypes
<1>t. /\ cmd_queue \in Seq(Cmds) /\ Len(cmd_queue) <= QueueSize /\ Len(cmd_queue) \in Nat
      /\ ret \in Cmds \cup {None}
  BY DEF TypeOK
<1>h. cmd_queue # <<>> => /\ Tail(cmd_queue) \in Seq(Cmds)
                          /\ Len(Tail(cmd_queue)) <= QueueSize /\ Head(cmd_queue) \in Cmds
  BY <1>q, <1>t, Sizes
<1>1. CASE GetCmd
  <2>1. CASE Got("quit", "end") \/ Got(None, "keys")
    BY <2>1, <1>1, <1>c DEF GetCmd, Got, TypeOK, CallInv, postVars, keyVars
  <2>2. CASE mp_input_get_queued_cmd
    <3>1. /\ ret' \in Cmds /\ ret' # None /\ from_queue' = TRUE /\ pc' = "filter"
          /\ cmd_queue' \in Seq(Cmds) /\ Len(cmd_queue') <= QueueSize
          /\ peek_only => cmd_queue' # <<>>
      BY <2>2, <1>h, <1>c, <1>t DEF mp_input_get_queued_cmd
    <3>2. TypeOK'
      BY <3>1, <1>1 DEF GetCmd, TypeOK, postVars, keyVars
    <3>3. CallInv'
      BY <3>1, <1>1 DEF GetCmd, CallInv, keyVars, peek_only
    <3> QED
      BY <3>2, <3>3
  <2> QED
    BY <1>1, <2>1, <2>2 DEF GetCmd
<1>2. CASE ReadKey
  <2>1. CASE fifo = <<>> /\ Got(None, "repeat") /\ UNCHANGED <<keyVars, fifo, grabbed>>
    BY <2>1, <1>2 DEF ReadKey, Got, TypeOK, CallInv, keyVars
  <2>2. CASE fifo # <<>> /\ fifo' = Tail(fifo) /\ interpret_key(Head(fifo))
    <3>1. fifo \in Seq(Events) /\ Len(fifo) <= FifoSize
      BY DEF TypeOK, Events
    <3>2. /\ Tail(fifo) \in Seq(Events) /\ Len(Tail(fifo)) = Len(fifo) - 1
          /\ Head(fifo) \in Events /\ (Head(fifo).all => ~Head(fifo).down)
      BY <2>2, <3>1, TailFifo DEF StuckInv
    <3>3. /\ key_down' \in Seq(Codes) /\ last_key_down' \in BOOLEAN
          /\ grabbed' \subseteq Codes /\ KeyResult
          /\ cmd_queue' \in Seq(Cmds) /\ Len(cmd_queue') <= QueueSize
          /\ \/ ar_state' = -1 /\ ar_cmd' = None
             \/ ar_state' = 0 /\ UNCHANGED ar_cmd
             \/ UNCHANGED <<ar_state, ar_cmd>>
      BY <2>2, <3>2, InterpretFacts DEF StuckInv
    <3>4. fifo' \in Seq(Events) /\ Len(fifo') <= FifoSize
      BY <2>2, <3>1, <3>2, Sizes
    <3>5. ar_state' \in -1 .. 1 /\ ar_cmd' \in Cmds \cup {None} /\ (ar_state' = 1 => ar_cmd' # None)
      BY <3>3 DEF TypeOK, CallInv
    <3>6. TypeOK'
      BY <1>2, <3>3, <3>4, <3>5 DEF ReadKey, TypeOK, KeyResult, Events
    <3>7. CallInv'
      BY <3>3, <3>5 DEF CallInv, KeyResult
    <3> QED
      BY <3>6, <3>7
  <2> QED
    BY <1>2, <2>1, <2>2 DEF ReadKey
<1>3. CASE check_autorepeat
  <2>1. /\ ret' \in Cmds \cup {None} /\ from_queue' = FALSE /\ UNCHANGED cmd_queue
        /\ pc' = "cmds" \/ (pc' = "filter" /\ ret' # None)
        /\ ar_state' \in -1 .. 1 /\ ar_cmd' \in Cmds \cup {None} /\ (ar_state' = 1 => ar_cmd' # None)
    BY <1>3, <1>c DEF check_autorepeat, Got, TypeOK, CallInv
  <2>2. TypeOK'
    BY <1>3, <2>1 DEF check_autorepeat, TypeOK, postVars
  <2> QED
    BY <2>1, <2>2 DEF CallInv
<1>4. CASE ReadCmd
  <2>1. /\ ret' \in Cmds \cup {None} /\ pc' \in {"filter", "done"} /\ from_queue' \in BOOLEAN
        /\ pc' = "filter" => ret' # None
        /\ cmd_queue' \in Seq(Cmds) /\ Len(cmd_queue') <= QueueSize
        /\ pc' = "filter" /\ from_queue' /\ peek_only => cmd_queue' # <<>>
    <3>1. CASE mp_input_get_queued_cmd
      BY <3>1, <1>h, <1>c, <1>t DEF mp_input_get_queued_cmd
    <3>2. CASE \E c \in SlaveCmds : Got(c, "filter")
      BY <3>2, <1>c, <1>t DEF Got
    <3>3. CASE Got(None, "done")
      BY <3>3, <1>t DEF Got
    <3> QED
      BY <1>4, <3>1, <3>2, <3>3 DEF ReadCmd
  <2>2. TypeOK'
    BY <1>4, <2>1 DEF ReadCmd, TypeOK, postVars, keyVars
  <2>3. CallInv'
    BY <1>4, <2>1 DEF ReadCmd, CallInv, keyVars, peek_only
  <2> QED
    BY <2>2, <2>3
<1>5. CASE Filter
  <2>1. CASE MenuFilter
    <3>1. PICK cs \in Seq(Cmds) :
            LET q == mp_input_queue_cmd(cmd_queue, cs) IN
              cmd_queue' = IF peek_only /\ from_queue THEN Tail(q) ELSE q
      BY <2>1, CommandTypes DEF MenuFilter
    <3> DEFINE q == mp_input_queue_cmd(cmd_queue, cs)
    <3>2. q \in Seq(Cmds) /\ Len(q) <= QueueSize /\ (cmd_queue # <<>> => q # <<>>)
      BY <1>t, QueueFacts
    <3> HIDE DEF q
    <3>3. peek_only /\ from_queue => q # <<>>
      BY <3>2, <1>5 DEF Filter, CallInv
    <3>4. cmd_queue' \in Seq(Cmds) /\ Len(cmd_queue') <= QueueSize
      BY <3>1, <3>2, <3>3, <1>q, Sizes DEF q
    <3>5. show' \in BOOLEAN /\ ret' = None /\ pc' = "done"
      BY <2>1 DEF MenuFilter
    <3>6. TypeOK'
      BY <3>4, <3>5, <1>5 DEF Filter, TypeOK, postVars, keyVars
    <3> QED
      BY <3>5, <3>6, <1>5 DEF Filter, CallInv, keyVars
  <2>2. CASE pc' = "end" /\ UNCHANGED <<show, ret, cmd_queue>>
    BY <2>2, <1>5 DEF Filter, TypeOK, CallInv, postVars, keyVars
  <2> QED
    BY <1>5, <2>1, <2>2 DEF Filter
<1>6. CASE End
  <2>1. ret \in Cmds
    BY <1>6, <1>t DEF End, CallInv
  <2>2. /\ mp_input_queue_cmd(cmd_queue, <<ret>>) \in Seq(Cmds)
        /\ Len(mp_input_queue_cmd(cmd_queue, <<ret>>)) <= QueueSize
    <3>1. <<ret>> \in Seq(Cmds)
      BY <2>1
    <3> QED
      BY <3>1, <1>t, QueueFacts
  <2>3. /\ cmd_queue' \in Seq(Cmds) /\ Len(cmd_queue') <= QueueSize
        /\ ret' \in Cmds \cup {None} /\ pc' = "done"
    BY <1>6, <2>1, <2>2, <1>t DEF End
  <2>4. TypeOK'
    BY <1>6, <2>3 DEF End, TypeOK, postVars, keyVars
  <2> QED
    BY <1>6, <2>3, <2>4 DEF End, CallInv, keyVars
<1>7. CASE Done
  <2>1. /\ pc' \in {"idle", "call"} /\ ret' = None /\ from_queue' = FALSE
        /\ peeked' \in Cmds \cup {None} /\ mode' \in {"play", "paused", "exit"}
    <3>1. mode \in {"play", "paused", "exit"} /\ ret \in Cmds \cup {None}
          /\ peeked \in Cmds \cup {None}
      BY DEF TypeOK
    <3>2. CASE MainLoop
      BY <3>1, <3>2 DEF MainLoop, Run, Idle
    <3>3. CASE mp_input_check_interrupt
      BY <3>1, <3>3 DEF mp_input_check_interrupt, Idle, Again
    <3>4. CASE pause_loop
      BY <3>1, <3>4 DEF pause_loop, Run, Idle, Again
    <3> QED
      BY <1>7, <3>2, <3>3, <3>4 DEF Done
  <2>2. TypeOK'
    BY <1>7, <2>1 DEF Done, TypeOK, postVars, keyVars
  <2> QED
    BY <1>7, <2>1, <2>2 DEF Done, CallInv, keyVars
<1>8. ASSUME NEW c \in {"main", "check", "pause"}, Call(c) PROVE TypeOK' /\ CallInv'
  BY <1>8 DEF Call, TypeOK, CallInv, postVars, keyVars
<1>9. ASSUME NEW k \in Keys, Press(k) \/ Release(k) \/ Tap(k) PROVE TypeOK' /\ CallInv'
  <2>1. held' \subseteq Keys /\ Post /\ \E down \in BOOLEAN : mplayer_put_key(k, down)
    BY <1>9 DEF Press, Release, Tap, TypeOK
  <2> QED
    BY <2>1, PostType
<1>10. CASE QueueCmd
  <2>1. PICK c \in UserCmds : cmd_queue' = mp_input_queue_cmd(cmd_queue, <<c>>)
    BY <1>10 DEF QueueCmd
  <2>2. cmd_queue' \in Seq(Cmds) /\ Len(cmd_queue') <= QueueSize
    <3>1. <<c>> \in Seq(Cmds)
      BY <1>c
    <3> QED
      BY <2>1, <3>1, <1>t, QueueFacts
  <2>3. TypeOK'
    BY <1>10, <2>2 DEF QueueCmd, TypeOK, postVars, keyVars, playerVars
  <2> QED
    BY <1>10, <2>3 DEF QueueCmd, CallInv, keyVars, playerVars, peek_only
<1>11. CASE Signal
  BY <1>11 DEF Signal, TypeOK, CallInv, postVars, keyVars, playerVars, peek_only
<1>12. CASE Frame
  BY <1>12 DEF Frame, TypeOK, CallInv, postVars, keyVars, playerVars, peek_only
<1>13. CASE UNCHANGED vars
  <2>1. TypeOK'
    BY <1>13 DEF vars, TypeOK
  <2>2. CallInv'
    BY <1>13 DEF vars, CallInv, peek_only
  <2> QED
    BY <2>1, <2>2
<1> QED
  BY <1>1, <1>2, <1>3, <1>4, <1>5, <1>6, <1>7, <1>8, <1>9, <1>10, <1>11, <1>12, <1>13
     DEF Next, Step, Exited
-----------------------------------------------------------------------------
(* No key is stuck, and autorepeat is fresh                                 *)

(* A key event that is posted keeps the promise for every key: a release    *)
(* clears its key even when it does not fit into the fifo.                  *)
LEMMA PostStuck ==
  ASSUME TypeOK, StuckInv, NEW k \in Keys, Press(k) \/ Release(k) \/ Tap(k)
  PROVE  StuckInv'
PROOF
<1>1. PICK down \in BOOLEAN :
        /\ Post /\ mplayer_put_key(k, down)
        /\ down => held' = held \cup {k}
        /\ ~down => held' \in {held, held \ {k}}
  BY DEF Press, Release, Tap
<1>2. /\ FifoInv(fifo', previous_down_key')
      /\ \A x : (x # k \/ ~down) /\ Presses(fifo', x) => Presses(fifo, x)
      /\ \A x : (x # k \/ ~down) /\ Cleared(fifo, x) => Cleared(fifo', x)
      /\ ~down => Cleared(fifo', k)
  BY <1>1, PutKey DEF TypeOK, StuckInv, Events, PrevType
<1>3. UNCHANGED <<key_down, grabbed>>
  BY <1>1 DEF Post, keyVars
<1>4. KeysInv'
  <2> SUFFICES ASSUME NEW x \in Codes, x \notin held',
                      x \in Range(key_down') \ grabbed' \/ Presses(fifo', x)
               PROVE  Cleared(fifo', x)
    BY DEF KeysInv
  <2>1. CASE x = k
    BY <2>1, <1>1, <1>2
  <2>2. CASE x # k
    <3>1. x \notin held
      BY <2>2, <1>1
    <3>2. x \in Range(key_down) \ grabbed \/ Presses(fifo, x)
      BY <2>2, <1>2, <1>3
    <3>3. Cleared(fifo, x)
      BY <3>1, <3>2 DEF StuckInv, KeysInv
    <3> QED
      BY <2>2, <3>3, <1>2
  <2> QED
    BY <2>1, <2>2
<1> QED
  BY <1>2, <1>3, <1>4 DEF StuckInv, Distinct

(* So does reading one.                                                     *)
LEMMA ReadStuck ==
  ASSUME TypeOK, StuckInv, ReadKey
  PROVE  StuckInv'
PROOF
<1>1. CASE UNCHANGED <<keyVars, fifo, grabbed>>
  BY <1>1 DEF ReadKey, StuckInv, FifoInv, Distinct, KeysInv, keyVars
<1>2. CASE fifo # <<>> /\ fifo' = Tail(fifo) /\ interpret_key(Head(fifo))
  <2> DEFINE e == Head(fifo)
  <2>1. fifo \in Seq(Events) /\ Len(fifo) <= FifoSize /\ FifoInv(fifo, previous_down_key)
    BY DEF TypeOK, Events, StuckInv
  <2>2. /\ e \in Events /\ (e.all => ~e.down)
        /\ FifoInv(Tail(fifo), previous_down_key)
        /\ \A k : Presses(Tail(fifo), k) => Presses(fifo, k)
        /\ \A k : IsPress(e, k) => Presses(fifo, k)
        /\ \A k : Cleared(fifo, k) /\ ~Clears(e, k) => Cleared(Tail(fifo), k)
        /\ \A k : Cleared(fifo, k) /\ Presses(Tail(fifo), k) => Cleared(Tail(fifo), k)
    BY <1>2, <2>1, TailFifo
  <2> HIDE DEF e
  <2>3. /\ Distinct(key_down')
        /\ \A k \in Codes : k \in Range(key_down') \ grabbed' =>
             IsPress(e, k) \/ (k \in Range(key_down) \ grabbed /\ ~Clears(e, k))
    BY <1>2, <2>2, InterpretFacts DEF StuckInv, e
  <2>4. KeysInv'
    <3> SUFFICES ASSUME NEW k \in Codes, k \notin held',
                        k \in Range(key_down') \ grabbed' \/ Presses(fifo', k)
                 PROVE  Cleared(fifo', k)
      BY DEF KeysInv
    <3>1. k \notin held /\ fifo' = Tail(fifo)
      BY <1>2 DEF ReadKey
    <3>2. CASE Presses(fifo', k)
      BY <3>1, <3>2, <2>2 DEF StuckInv, KeysInv
    <3>3. CASE IsPress(e, k)
      <4>1. ~Clears(e, k)
        BY <3>3 DEF IsPress, Clears
      <4> QED
        BY <3>1, <3>3, <4>1, <2>2 DEF StuckInv, KeysInv
    <3>4. CASE k \in Range(key_down) \ grabbed /\ ~Clears(e, k)
      BY <3>1, <3>4, <2>2 DEF StuckInv, KeysInv
    <3> QED
      BY <3>2, <3>3, <3>4, <2>3
  <2>5. UNCHANGED previous_down_key /\ fifo' = Tail(fifo)
    BY <1>2 DEF ReadKey
  <2> QED
    BY <2>2, <2>3, <2>4, <2>5 DEF StuckInv
<1> QED
  BY <1>1, <1>2 DEF ReadKey

(* Nothing else touches the fifo or the keys.                               *)
LEMMA StuckStep == TypeOK /\ StuckInv /\ [Next]_vars => StuckInv'
PROOF
<1> SUFFICES ASSUME TypeOK, StuckInv, [Next]_vars PROVE StuckInv'
  OBVIOUS
<1>1. CASE ReadKey
  BY <1>1, ReadStuck
<1>2. CASE \E k \in Keys : Press(k) \/ Release(k) \/ Tap(k)
  BY <1>2, PostStuck
<1>3. CASE UNCHANGED <<held, fifo, previous_down_key, key_down, grabbed>>
  BY <1>3 DEF StuckInv, FifoInv, Distinct, KeysInv
<1>4. ASSUME ~ReadKey, ~\E k \in Keys : Press(k) \/ Release(k) \/ Tap(k)
      PROVE  UNCHANGED <<held, fifo, previous_down_key, key_down, grabbed>>
  <2>1. CASE GetCmd \/ check_autorepeat \/ ReadCmd \/ Filter \/ End \/ Done
    BY <2>1 DEF GetCmd, check_autorepeat, ReadCmd, Filter, End, Done, postVars, keyVars
  <2>2. CASE QueueCmd \/ Signal \/ Frame \/ UNCHANGED vars
    BY <2>2 DEF QueueCmd, Signal, Frame, postVars, keyVars, vars
  <2>3. ASSUME NEW c, Call(c)
        PROVE  UNCHANGED <<held, fifo, previous_down_key, key_down, grabbed>>
    BY <2>3 DEF Call, postVars, keyVars
  <2> QED
    BY <1>4, <2>1, <2>2, <2>3 DEF Next, Step, Exited
<1> QED
  BY <1>1, <1>2, <1>3, <1>4

(* Only check_autorepeat starts a repetition, with the keys down then; any  *)
(* other change of the keys stops it.                                       *)
LEMMA RepeatStep == TypeOK /\ StuckInv /\ AutoRepeatFresh /\ [Next]_vars => AutoRepeatFresh'
PROOF
<1> SUFFICES ASSUME TypeOK, StuckInv, AutoRepeatFresh, [Next]_vars PROVE AutoRepeatFresh'
  OBVIOUS
<1>1. CASE ReadKey
  <2>1. CASE UNCHANGED keyVars
    BY <2>1 DEF keyVars, AutoRepeatFresh
  <2>2. CASE fifo # <<>> /\ interpret_key(Head(fifo))
    <3>1. fifo \in Seq(Events) /\ FifoInv(fifo, previous_down_key)
      BY DEF TypeOK, Events, StuckInv
    <3>2. Head(fifo) \in Events /\ (Head(fifo).all => ~Head(fifo).down)
      BY <2>2, <3>1, TailFifo
    <3>3. \/ ar_state' = -1 /\ ar_cmd' = None
          \/ ar_state' = 0 /\ UNCHANGED ar_cmd
          \/ UNCHANGED <<ar_state, ar_cmd>> /\ key_down' \in {<<>>, key_down}
      BY <2>2, <3>2, InterpretFacts DEF StuckInv
    <3> QED
      BY <3>3 DEF AutoRepeatFresh
  <2> QED
    BY <1>1, <2>1, <2>2 DEF ReadKey
<1>2. CASE check_autorepeat
  BY <1>2 DEF check_autorepeat, AutoRepeatFresh
<1>3. CASE GetCmd \/ ReadCmd \/ Filter \/ End \/ Done
  BY <1>3 DEF GetCmd, ReadCmd, Filter, End, Done, keyVars, AutoRepeatFresh
<1>4. CASE QueueCmd \/ Signal \/ Frame \/ UNCHANGED vars
  BY <1>4 DEF QueueCmd, Signal, Frame, keyVars, vars, AutoRepeatFresh
<1>5. ASSUME NEW c, Call(c) PROVE AutoRepeatFresh'
  BY <1>5 DEF Call, keyVars, AutoRepeatFresh
<1>6. ASSUME NEW k, Press(k) \/ Release(k) \/ Tap(k) PROVE AutoRepeatFresh'
  BY <1>6 DEF Press, Release, Tap, Post, keyVars, AutoRepeatFresh
<1> QED
  BY <1>1, <1>2, <1>3, <1>4, <1>5, <1>6 DEF Next, Step, Exited

(* With the fifo read to its end nothing is left that could clear a key.    *)
LEMMA StuckImplies == TypeOK /\ StuckInv => NoStuckKey
PROOF
<1> SUFFICES ASSUME TypeOK, StuckInv, fifo = <<>>, NEW k \in Range(key_down)
             PROVE  k \in held \cup grabbed
  BY DEF NoStuckKey
<1>1. k \in Codes
  BY DEF TypeOK, Range
<1>2. ~Cleared(fifo, k)
  BY DEF Cleared
<1> QED
  BY <1>1, <1>2 DEF StuckInv, KeysInv
-----------------------------------------------------------------------------
(* Fifo, keys, queue and the call in progress keep their types for every    *)
(* set of keys, bindings and commands: the fifo and the queue never hold    *)
(* more than they have room for.                                            *)
THEOREM InputTypeCorrect == Spec => []TypeOK
PROOF
<1>1. TypeOK /\ CallInv /\ StuckInv /\ [Next]_vars => (TypeOK /\ CallInv /\ StuckInv)'
  BY TypeStep, StuckStep
<1> QED
  BY InputInit, <1>1, PTL DEF Spec

(* "avoid stuck keys" (mp_fifo.c): with the fifo read to its end only keys  *)
(* that the user holds count as down, however fast they were pressed and    *)
(* however small the fifo is; except for releases that a menu grabbed.      *)
THEOREM NoStuckKeyCorrect == Spec => []NoStuckKey
PROOF
<1>1. TypeOK /\ CallInv /\ StuckInv /\ [Next]_vars => (TypeOK /\ CallInv /\ StuckInv)'
  BY TypeStep, StuckStep
<1> QED
  BY InputInit, <1>1, StuckImplies, PTL DEF Spec

(* check_autorepeat repeats the command of exactly the keys that are down.  *)
THEOREM AutoRepeatCorrect == Spec => []AutoRepeatFresh
PROOF
<1>1. TypeOK /\ CallInv /\ StuckInv /\ AutoRepeatFresh /\ [Next]_vars
        => (TypeOK /\ CallInv /\ StuckInv /\ AutoRepeatFresh)'
  BY TypeStep, StuckStep, RepeatStep
<1> QED
  BY InputInit, <1>1, PTL DEF Spec
=============================================================================
