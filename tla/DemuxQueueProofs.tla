-------------------------- MODULE DemuxQueueProofs --------------------------
(***************************************************************************)
(* Proofs about the packet queues for every medium, every limit and every   *)
(* size of the demuxer's bursts.                                            *)
(***************************************************************************)
EXTENDS DemuxQueue, ProofFacts, SequenceTheorems

(* The places of a stream are in their order: it was flushed, then packets  *)
(* were taken, one of which may have brought a pts, and the demuxer is      *)
(* ahead.                                                                   *)
OrderInv ==
  \A s \in Streams : flushed[s] <= taken[s] /\ taken[s] <= filepos /\ pts[s] <= taken[s]

(* What is left of a buffer is left of the packet in hand; only             *)
(* ds_fill_buffer lets go of a packet that was not read to its end.         *)
CurrentInv ==
  \A s \in Streams :
    /\ buffer_pos[s] <= buffer_size[s]
    /\ current[s] # None => buffer_size[s] = file[current[s]].len
    /\ current[s] = None => Unread(s) = 0 \/ (call = "ds_fill_buffer" /\ on = s)

(* What was said of the next pts is forgotten when a read begins.           *)
SaidInv == call \in Calls => next_pts[on] = Unsaid

(* A stream has been looked for too far ahead only while the call that does *)
(* it has found packets, or after it has reported the end.                  *)
FillInv ==
  \A s \in AV : fill_count[s] > FillMax =>
    eof[s] \/ (call \in Calls /\ on = s /\ current[s] = None /\ \E t \in AV : Packs(t) > 0)
-----------------------------------------------------------------------------
(* The lists and sums that the queues are compared with                     *)

(* A packet of the medium is one of a stream or of none of them.            *)
LEMMA PacketFacts ==
  ASSUME file \in Seq(PacketType), NEW p \in Places, p > 0
  PROVE  p \in 1 .. Len(file) /\ file[p].ds \in Streams \cup {"other"} /\ file[p].len \in Nat
         /\ file[p].stamped \in BOOLEAN
PROOF
<1>1. p \in 1 .. Len(file)
  BY DEF Places
<1>2. file[p] \in PacketType
  BY <1>1
<1> QED
  BY <1>1, <1>2 DEF PacketType

(* Added goes from packet to packet.                                        *)
LEMMA AddedRec ==
  ASSUME file \in Seq(PacketType), NEW s, NEW a \in Places, NEW b \in Places
  PROVE  /\ Added(s, a, b) \in Seq(Nat)
         /\ Added(s, a, b) = IF b <= a THEN <<>>
                             ELSE IF file[b].ds = s THEN Append(Added(s, a, b - 1), b)
                             ELSE Added(s, a, b - 1)
PROOF
<1> DEFINE Body(f) == [p \in Places |-> IF p <= a THEN <<>>
                         ELSE IF file[p].ds = s THEN Append(f[p - 1], p) ELSE f[p - 1]]
           list == CHOOSE f : f = Body(f)
           d == [p \in 1 .. Len(file) |-> [v \in Seq(Nat) |->
                   IF p <= a THEN <<>> ELSE IF file[p].ds = s THEN Append(v, p) ELSE v]]
<1>0. Len(file) \in Nat
  OBVIOUS
<1>1. \E f \in [Places -> Seq(Nat)] : f = Body(f)
  <2>1. ASSUME NEW p \in 1 .. Len(file), NEW v \in Seq(Nat)
        PROVE  (IF p <= a THEN <<>> ELSE IF file[p].ds = s THEN Append(v, p) ELSE v) \in Seq(Nat)
    <3>1. Append(v, p) \in Seq(Nat) /\ <<>> \in Seq(Nat)
      OBVIOUS
    <3> QED
      BY <3>1
  <2>2. Steps(d, Seq(Nat), Len(file))
    BY <2>1 DEF Steps
  <2>3. <<>> \in Seq(Nat)
    OBVIOUS
  <2> HIDE DEF d
  <2>4. PICK f : IsRecursive(f, Seq(Nat), <<>>, Len(file), d)
    BY <1>0, <2>2, <2>3, Recursion
  <2>4a. /\ f \in [0 .. Len(file) -> Seq(Nat)]
         /\ f[0] = <<>> /\ \A n \in 1 .. Len(file) : f[n] = d[n][f[n - 1]]
    BY <2>4 DEF IsRecursive
  <2>5. ASSUME NEW p \in Places PROVE f[p] = Body(f)[p]
    <3>1. CASE p = 0
      BY <3>1, <2>4a DEF Places
    <3>2. CASE p # 0
      <4>1. p \in 1 .. Len(file) /\ f[p - 1] \in Seq(Nat)
        BY <3>2, <1>0, <2>4a DEF Places
      <4>2. f[p] = d[p][f[p - 1]]
        BY <4>1, <2>4a
      <4> QED
        BY <4>1, <4>2 DEF d
    <3> QED
      BY <3>1, <3>2
  <2>6. f \in [Places -> Seq(Nat)]
    BY <2>4a DEF Places
  <2>7. f = Body(f)
    BY <2>5, <2>6
  <2> QED
    BY <2>6, <2>7
<1>2. list = Body(list)
  BY <1>1
<1>3. \A c : Added(s, a, c) = list[c]
  BY Zenon DEF Added
<1> HIDE DEF list
<1>4. ASSUME NEW n \in Nat, n \in Places => list[n] \in Seq(Nat), n + 1 \in Places
      PROVE  list[n + 1] \in Seq(Nat)
  <2>1. n \in Places /\ (n + 1) - 1 = n /\ n + 1 \in Nat
    BY <1>4 DEF Places
  <2>2. list[n] \in Seq(Nat)
    BY <1>4, <2>1
  <2>3. list[n + 1] = IF n + 1 <= a THEN <<>>
                      ELSE IF file[n + 1].ds = s THEN Append(list[n], n + 1) ELSE list[n]
    BY <1>2, <1>4, <2>1
  <2>4. Append(list[n], n + 1) \in Seq(Nat) /\ <<>> \in Seq(Nat)
    BY <2>1, <2>2
  <2> QED
    BY <2>2, <2>3, <2>4
<1>5. list[b] \in Seq(Nat)
  <2> DEFINE S == {n \in Nat : n \in Places => list[n] \in Seq(Nat)}
  <2>1. 0 \in S
    <3>1. 0 \in Places /\ 0 <= a
      BY <1>0 DEF Places
    <3>2. list[0] = <<>> /\ <<>> \in Seq(Nat)
      BY <1>2, <3>1
    <3>3. list[0] \in Seq(Nat)
      BY <3>2
    <3> QED
      BY <3>3
  <2>2. \A n \in S : n + 1 \in S
    BY <1>4
  <2>3. S \in SUBSET Nat
    OBVIOUS
  <2> HIDE DEF S
  <2>4. S = Nat
    BY <2>1, <2>2, <2>3, SetInduction
  <2>5. b \in S
    BY <2>4, <1>0 DEF Places
  <2> QED
    BY <2>5 DEF S
<1> QED
  BY <1>2, <1>3, <1>5

(* So does the sum of the bytes.                                            *)
LEMMA BytesRec ==
  ASSUME file \in Seq(PacketType), NEW s, NEW a \in Places, NEW b \in Places
  PROVE  /\ BytesBetween(s, a, b) \in Nat
         /\ BytesBetween(s, a, b) =
              IF b <= a THEN 0
              ELSE BytesBetween(s, a, b - 1) + (IF file[b].ds = s THEN file[b].len ELSE 0)
PROOF
<1> DEFINE Size(p) == IF file[p].ds = s THEN file[p].len ELSE 0
           Body(f) == [p \in Places |-> IF p <= a THEN 0
                         ELSE f[p - 1] + (IF file[p].ds = s THEN file[p].len ELSE 0)]
           sum == CHOOSE f : f = Body(f)
           d == [p \in 1 .. Len(file) |-> [v \in Nat |-> IF p <= a THEN 0 ELSE v + Size(p)]]
<1>0. Len(file) \in Nat
  OBVIOUS
<1>s. ASSUME NEW p \in 1 .. Len(file) PROVE Size(p) \in Nat
  BY PacketFacts DEF Places
<1>1. \E f \in [Places -> Nat] : f = Body(f)
  <2>2. Steps(d, Nat, Len(file))
    <3>1. ASSUME NEW p \in 1 .. Len(file), NEW v \in Nat
          PROVE (IF p <= a THEN 0 ELSE v + Size(p)) \in Nat
      <4> HIDE DEF Size
      <4> QED
        BY <1>s
    <3> QED
      BY <3>1 DEF Steps
  <2>3. 0 \in Nat
    OBVIOUS
  <2> HIDE DEF d
  <2>4. PICK f : IsRecursive(f, Nat, 0, Len(file), d)
    BY <1>0, <2>2, <2>3, Recursion
  <2>4a. /\ f \in [0 .. Len(file) -> Nat]
         /\ f[0] = 0 /\ \A n \in 1 .. Len(file) : f[n] = d[n][f[n - 1]]
    BY <2>4 DEF IsRecursive
  <2>5. ASSUME NEW p \in Places PROVE f[p] = Body(f)[p]
    <3>1. CASE p = 0
      BY <3>1, <2>4a DEF Places
    <3>2. CASE p # 0
      <4>1. p \in 1 .. Len(file) /\ f[p - 1] \in Nat
        BY <3>2, <1>0, <2>4a DEF Places
      <4>2. f[p] = d[p][f[p - 1]]
        BY <4>1, <2>4a
      <4>3. d[p][f[p - 1]] = IF p <= a THEN 0 ELSE f[p - 1] + Size(p)
        BY <4>1 DEF d
      <4> QED
        BY <4>2, <4>3
    <3> QED
      BY <3>1, <3>2
  <2>6. f \in [Places -> Nat]
    BY <2>4a DEF Places
  <2>7. f = Body(f)
    BY <2>5, <2>6
  <2> QED
    BY <2>6, <2>7
<1>2. sum = Body(sum)
  BY <1>1
<1>3. \A c : BytesBetween(s, a, c) = sum[c]
  BY Zenon DEF BytesBetween
<1> HIDE DEF sum
<1>4. ASSUME NEW p \in Places PROVE sum[p] = IF p <= a THEN 0 ELSE sum[p - 1] + Size(p)
  BY <1>2
<1> HIDE DEF Size
<1>5. sum[b] \in Nat
  <2> DEFINE S == {n \in Nat : n \in Places => sum[n] \in Nat}
  <2>1. 0 \in S
    BY <1>0, <1>4 DEF Places
  <2>2. ASSUME NEW n \in S PROVE n + 1 \in S
    <3> SUFFICES ASSUME n + 1 \in Places PROVE sum[n + 1] \in Nat
      OBVIOUS
    <3>1. n \in Places /\ (n + 1) - 1 = n /\ n + 1 \in 1 .. Len(file)
      BY DEF Places
    <3>2. sum[n] \in Nat /\ Size(n + 1) \in Nat
      BY <3>1, <1>s
    <3> QED
      BY <1>4, <3>1, <3>2
  <2>3. S \in SUBSET Nat
    OBVIOUS
  <2> HIDE DEF S
  <2>4. S = Nat
    BY <2>1, <2>2, <2>3, SetInduction
  <2>5. b \in S
    BY <2>4, <1>0 DEF Places
  <2> QED
    BY <2>5 DEF S
<1> QED
  BY <1>3, <1>4, <1>5 DEF Size

(* A sequence without the element that was put before it.                   *)
LEMMA TailOfCons ==
  ASSUME NEW S, NEW t \in Seq(S), NEW e \in S
  PROVE  Tail(<<e>> \o t) = t
PROOF
<1> DEFINE u == <<e>> \o t
<1>1. <<e>> \in Seq(S) /\ Len(<<e>>) = 1 /\ Len(t) \in Nat
  OBVIOUS
<1>2. /\ u \in Seq(S) /\ Len(u) = 1 + Len(t)
      /\ \A i \in 1 .. 1 + Len(t) : u[i] = IF i <= 1 THEN <<e>>[i] ELSE t[i - 1]
  BY <1>1, ConcatProperties
<1> HIDE DEF u
<1>3. /\ Tail(u) \in Seq(S) /\ Len(Tail(u)) = Len(t)
      /\ \A i \in 1 .. Len(t) : Tail(u)[i] = u[i + 1]
  BY <1>1, <1>2
<1>4. \A i \in 1 .. Len(t) : Tail(u)[i] = t[i]
  BY <1>1, <1>2, <1>3
<1>5. Tail(u) = t
  BY <1>3, <1>4, SeqEqual
<1> QED
  BY <1>5 DEF u

(* The next packet of the medium.                                           *)
LEMMA NextPacket ==
  ASSUME file \in Seq(PacketType), NEW s, NEW a \in Places, NEW b \in Places, a <= b,
         b + 1 \in Places
  PROVE  /\ Added(s, a, b + 1) = IF file[b + 1].ds = s THEN Append(Added(s, a, b), b + 1)
                                 ELSE Added(s, a, b)
         /\ BytesBetween(s, a, b + 1) =
              BytesBetween(s, a, b) + (IF file[b + 1].ds = s THEN file[b + 1].len ELSE 0)
PROOF
<1>1. ~(b + 1 <= a) /\ (b + 1) - 1 = b
  BY DEF Places
<1>2. ASSUME NEW n \in Places
      PROVE  /\ Added(s, a, n) = IF n <= a THEN <<>>
                                 ELSE IF file[n].ds = s THEN Append(Added(s, a, n - 1), n)
                                 ELSE Added(s, a, n - 1)
             /\ BytesBetween(s, a, n) =
                  IF n <= a THEN 0
                  ELSE BytesBetween(s, a, n - 1) + (IF file[n].ds = s THEN file[n].len ELSE 0)
  BY AddedRec, BytesRec
<1>3. /\ Added(s, a, b + 1) = IF b + 1 <= a THEN <<>>
             ELSE IF file[b + 1].ds = s THEN Append(Added(s, a, (b + 1) - 1), b + 1)
             ELSE Added(s, a, (b + 1) - 1)
      /\ BytesBetween(s, a, b + 1) =
           IF b + 1 <= a THEN 0
           ELSE BytesBetween(s, a, (b + 1) - 1) + (IF file[b + 1].ds = s THEN file[b + 1].len ELSE 0)
  BY <1>2, Zenon
<1> QED
  BY <1>1, <1>3, Zenon

(* The list between two places has only packets of the stream from there,   *)
(* in their order, and all of them.                                         *)
OnlyOf(q, s, a, b) == \A i \in 1 .. Len(q) : q[i] \in a + 1 .. b /\ file[q[i]].ds = s
AllOf(q, s, a, b)  == \A p \in a + 1 .. b : file[p].ds = s => \E i \in 1 .. Len(q) : q[i] = p
Ordered(q)         == \A i, j \in 1 .. Len(q) : i < j => q[i] < q[j]

ListOf(q, s, a, b) ==
  /\ q \in Seq(Nat) /\ Len(q) <= b - a
  /\ OnlyOf(q, s, a, b) /\ Ordered(q) /\ AllOf(q, s, a, b)

(* Added is this list.                                                      *)
LEMMA AddedList ==
  ASSUME file \in Seq(PacketType), NEW s, NEW a \in Places, NEW b \in Places, a <= b
  PROVE  ListOf(Added(s, a, b), s, a, b)
PROOF
<1> DEFINE S == {n \in Nat : a + n \in Places => ListOf(Added(s, a, a + n), s, a, a + n)}
<1>0. a \in Nat /\ b \in Nat /\ Len(file) \in Nat
  BY DEF Places
<1>1. 0 \in S
  <2>1. a + 0 = a /\ a <= a /\ a + 1 .. a = {}
    BY <1>0
  <2>2. Added(s, a, a) = <<>>
    BY <2>1, AddedRec
  <2>3. ListOf(<<>>, s, a, a)
    BY <2>1, <1>0 DEF ListOf, OnlyOf, AllOf, Ordered
  <2> QED
    BY <2>1, <2>2, <2>3
<1>2. ASSUME NEW n \in S PROVE n + 1 \in S
  <2> DEFINE c == a + n
  <2> SUFFICES ASSUME c + 1 \in Places PROVE ListOf(Added(s, a, c + 1), s, a, c + 1)
    BY <1>0
  <2>1. c \in Places /\ c \in Nat /\ a <= c /\ ~(c + 1 <= a) /\ (c + 1) - 1 = c
    BY <1>0 DEF Places
  <2> DEFINE q == Added(s, a, c)
  <2>2. ListOf(q, s, a, c)
    BY <2>1
  <2> HIDE DEF c
  <2>3. Added(s, a, c + 1) = IF file[c + 1].ds = s THEN Append(q, c + 1) ELSE q
    BY <2>1, NextPacket
  <2> HIDE DEF q
  <2>4. CASE file[c + 1].ds = s
    <3> DEFINE r == Append(q, c + 1)
    <3>1. q \in Seq(Nat) /\ Len(q) \in Nat
      BY <2>2 DEF ListOf, OnlyOf, AllOf, Ordered
    <3>2. /\ r \in Seq(Nat) /\ Len(r) = Len(q) + 1
          /\ \A i \in 1 .. Len(q) : r[i] = q[i]
          /\ r[Len(q) + 1] = c + 1
      BY <3>1, <2>1
    <3> HIDE DEF r
    <3>3. Len(r) <= c + 1 - a
      BY <2>1, <2>2, <3>1, <3>2, <1>0 DEF ListOf, OnlyOf, AllOf, Ordered
    <3>4. ASSUME NEW i \in 1 .. Len(r) PROVE r[i] \in a + 1 .. c + 1 /\ file[r[i]].ds = s
      <4>1. CASE i = Len(q) + 1
        BY <4>1, <2>1, <2>4, <3>2, <1>0
      <4>2. CASE i # Len(q) + 1
        <5>1. i \in 1 .. Len(q)
          BY <4>2, <3>1, <3>2
        <5>2. r[i] = q[i] /\ q[i] \in a + 1 .. c /\ file[q[i]].ds = s
          BY <5>1, <2>2, <3>2 DEF ListOf, OnlyOf, AllOf, Ordered
        <5> QED
          BY <5>2, <2>1, <1>0
      <4> QED
        BY <4>1, <4>2
    <3>5. ASSUME NEW i \in 1 .. Len(r), NEW j \in 1 .. Len(r), i < j PROVE r[i] < r[j]
      <4>1. i \in 1 .. Len(q)
        BY <3>1, <3>2, <3>5
      <4>2. r[i] = q[i] /\ q[i] \in a + 1 .. c
        BY <4>1, <3>2, <2>2 DEF ListOf, OnlyOf, AllOf, Ordered
      <4>3. CASE j = Len(q) + 1
        BY <4>2, <4>3, <3>2, <2>1, <1>0
      <4>4. CASE j # Len(q) + 1
        <5>1. j \in 1 .. Len(q)
          BY <4>4, <3>1, <3>2
        <5> QED
          BY <4>1, <4>2, <5>1, <3>2, <3>5, <2>2 DEF ListOf, OnlyOf, AllOf, Ordered
      <4> QED
        BY <4>3, <4>4
    <3>6. ASSUME NEW p \in a + 1 .. c + 1, file[p].ds = s PROVE \E i \in 1 .. Len(r) : r[i] = p
      <4>1. CASE p = c + 1
        <5>1. Len(q) + 1 \in 1 .. Len(r)
          BY <3>1, <3>2
        <5> QED
          BY <4>1, <5>1, <3>2
      <4>2. CASE p # c + 1
        <5>1. p \in a + 1 .. c
          BY <4>2, <2>1, <1>0
        <5>2. PICK i \in 1 .. Len(q) : q[i] = p
          BY <5>1, <3>6, <2>2 DEF ListOf, OnlyOf, AllOf, Ordered
        <5>3. i \in 1 .. Len(r) /\ r[i] = p
          BY <5>2, <3>1, <3>2
        <5> QED
          BY <5>3
      <4> QED
        BY <4>1, <4>2
    <3>7. ListOf(r, s, a, c + 1)
      <4>1. Ordered(r)
        BY <3>5 DEF Ordered
      <4>2. AllOf(r, s, a, c + 1)
        BY <3>6 DEF AllOf
      <4>3. OnlyOf(r, s, a, c + 1)
        BY <3>4 DEF OnlyOf
      <4> QED
        BY <4>1, <4>2, <4>3, <3>2, <3>3, <2>1, <1>0 DEF ListOf
    <3> QED
      BY <3>7, <2>3, <2>4 DEF r
  <2>5. CASE file[c + 1].ds # s
    <3>1. q \in Seq(Nat) /\ Len(q) \in Nat
      BY <2>2 DEF ListOf, OnlyOf, AllOf, Ordered
    <3>2. ASSUME NEW i \in 1 .. Len(q) PROVE q[i] \in a + 1 .. c + 1
      BY <2>1, <2>2, <1>0 DEF ListOf, OnlyOf, AllOf, Ordered
    <3>3. Len(q) <= c + 1 - a
      BY <2>1, <2>2, <3>1, <1>0 DEF ListOf, OnlyOf, AllOf, Ordered
    <3>4. ASSUME NEW p \in a + 1 .. c + 1, file[p].ds = s PROVE p \in a + 1 .. c
      BY <3>4, <2>1, <2>5, <1>0
    <3>5. ListOf(q, s, a, c + 1)
      <4>1. AllOf(q, s, a, c + 1)
        BY <2>2, <3>4 DEF ListOf, AllOf
      <4>2. Ordered(q)
        BY <2>2 DEF ListOf
      <4>3. OnlyOf(q, s, a, c + 1)
        BY <2>2, <3>2 DEF ListOf, OnlyOf
      <4> QED
        BY <4>1, <4>2, <4>3, <3>1, <3>3, <2>1, <1>0 DEF ListOf
    <3> QED
      BY <3>5, <2>3, <2>5
  <2> QED
    BY <2>4, <2>5
<1>3. S \in SUBSET Nat
  OBVIOUS
<1> HIDE DEF S
<1>4. S = Nat
  BY <1>1, <1>2, <1>3, SetInduction
<1>5. b - a \in S /\ a + (b - a) = b
  BY <1>0, <1>4
<1> QED
  BY <1>5 DEF S

(* Lists and sums of two parts of the medium that meet.                     *)
LEMMA AddedJoin ==
  ASSUME file \in Seq(PacketType), NEW s, NEW a \in Places, NEW b \in Places, NEW c \in Places,
         a <= b, b <= c
  PROVE  /\ Added(s, a, c) = Added(s, a, b) \o Added(s, b, c)
         /\ BytesBetween(s, a, c) = BytesBetween(s, a, b) + BytesBetween(s, b, c)
PROOF
<1> DEFINE Join(x) == /\ Added(s, a, x) = Added(s, a, b) \o Added(s, b, x)
                      /\ BytesBetween(s, a, x) = BytesBetween(s, a, b) + BytesBetween(s, b, x)
           S == {n \in Nat : b + n \in Places => Join(b + n)}
<1>0. a \in Nat /\ b \in Nat /\ c \in Nat /\ Len(file) \in Nat
  BY DEF Places
<1>a. Added(s, a, b) \in Seq(Nat) /\ BytesBetween(s, a, b) \in Nat
  BY AddedRec, BytesRec
<1>1. 0 \in S
  <2>1. b + 0 = b /\ b <= b
    BY <1>0
  <2>2. Added(s, b, b) = <<>> /\ BytesBetween(s, b, b) = 0
    BY <2>1, AddedRec, BytesRec
  <2>3. Added(s, a, b) \o <<>> = Added(s, a, b)
    BY <1>a
  <2>4. BytesBetween(s, a, b) + 0 = BytesBetween(s, a, b)
    BY <1>a
  <2>5. Join(b)
    BY <2>2, <2>3, <2>4
  <2> HIDE DEF Join
  <2> QED
    BY <2>1, <2>5
<1>2. ASSUME NEW n \in S PROVE n + 1 \in S
  <2> DEFINE x == b + n
  <2> SUFFICES ASSUME x + 1 \in Places PROVE Join(x + 1)
    BY <1>0
  <2>1. x \in Places /\ x \in Nat /\ a <= x /\ b <= x /\ x + 1 > 0
    BY <1>0 DEF Places
  <2> DEFINE q == Added(s, a, b)
             r == Added(s, b, x)
             m == BytesBetween(s, a, b)
             k == BytesBetween(s, b, x)
             l == IF file[x + 1].ds = s THEN file[x + 1].len ELSE 0
  <2>2. Added(s, a, x) = q \o r /\ BytesBetween(s, a, x) = m + k
    BY <2>1
  <2> HIDE DEF x
  <2>3. /\ Added(s, a, x + 1) = IF file[x + 1].ds = s THEN Append(Added(s, a, x), x + 1)
                                ELSE Added(s, a, x)
        /\ Added(s, b, x + 1) = IF file[x + 1].ds = s THEN Append(r, x + 1) ELSE r
    BY <2>1, NextPacket
  <2>4. /\ BytesBetween(s, a, x + 1) = BytesBetween(s, a, x) + l
        /\ BytesBetween(s, b, x + 1) = k + l
    BY <2>1, NextPacket
  <2>5. q \in Seq(Nat) /\ r \in Seq(Nat) /\ m \in Nat /\ k \in Nat
    BY <2>1, AddedRec, BytesRec
  <2>6. l \in Nat
    BY <2>1, PacketFacts
  <2> HIDE DEF q, r, m, k, l
  <2>7. Append(q \o r, x + 1) = q \o Append(r, x + 1)
    <3>1. x + 1 \in Nat /\ <<x + 1>> \in Seq(Nat) /\ q \o r \in Seq(Nat)
      BY <2>1, <2>5
    <3>2. Append(q \o r, x + 1) = (q \o r) \o <<x + 1>>
      BY <3>1, AppendIsConcat
    <3>3. Append(r, x + 1) = r \o <<x + 1>>
      BY <3>1, <2>5, AppendIsConcat
    <3> QED
      <4>1. (q \o r) \o <<x + 1>> = q \o (r \o <<x + 1>>)
        BY <3>1, <2>5, ConcatAssociative
      <4> QED
        BY <4>1, <3>2, <3>3, Zenon
  <2>8. Added(s, a, x + 1) = q \o Added(s, b, x + 1)
    BY <2>2, <2>3, <2>7
  <2>9. BytesBetween(s, a, x + 1) = m + BytesBetween(s, b, x + 1)
    BY <2>2, <2>4, <2>5, <2>6
  <2> QED
    BY <2>8, <2>9 DEF q, m
<1>3. S \in SUBSET Nat
  OBVIOUS
<1> HIDE DEF S
<1>4. S = Nat
  BY <1>1, <1>2, <1>3, SetInduction
<1>5. c - b \in S /\ b + (c - b) = c
  BY <1>0, <1>4
<1> QED
  BY <1>5 DEF S

(* Where the stream has no packets there are no bytes of it.                *)
LEMMA NoBytes ==
  ASSUME file \in Seq(PacketType), NEW s, NEW a \in Places, NEW b \in Places, a <= b,
         \A p \in a + 1 .. b : file[p].ds # s
  PROVE  Added(s, a, b) = <<>> /\ BytesBetween(s, a, b) = 0
PROOF
<1> DEFINE S == {n \in Nat : a + n <= b => BytesBetween(s, a, a + n) = 0}
<1>0. a \in Nat /\ b \in Nat /\ Len(file) \in Nat /\ b <= Len(file)
  BY DEF Places
<1>1. 0 \in S
  <2>1. a + 0 = a /\ a <= a
    BY <1>0
  <2> QED
    BY <2>1, BytesRec
<1>2. ASSUME NEW n \in S PROVE n + 1 \in S
  <2> SUFFICES ASSUME a + n + 1 <= b PROVE BytesBetween(s, a, a + n + 1) = 0
    BY <1>0
  <2>1. /\ a + n + 1 \in Places /\ a + n \in Places /\ a + n <= b /\ a <= a + n
        /\ a + n + 1 \in a + 1 .. b
    BY <1>0 DEF Places
  <2>2. BytesBetween(s, a, a + n + 1) = BytesBetween(s, a, a + n) + 0
    BY <2>1, NextPacket
  <2>3. BytesBetween(s, a, a + n) = 0
    BY <2>1
  <2> QED
    BY <2>2, <2>3
<1>3. S \in SUBSET Nat
  OBVIOUS
<1> HIDE DEF S
<1>4. S = Nat
  BY <1>1, <1>2, <1>3, SetInduction
<1>5. b - a \in S /\ a + (b - a) = b
  BY <1>0, <1>4
<1>6. BytesBetween(s, a, b) = 0
  BY <1>5, <1>0 DEF S
<1>7. ListOf(Added(s, a, b), s, a, b)
  BY AddedList
<1>8. Added(s, a, b) \in Seq(Nat) /\ Len(Added(s, a, b)) = 0
  BY <1>7 DEF ListOf, OnlyOf, AllOf, Ordered
<1>9. Added(s, a, b) = <<>>
  BY <1>8
<1> QED
  BY <1>6, <1>9

(* Taking the first packet of the list.                                     *)
FirstOf(h, s, a, b) ==
  /\ h \in Places /\ h > a /\ h <= b /\ file[h].ds = s
  /\ Tail(Added(s, a, b)) = Added(s, h, b)
  /\ BytesBetween(s, a, h) = file[h].len
  /\ BytesBetween(s, h - 1, h) = file[h].len
  /\ BytesBetween(s, a, b) = file[h].len + BytesBetween(s, h, b)

(* The head of the list is such a packet.                                   *)
LEMMA TakeFirst ==
  ASSUME file \in Seq(PacketType), NEW s, NEW a \in Places, NEW b \in Places, a <= b,
         Len(Added(s, a, b)) > 0
  PROVE  FirstOf(Head(Added(s, a, b)), s, a, b)
PROOF
<1> SUFFICES ASSUME NEW h, h = Head(Added(s, a, b)) PROVE FirstOf(h, s, a, b)
  OBVIOUS
<1> DEFINE q == Added(s, a, b)
<1>0. a \in Nat /\ b \in Nat /\ Len(file) \in Nat /\ b <= Len(file)
  BY DEF Places
<1>1. ListOf(q, s, a, b)
  BY AddedList
<1>2. q \in Seq(Nat) /\ Len(q) > 0 /\ h = q[1] /\ 1 \in 1 .. Len(q)
  BY <1>1 DEF ListOf, OnlyOf, AllOf, Ordered
<1> HIDE DEF q
<1>3. h \in a + 1 .. b /\ file[h].ds = s
  BY <1>1, <1>2 DEF ListOf, OnlyOf, AllOf, Ordered
<1>4. h \in Places /\ h - 1 \in Places /\ h > a /\ h <= b /\ a <= h - 1 /\ h = (h - 1) + 1 /\ h \in Nat
  BY <1>0, <1>3 DEF Places
<1>5. ASSUME NEW p \in a + 1 .. h - 1, file[p].ds = s PROVE FALSE
  <2>1. p \in a + 1 .. b /\ p < h
    BY <1>0, <1>3
  <2>2. PICK i \in 1 .. Len(q) : q[i] = p
    BY <1>1, <1>5, <2>1 DEF ListOf, OnlyOf, AllOf, Ordered
  <2>3. i = 1 \/ 1 < i
    BY <1>2
  <2>4. 1 < i => q[1] < q[i]
    BY <1>1, <1>2 DEF ListOf, OnlyOf, AllOf, Ordered
  <2> QED
    BY <1>2, <1>3, <2>1, <2>2, <2>3, <2>4, <1>0
<1>6. Added(s, a, h - 1) = <<>> /\ BytesBetween(s, a, h - 1) = 0
  BY <1>4, <1>5, NoBytes
<1>7. ASSUME NEW x \in Places, x \in Nat, x - 1 \in Places, file[x].ds = s
      PROVE  /\ a <= x - 1 => Added(s, a, x) = Append(Added(s, a, x - 1), x)
             /\ a <= x - 1 => BytesBetween(s, a, x) = BytesBetween(s, a, x - 1) + file[x].len
             /\ BytesBetween(s, x - 1, x) = 0 + file[x].len
  <2>1. ~(x <= x - 1) /\ x - 1 <= x - 1 /\ (a <= x - 1 => ~(x <= a))
    BY <1>7, <1>0
  <2>2. BytesBetween(s, x - 1, x - 1) = 0
    BY <2>1, <1>7, BytesRec
  <2> QED
    BY <2>1, <2>2, <1>7, AddedRec, BytesRec
<1>8. Added(s, a, h) = <<h>>
  <2>1. Added(s, a, h) = Append(<<>>, h)
    BY <1>3, <1>4, <1>6, <1>7
  <2> QED
    BY <2>1
<1>9. BytesBetween(s, a, h) = 0 + file[h].len /\ BytesBetween(s, h - 1, h) = 0 + file[h].len
  BY <1>3, <1>4, <1>6, <1>7
<1>10. file[h].len \in Nat
  <2>1. h > 0
    BY <1>0, <1>4
  <2> QED
    BY <1>4, <2>1, PacketFacts
<1>j. /\ Added(s, a, b) = Added(s, a, h) \o Added(s, h, b)
      /\ BytesBetween(s, a, b) = BytesBetween(s, a, h) + BytesBetween(s, h, b)
  <2>1. a <= h
    BY <1>4, <1>0
  <2> QED
    <3>1. ASSUME NEW x \in Places, a <= x, x <= b
          PROVE  /\ Added(s, a, b) = Added(s, a, x) \o Added(s, x, b)
                 /\ BytesBetween(s, a, b) = BytesBetween(s, a, x) + BytesBetween(s, x, b)
      BY <3>1, AddedJoin
    <3>2. h \in Places /\ a <= h /\ h <= b
      BY <1>4, <2>1
    <3> QED
      BY <3>1, <3>2
<1>11. q = <<h>> \o Added(s, h, b)
  BY <1>8, <1>j DEF q
<1>12. BytesBetween(s, a, b) = file[h].len + BytesBetween(s, h, b)
  <2>1. BytesBetween(s, a, b) = BytesBetween(s, a, h) + BytesBetween(s, h, b)
    BY <1>j
  <2> QED
    BY <2>1, <1>9, <1>10
<1>13. Tail(q) = Added(s, h, b)
  <2>1. Added(s, h, b) \in Seq(Nat)
    BY <1>4, AddedRec
  <2> DEFINE t == Added(s, h, b)
  <2>2. <<h>> \in Seq(Nat) /\ Len(<<h>>) = 1 /\ t \in Seq(Nat)
    BY <1>4, <2>1
  <2> HIDE DEF t
  <2>3. Tail(<<h>> \o t) = t
    BY <2>2, <1>4, TailOfCons
  <2> QED
    BY <1>11, <2>3 DEF t
<1>14. BytesBetween(s, a, h) = file[h].len /\ BytesBetween(s, h - 1, h) = file[h].len
  BY <1>9, <1>10
<1> QED
  BY <1>3, <1>4, <1>12, <1>13, <1>14 DEF q, FirstOf

-----------------------------------------------------------------------------
(* What is queued                                                           *)

DataType ==
  /\ file \in Files /\ filepos \in Places
  /\ queue \in [Streams -> Seq(1 .. Len(file))] /\ bytes \in [Streams -> Nat]
  /\ current \in [Streams -> Places]
  /\ pts \in [Streams -> Places] /\ pts_bytes \in [Streams -> Nat]
  /\ taken \in [Streams -> Places] /\ flushed \in [Streams -> Places]

PlaceInv == DataType /\ OrderInv /\ QueueExact /\ BytesExact

(* The medium is a sequence of packets.                                     *)
LEMMA FileType ==
  ASSUME DataType
  PROVE  file \in Seq(PacketType) /\ Len(file) \in Nat /\ Places \subseteq Nat
BY DemuxAssumption DEF DataType, Places

(* The greater of two numbers.                                              *)
LEMMA MaxOfTwo ==
  ASSUME NEW a \in Int, NEW b \in Int
  PROVE  Max({a, b}) = IF a >= b THEN a ELSE b
PROOF
<1> DEFINE m == IF a >= b THEN a ELSE b
<1>1. m \in {a, b} /\ \A y \in {a, b} : m >= y
  OBVIOUS
<1>2. \A x \in {a, b} : (\A y \in {a, b} : x >= y) => x = m
  OBVIOUS
<1> HIDE DEF m
<1>3. Max({a, b}) = m
  BY <1>1, <1>2 DEF Max
<1> QED
  BY <1>3 DEF m

(* The properties in the next state, while the medium stays the same.       *)
LEMMA SameFile ==
  ASSUME file' = file
  PROVE  /\ QueueExact' <=> \A s \in Streams :
              /\ queue'[s] = Added(s, taken'[s], filepos')
              /\ current'[s] # None => current'[s] = taken'[s] /\ taken'[s] > flushed'[s]
         /\ BytesExact' <=> \A s \in Streams :
              /\ bytes'[s] = BytesBetween(s, taken'[s], filepos')
              /\ pts_bytes'[s] = BytesBetween(s, Max({pts'[s] - 1, flushed'[s]}), taken'[s])
PROOF
<1>1. QueueExact' <=> \A s \in Streams :
              /\ queue'[s] = Added(s, taken'[s], filepos')
              /\ current'[s] # None => current'[s] = taken'[s] /\ taken'[s] > flushed'[s]
  BY DEF QueueExact, Added, Places, None
<1>2. BytesExact' <=> \A s \in Streams :
              /\ bytes'[s] = BytesBetween(s, taken'[s], filepos')
              /\ pts_bytes'[s] = BytesBetween(s, Max({pts'[s] - 1, flushed'[s]}), taken'[s])
  BY DEF BytesExact, BytesBetween, Places
<1> QED
  BY <1>1, <1>2

(* Where the count since the last pts stamp starts.                         *)
LEMMA StampPlace ==
  ASSUME DataType, OrderInv, NEW s \in Streams
  PROVE  /\ Max({pts[s] - 1, flushed[s]}) \in Places
         /\ Max({pts[s] - 1, flushed[s]}) <= taken[s]
PROOF
<1>1. pts[s] \in Places /\ flushed[s] \in Places /\ taken[s] \in Places
  BY DEF DataType
<1>2. pts[s] <= taken[s] /\ flushed[s] <= taken[s]
  BY DEF OrderInv
<1>3. pts[s] - 1 \in Int /\ flushed[s] \in Int /\ Len(file) \in Nat
  BY <1>1, FileType DEF Places
<1>4. Max({pts[s] - 1, flushed[s]}) = IF pts[s] - 1 >= flushed[s] THEN pts[s] - 1 ELSE flushed[s]
  BY <1>3, MaxOfTwo
<1>5. (IF pts[s] - 1 >= flushed[s] THEN pts[s] - 1 ELSE flushed[s]) \in Places
  BY <1>1, <1>3 DEF Places
<1>6. (IF pts[s] - 1 >= flushed[s] THEN pts[s] - 1 ELSE flushed[s]) <= taken[s]
  BY <1>1, <1>2, <1>3 DEF Places
<1> QED
  BY <1>4, <1>5, <1>6

(* A list of packets is a queue.                                            *)
LEMMA AddedType ==
  ASSUME DataType, NEW s \in Streams, NEW a \in Places, NEW b \in Places, a <= b
  PROVE  Added(s, a, b) \in Seq(1 .. Len(file)) /\ BytesBetween(s, a, b) \in Nat
PROOF
<1> DEFINE q == Added(s, a, b)
<1>1. ListOf(q, s, a, b)
  BY FileType, AddedList
<1>2. BytesBetween(s, a, b) \in Nat
  BY FileType, BytesRec
<1> HIDE DEF q
<1>3. q \in Seq(Nat)
  BY <1>1 DEF ListOf
<1>4. \A i \in 1 .. Len(q) : q[i] \in 1 .. Len(file)
  BY <1>1, FileType DEF ListOf, OnlyOf, Places
<1>5. q \in Seq(1 .. Len(file))
  BY <1>3, <1>4
<1> QED
  BY <1>2, <1>5 DEF q

(* The packet that is taken is the next one of its stream in the medium.    *)
LEMMA TakeFacts ==
  ASSUME PlaceInv, NEW s \in Streams, Packs(s) > 0, NEW p, p = Head(queue[s])
  PROVE  /\ p \in Places /\ p \in 1 .. Len(file) /\ p > taken[s] /\ p <= filepos /\ p > flushed[s]
         /\ file[p].ds = s /\ file[p].len \in Nat /\ file[p].stamped \in BOOLEAN
         /\ Tail(queue[s]) = Added(s, p, filepos)
         /\ bytes[s] - file[p].len = BytesBetween(s, p, filepos)
         /\ pts_bytes[s] + file[p].len =
              BytesBetween(s, Max({pts[s] - 1, flushed[s]}), p)
         /\ Max({p - 1, flushed[s]}) = p - 1 /\ file[p].len = BytesBetween(s, p - 1, p)
PROOF
<1> DEFINE a == taken[s]
           b == filepos
           m == Max({pts[s] - 1, flushed[s]})
<1>1. file \in Seq(PacketType) /\ a \in Places /\ b \in Places /\ a <= b
  BY FileType DEF PlaceInv, DataType, OrderInv
<1>2. queue[s] = Added(s, a, b) /\ bytes[s] = BytesBetween(s, a, b)
      /\ pts_bytes[s] = BytesBetween(s, m, a)
  BY DEF PlaceInv, QueueExact, BytesExact
<1>3. m \in Places /\ m <= a
  BY StampPlace DEF PlaceInv
<1>f. flushed[s] \in Places /\ flushed[s] <= a
  BY DEF PlaceInv, DataType, OrderInv
<1>i. Places \subseteq Nat /\ Len(file) \in Nat
  BY FileType DEF PlaceInv
<1>l. Len(Added(s, a, b)) > 0 /\ p = Head(Added(s, a, b))
  BY <1>2 DEF Packs
<1> HIDE DEF a, b, m
<1>4. /\ p \in Places /\ p > a /\ p <= b /\ file[p].ds = s
      /\ Tail(Added(s, a, b)) = Added(s, p, b)
      /\ BytesBetween(s, a, p) = file[p].len
      /\ BytesBetween(s, p - 1, p) = file[p].len
      /\ BytesBetween(s, a, b) = file[p].len + BytesBetween(s, p, b)
  <2>1. FirstOf(Head(Added(s, a, b)), s, a, b)
    BY <1>1, <1>l, TakeFirst
  <2>2. FirstOf(p, s, a, b)
    BY <2>1, <1>l
  <2> QED
    BY <2>2 DEF FirstOf
<1>5. p \in 1 .. Len(file) /\ p > flushed[s] /\ a <= p /\ p > 0
  BY <1>1, <1>4, <1>f, <1>i DEF Places
<1>6. file[p].len \in Nat /\ file[p].stamped \in BOOLEAN
  BY <1>1, <1>4, <1>5, PacketFacts
<1>7. BytesBetween(s, p, b) \in Nat /\ BytesBetween(s, m, a) \in Nat
  BY <1>1, <1>3, <1>4, BytesRec
<1>8. bytes[s] - file[p].len = BytesBetween(s, p, b)
  BY <1>2, <1>4, <1>6, <1>7
<1>9. BytesBetween(s, m, p) = BytesBetween(s, m, a) + BytesBetween(s, a, p)
  <2>1. ASSUME NEW x \in Places, a <= x
        PROVE  BytesBetween(s, m, x) = BytesBetween(s, m, a) + BytesBetween(s, a, x)
    BY <2>1, <1>1, <1>3, AddedJoin
  <2>2. p \in Places /\ a <= p
    BY <1>4, <1>5
  <2> QED
    BY <2>1, <2>2
<1>10. Max({p - 1, flushed[s]}) = p - 1
  <2>1. ASSUME NEW x \in Nat, NEW y \in Nat, x > y PROVE Max({x - 1, y}) = x - 1
    <3>1. x - 1 \in Int /\ y \in Int /\ x - 1 >= y
      BY <2>1
    <3> QED
      BY <3>1, MaxOfTwo
  <2>2. p \in Nat /\ flushed[s] \in Nat /\ p > flushed[s]
    BY <1>4, <1>5, <1>f, <1>i
  <2> QED
    BY <2>1, <2>2
<1>11. pts_bytes[s] + file[p].len = BytesBetween(s, m, p)
  BY <1>2, <1>4, <1>9
<1> QED
  BY <1>2, <1>4, <1>5, <1>6, <1>8, <1>10, <1>11 DEF a, b, m

(* What the demuxer reads continues the queues.                             *)
LEMMA FillFacts ==
  ASSUME PlaceInv, NEW k \in 1 .. Burst, demux_fill_buffer(k), NEW s \in Streams
  PROVE  /\ filepos' \in Places /\ filepos' > filepos
         /\ queue'[s] = Added(s, taken[s], filepos') /\ queue'[s] \in Seq(1 .. Len(file))
         /\ bytes'[s] = BytesBetween(s, taken[s], filepos') /\ bytes'[s] \in Nat
         /\ Packs(s) <= Len(queue'[s]) /\ Len(queue'[s]) <= Packs(s) + k
         /\ Packs(s) > 0 => Head(queue'[s]) = Head(queue[s])
PROOF
<1> DEFINE a == taken[s]
           b == filepos
           c == filepos + k
           q == Added(s, a, b)
           r == Added(s, b, c)
<1>1. file \in Seq(PacketType) /\ a \in Places /\ b \in Places /\ a <= b
  BY FileType DEF PlaceInv, DataType, OrderInv
<1>2. Places \subseteq Nat /\ Len(file) \in Nat /\ Burst \in Nat /\ k \in Nat /\ k > 0
  BY FileType, DemuxAssumption DEF PlaceInv
<1>3. c \in Places /\ filepos' = c /\ b < c /\ b <= c /\ a <= c /\ c - b = k
  BY <1>1, <1>2 DEF demux_fill_buffer, Places
<1>4. queue[s] = q /\ bytes[s] = BytesBetween(s, a, b)
  BY DEF PlaceInv, QueueExact, BytesExact
<1>5. queue'[s] = queue[s] \o r /\ bytes'[s] = bytes[s] + BytesBetween(s, b, c)
  BY DEF demux_fill_buffer
<1> HIDE DEF a, b, c
<1>6. /\ Added(s, a, c) = q \o r
      /\ BytesBetween(s, a, c) = BytesBetween(s, a, b) + BytesBetween(s, b, c)
  BY <1>1, <1>3, AddedJoin
<1>7. Added(s, a, c) \in Seq(1 .. Len(file)) /\ BytesBetween(s, a, c) \in Nat
  BY <1>1, <1>3, AddedType DEF PlaceInv
<1>8. q \in Seq(Nat) /\ r \in Seq(Nat) /\ Len(r) <= c - b
  <2>1. ListOf(q, s, a, b) /\ ListOf(r, s, b, c)
    BY <1>1, <1>3, AddedList
  <2> QED
    BY <2>1 DEF ListOf
<1> HIDE DEF q, r
<1>9. /\ Len(q \o r) = Len(q) + Len(r) /\ Len(q) \in Nat /\ Len(r) \in Nat
      /\ Len(q) > 0 => Head(q \o r) = Head(q)
  BY <1>8
<1>10. Len(q) <= Len(q \o r) /\ Len(q \o r) <= Len(q) + k
  BY <1>2, <1>3, <1>8, <1>9
<1> QED
  BY <1>3, <1>4, <1>5, <1>6, <1>7, <1>9, <1>10 DEF Packs, a, b

(* A step takes a packet, makes the demuxer read, flushes, or leaves what   *)
(* is queued alone.                                                         *)
Fills == /\ \E k \in 1 .. Burst : demux_fill_buffer(k)
         /\ UNCHANGED <<file, current, pts, pts_bytes, taken, flushed>>

Flushes == \E S \in SUBSET Streams, q \in Places :
             ds_free_packs(S, q) /\ (S = Streams \/ q = filepos)

KeepsQueues == /\ UNCHANGED <<file, filepos, queue, bytes, pts, pts_bytes, taken, flushed>>
               /\ current' \in [Streams -> Places]
               /\ \A s \in Streams : current'[s] = current[s] \/ current'[s] = None

(* Taking a packet keeps places, lists and sums.                            *)
LEMMA PlaceTake ==
  ASSUME PlaceInv, NEW s \in Streams, NEW n, TakePacket(s, n)
  PROVE  PlaceInv'
PROOF
<1> DEFINE p == Head(queue[s])
<1>1. /\ Packs(s) > 0 /\ file' = file /\ filepos' = filepos /\ flushed' = flushed
      /\ pts' = [pts EXCEPT ![s] = IF file[p].stamped THEN p ELSE @]
      /\ pts_bytes' = [pts_bytes EXCEPT ![s] = (IF file[p].stamped THEN 0 ELSE @) + file[p].len]
      /\ bytes' = [bytes EXCEPT ![s] = @ - file[p].len]
      /\ current' = [current EXCEPT ![s] = p]
      /\ queue' = [queue EXCEPT ![s] = Tail(@)]
      /\ taken' = [taken EXCEPT ![s] = p]
  BY DEF TakePacket
<1>2. /\ p \in Places /\ p \in 1 .. Len(file) /\ p > taken[s] /\ p <= filepos /\ p > flushed[s]
      /\ file[p].ds = s /\ file[p].len \in Nat /\ file[p].stamped \in BOOLEAN
      /\ Tail(queue[s]) = Added(s, p, filepos)
      /\ bytes[s] - file[p].len = BytesBetween(s, p, filepos)
      /\ pts_bytes[s] + file[p].len = BytesBetween(s, Max({pts[s] - 1, flushed[s]}), p)
      /\ Max({p - 1, flushed[s]}) = p - 1 /\ file[p].len = BytesBetween(s, p - 1, p)
  BY <1>1, TakeFacts
<1> HIDE DEF p
<1>3. DataType /\ OrderInv /\ QueueExact /\ BytesExact
  BY DEF PlaceInv
<1>4. Places' = Places /\ Places \subseteq Nat /\ Len(file) \in Nat
  BY <1>1, <1>3, FileType DEF Places
<1>5. Added(s, p, filepos) \in Seq(1 .. Len(file)) /\ BytesBetween(s, p, filepos) \in Nat
  <2>1. filepos \in Places
    BY <1>3 DEF DataType
  <2> QED
    BY <2>1, <1>2, <1>3, AddedType
<1>6. /\ queue' \in [Streams -> Seq(1 .. Len(file))] /\ queue'[s] = Added(s, p, filepos)
      /\ \A t \in Streams \ {s} : queue'[t] = queue[t]
  BY <1>1, <1>2, <1>3, <1>5 DEF DataType
<1>7. /\ bytes' \in [Streams -> Nat] /\ bytes'[s] = BytesBetween(s, p, filepos)
      /\ \A t \in Streams \ {s} : bytes'[t] = bytes[t]
  BY <1>1, <1>2, <1>3, <1>5 DEF DataType
<1>8. /\ taken' \in [Streams -> Places] /\ taken'[s] = p
      /\ current' \in [Streams -> Places] /\ current'[s] = p
      /\ \A t \in Streams \ {s} : taken'[t] = taken[t] /\ current'[t] = current[t]
  BY <1>1, <1>2, <1>3 DEF DataType
<1>9. /\ pts' \in [Streams -> Places] /\ pts'[s] \in {p, pts[s]}
      /\ pts'[s] = IF file[p].stamped THEN p ELSE pts[s]
      /\ \A t \in Streams \ {s} : pts'[t] = pts[t]
  <2>1. (IF file[p].stamped THEN p ELSE pts[s]) \in Places
    BY <1>2, <1>3 DEF DataType
  <2> QED
    BY <2>1, <1>1, <1>3 DEF DataType
<1>10. /\ pts_bytes' \in [Streams -> Nat]
       /\ pts_bytes'[s] = (IF file[p].stamped THEN 0 ELSE pts_bytes[s]) + file[p].len
       /\ \A t \in Streams \ {s} : pts_bytes'[t] = pts_bytes[t]
  <2>1. pts_bytes[s] \in Nat /\ pts_bytes \in [Streams -> Nat]
    BY <1>3 DEF DataType
  <2>2. (IF file[p].stamped THEN 0 ELSE pts_bytes[s]) + file[p].len \in Nat
    BY <1>2, <2>1
  <2> QED
    BY <2>1, <2>2, <1>1
<1>11. DataType'
  BY <1>1, <1>3, <1>4, <1>6, <1>7, <1>8, <1>9, <1>10 DEF DataType
<1>12. OrderInv'
  <2> SUFFICES ASSUME NEW t \in Streams
               PROVE  flushed[t] <= taken'[t] /\ taken'[t] <= filepos /\ pts'[t] <= taken'[t]
    BY <1>1 DEF OrderInv
  <2>1. CASE t # s
    BY <2>1, <1>3, <1>8, <1>9 DEF OrderInv
  <2>2. CASE t = s
    <3>1. pts[s] <= taken[s] /\ flushed[s] <= taken[s] /\ pts[s] \in Nat /\ taken[s] \in Nat
          /\ flushed[s] \in Nat /\ p \in Nat
      BY <1>2, <1>3, <1>4 DEF OrderInv, DataType
    <3> QED
      BY <2>2, <3>1, <1>2, <1>8, <1>9
  <2> QED
    BY <2>1, <2>2
<1>13. QueueExact'
  <2> SUFFICES ASSUME NEW t \in Streams
               PROVE  /\ queue'[t] = Added(t, taken'[t], filepos)
                      /\ current'[t] # None => current'[t] = taken'[t] /\ taken'[t] > flushed[t]
    BY <1>1, SameFile
  <2>1. CASE t # s
    BY <2>1, <1>3, <1>6, <1>8 DEF QueueExact
  <2>2. CASE t = s
    BY <2>2, <1>2, <1>6, <1>8
  <2> QED
    BY <2>1, <2>2
<1>14. BytesExact'
  <2> SUFFICES ASSUME NEW t \in Streams
               PROVE  /\ bytes'[t] = BytesBetween(t, taken'[t], filepos)
                      /\ pts_bytes'[t] =
                           BytesBetween(t, Max({pts'[t] - 1, flushed[t]}), taken'[t])
    BY <1>1, SameFile
  <2>1. CASE t # s
    BY <2>1, <1>3, <1>7, <1>8, <1>9, <1>10 DEF BytesExact
  <2>2. CASE t = s
    <3>1. CASE file[p].stamped
      <4>1. pts_bytes'[s] = file[p].len /\ pts'[s] = p
        BY <3>1, <1>2, <1>9, <1>10
      <4> QED
        BY <2>2, <4>1, <1>2, <1>7, <1>8
    <3>2. CASE ~file[p].stamped
      <4>1. pts_bytes'[s] = pts_bytes[s] + file[p].len /\ pts'[s] = pts[s]
        BY <3>2, <1>2, <1>9, <1>10
      <4> QED
        BY <2>2, <4>1, <1>2, <1>7, <1>8
    <3> QED
      BY <3>1, <3>2
  <2> QED
    BY <2>1, <2>2
<1> QED
  BY <1>11, <1>12, <1>13, <1>14 DEF PlaceInv

(* So does reading on,                                                      *)
LEMMA PlaceFill ==
  ASSUME PlaceInv, Fills
  PROVE  PlaceInv'
PROOF
<1>1. PICK k \in 1 .. Burst : demux_fill_buffer(k)
  BY DEF Fills
<1>2. UNCHANGED <<file, current, pts, pts_bytes, taken, flushed>>
  BY DEF Fills
<1>3. DataType /\ OrderInv /\ QueueExact /\ BytesExact
  BY DEF PlaceInv
<1>4. ASSUME NEW s \in Streams
      PROVE  /\ filepos' \in Places /\ filepos' > filepos
             /\ queue'[s] = Added(s, taken[s], filepos') /\ queue'[s] \in Seq(1 .. Len(file))
             /\ bytes'[s] = BytesBetween(s, taken[s], filepos') /\ bytes'[s] \in Nat
  BY <1>1, FillFacts
<1>5. "audio" \in Streams
  BY DEF Streams, AV
<1>6. filepos' \in Places /\ filepos' > filepos
  BY <1>4, <1>5
<1>7. queue' \in [Streams -> Seq(1 .. Len(file))] /\ bytes' \in [Streams -> Nat]
  <2>1. /\ queue' = [s \in Streams |-> queue[s] \o Added(s, filepos, filepos + k)]
        /\ bytes' = [s \in Streams |-> bytes[s] + BytesBetween(s, filepos, filepos + k)]
    BY <1>1 DEF demux_fill_buffer
  <2>2. ASSUME NEW s \in Streams
        PROVE  /\ queue[s] \o Added(s, filepos, filepos + k) \in Seq(1 .. Len(file))
               /\ bytes[s] + BytesBetween(s, filepos, filepos + k) \in Nat
    BY <2>1, <1>4
  <2> QED
    BY <2>1, <2>2
<1>8. Places' = Places /\ Places \subseteq Nat
  BY <1>2, <1>3, FileType DEF Places
<1>9. DataType'
  BY <1>2, <1>3, <1>6, <1>7, <1>8 DEF DataType
<1>10. OrderInv'
  <2> SUFFICES ASSUME NEW s \in Streams
               PROVE  flushed[s] <= taken[s] /\ taken[s] <= filepos' /\ pts[s] <= taken[s]
    BY <1>2 DEF OrderInv
  <2>1. taken[s] \in Nat /\ filepos \in Nat /\ filepos' \in Nat
    BY <1>3, <1>6, <1>8 DEF DataType
  <2>2. flushed[s] <= taken[s] /\ taken[s] <= filepos /\ pts[s] <= taken[s]
    BY <1>3 DEF OrderInv
  <2> QED
    BY <2>1, <2>2, <1>6
<1>11. QueueExact'
  BY <1>2, <1>3, <1>4, SameFile DEF QueueExact
<1>12. BytesExact'
  BY <1>2, <1>3, <1>4, SameFile DEF BytesExact
<1> QED
  BY <1>9, <1>10, <1>11, <1>12 DEF PlaceInv

(* a flush,                                                                 *)
LEMMA PlaceFlush ==
  ASSUME PlaceInv, Flushes
  PROVE  PlaceInv'
PROOF
<1>1. PICK S \in SUBSET Streams, q \in Places :
        ds_free_packs(S, q) /\ (S = Streams \/ q = filepos)
  BY DEF Flushes
<1>2. /\ file' = file /\ filepos' = q
      /\ queue' = [s \in Streams |-> IF s \in S THEN <<>> ELSE queue[s]]
      /\ bytes' = [s \in Streams |-> IF s \in S THEN 0 ELSE bytes[s]]
      /\ current' = [s \in Streams |-> IF s \in S THEN None ELSE current[s]]
      /\ pts' = [s \in Streams |-> IF s \in S THEN None ELSE pts[s]]
      /\ pts_bytes' = [s \in Streams |-> IF s \in S THEN 0 ELSE pts_bytes[s]]
      /\ taken' = [s \in Streams |-> IF s \in S THEN q ELSE taken[s]]
      /\ flushed' = [s \in Streams |-> IF s \in S THEN q ELSE flushed[s]]
  BY <1>1 DEF ds_free_packs
<1>3. DataType /\ OrderInv /\ QueueExact /\ BytesExact
  BY DEF PlaceInv
<1>4. Places' = Places /\ Places \subseteq Nat /\ Len(file) \in Nat /\ file \in Seq(PacketType)
  BY <1>2, <1>3, FileType DEF Places
<1>5. None \in Places /\ q \in Nat
  BY <1>4 DEF Places, None
<1>6. ASSUME NEW s \in Streams
      PROVE  /\ queue[s] \in Seq(1 .. Len(file)) /\ <<>> \in Seq(1 .. Len(file))
             /\ bytes[s] \in Nat /\ pts_bytes[s] \in Nat /\ current[s] \in Places
             /\ pts[s] \in Places /\ taken[s] \in Places /\ flushed[s] \in Places
  BY <1>3 DEF DataType
<1>7. DataType'
  <2>1. queue' \in [Streams -> Seq(1 .. Len(file))]
    BY <1>2, <1>6
  <2>2. bytes' \in [Streams -> Nat] /\ pts_bytes' \in [Streams -> Nat]
    BY <1>2, <1>6
  <2>3. current' \in [Streams -> Places] /\ pts' \in [Streams -> Places]
    BY <1>2, <1>5, <1>6
  <2>4. taken' \in [Streams -> Places] /\ flushed' \in [Streams -> Places]
    BY <1>2, <1>6
  <2> QED
    BY <2>1, <2>2, <2>3, <2>4, <1>2, <1>3, <1>4 DEF DataType
<1>8. OrderInv'
  <2> SUFFICES ASSUME NEW s \in Streams
               PROVE  flushed'[s] <= taken'[s] /\ taken'[s] <= q /\ pts'[s] <= taken'[s]
    BY <1>2 DEF OrderInv
  <2>1. CASE s \in S
    <3>1. flushed'[s] = q /\ taken'[s] = q /\ pts'[s] = 0
      BY <2>1, <1>2 DEF None
    <3> QED
      BY <3>1, <1>5
  <2>2. CASE s \notin S
    BY <2>2, <1>1, <1>2, <1>3 DEF OrderInv
  <2> QED
    BY <2>1, <2>2
<1>9. ASSUME NEW s \in Streams, s \in S
      PROVE  /\ Added(s, q, q) = <<>> /\ BytesBetween(s, q, q) = 0
             /\ Max({None - 1, q}) = q
  <2>1. q <= q /\ None - 1 \in Int /\ q \in Int /\ ~(None - 1 >= q)
    BY <1>5 DEF None
  <2> QED
    BY <2>1, <1>4, AddedRec, BytesRec, MaxOfTwo
<1>10. QueueExact'
  <2> SUFFICES ASSUME NEW s \in Streams
               PROVE  /\ queue'[s] = Added(s, taken'[s], q)
                      /\ current'[s] # None => current'[s] = taken'[s] /\ taken'[s] > flushed'[s]
    BY <1>2, SameFile
  <2>1. CASE s \in S
    <3>1. queue'[s] = <<>> /\ taken'[s] = q /\ current'[s] = None
      BY <2>1, <1>2
    <3> QED
      BY <3>1, <2>1, <1>9
  <2>2. CASE s \notin S
    <3>1. /\ queue'[s] = queue[s] /\ taken'[s] = taken[s] /\ current'[s] = current[s]
          /\ flushed'[s] = flushed[s] /\ q = filepos
      BY <2>2, <1>1, <1>2
    <3> QED
      BY <3>1, <1>3 DEF QueueExact
  <2> QED
    BY <2>1, <2>2
<1>11. BytesExact'
  <2> SUFFICES ASSUME NEW s \in Streams
               PROVE  /\ bytes'[s] = BytesBetween(s, taken'[s], q)
                      /\ pts_bytes'[s] =
                           BytesBetween(s, Max({pts'[s] - 1, flushed'[s]}), taken'[s])
    BY <1>2, SameFile
  <2>1. CASE s \in S
    <3>1. bytes'[s] = 0 /\ pts_bytes'[s] = 0 /\ taken'[s] = q /\ flushed'[s] = q /\ pts'[s] = None
      BY <2>1, <1>2
    <3> QED
      BY <3>1, <2>1, <1>9
  <2>2. CASE s \notin S
    <3>1. /\ bytes'[s] = bytes[s] /\ pts_bytes'[s] = pts_bytes[s] /\ taken'[s] = taken[s]
          /\ flushed'[s] = flushed[s] /\ pts'[s] = pts[s] /\ q = filepos
      BY <2>2, <1>1, <1>2
    <3> QED
      BY <3>1, <1>3 DEF BytesExact
  <2> QED
    BY <2>1, <2>2
<1> QED
  BY <1>7, <1>8, <1>10, <1>11 DEF PlaceInv

(* and a step that at most lets go of a packet in hand.                     *)
LEMMA PlaceKeep ==
  ASSUME PlaceInv, KeepsQueues
  PROVE  PlaceInv'
PROOF
<1>1. UNCHANGED <<file, filepos, queue, bytes, pts, pts_bytes, taken, flushed>>
  BY DEF KeepsQueues
<1>2. DataType /\ OrderInv /\ QueueExact /\ BytesExact
  BY DEF PlaceInv
<1>3. DataType'
  BY <1>1, <1>2 DEF DataType, KeepsQueues, Places
<1>4. OrderInv'
  BY <1>1, <1>2 DEF OrderInv
<1>5. QueueExact'
  BY <1>1, <1>2, SameFile DEF QueueExact, KeepsQueues
<1>6. BytesExact'
  BY <1>1, <1>2, SameFile DEF BytesExact
<1> QED
  BY <1>3, <1>4, <1>5, <1>6 DEF PlaceInv

-----------------------------------------------------------------------------
(* The other fields, and the steps by what they do to them                  *)

RestType ==
  /\ buffer_pos \in [Streams -> Nat] /\ buffer_size \in [Streams -> Nat]
  /\ eof \in [Streams -> BOOLEAN] /\ fill_count \in [Streams -> Int]
  /\ call \in {"idle", "ds_get_next_pts"} \cup Calls /\ on \in AV /\ want \in Nat
  /\ next_pts \in [Streams -> -2 .. Len(file)]
  /\ seeks \in 0 .. MaxSeeks /\ lastseek \in Seeks \cup {"none"}

StateInv == PlaceInv /\ RestType /\ CurrentInv

(* A step leaves stream t alone.                                            *)
SameStream(t) ==
  /\ queue'[t] = queue[t] /\ current'[t] = current[t] /\ next_pts'[t] = next_pts[t]
  /\ buffer_pos'[t] = buffer_pos[t] /\ buffer_size'[t] = buffer_size[t]
  /\ eof'[t] = eof[t] /\ fill_count'[t] = fill_count[t]

(* The two streams that are played are among the three.                     *)
LEMMA StreamNames ==
  /\ "audio" \in AV /\ "video" \in AV /\ "sub" \in Streams /\ "sub" \notin AV
  /\ AV \subseteq Streams /\ \A t \in AV : t = "audio" \/ t = "video"
  /\ "idle" \notin Calls /\ "ds_get_next_pts" \notin Calls
BY DEF AV, Streams, Calls

(* A decoder's call begins with one of the four functions.                  *)
LEMMA CallCases ==
  ASSUME NEW s \in AV, Call(s)
  PROVE  \E c \in Calls, n \in Nat : Begin(c, s, n)
PROOF
<1>1. 0 \in Nat /\ ReadSizes \subseteq Nat
  BY DemuxAssumption
<1>2. {"ds_get_packet", "ds_fill_buffer", "demux_read_data", "demux_pattern_3"} \subseteq Calls
  BY DEF Calls
<1> QED
  BY <1>1, <1>2 DEF Call

(* The call that takes a packet returns or reads on in it.                  *)
LEMMA FilledCases ==
  ASSUME StateInv, Filled
  PROVE  /\ call \in Calls /\ current[on] = None /\ next_pts' = next_pts
         /\ on' = on /\ want' \in Nat /\ (call' = call \/ call' = "idle")
         /\ \E n \in Nat : TakePacket(on, n) /\ n <= file[Head(queue[on])].len
PROOF
<1>1. /\ call \in Calls /\ current[on] = None /\ next_pts' = next_pts
      /\ on' = on /\ want' \in Nat /\ (call' = call \/ call' = "idle")
  BY DEF Filled, Return, Stay, StateInv, RestType
<1>2. Packs(on) > 0
  BY DEF Filled, TakePacket
<1>3. on \in Streams
  BY StreamNames DEF StateInv, RestType
<1>4. file[Head(queue[on])].len \in Nat
  BY <1>2, <1>3, TakeFacts DEF StateInv
<1>5. 0 \in Nat /\ 0 <= file[Head(queue[on])].len
      /\ file[Head(queue[on])].len <= file[Head(queue[on])].len
  BY <1>4
<1>6. TakePacket(on, 0) \/ TakePacket(on, file[Head(queue[on])].len)
  BY DEF Filled
<1> QED
  BY <1>1, <1>4, <1>5, <1>6

(* What every seek and every switch has in common.                          *)
Seeked ==
  /\ call = "idle" /\ UNCHANGED <<call, on, want>>
  /\ \E S \in SUBSET Streams, q \in Places :
       /\ ds_free_packs(S, q) /\ (S = Streams \/ q = filepos)
       /\ eof' = eof \/ eof' = [s \in Streams |-> FALSE]
       /\ Resync \/ fill_count' = fill_count
       /\ Resync \/ eof' = eof
  /\ seeks' \in 0 .. MaxSeeks /\ lastseek' \in Seeks
  /\ lastseek' \in {"none", "seek"} => eof' = [s \in Streams |-> FALSE]

(* The four kinds of seeks do.                                              *)
LEMMA SeekCases ==
  ASSUME StateInv, demux_seek \/ demuxer_seek_chapter \/ demuxer_set_angle \/ SwitchTrack
  PROVE  Seeked
PROOF
<1>1. ASSUME NEW kind, Seeking(kind)
      PROVE  call = "idle" /\ seeks' \in 0 .. MaxSeeks /\ lastseek' = kind /\ kind \in Seeks
  BY <1>1, DemuxAssumption DEF Seeking, StateInv, RestType
<1>2. Streams \in SUBSET Streams /\ filepos \in Places /\ \A s \in Streams : {s} \in SUBSET Streams
  BY DEF StateInv, PlaceInv, DataType
<1>3. ASSUME NEW S, NEW q, ds_free_packs(S, q) PROVE UNCHANGED <<call, on, want>>
  BY <1>3 DEF ds_free_packs
<1>4. CASE demux_seek
  BY <1>1, <1>2, <1>3, <1>4 DEF demux_seek, Seeked
<1>5. CASE demuxer_seek_chapter
  <2>1. lastseek' = "chapter" /\ "chapter" \in Seeks
    BY <1>1, <1>5 DEF demuxer_seek_chapter
  <2> QED
    BY <2>1, <1>1, <1>2, <1>3, <1>5 DEF demuxer_seek_chapter, Seeked
<1>6. CASE demuxer_set_angle
  <2>1. lastseek' = "angle" /\ "angle" \in Seeks
    BY <1>1, <1>6 DEF demuxer_set_angle
  <2> QED
    BY <2>1, <1>1, <1>2, <1>3, <1>6 DEF demuxer_set_angle, Seeked
<1>7. CASE SwitchTrack
  <2>1. lastseek' = "switch" /\ "switch" \in Seeks
    BY <1>1, <1>7 DEF SwitchTrack
  <2> QED
    BY <2>1, <1>1, <1>2, <1>3, <1>7 DEF SwitchTrack, Seeked
<1> QED
  BY <1>4, <1>5, <1>6, <1>7

(* Getting a subtitle reads the packet in hand or takes the next one.       *)
ReadsSub ==
  /\ Unread("sub") > 0
  /\ buffer_pos' = [buffer_pos EXCEPT !["sub"] = @] \/
     buffer_pos' = [buffer_pos EXCEPT !["sub"] = buffer_size["sub"]]
  /\ UNCHANGED <<file, filepos, queue, bytes, current, buffer_size, eof, fill_count,
                 pts, pts_bytes, taken, flushed, seekVars>>

(* GetSub is one or the other.                                              *)
LEMMA SubCases ==
  ASSUME StateInv, GetSub
  PROVE  /\ call = "idle" /\ UNCHANGED <<call, on, want, next_pts>>
         /\ \/ ReadsSub
            \/ \E n \in Nat : TakePacket("sub", n) /\ n <= file[Head(queue["sub"])].len
PROOF
<1>1. call = "idle" /\ UNCHANGED <<call, on, want, next_pts>>
  BY DEF GetSub
<1>2. ASSUME Packs("sub") > 0 PROVE file[Head(queue["sub"])].len \in Nat
  BY <1>2, StreamNames, TakeFacts DEF StateInv
<1>3. PICK early \in BOOLEAN :
       \/ /\ Unread("sub") > 0
          /\ buffer_pos' = [buffer_pos EXCEPT !["sub"] = IF early THEN @ ELSE buffer_size["sub"]]
          /\ UNCHANGED <<file, filepos, queue, bytes, current, buffer_size, eof, fill_count,
                         pts, pts_bytes, taken, flushed, seekVars>>
       \/ /\ Packs("sub") > 0
          /\ TakePacket("sub", IF early THEN 0 ELSE file[Head(queue["sub"])].len)
  BY DEF GetSub
<1>4. ASSUME NEW m \in Nat
      PROVE  (IF early THEN 0 ELSE m) \in Nat /\ (IF early THEN 0 ELSE m) <= m
  OBVIOUS
<1> QED
  BY <1>1, <1>2, <1>3, <1>4 DEF ReadsSub

(* Every step is one of these.                                              *)
LEMMA StepCases ==
  ASSUME StateInv, Next
  PROVE  \/ ReadOn \/ Filled \/ NotFilled \/ GetRest \/ CopyBytes \/ Refill
         \/ NextPtsReadOn \/ NextPtsDone \/ GetSub \/ BeginNextPts \/ Seeked
         \/ \E c \in Calls, s \in AV, n \in Nat : Begin(c, s, n)
PROOF
<1>1. ASSUME NEW s \in AV, Call(s) PROVE \E c \in Calls, n \in Nat : Begin(c, s, n)
  BY <1>1, CallCases
<1>2. ASSUME demux_seek \/ demuxer_seek_chapter \/ demuxer_set_angle \/ SwitchTrack
      PROVE  Seeked
  BY <1>2, SeekCases
<1> QED
  BY <1>1, <1>2 DEF Next, Step

(* The effect of taking a packet on the fields that are read with it.       *)
LEMMA TakeEffect ==
  ASSUME StateInv, NEW s \in Streams, NEW n \in Nat, TakePacket(s, n)
  PROVE  /\ file' = file /\ UNCHANGED <<filepos, seeks, lastseek>>
         /\ eof' \in [Streams -> BOOLEAN] /\ eof'[s] = FALSE
         /\ fill_count' \in [Streams -> Int] /\ fill_count'[s] = 0
         /\ buffer_pos' \in [Streams -> Nat] /\ buffer_pos'[s] = n
         /\ buffer_size' \in [Streams -> Nat]
         /\ buffer_size'[s] = file[current'[s]].len /\ current'[s] # None
         /\ Packs(s) > 0 /\ queue'[s] = Tail(queue[s]) /\ Len(queue'[s]) < Packs(s)
         /\ current'[s] = Head(queue[s])
         /\ next_pts' = next_pts => \A t \in Streams \ {s} : SameStream(t)
PROOF
<1> DEFINE p == Head(queue[s])
<1>1. /\ Packs(s) > 0 /\ file' = file /\ UNCHANGED <<filepos, seeks, lastseek>>
      /\ eof' = [eof EXCEPT ![s] = FALSE] /\ fill_count' = [fill_count EXCEPT ![s] = 0]
      /\ buffer_pos' = [buffer_pos EXCEPT ![s] = n]
      /\ buffer_size' = [buffer_size EXCEPT ![s] = file[p].len]
      /\ current' = [current EXCEPT ![s] = p]
      /\ queue' = [queue EXCEPT ![s] = Tail(@)]
  BY DEF TakePacket, seekVars
<1>2. p \in 1 .. Len(file) /\ file[p].len \in Nat
  BY <1>1, TakeFacts DEF StateInv
<1> HIDE DEF p
<1>3. RestType /\ DataType
  BY DEF StateInv, PlaceInv
<1>4. /\ queue \in [Streams -> Seq(1 .. Len(file))] /\ current \in [Streams -> Places]
      /\ Len(file) \in Nat
  BY <1>3, FileType DEF DataType
<1>5. queue[s] \in Seq(1 .. Len(file)) /\ queue'[s] = Tail(queue[s]) /\ Len(queue[s]) > 0
  BY <1>1, <1>4 DEF Packs
<1>6. Len(queue'[s]) < Packs(s)
  <2>1. ASSUME NEW S, NEW q \in Seq(S), Len(q) > 0 PROVE Len(Tail(q)) < Len(q)
    BY <2>1
  <2> QED
    BY <2>1, <1>5 DEF Packs
<1>7. current'[s] = p /\ p # None
  BY <1>1, <1>2, <1>4 DEF None
<1>8. /\ eof' \in [Streams -> BOOLEAN] /\ eof'[s] = FALSE
      /\ \A t \in Streams \ {s} : eof'[t] = eof[t]
  BY <1>1, <1>3 DEF RestType
<1>9. /\ fill_count' \in [Streams -> Int] /\ fill_count'[s] = 0
      /\ \A t \in Streams \ {s} : fill_count'[t] = fill_count[t]
  BY <1>1, <1>3 DEF RestType
<1>10. /\ buffer_pos' \in [Streams -> Nat] /\ buffer_pos'[s] = n
       /\ \A t \in Streams \ {s} : buffer_pos'[t] = buffer_pos[t]
  BY <1>1, <1>3 DEF RestType
<1>11. /\ buffer_size' \in [Streams -> Nat] /\ buffer_size'[s] = file[p].len
       /\ \A t \in Streams \ {s} : buffer_size'[t] = buffer_size[t]
  BY <1>1, <1>2, <1>3 DEF RestType
<1>12. \A t \in Streams \ {s} : current'[t] = current[t] /\ queue'[t] = queue[t]
  BY <1>1, <1>4
<1>13. ASSUME next_pts' = next_pts, NEW t \in Streams \ {s} PROVE SameStream(t)
  BY <1>8, <1>9, <1>10, <1>11, <1>12, <1>13 DEF SameStream
<1> QED
  BY <1>1, <1>5, <1>6, <1>7, <1>8, <1>9, <1>10, <1>11, <1>13 DEF p

(* The less of two numbers.                                                 *)
LEMMA MinOfTwo ==
  ASSUME NEW a \in Int, NEW b \in Int
  PROVE  Min({a, b}) = IF a <= b THEN a ELSE b
PROOF
<1> DEFINE m == IF a <= b THEN a ELSE b
<1>1. m \in {a, b} /\ \A y \in {a, b} : m <= y
  OBVIOUS
<1>2. \A x \in {a, b} : (\A y \in {a, b} : x <= y) => x = m
  OBVIOUS
<1> HIDE DEF m
<1>3. Min({a, b}) = m
  BY <1>1, <1>2 DEF Min
<1> QED
  BY <1>3 DEF m

(* Reading stays within the packet in hand.                                 *)
LEMMA CopyEffect ==
  ASSUME StateInv, CopyBytes
  PROVE  /\ buffer_pos' \in [Streams -> Nat] /\ buffer_pos'[on] <= buffer_size[on]
         /\ \A t \in Streams \ {on} : buffer_pos'[t] = buffer_pos[t]
         /\ want' \in Nat /\ on' = on /\ (call' = call \/ call' = "idle")
         /\ current[on] # None
PROOF
<1> DEFINE most == Min({Unread(on), want})
<1>1. PICK x \in IF call = "demux_read_data" THEN {most} ELSE 1 .. most :
         /\ buffer_pos' = [buffer_pos EXCEPT ![on] = @ + x]
         /\ \/ Return
            \/ want > x /\ Stay(want - x)
  BY DEF CopyBytes
<1>2. /\ on \in Streams /\ want \in Nat /\ buffer_pos \in [Streams -> Nat]
      /\ buffer_size \in [Streams -> Nat]
  BY StreamNames DEF StateInv, RestType
<1>3. buffer_pos[on] \in Nat /\ buffer_size[on] \in Nat /\ Unread(on) \in Int /\ Unread(on) > 0
  BY <1>2 DEF CopyBytes, Unread
<1>4. most = IF Unread(on) <= want THEN Unread(on) ELSE want
  BY <1>2, <1>3, MinOfTwo
<1> HIDE DEF most
<1>5. most \in Nat /\ most <= Unread(on)
  BY <1>2, <1>3, <1>4
<1>6. x \in Nat /\ x <= Unread(on)
  BY <1>1, <1>3, <1>5
<1>7. buffer_pos[on] + x \in Nat /\ buffer_pos[on] + x <= buffer_size[on]
  BY <1>3, <1>6 DEF Unread
<1>8. want' \in Nat /\ on' = on /\ (call' = call \/ call' = "idle")
  BY <1>1, <1>2, <1>6 DEF Return, Stay
<1>9. current[on] # None
  BY <1>2, <1>3 DEF StateInv, CurrentInv, CopyBytes
<1> QED
  BY <1>1, <1>2, <1>7, <1>8, <1>9

(* Every step keeps the places, lists and sums.                             *)
LEMMA PlaceStep ==
  ASSUME StateInv, [Next]_vars
  PROVE  PlaceInv'
PROOF
<1>1. PlaceInv /\ DataType /\ current \in [Streams -> Places] /\ on \in Streams
  BY StreamNames DEF StateInv, PlaceInv, DataType, RestType
<1>2. None \in Places
  BY <1>1, FileType DEF Places, None
<1>3. CASE UNCHANGED vars
  <2>1. KeepsQueues
    BY <1>1, <1>3 DEF vars, KeepsQueues
  <2> QED
    BY <2>1, <1>1, PlaceKeep
<1>4. CASE ReadOn \/ NextPtsReadOn
  <2>1. Fills
    BY <1>4 DEF ReadOn, NextPtsReadOn, Fills, histVars
  <2> QED
    BY <2>1, <1>1, PlaceFill
<1>5. CASE Filled
  <2>1. PICK n \in Nat : TakePacket(on, n)
    BY <1>5, FilledCases
  <2> QED
    BY <2>1, <1>1, PlaceTake
<1>6. CASE NotFilled \/ GetRest \/ CopyBytes \/ NextPtsDone \/ BeginNextPts
  <2>1. KeepsQueues
    BY <1>1, <1>6 DEF NotFilled, NoPacket, GetRest, CopyBytes, NextPtsDone, BeginNextPts,
      KeepsQueues, packVars, histVars
  <2> QED
    BY <2>1, <1>1, PlaceKeep
<1>7. CASE Refill
  <2>1. KeepsQueues
    BY <1>1, <1>2, <1>7 DEF Refill, KeepsQueues, histVars
  <2> QED
    BY <2>1, <1>1, PlaceKeep
<1>8. CASE GetSub
  <2>1. ReadsSub \/ \E n \in Nat : TakePacket("sub", n)
    BY <1>8, SubCases
  <2>2. CASE ReadsSub
    <3>1. KeepsQueues
      BY <2>2, <1>1 DEF ReadsSub, KeepsQueues
    <3> QED
      BY <3>1, <1>1, PlaceKeep
  <2>3. ASSUME NEW n \in Nat, TakePacket("sub", n) PROVE PlaceInv'
    BY <2>3, <1>1, PlaceTake, StreamNames
  <2> QED
    BY <2>1, <2>2, <2>3
<1>9. CASE Seeked
  <2>1. Flushes
    BY <1>9 DEF Seeked, Flushes
  <2> QED
    BY <2>1, <1>1, PlaceFlush
<1>10. ASSUME NEW c \in Calls, NEW s \in AV, NEW n \in Nat, Begin(c, s, n) PROVE PlaceInv'
  <2>1. KeepsQueues
    BY <1>1, <1>2, <1>10 DEF Begin, KeepsQueues
  <2> QED
    BY <2>1, <1>1, PlaceKeep
<1> QED
  BY <1>3, <1>4, <1>5, <1>6, <1>7, <1>8, <1>9, <1>10, StepCases

(* No step changes the medium.                                              *)
LEMMA FileKept ==
  ASSUME StateInv, [Next]_vars
  PROVE  file' = file
PROOF
<1>1. CASE UNCHANGED vars
  BY <1>1 DEF vars
<1>2. CASE Next
  <2>1. ASSUME NEW c, NEW s, NEW n, Begin(c, s, n) PROVE file' = file
    BY <2>1 DEF Begin
  <2>2. CASE Filled
    BY <2>2 DEF Filled, TakePacket
  <2>3. CASE GetSub
    BY <2>3, SubCases DEF ReadsSub, TakePacket
  <2>4. CASE Seeked
    BY <2>4 DEF Seeked, ds_free_packs
  <2>5. CASE ReadOn \/ NotFilled \/ GetRest \/ CopyBytes \/ Refill \/ NextPtsReadOn
             \/ NextPtsDone \/ BeginNextPts
    BY <2>5 DEF ReadOn, NotFilled, NoPacket, GetRest, CopyBytes, Refill, NextPtsReadOn,
      NextPtsDone, BeginNextPts
  <2> QED
    BY <1>2, <2>1, <2>2, <2>3, <2>4, <2>5, StepCases
<1> QED
  BY <1>1, <1>2

(* What a flush does to the streams that it is for, and to the others.      *)
LEMMA FlushEffect ==
  ASSUME StateInv, NEW S \in SUBSET Streams, NEW q \in Places, ds_free_packs(S, q),
         eof' = eof \/ eof' = [s \in Streams |-> FALSE], Resync \/ fill_count' = fill_count
  PROVE  /\ eof' \in [Streams -> BOOLEAN] /\ fill_count' \in [Streams -> Int]
         /\ \A t \in AV : fill_count'[t] = fill_count[t] \/ fill_count'[t] = -FillMax
         /\ Resync => \A t \in AV : fill_count'[t] = -FillMax
         /\ buffer_pos' \in [Streams -> Nat] /\ buffer_size' = buffer_size
         /\ next_pts' \in [Streams -> -2 .. Len(file)]
         /\ \A t \in S : /\ queue'[t] = <<>> /\ current'[t] = None /\ next_pts'[t] = Unsaid
                         /\ buffer_pos'[t] = buffer_size[t]
         /\ \A t \in Streams \ S :
              /\ queue'[t] = queue[t] /\ current'[t] = current[t] /\ next_pts'[t] = next_pts[t]
              /\ buffer_pos'[t] = buffer_pos[t]
PROOF
<1>1. RestType /\ DataType
  BY DEF StateInv, PlaceInv
<1>2. Len(file) \in Nat /\ FillMax \in Nat
  BY <1>1, FileType, DemuxAssumption
<1>3. eof' \in [Streams -> BOOLEAN]
  BY <1>1 DEF RestType
<1>4. /\ fill_count' \in [Streams -> Int]
      /\ \A t \in AV : fill_count'[t] = fill_count[t] \/ fill_count'[t] = -FillMax
      /\ Resync => \A t \in AV : fill_count'[t] = -FillMax
  <2>1. fill_count \in [Streams -> Int] /\ -FillMax \in Int
    BY <1>1, <1>2 DEF RestType
  <2>2. CASE Resync
    BY <2>1, <2>2, StreamNames DEF Resync
  <2> QED
    BY <2>1, <2>2
<1>5. /\ queue' = [s \in Streams |-> IF s \in S THEN <<>> ELSE queue[s]]
      /\ current' = [s \in Streams |-> IF s \in S THEN None ELSE current[s]]
      /\ buffer_pos' = [s \in Streams |-> IF s \in S THEN buffer_size[s] ELSE buffer_pos[s]]
      /\ next_pts' = [s \in Streams |-> IF s \in S THEN Unsaid ELSE next_pts[s]]
      /\ buffer_size' = buffer_size
  BY DEF ds_free_packs
<1>6. buffer_pos' \in [Streams -> Nat]
  BY <1>1, <1>5 DEF RestType
<1>7. next_pts' \in [Streams -> -2 .. Len(file)]
  BY <1>1, <1>2, <1>5 DEF RestType, Unsaid
<1> QED
  BY <1>3, <1>4, <1>5, <1>6, <1>7

(* A pts that was said is that of a packet.                                 *)
LEMMA StampType ==
  ASSUME PlaceInv, NEW p \in Places, p # None
  PROVE  Stamp(p) \in -2 .. Len(file) /\ (Stamp(p) > 0 => Stamp(p) = p)
PROOF
<1>1. Len(file) \in Nat /\ p \in 1 .. Len(file)
  BY FileType DEF PlaceInv, Places, None
<1> QED
  BY <1>1 DEF Stamp, NoPts

(* Every step keeps the other fields in their types.                        *)
LEMMA RestStep ==
  ASSUME StateInv, [Next]_vars
  PROVE  RestType'
PROOF
<1>1. RestType /\ DataType /\ PlaceInv /\ on \in Streams
  BY StreamNames DEF StateInv, PlaceInv, RestType
<1>2. file' = file
  BY FileKept
<1>3. Len(file) \in Nat /\ -1 \in -2 .. Len(file) /\ -2 \in -2 .. Len(file)
  BY <1>1, FileType
<1>4. CASE UNCHANGED vars
  BY <1>1, <1>4 DEF vars, RestType
<1>5. CASE ReadOn
  <2>1. PICK k \in 1 .. Burst : demux_fill_buffer(k)
    BY <1>5 DEF ReadOn
  <2>2. \A s \in Streams : queue'[s] \in Seq(1 .. Len(file)) /\ bytes'[s] \in Nat
    BY <2>1, <1>1, FillFacts
  <2>3. Len(queue'["audio"]) \in Int /\ Packs("audio") \in Int
    BY <2>2, <1>1, StreamNames DEF Packs, DataType
  <2>4. fill_count[on] \in Int /\ fill_count \in [Streams -> Int]
    BY <1>1 DEF RestType
  <2>5. FillCounted(on) \in Int
    BY <2>3, <2>4 DEF FillCounted
  <2>6. fill_count' \in [Streams -> Int]
    BY <2>4, <2>5, <1>5 DEF ReadOn
  <2> QED
    BY <2>6, <1>1, <1>2, <1>5 DEF ReadOn, RestType, histVars, seekVars
<1>6. CASE Filled
  <2>1. /\ on' = on /\ want' \in Nat /\ (call' = call \/ call' = "idle") /\ next_pts' = next_pts
        /\ \E n \in Nat : TakePacket(on, n)
    BY <1>6, FilledCases
  <2>2. /\ UNCHANGED <<seeks, lastseek>>
        /\ eof' \in [Streams -> BOOLEAN] /\ fill_count' \in [Streams -> Int]
        /\ buffer_pos' \in [Streams -> Nat] /\ buffer_size' \in [Streams -> Nat]
    BY <2>1, <1>1, TakeEffect
  <2> QED
    BY <2>1, <2>2, <1>1, <1>2 DEF RestType
<1>7. CASE NotFilled
  <2>1. /\ buffer_pos' \in [Streams -> Nat] /\ buffer_size' \in [Streams -> Nat]
        /\ eof' \in [Streams -> BOOLEAN]
    BY <1>1, <1>7 DEF NotFilled, NoPacket, RestType
  <2> QED
    BY <2>1, <1>1, <1>2, <1>7 DEF NotFilled, NoPacket, RestType, Return, seekVars
<1>8. CASE GetRest
  <2>1. buffer_pos' \in [Streams -> Nat]
    BY <1>1, <1>8 DEF GetRest, RestType
  <2> QED
    BY <2>1, <1>1, <1>2, <1>8 DEF GetRest, RestType, Return, histVars, seekVars
<1>9. CASE CopyBytes
  <2>1. /\ buffer_pos' \in [Streams -> Nat] /\ want' \in Nat /\ on' = on
        /\ (call' = call \/ call' = "idle")
    BY <1>9, CopyEffect
  <2> QED
    BY <2>1, <1>1, <1>2, <1>9 DEF CopyBytes, RestType, histVars, seekVars
<1>10. CASE Refill
  BY <1>1, <1>2, <1>10 DEF Refill, RestType, histVars, seekVars
<1>11. CASE NextPtsReadOn
  BY <1>1, <1>2, <1>11 DEF NextPtsReadOn, RestType, histVars, seekVars
<1>12. CASE NextPtsDone
  <2>1. next_pts' \in [Streams -> -2 .. Len(file)]
    <3>0. next_pts \in [Streams -> -2 .. Len(file)]
      BY <1>1 DEF RestType
    <3>1. CASE NotReadYet(on) /\ next_pts' = [next_pts EXCEPT ![on] = Stamp(current[on])]
      <4>1. Stamp(current[on]) \in -2 .. Len(file)
        BY <3>1, <1>1, StampType DEF NotReadYet, DataType
      <4> QED
        BY <4>1, <3>0, <3>1
    <3>2. CASE Packs(on) > 0 /\ next_pts' = [next_pts EXCEPT ![on] = Stamp(Head(queue[on]))]
      <4>1. Head(queue[on]) \in Places /\ Head(queue[on]) # None
        <5>1. Head(queue[on]) \in Places /\ Head(queue[on]) \in 1 .. Len(file)
          BY <3>2, <1>1, TakeFacts
        <5> QED
          BY <5>1, <1>3 DEF None
      <4>2. Stamp(Head(queue[on])) \in -2 .. Len(file)
        BY <4>1, <1>1, StampType
      <4> QED
        BY <4>2, <3>0, <3>2
    <3>3. CASE next_pts' = [next_pts EXCEPT ![on] = NoPts]
      BY <3>0, <3>3, <1>3 DEF NoPts
    <3> QED
      BY <3>1, <3>2, <3>3, <1>12 DEF NextPtsDone
  <2> QED
    BY <2>1, <1>1, <1>2, <1>12 DEF NextPtsDone, RestType, Return, packVars, seekVars
<1>13. CASE GetSub
  <2>1. UNCHANGED <<call, on, want, next_pts>>
    BY <1>13, SubCases
  <2>2. /\ eof' \in [Streams -> BOOLEAN] /\ fill_count' \in [Streams -> Int]
        /\ buffer_pos' \in [Streams -> Nat] /\ buffer_size' \in [Streams -> Nat]
        /\ UNCHANGED <<seeks, lastseek>>
    <3>1. ReadsSub \/ \E n \in Nat : TakePacket("sub", n)
      BY <1>13, SubCases
    <3>2. CASE ReadsSub
      BY <3>2, <1>1, StreamNames DEF ReadsSub, RestType, seekVars
    <3>3. ASSUME NEW n \in Nat, TakePacket("sub", n)
          PROVE  /\ eof' \in [Streams -> BOOLEAN] /\ fill_count' \in [Streams -> Int]
                 /\ buffer_pos' \in [Streams -> Nat] /\ buffer_size' \in [Streams -> Nat]
                 /\ UNCHANGED <<seeks, lastseek>>
      BY <3>3, TakeEffect, StreamNames
    <3> QED
      BY <3>1, <3>2, <3>3
  <2> QED
    BY <2>1, <2>2, <1>1, <1>2 DEF RestType
<1>14. CASE BeginNextPts
  BY <1>1, <1>2, <1>14 DEF BeginNextPts, RestType, packVars, histVars, seekVars
<1>15. CASE Seeked
  <2>1. PICK S \in SUBSET Streams, q \in Places :
          /\ ds_free_packs(S, q)
          /\ eof' = eof \/ eof' = [s \in Streams |-> FALSE]
          /\ Resync \/ fill_count' = fill_count
    BY <1>15 DEF Seeked
  <2>2. /\ eof' \in [Streams -> BOOLEAN] /\ fill_count' \in [Streams -> Int]
        /\ buffer_pos' \in [Streams -> Nat] /\ buffer_size' = buffer_size
        /\ next_pts' \in [Streams -> -2 .. Len(file)]
    BY <2>1, FlushEffect
  <2> QED
    BY <2>2, <1>1, <1>2, <1>15 DEF Seeked, RestType
<1>16. ASSUME NEW c \in Calls, NEW s \in AV, NEW n \in Nat, Begin(c, s, n) PROVE RestType'
  <2>1. next_pts' \in [Streams -> -2 .. Len(file)]
    BY <1>1, <1>3, <1>16 DEF Begin, RestType, Unsaid
  <2> QED
    BY <2>1, <1>1, <1>2, <1>16 DEF Begin, RestType, seekVars
<1> QED
  BY <1>4, <1>5, <1>6, <1>7, <1>8, <1>9, <1>10, <1>11, <1>12, <1>13, <1>14, <1>15, <1>16,
     StepCases

(* Every step keeps the buffer to the packet in hand.                       *)
LEMMA CurrentStep ==
  ASSUME StateInv, [Next]_vars
  PROVE  CurrentInv'
PROOF
<1> DEFINE Cur(s) == /\ buffer_pos[s] <= buffer_size[s]
                     /\ current[s] # None => buffer_size[s] = file[current[s]].len
                     /\ current[s] = None => Unread(s) = 0 \/ (call = "ds_fill_buffer" /\ on = s)
<1>1. RestType /\ DataType /\ on \in Streams /\ \A s \in Streams : Cur(s)
  BY StreamNames DEF StateInv, PlaceInv, RestType, CurrentInv
<1>2. \A s \in Streams : buffer_pos[s] \in Nat /\ buffer_size[s] \in Nat
  BY <1>1 DEF RestType
<1>3. file' = file
  BY FileKept
<1>4. SUFFICES ASSUME NEW s \in Streams PROVE Cur(s)'
  BY DEF CurrentInv
<1>5. ASSUME current'[s] = current[s], buffer_pos'[s] = buffer_pos[s],
             buffer_size'[s] = buffer_size[s],
             call = "idle" \/ (call' = call /\ on' = on) \/ on # s
      PROVE  Cur(s)'
  BY <1>1, <1>3, <1>5 DEF Unread
<1>6. CASE UNCHANGED vars
  BY <1>5, <1>6 DEF vars
<1>7. CASE ReadOn \/ NextPtsReadOn \/ BeginNextPts
  BY <1>5, <1>7 DEF ReadOn, NextPtsReadOn, BeginNextPts, packVars
<1>8. CASE NextPtsDone
  <2>1. call # "ds_fill_buffer" /\ UNCHANGED <<current, buffer_pos, buffer_size>>
    BY <1>8 DEF NextPtsDone, packVars
  <2> QED
    BY <2>1, <1>1, <1>3 DEF Unread
<1>9. CASE Filled
  <2>1. next_pts' = next_pts /\ \E n \in Nat : TakePacket(on, n) /\ n <= file[Head(queue[on])].len
    BY <1>9, FilledCases
  <2>2. PICK n \in Nat : TakePacket(on, n) /\ n <= file[Head(queue[on])].len
    BY <2>1
  <2>3. /\ buffer_pos'[on] = n /\ buffer_size'[on] = file[current'[on]].len /\ current'[on] # None
        /\ current'[on] = Head(queue[on]) /\ \A t \in Streams \ {on} : SameStream(t)
    BY <2>1, <2>2, <1>1, TakeEffect
  <2>4. CASE s = on
    BY <2>2, <2>3, <2>4, <1>3
  <2>5. CASE s # on
    BY <2>3, <2>5, <1>5 DEF SameStream
  <2> QED
    BY <2>4, <2>5
<1>10. CASE NotFilled
  <2>1. /\ buffer_pos' = [buffer_pos EXCEPT ![on] = 0] /\ current' = current
        /\ buffer_size' = [buffer_size EXCEPT ![on] = 0] /\ current[on] = None
    BY <1>10 DEF NotFilled, NoPacket
  <2>2. CASE s = on
    <3>1. buffer_pos'[s] = 0 /\ buffer_size'[s] = 0 /\ current'[s] = None
      BY <2>1, <2>2, <1>1 DEF RestType
    <3> QED
      BY <3>1 DEF Unread
  <2>3. CASE s # on
    BY <2>1, <2>3, <1>1, <1>5 DEF RestType
  <2> QED
    BY <2>2, <2>3
<1>11. CASE GetRest
  <2>1. /\ buffer_pos' = [buffer_pos EXCEPT ![on] = buffer_size[on]] /\ current' = current
        /\ buffer_size' = buffer_size /\ current[on] # None
    BY <1>11 DEF GetRest
  <2>2. CASE s = on
    <3>1. buffer_pos'[s] = buffer_size[s]
      BY <2>1, <2>2, <1>1 DEF RestType
    <3> QED
      BY <3>1, <2>1, <2>2, <1>1, <1>2, <1>3
  <2>3. CASE s # on
    BY <2>1, <2>3, <1>1, <1>5 DEF RestType
  <2> QED
    BY <2>2, <2>3
<1>12. CASE CopyBytes
  <2>1. /\ buffer_pos'[on] <= buffer_size[on] /\ current[on] # None
        /\ \A t \in Streams \ {on} : buffer_pos'[t] = buffer_pos[t]
    BY <1>12, CopyEffect
  <2>2. current' = current /\ buffer_size' = buffer_size
    BY <1>12 DEF CopyBytes
  <2>3. CASE s = on
    BY <2>1, <2>2, <2>3, <1>1, <1>3
  <2>4. CASE s # on
    BY <2>1, <2>2, <2>4, <1>5
  <2> QED
    BY <2>3, <2>4
<1>13. CASE Refill
  <2>1. /\ current' = [current EXCEPT ![on] = None] /\ Unread(on) = 0
        /\ UNCHANGED <<buffer_pos, buffer_size, call, on>>
    BY <1>13 DEF Refill
  <2>2. CASE s = on
    <3>1. current'[s] = None /\ Unread(s)' = 0
      BY <2>1, <2>2, <1>1 DEF DataType, Unread
    <3>2. buffer_pos'[s] <= buffer_size'[s]
      BY <2>1, <1>1
    <3> QED
      BY <3>1, <3>2
  <2>3. CASE s # on
    BY <2>1, <2>3, <1>1, <1>5 DEF DataType
  <2> QED
    BY <2>2, <2>3
<1>14. CASE GetSub
  <2>0. UNCHANGED <<call, on, want, next_pts>> /\ call = "idle"
    BY <1>14, SubCases
  <2>1. ReadsSub \/ \E n \in Nat : TakePacket("sub", n) /\ n <= file[Head(queue["sub"])].len
    BY <1>14, SubCases
  <2>2. CASE ReadsSub
    <3>1. current' = current /\ buffer_size' = buffer_size /\ Unread("sub") > 0
      BY <2>2 DEF ReadsSub
    <3>2. CASE s = "sub"
      <4>1. buffer_pos'[s] = buffer_pos[s] \/ buffer_pos'[s] = buffer_size[s]
        BY <2>2, <3>2, <1>1 DEF ReadsSub, RestType
      <4>2. current[s] # None /\ buffer_pos[s] <= buffer_size[s]
        <5>1. Cur(s) /\ Unread(s) > 0
          BY <1>1, <3>1, <3>2
        <5>2. Unread(s) # 0
          BY <5>1
        <5> QED
          BY <5>1, <5>2, <2>0
      <4> QED
        BY <3>1, <4>1, <4>2, <1>1, <1>2, <1>3
    <3>3. CASE s # "sub"
      BY <2>2, <3>1, <3>3, <2>0, <1>1, <1>5 DEF ReadsSub, RestType
    <3> QED
      BY <3>2, <3>3
  <2>3. ASSUME NEW n \in Nat, TakePacket("sub", n), n <= file[Head(queue["sub"])].len
        PROVE  Cur(s)'
    <3>1. /\ buffer_pos'["sub"] = n /\ buffer_size'["sub"] = file[current'["sub"]].len
          /\ current'["sub"] # None /\ current'["sub"] = Head(queue["sub"])
          /\ \A t \in Streams \ {"sub"} : SameStream(t)
      BY <2>0, <2>3, StreamNames, TakeEffect
    <3>2. CASE s = "sub"
      BY <2>3, <3>1, <3>2, <1>3
    <3>3. CASE s # "sub"
      BY <2>0, <3>1, <3>3, <1>5 DEF SameStream
    <3> QED
      BY <3>2, <3>3
  <2> QED
    BY <2>1, <2>2, <2>3
<1>15. CASE Seeked
  <2>1. PICK S \in SUBSET Streams, q \in Places :
          /\ ds_free_packs(S, q)
          /\ eof' = eof \/ eof' = [t \in Streams |-> FALSE]
          /\ Resync \/ fill_count' = fill_count
    BY <1>15 DEF Seeked
  <2>2. /\ buffer_size' = buffer_size
        /\ \A t \in S : current'[t] = None /\ buffer_pos'[t] = buffer_size[t]
        /\ \A t \in Streams \ S : current'[t] = current[t] /\ buffer_pos'[t] = buffer_pos[t]
    BY <2>1, FlushEffect
  <2>3. CASE s \in S
    <3>1. buffer_pos'[s] = buffer_size'[s] /\ current'[s] = None /\ buffer_size'[s] \in Nat
      BY <2>2, <2>3, <1>2
    <3> QED
      BY <3>1 DEF Unread
  <2>4. CASE s \notin S
    BY <2>2, <2>4, <1>5, <1>15 DEF Seeked
  <2> QED
    BY <2>3, <2>4
<1>16. ASSUME NEW c \in Calls, NEW r \in AV, NEW n \in Nat, Begin(c, r, n) PROVE Cur(s)'
  <2>1. /\ current' = [current EXCEPT ![r] = IF Unread(r) > 0 /\ c # "ds_fill_buffer" THEN @ ELSE None]
        /\ UNCHANGED <<buffer_pos, buffer_size>> /\ call' = c /\ on' = r /\ call = "idle"
    BY <1>16 DEF Begin
  <2>2. CASE s = r
    <3>1. current'[s] = IF Unread(s) > 0 /\ c # "ds_fill_buffer" THEN current[s] ELSE None
      BY <2>1, <2>2, <1>1 DEF DataType
    <3>2. Unread(s)' = Unread(s) /\ Unread(s) \in Int /\ Unread(s) >= 0
      BY <2>1, <1>1, <1>2 DEF Unread
    <3>3. buffer_pos'[s] <= buffer_size'[s]
      BY <2>1, <1>1
    <3>4. CASE Unread(s) > 0 /\ c # "ds_fill_buffer"
      BY <3>1, <3>2, <3>4, <2>1, <1>1, <1>3
    <3>5. CASE ~(Unread(s) > 0) \/ c = "ds_fill_buffer"
      BY <3>1, <3>2, <3>3, <3>5, <2>1, <2>2
    <3> QED
      BY <3>4, <3>5
  <2>3. CASE s # r
    BY <2>1, <2>3, <1>1, <1>5 DEF DataType
  <2> QED
    BY <2>2, <2>3
<1> QED
  BY <1>6, <1>7, <1>8, <1>9, <1>10, <1>11, <1>12, <1>13, <1>14, <1>15, <1>16, StepCases

(* The first states.                                                        *)
LEMMA InitState ==
  ASSUME Init
  PROVE  StateInv /\ SaidInv /\ FillInv /\ NextPtsRight /\ NoFalseEnd /\ QueueBound
PROOF
<1>1. file \in Seq(PacketType) /\ Len(file) \in Nat /\ file \in Files
  BY DemuxAssumption DEF Init
<1>2. 0 \in Places /\ filepos \in Places
  BY <1>1 DEF Places, Init
<1>3. DataType
  <2>1. <<>> \in Seq(1 .. Len(file))
    OBVIOUS
  <2> QED
    BY <2>1, <1>1, <1>2 DEF DataType, Init, None
<1>4. OrderInv
  BY DEF OrderInv, Init, None
<1>5. \A s \in Streams : Added(s, 0, 0) = <<>> /\ BytesBetween(s, 0, 0) = 0 /\ Max({0 - 1, 0}) = 0
  <2>1. ASSUME NEW s, NEW a \in Places, a <= a PROVE Added(s, a, a) = <<>> /\ BytesBetween(s, a, a) = 0
    BY <2>1, <1>1, AddedRec, BytesRec
  <2>2. ASSUME NEW a \in Int, NEW b \in Int, b > a PROVE Max({a, b}) = b
    BY <2>2, MaxOfTwo
  <2>3. 0 - 1 \in Int /\ 0 > 0 - 1 /\ 0 <= 0
    OBVIOUS
  <2> QED
    BY <2>1, <2>2, <2>3, <1>2
<1>6. QueueExact
  BY <1>5 DEF QueueExact, Init
<1>7. BytesExact
  BY <1>5 DEF BytesExact, Init, None
<1>8. RestType
  BY <1>1, StreamNames, DemuxAssumption DEF RestType, Init, Unsaid
<1>9. CurrentInv
  BY DEF CurrentInv, Init, Unread
<1>10. SaidInv /\ FillInv /\ NextPtsRight /\ NoFalseEnd
  BY StreamNames, DemuxAssumption DEF SaidInv, FillInv, NextPtsRight, NoFalseEnd, Init, Unsaid
<1>11. QueueBound
  BY StreamNames, DemuxAssumption DEF QueueBound, Init, Packs
<1> QED
  BY <1>3, <1>4, <1>6, <1>7, <1>8, <1>9, <1>10, <1>11 DEF StateInv, PlaceInv

(* The state invariant holds in every state.                                *)
LEMMA StateCorrect == Spec => []StateInv
PROOF
<1>1. Init => StateInv
  BY InitState
<1>2. StateInv /\ [Next]_vars => StateInv'
  BY PlaceStep, RestStep, CurrentStep DEF StateInv
<1> QED
  BY <1>1, <1>2, PTL DEF Spec

(* Every field of the streams and of the call in progress has its type, for *)
(* every medium: among them that bytes and pts_bytes never become negative, *)
(* whatever ds_fill_buffer subtracts from them.                             *)
THEOREM DemuxTypeCorrect == Spec => []TypeOK
PROOF
<1>1. StateInv => TypeOK
  BY DEF StateInv, PlaceInv, DataType, RestType, TypeOK, Places
<1> QED
  BY <1>1, StateCorrect, PTL

(* Each stream gets exactly the packets that the demuxer read for it since  *)
(* the last seek, in the medium's order.                                    *)
THEOREM QueueCorrect == Spec => []QueueExact
PROOF
<1>1. StateInv => QueueExact
  BY DEF StateInv, PlaceInv
<1> QED
  BY <1>1, StateCorrect, PTL

(* The byte counts that the queue limit and ds_tell_pts use are those of    *)
(* the packets queued and of the packets since the last pts stamp.          *)
THEOREM BytesCorrect == Spec => []BytesExact
PROOF
<1>1. StateInv => BytesExact
  BY DEF StateInv, PlaceInv
<1> QED
  BY <1>1, StateCorrect, PTL
-----------------------------------------------------------------------------
(* ds_get_next_pts                                                          *)

(* A read forgets what was said of its stream.                              *)
LEMMA SaidStep ==
  ASSUME StateInv, SaidInv, [Next]_vars
  PROVE  SaidInv'
PROOF
<1>1. next_pts \in [Streams -> -2 .. Len(file)] /\ AV \subseteq Streams
  BY StreamNames DEF StateInv, RestType
<1>2. CASE UNCHANGED vars
  BY <1>2 DEF vars, SaidInv
<1>3. CASE ReadOn \/ Refill \/ CopyBytes
  <2>1. on' = on /\ next_pts' = next_pts /\ (call' = call \/ call' = "idle")
    BY <1>3, CopyEffect DEF ReadOn, Refill, CopyBytes, histVars
  <2> QED
    BY <2>1, StreamNames DEF SaidInv
<1>4. CASE Filled
  BY <1>4, FilledCases, StreamNames DEF SaidInv
<1>5. CASE NotFilled \/ GetRest \/ NextPtsReadOn \/ NextPtsDone \/ BeginNextPts
  <2>1. call' \in {"idle", "ds_get_next_pts"}
    BY <1>5 DEF NotFilled, GetRest, NextPtsReadOn, NextPtsDone, BeginNextPts, Return
  <2> QED
    BY <2>1, StreamNames DEF SaidInv
<1>6. CASE GetSub \/ Seeked
  <2>1. call' = "idle"
    BY <1>6, SubCases DEF Seeked
  <2> QED
    BY <2>1, StreamNames DEF SaidInv
<1>7. ASSUME NEW c \in Calls, NEW s \in AV, NEW n \in Nat, Begin(c, s, n) PROVE SaidInv'
  BY <1>1, <1>7 DEF Begin, SaidInv
<1> QED
  BY <1>2, <1>3, <1>4, <1>5, <1>6, <1>7, StepCases

(* What a step that makes the demuxer read leaves alone: the first packet   *)
(* of each queue that has one.                                              *)
LEMMA ReadsAhead ==
  ASSUME StateInv, \E k \in 1 .. Burst : demux_fill_buffer(k), NEW t \in Streams
  PROVE  /\ filepos # Len(file)
         /\ Len(queue'[t]) \in Nat /\ Packs(t) \in Nat /\ Len(queue'[t]) < Packs(t) + Burst + 1
         /\ Packs(t) <= Len(queue'[t])
         /\ Packs(t) > 0 => Head(queue'[t]) = Head(queue[t])
PROOF
<1>1. PICK k \in 1 .. Burst : demux_fill_buffer(k)
  OBVIOUS
<1>2. /\ queue'[t] \in Seq(1 .. Len(file)) /\ queue[t] \in Seq(1 .. Len(file))
      /\ Packs(t) <= Len(queue'[t]) /\ Len(queue'[t]) <= Packs(t) + k
      /\ Packs(t) > 0 => Head(queue'[t]) = Head(queue[t])
  BY <1>1, FillFacts DEF StateInv, PlaceInv, DataType
<1>3. Len(queue'[t]) \in Nat /\ Packs(t) \in Nat
  BY <1>2 DEF Packs
<1>4. k <= Burst /\ k \in Nat /\ Burst \in Nat /\ k > 0
  BY DemuxAssumption
<1>5. filepos # Len(file)
  <2>1. filepos \in Nat /\ Len(file) \in Nat /\ filepos + k <= Len(file)
    BY <1>1, FileType DEF StateInv, PlaceInv, DataType, demux_fill_buffer
  <2> QED
    BY <2>1, <1>4
<1> QED
  BY <1>2, <1>3, <1>4, <1>5

(* What was said stays true until the stream is read.                       *)
LEMMA NextPtsStep ==
  ASSUME StateInv, SaidInv, NextPtsRight, [Next]_vars
  PROVE  NextPtsRight'
PROOF
<1> DEFINE Right(s) == next_pts[s] > 0 =>
             next_pts[s] = NextStart(s) \/ (file[next_pts[s]].len = 0 /\ next_pts[s] = current[s])
<1>1. RestType /\ DataType /\ on \in AV /\ AV \subseteq Streams /\ \A s \in AV : Right(s)
  BY StreamNames DEF StateInv, PlaceInv, RestType, NextPtsRight
<1>2. file' = file
  BY FileKept
<1>3. SUFFICES ASSUME NEW s \in AV PROVE Right(s)'
  BY DEF NextPtsRight
<1>4. s \in Streams
  BY <1>1
<1>5. ASSUME SameStream(s) PROVE Right(s)'
  BY <1>1, <1>2, <1>5 DEF SameStream, NextStart, Unread, Packs
<1>6. ASSUME ~(next_pts'[s] > 0) PROVE Right(s)'
  BY <1>6
<1>7. ASSUME call \in Calls, on = s, next_pts' = next_pts PROVE Right(s)'
  <2>1. next_pts'[s] = -2
    BY <1>7 DEF SaidInv, Unsaid
  <2> QED
    BY <2>1, <1>6
<1>8. CASE UNCHANGED vars
  BY <1>5, <1>8 DEF vars, SameStream
<1>9. CASE ReadOn \/ NextPtsReadOn
  <2>1. /\ UNCHANGED <<current, buffer_pos, buffer_size, next_pts>>
        /\ \E k \in 1 .. Burst : demux_fill_buffer(k)
    BY <1>9 DEF ReadOn, NextPtsReadOn, histVars
  <2>2. /\ Len(queue'[s]) \in Nat /\ Packs(s) \in Nat /\ Packs(s) <= Len(queue'[s])
        /\ Packs(s) > 0 => Head(queue'[s]) = Head(queue[s])
    BY <2>1, <1>4, ReadsAhead
  <2>3. ASSUME next_pts[s] > 0, next_pts[s] = NextStart(s) PROVE NextStart(s)' = NextStart(s)
    <3>1. CASE Unread(s) > 0 /\ buffer_pos[s] = 0
      BY <3>1, <2>1 DEF NextStart, Unread
    <3>2. CASE ~(Unread(s) > 0 /\ buffer_pos[s] = 0) /\ Packs(s) > 0
      BY <3>2, <2>1, <2>2 DEF NextStart, Unread, Packs
    <3>3. CASE ~(Unread(s) > 0 /\ buffer_pos[s] = 0) /\ ~(Packs(s) > 0)
      BY <3>3, <2>3 DEF NextStart, None
    <3> QED
      BY <3>1, <3>2, <3>3
  <2> QED
    BY <2>1, <2>3, <1>1, <1>2
<1>10. CASE Filled
  <2>1. /\ call \in Calls /\ next_pts' = next_pts /\ \E n \in Nat : TakePacket(on, n)
    BY <1>10, FilledCases
  <2>2. \A t \in Streams \ {on} : SameStream(t)
    BY <2>1, <1>1, TakeEffect
  <2> QED
    BY <2>1, <2>2, <1>4, <1>5, <1>7
<1>11. CASE NotFilled
  <2>1. call \in Calls /\ next_pts' = next_pts
    BY <1>11 DEF NotFilled
  <2>2. ASSUME s # on PROVE SameStream(s)
    BY <2>1, <2>2, <1>1, <1>4, <1>11 DEF NotFilled, NoPacket, SameStream, RestType
  <2> QED
    BY <2>1, <2>2, <1>5, <1>7
<1>12. CASE GetRest \/ CopyBytes \/ Refill
  <2>1. call \in Calls /\ next_pts' = next_pts
    BY <1>12 DEF GetRest, CopyBytes, Refill, histVars, Calls
  <2>2. ASSUME s # on PROVE SameStream(s)
    <3>1. CASE GetRest
      BY <2>1, <2>2, <3>1, <1>1, <1>4 DEF GetRest, SameStream, RestType
    <3>2. CASE CopyBytes
      <4>1. buffer_pos'[s] = buffer_pos[s]
        BY <2>2, <3>2, <1>4, CopyEffect
      <4> QED
        BY <2>1, <3>2, <4>1 DEF CopyBytes, SameStream
    <3>3. CASE Refill
      BY <2>1, <2>2, <3>3, <1>1, <1>4 DEF Refill, SameStream, DataType
    <3> QED
      BY <3>1, <3>2, <3>3, <1>12
  <2> QED
    BY <2>1, <2>2, <1>5, <1>7
<1>13. CASE NextPtsDone
  <2>1. /\ call = "ds_get_next_pts"
        /\ UNCHANGED <<queue, current, buffer_pos, buffer_size, eof, fill_count>>
    BY <1>13 DEF NextPtsDone, packVars
  <2>2. CASE s # on
    BY <2>1, <2>2, <1>1, <1>4, <1>5, <1>13 DEF NextPtsDone, SameStream, RestType
  <2>3. CASE s = on
    <3>0. NextStart(s)' = NextStart(s)
      BY <2>1 DEF NextStart, Unread, Packs
    <3>1. CASE NotReadYet(s) /\ next_pts' = [next_pts EXCEPT ![s] = Stamp(current[s])]
      <4>1. current[s] \in Places /\ current[s] # None /\ buffer_pos[s] = 0
        BY <3>1, <1>1, <1>4 DEF NotReadYet, DataType
      <4>2. next_pts'[s] = Stamp(current[s]) /\ (Stamp(current[s]) > 0 => Stamp(current[s]) = current[s])
        BY <3>1, <4>1, <1>1, <1>4, StampType DEF StateInv, RestType
      <4>3. buffer_size[s] = file[current[s]].len /\ buffer_size[s] \in Nat
        BY <4>1, <1>1, <1>4 DEF StateInv, CurrentInv, RestType
      <4>4. CASE buffer_size[s] > 0
        <5>1. NextStart(s) = current[s]
          BY <4>1, <4>3, <4>4 DEF NextStart, Unread
        <5> QED
          BY <5>1, <4>2, <3>0
      <4>5. CASE buffer_size[s] = 0
        BY <4>2, <4>3, <4>5, <2>1, <1>2
      <4> QED
        BY <4>3, <4>4, <4>5
    <3>2. CASE /\ ~NotReadYet(s) /\ Packs(s) > 0
               /\ next_pts' = [next_pts EXCEPT ![s] = Stamp(Head(queue[s]))]
      <4>1. Head(queue[s]) \in Places /\ Head(queue[s]) # None
        <5>1. Head(queue[s]) \in Places /\ Head(queue[s]) \in 1 .. Len(file)
          BY <3>2, <1>4, TakeFacts DEF StateInv
        <5>2. 0 \notin 1 .. Len(file)
          OBVIOUS
        <5> QED
          BY <5>1, <5>2 DEF None
      <4>2. /\ next_pts'[s] = Stamp(Head(queue[s]))
            /\ Stamp(Head(queue[s])) > 0 => Stamp(Head(queue[s])) = Head(queue[s])
        BY <3>2, <4>1, <1>1, <1>4, StampType DEF StateInv, RestType
      <4>3. ~(Unread(s) > 0 /\ buffer_pos[s] = 0)
        <5>1. ASSUME buffer_pos[s] = 0 PROVE ~(Unread(s) > 0)
          <6>1. current[s] = None
            BY <3>2, <5>1 DEF NotReadYet
          <6>2. Unread(s) = 0
            BY <6>1, <2>1, <1>4 DEF StateInv, CurrentInv
          <6> QED
            BY <6>2
        <5> QED
          BY <5>1
      <4>4. NextStart(s) = Head(queue[s])
        BY <3>2, <4>3 DEF NextStart
      <4> QED
        BY <4>2, <4>4, <3>0
    <3>3. CASE next_pts' = [next_pts EXCEPT ![s] = NoPts]
      <4>1. next_pts'[s] = -1
        BY <3>3, <1>1, <1>4 DEF RestType, NoPts
      <4> QED
        BY <4>1, <1>6
    <3> QED
      BY <2>3, <3>1, <3>2, <3>3, <1>13 DEF NextPtsDone
  <2> QED
    BY <2>2, <2>3
<1>14. CASE GetSub
  <2>0. UNCHANGED <<call, on, want, next_pts>> /\ s # "sub"
    BY <1>14, SubCases, StreamNames
  <2>1. ReadsSub \/ \E n \in Nat : TakePacket("sub", n)
    BY <1>14, SubCases
  <2>2. CASE ReadsSub
    BY <2>0, <2>2, <1>1, <1>4, <1>5 DEF ReadsSub, SameStream, RestType
  <2>3. ASSUME NEW n \in Nat, TakePacket("sub", n) PROVE SameStream(s)
    BY <2>0, <2>3, <1>4, StreamNames, TakeEffect
  <2> QED
    BY <2>1, <2>2, <2>3, <1>5
<1>15. CASE BeginNextPts
  BY <1>5, <1>15 DEF BeginNextPts, SameStream, packVars, histVars
<1>16. CASE Seeked
  <2>1. PICK S \in SUBSET Streams, q \in Places :
          /\ ds_free_packs(S, q)
          /\ eof' = eof \/ eof' = [t \in Streams |-> FALSE]
          /\ Resync \/ fill_count' = fill_count
    BY <1>16 DEF Seeked
  <2>2. /\ buffer_size' = buffer_size /\ \A t \in S : next_pts'[t] = Unsaid
        /\ \A t \in Streams \ S :
             /\ queue'[t] = queue[t] /\ current'[t] = current[t] /\ next_pts'[t] = next_pts[t]
             /\ buffer_pos'[t] = buffer_pos[t]
    BY <2>1, FlushEffect
  <2>3. CASE s \in S
    <3>1. next_pts'[s] = -2
      BY <2>2, <2>3 DEF Unsaid
    <3> QED
      BY <3>1, <1>6
  <2>4. CASE s \notin S
    BY <2>2, <2>4, <1>1, <1>2, <1>4 DEF NextStart, Unread, Packs
  <2> QED
    BY <2>3, <2>4
<1>17. ASSUME NEW c \in Calls, NEW r \in AV, NEW n \in Nat, Begin(c, r, n) PROVE Right(s)'
  <2>1. CASE s = r
    <3>1. next_pts'[s] = -2
      BY <2>1, <1>1, <1>4, <1>17 DEF Begin, RestType, Unsaid
    <3> QED
      BY <3>1, <1>6
  <2>2. CASE s # r
    BY <2>2, <1>1, <1>4, <1>5, <1>17 DEF Begin, SameStream, RestType, DataType
  <2> QED
    BY <2>1, <2>2
<1> QED
  BY <1>8, <1>9, <1>10, <1>11, <1>12, <1>13, <1>14, <1>15, <1>16, <1>17, StepCases

(* What ds_get_next_pts says is the pts of the packet that the next read    *)
(* starts with, also when the demuxer reads on for another stream between.  *)
THEOREM NextPtsCorrect == Spec => []NextPtsRight
PROOF
<1>1. Init => SaidInv /\ NextPtsRight
  BY InitState
<1>2. StateInv /\ SaidInv /\ NextPtsRight /\ [Next]_vars => (SaidInv /\ NextPtsRight)'
  BY SaidStep, NextPtsStep
<1> QED
  BY <1>1, <1>2, StateCorrect, PTL DEF Spec
-----------------------------------------------------------------------------
(* The limits                                                               *)

(* What a step does to the queues of the streams that are played: it makes  *)
(* the demuxer read while none is too long, or leaves each no longer.       *)
LEMMA QueueSteps ==
  ASSUME StateInv, [Next]_vars, NEW s \in AV
  PROVE  \/ ~TooMany /\ \E k \in 1 .. Burst : demux_fill_buffer(k)
         \/ Len(queue'[s]) <= Packs(s)
PROOF
<1>1. /\ queue \in [Streams -> Seq(1 .. Len(file))] /\ s \in Streams /\ on \in Streams
      /\ "sub" \in Streams
  BY StreamNames DEF StateInv, PlaceInv, DataType, RestType
<1>2. Packs(s) \in Nat /\ 0 <= Packs(s)
  BY <1>1 DEF Packs
<1>3. ASSUME queue'[s] = queue[s] PROVE Len(queue'[s]) <= Packs(s)
  BY <1>2, <1>3 DEF Packs
<1>4. ASSUME NEW r \in Streams, NEW n \in Nat, TakePacket(r, n) PROVE Len(queue'[s]) <= Packs(s)
  <2>1. CASE r = s
    <3>1. Len(queue'[s]) < Packs(s) /\ queue'[s] = Tail(queue[s]) /\ Packs(s) > 0
      BY <2>1, <1>4, TakeEffect
    <3>2. ASSUME NEW q \in Seq(1 .. Len(file)), Len(q) > 0 PROVE Len(Tail(q)) \in Nat
      BY <3>2
    <3>3. Len(queue'[s]) \in Nat
      BY <3>1, <3>2, <1>1 DEF Packs
    <3> QED
      BY <3>1, <3>3, <1>2
  <2>2. CASE r # s
    BY <2>2, <1>1, <1>3, <1>4 DEF TakePacket
  <2> QED
    BY <2>1, <2>2
<1>5. CASE UNCHANGED vars
  BY <1>3, <1>5 DEF vars
<1>6. CASE ReadOn \/ NextPtsReadOn
  BY <1>6 DEF ReadOn, NextPtsReadOn, GivesUp
<1>7. CASE Filled
  BY <1>1, <1>4, <1>7, FilledCases
<1>8. CASE NotFilled \/ GetRest \/ CopyBytes \/ Refill \/ NextPtsDone \/ BeginNextPts
  BY <1>3, <1>8 DEF NotFilled, NoPacket, GetRest, CopyBytes, Refill, NextPtsDone, BeginNextPts,
    packVars
<1>9. CASE GetSub
  <2>1. ReadsSub \/ \E n \in Nat : TakePacket("sub", n)
    BY <1>9, SubCases
  <2> QED
    BY <2>1, <1>1, <1>3, <1>4 DEF ReadsSub
<1>10. CASE Seeked
  <2>1. PICK S \in SUBSET Streams, q \in Places :
          /\ ds_free_packs(S, q)
          /\ eof' = eof \/ eof' = [t \in Streams |-> FALSE]
          /\ Resync \/ fill_count' = fill_count
    BY <1>10 DEF Seeked
  <2>2. queue'[s] = <<>> \/ queue'[s] = queue[s]
    BY <2>1, <1>1, FlushEffect
  <2>3. CASE queue'[s] = <<>>
    BY <2>3, <1>2
  <2> QED
    BY <2>2, <2>3, <1>3
<1>11. ASSUME NEW c \in Calls, NEW r \in AV, NEW n \in Nat, Begin(c, r, n)
       PROVE  Len(queue'[s]) <= Packs(s)
  BY <1>3, <1>11 DEF Begin
<1> QED
  BY <1>5, <1>6, <1>7, <1>8, <1>9, <1>10, <1>11, StepCases

(* The queues stay within MAX_PACKS up to what one call of the demuxer      *)
(* adds: both places that make it read test the limit first.                *)
THEOREM QueueBoundCorrect == Spec => []QueueBound
PROOF
<1>1. Init => QueueBound
  BY InitState
<1>2. ASSUME StateInv, QueueBound, [Next]_vars PROVE QueueBound'
  <2>1. SUFFICES ASSUME ~ForceNi, NEW s \in AV PROVE Len(queue'[s]) < MaxPacks + Burst
    BY DEF QueueBound, Packs
  <2>2. s \in Streams /\ queue[s] \in Seq(1 .. Len(file)) /\ MaxPacks \in Nat /\ Burst \in Nat
    BY <1>2, StreamNames, DemuxAssumption DEF StateInv, PlaceInv, DataType
  <2>3. Packs(s) \in Nat /\ Packs(s) < MaxPacks + Burst
    BY <2>1, <2>2, <1>2 DEF Packs, QueueBound
  <2>4. CASE ~TooMany /\ \E k \in 1 .. Burst : demux_fill_buffer(k)
    <3>1. Packs(s) < MaxPacks
      BY <2>1, <2>2, <2>3, <2>4 DEF TooMany
    <3>2. Len(queue'[s]) \in Nat /\ Len(queue'[s]) < Packs(s) + Burst + 1
      BY <2>2, <2>4, <1>2, ReadsAhead
    <3> QED
      BY <3>1, <3>2, <2>2, <2>3
  <2>5. CASE Len(queue'[s]) <= Packs(s)
    <3>1. queue'[s] \in Seq(1 .. Len(file)')
      BY <1>2, <2>2, PlaceStep DEF PlaceInv, DataType
    <3>2. Len(queue'[s]) \in Nat
      BY <3>1
    <3> QED
      BY <3>2, <2>2, <2>3, <2>5
  <2> QED
    BY <1>2, <2>4, <2>5, QueueSteps
<1> QED
  BY <1>1, <1>2, StateCorrect, PTL DEF Spec

(* A queue without packets has no bytes.                                    *)
LEMMA EmptyBytes ==
  ASSUME StateInv, NEW s \in Streams, Packs(s) = 0
  PROVE  bytes[s] = 0
PROOF
<1> DEFINE a == taken[s]
           b == filepos
<1>1. file \in Seq(PacketType) /\ a \in Places /\ b \in Places /\ a <= b
  BY FileType DEF StateInv, PlaceInv, DataType, OrderInv
<1>2. queue[s] = Added(s, a, b) /\ bytes[s] = BytesBetween(s, a, b)
  BY DEF StateInv, PlaceInv, QueueExact, BytesExact
<1> HIDE DEF a, b
<1>3. AllOf(Added(s, a, b), s, a, b)
  BY <1>1, AddedList DEF ListOf
<1>4. Len(Added(s, a, b)) = 0
  BY <1>2 DEF Packs
<1>5. \A p \in a + 1 .. b : file[p].ds # s
  BY <1>3, <1>4 DEF AllOf
<1> QED
  BY <1>1, <1>2, <1>5, NoBytes

(* A stream is not looked for beyond its limit without anything being found.*)
LEMMA FillStep ==
  ASSUME StateInv, FillInv, [Next]_vars
  PROVE  FillInv'
PROOF
<1> DEFINE Looked(s) == fill_count[s] > FillMax =>
             eof[s] \/ (call \in Calls /\ on = s /\ current[s] = None /\ \E t \in AV : Packs(t) > 0)
<1>1. RestType /\ DataType /\ on \in AV /\ AV \subseteq Streams /\ \A s \in AV : Looked(s)
  BY StreamNames DEF StateInv, PlaceInv, RestType, FillInv
<1>2. FillMax \in Nat
  BY DemuxAssumption
<1>3. SUFFICES ASSUME NEW s \in AV PROVE Looked(s)'
  BY DEF FillInv
<1>4. s \in Streams /\ on \in Streams
  BY <1>1
<1>5. ASSUME eof'[s] = eof[s], fill_count'[s] = fill_count[s],
             call \notin Calls \/ on # s \/ current[s] # None
      PROVE  Looked(s)'
  BY <1>1, <1>5
<1>6. CASE UNCHANGED vars
  BY <1>1, <1>6 DEF vars, Packs
<1>7. CASE ReadOn
  <2>1. /\ UNCHANGED <<current, eof, call, on>> /\ call \in Calls /\ current[on] = None
        /\ fill_count' = [fill_count EXCEPT ![on] = FillCounted(on)] /\ ~eof[on]
        /\ \E k \in 1 .. Burst : demux_fill_buffer(k)
    BY <1>7 DEF ReadOn, GivesUp
  <2>2. CASE s # on
    BY <2>1, <2>2, <1>1, <1>4, <1>5 DEF RestType
  <2>3. CASE s = on
    <3>1. \A t \in AV : Len(queue'[t]) \in Nat /\ Packs(t) \in Nat /\ Packs(t) <= Len(queue'[t])
      BY <2>1, <1>1, ReadsAhead
    <3>2. fill_count'[s] = FillCounted(s) /\ fill_count[s] \in Int
      BY <2>1, <2>3, <1>1, <1>4 DEF RestType
    <3>3. ASSUME FillCounted(s) > FillMax PROVE \E t \in AV : Len(queue'[t]) > 0
      <4>1. CASE fill_count[s] > FillMax
        <5>1. PICK t \in AV : Packs(t) > 0
          BY <4>1, <2>1, <2>3, <1>1
        <5> QED
          BY <5>1, <3>1
      <4>2. CASE ~(fill_count[s] > FillMax)
        <5>1. Len(queue'["audio"]) > Packs("audio") \/ Len(queue'["video"]) > Packs("video")
          <6>1. SUFFICES ASSUME ~(Len(queue'["video"]) > Packs("video"))
                         PROVE  Len(queue'["audio"]) > Packs("audio")
            OBVIOUS
          <6>2. FillCounted(s) = fill_count[s] + (Len(queue'["audio"]) - Packs("audio")) + 0
            BY <6>1 DEF FillCounted
          <6>3. Len(queue'["audio"]) \in Nat /\ Packs("audio") \in Nat
            BY <3>1, StreamNames
          <6> QED
            BY <6>2, <6>3, <3>2, <3>3, <4>2, <1>2
        <5> QED
          BY <5>1, <3>1, StreamNames
      <4> QED
        BY <4>1, <4>2
    <3> QED
      BY <2>1, <2>3, <3>2, <3>3 DEF Packs
  <2> QED
    BY <2>2, <2>3
<1>8. CASE Filled
  <2>1. next_pts' = next_pts /\ \E n \in Nat : TakePacket(on, n)
    BY <1>8, FilledCases
  <2>2. fill_count'[on] = 0 /\ \A t \in Streams \ {on} : SameStream(t)
    BY <2>1, <1>4, TakeEffect
  <2>3. CASE s = on
    BY <2>2, <2>3, <1>2
  <2>4. CASE s # on
    BY <2>2, <2>4, <1>4, <1>5 DEF SameStream
  <2> QED
    BY <2>3, <2>4
<1>9. CASE NotFilled
  <2>1. eof' = [eof EXCEPT ![on] = TRUE] /\ fill_count' = fill_count
    BY <1>9 DEF NotFilled, NoPacket
  <2>2. CASE s = on
    <3>1. eof'[s] = TRUE
      BY <2>1, <2>2, <1>1, <1>4 DEF RestType
    <3> QED
      BY <3>1
  <2>3. CASE s # on
    BY <2>1, <2>3, <1>1, <1>4, <1>5 DEF RestType
  <2> QED
    BY <2>2, <2>3
<1>10. CASE GetRest \/ CopyBytes \/ Refill
  <2>1. UNCHANGED <<eof, fill_count>> /\ current[on] # None
    BY <1>10, CopyEffect DEF GetRest, CopyBytes, Refill
  <2> QED
    BY <2>1, <1>5
<1>11. CASE NextPtsReadOn \/ NextPtsDone
  <2>1. UNCHANGED <<eof, fill_count>> /\ call \notin Calls
    BY <1>11, StreamNames DEF NextPtsReadOn, NextPtsDone
  <2> QED
    BY <2>1, <1>5
<1>12. CASE BeginNextPts
  <2>1. UNCHANGED <<eof, fill_count>> /\ call \notin Calls
    BY <1>12, StreamNames DEF BeginNextPts
  <2> QED
    BY <2>1, <1>5
<1>13. CASE GetSub
  <2>0. call \notin Calls /\ next_pts' = next_pts /\ s # "sub"
    BY <1>13, SubCases, StreamNames
  <2>1. ReadsSub \/ \E n \in Nat : TakePacket("sub", n)
    BY <1>13, SubCases
  <2>2. CASE ReadsSub
    BY <2>0, <2>2, <1>5 DEF ReadsSub
  <2>3. ASSUME NEW n \in Nat, TakePacket("sub", n) PROVE SameStream(s)
    BY <2>0, <2>3, <1>4, StreamNames, TakeEffect
  <2> QED
    BY <2>0, <2>1, <2>2, <2>3, <1>5 DEF SameStream
<1>14. CASE Seeked
  <2>1. PICK S \in SUBSET Streams, q \in Places :
          /\ ds_free_packs(S, q)
          /\ eof' = eof \/ eof' = [t \in Streams |-> FALSE]
          /\ Resync \/ fill_count' = fill_count
          /\ Resync \/ eof' = eof
    BY <1>14 DEF Seeked
  <2>2. CASE Resync
    <3>1. fill_count'[s] = -FillMax
      BY <2>1, <2>2, FlushEffect
    <3> QED
      BY <3>1, <1>2
  <2>3. CASE ~Resync
    <3>1. call \notin Calls
      BY <1>14, StreamNames DEF Seeked
    <3> QED
      BY <2>1, <2>3, <3>1, <1>5
  <2> QED
    BY <2>2, <2>3
<1>15. ASSUME NEW c \in Calls, NEW r \in AV, NEW n \in Nat, Begin(c, r, n) PROVE Looked(s)'
  <2>1. UNCHANGED <<eof, fill_count>> /\ call \notin Calls
    BY <1>15, StreamNames DEF Begin
  <2> QED
    BY <2>1, <1>5
<1> QED
  BY <1>6, <1>7, <1>8, <1>9, <1>10, <1>11, <1>12, <1>13, <1>14, <1>15, StepCases

(* Audio and video do not both report an end that is not there.             *)
LEMMA EndStep ==
  ASSUME StateInv, FillInv, NoFalseEnd, [Next]_vars
  PROVE  NoFalseEnd'
PROOF
<1>1. RestType /\ DataType /\ on \in AV /\ AV \subseteq Streams /\ on \in Streams
  BY StreamNames DEF StateInv, PlaceInv, RestType
<1>2. file' = file
  BY FileKept
<1>3. SUFFICES ASSUME lastseek' \in {"none", "seek"},
                      \A s \in AV : eof'[s] /\ Len(queue'[s]) = 0
               PROVE  filepos' = Len(file)
  BY <1>2 DEF NoFalseEnd, FlagsCleared, Packs, AtEnd
<1>4. ASSUME lastseek' = lastseek, \A s \in AV : eof[s] /\ Packs(s) = 0 PROVE filepos = Len(file)
  BY <1>3, <1>4 DEF NoFalseEnd, FlagsCleared, AtEnd
<1>5. ASSUME UNCHANGED <<filepos, lastseek>>,
             \A s \in AV : eof'[s] = eof[s] /\ queue'[s] = queue[s]
      PROVE  filepos' = Len(file)
  BY <1>3, <1>4, <1>5 DEF Packs
<1>6. CASE UNCHANGED vars
  BY <1>5, <1>6 DEF vars
<1>7. CASE ReadOn
  <2>1. ~eof[on] /\ eof' = eof
    BY <1>7 DEF ReadOn, GivesUp
  <2> QED
    BY <2>1, <1>1, <1>3
<1>8. CASE Filled
  <2>1. \E n \in Nat : TakePacket(on, n)
    BY <1>8, FilledCases
  <2>2. eof'[on] = FALSE
    BY <2>1, <1>1, TakeEffect
  <2> QED
    BY <2>2, <1>1, <1>3
<1>9. CASE NotFilled
  <2>1. /\ eof' = [eof EXCEPT ![on] = TRUE] /\ UNCHANGED <<filepos, queue, lastseek>>
        /\ GivesUp(on)
    BY <1>9 DEF NotFilled, NoPacket, seekVars
  <2>2. \A s \in AV : Packs(s) = 0 /\ bytes[s] = 0
    <3>1. ASSUME NEW s \in AV PROVE Packs(s) = 0
      BY <2>1, <1>3 DEF Packs
    <3> QED
      BY <3>1, <1>1, EmptyBytes
  <2>3. \A s \in AV : s # on => eof[s]
    BY <2>1, <1>1, <1>3 DEF RestType
  <2>4. CASE eof[on]
    BY <2>1, <2>2, <2>3, <2>4, <1>4
  <2>5. CASE fill_count[on] > FillMax /\ ~eof[on]
    <3>1. \E t \in AV : Packs(t) > 0
      BY <2>5, <1>1 DEF FillInv
    <3> QED
      BY <3>1, <2>2
  <2>6. CASE TooMany
    <3>1. MaxPacks \in Nat /\ MaxPacks > 0 /\ MaxPackBytes \in Nat /\ MaxPackBytes > 0
      BY DemuxAssumption
    <3> QED
      BY <2>2, <2>6, <3>1 DEF TooMany
  <2>7. CASE AtEnd
    BY <2>1, <2>7 DEF AtEnd
  <2> QED
    BY <2>1, <2>4, <2>5, <2>6, <2>7 DEF GivesUp
<1>10. CASE GetRest \/ CopyBytes \/ Refill \/ NextPtsDone \/ BeginNextPts
  BY <1>5, <1>10 DEF GetRest, CopyBytes, Refill, NextPtsDone, BeginNextPts, packVars, histVars,
    seekVars
<1>11. CASE NextPtsReadOn
  <2>1. UNCHANGED <<eof, lastseek>> /\ \E k \in 1 .. Burst : demux_fill_buffer(k)
    BY <1>11 DEF NextPtsReadOn, histVars, seekVars
  <2>2. ASSUME NEW s \in AV PROVE Packs(s) = 0
    <3>1. Packs(s) \in Nat /\ Packs(s) <= Len(queue'[s])
      BY <2>1, <1>1, ReadsAhead
    <3>2. Len(queue'[s]) = 0
      BY <1>3
    <3> QED
      BY <3>1, <3>2
  <2>3. filepos = Len(file)
    BY <2>1, <2>2, <1>3, <1>4
  <2>4. filepos # Len(file)
    BY <2>1, StreamNames, ReadsAhead
  <2> QED
    BY <2>3, <2>4
<1>12. CASE GetSub
  <2>0. next_pts' = next_pts /\ "sub" \notin AV /\ "sub" \in Streams
    BY <1>12, SubCases, StreamNames
  <2>1. ReadsSub \/ \E n \in Nat : TakePacket("sub", n)
    BY <1>12, SubCases
  <2>2. CASE ReadsSub
    BY <2>2, <1>5 DEF ReadsSub, seekVars
  <2>3. ASSUME NEW n \in Nat, TakePacket("sub", n) PROVE filepos' = Len(file)
    <3>1. UNCHANGED <<filepos, lastseek>> /\ \A t \in Streams \ {"sub"} : SameStream(t)
      BY <2>0, <2>3, TakeEffect
    <3>2. \A t \in AV : SameStream(t)
      BY <2>0, <3>1, <1>1
    <3> QED
      BY <3>1, <3>2, <1>5 DEF SameStream
  <2> QED
    BY <2>1, <2>2, <2>3
<1>13. CASE Seeked
  <2>1. eof' = [t \in Streams |-> FALSE]
    BY <1>3, <1>13 DEF Seeked
  <2>2. eof'[on] = FALSE
    BY <2>1, <1>1
  <2> QED
    BY <2>2, <1>1, <1>3
<1>14. ASSUME NEW c \in Calls, NEW s \in AV, NEW n \in Nat, Begin(c, s, n)
       PROVE  filepos' = Len(file)
  BY <1>5, <1>14 DEF Begin, seekVars
<1> QED
  BY <1>6, <1>7, <1>8, <1>9, <1>10, <1>11, <1>12, <1>13, <1>14, StepCases

(* The player does not stop before the end of the medium: whatever limits   *)
(* make ds_fill_buffer give up, audio and video never both report their end *)
(* with nothing queued while the demuxer has more.                          *)
THEOREM EndCorrect == Spec => []NoFalseEnd
PROOF
<1>1. Init => FillInv /\ NoFalseEnd
  BY InitState
<1>2. StateInv /\ FillInv /\ NoFalseEnd /\ [Next]_vars => (FillInv /\ NoFalseEnd)'
  BY FillStep, EndStep
<1> QED
  BY <1>1, <1>2, StateCorrect, PTL DEF Spec
=============================================================================
