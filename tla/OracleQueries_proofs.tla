------------------------- MODULE OracleQueries_proofs -------------------------
(***************************************************************************)
(* Proofs about OracleQueries, for every set of IDs, every number of ticks,*)
(* chunk size and number of pieces.  The invariant says what is left of    *)
(* the one answer under way (IdsLeft, InfoLeft), and that nothing is left  *)
(* of any answer when a request is sent: with that, a packet that has the  *)
(* dejavu of the request is the next one of its answer, whatever foreign   *)
(* packets come before it.                                                 *)
(***************************************************************************)
EXTENDS OracleQueries, TLAPS, WellFoundedInduction, SequenceTheorems, FiniteSetTheorems

PacketType == [dejavu : Nat, kind : Kinds, body : Seq(Nat \cup (Ids \X (1..Pieces)))]

(* The IDs of the ticks before one, in order.                               *)
Spells(h, n) == h[0] = <<>> /\ \A t \in 1..n : h[t] = h[t - 1] \o queries[t]
Before == CHOOSE h \in [0..Ticks -> Seq(Ids)] : Spells(h, Ticks)

(* What is printed of a query.                                              *)
Out(all, id) == [id |-> id, data |-> IF all THEN Information(id) ELSE <<>>]
Outs(all, ids) == [i \in DOMAIN ids |-> Out(all, ids[i])]

(* The chunks of an answer: chunk i ends at Cut(q, i).                      *)
NumberOfChunks(q) == (Len(q) + Chunk - 1) \div Chunk
Cut(q, i) == IF i * Chunk < Len(q) THEN i * Chunk ELSE Len(q)
IdsPacket(r, q, i) == Packet(r, "ids", SubSeq(q, Cut(q, i - 1) + 1, Cut(q, i)))

Foreign(s, k) == k \in Nat /\ k < Len(s) /\ \A i \in 1..k : s[i].dejavu = 0

(* After some foreign packets, the chunks of q from chunk j + 1 on, or word *)
(* that the tick is out of range.                                           *)
ChunksLeft(s, r, q, ids, k, j) ==
  /\ j \in 0..NumberOfChunks(q)
  /\ Len(s) = k + (NumberOfChunks(q) - j) + 1 /\ s[Len(s)].kind = "end"
  /\ \A i \in 1..(NumberOfChunks(q) - j) : s[k + i] = IdsPacket(r, q, j + i)
  /\ ids = SubSeq(q, 1, Cut(q, j))

IdsLeft(s, r, q, ids) ==
  \E k \in 0..Len(s) :
    /\ Foreign(s, k)
    /\ \/ s[k + 1].kind = "tickRange"
       \/ \E j \in 0..NumberOfChunks(q) : ChunksLeft(s, r, q, ids, k, j)

(* The packets of what a query is answered with: metadata, the pieces.      *)
InfoPacket(r, id, i) ==
  IF i = 1 THEN Packet(r, "metadata", <<id>>) ELSE Packet(r, "data", <<Piece(id, i - 1)>>)

SoFar(id, m, d, j) ==
  IF j = 0 THEN m = 0 /\ d = <<>> ELSE m = id /\ d = SubSeq(Information(id), 1, j - 1)

PiecesLeft(s, r, id, m, d, k, j) ==
  /\ Len(s) = k + ((Pieces + 1) - j) + 1 /\ s[Len(s)].kind = "end"
  /\ \A i \in 1..((Pieces + 1) - j) : s[k + i] = InfoPacket(r, id, j + i)
  /\ SoFar(id, m, d, j)

InfoLeft(s, r, id, m, d) ==
  \E k \in 0..Len(s) :
    /\ Foreign(s, k)
    /\ \/ Len(s) = k + 1 /\ s[k + 1].kind = "end" /\ m = 0
       \/ \E j \in 0..(Pieces + 1) : PiecesLeft(s, r, id, m, d, k, j)

StreamInv ==
  /\ pc \in {"ids", "info", "done"} => stream = <<>>
  /\ pc \in {"recvIds", "recvInfo"} => request > 0
  /\ pc = "recvIds" => IdsLeft(stream, request, queries[tick], queryIds)
  /\ pc = "recvInfo" => queryIds # <<>> /\ InfoLeft(stream, request, Head(queryIds), metadata, data)
  /\ pc \in {"info", "recvInfo"} /\ queryIds # <<>> => getAllDetails

(* All that was printed is of the ticks before, and of the IDs of this one  *)
(* that are not in queryIds any more.                                       *)
PrintedInv ==
  /\ pc \in {"ids", "recvIds"} =>
       tick <= Ticks /\ printed = Outs(getAllDetails, Before[tick - 1])
  /\ pc \in {"info", "recvInfo", "foreign"} =>
       /\ tick <= Ticks
       /\ \E d \in Seq(Ids) : /\ d \o queryIds = queries[tick]
                              /\ printed = Outs(getAllDetails, Before[tick - 1] \o d)
  /\ pc = "done" => tick = Ticks + 1 /\ printed = Outs(getAllDetails, Before[Ticks])
  /\ pc = "aborted" => \E d, e \in Seq(Ids) : d \o e = Before[Ticks] /\ printed = Outs(getAllDetails, d)

Bounded(s, r) == s \in Seq(PacketType) /\ \A i \in 1..Len(s) : s[i].dejavu <= r

TypeInv ==
  /\ queries \in [1..Ticks -> Seq(Ids)]
  /\ getAllDetails \in BOOLEAN
  /\ pc \in {"ids", "recvIds", "info", "recvInfo", "foreign", "done", "aborted"}
  /\ tick \in 1..(Ticks + 1) /\ request \in Nat
  /\ Bounded(stream, request)
  /\ header \in PacketType /\ header.dejavu <= request
  /\ queryIds \in Seq(Ids) /\ metadata \in Ids \cup {0}
  /\ data \in Seq(Ids \X (1..Pieces))
  /\ printed \in Seq(Output)
  /\ foreign \in 0..MaxForeign

Inv == TypeInv /\ StreamInv /\ PrintedInv

-----------------------------------------------------------------------------
(* Natural numbers.                                                         *)

LessThan == {ss \in Nat \X Nat : ss[1] < ss[2]}

LEMMA LessThanWellFounded == IsWellFoundedOn(LessThan, Nat)
  BY NatLessThanWellFounded DEF OpToRel, LessThan

LEMMA LeastNatural ==
  ASSUME NEW T, T \subseteq Nat, T # {}
  PROVE  \E n \in T : \A k \in T : n <= k
<1>1. PICK n \in T : \A k \in T : ~ (<<k, n>> \in LessThan)
  BY WFMin, LessThanWellFounded
<1>2. \A k \in T : ~ (k < n)
  BY <1>1 DEF LessThan
<1> QED
  BY <1>2

(* Induction, for a property given as the set of the numbers that have it.  *)
LEMMA SetInduction ==
  ASSUME NEW T, 0 \in T, \A n \in Nat : n \in T => n + 1 \in T
  PROVE  Nat \subseteq T
<1> SUFFICES ASSUME ~(Nat \subseteq T) PROVE FALSE
  OBVIOUS
<1>1. PICK n \in Nat \ T : \A k \in Nat \ T : n <= k
  <2>1. Nat \ T \subseteq Nat /\ Nat \ T # {}
    OBVIOUS
  <2> QED
    BY <2>1, LeastNatural
<1>2. n # 0 /\ n \in Nat
  BY <1>1
<1>3. n - 1 \in Nat /\ n - 1 \in T
  BY <1>1, <1>2
<1>4. n - 1 + 1 = n
  BY <1>2
<1>5. n - 1 + 1 \in T
  BY <1>3
<1> QED
  BY <1>1, <1>4, <1>5

LEMMA DivisionFacts ==
  ASSUME NEW a \in Nat, NEW b \in Nat \ {0}
  PROVE  /\ a \div b \in Nat
         /\ (a \div b) * b <= a /\ a < (a \div b) * b + b
  OBVIOUS

LEMMA ProductFacts ==
  ASSUME NEW a \in Nat, NEW b \in Nat, NEW c \in Nat \ {0}
  PROVE  /\ a * c \in Nat
         /\ a < b => a * c + c <= b * c
         /\ a <= b => a * c <= b * c
         /\ (a + 1) * c = a * c + c
         /\ a > 0 => a * c >= c
  OBVIOUS

-----------------------------------------------------------------------------
(* Sequences.                                                               *)

(* What SubSeqProperties says of a stretch of a sequence.                   *)
LEMMA StretchFacts ==
  ASSUME NEW S, NEW s \in Seq(S), NEW a \in Nat, NEW z \in Nat, a + z <= Len(s)
  PROVE  /\ SubSeq(s, a + 1, a + z) \in Seq(S)
         /\ Len(SubSeq(s, a + 1, a + z)) = z
         /\ \A i \in 1..z : SubSeq(s, a + 1, a + z)[i] = s[a + i]
<1>1. \A k \in (a + 1)..(a + z) : s[k] \in S
  BY ElementOfSeq
<1>2. /\ SubSeq(s, a + 1, a + z) \in Seq(S)
      /\ Len(SubSeq(s, a + 1, a + z)) = IF a + 1 <= a + z THEN a + z - (a + 1) + 1 ELSE 0
      /\ \A i \in 1..(a + z - (a + 1) + 1) : SubSeq(s, a + 1, a + z)[i] = s[a + 1 + i - 1]
  <2>1. a + 1 \in Int /\ a + z \in Int
    OBVIOUS
  <2> QED
    BY <1>1, <2>1, SubSeqProperties
<1>3. \A i \in 1..z : a + 1 + i - 1 = a + i
  OBVIOUS
<1> QED
  BY <1>2, <1>3

LEMMA AdjacentStretches ==
  ASSUME NEW S, NEW s \in Seq(S), NEW m \in Nat, NEW k \in Nat, NEW n \in Nat,
         m <= k, k <= n, n <= Len(s)
  PROVE  SubSeq(s, m + 1, k) \o SubSeq(s, k + 1, n) = SubSeq(s, m + 1, n)
<1> DEFINE h == m + 1
<1>1. h \in 1..(Len(s) + 1) /\ k \in (h - 1)..Len(s) /\ n \in k..Len(s)
  OBVIOUS
<1> HIDE DEF h
<1>2. SubSeq(s, h, k) \o SubSeq(s, k + 1, n) = SubSeq(s, h, n)
  BY <1>1, ConcatAdjacentSubSeq
<1> QED
  BY <1>2 DEF h

LEMMA FirstStretches ==
  ASSUME NEW S, NEW s \in Seq(S), NEW k \in Nat, NEW n \in Nat, k <= n, n <= Len(s)
  PROVE  SubSeq(s, 1, k) \o SubSeq(s, k + 1, n) = SubSeq(s, 1, n)
<1>1. 1 \in 1..(Len(s) + 1) /\ k \in (1 - 1)..Len(s) /\ n \in k..Len(s)
  OBVIOUS
<1> QED
  BY <1>1, ConcatAdjacentSubSeq

LEMMA OutsFacts ==
  ASSUME NEW all \in BOOLEAN, NEW ids \in Seq(Ids)
  PROVE  /\ Outs(all, ids) \in Seq(Output) /\ Len(Outs(all, ids)) = Len(ids)
         /\ \A i \in 1..Len(ids) : Outs(all, ids)[i] = Out(all, ids[i])
<1>1. Pieces \in Nat
  BY OracleAssumption
<1>2. ASSUME NEW id \in Ids PROVE Out(all, id) \in Output
  <2>1. Information(id) \in Seq(Ids \X (1..Pieces))
    BY <1>1, IsASeq DEF Information, Piece
  <2>2. <<>> \in Seq(Ids \X (1..Pieces))
    BY EmptySeq
  <2> QED
    BY <2>1, <2>2 DEF Out, Output
<1>3. DOMAIN ids = 1..Len(ids) /\ Len(ids) \in Nat
  BY LenProperties
<1>4. \A i \in 1..Len(ids) : Out(all, ids[i]) \in Output
  BY <1>2, ElementOfSeq
<1> DEFINE s == [i \in 1..Len(ids) |-> Out(all, ids[i])]
<1>5. s = Outs(all, ids)
  BY <1>3 DEF Outs
<1>6. s \in Seq(Output)
  <2> DEFINE n == Len(ids)
             e(i) == Out(all, ids[i])
  <2>1. n \in Nat /\ \A i \in 1..n : e(i) \in Output
    BY <1>3, <1>4
  <2> HIDE DEF n, e
  <2>2. [i \in 1..n |-> e(i)] \in Seq(Output)
    BY <2>1, IsASeq
  <2> QED
    BY <2>2 DEF n, e
<1>7. Len(s) = Len(ids) /\ \A i \in 1..Len(ids) : s[i] = Out(all, ids[i])
  BY <1>3
<1> QED
  BY <1>5, <1>6, <1>7

LEMMA OutsAppend ==
  ASSUME NEW all \in BOOLEAN, NEW ids \in Seq(Ids), NEW id \in Ids
  PROVE  Append(Outs(all, ids), Out(all, id)) = Outs(all, Append(ids, id))
<1> DEFINE more == Append(ids, id)
           s == Append(Outs(all, ids), Out(all, id))
           t == Outs(all, more)
<1>1. more \in Seq(Ids) /\ Len(more) = Len(ids) + 1 /\ Len(ids) \in Nat
      /\ more[Len(ids) + 1] = id /\ \A i \in 1..Len(ids) : more[i] = ids[i]
  BY AppendProperties, LenProperties
<1>2. /\ t \in Seq(Output) /\ Len(t) = Len(ids) + 1
      /\ \A i \in 1..(Len(ids) + 1) : t[i] = Out(all, more[i])
  <2> HIDE DEF more
  <2> QED
    BY <1>1, OutsFacts
<1>3. /\ Outs(all, ids) \in Seq(Output) /\ Len(Outs(all, ids)) = Len(ids)
      /\ \A i \in 1..Len(ids) : Outs(all, ids)[i] = Out(all, ids[i])
  BY OutsFacts
<1>4. Out(all, id) \in Output
  <2>1. Len(ids) + 1 \in 1..Len(t)
    BY <1>1, <1>2
  <2>2. t[Len(ids) + 1] \in Output
    <3> HIDE DEF t
    <3> QED
      BY <1>2, <2>1, ElementOfSeq
  <2> QED
    BY <1>1, <1>2, <2>1, <2>2
<1>5. /\ s \in Seq(Output) /\ Len(s) = Len(ids) + 1 /\ s[Len(ids) + 1] = Out(all, id)
      /\ \A i \in 1..Len(ids) : s[i] = Out(all, ids[i])
  BY <1>3, <1>4, AppendProperties
<1>6. \A i \in 1..(Len(ids) + 1) : s[i] = t[i]
  <2> SUFFICES ASSUME NEW i \in 1..(Len(ids) + 1) PROVE s[i] = t[i]
    OBVIOUS
  <2>1. CASE i = Len(ids) + 1
    BY <1>1, <1>2, <1>5, <2>1
  <2>2. CASE i \in 1..Len(ids)
    BY <1>1, <1>2, <1>5, <2>2
  <2>3. i = Len(ids) + 1 \/ i \in 1..Len(ids)
    BY <1>1
  <2> QED
    BY <2>1, <2>2, <2>3
<1> HIDE DEF s, t
<1> QED
  BY <1>2, <1>5, <1>6, SeqEqual DEF s, t

LEMMA OutsConcat ==
  ASSUME NEW all \in BOOLEAN, NEW d \in Seq(Ids), NEW e \in Seq(Ids)
  PROVE  Outs(all, d \o e) = Outs(all, d) \o Outs(all, e)
<1> DEFINE s == d \o e
           a == Outs(all, d)
           b == Outs(all, e)
           t == Outs(all, s)
<1>1. /\ s \in Seq(Ids) /\ Len(s) = Len(d) + Len(e) /\ Len(d) \in Nat /\ Len(e) \in Nat
      /\ \A i \in 1..(Len(d) + Len(e)) : s[i] = IF i <= Len(d) THEN d[i] ELSE e[i - Len(d)]
  BY ConcatProperties, LenProperties
<1> HIDE DEF s
<1>2. /\ t \in Seq(Output) /\ Len(t) = Len(d) + Len(e)
      /\ \A i \in 1..(Len(d) + Len(e)) : t[i] = Out(all, s[i])
  BY <1>1, OutsFacts
<1>3. /\ a \in Seq(Output) /\ Len(a) = Len(d) /\ b \in Seq(Output) /\ Len(b) = Len(e)
      /\ \A i \in 1..Len(d) : a[i] = Out(all, d[i])
      /\ \A i \in 1..Len(e) : b[i] = Out(all, e[i])
  BY OutsFacts
<1> HIDE DEF a, b, t
<1>4. /\ a \o b \in Seq(Output) /\ Len(a \o b) = Len(d) + Len(e)
      /\ \A i \in 1..(Len(d) + Len(e)) :
           (a \o b)[i] = IF i <= Len(d) THEN a[i] ELSE b[i - Len(d)]
  <2>1. /\ a \o b \in Seq(Output) /\ Len(a \o b) = Len(a) + Len(b)
        /\ \A i \in 1..(Len(a) + Len(b)) :
             (a \o b)[i] = IF i <= Len(a) THEN a[i] ELSE b[i - Len(a)]
    <3>1. a \in Seq(Output) /\ b \in Seq(Output)
      BY <1>3
    <3> QED
      BY <3>1, ConcatProperties
  <2>2. Len(a) = Len(d) /\ Len(b) = Len(e)
    BY <1>3
  <2> QED
    BY <2>1, <2>2
<1>5. ASSUME NEW i \in 1..(Len(d) + Len(e)) PROVE (a \o b)[i] = t[i]
  <2>1. CASE i <= Len(d)
    <3>1. i \in 1..Len(d)
      BY <1>1, <2>1
    <3> QED
      BY <1>1, <1>2, <1>3, <1>4, <2>1, <3>1
  <2>2. CASE ~(i <= Len(d))
    <3>1. i - Len(d) \in 1..Len(e)
      BY <1>1, <2>2
    <3> QED
      BY <1>1, <1>2, <1>3, <1>4, <2>2, <3>1
  <2> QED
    BY <2>1, <2>2
<1>6. a \o b = t
  BY <1>2, <1>4, <1>5, SeqEqual
<1> QED
  BY <1>6 DEF a, b, s, t

-----------------------------------------------------------------------------
(* The IDs of the ticks, one after the other.                               *)

(* A function that satisfies the recursion FlattenSeq is defined by is the  *)
(* one FlattenSeq chooses.                                                  *)
Flattened(s, h, n) == \A i \in 1..n : h[i] = IF i = 1 THEN s[i] ELSE h[i - 1] \o s[i]

LEMMA FlattenIs ==
  ASSUME NEW s, NEW n \in Nat \ {0}, Len(s) = n, NEW S, NEW h \in [1..n -> S],
         Flattened(s, h, n)
  PROVE  FlattenSeq(s) = h[n]
<1> USE DEF Flattened
<1> DEFINE Flattens(g) == g = [i \in 1..n |-> IF i = 1 THEN s[i] ELSE g[i - 1] \o s[i]]
           g == CHOOSE x : Flattens(x)
<1>1. FlattenSeq(s) = g[n]
  BY DEF FlattenSeq
<1>2. Flattens(g)
  <2>1. Flattens(h)
    <3> DEFINE r == [i \in 1..n |-> IF i = 1 THEN s[i] ELSE h[i - 1] \o s[i]]
    <3>1. \A i \in 1..n : r[i] = h[i]
      OBVIOUS
    <3>2. DOMAIN r = 1..n /\ r = [i \in DOMAIN r |-> r[i]] /\ h = [i \in 1..n |-> h[i]]
      OBVIOUS
    <3> HIDE DEF r
    <3>3. r = h
      BY <3>1, <3>2
    <3> QED
      BY <3>3 DEF r
  <2> HIDE DEF Flattens
  <2> QED
    BY <2>1
<1> HIDE DEF g
<1> DEFINE T == {k \in Nat : k \in 1..n => g[k] = h[k]}
<1>3. 0 \in T
  OBVIOUS
<1>4. ASSUME NEW k \in Nat, k \in T PROVE k + 1 \in T
  <2> SUFFICES ASSUME k + 1 \in 1..n PROVE g[k + 1] = h[k + 1]
    OBVIOUS
  <2> DEFINE j == k + 1
  <2>1. j \in 1..n /\ j - 1 = k /\ (j # 1 => k \in 1..n)
    OBVIOUS
  <2> HIDE DEF j
  <2>2. j # 1 => g[j - 1] = h[j - 1]
    BY <1>4, <2>1
  <2>3. g[j] = IF j = 1 THEN s[j] ELSE g[j - 1] \o s[j]
    BY <1>2, <2>1
  <2>4. h[j] = IF j = 1 THEN s[j] ELSE h[j - 1] \o s[j]
    BY <2>1
  <2> QED
    BY <2>2, <2>3, <2>4 DEF j
<1> HIDE DEF T
<1>5. n \in T
  BY <1>3, <1>4, SetInduction
<1> QED
  BY <1>1, <1>5 DEF T

LEMMA BeforeFacts ==
  ASSUME queries \in [1..Ticks -> Seq(Ids)]
  PROVE  Before \in [0..Ticks -> Seq(Ids)] /\ Spells(Before, Ticks)
<1> DEFINE T == {n \in Nat : n <= Ticks => \E h \in [0..n -> Seq(Ids)] : Spells(h, n)}
<1>1. 0 \in T
  <2> DEFINE h == [t \in 0..0 |-> <<>>]
  <2>1. h \in [0..0 -> Seq(Ids)] /\ h[0] = <<>>
    BY EmptySeq
  <2>2. Spells(h, 0)
    BY <2>1 DEF Spells
  <2> QED
    BY <2>1, <2>2
<1>2. ASSUME NEW n \in Nat, n \in T PROVE n + 1 \in T
  <2> SUFFICES ASSUME n + 1 <= Ticks PROVE \E h \in [0..(n + 1) -> Seq(Ids)] : Spells(h, n + 1)
    OBVIOUS
  <2>1. PICK h \in [0..n -> Seq(Ids)] : Spells(h, n)
    BY <1>2, OracleAssumption
  <2> DEFINE g == [t \in 0..(n + 1) |-> IF t = n + 1 THEN h[n] \o queries[n + 1] ELSE h[t]]
  <2>2. h[n] \in Seq(Ids) /\ queries[n + 1] \in Seq(Ids)
    BY <2>1, OracleAssumption
  <2>3. h[n] \o queries[n + 1] \in Seq(Ids)
    BY <2>2, ConcatProperties
  <2>4. g \in [0..(n + 1) -> Seq(Ids)]
    BY <2>1, <2>3
  <2>5. Spells(g, n + 1)
    <3>1. g[0] = <<>>
      BY <2>1 DEF Spells
    <3>2. ASSUME NEW t \in 1..(n + 1) PROVE g[t] = g[t - 1] \o queries[t]
      <4>1. t - 1 \in 0..(n + 1) /\ t - 1 # n + 1
        OBVIOUS
      <4>2. g[t - 1] = h[t - 1]
        BY <4>1
      <4>3. CASE t = n + 1
        <5>1. n + 1 \in 0..(n + 1) /\ t - 1 = n
          BY <4>3
        <5>2. g[n + 1] = h[n] \o queries[n + 1]
          BY <5>1
        <5> QED
          BY <4>2, <4>3, <5>1, <5>2
      <4>4. CASE t \in 1..n
        <5>1. h[t] = h[t - 1] \o queries[t]
          BY <2>1, <4>4 DEF Spells
        <5>2. g[t] = h[t]
          BY <4>4
        <5> QED
          BY <4>2, <5>1, <5>2
      <4>5. t = n + 1 \/ t \in 1..n
        OBVIOUS
      <4> QED
        BY <4>3, <4>4, <4>5
    <3> HIDE DEF g
    <3> QED
      BY <3>1, <3>2 DEF Spells
  <2> HIDE DEF g
  <2> QED
    BY <2>4, <2>5
<1> HIDE DEF T
<1>3. Ticks \in T
  BY <1>1, <1>2, SetInduction, OracleAssumption
<1>4. \E h \in [0..Ticks -> Seq(Ids)] : Spells(h, Ticks)
  BY <1>3, OracleAssumption DEF T
<1> QED
  BY <1>4 DEF Before

LEMMA BeforeStep ==
  ASSUME queries \in [1..Ticks -> Seq(Ids)], NEW t \in 1..Ticks
  PROVE  /\ Before[t - 1] \in Seq(Ids) /\ Before[t] \in Seq(Ids)
         /\ Before[t] = Before[t - 1] \o queries[t] /\ queries[t] \in Seq(Ids)
         /\ Before[0] = <<>>
<1>1. t - 1 \in 0..Ticks /\ t \in 0..Ticks
  BY OracleAssumption
<1> QED
  BY <1>1, BeforeFacts DEF Spells

(* Before[Ticks] is the whole range.                                        *)
LEMMA BeforeIsFlattened ==
  ASSUME queries \in [1..Ticks -> Seq(Ids)]
  PROVE  FlattenSeq(queries) = Before[Ticks]
<1>1. Ticks \in Nat \ {0}
  BY OracleAssumption
<1> DEFINE h == [t \in 1..Ticks |-> Before[t]]
<1>2. h \in [1..Ticks -> Seq(Ids)]
  <2>1. \A t \in 1..Ticks : t \in 0..Ticks
    BY <1>1
  <2> QED
    BY <2>1, BeforeFacts
<1>3. Flattened(queries, h, Ticks)
  <2> SUFFICES ASSUME NEW t \in 1..Ticks
               PROVE  h[t] = IF t = 1 THEN queries[t] ELSE h[t - 1] \o queries[t]
    BY DEF Flattened
  <2>1. Before[t] = Before[t - 1] \o queries[t] /\ queries[t] \in Seq(Ids) /\ Before[0] = <<>>
    BY BeforeStep
  <2>2. CASE t = 1
    <3>1. t - 1 = 0
      BY <2>2
    <3>2. Before[t] = queries[t]
      BY <2>1, <3>1, ConcatEmptySeq
    <3> QED
      BY <2>2, <3>2
  <2>3. CASE t # 1
    <3>1. t - 1 \in 1..Ticks
      BY <1>1, <2>3
    <3> QED
      BY <2>1, <2>3, <3>1
  <2> QED
    BY <2>2, <2>3
<1>4. Len(queries) = Ticks
  BY <1>1
<1>5. h[Ticks] = Before[Ticks]
  BY <1>1
<1> HIDE DEF h
<1> QED
  BY <1>1, <1>2, <1>3, <1>4, <1>5, FlattenIs

-----------------------------------------------------------------------------
(* The chunks of an answer.                                                 *)

LEMMA CountFacts ==
  ASSUME NEW q \in Seq(Ids)
  PROVE  /\ NumberOfChunks(q) \in Nat /\ Len(q) \in Nat
         /\ \A i \in Nat : i < NumberOfChunks(q) <=> i * Chunk < Len(q)
<1>1. Chunk \in Nat \ {0} /\ Len(q) \in Nat
  BY OracleAssumption, LenProperties
<1> DEFINE l == Len(q)
           n == NumberOfChunks(q)
<1>2. n \in Nat /\ n * Chunk <= l + Chunk - 1 /\ l + Chunk - 1 < n * Chunk + Chunk
  <2>1. l + Chunk - 1 \in Nat
    BY <1>1
  <2> QED
    BY <1>1, <2>1, DivisionFacts DEF NumberOfChunks
<1> HIDE DEF n
<1>3. ASSUME NEW i \in Nat PROVE i < n <=> i * Chunk < l
  <2>1. CASE i < n
    <3>1. i * Chunk + Chunk <= n * Chunk /\ i * Chunk \in Nat /\ n * Chunk \in Nat
      BY <1>1, <1>2, <2>1, ProductFacts
    <3> QED
      BY <1>1, <1>2, <2>1, <3>1
  <2>2. CASE ~(i < n)
    <3>1. n * Chunk <= i * Chunk /\ i * Chunk \in Nat /\ n * Chunk \in Nat
      <4>1. n <= i
        BY <1>2, <2>2
      <4> QED
        BY <1>1, <1>2, <4>1, ProductFacts
    <3>2. l <= n * Chunk
      BY <1>1, <1>2, <3>1
    <3> QED
      BY <1>1, <2>2, <3>1, <3>2
  <2> QED
    BY <2>1, <2>2
<1> QED
  BY <1>1, <1>2, <1>3 DEF n

LEMMA CutFacts ==
  ASSUME NEW q \in Seq(Ids), NEW i \in 0..NumberOfChunks(q)
  PROVE  /\ Cut(q, i) \in 0..Len(q)
         /\ i > 0 => Cut(q, i - 1) <= Cut(q, i) /\ Cut(q, i - 1) \in 0..Len(q)
         /\ i = 0 => Cut(q, i) = 0
         /\ i = NumberOfChunks(q) => Cut(q, i) = Len(q)
<1>1. /\ Chunk \in Nat \ {0} /\ Len(q) \in Nat /\ NumberOfChunks(q) \in Nat
      /\ \A m \in Nat : m < NumberOfChunks(q) <=> m * Chunk < Len(q)
  BY OracleAssumption, CountFacts
<1>2. \A m \in Nat : m * Chunk \in Nat
  BY <1>1, ProductFacts
<1>3. \A m \in Nat : Cut(q, m) \in 0..Len(q)
  BY <1>1, <1>2 DEF Cut
<1>4. i > 0 => Cut(q, i - 1) <= Cut(q, i) /\ Cut(q, i - 1) \in 0..Len(q)
  <2> SUFFICES ASSUME i > 0 PROVE Cut(q, i - 1) <= Cut(q, i) /\ Cut(q, i - 1) \in 0..Len(q)
    OBVIOUS
  <2> DEFINE p == i - 1
  <2>1. p \in Nat /\ p < i /\ i \in Nat
    BY <1>1
  <2> HIDE DEF p
  <2>2. p * Chunk <= i * Chunk
    <3>1. p <= i
      BY <2>1
    <3> QED
      BY <1>1, <2>1, <3>1, ProductFacts
  <2>3. Cut(q, p) <= Cut(q, i)
    <3> DEFINE x == p * Chunk
               y == i * Chunk
    <3>1. x \in Nat /\ y \in Nat /\ x <= y
      BY <1>2, <2>1, <2>2
    <3>2. /\ Cut(q, p) = IF x < Len(q) THEN x ELSE Len(q)
          /\ Cut(q, i) = IF y < Len(q) THEN y ELSE Len(q)
      BY DEF Cut
    <3> DEFINE l == Len(q)
               u == Cut(q, p)
               v == Cut(q, i)
    <3>3. l \in Nat
      BY <1>1
    <3> HIDE DEF x, y, l, u, v
    <3>4. u = (IF x < l THEN x ELSE l) /\ v = (IF y < l THEN y ELSE l)
      BY <3>2 DEF l, u, v
    <3>5. u <= v
      BY <3>1, <3>3, <3>4
    <3> QED
      BY <3>5 DEF u, v
  <2> QED
    BY <1>3, <2>1, <2>3 DEF p
<1>5. i = 0 => Cut(q, i) = 0
  <2>1. 0 * Chunk = 0
    BY <1>1
  <2> QED
    BY <1>1, <2>1 DEF Cut
<1>6. i = NumberOfChunks(q) => Cut(q, i) = Len(q)
  <2>1. i \in Nat
    BY <1>1
  <2> QED
    BY <1>1, <2>1 DEF Cut
<1> QED
  BY <1>1, <1>3, <1>4, <1>5, <1>6

(* The packets of the node's answer.                                        *)
LEMMA ChunksAre ==
  ASSUME NEW q \in Seq(Ids), NEW r \in Nat
  PROVE  /\ Chunks(r, q) \in Seq(PacketType) /\ Len(Chunks(r, q)) = NumberOfChunks(q)
         /\ \A i \in 1..NumberOfChunks(q) : Chunks(r, q)[i] = IdsPacket(r, q, i)
<1> DEFINE n == NumberOfChunks(q)
           c == [i \in 1..n |-> IdsPacket(r, q, i)]
<1>1. /\ Chunk \in Nat \ {0} /\ Len(q) \in Nat /\ n \in Nat
      /\ \A m \in Nat : m < n <=> m * Chunk < Len(q)
  BY OracleAssumption, CountFacts
<1>2. ASSUME NEW i \in 1..n
      PROVE  IdsPacket(r, q, i)
               = Packet(r, "ids", SubSeq(q, (i - 1) * Chunk + 1,
                                         IF i * Chunk < Len(q) THEN i * Chunk ELSE Len(q)))
  <2>1. i - 1 \in Nat /\ i - 1 < n
    BY <1>1
  <2>2. Cut(q, i - 1) = (i - 1) * Chunk
    BY <1>1, <2>1 DEF Cut
  <2> QED
    BY <2>2 DEF IdsPacket, Cut
<1>3. Chunks(r, q) = c
  BY <1>2 DEF Chunks, NumberOfChunks
<1>4. ASSUME NEW i \in 1..n PROVE IdsPacket(r, q, i) \in PacketType
  <2>1. i \in 0..n /\ i > 0
    BY <1>1
  <2>2. Cut(q, i - 1) \in 0..Len(q) /\ Cut(q, i) \in 0..Len(q) /\ Cut(q, i - 1) <= Cut(q, i)
    BY <2>1, CutFacts
  <2> DEFINE a == Cut(q, i - 1)
             b == Cut(q, i)
  <2>3. SubSeq(q, a + 1, b) \in Seq(Ids)
    <3> DEFINE l == Len(q)
    <3>1. l \in Nat /\ a \in 0..l /\ b \in 0..l /\ a <= b
      BY <1>1, <2>2
    <3> HIDE DEF a, b, l
    <3>2. a \in Nat /\ b - a \in Nat /\ a + (b - a) = b /\ b <= l
      BY <3>1
    <3>3. a \in Nat /\ b - a \in Nat /\ a + (b - a) = b /\ b <= Len(q)
      BY <3>2 DEF l
    <3>4. SubSeq(q, a + 1, a + (b - a)) \in Seq(Ids)
      BY <3>3, StretchFacts
    <3> QED
      BY <3>3, <3>4
  <2>4. Seq(Ids) \subseteq Seq(Nat \cup (Ids \X (1..Pieces)))
    <3>1. Ids \subseteq Nat \cup (Ids \X (1..Pieces))
      BY OracleAssumption
    <3> QED
      BY <3>1, SeqMonotonic
  <2> HIDE DEF a, b
  <2> QED
    BY <2>3, <2>4 DEF IdsPacket, Packet, PacketType, Kinds, a, b
<1>5. c \in Seq(PacketType) /\ Len(c) = n
  <2> HIDE DEF n
  <2> QED
    BY <1>1, <1>4, IsASeq
<1> QED
  BY <1>3, <1>5

(* The next chunk of an answer continues the IDs received.                  *)
LEMMA NextChunk ==
  ASSUME NEW q \in Seq(Ids), NEW j \in 0..NumberOfChunks(q), j < NumberOfChunks(q), NEW r
  PROVE  SubSeq(q, 1, Cut(q, j)) \o IdsPacket(r, q, j + 1).body = SubSeq(q, 1, Cut(q, j + 1))
<1>1. NumberOfChunks(q) \in Nat /\ Len(q) \in Nat
  BY CountFacts
<1> DEFINE i == j + 1
<1>2. i \in 0..NumberOfChunks(q) /\ i > 0 /\ i - 1 = j
  BY <1>1
<1> HIDE DEF i
<1>3. Cut(q, j) <= Cut(q, i) /\ Cut(q, j) \in 0..Len(q) /\ Cut(q, i) \in 0..Len(q)
  BY <1>2, CutFacts
<1> DEFINE a == Cut(q, j)
           b == Cut(q, i)
<1>4. a \in Nat /\ b \in Nat /\ a <= b /\ b <= Len(q)
  BY <1>1, <1>3
<1>5. IdsPacket(r, q, i).body = SubSeq(q, a + 1, b)
  BY <1>2 DEF IdsPacket, Packet
<1> HIDE DEF a, b
<1>6. SubSeq(q, 1, a) \o SubSeq(q, a + 1, b) = SubSeq(q, 1, b)
  BY <1>4, FirstStretches
<1> QED
  BY <1>5, <1>6 DEF a, b, i

-----------------------------------------------------------------------------
(* What a step takes from the stream, or puts on it.                        *)

LEMMA TakeFacts ==
  ASSUME NEW s \in Seq(PacketType), s # <<>>
  PROVE  /\ Len(s) \in Nat \ {0} /\ Head(s) = s[1] /\ Head(s) \in PacketType
         /\ Tail(s) \in Seq(PacketType) /\ Len(Tail(s)) = Len(s) - 1
         /\ \A i \in 1..(Len(s) - 1) : Tail(s)[i] = s[i + 1]
         /\ Len(s) = 1 => Tail(s) = <<>>
<1>1. /\ Head(s) \in PacketType /\ Tail(s) \in Seq(PacketType) /\ Len(Tail(s)) = Len(s) - 1
      /\ \A i \in 1..Len(Tail(s)) : Tail(s)[i] = s[i + 1]
  BY HeadTailProperties
<1>2. Len(s) \in Nat \ {0} /\ Head(s) = s[1]
  BY LenProperties, EmptySeq
<1>3. \A i \in 1..(Len(s) - 1) : Tail(s)[i] = s[i + 1]
  BY <1>1
<1>4. Len(Tail(s)) = 0 => Tail(s) = <<>>
  BY <1>1, EmptySeq
<1> QED
  BY <1>1, <1>2, <1>3, <1>4

LEMMA TakeBounded ==
  ASSUME NEW s, NEW r, Bounded(s, r), s # <<>>
  PROVE  Bounded(Tail(s), r) /\ Head(s) \in PacketType /\ Head(s).dejavu <= r
<1>1. s \in Seq(PacketType) /\ \A i \in 1..Len(s) : s[i].dejavu <= r
  BY DEF Bounded
<1>2. /\ Len(s) \in Nat \ {0} /\ Head(s) = s[1] /\ Head(s) \in PacketType
      /\ Tail(s) \in Seq(PacketType) /\ Len(Tail(s)) = Len(s) - 1
      /\ \A i \in 1..(Len(s) - 1) : Tail(s)[i] = s[i + 1]
  BY <1>1, TakeFacts
<1>3. \A i \in 1..Len(Tail(s)) : i \in 1..(Len(s) - 1) /\ i + 1 \in 1..Len(s)
  BY <1>2
<1>4. \A i \in 1..Len(Tail(s)) : Tail(s)[i].dejavu <= r
  BY <1>1, <1>2, <1>3
<1>5. 1 \in 1..Len(s)
  BY <1>2
<1> QED
  BY <1>1, <1>2, <1>4, <1>5 DEF Bounded

LEMMA PrependFacts ==
  ASSUME NEW s \in Seq(PacketType), NEW p \in PacketType
  PROVE  LET t == <<p>> \o s IN
           /\ t \in Seq(PacketType) /\ Len(t) = Len(s) + 1 /\ Len(s) \in Nat /\ t[1] = p
           /\ \A i \in 1..Len(s) : t[i + 1] = s[i]
<1> DEFINE o == <<p>>
           t == o \o s
<1>1. o \in Seq(PacketType) /\ Len(o) = 1 /\ o[1] = p
  OBVIOUS
<1> HIDE DEF o
<1>2. /\ t \in Seq(PacketType) /\ Len(t) = Len(o) + Len(s) /\ Len(s) \in Nat
      /\ \A i \in 1..(Len(o) + Len(s)) : t[i] = IF i <= Len(o) THEN o[i] ELSE s[i - Len(o)]
  BY <1>1, ConcatProperties, LenProperties
<1>3. Len(t) = Len(s) + 1
  BY <1>1, <1>2
<1> HIDE DEF t
<1>4. t[1] = p
  <2>1. 1 \in 1..(Len(o) + Len(s)) /\ 1 <= Len(o)
    BY <1>1, <1>2
  <2> QED
    BY <1>1, <1>2, <2>1
<1>5. ASSUME NEW i \in 1..Len(s) PROVE t[i + 1] = s[i]
  <2>1. i + 1 \in 1..(Len(o) + Len(s)) /\ ~(i + 1 <= Len(o)) /\ i + 1 - Len(o) = i
    BY <1>1, <1>2
  <2> QED
    BY <1>2, <2>1
<1> QED
  BY <1>2, <1>3, <1>4, <1>5 DEF o, t

LEMMA PacketTyped ==
  ASSUME NEW r \in Nat, NEW kind \in Kinds, NEW body \in Seq(Nat \cup (Ids \X (1..Pieces)))
  PROVE  /\ Packet(r, kind, body) \in PacketType
         /\ Packet(r, kind, body).dejavu = r /\ Packet(r, kind, body).kind = kind
         /\ Packet(r, kind, body).body = body
  BY DEF Packet, PacketType

LEMMA ForeignIsPacket ==
  ASSUME NEW p \in ForeignPackets
  PROVE  p \in PacketType /\ p.dejavu = 0
<1>1. <<>> \in Seq(Nat \cup (Ids \X (1..Pieces)))
  BY EmptySeq
<1>2. <<0>> \in Seq(Nat \cup (Ids \X (1..Pieces)))
  OBVIOUS
<1> DEFINE kind == "other"
           zero == 0
           none == <<>>
           one == <<0>>
<1>3. kind \in Kinds /\ zero \in Nat
  BY DEF Kinds
<1> HIDE DEF kind, zero, none, one
<1>4. none \in Seq(Nat \cup (Ids \X (1..Pieces))) /\ one \in Seq(Nat \cup (Ids \X (1..Pieces)))
  BY <1>1, <1>2 DEF none, one
<1>5. /\ Packet(zero, kind, none) \in PacketType /\ Packet(zero, kind, none).dejavu = zero
      /\ Packet(zero, kind, one) \in PacketType /\ Packet(zero, kind, one).dejavu = zero
  BY <1>3, <1>4, PacketTyped
<1>6. p = Packet(zero, kind, none) \/ p = Packet(zero, kind, one)
  BY DEF ForeignPackets, zero, kind, none, one
<1> QED
  BY <1>5, <1>6 DEF zero

LEMMA PrependBounded ==
  ASSUME NEW s, NEW r \in Nat, Bounded(s, r), NEW p \in ForeignPackets
  PROVE  Bounded(<<p>> \o s, r)
<1> DEFINE t == <<p>> \o s
<1>1. s \in Seq(PacketType) /\ p \in PacketType /\ p.dejavu = 0
      /\ \A i \in 1..Len(s) : s[i].dejavu <= r
  BY ForeignIsPacket DEF Bounded
<1>2. /\ t \in Seq(PacketType) /\ Len(t) = Len(s) + 1 /\ Len(s) \in Nat /\ t[1] = p
      /\ \A i \in 1..Len(s) : t[i + 1] = s[i]
  BY <1>1, PrependFacts
<1> HIDE DEF t
<1>3. ASSUME NEW i \in 1..Len(t) PROVE t[i].dejavu <= r
  <2>1. CASE i = 1
    BY <1>1, <1>2, <2>1
  <2>2. CASE i # 1
    <3>1. i - 1 \in 1..Len(s) /\ i - 1 + 1 = i
      BY <1>2, <2>2
    <3>2. t[i] = s[i - 1]
      BY <1>2, <3>1
    <3> QED
      BY <1>1, <3>1, <3>2
  <2> QED
    BY <2>1, <2>2
<1>4. Bounded(t, r)
  BY <1>2, <1>3 DEF Bounded
<1> QED
  BY <1>4 DEF t

(* One more foreign packet, and the rest where it was.                      *)
LEMMA PrependForeign ==
  ASSUME NEW s \in Seq(PacketType), NEW p \in ForeignPackets, NEW k, Foreign(s, k)
  PROVE  LET t == <<p>> \o s IN
           /\ k \in Nat /\ Len(s) \in Nat /\ Len(t) = Len(s) + 1 /\ k + 1 \in 0..Len(t)
           /\ Foreign(t, k + 1)
           /\ \A i \in 1..(Len(s) - k) : t[k + 1 + i] = s[k + i]
           /\ t[Len(t)] = s[Len(s)]
<1> DEFINE t == <<p>> \o s
<1>1. p \in PacketType /\ p.dejavu = 0
  BY ForeignIsPacket
<1>2. /\ Len(t) = Len(s) + 1 /\ Len(s) \in Nat /\ t[1] = p
      /\ \A i \in 1..Len(s) : t[i + 1] = s[i]
  BY <1>1, PrependFacts
<1> HIDE DEF t
<1>3. k \in Nat /\ k < Len(s) /\ \A i \in 1..k : s[i].dejavu = 0
  BY DEF Foreign
<1>4. ASSUME NEW i \in 1..(k + 1) PROVE t[i].dejavu = 0
  <2>1. CASE i = 1
    BY <1>1, <1>2, <2>1
  <2>2. CASE i # 1
    <3>1. i - 1 \in 1..Len(s) /\ i - 1 \in 1..k /\ i - 1 + 1 = i
      BY <1>2, <1>3, <2>2
    <3>2. t[i] = s[i - 1]
      BY <1>2, <3>1
    <3> QED
      BY <1>3, <3>1, <3>2
  <2> QED
    BY <2>1, <2>2
<1>5. Foreign(t, k + 1) /\ k + 1 \in 0..Len(t)
  <2>1. k + 1 \in Nat /\ k + 1 < Len(t) /\ k + 1 \in 0..Len(t)
    BY <1>2, <1>3
  <2> QED
    BY <1>4, <2>1 DEF Foreign
<1>6. ASSUME NEW i \in 1..(Len(s) - k) PROVE t[k + 1 + i] = s[k + i]
  <2>1. k + i \in 1..Len(s) /\ k + i + 1 = k + 1 + i
    BY <1>2, <1>3
  <2>2. t[k + i + 1] = s[k + i]
    BY <1>2, <2>1
  <2> QED
    BY <2>1, <2>2
<1>7. t[Len(t)] = s[Len(s)]
  <2>1. Len(s) \in 1..Len(s)
    BY <1>2, <1>3
  <2> QED
    BY <1>2, <2>1
<1> QED
  BY <1>2, <1>3, <1>5, <1>6, <1>7 DEF t

LEMMA PrependIds ==
  ASSUME NEW s \in Seq(PacketType), NEW r, NEW q \in Seq(Ids), NEW ids, IdsLeft(s, r, q, ids),
         NEW p \in ForeignPackets
  PROVE  IdsLeft(<<p>> \o s, r, q, ids)
<1> DEFINE t == <<p>> \o s
<1>1. PICK k \in 0..Len(s) :
        /\ Foreign(s, k)
        /\ \/ s[k + 1].kind = "tickRange"
           \/ \E j \in 0..NumberOfChunks(q) : ChunksLeft(s, r, q, ids, k, j)
  BY DEF IdsLeft
<1>2. /\ k \in Nat /\ Len(s) \in Nat /\ Len(t) = Len(s) + 1 /\ k + 1 \in 0..Len(t)
      /\ Foreign(t, k + 1)
      /\ \A i \in 1..(Len(s) - k) : t[k + 1 + i] = s[k + i]
      /\ t[Len(t)] = s[Len(s)] /\ k < Len(s)
  BY <1>1, PrependForeign DEF Foreign
<1> HIDE DEF t
<1>3. CASE s[k + 1].kind = "tickRange"
  <2>1. 1 \in 1..(Len(s) - k)
    BY <1>2
  <2>2. t[k + 1 + 1] = s[k + 1]
    BY <1>2, <2>1
  <2>3. IdsLeft(t, r, q, ids)
    BY <1>2, <1>3, <2>2 DEF IdsLeft
  <2> QED
    BY <2>3 DEF t
<1>4. ASSUME NEW j \in 0..NumberOfChunks(q), ChunksLeft(s, r, q, ids, k, j)
      PROVE  IdsLeft(t, r, q, ids)
  <2> DEFINE n == NumberOfChunks(q) - j
  <2>1. n \in Nat
    BY CountFacts
  <2>2. /\ Len(s) = k + n + 1 /\ s[Len(s)].kind = "end"
        /\ \A i \in 1..n : s[k + i] = IdsPacket(r, q, j + i)
        /\ ids = SubSeq(q, 1, Cut(q, j))
    BY <1>4 DEF ChunksLeft
  <2> HIDE DEF n
  <2>3. Len(t) = k + 1 + n + 1 /\ \A i \in 1..n : i \in 1..(Len(s) - k)
    BY <1>2, <2>1, <2>2
  <2>4. \A i \in 1..n : t[k + 1 + i] = IdsPacket(r, q, j + i)
    BY <1>2, <2>2, <2>3
  <2>5. ChunksLeft(t, r, q, ids, k + 1, j)
    BY <1>2, <2>2, <2>3, <2>4 DEF ChunksLeft, n
  <2> QED
    BY <1>2, <2>5 DEF IdsLeft
<1> QED
  BY <1>1, <1>3, <1>4 DEF t

LEMMA PrependInfo ==
  ASSUME NEW s \in Seq(PacketType), NEW r, NEW id, NEW m, NEW d, InfoLeft(s, r, id, m, d),
         NEW p \in ForeignPackets
  PROVE  InfoLeft(<<p>> \o s, r, id, m, d)
<1> DEFINE t == <<p>> \o s
<1>1. PICK k \in 0..Len(s) :
        /\ Foreign(s, k)
        /\ \/ Len(s) = k + 1 /\ s[k + 1].kind = "end" /\ m = 0
           \/ \E j \in 0..(Pieces + 1) : PiecesLeft(s, r, id, m, d, k, j)
  BY DEF InfoLeft
<1>2. /\ k \in Nat /\ Len(s) \in Nat /\ Len(t) = Len(s) + 1 /\ k + 1 \in 0..Len(t)
      /\ Foreign(t, k + 1)
      /\ \A i \in 1..(Len(s) - k) : t[k + 1 + i] = s[k + i]
      /\ t[Len(t)] = s[Len(s)] /\ k < Len(s)
  BY <1>1, PrependForeign DEF Foreign
<1> HIDE DEF t
<1>3. CASE Len(s) = k + 1 /\ s[k + 1].kind = "end" /\ m = 0
  <2>1. 1 \in 1..(Len(s) - k) /\ Len(t) = k + 1 + 1
    BY <1>2, <1>3
  <2>2. t[k + 1 + 1] = s[k + 1]
    BY <1>2, <2>1
  <2>3. InfoLeft(t, r, id, m, d)
    BY <1>2, <1>3, <2>1, <2>2 DEF InfoLeft
  <2> QED
    BY <2>3 DEF t
<1>4. ASSUME NEW j \in 0..(Pieces + 1), PiecesLeft(s, r, id, m, d, k, j)
      PROVE  InfoLeft(t, r, id, m, d)
  <2> DEFINE n == (Pieces + 1) - j
  <2>1. n \in Nat
    BY OracleAssumption
  <2>2. /\ Len(s) = k + n + 1 /\ s[Len(s)].kind = "end"
        /\ \A i \in 1..n : s[k + i] = InfoPacket(r, id, j + i)
        /\ SoFar(id, m, d, j)
    BY <1>4 DEF PiecesLeft
  <2> HIDE DEF n
  <2>3. Len(t) = k + 1 + n + 1 /\ \A i \in 1..n : i \in 1..(Len(s) - k)
    BY <1>2, <2>1, <2>2
  <2>4. \A i \in 1..n : t[k + 1 + i] = InfoPacket(r, id, j + i)
    BY <1>2, <2>2, <2>3
  <2>5. PiecesLeft(t, r, id, m, d, k + 1, j)
    BY <1>2, <2>2, <2>3, <2>4 DEF PiecesLeft, n
  <2> QED
    BY <1>2, <2>5 DEF InfoLeft
<1> QED
  BY <1>1, <1>3, <1>4 DEF t

(* A packet for the request is the next one of its answer.                  *)
LEMMA NoForeignFirst ==
  ASSUME NEW s, NEW r \in Nat \ {0}, NEW k, Foreign(s, k), s[1].dejavu = r
  PROVE  k = 0
  BY DEF Foreign

LEMMA TakeIds ==
  ASSUME NEW s \in Seq(PacketType), s # <<>>, NEW r \in Nat \ {0}, NEW q \in Seq(Ids), NEW ids,
         IdsLeft(s, r, q, ids), Head(s).dejavu = r
  PROVE  /\ Head(s).kind = "ids" =>
              IdsLeft(Tail(s), r, q, ids \o Head(s).body) /\ ids \o Head(s).body \in Seq(Ids)
         /\ Head(s).kind = "end" => Tail(s) = <<>> /\ ids = q
<1> DEFINE t == Tail(s)
           h == s[1]
           N == NumberOfChunks(q)
<1>1. /\ Len(s) \in Nat \ {0} /\ Head(s) = h
      /\ Len(t) = Len(s) - 1
      /\ \A i \in 1..(Len(s) - 1) : t[i] = s[i + 1]
      /\ Len(s) = 1 => t = <<>>
  BY TakeFacts
<1> HIDE DEF t
<1>2. PICK k \in 0..Len(s) :
        /\ Foreign(s, k)
        /\ \/ s[k + 1].kind = "tickRange"
           \/ \E j \in 0..N : ChunksLeft(s, r, q, ids, k, j)
  BY DEF IdsLeft
<1>3. k = 0
  BY <1>1, <1>2, NoForeignFirst
<1>4. CASE s[k + 1].kind = "tickRange"
  BY <1>1, <1>3, <1>4
<1>5. ASSUME NEW j \in 0..N, ChunksLeft(s, r, q, ids, k, j)
      PROVE  /\ h.kind = "ids" => IdsLeft(t, r, q, ids \o h.body) /\ ids \o h.body \in Seq(Ids)
             /\ h.kind = "end" => t = <<>> /\ ids = q
  <2>1. N \in Nat /\ Len(q) \in Nat
    BY CountFacts
  <2>2. /\ Len(s) = N - j + 1 /\ s[Len(s)].kind = "end"
        /\ \A i \in 1..(N - j) : s[i] = IdsPacket(r, q, j + i)
        /\ ids = SubSeq(q, 1, Cut(q, j))
    <3>1. /\ Len(s) = k + (N - j) + 1 /\ s[Len(s)].kind = "end"
          /\ \A i \in 1..(N - j) : s[k + i] = IdsPacket(r, q, j + i)
          /\ ids = SubSeq(q, 1, Cut(q, j))
      BY <1>5 DEF ChunksLeft
    <3>2. k + (N - j) + 1 = N - j + 1 /\ \A i \in 1..(N - j) : k + i = i
      BY <1>3, <2>1
    <3> QED
      BY <3>1, <3>2
  <2> HIDE DEF N
  <2>3. CASE j = N
    <3>1. Len(s) = 1 /\ ids = SubSeq(q, 1, Len(q))
      <4>1. Cut(q, j) = Len(q)
        BY <2>3, CutFacts DEF N
      <4>2. Len(s) = 1
        BY <2>1, <2>2, <2>3
      <4> QED
        BY <2>2, <4>1, <4>2
    <3> QED
      BY <1>1, <2>2, <3>1, SubSeqFull
  <2>4. CASE j # N
    <3>1. j < N /\ 1 \in 1..(N - j) /\ j + 1 \in 0..N
      BY <2>1, <2>4
    <3>2. h = IdsPacket(r, q, j + 1)
      BY <2>2, <3>1
    <3>3. h.kind = "ids"
      BY <3>2 DEF IdsPacket, Packet
    <3>4. ids \o h.body = SubSeq(q, 1, Cut(q, j + 1))
      <4>1. j \in 0..NumberOfChunks(q) /\ j < NumberOfChunks(q)
        BY <3>1 DEF N
      <4>2. SubSeq(q, 1, Cut(q, j)) \o IdsPacket(r, q, j + 1).body = SubSeq(q, 1, Cut(q, j + 1))
        BY <4>1, NextChunk
      <4> QED
        BY <2>2, <3>2, <4>2
    <3>5. SubSeq(q, 1, Cut(q, j + 1)) \in Seq(Ids)
      <4> DEFINE b == Cut(q, j + 1)
      <4>1. b \in Nat /\ 0 + b <= Len(q)
        BY <2>1, <3>1, CutFacts DEF N
      <4> HIDE DEF b
      <4>2. SubSeq(q, 0 + 1, 0 + b) \in Seq(Ids)
        BY <4>1, StretchFacts
      <4>3. 0 + 1 = 1 /\ 0 + b = b
        BY <4>1
      <4> QED
        BY <4>2, <4>3 DEF b
    <3>6. Foreign(t, 0)
      BY <1>1, <2>1, <2>2, <3>1 DEF Foreign
    <3>7. Len(t) = 0 + (N - (j + 1)) + 1
      BY <1>1, <2>1, <2>2, <3>1
    <3>8. t[Len(t)].kind = "end"
      <4>1. Len(t) \in 1..(Len(s) - 1) /\ Len(t) + 1 = Len(s)
        BY <1>1, <2>1, <2>2, <3>1
      <4> QED
        BY <1>1, <2>2, <4>1
    <3>9. ASSUME NEW i \in 1..(N - (j + 1)) PROVE t[0 + i] = IdsPacket(r, q, j + 1 + i)
      <4>1. i \in 1..(Len(s) - 1) /\ i + 1 \in 1..(N - j) /\ 0 + i = i /\ j + (i + 1) = j + 1 + i
        BY <1>1, <2>1, <2>2, <3>1
      <4>2. t[i] = s[i + 1] /\ s[i + 1] = IdsPacket(r, q, j + (i + 1))
        BY <1>1, <2>2, <4>1
      <4> QED
        BY <4>1, <4>2
    <3>10. ChunksLeft(t, r, q, ids \o h.body, 0, j + 1)
      BY <3>1, <3>4, <3>7, <3>8, <3>9 DEF ChunksLeft, N
    <3>11. IdsLeft(t, r, q, ids \o h.body)
      <4>1. 0 \in 0..Len(t)
        BY <3>6 DEF Foreign
      <4> QED
        BY <3>1, <3>6, <3>10, <4>1 DEF IdsLeft, N
    <3> QED
      BY <3>3, <3>4, <3>5, <3>11
  <2> QED
    BY <2>3, <2>4
<1> QED
  BY <1>1, <1>2, <1>4, <1>5 DEF t

LEMMA InformationFacts ==
  ASSUME NEW id \in Ids
  PROVE  /\ Information(id) \in Seq(Ids \X (1..Pieces)) /\ Len(Information(id)) = Pieces
         /\ \A i \in 1..Pieces : Information(id)[i] = Piece(id, i)
<1>1. Pieces \in Nat
  BY OracleAssumption
<1> QED
  BY <1>1, IsASeq DEF Information, Piece

LEMMA TakeInfo ==
  ASSUME NEW s \in Seq(PacketType), s # <<>>, NEW r \in Nat \ {0}, NEW id \in Ids, NEW m, NEW d,
         InfoLeft(s, r, id, m, d), Head(s).dejavu = r
  PROVE  /\ Head(s).kind = "metadata" =>
              Head(s).body[1] \in Ids /\ InfoLeft(Tail(s), r, id, Head(s).body[1], d)
         /\ Head(s).kind = "data" =>
              /\ InfoLeft(Tail(s), r, id, m, d \o Head(s).body)
              /\ d \o Head(s).body \in Seq(Ids \X (1..Pieces))
         /\ Head(s).kind = "end" /\ m = id => Tail(s) = <<>> /\ d = Information(id)
<1> DEFINE t == Tail(s)
           h == s[1]
           P == Pieces + 1
<1>1. /\ Len(s) \in Nat \ {0} /\ Head(s) = h
      /\ Len(t) = Len(s) - 1
      /\ \A i \in 1..(Len(s) - 1) : t[i] = s[i + 1]
      /\ Len(s) = 1 => t = <<>>
  BY TakeFacts
<1> HIDE DEF t
<1>2. PICK k \in 0..Len(s) :
        /\ Foreign(s, k)
        /\ \/ Len(s) = k + 1 /\ s[k + 1].kind = "end" /\ m = 0
           \/ \E j \in 0..P : PiecesLeft(s, r, id, m, d, k, j)
  BY DEF InfoLeft
<1>3. k = 0
  BY <1>1, <1>2, NoForeignFirst
<1>4. CASE Len(s) = k + 1 /\ s[k + 1].kind = "end" /\ m = 0
  <2>1. id # 0
    BY OracleAssumption
  <2> QED
    BY <1>1, <1>3, <1>4, <2>1
<1>5. ASSUME NEW j \in 0..P, PiecesLeft(s, r, id, m, d, k, j)
      PROVE  /\ h.kind = "metadata" => h.body[1] \in Ids /\ InfoLeft(t, r, id, h.body[1], d)
             /\ h.kind = "data" => InfoLeft(t, r, id, m, d \o h.body)
                                     /\ d \o h.body \in Seq(Ids \X (1..Pieces))
             /\ h.kind = "end" /\ m = id => t = <<>> /\ d = Information(id)
  <2>1. P \in Nat \ {0} /\ P - 1 = Pieces /\ Pieces \in Nat
    BY OracleAssumption
  <2>2. /\ Len(s) = P - j + 1 /\ s[Len(s)].kind = "end"
        /\ \A i \in 1..(P - j) : s[i] = InfoPacket(r, id, j + i)
        /\ SoFar(id, m, d, j)
    <3>1. /\ Len(s) = k + (P - j) + 1 /\ s[Len(s)].kind = "end"
          /\ \A i \in 1..(P - j) : s[k + i] = InfoPacket(r, id, j + i)
          /\ SoFar(id, m, d, j)
      BY <1>5 DEF PiecesLeft
    <3>2. k + (P - j) + 1 = P - j + 1 /\ \A i \in 1..(P - j) : k + i = i
      BY <1>3, <2>1
    <3> QED
      BY <3>1, <3>2
  <2>3. /\ Information(id) \in Seq(Ids \X (1..Pieces)) /\ Len(Information(id)) = Pieces
        /\ \A i \in 1..Pieces : Information(id)[i] = Piece(id, i)
    BY InformationFacts
  <2> HIDE DEF P
  <2>4. CASE j = P
    <3>1. Len(s) = 1 /\ d = SubSeq(Information(id), 1, Len(Information(id)))
      BY <2>1, <2>2, <2>3, <2>4 DEF SoFar
    <3> QED
      BY <1>1, <2>2, <2>3, <3>1, SubSeqFull
  <2>5. CASE j # P
    <3>1. j < P /\ 1 \in 1..(P - j) /\ j + 1 \in 0..P /\ j + 1 # 0 /\ j + 1 - 1 = j
      BY <2>1, <2>5
    <3>2. h = InfoPacket(r, id, j + 1)
      BY <2>2, <3>1
    <3>3. Foreign(t, 0)
      BY <1>1, <2>1, <2>2, <3>1 DEF Foreign
    <3>4. Len(t) = 0 + (P - (j + 1)) + 1
      BY <1>1, <2>1, <2>2, <3>1
    <3>5. t[Len(t)].kind = "end"
      <4>1. Len(t) \in 1..(Len(s) - 1) /\ Len(t) + 1 = Len(s)
        BY <1>1, <2>1, <2>2, <3>1
      <4> QED
        BY <1>1, <2>2, <4>1
    <3>6. ASSUME NEW i \in 1..(P - (j + 1)) PROVE t[0 + i] = InfoPacket(r, id, j + 1 + i)
      <4>1. i \in 1..(Len(s) - 1) /\ i + 1 \in 1..(P - j) /\ 0 + i = i /\ j + (i + 1) = j + 1 + i
        BY <1>1, <2>1, <2>2, <3>1
      <4>2. t[i] = s[i + 1] /\ s[i + 1] = InfoPacket(r, id, j + (i + 1))
        BY <1>1, <2>2, <4>1
      <4> QED
        BY <4>1, <4>2
    <3>7. ASSUME NEW n, NEW e, n = id, e = SubSeq(Information(id), 1, j)
          PROVE  InfoLeft(t, r, id, n, e)
      <4>1. PiecesLeft(t, r, id, n, e, 0, j + 1)
        <5>1. SoFar(id, n, e, j + 1)
          BY <3>1, <3>7 DEF SoFar
        <5>2. j + 1 \in 0..(Pieces + 1)
          BY <3>1 DEF P
        <5> QED
          BY <3>4, <3>5, <3>6, <5>1, <5>2 DEF PiecesLeft, P
      <4>2. 0 \in 0..Len(t)
        BY <3>3 DEF Foreign
      <4> QED
        BY <3>1, <3>3, <4>1, <4>2 DEF InfoLeft, P
    <3>8. CASE j = 0
      <4>1. h = Packet(r, "metadata", <<id>>)
        BY <3>2, <3>8 DEF InfoPacket
      <4>2. h.kind = "metadata" /\ h.body[1] = id
        BY <4>1 DEF Packet
      <4>3. d = SubSeq(Information(id), 1, j)
        BY <2>2, <3>8, SubSeqEmpty DEF SoFar
      <4> QED
        BY <3>7, <4>2, <4>3
    <3>9. CASE j # 0
      <4>1. j + 1 # 1
        BY <3>9
      <4>2. h = Packet(r, "data", <<Piece(id, j)>>)
        BY <3>1, <3>2, <4>1 DEF InfoPacket
      <4>3. h.kind = "data" /\ h.body = <<Piece(id, j)>>
        BY <4>2 DEF Packet
      <4>4. j \in 1..Pieces
        BY <2>1, <3>1, <3>9
      <4>5. m = id /\ d = SubSeq(Information(id), 1, j - 1)
        BY <2>2, <3>9 DEF SoFar
      <4>6. d \o h.body = SubSeq(Information(id), 1, j)
        <5>1. 1 \in 1..Len(Information(id)) /\ j \in 1..Len(Information(id))
          BY <2>1, <2>3, <4>4
        <5> QED
          BY <2>3, <4>3, <4>4, <4>5, <5>1, SubSeqRecursiveSecond
      <4>7. SubSeq(Information(id), 1, j) \in Seq(Ids \X (1..Pieces))
        <5>1. 0 + j <= Len(Information(id)) /\ j \in Nat
          BY <2>3, <4>4
        <5>2. SubSeq(Information(id), 0 + 1, 0 + j) \in Seq(Ids \X (1..Pieces))
          BY <2>3, <5>1, StretchFacts
        <5>3. 0 + 1 = 1 /\ 0 + j = j
          BY <5>1
        <5> QED
          BY <5>2, <5>3
      <4> QED
        BY <3>7, <4>3, <4>5, <4>6, <4>7
    <3> QED
      BY <3>8, <3>9
  <2> QED
    BY <2>4, <2>5
<1> QED
  BY <1>1, <1>2, <1>4, <1>5 DEF t

-----------------------------------------------------------------------------
(* What a request is answered with.                                         *)

LEMMA EndFacts ==
  ASSUME NEW r \in Nat
  PROVE  EndRespond(r) \in PacketType /\ EndRespond(r).kind = "end" /\ EndRespond(r).dejavu = r
<1> DEFINE kind == "end"
           none == <<>>
<1>1. kind \in Kinds /\ none \in Seq(Nat \cup (Ids \X (1..Pieces)))
  BY EmptySeq DEF Kinds
<1>2. EndRespond(r) = Packet(r, kind, none)
  BY DEF EndRespond
<1> HIDE DEF kind, none
<1>3. EndRespond(r) \in PacketType /\ EndRespond(r).kind = kind /\ EndRespond(r).dejavu = r
  BY <1>1, <1>2, PacketTyped
<1> QED
  BY <1>3 DEF kind

LEMMA IdsAnswered ==
  ASSUME NEW q \in Seq(Ids), NEW r \in Nat \ {0}, NEW t \in Nat,
         NEW a \in {Append(Chunks(r, q), EndRespond(r)),
                    <<Packet(r, "tickRange", <<t>>), EndRespond(r)>>}
  PROVE  IdsLeft(a, r, q, <<>>) /\ Bounded(a, r)
<1> DEFINE e == EndRespond(r)
           N == NumberOfChunks(q)
<1>1. e \in PacketType /\ e.kind = "end" /\ e.dejavu = r
  BY EndFacts
<1> HIDE DEF e
<1>2. CASE a = Append(Chunks(r, q), e)
  <2> DEFINE c == Chunks(r, q)
  <2>1. /\ c \in Seq(PacketType) /\ Len(c) = N /\ N \in Nat
        /\ \A i \in 1..N : c[i] = IdsPacket(r, q, i)
    BY ChunksAre, CountFacts
  <2> HIDE DEF c, N
  <2>2. a = Append(c, e)
    BY <1>2 DEF c
  <2>3. /\ a \in Seq(PacketType) /\ Len(a) = N + 1 /\ a[N + 1] = e
        /\ \A i \in 1..N : a[i] = IdsPacket(r, q, i)
    BY SMTT(30), <1>1, <2>1, <2>2, AppendProperties
  <2>4. Foreign(a, 0)
    BY <2>1, <2>3 DEF Foreign
  <2>5. ChunksLeft(a, r, q, <<>>, 0, 0)
    <3>1. Len(a) = 0 + (N - 0) + 1 /\ 0 \in 0..N /\ \A i \in 1..(N - 0) : i \in 1..N /\ 0 + i = i
      BY <2>1, <2>3
    <3>2. <<>> = SubSeq(q, 1, Cut(q, 0))
      <4>1. Cut(q, 0) = 0
        BY <3>1, CutFacts DEF N
      <4> QED
        BY <4>1, SubSeqEmpty
    <3>3. a[Len(a)].kind = "end"
      BY <1>1, <2>3
    <3>4. \A i \in 1..(N - 0) : a[0 + i] = IdsPacket(r, q, 0 + i)
      BY <2>3, <3>1
    <3> QED
      BY <3>1, <3>2, <3>3, <3>4 DEF ChunksLeft, N
  <2>6. IdsLeft(a, r, q, <<>>)
    <3>1. 0 \in 0..Len(a) /\ 0 \in 0..NumberOfChunks(q)
      BY <2>1, <2>3 DEF N
    <3> QED
      BY <2>4, <2>5, <3>1 DEF IdsLeft
  <2>7. ASSUME NEW i \in 1..Len(a) PROVE a[i].dejavu <= r
    <3>1. i = N + 1 \/ i \in 1..N
      BY <2>1, <2>3
    <3>2. \A j : IdsPacket(r, q, j).dejavu = r
      BY DEF IdsPacket, Packet
    <3> QED
      BY <1>1, <2>3, <3>1, <3>2
  <2> QED
    BY <2>3, <2>6, <2>7 DEF Bounded
<1>3. CASE a = <<Packet(r, "tickRange", <<t>>), e>>
  <2> DEFINE kind == "tickRange"
             body == <<t>>
             p == Packet(r, kind, body)
  <2>1. kind \in Kinds /\ body \in Seq(Nat \cup (Ids \X (1..Pieces)))
    BY DEF Kinds
  <2> HIDE DEF kind, body
  <2>2. p \in PacketType /\ p.dejavu = r /\ p.kind = kind
    BY <2>1, PacketTyped
  <2>3. a = <<p, e>>
    BY <1>3 DEF kind, body
  <2> HIDE DEF p
  <2>4. a \in Seq(PacketType) /\ Len(a) = 2 /\ a[1] = p /\ a[2] = e
    BY <1>1, <2>2, <2>3
  <2>5. a[0 + 1].kind = "tickRange" /\ 0 \in 0..Len(a) /\ Foreign(a, 0)
    BY <2>2, <2>4 DEF Foreign, kind
  <2>6. \A i \in 1..Len(a) : a[i].dejavu <= r
    BY <1>1, <2>2, <2>4
  <2> QED
    BY <2>4, <2>5, <2>6 DEF IdsLeft, Bounded
<1> QED
  BY <1>2, <1>3 DEF e

LEMMA InfoPacketTyped ==
  ASSUME NEW r \in Nat, NEW id \in Ids, NEW i \in 1..(Pieces + 1)
  PROVE  InfoPacket(r, id, i) \in PacketType /\ InfoPacket(r, id, i).dejavu = r
<1> DEFINE B == Nat \cup (Ids \X (1..Pieces))
<1>1. CASE i = 1
  <2> DEFINE kind == "metadata"
             body == <<id>>
  <2>1. kind \in Kinds /\ body \in Seq(B)
    <3>1. id \in B
      BY OracleAssumption
    <3> HIDE DEF B
    <3> QED
      BY <3>1 DEF Kinds
  <2>2. InfoPacket(r, id, i) = Packet(r, kind, body)
    BY <1>1 DEF InfoPacket
  <2> HIDE DEF kind, body
  <2> QED
    BY <2>1, <2>2, PacketTyped
<1>2. CASE i # 1
  <2> DEFINE kind == "data"
             body == <<Piece(id, i - 1)>>
  <2>1. kind \in Kinds /\ body \in Seq(B)
    <3>1. i - 1 \in 1..Pieces
      BY <1>2, OracleAssumption
    <3>2. Piece(id, i - 1) \in B
      BY <3>1 DEF Piece
    <3> HIDE DEF B
    <3> QED
      BY <3>2 DEF Kinds
  <2>2. InfoPacket(r, id, i) = Packet(r, kind, body)
    BY <1>2 DEF InfoPacket
  <2> HIDE DEF kind, body
  <2> QED
    BY <2>1, <2>2, PacketTyped
<1> QED
  BY <1>1, <1>2

LEMMA InfoAnswered ==
  ASSUME NEW id \in Ids, NEW r \in Nat \ {0}, NEW a \in InfoAnswers(r, id)
  PROVE  InfoLeft(a, r, id, 0, <<>>) /\ Bounded(a, r)
<1> DEFINE e == EndRespond(r)
           first == <<Packet(r, "metadata", <<id>>)>>
           ps == [i \in 1..Pieces |-> Packet(r, "data", <<Piece(id, i)>>)]
           last == <<e>>
<1>1. e \in PacketType /\ e.kind = "end" /\ e.dejavu = r
  BY EndFacts
<1>2. a = (first \o ps) \o last \/ a = last
  BY DEF InfoAnswers
<1> HIDE DEF e
<1>3. Pieces \in Nat /\ Pieces + 1 \in Nat
  BY OracleAssumption
<1>4. CASE a = last
  <2>1. a \in Seq(PacketType) /\ Len(a) = 1 /\ a[1] = e
    BY <1>1, <1>4
  <2>2. a[0 + 1].kind = "end" /\ Len(a) = 0 + 1 /\ 0 \in 0..Len(a) /\ Foreign(a, 0)
    BY <1>1, <2>1 DEF Foreign
  <2>3. \A i \in 1..Len(a) : a[i].dejavu <= r
    BY <1>1, <2>1
  <2> QED
    BY <2>1, <2>2, <2>3 DEF InfoLeft, Bounded
<1>5. CASE a = (first \o ps) \o last
  <2>1. /\ first \in Seq(PacketType) /\ Len(first) = 1 /\ first[1] = InfoPacket(r, id, 1)
    <3> DEFINE p == Packet(r, "metadata", <<id>>)
    <3>1. 1 \in 1..(Pieces + 1) /\ InfoPacket(r, id, 1) = p
      BY <1>3 DEF InfoPacket
    <3>2. p \in PacketType
      BY <3>1, InfoPacketTyped
    <3> HIDE DEF p
    <3>3. <<p>> \in Seq(PacketType) /\ Len(<<p>>) = 1 /\ <<p>>[1] = p
      BY <3>2
    <3> QED
      BY <3>1, <3>3 DEF p
  <2>2. /\ ps \in Seq(PacketType) /\ Len(ps) = Pieces
        /\ \A i \in 1..Pieces : ps[i] = InfoPacket(r, id, i + 1)
    <3>1. ASSUME NEW i \in 1..Pieces
          PROVE  /\ Packet(r, "data", <<Piece(id, i)>>) = InfoPacket(r, id, i + 1)
                 /\ Packet(r, "data", <<Piece(id, i)>>) \in PacketType
      <4>1. i + 1 \in 1..(Pieces + 1) /\ i + 1 # 1 /\ i + 1 - 1 = i
        BY <1>3
      <4>2. Packet(r, "data", <<Piece(id, i)>>) = InfoPacket(r, id, i + 1)
        BY <4>1 DEF InfoPacket
      <4> QED
        BY <4>1, <4>2, InfoPacketTyped
    <3> DEFINE f(i) == Packet(r, "data", <<Piece(id, i)>>)
    <3>2. ps = [i \in 1..Pieces |-> f(i)] /\ \A i \in 1..Pieces : f(i) \in PacketType
      BY <3>1
    <3> HIDE DEF f
    <3>3. ps \in Seq(PacketType) /\ Len(ps) = Pieces
      <4> HIDE DEF ps
      <4> QED
        BY <1>3, <3>2, IsASeq
    <3> QED
      BY <3>1, <3>3
  <2>3. last \in Seq(PacketType) /\ Len(last) = 1 /\ last[1] = e
    BY <1>1
  <2> HIDE DEF first, ps, last
  <2> DEFINE u == first \o ps
  <2>4. /\ u \in Seq(PacketType) /\ Len(u) = Len(first) + Len(ps)
        /\ \A i \in 1..(Len(first) + Len(ps)) :
             u[i] = IF i <= Len(first) THEN first[i] ELSE ps[i - Len(first)]
    BY <2>1, <2>2, ConcatProperties
  <2> HIDE DEF u
  <2>5. Len(u) = Pieces + 1
    BY <1>3, <2>1, <2>2, <2>4
  <2>6. ASSUME NEW i \in 1..(Pieces + 1) PROVE u[i] = InfoPacket(r, id, i)
    <3>1. i \in 1..(Len(first) + Len(ps))
      BY <1>3, <2>1, <2>2
    <3>2. CASE i = 1
      BY <2>1, <2>4, <3>1, <3>2
    <3>3. CASE i # 1
      <4>1. ~(i <= Len(first)) /\ i - Len(first) = i - 1 /\ i - 1 \in 1..Pieces /\ i - 1 + 1 = i
        BY <1>3, <2>1, <3>3
      <4>2. u[i] = ps[i - 1]
        BY <2>4, <3>1, <4>1
      <4>3. ps[i - 1] = InfoPacket(r, id, i)
        BY <2>2, <4>1
      <4> QED
        BY <4>2, <4>3
    <3> QED
      BY <3>2, <3>3
  <2>7. /\ a \in Seq(PacketType) /\ Len(a) = Len(u) + Len(last)
        /\ \A i \in 1..(Len(u) + Len(last)) : a[i] = IF i <= Len(u) THEN u[i] ELSE last[i - Len(u)]
    <3>1. a = u \o last
      BY <1>5 DEF u
    <3> QED
      BY ZenonT(60), <2>3, <2>4, <3>1, ConcatProperties
  <2>8. Len(a) = Pieces + 1 + 1 /\ a[Pieces + 1 + 1] = e
    <3>1. /\ Pieces + 1 + 1 \in 1..(Len(u) + Len(last)) /\ ~(Pieces + 1 + 1 <= Len(u))
          /\ Pieces + 1 + 1 - Len(u) = 1
      BY <1>3, <2>3, <2>5
    <3> QED
      BY <1>3, <2>3, <2>5, <2>7, <3>1
  <2>9. ASSUME NEW i \in 1..(Pieces + 1) PROVE a[i] = InfoPacket(r, id, i)
    <3>1. i \in 1..(Len(u) + Len(last)) /\ i <= Len(u)
      BY <1>3, <2>3, <2>5
    <3> QED
      BY <2>6, <2>7, <3>1
  <2>10. Foreign(a, 0) /\ 0 \in 0..Len(a)
    BY <1>3, <2>8 DEF Foreign
  <2>11. PiecesLeft(a, r, id, 0, <<>>, 0, 0)
    <3>1. /\ Len(a) = 0 + ((Pieces + 1) - 0) + 1
          /\ \A i \in 1..((Pieces + 1) - 0) : i \in 1..(Pieces + 1) /\ 0 + i = i
      BY <1>3, <2>8
    <3>2. a[Len(a)].kind = "end"
      BY <1>1, <2>8
    <3>3. SoFar(id, 0, <<>>, 0)
      BY DEF SoFar
    <3>4. \A i \in 1..((Pieces + 1) - 0) : a[0 + i] = InfoPacket(r, id, 0 + i)
      BY <2>9, <3>1
    <3> QED
      BY <3>1, <3>2, <3>3, <3>4 DEF PiecesLeft
  <2>12. InfoLeft(a, r, id, 0, <<>>)
    <3>1. 0 \in 0..(Pieces + 1)
      BY <1>3
    <3> QED
      BY <2>10, <2>11, <3>1 DEF InfoLeft
  <2>13. ASSUME NEW i \in 1..Len(a) PROVE a[i].dejavu <= r
    <3>1. i = Pieces + 1 + 1 \/ i \in 1..(Pieces + 1)
      BY <1>3, <2>8
    <3>2. \A j \in 1..(Pieces + 1) : InfoPacket(r, id, j).dejavu = r
      BY InfoPacketTyped
    <3> QED
      BY <1>1, <2>8, <2>9, <3>1, <3>2
  <2> QED
    BY <2>7, <2>12, <2>13 DEF Bounded
<1> QED
  BY <1>2, <1>4, <1>5

-----------------------------------------------------------------------------
(* What is printed is what comes first of the whole range.                  *)

LEMMA Regrouped ==
  ASSUME NEW a \in Seq(Ids), NEW b \in Seq(Ids), NEW c \in Seq(Ids)
  PROVE  /\ a \o (b \o c) = (a \o b) \o c
         /\ a \o b \in Seq(Ids) /\ b \o c \in Seq(Ids)
  BY ConcatAssociative, ConcatProperties

LEMMA BeforeIsPrefix ==
  ASSUME queries \in [1..Ticks -> Seq(Ids)], NEW t \in 0..Ticks
  PROVE  \E e \in Seq(Ids) : Before[t] \o e = Before[Ticks]
<1> DEFINE T == {n \in Nat : n <= Ticks => \E e \in Seq(Ids) : Before[Ticks - n] \o e = Before[Ticks]}
<1>1. Ticks \in Nat \ {0} /\ \A n \in 0..Ticks : Before[n] \in Seq(Ids)
  BY OracleAssumption, BeforeFacts
<1>2. 0 \in T
  <2>1. Ticks - 0 = Ticks /\ Ticks \in 0..Ticks
    BY <1>1
  <2>2. Before[Ticks - 0] \o <<>> = Before[Ticks] /\ <<>> \in Seq(Ids)
    BY <1>1, <2>1, ConcatEmptySeq, EmptySeq
  <2> QED
    BY <2>2
<1>3. ASSUME NEW n \in Nat, n \in T PROVE n + 1 \in T
  <2> SUFFICES ASSUME n + 1 <= Ticks
               PROVE  \E e \in Seq(Ids) : Before[Ticks - (n + 1)] \o e = Before[Ticks]
    OBVIOUS
  <2>1. PICK e \in Seq(Ids) : Before[Ticks - n] \o e = Before[Ticks]
    <3>1. n <= Ticks
      BY <1>1
    <3> QED
      BY <1>3, <3>1
  <2> DEFINE k == Ticks - n
  <2>2. k \in 1..Ticks /\ k - 1 = Ticks - (n + 1)
    BY <1>1
  <2>3. /\ Before[k - 1] \in Seq(Ids) /\ queries[k] \in Seq(Ids)
        /\ Before[k] = Before[k - 1] \o queries[k]
    BY <2>2, BeforeStep
  <2> DEFINE b == Before[k - 1]
             q == queries[k]
  <2>4. b \in Seq(Ids) /\ q \in Seq(Ids) /\ Before[k] = b \o q
    BY <2>3
  <2> HIDE DEF b, q
  <2>5. b \o (q \o e) = (b \o q) \o e /\ q \o e \in Seq(Ids)
    BY SMTT(30), <2>4, Regrouped
  <2>6. b \o (q \o e) = Before[Ticks]
    BY <2>1, <2>4, <2>5
  <2> QED
    BY <2>2, <2>5, <2>6 DEF b
<1> HIDE DEF T
<1>4. Ticks - t \in T
  <2>1. Ticks - t \in Nat
    BY <1>1
  <2> QED
    BY <1>2, <1>3, <2>1, SetInduction
<1>5. Ticks - (Ticks - t) = t /\ Ticks - t <= Ticks
  BY <1>1
<1> QED
  BY <1>4, <1>5 DEF T

IsFirstOutput ==
  \E d, e \in Seq(Ids) : d \o e = Before[Ticks] /\ printed = Outs(getAllDetails, d)

LEMMA OutputIsFirst == TypeInv /\ PrintedInv => IsFirstOutput
<1> SUFFICES ASSUME TypeInv, PrintedInv PROVE IsFirstOutput
  OBVIOUS
<1>1. /\ queries \in [1..Ticks -> Seq(Ids)] /\ tick \in 1..(Ticks + 1) /\ queryIds \in Seq(Ids)
      /\ Ticks \in Nat \ {0}
  BY OracleAssumption DEF TypeInv
<1>2. \A n \in 0..Ticks : Before[n] \in Seq(Ids)
  BY <1>1, BeforeFacts
<1>3. CASE pc \in {"ids", "recvIds"}
  <2>1. tick - 1 \in 0..Ticks /\ printed = Outs(getAllDetails, Before[tick - 1])
    BY <1>1, <1>3 DEF PrintedInv
  <2>2. PICK e \in Seq(Ids) : Before[tick - 1] \o e = Before[Ticks]
    BY <1>1, <2>1, BeforeIsPrefix
  <2> QED
    BY <1>2, <2>1, <2>2 DEF IsFirstOutput
<1>4. CASE pc \in {"info", "recvInfo", "foreign"}
  <2>1. PICK d \in Seq(Ids) : /\ d \o queryIds = queries[tick]
                              /\ printed = Outs(getAllDetails, Before[tick - 1] \o d)
    BY <1>4 DEF PrintedInv
  <2>2. tick \in 1..Ticks /\ tick \in 0..Ticks
    BY <1>1, <1>4 DEF PrintedInv
  <2>3. PICK e \in Seq(Ids) : Before[tick] \o e = Before[Ticks]
    BY <1>1, <2>2, BeforeIsPrefix
  <2> DEFINE b == Before[tick - 1]
  <2>4. b \in Seq(Ids) /\ Before[tick] = b \o queries[tick]
    BY <1>1, <2>2, BeforeStep
  <2> HIDE DEF b
  <2>5. /\ b \o (d \o queryIds) = (b \o d) \o queryIds
        /\ ((b \o d) \o queryIds) \o e = (b \o d) \o (queryIds \o e)
        /\ b \o d \in Seq(Ids) /\ queryIds \o e \in Seq(Ids)
    <3>1. b \o (d \o queryIds) = (b \o d) \o queryIds /\ b \o d \in Seq(Ids)
      BY <1>1, <2>4, Regrouped
    <3> DEFINE c == b \o d
    <3> HIDE DEF c
    <3>2. c \o (queryIds \o e) = (c \o queryIds) \o e /\ queryIds \o e \in Seq(Ids)
      <4>1. c \in Seq(Ids)
        BY <3>1 DEF c
      <4> QED
        BY SMTT(30), <1>1, <4>1, Regrouped
    <3> QED
      BY <3>1, <3>2 DEF c
  <2>6. (b \o d) \o (queryIds \o e) = Before[Ticks]
    BY <2>1, <2>3, <2>4, <2>5
  <2> QED
    BY <2>1, <2>5, <2>6 DEF IsFirstOutput, b
<1>5. CASE pc = "done"
  <2>1. printed = Outs(getAllDetails, Before[Ticks]) /\ Ticks \in 0..Ticks
    BY <1>1, <1>5 DEF PrintedInv
  <2>2. Before[Ticks] \o <<>> = Before[Ticks] /\ <<>> \in Seq(Ids)
    BY <1>2, <2>1, ConcatEmptySeq, EmptySeq
  <2> QED
    BY <1>2, <2>1, <2>2 DEF IsFirstOutput
<1>6. CASE pc = "aborted"
  BY <1>6 DEF PrintedInv, IsFirstOutput
<1> QED
  BY <1>3, <1>4, <1>5, <1>6 DEF TypeInv

-----------------------------------------------------------------------------
(* The invariant holds at first, and each step preserves it.                *)

LEMMA NoneFacts ==
  None \in PacketType /\ None.dejavu = 0
<1> DEFINE kind == "none"
           empty == <<>>
           zero == 0
<1>1. kind \in Kinds /\ empty \in Seq(Nat \cup (Ids \X (1..Pieces))) /\ zero \in Nat
  BY EmptySeq DEF Kinds
<1>2. None = Packet(zero, kind, empty)
  BY DEF None
<1> HIDE DEF kind, empty, zero
<1>3. None \in PacketType /\ None.dejavu = zero
  BY <1>1, <1>2, PacketTyped
<1> QED
  BY <1>3 DEF zero

LEMMA InvInit == Init => Inv
<1> SUFFICES ASSUME Init PROVE Inv
  OBVIOUS
<1>1. TickIds \subseteq Seq(Ids)
  <2>1. Cardinality(Ids) \in Nat
    BY OracleAssumption, FS_CardinalityType
  <2>2. \A n \in 0..Cardinality(Ids) : [1..n -> Ids] \subseteq Seq(Ids)
    BY <2>1
  <2> QED
    BY <2>2 DEF TickIds
<1>2. queries \in [1..Ticks -> Seq(Ids)] /\ Ticks \in Nat \ {0} /\ MaxForeign \in Nat
  BY <1>1, OracleAssumption DEF Init
<1>3. /\ <<>> \in Seq(Ids) /\ <<>> \in Seq(PacketType) /\ <<>> \in Seq(Ids \X (1..Pieces))
      /\ <<>> \in Seq(Output) /\ Len(<<>>) = 0
  BY EmptySeq
<1>4. TypeInv
  <2>1. Bounded(stream, request)
    BY <1>3 DEF Init, Bounded
  <2> QED
    BY <1>2, <1>3, <2>1, NoneFacts DEF Init, TypeInv
<1>5. PrintedInv
  <2>1. Before[0] = <<>>
    BY <1>2, BeforeFacts DEF Spells
  <2>2. Outs(getAllDetails, <<>>) = <<>>
    BY <1>3, EmptySeq DEF Outs
  <2>3. tick - 1 = 0 /\ tick <= Ticks /\ pc = "ids" /\ printed = <<>>
    BY <1>2 DEF Init
  <2> QED
    BY <2>1, <2>2, <2>3 DEF PrintedInv
<1>6. StreamInv
  BY DEF Init, StreamInv
<1> QED
  BY <1>4, <1>5, <1>6 DEF Inv

(* The answers to come are never in doubt: the queries are what they were.  *)
LEMMA BeforeKept ==
  ASSUME UNCHANGED queries
  PROVE  Before' = Before
  BY DEF Before, Spells

LEMMA AbortStep ==
  ASSUME Inv, pc' = "aborted", Bounded(stream, request)',
         UNCHANGED <<node, getAllDetails, tick, request, header, queryIds, metadata, data, printed>>
  PROVE  Inv'
<1>1. UNCHANGED <<queries, foreign, getAllDetails, tick, request, header, queryIds, metadata, data, printed>>
  BY DEF node
<1>2. TypeInv'
  BY <1>1 DEF Inv, TypeInv
<1>3. StreamInv'
  BY DEF StreamInv
<1>4. PrintedInv'
  <2>1. PICK d \in Seq(Ids), e \in Seq(Ids) :
          d \o e = Before[Ticks] /\ printed = Outs(getAllDetails, d)
    BY OutputIsFirst DEF Inv, IsFirstOutput
  <2>2. Before' = Before
    BY <1>1, BeforeKept
  <2>3. d \o e = Before'[Ticks] /\ printed' = Outs(getAllDetails', d)
    BY <1>1, <2>1, <2>2
  <2> QED
    BY <2>3 DEF PrintedInv
<1> QED
  BY <1>2, <1>3, <1>4 DEF Inv

LEMMA RequestIdsStep ==
  ASSUME Inv, RequestIds
  PROVE  Inv'
<1>1. /\ pc = "ids" /\ pc' = "recvIds" /\ request' = request + 1 /\ queryIds' = <<>>
      /\ UNCHANGED <<queries, foreign, getAllDetails, tick, header, metadata, data, printed>>
  BY DEF RequestIds, node
<1>2. /\ stream = <<>> /\ tick <= Ticks /\ printed = Outs(getAllDetails, Before[tick - 1])
      /\ TypeInv
  BY <1>1 DEF Inv, StreamInv, PrintedInv
<1>3. /\ request' \in Nat \ {0} /\ tick \in 1..Ticks /\ tick \in Nat /\ queries[tick] \in Seq(Ids)
      /\ header.dejavu <= request'
  <2>1. /\ request \in Nat /\ tick \in 1..(Ticks + 1) /\ queries \in [1..Ticks -> Seq(Ids)]
        /\ header \in PacketType /\ header.dejavu <= request
    BY <1>2 DEF TypeInv
  <2>2. header.dejavu \in Nat
    BY <2>1 DEF PacketType
  <2> QED
    BY <1>1, <1>2, <2>1, <2>2, OracleAssumption
<1>4. PICK a \in IdsAnswers(request', tick) : stream' = stream \o a
  BY DEF RequestIds
<1>5. /\ IdsLeft(a, request', queries[tick], <<>>) /\ Bounded(a, request')
  BY <1>3, <1>4, IdsAnswered DEF IdsAnswers
<1>6. stream' = a
  BY <1>2, <1>4, <1>5, ConcatEmptySeq DEF Bounded
<1>7. TypeInv'
  <2>1. <<>> \in Seq(Ids)
    BY EmptySeq
  <2> QED
    BY <1>1, <1>2, <1>3, <1>5, <1>6, <2>1 DEF TypeInv
<1>8. StreamInv'
  BY <1>1, <1>3, <1>5, <1>6 DEF StreamInv
<1>9. PrintedInv'
  BY <1>1, <1>2, BeforeKept DEF PrintedInv
<1> QED
  BY <1>7, <1>8, <1>9 DEF Inv

LEMMA ReceiveIdsStep ==
  ASSUME Inv, ReceiveIds
  PROVE  Inv'
<1>1. /\ pc = "recvIds" /\ stream # <<>> /\ Head(stream).dejavu = request /\ Head(stream).kind = "ids"
      /\ queryIds' = queryIds \o Head(stream).body /\ stream' = Tail(stream)
      /\ UNCHANGED <<queries, foreign, getAllDetails, pc, tick, request, header, metadata, data, printed>>
  BY DEF ReceiveIds, node, Received
<1>2. /\ IdsLeft(stream, request, queries[tick], queryIds) /\ request \in Nat \ {0}
      /\ tick <= Ticks /\ printed = Outs(getAllDetails, Before[tick - 1])
      /\ TypeInv /\ Bounded(stream, request)
  BY <1>1 DEF Inv, StreamInv, PrintedInv, TypeInv
<1>3. queries[tick] \in Seq(Ids) /\ stream \in Seq(PacketType)
  <2>1. tick \in 1..Ticks
    BY <1>2, OracleAssumption DEF TypeInv
  <2> QED
    BY <1>2, <2>1 DEF TypeInv, Bounded
<1>4. IdsLeft(stream', request, queries[tick], queryIds') /\ queryIds' \in Seq(Ids)
  BY <1>1, <1>2, <1>3, TakeIds
<1>5. Bounded(stream', request)
  BY <1>1, <1>2, TakeBounded
<1>6. TypeInv'
  BY <1>1, <1>2, <1>4, <1>5 DEF TypeInv
<1>7. StreamInv'
  BY <1>1, <1>2, <1>4 DEF StreamInv
<1>8. PrintedInv'
  BY <1>1, <1>2, BeforeKept DEF PrintedInv
<1> QED
  BY <1>6, <1>7, <1>8 DEF Inv

LEMMA ReceiveIdsEndStep ==
  ASSUME Inv, ReceiveIdsEnd
  PROVE  Inv'
<1>1. /\ pc = "recvIds" /\ stream # <<>> /\ Head(stream).dejavu = request /\ Head(stream).kind = "end"
      /\ stream' = Tail(stream) /\ pc' = "info"
      /\ IF getAllDetails THEN UNCHANGED <<queryIds, printed>>
         ELSE printed' = printed \o Unread(queryIds) /\ queryIds' = <<>>
      /\ UNCHANGED <<queries, foreign, getAllDetails, tick, request, header, metadata, data>>
  BY DEF ReceiveIdsEnd, node, Received
<1>2. /\ IdsLeft(stream, request, queries[tick], queryIds) /\ request \in Nat \ {0}
      /\ tick <= Ticks /\ printed = Outs(getAllDetails, Before[tick - 1])
      /\ TypeInv /\ Bounded(stream, request)
  BY <1>1 DEF Inv, StreamInv, PrintedInv, TypeInv
<1>3. /\ queries[tick] \in Seq(Ids) /\ stream \in Seq(PacketType) /\ queryIds \in Seq(Ids)
      /\ Before[tick - 1] \in Seq(Ids) /\ printed \in Seq(Output) /\ getAllDetails \in BOOLEAN
  <2>1. tick \in 1..Ticks
    BY <1>2, OracleAssumption DEF TypeInv
  <2> QED
    BY <1>2, <2>1, BeforeStep DEF TypeInv, Bounded
<1>4. stream' = <<>> /\ queryIds = queries[tick]
  BY <1>1, <1>2, <1>3, TakeIds
<1>5. Bounded(stream', request)
  BY <1>1, <1>2, TakeBounded
<1> DEFINE b == Before[tick - 1]
<1>6. \E d \in Seq(Ids) : d \o queryIds' = queries[tick] /\ printed' = Outs(getAllDetails, b \o d)
  <2>1. CASE getAllDetails
    <3>1. <<>> \o queryIds' = queries[tick] /\ b \o <<>> = b /\ <<>> \in Seq(Ids)
      BY <1>1, <1>3, <1>4, <2>1, ConcatEmptySeq, EmptySeq
    <3> QED
      BY <1>1, <1>2, <2>1, <3>1
  <2>2. CASE ~getAllDetails
    <3>1. getAllDetails = FALSE
      BY <1>3, <2>2
    <3>2. Unread(queryIds) = Outs(getAllDetails, queryIds)
      BY <3>1 DEF Unread, Outs, Out
    <3>3. printed' = Outs(getAllDetails, b \o queryIds)
      <4> HIDE DEF b
      <4>1. b \in Seq(Ids) /\ printed = Outs(getAllDetails, b)
        BY <1>2, <1>3 DEF b
      <4>2. Outs(getAllDetails, b \o queryIds)
              = Outs(getAllDetails, b) \o Outs(getAllDetails, queryIds)
        BY <1>3, <4>1, OutsConcat
      <4> QED
        BY <1>1, <2>2, <3>2, <4>1, <4>2
    <3>4. queryIds \o queryIds' = queries[tick]
      BY <1>1, <1>3, <1>4, <2>2, ConcatEmptySeq
    <3> QED
      BY <1>3, <3>3, <3>4
  <2> QED
    BY <2>1, <2>2
<1>7. TypeInv'
  <2>1. printed' \in Seq(Output) /\ queryIds' \in Seq(Ids)
    <3>1. CASE getAllDetails
      BY <1>1, <1>3, <3>1
    <3>2. CASE ~getAllDetails
      <4>1. PICK d \in Seq(Ids) : printed' = Outs(getAllDetails, b \o d)
        BY <1>6
      <4>2. b \o d \in Seq(Ids)
        BY <1>3, ConcatProperties
      <4>3. <<>> \in Seq(Ids)
        BY EmptySeq
      <4> QED
        BY <1>1, <1>3, <3>2, <4>1, <4>2, <4>3, OutsFacts
    <3> QED
      BY <3>1, <3>2
  <2> QED
    BY <1>1, <1>2, <1>5, <2>1 DEF TypeInv
<1>8. StreamInv'
  BY <1>1, <1>4 DEF StreamInv
<1>9. PrintedInv'
  BY <1>1, <1>2, <1>6, BeforeKept DEF PrintedInv
<1> QED
  BY <1>7, <1>8, <1>9 DEF Inv

(* "Unexpected dejavu!", "Unexpected packet type!", a header or a payload   *)
(* that does not arrive.                                                    *)
LEMMA RefusedStep ==
  ASSUME Inv, RefuseIds \/ TimesOut
  PROVE  Inv'
<1>1. /\ pc' = "aborted" /\ pc \in {"recvIds", "recvInfo", "foreign"}
      /\ UNCHANGED <<node, getAllDetails, tick, request, header, queryIds, metadata, data, printed>>
      /\ UNCHANGED stream \/ (stream # <<>> /\ stream' = Tail(stream))
  BY DEF RefuseIds, TimesOut, Abort
<1>2. Bounded(stream, request)
  BY DEF Inv, TypeInv
<1>3. Bounded(stream', request')
  BY <1>1, <1>2, TakeBounded
<1> QED
  BY <1>1, <1>3, AbortStep

LEMMA SendForeignStep ==
  ASSUME Inv, SendForeign
  PROVE  Inv'
<1>1. /\ pc \in {"recvIds", "recvInfo"} /\ foreign < MaxForeign /\ foreign' = foreign + 1
      /\ UNCHANGED <<queries, getAllDetails, pc, tick, request, header, queryIds, metadata, data, printed>>
  BY DEF SendForeign
<1>2. PICK p \in ForeignPackets : stream' = <<p>> \o stream
  BY DEF SendForeign
<1>3. /\ TypeInv /\ Bounded(stream, request) /\ request \in Nat \ {0} /\ foreign' \in 0..MaxForeign
  <2>1. MaxForeign \in Nat
    BY OracleAssumption
  <2>2. TypeInv /\ Bounded(stream, request) /\ request \in Nat /\ request > 0 /\ foreign \in 0..MaxForeign
    BY <1>1 DEF Inv, TypeInv, StreamInv
  <2> QED
    BY <1>1, <2>1, <2>2
<1>4. Bounded(stream', request)
  BY <1>2, <1>3, PrependBounded
<1>5. TypeInv'
  BY <1>1, <1>3, <1>4 DEF TypeInv
<1>6. StreamInv'
  <2>1. stream \in Seq(PacketType)
    BY <1>3 DEF Bounded
  <2>2. CASE pc = "recvIds"
    <3>1. queries[tick] \in Seq(Ids)
      <4>1. tick \in 1..Ticks
        BY <1>3, <2>2, OracleAssumption DEF Inv, PrintedInv, TypeInv
      <4> QED
        BY <1>3, <4>1 DEF TypeInv
    <3>2. IdsLeft(stream, request, queries[tick], queryIds)
      BY <2>2 DEF Inv, StreamInv
    <3>3. IdsLeft(stream', request, queries[tick], queryIds)
      BY <1>2, <2>1, <3>1, <3>2, PrependIds
    <3> QED
      BY <1>1, <1>3, <2>2, <3>3 DEF StreamInv
  <2>3. CASE pc = "recvInfo"
    <3>1. queryIds # <<>> /\ InfoLeft(stream, request, Head(queryIds), metadata, data)
      BY <2>3 DEF Inv, StreamInv
    <3>2. InfoLeft(stream', request, Head(queryIds), metadata, data)
      BY <1>2, <2>1, <3>1, PrependInfo
    <3> QED
      BY <1>1, <1>3, <2>3, <3>1, <3>2 DEF Inv, StreamInv
  <2> QED
    BY <1>1, <2>2, <2>3
<1>7. PrintedInv'
  BY <1>1, BeforeKept DEF Inv, PrintedInv
<1> QED
  BY <1>5, <1>6, <1>7 DEF Inv

LEMMA RequestInfoStep ==
  ASSUME Inv, RequestInfo
  PROVE  Inv'
<1>1. /\ pc = "info" /\ queryIds # <<>> /\ request' = request + 1 /\ metadata' = 0 /\ data' = <<>>
      /\ pc' = "recvInfo"
      /\ UNCHANGED <<queries, foreign, getAllDetails, tick, header, queryIds, printed>>
  BY DEF RequestInfo, node
<1>2. stream = <<>> /\ TypeInv
  BY <1>1 DEF Inv, StreamInv
<1>3. PICK a \in InfoAnswers(request', Head(queryIds)) : stream' = stream \o a
  BY DEF RequestInfo
<1>4. /\ request' \in Nat \ {0} /\ Head(queryIds) \in Ids /\ header.dejavu <= request'
  <2>1. /\ request \in Nat /\ queryIds \in Seq(Ids)
        /\ header \in PacketType /\ header.dejavu <= request
    BY <1>2 DEF TypeInv
  <2>2. header.dejavu \in Nat
    BY <2>1 DEF PacketType
  <2>3. Head(queryIds) \in Ids
    BY <1>1, <2>1, HeadTailProperties
  <2> QED
    BY <1>1, <2>1, <2>2, <2>3
<1>5. InfoLeft(a, request', Head(queryIds), 0, <<>>) /\ Bounded(a, request')
  BY <1>3, <1>4, InfoAnswered
<1>6. stream' = a
  BY <1>2, <1>3, <1>5, ConcatEmptySeq DEF Bounded
<1>7. TypeInv'
  <2>1. <<>> \in Seq(Ids \X (1..Pieces))
    BY EmptySeq
  <2> QED
    BY <1>1, <1>2, <1>4, <1>5, <1>6, <2>1 DEF TypeInv
<1>8. StreamInv'
  <2>1. getAllDetails
    BY <1>1 DEF Inv, StreamInv
  <2> QED
    BY <1>1, <1>4, <1>5, <1>6, <2>1 DEF StreamInv
<1>9. PrintedInv'
  BY <1>1, BeforeKept DEF Inv, PrintedInv
<1> QED
  BY <1>7, <1>8, <1>9 DEF Inv

LEMMA ReceiveInfoStep ==
  ASSUME Inv, ReceiveInfo
  PROVE  Inv'
<1>1. /\ pc = "recvInfo" /\ stream # <<>> /\ Head(stream).dejavu = request
      /\ stream' = Tail(stream) /\ header' = Head(stream)
      /\ \/ Head(stream).kind = "metadata" /\ metadata' = Head(stream).body[1] /\ UNCHANGED data
         \/ Head(stream).kind = "data" /\ data' = data \o Head(stream).body /\ UNCHANGED metadata
      /\ UNCHANGED <<queries, foreign, getAllDetails, pc, tick, request, queryIds, printed>>
  BY DEF ReceiveInfo, Unmatched, Received, node
<1>2. /\ queryIds # <<>> /\ InfoLeft(stream, request, Head(queryIds), metadata, data)
      /\ TypeInv /\ Bounded(stream, request) /\ request \in Nat \ {0} /\ queryIds \in Seq(Ids)
      /\ stream \in Seq(PacketType)
  BY <1>1 DEF Inv, StreamInv, TypeInv, Bounded
<1>3. Head(queryIds) \in Ids
  BY <1>2, HeadTailProperties
<1>4. Bounded(stream', request) /\ header' \in PacketType /\ header'.dejavu <= request
  BY <1>1, <1>2, TakeBounded
<1>5. /\ InfoLeft(stream', request, Head(queryIds), metadata', data')
      /\ metadata' \in Ids \cup {0} /\ data' \in Seq(Ids \X (1..Pieces))
  <2>1. metadata \in Ids \cup {0} /\ data \in Seq(Ids \X (1..Pieces))
    BY <1>2 DEF TypeInv
  <2>2. /\ Head(stream).kind = "metadata" =>
             /\ Head(stream).body[1] \in Ids
             /\ InfoLeft(Tail(stream), request, Head(queryIds), Head(stream).body[1], data)
        /\ Head(stream).kind = "data" =>
             /\ InfoLeft(Tail(stream), request, Head(queryIds), metadata, data \o Head(stream).body)
             /\ data \o Head(stream).body \in Seq(Ids \X (1..Pieces))
    BY <1>1, <1>2, <1>3, TakeInfo
  <2> QED
    BY <1>1, <2>1, <2>2
<1>6. TypeInv'
  BY <1>1, <1>2, <1>4, <1>5 DEF TypeInv
<1>7. StreamInv'
  <2>1. getAllDetails
    BY <1>1, <1>2 DEF Inv, StreamInv
  <2> QED
    BY <1>1, <1>2, <1>5, <2>1 DEF StreamInv
<1>8. PrintedInv'
  BY <1>1, BeforeKept DEF Inv, PrintedInv
<1> QED
  BY <1>6, <1>7, <1>8 DEF Inv

LEMMA ReceiveInfoEndStep ==
  ASSUME Inv, ReceiveInfoEnd
  PROVE  Inv'
<1>1. /\ pc = "recvInfo" /\ stream # <<>> /\ Head(stream).dejavu = request /\ Head(stream).kind = "end"
      /\ stream' = Tail(stream)
  BY DEF ReceiveInfoEnd, Unmatched, Received
<1>2. /\ queryIds # <<>> /\ InfoLeft(stream, request, Head(queryIds), metadata, data)
      /\ TypeInv /\ Bounded(stream, request) /\ request \in Nat \ {0} /\ queryIds \in Seq(Ids)
      /\ stream \in Seq(PacketType) /\ tick <= Ticks
  BY <1>1 DEF Inv, StreamInv, TypeInv, Bounded, PrintedInv
<1>3. Bounded(stream', request)
  BY <1>1, <1>2, TakeBounded
<1>4. CASE metadata # Head(queryIds) /\ Abort
  <2>1. Bounded(stream, request)'
    BY <1>3, <1>4 DEF Abort
  <2> QED
    BY <1>4, <2>1, AbortStep DEF Abort
<1>5. CASE /\ metadata = Head(queryIds)
           /\ printed' = Append(printed, [id |-> metadata, data |-> data])
           /\ queryIds' = Tail(queryIds) /\ pc' = "info"
           /\ UNCHANGED <<node, getAllDetails, tick, request, header, metadata, data>>
  <2>1. UNCHANGED <<queries, foreign, getAllDetails, tick, request, header, metadata, data>>
    BY <1>5 DEF node
  <2> DEFINE id == Head(queryIds)
             rest == Tail(queryIds)
             b == Before[tick - 1]
  <2>2. id \in Ids /\ rest \in Seq(Ids) /\ queryIds = <<id>> \o rest
    BY <1>2, HeadTailProperties
  <2>3. stream' = <<>> /\ data = Information(id)
    BY <1>1, <1>2, <1>5, <2>2, TakeInfo
  <2>4. PICK d \in Seq(Ids) : d \o queryIds = queries[tick] /\ printed = Outs(getAllDetails, b \o d)
    BY <1>1 DEF Inv, PrintedInv
  <2>5. b \in Seq(Ids) /\ getAllDetails \in BOOLEAN
    <3>1. tick \in 1..Ticks
      BY <1>2, OracleAssumption DEF TypeInv
    <3> QED
      BY <1>2, <3>1, BeforeStep DEF TypeInv
  <2>6. getAllDetails = TRUE
    BY <1>1, <1>2 DEF Inv, StreamInv, TypeInv
  <2> HIDE DEF id, rest, b
  <2> DEFINE c == Append(d, id)
  <2>7. c = d \o <<id>> /\ c \in Seq(Ids) /\ <<id>> \in Seq(Ids)
    BY <2>2, AppendIsConcat, AppendProperties
  <2>8. c \o rest = queries[tick]
    <3>1. d \o (<<id>> \o rest) = (d \o <<id>>) \o rest
      <4> DEFINE o == <<id>>
      <4>1. o \in Seq(Ids)
        BY <2>7
      <4> HIDE DEF o
      <4>2. d \o (o \o rest) = (d \o o) \o rest
        BY SMTT(30), <2>2, <4>1, Regrouped
      <4> QED
        BY <4>2 DEF o
    <3> QED
      BY <2>2, <2>4, <2>7, <3>1
  <2>9. printed' = Outs(getAllDetails, b \o c)
    <3>1. [id |-> metadata, data |-> data] = Out(getAllDetails, id)
      BY <1>5, <2>3, <2>6 DEF Out, id
    <3>2. b \o d \in Seq(Ids)
      BY <2>5, ConcatProperties
    <3>3. Append(Outs(getAllDetails, b \o d), Out(getAllDetails, id))
            = Outs(getAllDetails, Append(b \o d, id))
      BY <2>2, <2>5, <3>2, OutsAppend
    <3>4. Append(b \o d, id) = b \o c
      <4> DEFINE o == <<id>>
                 a == b \o d
      <4>1. o \in Seq(Ids) /\ c = d \o o /\ a \in Seq(Ids)
        BY <2>7, <3>2
      <4>2. Append(a, id) = a \o o
        BY <2>2, <3>2, AppendIsConcat
      <4> HIDE DEF o, c
      <4>3. b \o (d \o o) = (b \o d) \o o
        BY <2>5, <4>1, Regrouped
      <4> QED
        BY <4>1, <4>2, <4>3
    <3> QED
      BY <1>5, <2>4, <3>1, <3>3, <3>4
  <2> HIDE DEF c
  <2>10. printed' \in Seq(Output)
    <3>1. b \o c \in Seq(Ids)
      BY <2>5, <2>7, ConcatProperties
    <3> QED
      BY <2>5, <2>9, <3>1, OutsFacts
  <2>11. TypeInv'
    BY <1>2, <1>3, <1>5, <2>1, <2>2, <2>10 DEF TypeInv, rest
  <2>12. StreamInv'
    BY <1>5, <2>1, <2>3, <2>6 DEF StreamInv
  <2>13. PrintedInv'
    <3>1. Before' = Before
      BY <2>1, BeforeKept
    <3>2. /\ c \o queryIds' = queries'[tick']
          /\ printed' = Outs(getAllDetails', Before'[tick' - 1] \o c)
      BY <1>5, <2>1, <2>8, <2>9, <3>1 DEF b, rest
    <3> QED
      BY <1>2, <1>5, <2>1, <2>7, <3>2 DEF PrintedInv
  <2> QED
    BY <2>11, <2>12, <2>13 DEF Inv
<1> QED
  BY <1>4, <1>5 DEF ReceiveInfoEnd

(* A packet for another request: its payload, again and again.              *)
LEMMA ForeignStep ==
  ASSUME Inv, ReceiveForeign \/ ReadPayloadAgain
  PROVE  Inv'
<1>1. /\ pc \in {"recvInfo", "foreign"} /\ pc' = "foreign"
      /\ UNCHANGED stream \/ (stream # <<>> /\ stream' = Tail(stream))
      /\ header' = header \/ (stream # <<>> /\ header' = Head(stream))
      /\ UNCHANGED <<queries, foreign, getAllDetails, tick, request, queryIds, metadata, data, printed>>
  BY DEF ReceiveForeign, ReadPayloadAgain, Received, node
<1>2. Bounded(stream, request) /\ TypeInv /\ header \in PacketType /\ header.dejavu <= request
  BY DEF Inv, TypeInv
<1>3. Bounded(stream', request) /\ header' \in PacketType /\ header'.dejavu <= request
  BY <1>1, <1>2, TakeBounded
<1>4. TypeInv'
  BY <1>1, <1>2, <1>3 DEF TypeInv
<1>5. StreamInv'
  BY <1>1 DEF StreamInv
<1>6. PrintedInv'
  BY <1>1, BeforeKept DEF Inv, PrintedInv
<1> QED
  BY <1>4, <1>5, <1>6 DEF Inv

LEMMA NextTickStep ==
  ASSUME Inv, NextTick
  PROVE  Inv'
<1>1. /\ pc = "info" /\ queryIds = <<>> /\ tick' = tick + 1
      /\ pc' = IF tick' <= Ticks THEN "ids" ELSE "done"
      /\ UNCHANGED <<queries, foreign, getAllDetails, request, stream, header,
                     queryIds, metadata, data, printed>>
  BY DEF NextTick, node
<1>2. TypeInv /\ tick \in 1..Ticks /\ stream = <<>>
  BY <1>1, OracleAssumption DEF Inv, StreamInv, PrintedInv, TypeInv
<1>3. PICK d \in Seq(Ids) : /\ d \o queryIds = queries[tick]
                            /\ printed = Outs(getAllDetails, Before[tick - 1] \o d)
  BY <1>1 DEF Inv, PrintedInv
<1>4. d = queries[tick]
  BY <1>1, <1>3, ConcatEmptySeq
<1>5. Before[tick] = Before[tick - 1] \o queries[tick]
  BY <1>2, BeforeStep DEF TypeInv
<1>6. tick' \in 1..(Ticks + 1) /\ tick' - 1 = tick /\ (~(tick' <= Ticks) => tick = Ticks)
      /\ pc' \in {"ids", "done"} /\ (pc' = "done" => tick = Ticks) /\ (pc' = "ids" => tick' <= Ticks)
  BY <1>1, <1>2, OracleAssumption
<1>7. TypeInv'
  BY <1>1, <1>2, <1>6 DEF TypeInv
<1>8. StreamInv'
  BY <1>1, <1>2, <1>6 DEF StreamInv
<1>9. PrintedInv'
  <2>1. Before' = Before
    BY <1>1, BeforeKept
  <2>2. printed' = Outs(getAllDetails', Before'[tick' - 1])
    BY <1>1, <1>3, <1>4, <1>5, <1>6, <2>1
  <2>3. pc' = "done" => tick' = Ticks + 1 /\ tick' - 1 = Ticks
    BY <1>1, <1>6
  <2> QED
    BY <1>6, <2>2, <2>3 DEF PrintedInv
<1> QED
  BY <1>7, <1>8, <1>9 DEF Inv

THEOREM Invariance == Spec => []Inv
<1>1. Init => Inv
  BY InvInit
<1>2. Inv /\ [Next]_vars => Inv'
  <2> SUFFICES ASSUME Inv, [Next]_vars PROVE Inv'
    OBVIOUS
  <2>1. CASE UNCHANGED vars
    <3>1. UNCHANGED <<queries, getAllDetails, pc, tick, request, stream, header,
                      queryIds, metadata, data, printed, foreign>>
      BY <2>1 DEF vars
    <3>2. TypeInv'
      BY <3>1 DEF Inv, TypeInv
    <3>3. StreamInv'
      BY <3>1 DEF Inv, StreamInv
    <3>4. PrintedInv'
      BY <3>1, BeforeKept DEF Inv, PrintedInv
    <3> QED
      BY <3>2, <3>3, <3>4 DEF Inv
  <2> QED
    BY <2>1, RequestIdsStep, ReceiveIdsStep, ReceiveIdsEndStep, RefusedStep, RequestInfoStep,
       ReceiveInfoStep, ReceiveInfoEndStep, ForeignStep, NextTickStep, SendForeignStep
    DEF Next, Client, Terminated
<1> QED
  BY <1>1, <1>2, PTL DEF Spec

-----------------------------------------------------------------------------
(* Requests, packets and output have their declared shapes, and nothing on  *)
(* the stream has the number of a request still to come.                    *)
THEOREM TypeCorrect == Spec => []TypeOK
<1>1. Inv => TypeOK
  <2> SUFFICES ASSUME Inv PROVE TypeOK
    OBVIOUS
  <2>1. ASSUME NEW p \in ToSet(stream) \cup {header}
        PROVE  p.dejavu \in 0..request /\ p.kind \in Kinds
    <3>1. /\ stream \in Seq(PacketType) /\ \A i \in 1..Len(stream) : stream[i].dejavu <= request
          /\ header \in PacketType /\ header.dejavu <= request /\ request \in Nat
      BY DEF Inv, TypeInv, Bounded
    <3>2. p \in PacketType /\ p.dejavu <= request
      <4>1. CASE p = header
        BY <3>1, <4>1
      <4>2. CASE p \in ToSet(stream)
        <5>1. PICK i \in 1..Len(stream) : p = stream[i]
          BY <3>1, <4>2, LenProperties DEF ToSet
        <5> QED
          BY <3>1, <5>1, ElementOfSeq
      <4> QED
        BY <4>1, <4>2
    <3> QED
      BY <3>1, <3>2 DEF PacketType
  <2> QED
    BY <2>1 DEF Inv, TypeInv, TypeOK
<1> QED
  BY <1>1, Invariance, PTL

(* The whole range, printed.                                                *)
LEMMA ExpectedIs ==
  ASSUME TypeInv
  PROVE  Expected = Outs(getAllDetails, Before[Ticks]) /\ Before[Ticks] \in Seq(Ids)
<1>1. /\ queries \in [1..Ticks -> Seq(Ids)] /\ getAllDetails \in BOOLEAN /\ Ticks \in 0..Ticks
  BY OracleAssumption DEF TypeInv
<1>2. FlattenSeq(queries) = Before[Ticks] /\ Before[Ticks] \in Seq(Ids)
  BY <1>1, BeforeIsFlattened, BeforeFacts
<1>3. CASE getAllDetails
  BY <1>2, <1>3 DEF Expected, Outs, Out
<1>4. CASE ~getAllDetails
  BY <1>2, <1>4 DEF Expected, Outs, Out, Unread
<1> QED
  BY <1>2, <1>3, <1>4

(* What -getoraclequery prints is the answer to its requests, whole and in  *)
(* order, and never a part of another's (receiveQueryIds and                *)
(* receiveQueryInformation), for any range of ticks and any chunk size, and *)
(* whatever packets of its own the node sends in between.                   *)
THEOREM PrintedAreAnswers == Spec => []PrintedIsAnswered
<1>1. Inv => PrintedIsAnswered
  <2> SUFFICES ASSUME Inv PROVE IsPrefix(printed, Expected)
    BY DEF PrintedIsAnswered
  <2>1. PICK d \in Seq(Ids), e \in Seq(Ids) :
          d \o e = Before[Ticks] /\ printed = Outs(getAllDetails, d)
    BY OutputIsFirst DEF Inv, IsFirstOutput
  <2>2. getAllDetails \in BOOLEAN /\ Expected = Outs(getAllDetails, Before[Ticks])
    BY ExpectedIs DEF Inv, TypeInv
  <2> DEFINE s == Outs(getAllDetails, d)
             t == Outs(getAllDetails, e)
  <2>3. /\ s \in Seq(Output) /\ t \in Seq(Output) /\ Expected = s \o t /\ printed = s
    BY ZenonT(60), <2>1, <2>2, OutsFacts, OutsConcat
  <2> HIDE DEF s, t
  <2>4. IsPrefix(s, s \o t)
    <3>1. /\ s \o t \in Seq(Output) /\ Len(s \o t) = Len(s) + Len(t)
          /\ \A i \in 1..(Len(s) + Len(t)) : (s \o t)[i] = IF i <= Len(s) THEN s[i] ELSE t[i - Len(s)]
          /\ Len(s) \in Nat /\ Len(t) \in Nat
      BY <2>3, ConcatProperties, LenProperties
    <3> DEFINE u == s \o t
               n == Len(s)
    <3>2. /\ u \in Seq(Output) /\ n \in Nat /\ 0 + n <= Len(u) /\ 0 + n <= Len(s)
          /\ \A i \in 1..n : u[i] = s[i]
      BY <3>1
    <3> HIDE DEF u, n
    <3>3. /\ SubSeq(u, 0 + 1, 0 + n) \in Seq(Output) /\ Len(SubSeq(u, 0 + 1, 0 + n)) = n
          /\ \A i \in 1..n : SubSeq(u, 0 + 1, 0 + n)[i] = u[0 + i]
      BY <3>2, StretchFacts
    <3>4. 0 + 1 = 1 /\ 0 + n = n /\ \A i \in 1..n : 0 + i = i
      BY <3>2
    <3>5. SubSeq(u, 1, n) = s
      <4> DEFINE v == SubSeq(u, 1, n)
      <4>1. v \in Seq(Output) /\ Len(v) = n /\ \A i \in 1..n : v[i] = s[i]
        BY <3>2, <3>3, <3>4
      <4> HIDE DEF v
      <4>2. v = s
        BY <2>3, <4>1, SeqEqual DEF n
      <4> QED
        BY <4>2 DEF v
    <3>6. SubSeq(s, 1, n) = s
      BY <2>3, SubSeqFull DEF n
    <3> QED
      BY <3>2, <3>4, <3>5, <3>6 DEF IsPrefix, u, n
  <2> QED
    BY <2>3, <2>4
<1> QED
  BY <1>1, Invariance, PTL

(* A range that was gone through without an exception was printed to its    *)
(* last query.                                                              *)
THEOREM DoneMeansAll == Spec => []DoneIsComplete
<1>1. Inv => DoneIsComplete
  BY ExpectedIs DEF Inv, PrintedInv, DoneIsComplete
<1> QED
  BY <1>1, Invariance, PTL
=============================================================================
