-------------------------- MODULE QuorumVotes_proofs --------------------------
(***************************************************************************)
(* Proofs about QuorumVotes, for every set of computors, every quorum of   *)
(* more than half of them and every set of votes.  The argument has two    *)
(* parts.  What getUniqueVotes returns (Partition) is found by induction   *)
(* over the votes it goes through.  That the votes it goes through are of  *)
(* one tick and of different computors is an invariant of the connection   *)
(* (StreamInv): whatever timed out, a request is answered from one cast.   *)
(***************************************************************************)
EXTENDS QuorumVotes, TLAPS, WellFoundedInduction, SequenceTheorems, FiniteSetTheorems

Group == [vote : Votes, voters : Seq(Computors)]

Distinct(vs) ==
  \A i, j \in 1..Len(vs) : vs[i].computor = vs[j].computor => i = j

(* Up to the first END_RESPOND: n votes of different computors for tick t.  *)
Section(s, n, t) ==
  /\ n \in Nat /\ n < Len(s) /\ s[n + 1] = EndRespond
  /\ \A i \in 1..n : s[i] \in Votes /\ s[i].tick = t
  /\ \A i, j \in 1..n : s[i].computor = s[j].computor => i = j

(* The tick of the votes taken for the next one.                            *)
TickTaken == IF late THEN 0 ELSE 1

StreamInv ==
  /\ pc = "request" => stream = <<>>
  /\ pc = "collect" => \E n \in Nat : Section(stream, n, 0) /\ Len(stream) = n + 1
  /\ pc = "requestNext" => IF late THEN \E n \in Nat : Section(stream, n, 0) ELSE stream = <<>>
  /\ pc = "collectNext" => \E n \in Nat : Section(stream, n, TickTaken)
  /\ pc \in {"group", "reported", "ended", "undefined"} =>
       Distinct(votesNext) /\ \A i \in 1..Len(votesNext) : votesNext[i].tick = TickTaken

ResultInv ==
  /\ IF pc \in {"reported", "undefined"} THEN winner = QuorumVote(votesNext) ELSE winner = None
  /\ pc = "reported" => groups = UniqueVotes(votes, TRUE)

Inv == TypeOK /\ StreamInv /\ ResultInv

(* gs is what the first n votes give: a group for each class of like votes, *)
(* with those who cast them.                                                *)
Partition(vs, n, gs, ce) ==
  /\ gs \in Seq(Group)
  /\ \A i \in 1..Len(gs) : \E j \in 1..n : gs[i].vote = vs[j]
  /\ \A i \in 1..Len(gs) : \A k \in 1..Len(gs[i].voters) :
       \E j \in 1..n : gs[i].voters[k] = vs[j].computor /\ Alike(vs[j], gs[i].vote, ce)
  /\ \A i \in 1..Len(gs) : \A j \in 1..n : Alike(vs[j], gs[i].vote, ce) =>
       \E k \in 1..Len(gs[i].voters) : gs[i].voters[k] = vs[j].computor
  /\ \A j \in 1..n : \E i \in 1..Len(gs) : Alike(vs[j], gs[i].vote, ce)
  /\ \A i, k \in 1..Len(gs) : Alike(gs[i].vote, gs[k].vote, ce) => i = k

(* Nobody is in a group twice.                                              *)
NoneTwice(gs) ==
  \A i \in 1..Len(gs) : \A a, b \in 1..Len(gs[i].voters) :
    gs[i].voters[a] = gs[i].voters[b] => a = b

-----------------------------------------------------------------------------
(* Natural numbers.                                                         *)

LessThan == {ss \in Nat \X Nat : ss[1] < ss[2]}

LEMMA LessThanWellFounded == IsWellFoundedOn(LessThan, Nat)
  BY NatLessThanWellFounded DEF OpToRel, LessThan

LEMMA LeastNatural ==
  ASSUME NEW T, T \subseteq Nat, T # {}
  PROVE  \E n \in T : \A k \in T : n <= k
<1>1. PICK n \in T : \A k \in T : ~ (<<k, n>> \in LessThan)
  BY WFMin, LessThanWellFounded
<1>2. \A k \in T : ~ (k < n)
  BY <1>1 DEF LessThan
<1> QED
  BY <1>2

(* Induction, for a property given as the set of the numbers that have it.  *)
LEMMA SetInduction ==
  ASSUME NEW T, 0 \in T, \A n \in Nat : n \in T => n + 1 \in T
  PROVE  Nat \subseteq T
<1> SUFFICES ASSUME ~(Nat \subseteq T) PROVE FALSE
  OBVIOUS
<1>1. PICK n \in Nat \ T : \A k \in Nat \ T : n <= k
  <2>1. Nat \ T \subseteq Nat /\ Nat \ T # {}
    OBVIOUS
  <2> QED
    BY <2>1, LeastNatural
<1>2. n # 0 /\ n \in Nat
  BY <1>1
<1>3. n - 1 \in Nat /\ n - 1 \in T
  BY <1>1, <1>2
<1>4. n - 1 + 1 = n
  BY <1>2
<1>5. n - 1 + 1 \in T
  BY <1>3
<1> QED
  BY <1>1, <1>4, <1>5

-----------------------------------------------------------------------------
(* The recursive functions exist: each is what its definition says.         *)

LEMMA GroupsOfExists ==
  ASSUME NEW vs, Len(vs) \in Nat, NEW ce
  PROVE  \E g : /\ g[0] = <<>> /\ UniqueVotes(vs, ce) = g[Len(vs)]
                /\ \A n \in 1..Len(vs) : g[n] = AddVote(g[n - 1], vs[n], ce)
<1> DEFINE Is(g, m) == g = [n \in 0..m |-> IF n = 0 THEN <<>> ELSE AddVote(g[n - 1], vs[n], ce)]
           T == {m \in Nat : \E g : Is(g, m)}
<1>1. 0 \in T
  <2> DEFINE g == [n \in 0..0 |-> <<>>]
  <2>1. Is(g, 0)
    OBVIOUS
  <2> QED
    BY <2>1
<1>2. ASSUME NEW m \in Nat, m \in T PROVE m + 1 \in T
  <2>1. PICK g : Is(g, m)
    BY <1>2
  <2> DEFINE h == [n \in 0..(m + 1) |-> IF n = m + 1 THEN AddVote(g[m], vs[m + 1], ce) ELSE g[n]]
             r == [n \in 0..(m + 1) |-> IF n = 0 THEN <<>> ELSE AddVote(h[n - 1], vs[n], ce)]
  <2>2. ASSUME NEW n \in 0..(m + 1) PROVE h[n] = r[n]
    <3>1. CASE n = m + 1
      <4>1. n # 0 /\ n - 1 = m /\ m \in 0..(m + 1) /\ m # m + 1
        BY <3>1
      <4>2. h[m] = g[m]
        BY <4>1
      <4> QED
        BY <3>1, <4>1, <4>2
    <3>2. CASE n \in 1..m
      <4>1. n # m + 1 /\ n - 1 \in 0..(m + 1) /\ n - 1 # m + 1 /\ n # 0 /\ n \in 0..m
        BY <3>2
      <4>2. h[n] = g[n] /\ h[n - 1] = g[n - 1]
        BY <4>1
      <4>3. g[n] = AddVote(g[n - 1], vs[n], ce)
        BY <2>1, <4>1
      <4> QED
        BY <4>1, <4>2, <4>3
    <3>3. CASE n = 0
      <4>1. 0 \in 0..m /\ 0 # m + 1 /\ 0 \in 0..(m + 1)
        OBVIOUS
      <4>2. h[0] = g[0] /\ g[0] = <<>>
        BY <2>1, <4>1
      <4> QED
        BY <3>3, <4>1, <4>2
    <3> QED
      BY <3>1, <3>2, <3>3
  <2>3. h = r
    <3>1. h = [n \in 0..(m + 1) |-> h[n]] /\ r = [n \in 0..(m + 1) |-> r[n]]
      OBVIOUS
    <3> HIDE DEF h, r
    <3> QED
      BY <2>2, <3>1
  <2> HIDE DEF h
  <2>4. Is(h, m + 1)
    BY <2>3
  <2> QED
    BY <2>4
<1> HIDE DEF T
<1>3. Len(vs) \in T
  BY <1>1, <1>2, SetInduction
<1> DEFINE g == CHOOSE x : Is(x, Len(vs))
<1>4. Is(g, Len(vs))
  <2>1. \E x : Is(x, Len(vs))
    BY <1>3 DEF T
  <2> HIDE DEF Is
  <2> QED
    BY <2>1
<1>5. UniqueVotes(vs, ce) = g[Len(vs)]
  BY DEF UniqueVotes
<1> HIDE DEF g
<1>6. g[0] = <<>> /\ \A n \in 1..Len(vs) : g[n] = AddVote(g[n - 1], vs[n], ce)
  <2>1. 0 \in 0..Len(vs)
    OBVIOUS
  <2>2. \A n \in 1..Len(vs) : n \in 0..Len(vs) /\ n # 0
    OBVIOUS
  <2> QED
    BY <1>4, <2>1, <2>2
<1> QED
  BY <1>5, <1>6

KeepVote(kept, v, next) == IF SaltsAgree(v, next) THEN Append(kept, v) ELSE kept

LEMMA KeptExists ==
  ASSUME NEW vs, Len(vs) \in Nat, NEW next
  PROVE  \E g : /\ g[0] = <<>> /\ KeepAgreeing(vs, next) = g[Len(vs)]
                /\ \A n \in 1..Len(vs) : g[n] = KeepVote(g[n - 1], vs[n], next)
<1> DEFINE Is(g, m) == g = [n \in 0..m |-> IF n = 0 THEN <<>> ELSE KeepVote(g[n - 1], vs[n], next)]
           T == {m \in Nat : \E g : Is(g, m)}
<1>1. 0 \in T
  <2> DEFINE g == [n \in 0..0 |-> <<>>]
  <2>1. Is(g, 0)
    OBVIOUS
  <2> QED
    BY <2>1
<1>2. ASSUME NEW m \in Nat, m \in T PROVE m + 1 \in T
  <2>1. PICK g : Is(g, m)
    BY <1>2
  <2> DEFINE h == [n \in 0..(m + 1) |-> IF n = m + 1 THEN KeepVote(g[m], vs[m + 1], next) ELSE g[n]]
             r == [n \in 0..(m + 1) |-> IF n = 0 THEN <<>> ELSE KeepVote(h[n - 1], vs[n], next)]
  <2>2. ASSUME NEW n \in 0..(m + 1) PROVE h[n] = r[n]
    <3>1. CASE n = m + 1
      <4>1. n # 0 /\ n - 1 = m /\ m \in 0..(m + 1) /\ m # m + 1
        BY <3>1
      <4>2. h[m] = g[m]
        BY <4>1
      <4> QED
        BY <3>1, <4>1, <4>2
    <3>2. CASE n \in 1..m
      <4>1. n # m + 1 /\ n - 1 \in 0..(m + 1) /\ n - 1 # m + 1 /\ n # 0 /\ n \in 0..m
        BY <3>2
      <4>2. h[n] = g[n] /\ h[n - 1] = g[n - 1]
        BY <4>1
      <4>3. g[n] = KeepVote(g[n - 1], vs[n], next)
        BY <2>1, <4>1
      <4> QED
        BY <4>1, <4>2, <4>3
    <3>3. CASE n = 0
      <4>1. 0 \in 0..m /\ 0 # m + 1 /\ 0 \in 0..(m + 1)
        OBVIOUS
      <4>2. h[0] = g[0] /\ g[0] = <<>>
        BY <2>1, <4>1
      <4> QED
        BY <3>3, <4>1, <4>2
    <3> QED
      BY <3>1, <3>2, <3>3
  <2>3. h = r
    <3>1. h = [n \in 0..(m + 1) |-> h[n]] /\ r = [n \in 0..(m + 1) |-> r[n]]
      OBVIOUS
    <3> HIDE DEF h, r
    <3> QED
      BY <2>2, <3>1
  <2> HIDE DEF h
  <2>4. Is(h, m + 1)
    BY <2>3
  <2> QED
    BY <2>4
<1> HIDE DEF T
<1>3. Len(vs) \in T
  BY <1>1, <1>2, SetInduction
<1> DEFINE g == CHOOSE x : Is(x, Len(vs))
<1>4. Is(g, Len(vs))
  <2>1. \E x : Is(x, Len(vs))
    BY <1>3 DEF T
  <2> HIDE DEF Is
  <2> QED
    BY <2>1
<1>5. KeepAgreeing(vs, next) = g[Len(vs)]
  BY DEF KeepAgreeing, KeepVote
<1> HIDE DEF g
<1>6. g[0] = <<>> /\ \A n \in 1..Len(vs) : g[n] = KeepVote(g[n - 1], vs[n], next)
  <2>1. 0 \in 0..Len(vs)
    OBVIOUS
  <2>2. \A n \in 1..Len(vs) : n \in 0..Len(vs) /\ n # 0
    OBVIOUS
  <2> QED
    BY <1>4, <2>1, <2>2
<1> QED
  BY <1>5, <1>6

LEMMA CountedExists ==
  ASSUME NEW gs, Len(gs) \in Nat
  PROVE  \E g : /\ g[0] = 0 /\ VotesCounted(gs) = g[Len(gs)]
                /\ \A n \in 1..Len(gs) : g[n] = g[n - 1] + Len(gs[n].voters)
<1> DEFINE Is(g, m) == g = [n \in 0..m |-> IF n = 0 THEN 0 ELSE g[n - 1] + Len(gs[n].voters)]
           T == {m \in Nat : \E g : Is(g, m)}
<1>1. 0 \in T
  <2> DEFINE g == [n \in 0..0 |-> 0]
  <2>1. Is(g, 0)
    OBVIOUS
  <2> QED
    BY <2>1
<1>2. ASSUME NEW m \in Nat, m \in T PROVE m + 1 \in T
  <2>1. PICK g : Is(g, m)
    BY <1>2
  <2> DEFINE h == [n \in 0..(m + 1) |-> IF n = m + 1 THEN g[m] + Len(gs[m + 1].voters) ELSE g[n]]
             r == [n \in 0..(m + 1) |-> IF n = 0 THEN 0 ELSE h[n - 1] + Len(gs[n].voters)]
  <2>2. ASSUME NEW n \in 0..(m + 1) PROVE h[n] = r[n]
    <3>1. CASE n = m + 1
      <4>1. n # 0 /\ n - 1 = m /\ m \in 0..(m + 1) /\ m # m + 1
        BY <3>1
      <4>2. h[m] = g[m]
        BY <4>1
      <4> QED
        BY <3>1, <4>1, <4>2
    <3>2. CASE n \in 1..m
      <4>1. n # m + 1 /\ n - 1 \in 0..(m + 1) /\ n - 1 # m + 1 /\ n # 0 /\ n \in 0..m
        BY <3>2
      <4>2. h[n] = g[n] /\ h[n - 1] = g[n - 1]
        BY <4>1
      <4>3. g[n] = g[n - 1] + Len(gs[n].voters)
        BY <2>1, <4>1
      <4> QED
        BY <4>1, <4>2, <4>3
    <3>3. CASE n = 0
      <4>1. 0 \in 0..m /\ 0 # m + 1 /\ 0 \in 0..(m + 1)
        OBVIOUS
      <4>2. h[0] = g[0] /\ g[0] = 0
        BY <2>1, <4>1
      <4> QED
        BY <3>3, <4>1, <4>2
    <3> QED
      BY <3>1, <3>2, <3>3
  <2>3. h = r
    <3>1. h = [n \in 0..(m + 1) |-> h[n]] /\ r = [n \in 0..(m + 1) |-> r[n]]
      OBVIOUS
    <3> HIDE DEF h, r
    <3> QED
      BY <2>2, <3>1
  <2> HIDE DEF h
  <2>4. Is(h, m + 1)
    BY <2>3
  <2> QED
    BY <2>4
<1> HIDE DEF T
<1>3. Len(gs) \in T
  BY <1>1, <1>2, SetInduction
<1> DEFINE g == CHOOSE x : Is(x, Len(gs))
<1>4. Is(g, Len(gs))
  <2>1. \E x : Is(x, Len(gs))
    BY <1>3 DEF T
  <2> HIDE DEF Is
  <2> QED
    BY <2>1
<1>5. VotesCounted(gs) = g[Len(gs)]
  BY DEF VotesCounted
<1> HIDE DEF g
<1>6. g[0] = 0 /\ \A n \in 1..Len(gs) : g[n] = g[n - 1] + Len(gs[n].voters)
  <2>1. 0 \in 0..Len(gs)
    OBVIOUS
  <2>2. \A n \in 1..Len(gs) : n \in 0..Len(gs) /\ n # 0
    OBVIOUS
  <2> QED
    BY <1>4, <2>1, <2>2
<1> QED
  BY <1>5, <1>6

-----------------------------------------------------------------------------
(* Being alike is an equivalence.                                           *)
LEMMA AlikeFacts ==
  ASSUME NEW a, NEW b, NEW c, NEW ce
  PROVE  /\ Alike(a, a, ce)
         /\ Alike(a, b, ce) => Alike(b, a, ce)
         /\ Alike(a, b, ce) /\ Alike(b, c, ce) => Alike(a, c, ce)
  BY DEF Alike

(* The vote joins the first group it is like, or makes one.                 *)
Joins(gs, v, ce, r, f) ==
  /\ f \in 1..Len(gs) /\ Alike(v, gs[f].vote, ce) /\ Len(r) = Len(gs)
  /\ \A j \in 1..Len(gs) : r[j].vote = gs[j].vote /\ (j # f => r[j].voters = gs[j].voters)
  /\ r[f].voters = Append(gs[f].voters, v.computor)

Starts(gs, v, ce, r) ==
  /\ \A j \in 1..Len(gs) : ~Alike(v, gs[j].vote, ce)
  /\ Len(r) = Len(gs) + 1
  /\ \A j \in 1..Len(gs) : r[j] = gs[j]
  /\ r[Len(gs) + 1].vote = v /\ r[Len(gs) + 1].voters = <<v.computor>>

LEMMA AddVoteFacts ==
  ASSUME NEW gs \in Seq(Group), NEW v \in Votes, NEW ce
  PROVE  LET r == AddVote(gs, v, ce) IN
           r \in Seq(Group) /\ (Starts(gs, v, ce, r) \/ \E f : Joins(gs, v, ce, r, f))
<1> DEFINE alike == {j \in DOMAIN gs : Alike(v, gs[j].vote, ce)}
           first == CHOOSE j \in alike : \A k \in alike : j <= k
           one == [vote |-> v, voters |-> <<v.computor>>]
           r == AddVote(gs, v, ce)
<1>1. DOMAIN gs = 1..Len(gs) /\ Len(gs) \in Nat /\ v.computor \in Computors
  BY DEF Votes
<1>2. CASE alike = {}
  <2>1. r = Append(gs, one)
    BY <1>2 DEF AddVote
  <2>2. one \in Group /\ one.vote = v /\ one.voters = <<v.computor>>
    BY <1>1 DEF Group
  <2> HIDE DEF r, one
  <2>3. /\ r \in Seq(Group) /\ Len(r) = Len(gs) + 1 /\ r[Len(gs) + 1] = one
        /\ \A j \in 1..Len(gs) : r[j] = gs[j]
    BY <2>1, <2>2, AppendProperties
  <2>4. Starts(gs, v, ce, r)
    BY <1>1, <1>2, <2>2, <2>3 DEF Starts
  <2> QED
    BY <2>3, <2>4 DEF r
<1>3. CASE alike # {}
  <2>1. first \in alike
    <3>1. alike \subseteq Nat
      BY <1>1
    <3> HIDE DEF alike
    <3>2. \E j \in alike : \A k \in alike : j <= k
      BY <1>3, <3>1, LeastNatural
    <3> QED
      BY <3>2
  <2>2. r = [gs EXCEPT ![first].voters = Append(@, v.computor)]
    BY <1>3 DEF AddVote
  <2> HIDE DEF first
  <2>3. first \in 1..Len(gs) /\ Alike(v, gs[first].vote, ce)
    BY <1>1, <2>1
  <2> DEFINE g == [gs[first] EXCEPT !.voters = Append(@, v.computor)]
  <2>4. r = [gs EXCEPT ![first] = g]
    BY <2>2
  <2>5. gs[first] \in Group
    BY <2>3
  <2>6. g \in Group /\ g.vote = gs[first].vote /\ g.voters = Append(gs[first].voters, v.computor)
    <3>1. Append(gs[first].voters, v.computor) \in Seq(Computors)
      BY <1>1, <2>5, AppendProperties DEF Group
    <3> QED
      BY <2>5, <3>1 DEF Group
  <2> HIDE DEF r, g
  <2>7. /\ r \in Seq(Group) /\ Len(r) = Len(gs)
        /\ \A j \in 1..Len(gs) : r[j] = IF j = first THEN g ELSE gs[j]
    BY <2>3, <2>4, <2>6, ExceptSeq
  <2>8. Joins(gs, v, ce, r, first)
    BY <2>3, <2>6, <2>7 DEF Joins
  <2> QED
    BY <2>7, <2>8 DEF r
<1> QED
  BY <1>2, <1>3

LEMMA PartitionEmpty ==
  ASSUME NEW vs, NEW ce
  PROVE  Partition(vs, 0, <<>>, ce) /\ NoneTwice(<<>>)
  BY DEF Partition, NoneTwice

LEMMA PartitionStep ==
  ASSUME NEW vs \in Seq(Votes), NEW n \in 1..Len(vs), NEW gs, NEW ce,
         Partition(vs, n - 1, gs, ce)
  PROVE  LET r == AddVote(gs, vs[n], ce) IN
           /\ Partition(vs, n, r, ce)
           /\ Distinct(vs) /\ NoneTwice(gs) => NoneTwice(r)
<1> DEFINE r == AddVote(gs, vs[n], ce)
           v == vs[n]
           m == Len(gs)
           p == n - 1
<1>1. gs \in Seq(Group) /\ m \in Nat /\ n \in Nat /\ v \in Votes /\ p \in Nat /\ p = n - 1
  BY ElementOfSeq DEF Partition
<1> HIDE DEF p
<1>9. \A i \in 1..m : \E j \in 1..p : gs[i].vote = vs[j]
  BY DEF Partition, p
<1>10. \A i \in 1..m : \A k \in 1..Len(gs[i].voters) :
         \E j \in 1..p : gs[i].voters[k] = vs[j].computor /\ Alike(vs[j], gs[i].vote, ce)
  BY DEF Partition, p
<1>11. \A i \in 1..m : \A j \in 1..p : Alike(vs[j], gs[i].vote, ce) =>
         \E k \in 1..Len(gs[i].voters) : gs[i].voters[k] = vs[j].computor
  BY DEF Partition, p
<1>12. \A j \in 1..p : \E i \in 1..m : Alike(vs[j], gs[i].vote, ce)
  BY DEF Partition, p
<1>13. \A i, k \in 1..m : Alike(gs[i].vote, gs[k].vote, ce) => i = k
  BY DEF Partition
<1>2. r \in Seq(Group) /\ (Starts(gs, v, ce, r) \/ \E f : Joins(gs, v, ce, r, f))
  BY <1>1, AddVoteFacts
<1> HIDE DEF r
<1>3. \A i \in 1..m : gs[i].voters \in Seq(Computors) /\ Len(gs[i].voters) \in Nat
  <2>1. ASSUME NEW i \in 1..m PROVE gs[i] \in Group
    BY <1>1, ElementOfSeq
  <2> QED
    BY <2>1 DEF Group
<1>4. \A j \in 1..n : j = n \/ j \in 1..p
  BY <1>1
<1>5. \A j \in 1..p : j \in 1..n /\ j # n
  BY <1>1
<1>6. n \in 1..n
  BY <1>1
<1>7. CASE Starts(gs, v, ce, r)
  <2>1. /\ Len(r) = m + 1 /\ \A j \in 1..m : r[j] = gs[j] /\ ~Alike(v, gs[j].vote, ce)
        /\ r[m + 1].vote = v /\ r[m + 1].voters = <<v.computor>> /\ Len(r[m + 1].voters) = 1
    BY <1>7 DEF Starts
  <2>2. \A i \in 1..Len(r) : i = m + 1 \/ i \in 1..m
    BY <1>1, <2>1
  <2>3. m + 1 \in 1..Len(r) /\ \A i \in 1..m : i \in 1..Len(r)
    BY <1>1, <2>1
  <2>4. \A i \in 1..Len(r) : \E j \in 1..n : r[i].vote = vs[j]
    BY <1>5, <1>6, <1>9, <2>1, <2>2
  <2>5. ASSUME NEW i \in 1..Len(r), NEW k \in 1..Len(r[i].voters)
        PROVE  \E j \in 1..n : r[i].voters[k] = vs[j].computor /\ Alike(vs[j], r[i].vote, ce)
    <3>1. CASE i = m + 1
      <4>1. r[i].voters = <<v.computor>>
        BY <2>1, <3>1
      <4>2. k = 1 /\ r[i].voters[1] = v.computor
        BY <4>1
      <4> QED
        BY <1>6, <2>1, <3>1, <4>2, AlikeFacts
    <3>2. CASE i \in 1..m
      <4>1. r[i] = gs[i] /\ k \in 1..Len(gs[i].voters)
        BY <2>1, <3>2
      <4>2. \E j \in 1..p : gs[i].voters[k] = vs[j].computor /\ Alike(vs[j], gs[i].vote, ce)
        BY <1>10, <3>2, <4>1
      <4> QED
        BY <1>5, <4>1, <4>2
    <3> QED
      BY <2>2, <3>1, <3>2
  <2>6. ASSUME NEW i \in 1..Len(r), NEW j \in 1..n, Alike(vs[j], r[i].vote, ce)
        PROVE  \E k \in 1..Len(r[i].voters) : r[i].voters[k] = vs[j].computor
    <3>1. CASE i = m + 1
      <4>1. j = n
        <5> SUFFICES ASSUME j \in 1..p PROVE FALSE
          BY <1>4
        <5>1. PICK l \in 1..m : Alike(vs[j], gs[l].vote, ce)
          BY <1>12
        <5>2. Alike(v, gs[l].vote, ce)
          BY <2>1, <2>6, <3>1, <5>1, AlikeFacts
        <5> QED
          BY <2>1, <5>2
      <4>2. 1 \in 1..Len(r[i].voters) /\ r[i].voters[1] = vs[j].computor
        BY <2>1, <3>1, <4>1
      <4> QED
        BY <4>2
    <3>2. CASE i \in 1..m
      <4>1. j \in 1..p
        BY <1>4, <2>1, <2>6, <3>2
      <4>2. r[i] = gs[i]
        BY <2>1, <3>2
      <4> QED
        BY <1>11, <2>6, <3>2, <4>1, <4>2
    <3> QED
      BY <2>2, <3>1, <3>2
  <2>7. ASSUME NEW j \in 1..n PROVE \E i \in 1..Len(r) : Alike(vs[j], r[i].vote, ce)
    <3>1. CASE j = n
      BY <2>1, <2>3, <3>1, AlikeFacts
    <3>2. CASE j \in 1..p
      <4>1. PICK l \in 1..m : Alike(vs[j], gs[l].vote, ce)
        BY <1>12, <3>2
      <4> QED
        BY <2>1, <2>3, <4>1
    <3> QED
      BY <1>4, <3>1, <3>2
  <2>8. ASSUME NEW i \in 1..Len(r), NEW k \in 1..Len(r), Alike(r[i].vote, r[k].vote, ce)
        PROVE  i = k
    <3>1. CASE i \in 1..m /\ k \in 1..m
      BY <1>13, <2>1, <2>8, <3>1
    <3>2. CASE i = m + 1 /\ k \in 1..m
      BY <2>1, <2>8, <3>2
    <3>3. CASE i \in 1..m /\ k = m + 1
      BY <2>1, <2>8, <3>3, AlikeFacts
    <3> QED
      BY <2>2, <3>1, <3>2, <3>3
  <2>9. Partition(vs, n, r, ce)
    BY <1>2, <2>4, <2>5, <2>6, <2>7, <2>8 DEF Partition
  <2>10. ASSUME NoneTwice(gs) PROVE NoneTwice(r)
    <3> SUFFICES ASSUME NEW i \in 1..Len(r), NEW a \in 1..Len(r[i].voters),
                        NEW b \in 1..Len(r[i].voters), r[i].voters[a] = r[i].voters[b]
                 PROVE  a = b
      BY DEF NoneTwice
    <3>1. CASE i = m + 1
      BY <2>1, <3>1
    <3>2. CASE i \in 1..m
      BY <2>1, <2>10, <3>2 DEF NoneTwice
    <3> QED
      BY <2>2, <3>1, <3>2
  <2> QED
    BY <2>9, <2>10 DEF r
<1>8. ASSUME NEW f, Joins(gs, v, ce, r, f)
      PROVE  Partition(vs, n, r, ce) /\ (Distinct(vs) /\ NoneTwice(gs) => NoneTwice(r))
  <2>1. /\ f \in 1..m /\ Alike(v, gs[f].vote, ce) /\ Len(r) = m
        /\ \A j \in 1..m : r[j].vote = gs[j].vote
        /\ \A j \in 1..m : j # f => r[j].voters = gs[j].voters
    BY <1>8 DEF Joins
  <2> DEFINE z == Len(gs[f].voters)
  <2>2. /\ z \in Nat /\ Len(r[f].voters) = z + 1 /\ r[f].voters[z + 1] = v.computor
        /\ \A k \in 1..z : r[f].voters[k] = gs[f].voters[k]
    <3>1. r[f].voters = Append(gs[f].voters, v.computor) /\ v.computor \in Computors
      BY <1>1, <1>8 DEF Joins, Votes
    <3>2. gs[f].voters \in Seq(Computors)
      BY <1>3, <2>1
    <3> QED
      BY <3>1, <3>2, AppendProperties
  <2> HIDE DEF z
  <2>3. \A k \in 1..(z + 1) : k = z + 1 \/ k \in 1..z
    BY <2>2
  <2>4. \A i \in 1..Len(r) : \E j \in 1..n : r[i].vote = vs[j]
    BY <1>5, <1>9, <2>1
  <2>5. ASSUME NEW i \in 1..Len(r), NEW k \in 1..Len(r[i].voters)
        PROVE  \E j \in 1..n : r[i].voters[k] = vs[j].computor /\ Alike(vs[j], r[i].vote, ce)
    <3>1. CASE i = f /\ k = z + 1
      BY <1>6, <2>1, <2>2, <3>1
    <3>2. CASE i = f /\ k \in 1..z
      <4>1. k \in 1..Len(gs[f].voters) /\ r[f].voters[k] = gs[f].voters[k]
        BY <2>2, <3>2 DEF z
      <4>2. \E j \in 1..p : gs[f].voters[k] = vs[j].computor /\ Alike(vs[j], gs[f].vote, ce)
        BY <1>10, <2>1, <4>1
      <4> QED
        BY <1>5, <2>1, <3>2, <4>1, <4>2
    <3>3. CASE i # f
      <4>1. i \in 1..m /\ r[i].voters = gs[i].voters /\ r[i].vote = gs[i].vote
        BY <2>1, <3>3
      <4>2. \E j \in 1..p : gs[i].voters[k] = vs[j].computor /\ Alike(vs[j], gs[i].vote, ce)
        BY <1>10, <4>1
      <4> QED
        BY <1>5, <4>1, <4>2
    <3> QED
      BY <2>2, <2>3, <3>1, <3>2, <3>3
  <2>6. ASSUME NEW i \in 1..Len(r), NEW j \in 1..n, Alike(vs[j], r[i].vote, ce)
        PROVE  \E k \in 1..Len(r[i].voters) : r[i].voters[k] = vs[j].computor
    <3>1. CASE j = n
      <4>1. Alike(gs[i].vote, gs[f].vote, ce)
        BY <2>1, <2>6, <3>1, AlikeFacts
      <4>2. i = f
        BY <1>13, <2>1, <4>1
      <4>3. z + 1 \in 1..Len(r[f].voters)
        BY <2>2
      <4> QED
        BY <2>2, <3>1, <4>2, <4>3
    <3>2. CASE j \in 1..p
      <4>4. i \in 1..m /\ Alike(vs[j], gs[i].vote, ce)
        BY <2>1, <2>6
      <4>1. PICK k \in 1..Len(gs[i].voters) : gs[i].voters[k] = vs[j].computor
        BY <1>11, <3>2, <4>4
      <4>2. CASE i = f
        <5>1. k \in 1..z /\ k \in 1..Len(r[f].voters)
          BY <2>2, <4>1, <4>2 DEF z
        <5> QED
          BY <2>2, <4>1, <4>2, <5>1
      <4>3. CASE i # f
        BY <2>1, <4>1, <4>3
      <4> QED
        BY <4>2, <4>3
    <3> QED
      BY <1>4, <3>1, <3>2
  <2>7. ASSUME NEW j \in 1..n PROVE \E i \in 1..Len(r) : Alike(vs[j], r[i].vote, ce)
    <3>1. CASE j = n
      BY <2>1, <3>1
    <3>2. CASE j \in 1..p
      BY <1>12, <2>1, <3>2
    <3> QED
      BY <1>4, <3>1, <3>2
  <2>8. \A i, k \in 1..Len(r) : Alike(r[i].vote, r[k].vote, ce) => i = k
    BY <1>13, <2>1
  <2>9. Partition(vs, n, r, ce)
    BY <1>2, <2>4, <2>5, <2>6, <2>7, <2>8 DEF Partition
  <2>10. ASSUME Distinct(vs), NoneTwice(gs) PROVE NoneTwice(r)
    <3>1. \A a \in 1..z : gs[f].voters[a] # v.computor
      <4> SUFFICES ASSUME NEW a \in 1..z, gs[f].voters[a] = v.computor PROVE FALSE
        OBVIOUS
      <4>1. PICK j \in 1..p : gs[f].voters[a] = vs[j].computor
        BY <1>10, <2>1 DEF z
      <4>2. j \in 1..Len(vs) /\ j # n
        BY <1>1, <1>5
      <4> QED
        BY <2>10, <4>1, <4>2 DEF Distinct
    <3> SUFFICES ASSUME NEW i \in 1..Len(r), NEW a \in 1..Len(r[i].voters),
                        NEW b \in 1..Len(r[i].voters), r[i].voters[a] = r[i].voters[b]
                 PROVE  a = b
      BY DEF NoneTwice
    <3>2. CASE i # f
      BY <2>1, <2>10, <3>2 DEF NoneTwice
    <3>3. CASE i = f
      <4>1. a \in 1..(z + 1) /\ b \in 1..(z + 1)
        BY <2>2, <3>3
      <4>2. CASE a \in 1..z /\ b \in 1..z
        BY <2>1, <2>2, <2>10, <3>3, <4>2 DEF NoneTwice, z
      <4> QED
        BY <2>2, <2>3, <3>1, <3>3, <4>1, <4>2
    <3> QED
      BY <3>2, <3>3
  <2> QED
    BY <2>9, <2>10
<1> QED
  BY <1>2, <1>7, <1>8 DEF r

(* What getUniqueVotes returns.                                             *)
LEMMA UniqueVotesFacts ==
  ASSUME NEW vs \in Seq(Votes), NEW ce
  PROVE  /\ Partition(vs, Len(vs), UniqueVotes(vs, ce), ce)
         /\ Distinct(vs) => NoneTwice(UniqueVotes(vs, ce))
<1>1. Len(vs) \in Nat
  OBVIOUS
<1>2. PICK g : /\ g[0] = <<>> /\ UniqueVotes(vs, ce) = g[Len(vs)]
               /\ \A n \in 1..Len(vs) : g[n] = AddVote(g[n - 1], vs[n], ce)
  BY <1>1, GroupsOfExists
<1> DEFINE Good(n) == Partition(vs, n, g[n], ce) /\ (Distinct(vs) => NoneTwice(g[n]))
           T == {n \in Nat : n <= Len(vs) => Good(n)}
<1>3. 0 \in T
  BY <1>2, PartitionEmpty
<1>4. ASSUME NEW n \in Nat, n \in T PROVE n + 1 \in T
  <2> DEFINE k == n + 1
  <2> SUFFICES ASSUME k <= Len(vs) PROVE Good(k)
    OBVIOUS
  <2>1. k \in 1..Len(vs) /\ k - 1 = n
    BY <1>1
  <2>2. Good(n)
    BY <1>1, <1>4
  <2> HIDE DEF k
  <2>3. Partition(vs, k - 1, g[n], ce)
    BY <2>1, <2>2
  <2>4. g[k] = AddVote(g[n], vs[k], ce)
    BY <1>2, <2>1
  <2> QED
    BY <2>1, <2>2, <2>3, <2>4, PartitionStep
<1> HIDE DEF T
<1>5. Len(vs) \in T
  BY <1>1, <1>3, <1>4, SetInduction
<1>6. Good(Len(vs))
  BY <1>1, <1>5 DEF T
<1> QED
  BY <1>2, <1>6

(* The groups count every vote once.                                        *)
LEMMA CountedStep ==
  ASSUME NEW gs \in Seq(Group), NEW v \in Votes, NEW ce
  PROVE  /\ VotesCounted(gs) \in Nat
         /\ VotesCounted(AddVote(gs, v, ce)) = VotesCounted(gs) + 1
<1> DEFINE r == AddVote(gs, v, ce)
           m == Len(gs)
<1>1. r \in Seq(Group) /\ (Starts(gs, v, ce, r) \/ \E f : Joins(gs, v, ce, r, f))
  BY AddVoteFacts
<1> HIDE DEF r
<1>2. m \in Nat /\ Len(r) \in Nat
  BY <1>1
<1>3. \A i \in 1..m : gs[i].voters \in Seq(Computors) /\ Len(gs[i].voters) \in Nat
  <2>1. ASSUME NEW i \in 1..m PROVE gs[i] \in Group
    BY ElementOfSeq
  <2> QED
    BY <2>1 DEF Group
<1>4. PICK c : /\ c[0] = 0 /\ VotesCounted(gs) = c[m]
               /\ \A n \in 1..m : c[n] = c[n - 1] + Len(gs[n].voters)
  BY <1>2, CountedExists
<1>5. PICK d : /\ d[0] = 0 /\ VotesCounted(r) = d[Len(r)]
               /\ \A n \in 1..Len(r) : d[n] = d[n - 1] + Len(r[n].voters)
  BY <1>2, CountedExists
<1>6. CASE Starts(gs, v, ce, r)
  <2>1. /\ Len(r) = m + 1 /\ \A j \in 1..m : r[j] = gs[j]
        /\ Len(r[m + 1].voters) = 1
    BY <1>6 DEF Starts
  <2> DEFINE T == {n \in Nat : n <= m => c[n] \in Nat /\ d[n] = c[n]}
  <2>2. 0 \in T
    BY <1>4, <1>5
  <2>3. ASSUME NEW n \in Nat, n \in T PROVE n + 1 \in T
    <3> SUFFICES ASSUME n + 1 <= m PROVE c[n + 1] \in Nat /\ d[n + 1] = c[n + 1]
      OBVIOUS
    <3>1. n + 1 \in 1..m /\ n + 1 \in 1..Len(r) /\ n + 1 - 1 = n
      BY <1>2, <2>1
    <3>2. c[n] \in Nat /\ d[n] = c[n]
      BY <1>2, <2>3
    <3>3. c[n + 1] = c[n] + Len(gs[n + 1].voters) /\ d[n + 1] = d[n] + Len(r[n + 1].voters)
      BY <1>4, <1>5, <3>1
    <3>4. r[n + 1] = gs[n + 1] /\ Len(gs[n + 1].voters) \in Nat
      BY <1>3, <2>1, <3>1
    <3> QED
      BY <3>2, <3>3, <3>4
  <2> HIDE DEF T
  <2>4. m \in T
    BY <1>2, <2>2, <2>3, SetInduction
  <2>5. c[m] \in Nat /\ d[m] = c[m]
    BY <1>2, <2>4 DEF T
  <2>6. d[m + 1] = d[m] + 1
    <3>1. m + 1 \in 1..Len(r) /\ m + 1 - 1 = m
      BY <1>2, <2>1
    <3>2. d[m + 1] = d[m + 1 - 1] + Len(r[m + 1].voters)
      BY <1>5, <3>1
    <3> HIDE DEF m
    <3> QED
      BY <2>1, <3>1, <3>2
  <2> QED
    BY <1>4, <1>5, <2>1, <2>5, <2>6 DEF r
<1>7. ASSUME NEW f, Joins(gs, v, ce, r, f)
      PROVE  VotesCounted(gs) \in Nat /\ VotesCounted(r) = VotesCounted(gs) + 1
  <2>1. /\ f \in 1..m /\ Len(r) = m
        /\ \A j \in 1..m : j # f => r[j].voters = gs[j].voters
    BY <1>7 DEF Joins
  <2>2. Len(r[f].voters) = Len(gs[f].voters) + 1
    <3>1. r[f].voters = Append(gs[f].voters, v.computor) /\ v.computor \in Computors
      BY <1>7 DEF Joins, Votes
    <3> QED
      BY <1>3, <2>1, <3>1, AppendProperties
  <2> DEFINE T == {n \in Nat : n <= m => c[n] \in Nat /\ d[n] = c[n] + (IF n >= f THEN 1 ELSE 0)}
  <2>3. 0 \in T
    BY <1>2, <1>4, <1>5, <2>1
  <2>4. ASSUME NEW n \in Nat, n \in T PROVE n + 1 \in T
    <3> SUFFICES ASSUME n + 1 <= m
                 PROVE  c[n + 1] \in Nat /\ d[n + 1] = c[n + 1] + (IF n + 1 >= f THEN 1 ELSE 0)
      OBVIOUS
    <3>1. n + 1 \in 1..m /\ n + 1 \in 1..Len(r) /\ n + 1 - 1 = n
      BY <1>2, <2>1
    <3>2. c[n] \in Nat /\ d[n] = c[n] + (IF n >= f THEN 1 ELSE 0)
      BY <1>2, <2>4
    <3>3. c[n + 1] = c[n] + Len(gs[n + 1].voters) /\ d[n + 1] = d[n] + Len(r[n + 1].voters)
      BY <1>4, <1>5, <3>1
    <3>4. Len(gs[n + 1].voters) \in Nat
      BY <1>3, <3>1
    <3>5. CASE n + 1 = f
      <4>1. Len(r[n + 1].voters) = Len(gs[n + 1].voters) + 1
        BY <2>2, <3>5
      <4>2. ~(n >= f) /\ n + 1 >= f
        BY <3>5
      <4>3. d[n] = c[n]
        BY <3>2, <4>2
      <4>4. d[n + 1] = c[n + 1] + 1
        BY <3>2, <3>3, <3>4, <4>1, <4>3
      <4> QED
        BY <3>2, <3>3, <3>4, <4>2, <4>4
    <3>6. CASE n + 1 # f
      <4>1. Len(r[n + 1].voters) = Len(gs[n + 1].voters)
        BY <2>1, <3>1, <3>6
      <4>2. n >= f <=> n + 1 >= f
        BY <1>2, <2>1, <3>6
      <4>3. CASE n >= f
        <5>1. d[n] = c[n] + 1
          BY <3>2, <4>3
        <5> DEFINE l == Len(gs[n + 1].voters)
        <5>2. /\ c[n] \in Nat /\ l \in Nat /\ c[n + 1] = c[n] + l /\ d[n + 1] = d[n] + l
              /\ d[n] = c[n] + 1
          BY <3>2, <3>3, <3>4, <4>1, <5>1
        <5> HIDE DEF l
        <5>3. d[n + 1] = c[n + 1] + 1
          BY <5>2
        <5> QED
          BY <3>2, <3>3, <3>4, <4>2, <4>3, <5>3
      <4>4. CASE ~(n >= f)
        <5>1. d[n] = c[n]
          BY <3>2, <4>4
        <5>2. d[n + 1] = c[n + 1]
          BY <3>2, <3>3, <3>4, <4>1, <5>1
        <5> QED
          BY <3>2, <3>3, <3>4, <4>2, <4>4, <5>2
      <4> QED
        BY <4>3, <4>4
    <3> QED
      BY <3>5, <3>6
  <2> HIDE DEF T
  <2>5. m \in T
    BY <1>2, <2>3, <2>4, SetInduction
  <2>6. c[m] \in Nat /\ d[m] = c[m] + (IF m >= f THEN 1 ELSE 0)
    BY <1>2, <2>5 DEF T
  <2>7. m >= f
    BY <1>2, <2>1
  <2> QED
    BY <1>4, <1>5, <2>1, <2>6, <2>7
<1> QED
  BY <1>1, <1>6, <1>7 DEF r

LEMMA AllCounted ==
  ASSUME NEW vs \in Seq(Votes), NEW ce
  PROVE  VotesCounted(UniqueVotes(vs, ce)) = Len(vs)
<1>1. Len(vs) \in Nat
  OBVIOUS
<1>2. PICK g : /\ g[0] = <<>> /\ UniqueVotes(vs, ce) = g[Len(vs)]
               /\ \A n \in 1..Len(vs) : g[n] = AddVote(g[n - 1], vs[n], ce)
  BY <1>1, GroupsOfExists
<1> DEFINE T == {n \in Nat : n <= Len(vs) => g[n] \in Seq(Group) /\ VotesCounted(g[n]) = n}
<1>3. 0 \in T
  <2>1. Len(<<>>) = 0 /\ <<>> \in Seq(Group)
    OBVIOUS
  <2>2. VotesCounted(<<>>) = 0
    BY <2>1, CountedExists
  <2> QED
    BY <1>2, <2>1, <2>2
<1>4. ASSUME NEW n \in Nat, n \in T PROVE n + 1 \in T
  <2> SUFFICES ASSUME n + 1 <= Len(vs)
               PROVE  g[n + 1] \in Seq(Group) /\ VotesCounted(g[n + 1]) = n + 1
    OBVIOUS
  <2>1. n + 1 \in 1..Len(vs) /\ n + 1 - 1 = n
    BY <1>1
  <2>2. g[n] \in Seq(Group) /\ VotesCounted(g[n]) = n /\ vs[n + 1] \in Votes
    BY <1>1, <1>4, <2>1
  <2>3. g[n + 1] = AddVote(g[n], vs[n + 1], ce)
    BY <1>2, <2>1
  <2>4. AddVote(g[n], vs[n + 1], ce) \in Seq(Group)
    BY <2>2, AddVoteFacts
  <2> QED
    BY <2>2, <2>3, <2>4, CountedStep
<1> HIDE DEF T
<1>5. Len(vs) \in T
  BY <1>1, <1>3, <1>4, SetInduction
<1> QED
  BY <1>1, <1>2, <1>5 DEF T

LEMMA KeptAreVotes ==
  ASSUME NEW vs \in Seq(Votes), NEW next
  PROVE  KeepAgreeing(vs, next) \in Seq(Votes)
<1>1. Len(vs) \in Nat
  OBVIOUS
<1>2. PICK g : /\ g[0] = <<>> /\ KeepAgreeing(vs, next) = g[Len(vs)]
               /\ \A n \in 1..Len(vs) : g[n] = KeepVote(g[n - 1], vs[n], next)
  BY <1>1, KeptExists
<1> DEFINE T == {n \in Nat : n <= Len(vs) => g[n] \in Seq(Votes)}
<1>3. 0 \in T
  <2>1. <<>> \in Seq(Votes)
    OBVIOUS
  <2> QED
    BY <1>2, <2>1
<1>4. ASSUME NEW n \in Nat, n \in T PROVE n + 1 \in T
  <2> SUFFICES ASSUME n + 1 <= Len(vs) PROVE g[n + 1] \in Seq(Votes)
    OBVIOUS
  <2>1. n + 1 \in 1..Len(vs) /\ n + 1 - 1 = n
    BY <1>1
  <2>2. g[n] \in Seq(Votes) /\ vs[n + 1] \in Votes
    BY <1>1, <1>4, <2>1
  <2>3. g[n + 1] = KeepVote(g[n], vs[n + 1], next)
    BY <1>2, <2>1
  <2> QED
    BY <2>2, <2>3, AppendProperties DEF KeepVote
<1> HIDE DEF T
<1>5. Len(vs) \in T
  BY <1>1, <1>3, <1>4, SetInduction
<1> QED
  BY <1>1, <1>2, <1>5 DEF T

-----------------------------------------------------------------------------
(* The vote that has a quorum.                                              *)

LEMMA LargestExists ==
  ASSUME NEW gs \in Seq(Group), gs # <<>>
  PROVE  Largest(gs) \in 1..Len(gs)
<1> DEFINE m == Len(gs)
           size(i) == Len(gs[i].voters)
<1>1. m \in Nat \ {0} /\ DOMAIN gs = 1..m
  OBVIOUS
<1>2. \A i \in 1..m : size(i) \in Nat
  <2>1. ASSUME NEW i \in 1..m PROVE gs[i] \in Group
    BY ElementOfSeq
  <2> QED
    BY <2>1 DEF Group
<1> HIDE DEF m, size
<1> DEFINE T == {n \in Nat : n \in 1..m => \E i \in 1..n : \A j \in 1..n : size(j) <= size(i)}
<1>3. 0 \in T
  BY <1>1
<1>4. ASSUME NEW n \in Nat, n \in T PROVE n + 1 \in T
  <2> SUFFICES ASSUME n + 1 \in 1..m
               PROVE  \E i \in 1..(n + 1) : \A j \in 1..(n + 1) : size(j) <= size(i)
    OBVIOUS
  <2>1. n + 1 \in 1..(n + 1) /\ \A j \in 1..(n + 1) : j = n + 1 \/ j \in 1..n
    OBVIOUS
  <2>2. \A j \in 1..(n + 1) : size(j) \in Nat
    BY <1>1, <1>2
  <2>3. CASE n = 0
    BY <2>1, <2>2, <2>3
  <2>4. CASE n # 0
    <3>1. n \in 1..m
      BY <1>1, <2>4
    <3>2. PICK i \in 1..n : \A j \in 1..n : size(j) <= size(i)
      BY <1>4, <3>1
    <3>3. i \in 1..(n + 1)
      OBVIOUS
    <3>4. CASE size(n + 1) <= size(i)
      BY <2>1, <3>2, <3>3, <3>4
    <3>5. CASE ~(size(n + 1) <= size(i))
      <4>1. \A j \in 1..(n + 1) : size(j) <= size(n + 1)
        BY <2>1, <2>2, <3>2, <3>3, <3>5
      <4> QED
        BY <2>1, <4>1
    <3> QED
      BY <3>4, <3>5
  <2> QED
    BY <2>3, <2>4
<1> HIDE DEF T
<1>5. m \in T
  BY <1>1, <1>3, <1>4, SetInduction
<1> DEFINE B == {i \in 1..m : \A j \in 1..m : size(j) <= size(i)}
<1>6. \E i \in B : \A k \in B : i <= k
  <2>1. m \in 1..m
    BY <1>1
  <2>2. B # {} /\ B \subseteq Nat
    BY <1>1, <1>5, <2>1 DEF T
  <2> HIDE DEF B
  <2> QED
    BY <2>2, LeastNatural
<1>7. PICK i \in B : \A k \in B : i <= k
  BY <1>6
<1>8. i \in 1..m /\ \A j \in 1..m : size(j) <= size(i)
  OBVIOUS
<1>9. ASSUME NEW j \in 1..(i - 1) PROVE size(j) < size(i)
  <2>1. j \in 1..m /\ ~(i <= j)
    BY <1>1, <1>8
  <2>2. PICK k \in 1..m : ~(size(k) <= size(j))
    BY <1>7, <2>1
  <2>3. size(k) \in Nat /\ size(j) \in Nat /\ size(i) \in Nat /\ size(k) <= size(i)
    BY <1>2, <1>8, <2>1
  <2> QED
    BY <2>2, <2>3
<1>10. /\ i \in DOMAIN gs /\ \A j \in DOMAIN gs : Len(gs[j].voters) <= Len(gs[i].voters)
       /\ \A j \in 1..(i - 1) : Len(gs[j].voters) < Len(gs[i].voters)
  BY <1>1, <1>8, <1>9 DEF size
<1>11. Largest(gs) \in DOMAIN gs
  BY <1>10 DEF Largest
<1> QED
  BY <1>1, <1>11 DEF m

LEMMA QuorumVoteFacts ==
  ASSUME NEW vs \in Seq(Votes)
  PROVE  \/ QuorumVote(vs) = None
         \/ LET gs == UniqueVotes(vs, FALSE) IN
              \E i \in 1..Len(gs) : QuorumVote(vs) = gs[i].vote /\ Len(gs[i].voters) >= Quorum
<1> DEFINE gs == UniqueVotes(vs, FALSE)
<1> SUFFICES ASSUME QuorumVote(vs) # None
             PROVE  \E i \in 1..Len(gs) :
                      QuorumVote(vs) = gs[i].vote /\ Len(gs[i].voters) >= Quorum
  OBVIOUS
<1>1. /\ Len(vs) >= Quorum /\ Len(gs[Largest(gs)].voters) >= Quorum
      /\ QuorumVote(vs) = gs[Largest(gs)].vote
  BY DEF QuorumVote
<1>2. Partition(vs, Len(vs), gs, FALSE)
  BY UniqueVotesFacts
<1> HIDE DEF gs
<1>3. gs \in Seq(Group) /\ gs # <<>>
  <2>1. Len(vs) \in 1..Len(vs)
    BY <1>1, QuorumAssumption
  <2>2. gs \in Seq(Group)
    BY <1>2 DEF Partition
  <2>3. \E i \in 1..Len(gs) : Alike(vs[Len(vs)], gs[i].vote, FALSE)
    BY <1>2, <2>1 DEF Partition
  <2>4. Len(gs) # 0
    BY <2>3
  <2> QED
    BY <2>2, <2>4
<1>4. Largest(gs) \in 1..Len(gs)
  BY <1>3, LargestExists
<1> QED
  BY <1>1, <1>4

LEMMA QuorumVoteOf ==
  ASSUME NEW vs \in Seq(Votes), QuorumVote(vs) # None
  PROVE  \E j \in 1..Len(vs) : QuorumVote(vs) = vs[j]
<1> DEFINE gs == UniqueVotes(vs, FALSE)
<1>1. PICK i \in 1..Len(gs) : QuorumVote(vs) = gs[i].vote
  BY QuorumVoteFacts
<1>2. Partition(vs, Len(vs), gs, FALSE)
  BY UniqueVotesFacts
<1> HIDE DEF gs
<1> QED
  BY <1>1, <1>2 DEF Partition

(* Those who voted like v are as many as the group that v stands for.       *)
LEMMA SupportersFacts ==
  ASSUME NEW vs \in Seq(Votes), NEW v, NEW ce
  PROVE  /\ Supporters(vs, v, ce) = {vs[j].computor : j \in {k \in 1..Len(vs) : Alike(vs[k], v, ce)}}
         /\ Supporters(vs, v, ce) \subseteq Computors
         /\ IsFiniteSet(Supporters(vs, v, ce))
<1>1. DOMAIN vs = 1..Len(vs) /\ \A j \in 1..Len(vs) : vs[j] \in Votes
  BY ElementOfSeq
<1>2. ToSet(vs) = {vs[j] : j \in 1..Len(vs)}
  BY <1>1 DEF ToSet
<1>3. Supporters(vs, v, ce) = {vs[j].computor : j \in {k \in 1..Len(vs) : Alike(vs[k], v, ce)}}
  BY <1>2 DEF Supporters
<1>4. Supporters(vs, v, ce) \subseteq Computors
  BY <1>1, <1>3 DEF Votes
<1>5. IsFiniteSet(Supporters(vs, v, ce))
  BY <1>4, QuorumAssumption, FS_Subset
<1> QED
  BY <1>3, <1>4, <1>5

LEMMA GroupIsSupporters ==
  ASSUME NEW vs \in Seq(Votes), NEW ce, NEW i \in 1..Len(UniqueVotes(vs, ce))
  PROVE  ToSet(UniqueVotes(vs, ce)[i].voters) = Supporters(vs, UniqueVotes(vs, ce)[i].vote, ce)
<1> DEFINE gs == UniqueVotes(vs, ce)
           s == gs[i].voters
<1>1. Partition(vs, Len(vs), gs, ce)
  BY UniqueVotesFacts
<1> HIDE DEF gs
<1>2. gs \in Seq(Group) /\ i \in 1..Len(gs)
  BY <1>1 DEF Partition, gs
<1>3. s \in Seq(Computors) /\ DOMAIN s = 1..Len(s)
  <2>1. gs[i] \in Group
    BY <1>2, ElementOfSeq
  <2> QED
    BY <2>1 DEF Group
<1>4. ToSet(s) = {s[k] : k \in 1..Len(s)}
  BY <1>3 DEF ToSet
<1>5. \A k \in 1..Len(s) : \E j \in 1..Len(vs) : s[k] = vs[j].computor /\ Alike(vs[j], gs[i].vote, ce)
  BY <1>1, <1>2 DEF Partition
<1>6. \A j \in 1..Len(vs) : Alike(vs[j], gs[i].vote, ce) => \E k \in 1..Len(s) : s[k] = vs[j].computor
  BY <1>1, <1>2 DEF Partition
<1> HIDE DEF s
<1>7. ToSet(s) = Supporters(vs, gs[i].vote, ce)
  <2> DEFINE v == gs[i].vote
             S == Supporters(vs, v, ce)
  <2>1. S = {vs[j].computor : j \in {k \in 1..Len(vs) : Alike(vs[k], v, ce)}}
    BY SupportersFacts
  <2>2. \A x : x \in S <=> \E j \in 1..Len(vs) : Alike(vs[j], v, ce) /\ x = vs[j].computor
    BY <2>1
  <2> HIDE DEF S
  <2>3. \A x : x \in ToSet(s) <=> \E k \in 1..Len(s) : x = s[k]
    BY <1>4
  <2>4. ASSUME NEW x \in S PROVE x \in ToSet(s)
    BY <1>6, <2>2, <2>3
  <2>5. ASSUME NEW x \in ToSet(s) PROVE x \in S
    BY <1>5, <2>2, <2>3
  <2>6. ToSet(s) = S
    BY <2>4, <2>5
  <2> QED
    BY <2>6 DEF S
<1> QED
  BY <1>7 DEF s, gs

LEMMA IntervalSize ==
  ASSUME NEW n \in Nat
  PROVE  IsFiniteSet(1..n) /\ Cardinality(1..n) = n
<1>1. 1 \in Int /\ n \in Int
  OBVIOUS
<1>2. IsFiniteSet(1..n) /\ Cardinality(1..n) = IF 1 > n THEN 0 ELSE n - 1 + 1
  BY <1>1, FS_Interval
<1> QED
  BY <1>2

LEMMA VotersCounted ==
  ASSUME NEW vs \in Seq(Votes), Distinct(vs), NEW ce, NEW i \in 1..Len(UniqueVotes(vs, ce))
  PROVE  Len(UniqueVotes(vs, ce)[i].voters)
           <= Cardinality(Supporters(vs, UniqueVotes(vs, ce)[i].vote, ce))
<1> DEFINE gs == UniqueVotes(vs, ce)
           s == gs[i].voters
           S == Supporters(vs, gs[i].vote, ce)
<1>1. Partition(vs, Len(vs), gs, ce) /\ NoneTwice(gs)
  BY UniqueVotesFacts
<1>2. ToSet(s) = S /\ IsFiniteSet(S)
  BY GroupIsSupporters, SupportersFacts
<1> HIDE DEF gs, S
<1>3. gs \in Seq(Group) /\ i \in 1..Len(gs)
  BY <1>1 DEF Partition, gs
<1>4. s \in Seq(Computors) /\ DOMAIN s = 1..Len(s) /\ Len(s) \in Nat
  <2>1. gs[i] \in Group
    BY <1>3, ElementOfSeq
  <2> QED
    BY <2>1 DEF Group
<1>5. \A a, b \in 1..Len(s) : s[a] = s[b] => a = b
  BY <1>1, <1>3 DEF NoneTwice
<1> HIDE DEF s
<1>6. s \in Injection(1..Len(s), S)
  <2>1. s \in [1..Len(s) -> S]
    BY <1>2, <1>4 DEF ToSet
  <2> QED
    BY <1>4, <1>5, <2>1 DEF Injection, IsInjective
<1>7. Cardinality(1..Len(s)) <= Cardinality(S)
  BY <1>2, <1>6, FS_Injection
<1>8. Cardinality(1..Len(s)) = Len(s)
  BY <1>4, IntervalSize
<1>9. Len(s) <= Cardinality(S)
  BY <1>7, <1>8
<1> QED
  BY <1>9 DEF s, S, gs

-----------------------------------------------------------------------------
(* The connection.                                                          *)

LEMMA VoteIsNoEnd ==
  /\ \A v \in Votes : v # EndRespond /\ v # None
  /\ None # EndRespond
<1>1. EndRespond.computor = -1 /\ None.computor = -2
  BY DEF EndRespond, None
<1>2. \A v \in Votes : v.computor \in Nat
  BY QuorumAssumption DEF Votes
<1> QED
  BY <1>1, <1>2

(* A node's answer: votes of different computors for one tick.              *)
LEMMA CastFacts ==
  ASSUME NEW t \in {0, 1}, NEW kinds, kinds \subseteq Ballots \cup Nexts, NEW cast \in Cast(t, kinds)
  PROVE  /\ cast \in Seq(Votes) /\ Distinct(cast)
         /\ \A i \in 1..Len(cast) : cast[i].tick = t
<1>1. PICK c \in Voters : \E choice \in [DOMAIN c -> kinds] :
        cast = [i \in DOMAIN c |-> Vote(c[i], t, choice[i])]
  BY DEF Cast
<1>8. PICK choice \in [DOMAIN c -> kinds] :
        cast = [i \in DOMAIN c |-> Vote(c[i], t, choice[i])]
  BY <1>1
<1>2. PICK n \in 0..Cardinality(Computors) : c \in [1..n -> Computors]
  BY DEF Voters
<1>3. n \in Nat /\ DOMAIN c = 1..n /\ \A i, j \in 1..n : i < j => c[i] < c[j]
  <2>1. Cardinality(Computors) \in Nat
    BY QuorumAssumption, FS_CardinalityType
  <2> QED
    BY <1>2, <2>1 DEF Voters
<1>4. \A i \in 1..n : Vote(c[i], t, choice[i]) \in Votes
  BY <1>8, <1>2, <1>3 DEF Vote, Votes
<1>5. cast \in Seq(Votes) /\ Len(cast) = n
  BY <1>8, <1>3, <1>4
<1>6. \A i \in 1..n : cast[i].tick = t /\ cast[i].computor = c[i]
  BY <1>8, <1>3 DEF Vote
<1>7. ASSUME NEW i \in 1..n, NEW j \in 1..n, c[i] = c[j] PROVE i = j
  <2>1. c[i] \in Nat /\ c[j] \in Nat
    BY <1>2, QuorumAssumption
  <2>2. ~(i < j) /\ ~(j < i)
    BY <1>3, <1>7, <2>1
  <2> QED
    BY <1>3, <2>2
<1> QED
  BY <1>5, <1>6, <1>7 DEF Distinct

LEMMA AnswerIsSection ==
  ASSUME NEW t \in {0, 1}, NEW kinds, kinds \subseteq Ballots \cup Nexts, NEW cast \in Cast(t, kinds)
  PROVE  /\ Section(Append(cast, EndRespond), Len(cast), t) /\ Len(cast) \in Nat
         /\ Append(cast, EndRespond) \in Seq(Votes \cup {EndRespond})
         /\ Len(Append(cast, EndRespond)) = Len(cast) + 1
<1>1. /\ cast \in Seq(Votes) /\ Distinct(cast) /\ Len(cast) \in Nat
      /\ \A i \in 1..Len(cast) : cast[i].tick = t
  BY CastFacts
<1>2. cast \in Seq(Votes \cup {EndRespond})
  BY <1>1
<1> DEFINE a == Append(cast, EndRespond)
<1>3. /\ a \in Seq(Votes \cup {EndRespond}) /\ Len(a) = Len(cast) + 1
      /\ \A i \in 1..Len(cast) : a[i] = cast[i]
      /\ a[Len(cast) + 1] = EndRespond
  BY <1>2, AppendProperties
<1> HIDE DEF a
<1>4. \A i \in 1..Len(cast) : a[i] \in Votes /\ a[i].tick = t
  BY <1>1, <1>3, ElementOfSeq
<1>5. \A i, j \in 1..Len(cast) : a[i].computor = a[j].computor => i = j
  BY <1>1, <1>3 DEF Distinct
<1>6. Section(a, Len(cast), t)
  BY <1>1, <1>3, <1>4, <1>5 DEF Section
<1> QED
  BY <1>1, <1>3, <1>6 DEF a

LEMMA FirstEndFacts ==
  ASSUME stream \in Seq(Votes \cup {EndRespond}), NEW n, NEW t, Section(stream, n, t)
  PROVE  FirstEnd = n + 1
<1>1. /\ n \in Nat /\ n + 1 \in 1..Len(stream) /\ DOMAIN stream = 1..Len(stream)
      /\ stream[n + 1] = EndRespond /\ \A i \in 1..n : stream[i] # EndRespond
  BY VoteIsNoEnd DEF Section
<1> DEFINE P(i) == i \in DOMAIN stream /\ stream[i] = EndRespond
                     /\ \A j \in 1..(i - 1) : stream[j] # EndRespond
<1>2. P(n + 1)
  <2>1. n + 1 - 1 = n
    BY <1>1
  <2> QED
    BY <1>1, <2>1
<1>3. ASSUME NEW i, P(i) PROVE i = n + 1
  <2>1. i \in 1..Len(stream)
    BY <1>1, <1>3
  <2>2. ~(i \in 1..n)
    BY <1>1, <1>3
  <2>3. ~(n + 1 \in 1..(i - 1))
    BY <1>1, <1>3
  <2> QED
    BY <1>1, <2>1, <2>2, <2>3
<1> QED
  <2>1. FirstEnd = CHOOSE i : P(i)
    BY DEF FirstEnd
  <2> HIDE DEF P
  <2> QED
    BY <1>2, <1>3, <2>1

(* Reading k packets, and perhaps the END_RESPOND after them.               *)
LEMMA ReadsFacts ==
  ASSUME stream \in Seq(Votes \cup {EndRespond}), NEW n \in Nat, NEW t, Section(stream, n, t),
         NEW k \in 0..(FirstEnd - 1), Reads(k)
  PROVE  /\ k \in 0..n
         /\ stream' \in Seq(Votes \cup {EndRespond})
         /\ \/ Section(stream', n - k, t) /\ n - k \in Nat
            \/ stream' = SubSeq(stream, n + 2, Len(stream))
         /\ SubSeq(stream, 1, k) \in Seq(Votes) /\ Len(SubSeq(stream, 1, k)) = k
         /\ Distinct(SubSeq(stream, 1, k))
         /\ \A i \in 1..k : SubSeq(stream, 1, k)[i].tick = t
<1> DEFINE S == Votes \cup {EndRespond}
           m == Len(stream)
<1>1. /\ FirstEnd = n + 1 /\ k \in 0..n /\ n < m /\ m \in Nat /\ stream[n + 1] = EndRespond
      /\ \A i \in 1..n : stream[i] \in Votes /\ stream[i].tick = t
      /\ \A i, j \in 1..n : stream[i].computor = stream[j].computor => i = j
  <2>1. FirstEnd = n + 1
    BY FirstEndFacts
  <2> QED
    BY <2>1 DEF Section
<1>2. \A i \in 1..m : stream[i] \in S
  BY ElementOfSeq
<1> DEFINE v == SubSeq(stream, 1, k)
<1>3. v \in Seq(Votes) /\ Len(v) = k /\ \A i \in 1..k : v[i] = stream[i]
  <2>1. 1 \in Int /\ k \in Int /\ \A i \in 1..k : stream[i] \in Votes
    BY <1>1
  <2>2. /\ v \in Seq(Votes) /\ Len(v) = IF 1 <= k THEN k - 1 + 1 ELSE 0
        /\ \A i \in 1..(k - 1 + 1) : v[i] = stream[1 + i - 1]
    BY <2>1, SubSeqProperties
  <2>3. \A i \in 1..k : 1 + i - 1 = i
    BY <1>1
  <2> HIDE DEF v
  <2> QED
    BY <1>1, <2>2, <2>3
<1> HIDE DEF v
<1>4. Distinct(v) /\ \A i \in 1..k : v[i].tick = t
  <2>1. \A i \in 1..k : i \in 1..n
    BY <1>1
  <2> QED
    BY <1>1, <1>3, <2>1 DEF Distinct
<1>5. CASE stream' = SubSeq(stream, k + 1, m)
  <2> DEFINE r == SubSeq(stream, k + 1, m)
  <2>1. k + 1 \in Int /\ m \in Int /\ \A i \in (k + 1)..m : stream[i] \in S
    BY <1>1, <1>2
  <2>2. /\ r \in Seq(S) /\ Len(r) = IF k + 1 <= m THEN m - (k + 1) + 1 ELSE 0
        /\ \A i \in 1..(m - (k + 1) + 1) : r[i] = stream[k + 1 + i - 1]
    BY <2>1, SubSeqProperties
  <2> HIDE DEF r
  <2>3. Len(r) = m - k /\ \A i \in 1..(m - k) : r[i] = stream[k + i]
    <3>1. m - (k + 1) + 1 = m - k /\ k + 1 <= m /\ \A i \in 1..(m - k) : k + 1 + i - 1 = k + i
      BY <1>1
    <3> QED
      BY <2>2, <3>1
  <2> DEFINE z == n - k
  <2>4. z \in Nat /\ z < m - k /\ k + (z + 1) = n + 1 /\ z + 1 \in 1..(m - k)
    BY <1>1
  <2>5. \A i \in 1..z : i \in 1..(m - k) /\ k + i \in 1..n
    BY <1>1
  <2> HIDE DEF z
  <2>6. r[z + 1] = EndRespond
    BY <1>1, <2>3, <2>4
  <2>7. \A i \in 1..z : r[i] \in Votes /\ r[i].tick = t
    BY <1>1, <2>3, <2>5
  <2>8. ASSUME NEW i \in 1..z, NEW j \in 1..z, r[i].computor = r[j].computor PROVE i = j
    <3>1. k + i = k + j
      BY <1>1, <2>3, <2>5, <2>8
    <3> QED
      BY <1>1, <3>1
  <2>9. Section(r, z, t)
    BY <2>3, <2>4, <2>6, <2>7, <2>8 DEF Section
  <2> QED
    BY <1>1, <1>3, <1>4, <1>5, <2>2, <2>4, <2>9 DEF r, z, v
<1>6. CASE stream' = SubSeq(stream, FirstEnd + 1, m)
  <2>1. n + 2 \in Int /\ m \in Int /\ \A i \in (n + 2)..m : stream[i] \in S
    BY <1>1, <1>2
  <2>2. SubSeq(stream, n + 2, m) \in Seq(S)
    BY <2>1, SubSeqProperties
  <2>3. FirstEnd + 1 = n + 2
    BY <1>1
  <2> QED
    BY <1>1, <1>3, <1>4, <1>6, <2>2, <2>3 DEF v
<1> QED
  BY <1>5, <1>6 DEF Reads

-----------------------------------------------------------------------------
(* The invariant.                                                           *)

LEMMA EmptyIsSeq ==
  ASSUME NEW S
  PROVE  <<>> \in Seq(S)
OBVIOUS

(* A computor among the supporters cast one of the votes.                   *)
LEMMA SupporterVoted ==
  ASSUME NEW vs \in Seq(Votes), NEW v, NEW ce, NEW c \in Supporters(vs, v, ce)
  PROVE  \E j \in 1..Len(vs) : vs[j].computor = c /\ Alike(vs[j], v, ce)
<1>1. PICK u \in ToSet(vs) : Alike(u, v, ce) /\ c = u.computor
  BY DEF Supporters
<1>2. PICK j \in 1..Len(vs) : u = vs[j]
  BY <1>1, LenProperties DEF ToSet
<1> QED
  BY <1>1, <1>2

LEMMA EmptyFacts ==
  /\ UniqueVotes(<<>>, TRUE) = <<>> /\ <<>> \in Seq(Votes)
  /\ <<>> \in Seq([vote : Votes, voters : Seq(Computors)])
  /\ <<>> \in Seq(Votes \cup {EndRespond})
<1>1. Len(<<>>) = 0
  OBVIOUS
<1>2. UniqueVotes(<<>>, TRUE) = <<>>
  BY <1>1, GroupsOfExists
<1> QED
  BY <1>2, EmptyIsSeq

LEMMA InvInit == Init => Inv
  BY EmptyFacts DEF Init, Inv, TypeOK, StreamInv, ResultInv

LEMMA SendRequestStep ==
  ASSUME Inv, SendRequest
  PROVE  Inv'
<1>1. /\ stream = <<>> /\ pc' = "collect" /\ pc = "request"
      /\ UNCHANGED <<votes, votesNext, groups, winner, passed, late>>
  BY DEF Inv, StreamInv, SendRequest
<1>2. PICK cast \in Cast(0, Ballots) : stream' = stream \o Append(cast, EndRespond)
  BY DEF SendRequest, Request
<1>3. /\ Section(Append(cast, EndRespond), Len(cast), 0) /\ Len(cast) \in Nat
      /\ Append(cast, EndRespond) \in Seq(Votes \cup {EndRespond})
      /\ Len(Append(cast, EndRespond)) = Len(cast) + 1
  BY AnswerIsSection
<1>4. stream' = Append(cast, EndRespond)
  BY <1>1, <1>2, <1>3, ConcatEmptySeq
<1>5. \E n \in Nat : Section(stream', n, 0) /\ Len(stream') = n + 1
  BY <1>3, <1>4
<1>6. StreamInv'
  BY <1>1, <1>5 DEF StreamInv, Section
<1>7. TypeOK'
  BY <1>1, <1>3, <1>4 DEF Inv, TypeOK
<1>8. ResultInv'
  BY <1>1 DEF Inv, ResultInv
<1> QED
  BY <1>6, <1>7, <1>8 DEF Inv

LEMMA CollectVotesStep ==
  ASSUME Inv, CollectVotes
  PROVE  Inv'
<1>1. /\ stream \in Seq(Votes \cup {EndRespond}) /\ pc' = "requestNext" /\ pc = "collect"
      /\ UNCHANGED <<votesNext, groups, winner, passed>> /\ late' = (stream' # <<>>)
  BY DEF Inv, TypeOK, CollectVotes
<1>2. PICK n \in Nat : Section(stream, n, 0) /\ Len(stream) = n + 1
  BY <1>1 DEF Inv, StreamInv
<1>3. PICK k \in 0..(FirstEnd - 1) : Reads(k) /\ votes' = SubSeq(stream, 1, k)
  BY DEF CollectVotes
<1>4. /\ stream' \in Seq(Votes \cup {EndRespond})
      /\ \/ Section(stream', n - k, 0) /\ n - k \in Nat
         \/ stream' = SubSeq(stream, n + 2, Len(stream))
      /\ votes' \in Seq(Votes)
  BY <1>1, <1>2, <1>3, ReadsFacts
<1>5. (stream' # <<>>) => \E l \in Nat : Section(stream', l, 0)
  <2>1. n + 2 \in Int /\ n + 1 \in Int /\ n + 1 < n + 2
    OBVIOUS
  <2>2. SubSeq(stream, n + 2, n + 1) = <<>>
    BY <2>1, SubSeqEmpty
  <2> QED
    BY <1>2, <1>4, <2>2
<1>6. StreamInv'
  <2>1. IF late' THEN \E l \in Nat : Section(stream', l, 0) ELSE stream' = <<>>
    BY <1>1, <1>5
  <2> QED
    BY <1>1, <2>1 DEF StreamInv, Section
<1>7. TypeOK'
  BY <1>1, <1>4 DEF Inv, TypeOK
<1>8. ResultInv'
  BY <1>1 DEF Inv, ResultInv
<1> QED
  BY <1>6, <1>7, <1>8 DEF Inv

LEMMA SendNextRequestStep ==
  ASSUME Inv, SendNextRequest
  PROVE  Inv'
<1>1. /\ stream \in Seq(Votes \cup {EndRespond}) /\ pc' = "collectNext" /\ pc = "requestNext"
      /\ UNCHANGED <<votes, votesNext, groups, winner, passed, late>> /\ late \in BOOLEAN
      /\ IF late THEN \E n \in Nat : Section(stream, n, 0) ELSE stream = <<>>
  BY DEF Inv, TypeOK, StreamInv, SendNextRequest
<1>2. PICK cast \in Cast(1, Nexts) : stream' = stream \o Append(cast, EndRespond)
  BY DEF SendNextRequest, Request
<1> DEFINE a == Append(cast, EndRespond)
<1>3. Section(a, Len(cast), 1) /\ Len(cast) \in Nat /\ a \in Seq(Votes \cup {EndRespond})
  BY AnswerIsSection
<1> HIDE DEF a
<1>4. /\ stream' \in Seq(Votes \cup {EndRespond}) /\ Len(stream') = Len(stream) + Len(a)
      /\ \A i \in 1..(Len(stream) + Len(a)) :
           stream'[i] = IF i <= Len(stream) THEN stream[i] ELSE a[i - Len(stream)]
  BY <1>1, <1>2, <1>3, ConcatProperties DEF a
<1>5. \E n \in Nat : Section(stream', n, TickTaken)
  <2>1. CASE late
    <3>1. PICK n \in Nat : Section(stream, n, 0)
      BY <1>1, <2>1
    <3>2. /\ n < Len(stream) /\ stream[n + 1] = EndRespond /\ Len(stream) \in Nat /\ Len(a) \in Nat
          /\ \A i \in 1..n : stream[i] \in Votes /\ stream[i].tick = 0
          /\ \A i, j \in 1..n : stream[i].computor = stream[j].computor => i = j
      BY <1>1, <1>3, <3>1 DEF Section
    <3>3. \A i \in 1..(n + 1) : i \in 1..(Len(stream) + Len(a)) /\ i <= Len(stream)
      BY <3>2
    <3>4. \A i \in 1..(n + 1) : stream'[i] = stream[i]
      BY <1>4, <3>3
    <3>5. n + 1 \in 1..(n + 1) /\ n < Len(stream') /\ \A i \in 1..n : i \in 1..(n + 1)
      BY <1>4, <3>2
    <3>6. Section(stream', n, 0)
      BY <3>2, <3>4, <3>5 DEF Section
    <3> QED
      BY <2>1, <3>6 DEF TickTaken
  <2>2. CASE ~late
    <3>1. stream' = a
      BY <1>1, <1>2, <1>3, <2>2, ConcatEmptySeq DEF a
    <3> QED
      BY <1>3, <2>2, <3>1 DEF TickTaken
  <2> QED
    BY <1>1, <2>1, <2>2
<1>6. StreamInv'
  <2>1. TickTaken' = TickTaken
    BY <1>1 DEF TickTaken
  <2> QED
    BY <1>1, <1>5, <2>1 DEF StreamInv, Section
<1>7. TypeOK'
  BY <1>1, <1>4 DEF Inv, TypeOK
<1>8. ResultInv'
  BY <1>1 DEF Inv, ResultInv
<1> QED
  BY <1>6, <1>7, <1>8 DEF Inv

LEMMA CollectNextVotesStep ==
  ASSUME Inv, CollectNextVotes
  PROVE  Inv'
<1>1. /\ stream \in Seq(Votes \cup {EndRespond}) /\ pc' \in {"group", "ended"} /\ pc = "collectNext"
      /\ UNCHANGED <<votes, groups, winner, passed, late>>
  BY DEF Inv, TypeOK, CollectNextVotes
<1>2. PICK n \in Nat : Section(stream, n, TickTaken)
  BY <1>1 DEF Inv, StreamInv
<1>3. PICK k \in 0..(FirstEnd - 1) : Reads(k) /\ votesNext' = SubSeq(stream, 1, k)
  BY DEF CollectNextVotes
<1>4. /\ stream' \in Seq(Votes \cup {EndRespond})
      /\ votesNext' \in Seq(Votes) /\ Len(votesNext') = k /\ Distinct(votesNext')
      /\ \A i \in 1..k : votesNext'[i].tick = TickTaken
  BY <1>1, <1>2, <1>3, ReadsFacts
<1>5. StreamInv'
  <2>1. TickTaken' = TickTaken
    BY <1>1 DEF TickTaken
  <2>2. Distinct(votesNext)'
    BY <1>4 DEF Distinct
  <2> QED
    BY <1>1, <1>4, <2>1, <2>2 DEF StreamInv
<1>6. TypeOK'
  BY <1>1, <1>4 DEF Inv, TypeOK
<1>7. ResultInv'
  BY <1>1 DEF Inv, ResultInv
<1> QED
  BY <1>5, <1>6, <1>7 DEF Inv

LEMMA GroupVotesStep ==
  ASSUME Inv, GroupVotes
  PROVE  Inv'
<1>1. /\ votes \in Seq(Votes) /\ votesNext \in Seq(Votes) /\ pc = "group"
      /\ UNCHANGED <<stream, votesNext, late>>
      /\ winner' = QuorumVote(votesNext)
      /\ groups' = UniqueVotes(votes', TRUE)
      /\ pc' \in {"undefined", "reported"}
      /\ passed' \in BOOLEAN
  BY DEF Inv, TypeOK, GroupVotes
<1>2. votes' \in Seq(Votes)
  BY <1>1, KeptAreVotes DEF GroupVotes
<1>3. winner' \in Votes \cup {None}
  BY <1>1, QuorumVoteOf, ElementOfSeq
<1>4. groups' \in Seq([vote : Votes, voters : Seq(Computors)])
  BY <1>1, <1>2, UniqueVotesFacts DEF Partition, Group
<1>5. TypeOK'
  BY <1>1, <1>2, <1>3, <1>4 DEF Inv, TypeOK
<1>6. StreamInv'
  BY <1>1 DEF Inv, StreamInv, Distinct, TickTaken
<1>7. ResultInv'
  <2>1. QuorumVote(votesNext)' = QuorumVote(votesNext)
    BY <1>1
  <2> QED
    BY <1>1, <2>1 DEF ResultInv
<1> QED
  BY <1>5, <1>6, <1>7 DEF Inv

THEOREM Invariance == Spec => []Inv
<1>1. Init => Inv
  BY InvInit
<1>2. Inv /\ [Next]_vars => Inv'
  <2> SUFFICES ASSUME Inv, [Next]_vars PROVE Inv'
    OBVIOUS
  <2>1. CASE UNCHANGED vars
    BY ZenonT(60), <2>1 DEF Inv, TypeOK, StreamInv, ResultInv, Section, Distinct, TickTaken, vars
  <2> QED
    BY <2>1, SendRequestStep, CollectVotesStep, SendNextRequestStep, CollectNextVotesStep,
       GroupVotesStep DEF Next, Terminated
<1> QED
  BY <1>1, <1>2, PTL DEF Spec

-----------------------------------------------------------------------------
(* Everything the votes are collected in, and the groups made of them, has  *)
(* the shape it is declared with.                                           *)
THEOREM TypeCorrect == Spec => []TypeOK
  BY Invariance, PTL DEF Inv

(* The groups printed are the classes of like votes, and count every vote   *)
(* that was kept once (getUniqueVotes), for any number of votes.            *)
THEOREM GroupsAreTheClasses == Spec => []GroupsAreClasses
<1>1. Inv => GroupsAreClasses
  <2> SUFFICES ASSUME Inv, pc = "reported"
               PROVE  /\ {ToSet(groups[i].voters) : i \in DOMAIN groups}
                           = {Supporters(votes, v, TRUE) : v \in ToSet(votes)}
                      /\ VotesCounted(groups) = Len(votes)
    BY DEF GroupsAreClasses
  <2>1. votes \in Seq(Votes) /\ groups = UniqueVotes(votes, TRUE)
    BY DEF Inv, TypeOK, ResultInv
  <2>2. Partition(votes, Len(votes), groups, TRUE)
    BY <2>1, UniqueVotesFacts
  <2>3. DOMAIN groups = 1..Len(groups) /\ DOMAIN votes = 1..Len(votes)
    <3>1. groups \in Seq(Group)
      BY <2>2 DEF Partition
    <3> QED
      BY <2>1, <3>1, LenProperties
  <2>4. \A i \in DOMAIN groups : ToSet(groups[i].voters) = Supporters(votes, groups[i].vote, TRUE)
    BY <2>1, <2>3, GroupIsSupporters
  <2>5. \A i \in DOMAIN groups : groups[i].vote \in ToSet(votes)
    BY <2>2, <2>3 DEF Partition, ToSet
  <2>6. ASSUME NEW v \in ToSet(votes)
        PROVE  \E i \in DOMAIN groups : Supporters(votes, v, TRUE) = ToSet(groups[i].voters)
    <3>1. PICK j \in 1..Len(votes) : v = votes[j]
      BY <2>3 DEF ToSet
    <3>2. PICK i \in 1..Len(groups) : Alike(v, groups[i].vote, TRUE)
      BY <2>2, <3>1 DEF Partition
    <3>3. \A u : Alike(u, v, TRUE) <=> Alike(u, groups[i].vote, TRUE)
      BY <3>2, AlikeFacts
    <3>4. Supporters(votes, v, TRUE) = Supporters(votes, groups[i].vote, TRUE)
      BY <3>3 DEF Supporters
    <3> QED
      BY <2>3, <2>4, <3>4
  <2>7. {ToSet(groups[i].voters) : i \in DOMAIN groups}
          = {Supporters(votes, v, TRUE) : v \in ToSet(votes)}
    BY <2>4, <2>5, <2>6
  <2> QED
    BY <2>1, <2>7, AllCounted
<1> QED
  BY <1>1, Invariance, PTL

(* Salts are checked only against digests that a quorum of computors gave,  *)
(* and no other digests could have had one (getQuorumTick), whatever the    *)
(* number of computors, as long as a quorum is more than half of them.      *)
THEOREM SaltsAreOfQuorum == Spec => []SaltsNeedQuorum
<1>1. Inv => SaltsNeedQuorum
  <2> SUFFICES ASSUME Inv, pc \in {"reported", "undefined"}, winner # None
               PROVE  /\ Cardinality(Supporters(votesNext, winner, FALSE)) >= Quorum
                      /\ \A v \in ToSet(votesNext) :
                           Cardinality(Supporters(votesNext, v, FALSE)) >= Quorum
                             => Alike(v, winner, FALSE)
    BY DEF SaltsNeedQuorum
  <2>1. /\ votesNext \in Seq(Votes) /\ Distinct(votesNext)
        /\ winner = QuorumVote(votesNext)
    BY DEF Inv, TypeOK, StreamInv, ResultInv
  <2> DEFINE gs == UniqueVotes(votesNext, FALSE)
             W == Supporters(votesNext, winner, FALSE)
  <2>2. PICK i \in 1..Len(gs) : winner = gs[i].vote /\ Len(gs[i].voters) >= Quorum
    BY <2>1, QuorumVoteFacts
  <2>3. Len(gs[i].voters) <= Cardinality(W)
    BY <2>1, <2>2, VotersCounted
  <2>4. W \subseteq Computors /\ IsFiniteSet(W)
    BY <2>1, SupportersFacts
  <2>5. Cardinality(W) >= Quorum
    <3> DEFINE l == Len(gs[i].voters)
               w == Cardinality(W)
    <3>1. l \in Nat
      <4>1. gs \in Seq(Group)
        BY <2>1, UniqueVotesFacts DEF Partition
      <4> HIDE DEF gs
      <4>2. gs[i] \in Group
        BY <2>2, <4>1, ElementOfSeq
      <4>3. gs[i].voters \in Seq(Computors)
        BY <4>2 DEF Group
      <4> QED
        BY <4>3, LenProperties
    <3>2. w \in Nat
      <4> HIDE DEF W
      <4> QED
        BY <2>4, FS_CardinalityType
    <3>3. l >= Quorum /\ l <= w
      BY <2>2, <2>3
    <3> HIDE DEF l, w
    <3>4. w >= Quorum
      BY <3>1, <3>2, <3>3, QuorumAssumption
    <3> QED
      BY <3>4 DEF w
  <2>6. ASSUME NEW v \in ToSet(votesNext), Cardinality(Supporters(votesNext, v, FALSE)) >= Quorum
        PROVE  Alike(v, winner, FALSE)
    <3> DEFINE V == Supporters(votesNext, v, FALSE)
    <3>1. V \subseteq Computors /\ IsFiniteSet(V)
      BY <2>1, SupportersFacts
    <3>2. V \cap W # {}
      <4>1. Cardinality(V) >= Quorum /\ Cardinality(W) >= Quorum
        BY <2>5, <2>6
      <4> HIDE DEF V, W
      <4> DEFINE a == Cardinality(V)
                 b == Cardinality(W)
                 n == Cardinality(Computors)
      <4>2. a \in Nat /\ b \in Nat /\ n \in Nat
        BY <2>4, <3>1, QuorumAssumption, FS_CardinalityType
      <4>3. a >= Quorum /\ b >= Quorum /\ 2 * Quorum > n
        BY <4>1, QuorumAssumption
      <4>4. a + b > n
        <5> HIDE DEF a, b, n
        <5> QED
          BY <4>2, <4>3, QuorumAssumption
      <4> QED
        BY <2>4, <3>1, <4>4, QuorumAssumption, FS_MajoritiesIntersect
    <3>3. PICK c : c \in V /\ c \in W
      BY <3>2
    <3>4. PICK j \in 1..Len(votesNext) : votesNext[j].computor = c /\ Alike(votesNext[j], v, FALSE)
      BY <2>1, <3>3, SupporterVoted
    <3>5. PICK k \in 1..Len(votesNext) :
            votesNext[k].computor = c /\ Alike(votesNext[k], winner, FALSE)
      BY <2>1, <3>3, SupporterVoted
    <3>6. j = k
      BY <2>1, <3>4, <3>5 DEF Distinct
    <3> QED
      BY <3>4, <3>5, <3>6, AlikeFacts
  <2> QED
    BY <2>5, <2>6
<1> QED
  BY <1>1, Invariance, PTL

(* The digests the salts are checked against are of the next tick, unless   *)
(* votes for the first one came late and were taken for it (getQuorumTick). *)
THEOREM SaltsAreOfNextTick == Spec => []SaltsOfNextTick
<1>1. Inv => SaltsOfNextTick
  <2> SUFFICES ASSUME Inv, winner # None, ~late PROVE winner.tick = 1
    BY DEF SaltsOfNextTick
  <2>1. /\ votesNext \in Seq(Votes) /\ winner = QuorumVote(votesNext)
        /\ \A i \in 1..Len(votesNext) : votesNext[i].tick = TickTaken
    BY DEF Inv, TypeOK, StreamInv, ResultInv
  <2>2. PICK j \in 1..Len(votesNext) : winner = votesNext[j]
    BY <2>1, QuorumVoteOf
  <2> QED
    BY <2>1, <2>2 DEF TickTaken
<1> QED
  BY <1>1, Invariance, PTL
=============================================================================
