---------------------------- MODULE QuorumVotes ----------------------------
(***************************************************************************)
(* getQuorumTick (node_utils.cpp): collect the computors' votes for a tick *)
(* and for the next one on one connection, check the salted digests of the *)
(* first against what the quorum of the second says of them, and group the *)
(* votes that are alike.                                                   *)
(*                                                                         *)
(* The node is external: it answers each request with at most one vote of  *)
(* each computor, then END_RESPOND.  Packets are read whole here.          *)
(***************************************************************************)
EXTENDS Integers, Sequences, FiniteSets, SequencesExt

CONSTANTS
  Computors, \* computor indices
  Quorum,    \* 451 of 676
  Ballots,   \* what a computor may vote for the requested tick ...
  Nexts,     \* ... and for the one after it
  Zero       \* the digest of zeros: no transactions

ASSUME QuorumAssumption ==
  /\ IsFiniteSet(Computors) /\ Computors \subseteq Nat
  /\ Quorum \in Nat \ {0} /\ 2 * Quorum > Cardinality(Computors)

VARIABLES
  pc,
  stream,    \* packets of the node not read yet
  votes, votesNext,
  groups,    \* uniqueVote and voteIndices: a vote and who cast one like it
  winner,    \* the vote of the next tick that has a quorum, if any
  passed,    \* "ALL votes PASSED salts check" was logged
  late       \* history: votes for the first tick were left on the stream

vars == <<pc, stream, votes, votesNext, groups, winner, passed, late>>

(* A vote: the tick and the digests the computors must agree on (prev: of   *)
(* resources, spectrum, universe and computer, after the tick before), the  *)
(* transaction digest it expects next, and what it committed to by its      *)
(* salted digests.                                                          *)
Vote(c, t, ballot) == [computor |-> c, tick |-> t, ballot |-> ballot]
EndRespond == [computor |-> -1]
None == [computor |-> -2]

(* Votes of some computors, in the order of their indices.                  *)
Voters ==
  {c \in UNION {[1..n -> Computors] : n \in 0..Cardinality(Computors)} :
     \A i, j \in DOMAIN c : i < j => c[i] < c[j]}

Cast(t, kinds) ==
  UNION {{[i \in DOMAIN c |-> Vote(c[i], t, choice[i])] : choice \in [DOMAIN c -> kinds]}
           : c \in Voters}

Init ==
  /\ pc = "request" /\ stream = <<>>
  /\ votes = <<>> /\ votesNext = <<>> /\ groups = <<>>
  /\ winner = None /\ passed = FALSE /\ late = FALSE

-----------------------------------------------------------------------------
(* Mutant of Request: the tick of the packet is not set again.              *)
RequestFirstTick(t, kinds) == \E cast \in Cast(0, kinds) : stream' = stream \o Append(cast, EndRespond)

Request(t, kinds) == \E cast \in Cast(t, kinds) : stream' = stream \o Append(cast, EndRespond)

(* getLatestVectorPacketAs<Tick>: packets up to the END_RESPOND, which is   *)
(* read too, or up to the one that does not arrive in time.                 *)
FirstEnd == CHOOSE i \in DOMAIN stream :
              stream[i] = EndRespond /\ \A j \in 1..(i - 1) : stream[j] # EndRespond

Reads(k) ==
  \/ stream' = SubSeq(stream, k + 1, Len(stream))
  \/ k = FirstEnd - 1 /\ stream' = SubSeq(stream, FirstEnd + 1, Len(stream))

SendRequest ==
  /\ pc = "request" /\ Request(0, Ballots) /\ pc' = "collect"
  /\ UNCHANGED <<votes, votesNext, groups, winner, passed, late>>

CollectVotes ==
  /\ pc = "collect"
  /\ \E k \in 0..(FirstEnd - 1) : Reads(k) /\ votes' = SubSeq(stream, 1, k)
  /\ late' = (stream' # <<>>)
  /\ pc' = "requestNext"
  /\ UNCHANGED <<votesNext, groups, winner, passed>>

SendNextRequest ==
  /\ pc = "requestNext" /\ Request(1, Nexts) /\ pc' = "collectNext"
  /\ UNCHANGED <<votes, votesNext, groups, winner, passed, late>>

(* No vote for the requested tick: the command ends.  One whose signature   *)
(* does not verify ends it, too.                                            *)
CollectNextVotes ==
  /\ pc = "collectNext"
  /\ \E k \in 0..(FirstEnd - 1) : Reads(k) /\ votesNext' = SubSeq(stream, 1, k)
  /\ pc' \in IF votes = <<>> THEN {"ended"} ELSE {"group", "ended"}
  /\ UNCHANGED <<votes, groups, winner, passed, late>>

-----------------------------------------------------------------------------
(* compareVote                                                              *)
Alike(a, b, compareExpected) ==
  /\ a.tick = b.tick
  /\ a.ballot.prev = b.ballot.prev
  /\ a.ballot.transactionDigest = b.ballot.transactionDigest
  /\ compareExpected => a.ballot.expected = b.ballot.expected

(* Mutant of AddVote: only the latest group is compared.                    *)
AddVoteToLatest(gs, v, compareExpected) ==
  IF gs # <<>> /\ Alike(v, Last(gs).vote, compareExpected)
  THEN [gs EXCEPT ![Len(gs)].voters = Append(@, v.computor)]
  ELSE Append(gs, [vote |-> v, voters |-> <<v.computor>>])

(* getUniqueVotes: a vote joins the first group it is like, or makes one.   *)
AddVote(gs, v, compareExpected) ==
  LET alike == {j \in DOMAIN gs : Alike(v, gs[j].vote, compareExpected)}
      first == CHOOSE j \in alike : \A k \in alike : j <= k
  IN IF alike = {} THEN Append(gs, [vote |-> v, voters |-> <<v.computor>>])
     ELSE [gs EXCEPT ![first].voters = Append(@, v.computor)]

UniqueVotes(vs, compareExpected) ==
  LET groupsOf[n \in 0..Len(vs)] ==
        IF n = 0 THEN <<>> ELSE AddVote(groupsOf[n - 1], vs[n], compareExpected)
  IN groupsOf[Len(vs)]

(* The group of votes_next with the most voters, the first of them.         *)
Largest(gs) ==
  CHOOSE i \in DOMAIN gs :
    /\ \A j \in DOMAIN gs : Len(gs[j].voters) <= Len(gs[i].voters)
    /\ \A j \in 1..(i - 1) : Len(gs[j].voters) < Len(gs[i].voters)

(* Mutant of QuorumVote: it is enough that the votes received are as many.  *)
QuorumVoteOfAny(vs) ==
  LET gs == UniqueVotes(vs, FALSE) IN
    IF Len(vs) >= Quorum THEN gs[Largest(gs)].vote ELSE None

(* Which vote the salts are checked against: none, if too few agree.        *)
QuorumVote(vs) ==
  LET gs == UniqueVotes(vs, FALSE) IN
    IF Len(vs) >= Quorum /\ Len(gs[Largest(gs)].voters) >= Quorum
    THEN gs[Largest(gs)].vote ELSE None

(* should_check_txBodyDigest: two digests that are not zero are compared by *)
(* their addresses, which are never the same.                               *)
ChecksBody(expected, transactionDigest) == expected = Zero /\ transactionDigest = Zero

(* verifyVoteWithSalt                                                       *)
SaltsAgree(v, next) ==
  /\ v.ballot.salted = next.ballot.prev
  /\ ChecksBody(v.ballot.expected, next.ballot.transactionDigest)
       => v.ballot.saltedBody = next.ballot.body

(* new_votes: the votes that pass.                                          *)
KeepAgreeing(vs, next) ==
  LET kept[n \in 0..Len(vs)] ==
        IF n = 0 THEN <<>>
        ELSE IF SaltsAgree(vs[n], next) THEN Append(kept[n - 1], vs[n]) ELSE kept[n - 1]
  IN kept[Len(vs)]

(* Without a vote left, votes[0] is an element of an empty vector.          *)
GroupVotes ==
  /\ pc = "group"
  /\ winner' = QuorumVote(votesNext)
  /\ votes' = IF winner' = None THEN votes ELSE KeepAgreeing(votes, winner')
  /\ passed' = (winner' # None /\ votes' = votes)
  /\ groups' = UniqueVotes(votes', TRUE)
  /\ pc' = IF votes' = <<>> THEN "undefined" ELSE "reported"
  /\ UNCHANGED <<stream, votesNext, late>>

Terminated == pc \in {"reported", "ended", "undefined"} /\ UNCHANGED vars

Next ==
  \/ SendRequest \/ CollectVotes \/ SendNextRequest \/ CollectNextVotes
  \/ GroupVotes \/ Terminated

Spec == Init /\ [][Next]_vars

-----------------------------------------------------------------------------
Votes == [computor : Computors, tick : {0, 1}, ballot : Ballots \cup Nexts]

TypeOK ==
  /\ pc \in {"request", "collect", "requestNext", "collectNext", "group",
             "reported", "ended", "undefined"}
  /\ stream \in Seq(Votes \cup {EndRespond})
  /\ votes \in Seq(Votes) /\ votesNext \in Seq(Votes)
  /\ groups \in Seq([vote : Votes, voters : Seq(Computors)])
  /\ winner \in Votes \cup {None}
  /\ passed \in BOOLEAN /\ late \in BOOLEAN

Supporters(vs, v, compareExpected) ==
  {w.computor : w \in {u \in ToSet(vs) : Alike(u, v, compareExpected)}}

VotesCounted(gs) ==
  LET counted[n \in 0..Len(gs)] == IF n = 0 THEN 0 ELSE counted[n - 1] + Len(gs[n].voters)
  IN counted[Len(gs)]

(* The groups printed are the classes of like votes: every vote that was    *)
(* kept is counted once, with all the votes like it and with no other.      *)
GroupsAreClasses ==
  pc = "reported" =>
    /\ {ToSet(groups[i].voters) : i \in DOMAIN groups}
         = {Supporters(votes, v, TRUE) : v \in ToSet(votes)}
    /\ VotesCounted(groups) = Len(votes)

(* Salts are checked only against digests that a quorum of computors gave,  *)
(* and no other digests could have had a quorum.                            *)
SaltsNeedQuorum ==
  pc \in {"reported", "undefined"} /\ winner # None =>
    /\ Cardinality(Supporters(votesNext, winner, FALSE)) >= Quorum
    /\ \A v \in ToSet(votesNext) :
         Cardinality(Supporters(votesNext, v, FALSE)) >= Quorum => Alike(v, winner, FALSE)

(* The digests the salts are checked against are of the next tick, unless   *)
(* votes for the first one came late and were taken for it.                 *)
SaltsOfNextTick == winner # None /\ ~late => winner.tick = 1

(* The log "ALL votes PASSED salts check": each vote committed to the       *)
(* digests of the quorum, the transaction body's as well where it expected  *)
(* the transactions that were voted.                                        *)
PassedMeansSalted ==
  passed => \A v \in ToSet(votes) :
    /\ v.ballot.salted = winner.ballot.prev
    /\ v.ballot.expected = winner.ballot.transactionDigest
         => v.ballot.saltedBody = winner.ballot.body
=============================================================================
