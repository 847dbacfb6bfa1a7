----------------------------- MODULE Proposals -----------------------------
(* The data of proposal.h and the pure part of proposal.cpp: parsing a       *)
(* proposal or a vote from words, checking it, judging a voting result, and  *)
(* the order in which the past payments of CCF are printed.                  *)
(*                                                                           *)
(* A word is the integer that sscanf reads from it, or one of two values     *)
(* above the range: it is no number, or it is "none".                        *)
EXTENDS Integers, Sequences, FiniteSets

CONSTANTS MinValue, MaxValue   \* the range of sint64

ASSUME RangeAssumption == MinValue \in Int /\ MaxValue \in Int
                          /\ MinValue < 0 /\ MaxValue > 0

NoVoteValue == MinValue
Bad == MaxValue + 1
NoneWord == MaxValue + 2
Least(a, b) == IF a < b THEN a ELSE b

(* A contract's form of proposals and votes.                                 *)
Support ==
  [c \in {"GQMPROP", "CCF", "QUTIL", "TESTEXB", "QX"} |->
     CASE c = "QUTIL" -> "yes_no" [] c = "TESTEXB" -> "v1" [] OTHER -> "none"]
Contracts == DOMAIN Support
Shareholder(c) == c \notin {"GQMPROP", "CCF"}
StoresYesNo(c) == c = "CCF" \/ Support[c] = "yes_no"
SingleVote(c) == ~Shareholder(c)

-----------------------------------------------------------------------------
(* Proposals.  `values` are the amounts or values of the options, for        *)
(* "in_epoch" amount and epoch, for a scalar minimum, maximum and proposed   *)
(* value.                                                                    *)
NoValues == <<0, 0, 0, 0>>
Proposal(class, options, values, epoch, tick) ==
  [class |-> class, options |-> options, values |-> values,
   epoch |-> epoch, tick |-> tick]
Cleared == Proposal("general", 0, NoValues, 0, 0)
SameType(p, q) == p.class = q.class /\ p.options = q.options
HasType(p) == ~(p.class = "general" /\ p.options = 0)
Scalar(p) == p.class = "variable" /\ p.options = 0

(* convertProposalDataToYesNo copies as much as the other form has room for: *)
(* of a transfer one amount, of a transfer in a later epoch no epoch.        *)
ToYesNo(p) ==
  LET cut == p.class \in {"transfer", "in_epoch"}
  IN  Proposal(p.class, p.options, IF cut THEN <<p.values[1], 0, 0, 0>> ELSE p.values, p.epoch, p.tick)

(* How many numbers parseProposalString wants after identity or variable;    *)
(* numberOptions - 1 is unsigned.                                            *)
Wanted(text) ==
  CASE text.class = "general" -> 0
    [] text.class = "transfer" -> IF text.options = 0 THEN 4 ELSE Least(text.options - 1, 4)
    [] text.class = "in_epoch" -> 2
    [] text.class = "variable" -> IF text.options = 0 THEN 3
                                  ELSE IF text.options \in 2..5 THEN text.options - 1
                                  ELSE 0

HeadOk(text) == text.class # "other" /\ text.options \in 0..255 /\ text.url
NumbersOk(text) ==
  /\ Len(text.values) >= Wanted(text)
  /\ \A i \in 1..Wanted(text) : text.values[i] \in MinValue..MaxValue
  /\ text.class = "in_epoch" => text.values[1] > 0
ExitsOn(text) == HeadOk(text) /\ text.class \in {"transfer", "in_epoch"} /\ text.identity = "wrong"

ValuesOf(text) ==
  LET filled == [i \in 1..4 |-> IF i <= Wanted(text) THEN text.values[i] ELSE 0]
  IN  CASE text.class = "in_epoch" -> <<filled[2], filled[1], 0, 0>>
        [] text.class = "variable" /\ text.options = 0 ->
             <<filled[2], filled[3], filled[1], 0>>
        [] OTHER -> filled

(* A string that fails leaves type and epoch at zero, which is how a         *)
(* proposal is cleared.                                                      *)
Parsed(text) ==
  IF HeadOk(text) /\ NumbersOk(text)
  THEN Proposal(text.class, text.options, ValuesOf(text), 1, 0)
  ELSE Cleared

(* The three words of a subscription come together or are not looked at.     *)
Subscribes(text) == Parsed(text).epoch = 1 /\ Len(text.subscription) = 3
SubscriptionOk(text) ==
  Subscribes(text) => \A i \in 1..3 : text.subscription[i] # Bad
ParseOk(text, subscribes) ==
  /\ Parsed(text).epoch = 1
  /\ subscribes => SubscriptionOk(text)

AscendingNoDuplicates(values, n) == \A i \in 2..n : values[i - 1] < values[i]

(* Mutant: equal options pass, and scalars.                                  *)
CheckProposalSortedOnly(p, c) ==
  LET n == Least(p.options - 1, 4)
      sorted == \A i \in 2..n : p.values[i - 1] <= p.values[i]
  IN  IF p.class \in {"transfer", "variable"} /\ p.options > 0
      THEN /\ p.options \in 2..5 /\ sorted
           /\ p.class = "transfer" => \A i \in 1..n : p.values[i] >= 0
      ELSE TRUE

(* printAndCheckProposal: the amount of a transfer in a later epoch is not   *)
(* looked at for GQMPROP; a destination of zeros is called an error, and     *)
(* passes.                                                                   *)
CheckProposal(p, c) ==
  LET n == Least(p.options - 1, 4)
  IN  CASE p.class = "general" -> p.options \in 2..8
        [] p.class = "transfer" ->
             /\ p.options \in 2..5
             /\ \A i \in 1..n : p.values[i] >= 0
             /\ AscendingNoDuplicates(p.values, n)
        [] p.class = "in_epoch" ->
             p.options = 2 /\ (c # "GQMPROP" => p.values[1] >= 0)
        [] p.class = "variable" /\ p.options = 0 ->
             /\ p.values[1] > MinValue /\ p.values[2] <= MaxValue
             /\ p.values[1] <= p.values[3] /\ p.values[3] <= p.values[2]
        [] p.class = "variable" /\ p.options > 0 ->
             p.options \in 2..5 /\ AscendingNoDuplicates(p.values, n)

(* What the set command of a contract asks of it beyond that; of a contract  *)
(* with the yes/no form, two options, and not that the form has room for it. *)
FitsContract(p, c) ==
  CASE c = "GQMPROP" -> ~Scalar(p)
    [] c = "CCF" -> p.class = "transfer" /\ p.options = 2
    [] OTHER -> StoresYesNo(c) => p.options = 2

-----------------------------------------------------------------------------
(* Votes: pairs of a count and a value.  One value alone is a pair with      *)
(* count 0, which stands for all votes of the voter.                         *)
IsNumber(w) == w \in MinValue..MaxValue
VoteWord(w) == IF w = NoneWord THEN NoVoteValue ELSE w
Pair(count, value) == [count |-> count, value |-> value]

(* A contract with single votes takes the number before the first comma.  No *)
(* word at all is a lone comma.                                              *)
VotesParse(words, c) ==
  IF SingleVote(c) \/ Len(words) = 1
  THEN words # <<>> /\ (IsNumber(words[1]) \/ words = <<NoneWord>>)
  ELSE /\ Len(words) % 2 = 0 /\ Len(words) <= 16
       /\ \A i \in 1..Len(words) :
            IsNumber(words[i]) \/ (i % 2 = 0 /\ words[i] = NoneWord)

VotesOf(words, c) ==
  IF words = <<>> THEN <<Pair(0, 0)>>
  ELSE IF SingleVote(c) \/ Len(words) = 1 THEN <<Pair(0, VoteWord(words[1]))>>
  ELSE [i \in 1..(Len(words) \div 2) |-> Pair(words[2 * i - 1], VoteWord(words[2 * i]))]

(* Mutant: option N of N.                                                    *)
CheckVoteValueOneMore(p, v) ==
  \/ v = NoVoteValue
  \/ IF Scalar(p) THEN p.values[1] <= v /\ v <= p.values[2] ELSE 0 <= v /\ v <= p.options

CheckVoteValue(p, v) ==
  \/ v = NoVoteValue
  \/ IF Scalar(p) THEN p.values[1] <= v /\ v <= p.values[2] ELSE 0 <= v /\ v < p.options

(* The form with counts looks only at values that have one.                  *)
CheckVotes(p, votes, c) ==
  \A i \in DOMAIN votes :
    (SingleVote(c) \/ votes[i].count # 0) => CheckVoteValue(p, votes[i].value)

-----------------------------------------------------------------------------
(* printVotingResults: the first of the options with most votes, and whether *)
(* it would be accepted; "value" for a scalar.                               *)
MostVoted(votes) ==
  CHOOSE o \in DOMAIN votes :
    /\ \A q \in DOMAIN votes : votes[q] <= votes[o]
    /\ \A q \in DOMAIN votes : q < o => votes[q] < votes[o]

(* Mutant: two thirds are enough.                                            *)
VerdictLax(r) ==
  IF r.casted < (r.authorized * 2) \div 3 THEN "total"
  ELSE IF r.scalar THEN "accepted"
  ELSE IF r.votes[MostVoted(r.votes)] <= r.authorized \div 3 THEN "option"
  ELSE "accepted"

Verdict(r) ==
  IF r.casted <= (r.authorized * 2) \div 3 THEN "total"
  ELSE IF r.scalar THEN "accepted"
  ELSE IF r.votes[MostVoted(r.votes)] <= r.authorized \div 3 THEN "option"
  ELSE "accepted"

-----------------------------------------------------------------------------
(* ccfGetRegularPayments and ccfGetLatestTransfers print the ring of the     *)
(* contract from an index downwards.  `ring` has the tick of every entry, 0  *)
(* if it is empty.  Payments start at the last entry with the highest tick,  *)
(* transfers one before the first such entry.                                *)
Highest(ring) == CHOOSE t \in {ring[i] : i \in DOMAIN ring} :
                   \A i \in DOMAIN ring : ring[i] <= t
Downwards(ring, first) ==
  LET at(k) == ring[((first - k) % Len(ring)) + 1]
      upTo[k \in 0..Len(ring)] ==
        IF k = 0 THEN <<>> ELSE IF at(k) = 0 THEN upTo[k - 1] ELSE Append(upTo[k - 1], at(k))
  IN  upTo[Len(ring)]

(* Mutant: from the first entry with the highest tick.                       *)
RegularPaymentsFromFirst(ring) ==
  Downwards(ring, CHOOSE i \in DOMAIN ring :
    ring[i] = Highest(ring) /\ \A j \in DOMAIN ring : j < i => ring[j] < ring[i])

RegularPayments(ring) ==
  Downwards(ring, CHOOSE i \in DOMAIN ring :
    ring[i] = Highest(ring) /\ \A j \in DOMAIN ring : j > i => ring[j] < ring[i])

LatestTransfers(ring) ==
  Downwards(ring, (CHOOSE i \in DOMAIN ring :
    ring[i] = Highest(ring) /\ \A j \in DOMAIN ring : j < i => ring[j] < ring[i]) - 1)
=============================================================================
