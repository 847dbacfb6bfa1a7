-------------------------- MODULE ProposalSession --------------------------
(***************************************************************************)
(* One proposal command of proposal.cpp against a contract that goes on:   *)
(* GQMPROP and CCF, whose voters have one vote, and the contracts whose    *)
(* shareholders propose and vote for a fee.                                *)
(*                                                                         *)
(* The contract is external: an array of slots, each empty or with a       *)
(* proposal of this epoch (active) or of an earlier one (finished).  It    *)
(* stamps a proposal with the tick it is set in and counts a vote only for *)
(* an active proposal with the type and tick the vote names.  Within one   *)
(* tick a slot changes at most once.                                       *)
(***************************************************************************)
EXTENDS Proposals

CONSTANTS
  Slots,      \* the indices proposals can have
  PageSize,   \* indices in one answer: 64
  CCFFee,     \* what ccfSetProposal pays: 1000000
  Offset,     \* scheduledTickOffset
  FirstTick, MaxTick,  \* bound: the ticks of the node
  MaxChanges, \* bound: changes of proposals, fees and epoch during a command
  Fees,       \* fees a contract asks for, of a proposal and of votes
  Stored,     \* proposals others set
  Texts,      \* proposal strings
  Ballots,    \* vote strings, as words
  Tallies,    \* voting results
  Rings       \* the ticks in the ring of past payments

Proposals0 == [class : {"general", "transfer", "in_epoch", "variable"}, options : 0..255,
               values : [1..4 -> Int], epoch : Nat, tick : Nat]

ASSUME SessionAssumption ==
  /\ 0 \in Slots /\ Slots \subseteq Nat /\ IsFiniteSet(Slots)
  /\ {PageSize, Offset, FirstTick} \subseteq Nat \ {0}
  /\ {CCFFee, MaxTick, MaxChanges} \subseteq Nat
  /\ Fees \subseteq [set : Nat, vote : Nat]
  /\ Ballots \subseteq Seq(Int)
  /\ Stored # {} /\ Stored \subseteq Proposals0
  /\ \A p \in Stored : HasType(p) /\ p.tick = 0

(* A result has a count for every option, or is that of a scalar.            *)
ASSUME InputsAssumption ==
  /\ Texts \subseteq [class : {"general", "transfer", "in_epoch", "variable", "other"}, options : Int,
                      url : BOOLEAN, identity : {"right", "wrong", "zero"},
                      values : Seq(Int), subscription : Seq(Int)]
  /\ Tallies \subseteq [authorized : Nat, casted : Nat, votes : Seq(Nat), scalar : BOOLEAN]
  /\ \A t \in Tallies : t.scalar \/ t.votes # <<>>

(* A ring is written around in the order of the ticks, up to its newest      *)
(* payment at m; 0 is not written yet.                                       *)
Written(ring) ==
  \E m \in DOMAIN ring :
    LET first == 1..m
        behind == (m + 1)..Len(ring)
    IN  /\ \A i \in DOMAIN ring : ring[i] <= ring[m]
        /\ \A i, j \in first : i < j /\ ring[j] # 0 => ring[i] <= ring[j]
        /\ \A i, j \in behind : i < j /\ ring[j] # 0 => ring[i] <= ring[j]
        /\ \A i \in first, j \in behind : ring[i] # 0 => ring[j] <= ring[i]

ASSUME RingsAssumption == Rings \subseteq Seq(Nat) /\ \A ring \in Rings : Written(ring)

VARIABLES
  slots, epoch, fees, nodeTick, \* the contract and the node
  changes,  \* changes so far
  command,
  pc,
  aligned,  \* the next byte of the connection starts an answer
  fee,      \* what getShareholderProposalFees read
  shown,    \* the proposal read and printed
  indices,  \* proposalIndices
  prev,     \* prevProposalIndex
  printed,  \* what a list printed: index and proposal
  past,     \* the ring of past payments that was read, and what was printed of it
  outcome,  \* how the command ended
  tally, verdict, \* the voting results and what is said of them
  sent,     \* the transaction
  counted,  \* the proposal the contract counted the vote for
  asked,    \* history: the fees the contract asked during the command,
  was,      \* ... the proposals every slot had (for a list), and ...
  steady    \* ... the slots a list is about at all times of the command

contract == <<slots, epoch, fees, nodeTick, changes>>
answers == <<aligned, fee, shown, indices, prev, tally>>
output == <<printed, past, outcome, verdict, sent>>
history == <<asked, was, steady>>
vars == <<contract, command, pc, answers, output, counted, history>>

NoProposal == Cleared
Past(ring, ticks) == [ring |-> ring, ticks |-> ticks]
NoTally == [authorized |-> 0, casted |-> 0, votes |-> <<>>, scalar |-> FALSE]
Transaction(kind, amount, index, proposal, votes, subscription, tick) ==
  [kind |-> kind, amount |-> amount, index |-> index, proposal |-> proposal,
   votes |-> votes, subscription |-> subscription, tick |-> tick]
NotSent == Transaction("none", 0, 0, NoProposal, <<>>, <<>>, 0)

NoText == [class |-> "other", options |-> 0, url |-> FALSE, identity |-> "wrong",
           values |-> <<>>, subscription |-> <<>>]
Command(op, c, which, index, words, text, force) ==
  [op |-> op, contract |-> c, which |-> which, index |-> index,
   words |-> words, text |-> text, force |-> force]

(* An index is a number, "active" or "finished" for a list, or odd.         *)
SetCommands ==
  {Command("set", c, "odd", 0, <<>>, t, f) : c \in Contracts, t \in Texts, f \in BOOLEAN}
VoteCommands ==
  {Command("vote", c, w, 0, b, NoText, f) :
     c \in Contracts, w \in {"one", "odd"}, b \in Ballots, f \in BOOLEAN}
Question(op, c, which) == Command(op, c, which, 0, <<>>, NoText, FALSE)
Questions ==
  {Question(op, c, w) : op \in {"list", "results", "getvote"}, c \in Contracts, w \in {"one", "odd"}}
  \cup {Question("list", c, w) : c \in {"CCF", "QUTIL", "QX"}, w \in {"active", "finished"}}
  \cup {Question(op, "CCF", "odd") : op \in {"payments", "transfers", "subscription"}}
  \cup {Question("clear", c, "odd") : c \in Contracts}
  \cup {Question("revenue", "GQMPROP", "odd")}
Commands == SetCommands \cup VoteCommands \cup Questions

Listed(i, which, s, e) ==
  IF which = "active" THEN s[i].epoch = e ELSE s[i].epoch \in 1..(e - 1)

(* Slots are empty where the command does not look, fees are fixed when it  *)
(* does not ask for them, and a list is of proposals of one kind.           *)
Looks(op) == op \in {"vote", "results", "list"}
NeedsFee == Shareholder(command.contract) /\ command.op \in {"set", "clear", "vote"}
Others == IF command.op = "list" THEN {CHOOSE p \in Stored : TRUE} ELSE Stored
Stamped(p, e, t) == Proposal(p.class, p.options, p.values, e, t)
Earlier == {Stamped(p, e, FirstTick - 1) : p \in Others, e \in {1, 2}}

Init ==
  /\ command \in Commands /\ epoch = 2 /\ nodeTick = FirstTick /\ changes = 0
  /\ fees \in IF NeedsFee THEN Fees ELSE {CHOOSE f \in Fees : TRUE}
  /\ slots \in [Slots -> {Cleared} \cup Earlier]
  /\ \A i \in Slots :
       ~Looks(command.op) \/ (command.op # "list" /\ i # 0) => slots[i] = Cleared
  /\ pc = "start" /\ aligned = TRUE
  /\ fee = [set |-> 0, vote |-> 0] /\ shown = NoProposal
  /\ indices = <<>> /\ prev = -1 /\ tally = NoTally
  /\ printed = <<>> /\ past = Past(<<>>, <<>>) /\ outcome = "none" /\ verdict = "none"
  /\ sent = NotSent /\ counted = NoProposal
  /\ asked = {fees} /\ was = [i \in Slots |-> {slots[i]}]
  /\ steady = IF command.op = "list" THEN {i \in Slots : Listed(i, command.which, slots, epoch)} ELSE {}

-----------------------------------------------------------------------------
(* The contract and the node.  What they do before the first answer that    *)
(* matters to the outcome is in the initial states.                         *)
Pending == sent.kind = "vote" /\ nodeTick <= sent.tick
Running == pc \in {"page", "entry", "send"} \/ Pending
Change ==
  /\ Running /\ changes < MaxChanges /\ changes' = changes + 1
  /\ was' = IF command.op = "list" THEN [i \in Slots |-> was[i] \cup {slots'[i]}] ELSE was
  /\ steady' = IF command.op = "list"
               THEN {i \in steady : Listed(i, command.which, slots', epoch')} ELSE steady
  /\ asked' = asked \cup {fees'}
  /\ UNCHANGED <<nodeTick, command, pc, answers, output, counted>>

SetSlot(i, p) ==
  /\ Looks(command.op) /\ slots[i].tick < nodeTick
  /\ slots' = [slots EXCEPT ![i] = Stamped(p, epoch, nodeTick)]
  /\ UNCHANGED <<epoch, fees>> /\ Change

ClearSlot(i) ==
  /\ Looks(command.op) /\ slots[i] # Cleared /\ slots[i].tick < nodeTick
  /\ slots' = [slots EXCEPT ![i] = Cleared]
  /\ UNCHANGED <<epoch, fees>> /\ Change

EndEpoch ==
  /\ Looks(command.op) /\ epoch < 3 /\ epoch' = epoch + 1
  /\ UNCHANGED <<slots, fees>> /\ Change

ChangeFee ==
  /\ NeedsFee /\ pc # "ended" /\ fees' \in Fees \ {fees}
  /\ UNCHANGED <<slots, epoch>> /\ Change

Advance ==
  /\ Running /\ nodeTick < MaxTick /\ nodeTick' = nodeTick + 1
  /\ UNCHANGED <<slots, epoch, fees, changes, command, pc, answers, output, counted, history>>

(* The vote is executed in its tick, or never.                              *)
Execute ==
  /\ sent.kind = "vote" /\ nodeTick = sent.tick /\ counted = NoProposal
  /\ LET p == slots[sent.index]
     IN  /\ p.epoch = epoch /\ p.tick = sent.proposal.tick /\ SameType(p, sent.proposal)
         /\ counted' = p
  /\ UNCHANGED <<contract, command, pc, answers, output, history>>

-----------------------------------------------------------------------------
(* The command.                                                             *)
Client(from, to) == pc = from /\ pc' = to /\ UNCHANGED <<contract, command, counted, history>>

Supported == Shareholder(command.contract) => Support[command.contract] # "none"
NeedsSupport == command.op \in {"set", "vote", "list", "results"}

Unsupported ==
  /\ Client("start", "ended") /\ NeedsSupport /\ ~Supported /\ outcome' = "refused"
  /\ UNCHANGED <<answers, printed, past, verdict, sent>>

Start ==
  /\ Client("start", IF NeedsFee THEN "fees" ELSE "words")
  /\ NeedsSupport => Supported
  /\ UNCHANGED <<answers, output>>

(* runContractFunction reads as many bytes as the answer has.  It returns    *)
(* false for a packet of another type, and what is read after that packet    *)
(* has no right header; it throws when fewer bytes come.                     *)
Misread == aligned' = FALSE
Abort ==
  /\ pc \in {"fees", "proposal", "page", "entry", "results", "one", "send"}
  /\ Client(pc, "ended") /\ outcome' = "aborted"
  /\ UNCHANGED <<answers, printed, past, verdict, sent>>

GetFees ==
  /\ aligned /\ Client("fees", "words") /\ fee' = fees
  /\ UNCHANGED <<aligned, shown, indices, prev, tally, output>>
NoFees ==
  /\ Client("fees", "ended") /\ Misread /\ outcome' = "failed"
  /\ UNCHANGED <<fee, shown, indices, prev, tally, printed, past, verdict, sent>>

SetOk(text, c) ==
  ParseOk(text, c = "CCF") /\ CheckProposal(Parsed(text), c) /\ FitsContract(Parsed(text), c)

(* An identity with a wrong check sum ends the program; other errors do not  *)
(* matter with -force.                                                       *)
SetProposal ==
  /\ command.op = "set" /\ ~ExitsOn(command.text)
  /\ SetOk(command.text, command.contract) \/ command.force
  /\ Client("words", "send")
  /\ UNCHANGED <<answers, output>>
RefuseProposal ==
  /\ command.op = "set"
  /\ \/ ExitsOn(command.text)
     \/ ~SetOk(command.text, command.contract) /\ ~command.force
  /\ Client("words", "ended")
  /\ outcome' = IF ExitsOn(command.text) THEN "exit" ELSE "refused"
  /\ UNCHANGED <<answers, printed, past, verdict, sent>>

ClearProposal ==
  /\ command.op = "clear" /\ Client("words", "send") /\ UNCHANGED <<answers, output>>

OneRead == {"getvote", "payments", "transfers", "revenue", "subscription"}
NeedsIndex == command.op \in {"vote", "results", "getvote"}
WordsOk ==
  /\ NeedsIndex => command.which = "one"
  /\ command.op = "list" => command.which # "odd"
  /\ command.op = "vote" => VotesParse(command.words, command.contract)

RefuseWords ==
  /\ command.op \notin {"set", "clear"} /\ ~WordsOk
  /\ Client("words", "ended") /\ outcome' = "refused"
  /\ UNCHANGED <<answers, printed, past, verdict, sent>>

(* A list of one proposal has a connection of its own.                       *)
Look ==
  /\ command.op \notin {"set", "clear"} /\ WordsOk
  /\ Client("words",
       CASE command.op \in {"vote", "results"} -> "proposal"
         [] command.op \in OneRead -> "one"
         [] command.op = "list" -> IF command.which = "one" THEN "entry" ELSE "page")
  /\ indices' = IF command.op = "list" /\ command.which = "one" THEN <<command.index>> ELSE <<>>
  /\ UNCHANGED <<aligned, fee, shown, prev, tally, output>>

(* castVote and getVotingResults: the proposal first, printed.  A vote is    *)
(* checked against it unless -force.                                         *)
VoteOk(p) == command.force \/ CheckVotes(p, VotesOf(command.words, command.contract), command.contract)
GetProposal ==
  /\ aligned /\ Client("proposal", IF command.op = "vote" THEN "send" ELSE "results")
  /\ HasType(slots[command.index]) /\ shown' = slots[command.index]
  /\ command.op = "vote" => VoteOk(shown')
  /\ UNCHANGED <<aligned, fee, indices, prev, tally, output>>
RefuseVote ==
  /\ aligned /\ Client("proposal", "ended") /\ command.op = "vote"
  /\ HasType(slots[command.index]) /\ shown' = slots[command.index] /\ ~VoteOk(shown')
  /\ outcome' = "refused"
  /\ UNCHANGED <<aligned, fee, indices, prev, tally, printed, past, verdict, sent>>
NoValidProposal ==
  /\ Client("proposal", "ended") /\ outcome' = "failed"
  /\ \/ aligned /\ ~HasType(slots[command.index]) /\ UNCHANGED aligned
     \/ Misread
  /\ UNCHANGED <<fee, shown, indices, prev, tally, printed, past, verdict, sent>>

Verdicts(t) == IF t.authorized = 0 THEN "none" ELSE Verdict(t)
GetVotingResults ==
  /\ Client("results", "ended")
  /\ \/ aligned /\ tally' \in Tallies /\ UNCHANGED aligned
     \/ Misread /\ tally' = NoTally
  /\ verdict' = Verdicts(tally')
  /\ outcome' = IF tally'.authorized = 0 THEN "failed" ELSE "printed"
  /\ UNCHANGED <<fee, shown, indices, prev, printed, past, sent>>

(* getProposalIndices: pages of indices after prev, until one is not full.   *)
Pages ==
  LET next == {i \in Slots : i > prev /\ Listed(i, command.which, slots, epoch)}
  IN  {page \in UNION {[1..n -> next] : n \in 0..PageSize} :
         /\ \A j, k \in DOMAIN page : j < k => page[j] < page[k]
         /\ \A i \in next \ {page[k] : k \in DOMAIN page} :
              Len(page) = PageSize /\ i > page[PageSize]}

(* Mutant: the same page again.                                              *)
FollowingForgotten(page) == prev
Following(page) == IF page = <<>> THEN prev ELSE page[Len(page)]

GetProposalIndices ==
  /\ aligned
  /\ \E page \in Pages :
       /\ Client("page", IF Len(page) = PageSize THEN "page" ELSE "entry")
       /\ indices' = indices \o page /\ prev' = Following(page)
  /\ UNCHANGED <<aligned, fee, shown, tally, output>>
NoProposalIndices ==
  /\ Client("page", "entry") /\ Misread
  /\ UNCHANGED <<fee, shown, indices, prev, tally, output>>

(* The proposals of a list, one after another; an index whose proposal does  *)
(* not come is passed over.                                                  *)
PrintProposal ==
  /\ indices # <<>> /\ Client("entry", "entry") /\ indices' = Tail(indices)
  /\ \/ /\ aligned /\ UNCHANGED aligned
        /\ printed' = IF HasType(slots[Head(indices)])
                      THEN Append(printed, [index |-> Head(indices), proposal |-> slots[Head(indices)]])
                      ELSE printed
     \/ Misread /\ UNCHANGED printed
  /\ UNCHANGED <<fee, shown, prev, tally, past, outcome, verdict, sent>>
EndList ==
  /\ indices = <<>> /\ Client("entry", "ended") /\ outcome' = "printed"
  /\ UNCHANGED <<answers, printed, past, verdict, sent>>

(* The commands that read once and print.  Without an answer a subscription  *)
(* is printed or not: the flag that tells is not initialized.                *)
AskOnce ==
  /\ aligned /\ Client("one", "ended") /\ outcome' \in {"printed", "failed"}
  /\ \/ command.op = "payments" /\ \E r \in Rings : past' = Past(r, RegularPayments(r))
     \/ command.op = "transfers" /\ \E r \in Rings : past' = Past(r, LatestTransfers(r))
     \/ command.op \notin {"payments", "transfers"} /\ UNCHANGED past
  /\ UNCHANGED <<answers, printed, verdict, sent>>
NoAnswer ==
  /\ Client("one", "ended") /\ Misread
  /\ outcome' = "failed" \/ (command.op = "subscription" /\ outcome' = "printed")
  /\ UNCHANGED <<fee, shown, indices, prev, tally, printed, past, verdict, sent>>

-----------------------------------------------------------------------------
(* The transaction is built from what was read, then the tick is asked for;  *)
(* a poll that fails gives 0.                                                *)
(* Mutant: the fee of a proposal for everything.                             *)
AmountOfSet == IF Shareholder(command.contract) THEN fee.set ELSE IF command.contract = "CCF" THEN CCFFee ELSE 0

Amount ==
  CASE command.contract = "GQMPROP" -> 0
    [] command.contract = "CCF" -> IF command.op = "vote" THEN 0 ELSE CCFFee
    [] OTHER -> IF command.op = "vote" THEN fee.vote ELSE fee.set

Subscription(text) == IF command.contract = "CCF" /\ Subscribes(text) THEN text.subscription ELSE <<>>
ClearsSubscription == IF command.contract = "CCF" THEN <<0, 0, 0>> ELSE <<>>

(* Mutant: what the contract has when the transaction is built.              *)
VotedAnew == slots[command.index]
Voted == shown

(* The contract's form of proposals.                                         *)
ToForm(p, c) == IF StoresYesNo(c) THEN ToYesNo(p) ELSE p

Send ==
  /\ Client("send", "ended") /\ outcome' = "sent"
  /\ \E polled \in {nodeTick, 0} :
       sent' =
         CASE command.op = "set" ->
                Transaction("set", Amount, 0, ToForm(Parsed(command.text), command.contract), <<>>,
                            Subscription(command.text), polled + Offset)
           [] command.op = "clear" ->
                Transaction("clear", Amount, 0, Cleared, <<>>, ClearsSubscription, polled + Offset)
           [] command.op = "vote" ->
                Transaction("vote", Amount, command.index, Voted,
                            VotesOf(command.words, command.contract), <<>>, polled + Offset)
  /\ UNCHANGED <<answers, printed, past, verdict>>

ClientStep ==
  \/ Unsupported \/ Start \/ Abort \/ GetFees \/ NoFees
  \/ SetProposal \/ RefuseProposal \/ ClearProposal \/ RefuseWords \/ Look
  \/ GetProposal \/ RefuseVote \/ NoValidProposal \/ GetVotingResults
  \/ GetProposalIndices \/ NoProposalIndices \/ PrintProposal \/ EndList
  \/ AskOnce \/ NoAnswer \/ Send

Next ==
  \/ ClientStep
  \/ \E i \in Slots : ClearSlot(i) \/ \E p \in Others : SetSlot(i, p)
  \/ EndEpoch \/ ChangeFee \/ Advance \/ Execute

Spec == Init /\ [][Next]_vars

-----------------------------------------------------------------------------
(* Every variable has its type.                                             *)
TypeOK ==
  /\ slots \in [Slots -> Proposals0] /\ shown \in Proposals0 /\ counted \in Proposals0
  /\ nodeTick \in FirstTick..MaxTick /\ changes \in 0..MaxChanges /\ epoch \in Nat
  /\ fees \in Fees /\ fee \in [set : Nat, vote : Nat] /\ aligned \in BOOLEAN
  /\ pc \in {"start", "fees", "words", "proposal", "results", "page", "entry", "one", "send", "ended"}
  /\ indices \in Seq(Slots) /\ prev \in Slots \cup {-1} /\ past \in [ring : Seq(Nat), ticks : Seq(Nat)]
  /\ printed \in Seq([index : Slots, proposal : Proposals0])
  /\ verdict \in {"none", "total", "option", "accepted"}
  /\ outcome \in {"none", "refused", "exit", "failed", "aborted", "printed", "sent"}
  /\ (outcome = "sent") <=> (sent.kind # "none")

(* A vote is counted for the proposal that castVote printed, whatever has    *)
(* become of the slot since.                                                 *)
VoteCountsAsShown == counted # NoProposal => counted = shown

Fits(p, v) ==
  v = NoVoteValue \/ (IF Scalar(p) THEN v \in p.values[1]..p.values[2] ELSE v \in 0..(p.options - 1))

(* The votes that count, in proposal.h's words: all votes of the voter have  *)
(* the first value if it has no count.                                       *)
Effective(votes) ==
  IF votes[1].count = 0 THEN {votes[1].value}
  ELSE {votes[i].value : i \in {j \in DOMAIN votes : votes[j].count # 0}}

(* A vote that is counted has only values the proposal offers, without       *)
(* -force; for shareholders, of the values that have a count.                *)
VoteFits ==
  counted # NoProposal /\ ~command.force /\ (SingleVote(command.contract) \/ sent.votes[1].count # 0)
    => \A v \in Effective(sent.votes) : Fits(counted, v)

(* What proposal.h asks of the type and the values of a proposal, and the    *)
(* contract of its type.                                                     *)
Increasing(values, n) == \A i, j \in 1..n : i < j => values[i] < values[j]
WellFormed(p, c) ==
  LET n == p.options - 1
  IN  /\ \/ p.class = "general" /\ p.options \in 2..8
         \/ p.class = "transfer" /\ p.options \in 2..5 /\ Increasing(p.values, n) /\ p.values[1] >= 0
         \/ p.class = "in_epoch" /\ p.options = 2 /\ (c = "GQMPROP" \/ p.values[1] >= 0)
         \/ p.class = "variable" /\ p.options \in 2..5 /\ Increasing(p.values, n)
         \/ Scalar(p) /\ p.values[1] # NoVoteValue /\ p.values[3] \in p.values[1]..p.values[2]
      /\ p.epoch = 1
      /\ c = "GQMPROP" => ~Scalar(p)
      /\ c = "CCF" => p.class = "transfer"
      /\ StoresYesNo(c) => p.options = 2

(* What no check of the code looks at: a destination of zeros is an "ERROR"  *)
(* (proposal.cpp:136, 190); a transfer in a later epoch is "only supported   *)
(* in GQMPROP" (365), the yes/no form has no epoch for it, and its amount is *)
(* not negative (proposal.h:270).                                            *)
Overlooked(text, c) ==
  LET p == Parsed(text)
  IN  \/ p.class \in {"transfer", "in_epoch"} /\ text.identity = "zero"
      \/ p.class = "in_epoch" /\ (c # "GQMPROP" \/ p.values[1] < 0)
Documented(text, c) == WellFormed(Parsed(text), c) /\ ~Overlooked(text, c)

(* Without -force what is sent is documented but for what is overlooked, a   *)
(* documented proposal is refused for its subscription only, and what was    *)
(* checked arrives, except for the epoch that a contract with the yes/no     *)
(* form never gets.                                                          *)
SetIsValid ==
  LET text == command.text
      c == command.contract
      p == Parsed(text)
  IN  command.op = "set" /\ ~command.force =>
        /\ sent.kind = "set" =>
             /\ WellFormed(p, c)
             /\ sent.proposal = p \/ (p.class = "in_epoch" /\ StoresYesNo(c))
        /\ outcome = "refused" /\ Supported => ~Documented(text, c) \/ ~SubscriptionOk(text)

(* A shareholder pays a fee that the contract asked for during the command,  *)
(* and for what it asked it.                                                 *)
FeePaid ==
  outcome = "sent" /\ Shareholder(command.contract) =>
    \E f \in asked : sent.amount = IF command.op = "vote" THEN f.vote ELSE f.set

(* A list without an error has every proposal that it is about all the time, *)
(* each once, and shows them as they were in their slots.                    *)
ListComplete ==
  /\ \A i, j \in DOMAIN printed : i < j => printed[i].index < printed[j].index
  /\ \A i \in DOMAIN printed : printed[i].proposal \in was[printed[i].index]
  /\ command.op = "list" /\ command.which # "one" /\ outcome = "printed" /\ aligned
       => steady \subseteq {printed[i].index : i \in DOMAIN printed}

(* More than two thirds of all votes are cast and more than one third for an *)
(* option that no other beats: the integer divisions lose nothing.           *)
VerdictSound ==
  verdict # "none" =>
    (verdict = "accepted"
       <=> /\ 3 * tally.casted > 2 * tally.authorized
           /\ tally.scalar \/ \E o \in DOMAIN tally.votes : 3 * tally.votes[o] > tally.authorized)

(* The newest tick is on both sides of an older one in the array.            *)
Straddles(ring) ==
  \E i, j, k \in DOMAIN ring :
    i < j /\ j < k /\ ring[i] = Highest(ring) /\ ring[j] # Highest(ring) /\ ring[k] = Highest(ring)

(* Payments are printed "most recent on top" (proposal.cpp:1735), but for    *)
(* one case: when payments of the newest tick were written around the end of *)
(* the array, the loop at 1726 takes the last of the array for the newest,   *)
(* and those at the beginning of the array are printed last.                 *)
NewestFirst ==
  command.op = "payments" =>
    \A i, j \in DOMAIN past.ticks : i < j =>
      \/ past.ticks[i] >= past.ticks[j]
      \/ Straddles(past.ring) /\ past.ticks[j] = Highest(past.ring)
=============================================================================
