----------------------- MODULE ProposalSession_proofs -----------------------
(***************************************************************************)
(* Proofs about ProposalSession, for all values of its constants: a vote   *)
(* counts for the proposal that was shown and has only values that this    *)
(* offers, what a shareholder pays was asked for, a verdict is exact, only *)
(* what is allowed is set, a list is whole, and payments fall.             *)
(***************************************************************************)
EXTENDS ProposalSession, TLAPS, WellFoundedInduction, NaturalsInduction, SequenceTheorems

(* The contract stamps its proposals with ticks of the node.                *)
World ==
  /\ command \in Commands /\ epoch \in Nat /\ epoch >= 2 /\ nodeTick \in Nat
  /\ slots \in [Slots -> Proposals0] /\ \A i \in Slots : slots[i].tick <= nodeTick

(* The places of a command: a vote is sent for a proposal that was read, and *)
(* nothing happens after the transaction.                                    *)
Places == {"start", "fees", "words", "proposal", "results", "page", "entry", "one", "send", "ended"}
Route ==
  /\ pc \in Places
  /\ pc = "proposal" => command.op \in {"vote", "results"}
  /\ pc = "send" => command.op \in {"set", "clear", "vote"}
  /\ pc = "send" /\ command.op = "vote" => shown # NoProposal /\ VoteOk(shown)
  /\ outcome = "sent" \/ sent # NotSent \/ counted # NoProposal => pc = "ended"

(* The slot has the proposal that was shown, or it was set or cleared in a   *)
(* later tick.                                                               *)
Since ==
  shown # NoProposal =>
    /\ shown \in Proposals0 /\ HasType(shown) /\ shown.tick <= nodeTick
    /\ \/ slots[0] = shown
       \/ shown.tick < nodeTick /\ (slots[0] = Cleared \/ slots[0].tick > shown.tick)

(* What is sent, and counted, is what was read.                              *)
AsRead ==
  /\ sent.kind = "vote" =>
       /\ command.op = "vote" /\ shown # NoProposal /\ VoteOk(shown)
       /\ sent.index = 0 /\ sent.proposal = shown
       /\ sent.votes = VotesOf(command.words, command.contract)
  /\ counted # NoProposal => sent.kind = "vote" /\ counted = shown

(* The fee that was read is one that was asked.                              *)
Asked ==
  /\ fees \in asked
  /\ NeedsFee /\ pc \in {"words", "proposal", "send"} => fee \in asked
  /\ FeePaid

IInv == World /\ Route /\ Since /\ AsRead /\ Asked

-----------------------------------------------------------------------------
Ops == {"set", "clear", "vote", "list", "results", "getvote", "payments", "transfers", "subscription", "revenue"}

LEMMA SessionTypes ==
  /\ 0 \in Slots /\ FirstTick \in Nat /\ FirstTick - 1 \in Nat
  /\ Ballots \subseteq Seq(Int) /\ Stored # {} /\ Stored \subseteq Proposals0
<1>1. FirstTick \in Nat \ {0}
  BY SessionAssumption
<1> QED
  BY <1>1, SessionAssumption

(* Commands, as they are enumerated.                                        *)
LEMMA CommandTypes ==
  \A c \in Commands : /\ c.op \in Ops /\ c.contract \in Contracts /\ c.index = 0
                      /\ c.words \in Seq(Int)
<1>1. Contracts = {"GQMPROP", "CCF", "QUTIL", "TESTEXB", "QX"}
  BY Zenon DEF Contracts, Support
<1>2. <<>> \in Seq(Int) /\ <<1>> \in Seq(Int) /\ Ballots \subseteq Seq(Int)
  BY SessionTypes
<1> DEFINE Typed(c) == /\ c.op \in Ops /\ c.contract \in Contracts /\ c.index = 0
                       /\ c.words \in Seq(Int)
<1>3. ASSUME NEW o \in Ops, NEW k \in Contracts, NEW w, NEW b \in Seq(Int), NEW t, NEW f
      PROVE  Typed(Command(o, k, w, 0, b, t, f))
  BY DEF Command
<1>4. Ops = {"set", "clear", "vote", "list", "results", "getvote", "payments", "transfers",
             "subscription", "revenue"}
  BY DEF Ops
<1> HIDE DEF Typed
<1> QED
  <2> SUFFICES ASSUME NEW c \in Commands PROVE Typed(c)
    BY DEF Typed
  <2>1. ASSUME c \in SetCommands PROVE Typed(c)
    <3>1. \E k \in Contracts, t \in Texts, f \in BOOLEAN : c = Command("set", k, "odd", 0, <<>>, t, f)
      BY <2>1 DEF SetCommands
    <3> QED
      BY <1>2, <1>3, <1>4, <3>1
  <2>2. ASSUME c \in VoteCommands PROVE Typed(c)
    <3>1. \E k \in Contracts, w \in {"one", "odd"}, b \in Ballots, f \in BOOLEAN :
            c = Command("vote", k, w, 0, b, NoText, f)
      BY <2>2 DEF VoteCommands
    <3> QED
      BY <1>2, <1>3, <1>4, <3>1
  <2>3. ASSUME c \in Questions PROVE Typed(c)
    <3>1. ASSUME NEW o \in Ops, NEW k \in Contracts, NEW w PROVE Typed(Question(o, k, w))
      BY <1>2, <1>3 DEF Question
    <3>2. \/ \E o \in {"list", "results", "getvote"}, k \in Contracts, w \in {"one", "odd"} :
               c = Question(o, k, w)
          \/ \E k \in {"CCF", "QUTIL", "QX"}, w \in {"active", "finished"} : c = Question("list", k, w)
          \/ \E o \in {"payments", "transfers", "subscription"} : c = Question(o, "CCF", "odd")
          \/ \E k \in Contracts : c = Question("clear", k, "odd")
          \/ c = Question("revenue", "GQMPROP", "odd")
      BY <2>3 DEF Questions
    <3> QED
      BY <1>1, <1>4, <3>1, <3>2
  <2> QED
    BY <2>1, <2>2, <2>3 DEF Commands

LEMMA ClearedTypes == Cleared \in Proposals0 /\ Cleared.tick = 0 /\ Cleared.epoch = 0 /\ ~HasType(Cleared)
  BY DEF Cleared, Proposal, Proposals0, NoValues, HasType

(* The proposals that others set.                                           *)
LEMMA OthersTypes == Others \subseteq Proposals0
  BY SessionTypes DEF Others

LEMMA StampedTypes ==
  \A p \in Proposals0, e, t \in Nat : Stamped(p, e, t) \in Proposals0 /\ Stamped(p, e, t).tick = t
  BY DEF Stamped, Proposal, Proposals0

(* The votes of a command: there is a first, and all values are numbers.    *)
LEMMA VotesTypes ==
  \A c \in Commands : LET votes == VotesOf(c.words, c.contract)
                      IN  1 \in DOMAIN votes /\ \A i \in DOMAIN votes : votes[i].value \in Int
<1> SUFFICES ASSUME NEW c \in Commands
             PROVE  LET votes == VotesOf(c.words, c.contract)
                    IN  1 \in DOMAIN votes /\ \A i \in DOMAIN votes : votes[i].value \in Int
  OBVIOUS
<1> DEFINE words == c.words
<1>1. words \in Seq(Int)
  BY CommandTypes
<1>2. \A w \in Int : VoteWord(w) \in Int
  BY RangeAssumption DEF VoteWord, NoVoteValue
<1> HIDE DEF words
<1>3. CASE words = <<>>
  <2>1. VotesOf(c.words, c.contract) = <<Pair(0, 0)>>
    BY <1>3 DEF VotesOf, words
  <2> QED
    BY <2>1 DEF Pair
<1>4. CASE words # <<>> /\ (SingleVote(c.contract) \/ Len(words) = 1)
  <2>1. VotesOf(c.words, c.contract) = <<Pair(0, VoteWord(words[1]))>>
    BY <1>4 DEF VotesOf, words
  <2>2. words[1] \in Int
    <3>1. Len(words) \in Nat /\ Len(words) # 0
      BY <1>1, <1>4
    <3> QED
      BY <1>1, <3>1
  <2>3. VoteWord(words[1]) \in Int
    BY <1>2, <2>2
  <2> QED
    BY <2>1, <2>3 DEF Pair
<1>5. CASE words # <<>> /\ ~SingleVote(c.contract) /\ Len(words) # 1
  <2>1. Len(words) \in Nat /\ Len(words) >= 2
    <3>1. Len(words) \in Nat /\ Len(words) # 0
      BY <1>1, <1>5
    <3> DEFINE l == Len(words)
    <3>2. l \in Nat /\ l # 0 /\ l # 1
      BY <1>5, <3>1
    <3> HIDE DEF l
    <3>3. l \in Nat /\ l >= 2
      BY <3>2
    <3> QED
      BY <3>3 DEF l
  <2>2. 1 \in 1..(Len(words) \div 2)
    BY <2>1
  <2>3. \A i \in 1..(Len(words) \div 2) : 2 * i \in 1..Len(words)
    BY <2>1
  <2>4. VotesOf(c.words, c.contract)
          = [i \in 1..(Len(words) \div 2) |-> Pair(words[2 * i - 1], VoteWord(words[2 * i]))]
    BY <1>5 DEF VotesOf, words
  <2>5. \A i \in 1..(Len(words) \div 2) : VoteWord(words[2 * i]) \in Int
    <3>1. \A j \in 1..Len(words) : words[j] \in Int
      BY <1>1
    <3> QED
      BY <1>2, <2>3, <3>1
  <2> QED
    BY <2>2, <2>4, <2>5 DEF Pair
<1> QED
  BY <1>3, <1>4, <1>5

LEMMA InitInv == Init => IInv
<1> SUFFICES ASSUME Init PROVE IInv
  OBVIOUS
<1>1. World
  <2>1. slots \in [Slots -> {Cleared} \cup Earlier]
    BY DEF Init
  <2>2. \A q \in {Cleared} \cup Earlier : q \in Proposals0 /\ q.tick <= FirstTick
    <3>1. ASSUME NEW p \in Others, NEW e \in {1, 2}
          PROVE  LET q == Stamped(p, e, FirstTick - 1) IN q \in Proposals0 /\ q.tick <= FirstTick
      <4>1. p \in Proposals0 /\ e \in Nat /\ FirstTick - 1 \in Nat /\ FirstTick - 1 <= FirstTick
        BY OthersTypes, SessionTypes
      <4> QED
        BY <4>1, StampedTypes
    <3>2. Cleared \in Proposals0 /\ Cleared.tick <= FirstTick
      BY ClearedTypes, SessionTypes
    <3> QED
      BY <3>1, <3>2 DEF Earlier
  <2>3. slots \in [Slots -> Proposals0] /\ \A i \in Slots : slots[i].tick <= FirstTick
    BY <2>1, <2>2
  <2>4. command \in Commands /\ epoch = 2 /\ nodeTick = FirstTick
    BY DEF Init
  <2> QED
    BY <2>3, <2>4, SessionTypes DEF World
<1>2. Route
  BY DEF Init, Route, Places
<1>3. Since /\ AsRead
  BY DEF Init, Since, AsRead, NotSent, Transaction
<1>4. Asked
  BY DEF Init, Asked, FeePaid
<1> QED
  BY <1>1, <1>2, <1>3, <1>4 DEF IInv

-----------------------------------------------------------------------------
(* The contract and the node.                                               *)

(* What happens outside the command leaves what it read and sent alone.     *)
LEMMA OutsideInv ==
  ASSUME IInv, UNCHANGED <<command, pc, answers, output, counted>>,
         asked \subseteq asked', fees' \in asked', World', Since'
  PROVE  IInv'
<1>1. Route'
  BY DEF IInv, Route, answers, output, VoteOk
<1>2. AsRead'
  BY DEF IInv, AsRead, answers, output, VoteOk
<1>3. Asked'
  BY DEF IInv, Asked, FeePaid, NeedsFee, answers, output
<1> QED
  BY <1>1, <1>2, <1>3 DEF IInv

LEMMA SetSlotInv == ASSUME IInv, NEW i \in Slots, NEW p \in Others, SetSlot(i, p) PROVE IInv'
<1>1. p \in Proposals0
  BY OthersTypes
<1> DEFINE q == Stamped(p, epoch, nodeTick)
<1>2. q \in Proposals0 /\ q.tick = nodeTick
  BY <1>1, StampedTypes DEF IInv, World
<1>3. /\ slots[i].tick < nodeTick /\ slots' = [slots EXCEPT ![i] = q]
      /\ UNCHANGED <<epoch, fees, nodeTick, command, pc, answers, output, counted>>
      /\ asked' = asked \cup {fees'}
  BY DEF SetSlot, Change
<1> HIDE DEF q
<1>4. World'
  BY <1>2, <1>3 DEF IInv, World
<1>5. Since'
  <2> SUFFICES ASSUME shown # NoProposal PROVE Since'
    BY <1>3 DEF Since, answers
  <2>1. shown.tick \in Nat /\ nodeTick \in Nat /\ slots[i].tick \in Nat
    BY DEF IInv, Since, World, Proposals0
  <2>2. CASE i = 0
    BY <1>2, <1>3, <2>1, <2>2 DEF IInv, Since, World, answers
  <2>3. CASE i # 0
    BY <1>3, <2>3 DEF IInv, Since, World, answers
  <2> QED
    BY <2>2, <2>3
<1> QED
  BY <1>3, <1>4, <1>5, OutsideInv

LEMMA ClearSlotInv == ASSUME IInv, NEW i \in Slots, ClearSlot(i) PROVE IInv'
<1>1. /\ slots[i].tick < nodeTick /\ slots' = [slots EXCEPT ![i] = Cleared]
      /\ UNCHANGED <<epoch, fees, nodeTick, command, pc, answers, output, counted>>
      /\ asked' = asked \cup {fees'}
  BY DEF ClearSlot, Change
<1>2. World'
  BY <1>1, ClearedTypes DEF IInv, World
<1>3. Since'
  <2> SUFFICES ASSUME shown # NoProposal PROVE Since'
    BY <1>1 DEF Since, answers
  <2>1. CASE i = 0
    BY <1>1, <2>1 DEF IInv, Since, World, answers
  <2>2. CASE i # 0
    BY <1>1, <2>2 DEF IInv, Since, World, answers
  <2> QED
    BY <2>1, <2>2
<1> QED
  BY <1>1, <1>2, <1>3, OutsideInv

LEMMA OtherChangesInv == ASSUME IInv, EndEpoch \/ ChangeFee PROVE IInv'
<1>1. /\ UNCHANGED <<slots, nodeTick, command, pc, answers, output, counted>>
      /\ epoch' \in {epoch, epoch + 1} /\ asked' = asked \cup {fees'}
  BY DEF EndEpoch, ChangeFee, Change
<1>2. World'
  BY <1>1 DEF IInv, World
<1>3. Since'
  BY <1>1 DEF IInv, Since, answers
<1> QED
  BY <1>1, <1>2, <1>3, OutsideInv

LEMMA AdvanceInv == ASSUME IInv, Advance PROVE IInv'
<1>1. /\ UNCHANGED <<slots, epoch, fees, command, pc, answers, output, counted, history>>
      /\ nodeTick' = nodeTick + 1
  BY DEF Advance
<1>2. World'
  BY <1>1 DEF IInv, World, Proposals0
<1>3. Since'
  BY <1>1 DEF IInv, Since, World, Proposals0, answers
<1> QED
  BY <1>1, <1>2, <1>3, OutsideInv DEF IInv, Asked, history

(* A vote is counted in a slot with the tick of the proposal that was shown: *)
(* by Since there is only this one.                                          *)
LEMMA ExecuteInv == ASSUME IInv, Execute PROVE IInv'
<1>1. /\ sent.kind = "vote" /\ counted' = slots[sent.index]
      /\ slots[sent.index].epoch = epoch /\ slots[sent.index].tick = sent.proposal.tick
      /\ UNCHANGED <<contract, command, pc, answers, output, history>>
  BY DEF Execute
<1>2. sent.index = 0 /\ sent.proposal = shown /\ shown # NoProposal
  BY <1>1 DEF IInv, AsRead
<1>3. slots[0] # Cleared
  BY <1>1, <1>2, ClearedTypes DEF IInv, World
<1>4. shown.tick \in Nat
  BY <1>2 DEF IInv, Since, Proposals0
<1>5. counted' = shown
  BY <1>1, <1>2, <1>3, <1>4 DEF IInv, Since
<1>6. World' /\ Since'
  BY <1>1 DEF IInv, World, Since, contract, answers
<1>7. sent # NotSent
  BY <1>1 DEF NotSent, Transaction
<1>8. Route'
  BY <1>1, <1>7 DEF IInv, Route, VoteOk, answers, output
<1>9. AsRead'
  BY <1>1, <1>5 DEF IInv, AsRead, VoteOk, answers, output
<1>10. Asked'
  BY <1>1 DEF IInv, Asked, FeePaid, NeedsFee, answers, output, contract, history
<1> QED
  BY <1>6, <1>8, <1>9, <1>10 DEF IInv

-----------------------------------------------------------------------------
(* The command.  Most steps read neither proposal nor fees and send nothing. *)
Quiet ==
  /\ UNCHANGED <<contract, command, counted, history, shown, fee, sent>>
  /\ pc # "ended" /\ pc' \in Places /\ outcome' # "sent"
  /\ pc' = "words" => ~NeedsFee
  /\ pc' = "proposal" => pc = "words" /\ command.op \in {"vote", "results"}
  /\ pc' = "send" => pc = "words" /\ command.op \in {"set", "clear"}

LEMMA QuietInv == ASSUME IInv, Quiet PROVE IInv'
<1>1. World' /\ Since'
  BY DEF IInv, Quiet, World, Since, contract
<1>2. Route'
  BY DEF IInv, Quiet, Route
<1>3. AsRead'
  BY DEF IInv, Quiet, AsRead, VoteOk
<1>4. Asked'
  BY DEF IInv, Quiet, Asked, FeePaid, NeedsFee, contract, history
<1> QED
  BY <1>1, <1>2, <1>3, <1>4 DEF IInv

LEMMA QuietSteps ==
  ASSUME IInv,
         \/ Unsupported \/ Start \/ Abort \/ NoFees
         \/ SetProposal \/ RefuseProposal \/ ClearProposal \/ RefuseWords \/ Look
         \/ NoValidProposal \/ GetVotingResults
         \/ GetProposalIndices \/ NoProposalIndices \/ PrintProposal \/ EndList
         \/ AskOnce \/ NoAnswer
  PROVE  Quiet
<1> USE DEF Quiet, Client, Places, answers, output
<1>1. CASE Unsupported
  BY <1>1 DEF Unsupported
<1>2. CASE Start
  BY <1>2 DEF Start, IInv, Route
<1>3. CASE Abort
  BY <1>3 DEF Abort
<1>4. CASE NoFees
  BY <1>4 DEF NoFees
<1>5. CASE SetProposal
  BY <1>5 DEF SetProposal, IInv, Route
<1>6. CASE RefuseProposal
  BY <1>6 DEF RefuseProposal
<1>7. CASE ClearProposal
  BY <1>7 DEF ClearProposal, IInv, Route
<1>8. CASE RefuseWords
  BY <1>8 DEF RefuseWords
<1>9. CASE Look
  <2>1. command.op \in Ops \ {"set", "clear"}
    BY <1>9, CommandTypes DEF Look, IInv, World
  <2> QED
    BY <1>9, <2>1 DEF Look, OneRead, Ops, IInv, Route
<1>10. CASE NoValidProposal
  BY <1>10 DEF NoValidProposal
<1>11. CASE GetVotingResults
  BY <1>11 DEF GetVotingResults
<1>12. CASE GetProposalIndices
  BY <1>12 DEF GetProposalIndices, IInv, Route
<1>13. CASE NoProposalIndices
  BY <1>13 DEF NoProposalIndices, IInv, Route
<1>14. CASE PrintProposal
  BY <1>14 DEF PrintProposal, IInv, Route
<1>15. CASE EndList
  BY <1>15 DEF EndList
<1>16. CASE AskOnce
  BY <1>16 DEF AskOnce
<1>17. CASE NoAnswer
  BY <1>17 DEF NoAnswer
<1> QED
  BY <1>1, <1>2, <1>3, <1>4, <1>5, <1>6, <1>7, <1>8, <1>9, <1>10, <1>11, <1>12,
     <1>13, <1>14, <1>15, <1>16, <1>17

LEMMA GetFeesInv == ASSUME IInv, GetFees PROVE IInv'
<1>1. /\ UNCHANGED <<contract, command, counted, history, shown, output>>
      /\ pc = "fees" /\ pc' = "words" /\ fee' = fees
  BY DEF GetFees, Client
<1>2. World' /\ Since'
  BY <1>1 DEF IInv, World, Since, contract
<1>3. Route' /\ AsRead'
  BY <1>1 DEF IInv, Route, AsRead, Places, VoteOk, output
<1>4. Asked'
  BY <1>1 DEF IInv, Asked, FeePaid, NeedsFee, contract, history, output
<1> QED
  BY <1>2, <1>3, <1>4 DEF IInv

LEMMA ReadProposalInv == ASSUME IInv, GetProposal \/ RefuseVote PROVE IInv'
<1>1. /\ UNCHANGED <<contract, command, counted, history, fee, sent>>
      /\ pc = "proposal" /\ pc' \in {"send", "results", "ended"}
      /\ shown' = slots[command.index] /\ HasType(slots[command.index])
      /\ pc' = "send" => command.op = "vote" /\ VoteOk(shown') /\ outcome' = outcome
      /\ outcome' \in {outcome, "refused"}
  BY DEF GetProposal, RefuseVote, Client, output
<1>2. shown' = slots[0] /\ shown' \in Proposals0 /\ HasType(shown') /\ shown'.tick <= nodeTick
  BY <1>1, CommandTypes, SessionAssumption DEF IInv, World
<1>3. shown' # NoProposal
  BY <1>2, ClearedTypes DEF NoProposal
<1>4. sent = NotSent /\ counted = NoProposal /\ outcome # "sent"
  BY <1>1 DEF IInv, Route
<1>5. World' /\ Since'
  BY <1>1, <1>2 DEF IInv, World, Since, contract
<1>6. Route'
  BY <1>1, <1>3, <1>4 DEF Route, Places, VoteOk
<1>7. AsRead'
  BY <1>1, <1>4 DEF AsRead, NotSent, Transaction
<1>8. Asked'
  BY <1>1, <1>4 DEF IInv, Asked, FeePaid, NeedsFee, contract, history
<1> QED
  BY <1>5, <1>6, <1>7, <1>8 DEF IInv

LEMMA SendInv == ASSUME IInv, Send PROVE IInv'
<1>1. /\ UNCHANGED <<contract, command, counted, history, shown, fee>>
      /\ pc = "send" /\ pc' = "ended" /\ outcome' = "sent"
  BY DEF Send, Client, answers
<1>2. counted = NoProposal /\ command.op \in {"set", "clear", "vote"}
  BY <1>1 DEF IInv, Route
<1>3. World' /\ Since' /\ Route'
  BY <1>1, <1>2 DEF IInv, World, Since, Route, Places, contract
<1>4. sent'.kind = command.op /\ sent'.amount = Amount
  BY <1>2 DEF Send, Transaction
<1>5. AsRead'
  <2>1. command.op = "vote" =>
          /\ sent'.index = command.index /\ sent'.proposal = shown
          /\ sent'.votes = VotesOf(command.words, command.contract)
    BY DEF Send, Transaction, Voted
  <2> QED
    BY <1>1, <1>2, <1>4, <2>1, CommandTypes DEF IInv, Route, World, AsRead, VoteOk
<1>6. Asked'
  <2>1. ASSUME Shareholder(command.contract)
        PROVE  fee \in asked /\ Amount = IF command.op = "vote" THEN fee.vote ELSE fee.set
    BY <1>1, <1>2, <2>1 DEF IInv, Asked, NeedsFee, Amount, Shareholder
  <2> QED
    BY <1>1, <1>4, <2>1 DEF IInv, Asked, FeePaid, contract, history
<1> QED
  BY <1>3, <1>5, <1>6 DEF IInv

LEMMA NextInv == IInv /\ [Next]_vars => IInv'
<1> SUFFICES ASSUME IInv, [Next]_vars PROVE IInv'
  OBVIOUS
<1>1. CASE ClientStep
  BY <1>1, QuietSteps, QuietInv, GetFeesInv, ReadProposalInv, SendInv DEF ClientStep
<1>2. ASSUME NEW i \in Slots, ClearSlot(i) PROVE IInv'
  BY <1>2, ClearSlotInv
<1>3. ASSUME NEW i \in Slots, NEW p \in Others, SetSlot(i, p) PROVE IInv'
  BY <1>3, SetSlotInv
<1>4. CASE EndEpoch \/ ChangeFee
  BY <1>4, OtherChangesInv
<1>5. CASE Advance
  BY <1>5, AdvanceInv
<1>6. CASE Execute
  BY <1>6, ExecuteInv
<1>7. CASE UNCHANGED vars
  BY <1>7, OutsideInv DEF IInv, World, Since, Asked, vars, contract, answers, history
<1> QED
  BY <1>1, <1>2, <1>3, <1>4, <1>5, <1>6, <1>7 DEF Next

-----------------------------------------------------------------------------
(* castVote: a vote is counted for the proposal that was printed, whatever   *)
(* has become of its slot.                                                   *)
THEOREM VotesCountAsShown == Spec => []VoteCountsAsShown
<1>1. IInv => VoteCountsAsShown
  BY DEF IInv, AsRead, VoteCountsAsShown
<1> QED
  BY InitInv, NextInv, <1>1, PTL DEF Spec

(* castVote: a vote that is counted has only values the proposal offers: the *)
(* check before the transaction is still good when it is executed.           *)
THEOREM VotesFit == Spec => []VoteFits
<1>1. IInv => VoteFits
  <2> SUFFICES ASSUME IInv, counted # NoProposal, ~command.force,
                      SingleVote(command.contract) \/ sent.votes[1].count # 0,
                      NEW v \in Effective(sent.votes)
               PROVE  Fits(counted, v)
    BY DEF VoteFits
  <2> DEFINE votes == VotesOf(command.words, command.contract)
  <2>1. /\ counted \in Proposals0 /\ sent.votes = votes
        /\ CheckVotes(counted, votes, command.contract)
    BY DEF IInv, AsRead, Since, VoteOk
  <2>2. \A i \in DOMAIN votes : votes[i].value \in Int
    BY VotesTypes DEF IInv, World
  <2>3. PICK i \in DOMAIN votes :
          /\ v = votes[i].value
          /\ SingleVote(command.contract) \/ votes[i].count # 0
    BY <2>1, VotesTypes DEF Effective, IInv, World
  <2>4. CheckVoteValue(counted, v)
    BY <2>1, <2>3 DEF CheckVotes
  <2>5. v \in Int
    BY <2>2, <2>3
  <2> HIDE DEF votes
  <2> QED
    BY <2>1, <2>4, <2>5 DEF CheckVoteValue, Fits, Proposals0
<1> QED
  BY InitInv, NextInv, <1>1, PTL DEF Spec

(* proposal.cpp pays what getShareholderProposalFees read, and the contract  *)
(* did ask for it: for a vote the fee of votes, else that of proposals.      *)
THEOREM FeesPaid == Spec => []FeePaid
<1>1. IInv => FeePaid
  BY DEF IInv, Asked
<1> QED
  BY InitInv, NextInv, <1>1, PTL DEF Spec

-----------------------------------------------------------------------------
(* What is said of a voting result.                                         *)
LessThan == {ss \in Nat \X Nat : ss[1] < ss[2]}

LEMMA LessThanWellFounded == IsWellFoundedOn(LessThan, Nat)
  BY NatLessThanWellFounded DEF OpToRel, LessThan

LEMMA LeastNatural ==
  ASSUME NEW T, T \subseteq Nat, T # {}
  PROVE  \E n \in T : \A k \in T : n <= k
<1>1. PICK n \in T : \A k \in T : ~ (<<k, n>> \in LessThan)
  BY WFMin, LessThanWellFounded
<1>2. \A k \in T : ~ (k < n)
  BY <1>1 DEF LessThan
<1> QED
  BY <1>2

(* Induction, for a property given as the set of the numbers that have it.  *)
LEMMA SetInduction ==
  ASSUME NEW T, 0 \in T, \A n \in Nat : n \in T => n + 1 \in T
  PROVE  Nat \subseteq T
<1> SUFFICES ASSUME ~(Nat \subseteq T) PROVE FALSE
  OBVIOUS
<1>1. PICK n \in Nat \ T : \A k \in Nat \ T : n <= k
  <2>1. Nat \ T \subseteq Nat /\ Nat \ T # {}
    OBVIOUS
  <2> QED
    BY <2>1, LeastNatural
<1>2. n # 0 /\ n \in Nat
  BY <1>1
<1>3. n - 1 \in Nat /\ n - 1 \in T
  BY <1>1, <1>2
<1>4. n - 1 + 1 = n
  BY <1>2
<1>5. n - 1 + 1 \in T
  BY <1>3
<1> QED
  BY <1>1, <1>4, <1>5

(* There is a first option with the most votes.                             *)
Leads(votes, o, n) ==
  /\ \A q \in 1..n : votes[q] <= votes[o]
  /\ \A q \in 1..n : q < o => votes[q] < votes[o]

LEMMA MostVotedFacts ==
  ASSUME NEW votes \in Seq(Nat), votes # <<>>
  PROVE  /\ MostVoted(votes) \in DOMAIN votes
         /\ \A q \in DOMAIN votes : votes[q] <= votes[MostVoted(votes)]
<1> DEFINE l == Len(votes)
<1>1. l \in Nat /\ l # 0 /\ DOMAIN votes = 1..l /\ \A i \in 1..l : votes[i] \in Nat
  BY EmptySeq
<1> HIDE DEF l
<1> DEFINE T == {n \in Nat : n + 1 <= l => \E o \in 1..(n + 1) : Leads(votes, o, n + 1)}
<1>2. 0 \in T
  <2>1. \A q \in 1..1 : q = 1
    OBVIOUS
  <2>2. 1 <= l => Leads(votes, 1, 1)
    BY <1>1, <2>1 DEF Leads
  <2>3. 0 + 1 = 1 /\ 1 \in 1..1
    OBVIOUS
  <2> QED
    BY <2>2, <2>3
<1>3. ASSUME NEW n \in Nat, n \in T PROVE n + 1 \in T
  <2> DEFINE m == n + 1
  <2> SUFFICES ASSUME m + 1 <= l PROVE \E o \in 1..(m + 1) : Leads(votes, o, m + 1)
    OBVIOUS
  <2>1. m \in Nat /\ m + 1 \in 1..l
    BY <1>1
  <2>2. PICK o \in 1..m : Leads(votes, o, m)
    BY <1>1, <1>3, <2>1
  <2> HIDE DEF m
  <2>3. \A q \in 1..(m + 1) : q \in 1..m \/ q = m + 1
    BY <2>1
  <2>4. \A q \in 1..(m + 1) : votes[q] \in Nat
    BY <1>1, <2>1
  <2>5. o \in 1..(m + 1) /\ m + 1 \in 1..(m + 1) /\ ~ (m + 1 < o)
    BY <2>1
  <2>6. CASE votes[m + 1] <= votes[o]
    <3>1. Leads(votes, o, m + 1)
      BY <2>2, <2>3, <2>4, <2>5, <2>6 DEF Leads
    <3> QED
      BY <2>5, <3>1
  <2>7. CASE votes[m + 1] > votes[o]
    <3>1. ASSUME NEW q \in 1..m PROVE votes[q] < votes[m + 1]
      <4>1. q \in 1..(m + 1) /\ votes[q] <= votes[o]
        BY <2>1, <2>2 DEF Leads
      <4> QED
        BY <2>4, <2>5, <2>7, <4>1
    <3>2. ASSUME NEW q \in 1..(m + 1)
          PROVE  votes[q] <= votes[m + 1] /\ (q < m + 1 => votes[q] < votes[m + 1])
      <4>1. CASE q \in 1..m
        BY <2>4, <2>5, <3>1, <4>1
      <4>2. CASE q = m + 1
        BY <2>1, <2>4, <2>5, <4>2
      <4> QED
        BY <2>3, <4>1, <4>2
    <3>3. Leads(votes, m + 1, m + 1)
      BY <3>2 DEF Leads
    <3> QED
      BY <2>5, <3>3
  <2> QED
    BY <2>4, <2>5, <2>6, <2>7
<1> HIDE DEF T
<1>4. l - 1 \in T
  <2>1. Nat \subseteq T
    BY <1>2, <1>3, SetInduction
  <2>2. l - 1 \in Nat
    BY <1>1
  <2> QED
    BY <2>1, <2>2
<1>5. (l - 1) + 1 = l /\ l - 1 \in Nat
  BY <1>1
<1>6. \E o \in 1..l : Leads(votes, o, l)
  BY <1>4, <1>5 DEF T
<1>7. \E o \in DOMAIN votes : /\ \A q \in DOMAIN votes : votes[q] <= votes[o]
                              /\ \A q \in DOMAIN votes : q < o => votes[q] < votes[o]
  BY <1>1, <1>6 DEF Leads
<1> QED
  BY <1>7 DEF MostVoted

(* The divisions by three.                                                  *)
LEMMA Thirds ==
  ASSUME NEW a \in Nat, NEW c \in Nat
  PROVE  /\ ~ (c <= (a * 2) \div 3) <=> 3 * c > 2 * a
         /\ ~ (c <= a \div 3) <=> 3 * c > a
  OBVIOUS

LEMMA TallyVerdict ==
  ASSUME NEW t \in Tallies
  PROVE  Verdict(t) = "accepted"
           <=> /\ 3 * t.casted > 2 * t.authorized
               /\ t.scalar \/ \E o \in DOMAIN t.votes : 3 * t.votes[o] > t.authorized
<1> DEFINE a == t.authorized  c == t.casted  votes == t.votes  best == votes[MostVoted(votes)]
<1>1. a \in Nat /\ c \in Nat /\ votes \in Seq(Nat) /\ (t.scalar \/ votes # <<>>)
  BY InputsAssumption
<1> HIDE DEF a, c, votes
<1>2. Verdict(t) = "accepted" <=> 3 * c > 2 * a /\ (t.scalar \/ ~ (best <= a \div 3))
  <2>1. Verdict(t) = "accepted" <=> ~ (c <= (a * 2) \div 3) /\ (t.scalar \/ ~ (best <= a \div 3))
    BY DEF Verdict, a, c, votes
  <2> QED
    BY <1>1, <2>1, Thirds
<1>3. ASSUME ~t.scalar PROVE ~ (best <= a \div 3) <=> \E o \in DOMAIN votes : 3 * votes[o] > a
  <2> DEFINE m == MostVoted(votes)
  <2>1. m \in DOMAIN votes /\ \A q \in DOMAIN votes : votes[q] <= votes[m]
    BY <1>1, <1>3, MostVotedFacts
  <2> HIDE DEF m
  <2>2. \A q \in DOMAIN votes : votes[q] \in Nat
    BY <1>1, ElementOfSeq
  <2>3. ~ (votes[m] <= a \div 3) <=> 3 * votes[m] > a
    BY <1>1, <2>1, <2>2, Thirds
  <2>4. \A q \in DOMAIN votes : 3 * votes[q] > a => 3 * votes[m] > a
    BY <1>1, <2>1, <2>2
  <2> QED
    BY <2>1, <2>3, <2>4 DEF m
<1> QED
  BY <1>2, <1>3 DEF a, c, votes

VerdictInv == verdict # "none" => tally \in Tallies /\ verdict = Verdict(tally)

LEMMA NextVerdict == VerdictInv /\ [Next]_vars => VerdictInv'
<1> SUFFICES ASSUME VerdictInv, [Next]_vars PROVE VerdictInv'
  OBVIOUS
<1>1. CASE GetVotingResults
  <2>1. NoTally.authorized = 0
    BY DEF NoTally
  <2> QED
    BY <1>1, <2>1 DEF GetVotingResults, Verdicts, VerdictInv
<1>2. CASE UNCHANGED <<tally, verdict>>
  BY <1>2 DEF VerdictInv
<1>3. CASE ClientStep
  <2>1. GetVotingResults \/ UNCHANGED <<tally, verdict>>
    BY <1>3 DEF ClientStep, Unsupported, Start, Abort, GetFees, NoFees, SetProposal, RefuseProposal,
       ClearProposal, RefuseWords, Look, GetProposal, RefuseVote, NoValidProposal, GetProposalIndices,
       NoProposalIndices, PrintProposal, EndList, AskOnce, NoAnswer, Send, answers, output
  <2> QED
    BY <1>1, <1>2, <2>1
<1>4. CASE ~ClientStep
  <2>1. UNCHANGED <<tally, verdict>>
    BY <1>4 DEF Next, ClearSlot, SetSlot, EndEpoch, ChangeFee, Change, Advance, Execute, vars, answers, output
  <2> QED
    BY <1>2, <2>1
<1> QED
  BY <1>3, <1>4

(* printVotingResults: it is said of a proposal that it is accepted exactly  *)
(* when more than two thirds of all votes were cast and more than one third  *)
(* for the option that leads: the integer divisions lose nothing.            *)
THEOREM VerdictsAreSound == Spec => []VerdictSound
<1>1. Init => VerdictInv
  BY DEF Init, VerdictInv
<1>2. VerdictInv => VerdictSound
  BY TallyVerdict DEF VerdictInv, VerdictSound
<1> QED
  BY NextVerdict, <1>1, <1>2, PTL DEF Spec

-----------------------------------------------------------------------------
(* setProposal: what is sent is what proposal.h allows.                     *)

LEMMA SetTexts == \A c \in Commands : c.op = "set" => c.text \in Texts
<1>1. ASSUME NEW c \in SetCommands PROVE c.text \in Texts
  BY DEF SetCommands, Command
<1>2. ASSUME NEW c \in VoteCommands PROVE c.op # "set"
  BY DEF VoteCommands, Command
<1>3. ASSUME NEW c \in Questions PROVE c.op # "set"
  BY DEF Questions, Question, Command
<1> QED
  BY <1>1, <1>2, <1>3 DEF Commands

(* Neighbours that increase are all in order.                               *)
LEMMA AscendingFacts ==
  ASSUME NEW v \in [1..4 -> Int], NEW n \in 1..4
  PROVE  AscendingNoDuplicates(v, n) <=> Increasing(v, n)
<1>1. /\ v[1] \in Int /\ v[2] \in Int /\ v[3] \in Int /\ v[4] \in Int
      /\ \A i \in 1..n : i \in {1, 2, 3, 4}
      /\ \A i \in 2..n : i \in 1..n /\ i - 1 \in 1..n /\ i - 1 < i
  OBVIOUS
<1>2. ASSUME Increasing(v, n) PROVE AscendingNoDuplicates(v, n)
  BY <1>1, <1>2 DEF Increasing, AscendingNoDuplicates
<1>3. ASSUME AscendingNoDuplicates(v, n) PROVE Increasing(v, n)
  <2>1. \A i \in 2..n : v[i - 1] < v[i]
    BY <1>3 DEF AscendingNoDuplicates
  <2>2. /\ 2 <= n => v[1] < v[2]
        /\ 3 <= n => v[2] < v[3]
        /\ 4 <= n => v[3] < v[4]
    <3>1. 2 <= n => v[2 - 1] < v[2]
      BY <2>1
    <3>2. 3 <= n => v[3 - 1] < v[3]
      BY <2>1
    <3>3. 4 <= n => v[4 - 1] < v[4]
      BY <2>1
    <3>4. 2 - 1 = 1 /\ 3 - 1 = 2 /\ 4 - 1 = 3
      OBVIOUS
    <3> QED
      BY <3>1, <3>2, <3>3, <3>4
  <2>3. ASSUME NEW i \in 1..n, NEW j \in 1..n, i < j PROVE v[i] < v[j]
    <3>1. i \in {1, 2, 3} /\ j \in {2, 3, 4} /\ j <= n
      BY <2>3
    <3>2. CASE i = 1
      BY <1>1, <2>2, <2>3, <3>1, <3>2
    <3>3. CASE i = 2
      BY <1>1, <2>2, <2>3, <3>1, <3>3
    <3>4. CASE i = 3
      BY <1>1, <2>2, <2>3, <3>1, <3>4
    <3> QED
      BY <3>1, <3>2, <3>3, <3>4
  <2> QED
    BY <2>3 DEF Increasing
<1> QED
  BY <1>2, <1>3

(* A string that is read: as many numbers as are wanted, each in its range. *)
LEMMA ValuesFacts ==
  ASSUME NEW text \in Texts, HeadOk(text), NumbersOk(text)
  PROVE  /\ text.class \in {"general", "transfer", "in_epoch", "variable"}
         /\ text.options \in 0..255
         /\ ValuesOf(text) \in [1..4 -> Int]
         /\ text.class = "variable" /\ text.options = 0 =>
              ValuesOf(text)[1] >= MinValue /\ ValuesOf(text)[2] <= MaxValue
<1> DEFINE w == Wanted(text)  v == text.values
           filled == [i \in 1..4 |-> IF i <= w THEN v[i] ELSE 0]
<1>1. /\ text.class \in {"general", "transfer", "in_epoch", "variable"}
      /\ text.options \in 0..255
  BY InputsAssumption DEF HeadOk
<1>2. \A i \in 1..w : v[i] \in MinValue..MaxValue
  BY DEF NumbersOk
<1>3. w \in Int
  BY <1>1 DEF Wanted, Least
<1>4. filled \in [1..4 -> Int]
  <2>1. ASSUME NEW i \in 1..4, i <= w PROVE v[i] \in Int
    <3>1. i \in 1..w
      BY <1>3, <2>1
    <3> QED
      BY <1>2, <3>1, RangeAssumption
  <2> HIDE DEF v, w
  <2> QED
    BY <2>1
<1>5. text.class = "variable" /\ text.options = 0 => w = 3
  BY DEF Wanted
<1> DEFINE scalar == text.class = "variable" /\ text.options = 0
<1>6. ValuesOf(text) = IF text.class = "in_epoch" THEN <<filled[2], filled[1], 0, 0>>
                       ELSE IF scalar THEN <<filled[2], filled[3], filled[1], 0>>
                       ELSE filled
  <2> HIDE DEF w
  <2> QED
    BY DEF ValuesOf, w
<1>7. scalar => /\ filled[2] = v[2] /\ filled[3] = v[3]
                /\ v[2] \in MinValue..MaxValue /\ v[3] \in MinValue..MaxValue
  <2> HIDE DEF w, v
  <2>1. ASSUME scalar PROVE 2 <= w /\ 3 <= w /\ 2 \in 1..w /\ 3 \in 1..w
    BY <1>5, <2>1
  <2> QED
    BY <1>2, <2>1
<1> HIDE DEF filled, v, w, scalar
<1>8. /\ filled[1] \in Int /\ filled[2] \in Int /\ filled[3] \in Int
  BY <1>4
<1>9. /\ <<filled[2], filled[1], 0, 0>> \in [1..4 -> Int]
      /\ <<filled[2], filled[3], filled[1], 0>> \in [1..4 -> Int]
      /\ <<filled[2], filled[3], filled[1], 0>>[1] = filled[2]
      /\ <<filled[2], filled[3], filled[1], 0>>[2] = filled[3]
  BY <1>8
<1>10. ValuesOf(text) \in [1..4 -> Int]
  BY <1>4, <1>6, <1>9
<1>11. ASSUME scalar PROVE ValuesOf(text)[1] >= MinValue /\ ValuesOf(text)[2] <= MaxValue
  <2>1. text.class # "in_epoch"
    BY <1>11 DEF scalar
  <2>2. ValuesOf(text)[1] = v[2] /\ ValuesOf(text)[2] = v[3]
    BY <1>6, <1>7, <1>9, <1>11, <2>1
  <2> QED
    BY <1>7, <1>11, <2>2, RangeAssumption
<1> QED
  BY <1>1, <1>10, <1>11 DEF scalar

(* What is checked is the type and the values.                              *)
InRange(k, n, v) == k = "variable" /\ n = 0 => v[1] >= MinValue /\ v[2] <= MaxValue

LEMMA CheckFacts ==
  ASSUME NEW k \in {"general", "transfer", "in_epoch", "variable"}, NEW n \in 0..255,
         NEW v \in [1..4 -> Int], NEW c \in Contracts,
         InRange(k, n, v)
  PROVE  CheckProposal(Proposal(k, n, v, 1, 0), c) /\ FitsContract(Proposal(k, n, v, 1, 0), c)
           <=> WellFormed(Proposal(k, n, v, 1, 0), c)
<1> DEFINE p == Proposal(k, n, v, 1, 0)
<1>1. p.class = k /\ p.options = n /\ p.values = v /\ p.epoch = 1
  BY DEF Proposal
<1>2. Scalar(p) <=> k = "variable" /\ n = 0
  BY <1>1 DEF Scalar
<1>3. v[1] \in Int /\ v[2] \in Int /\ v[3] \in Int /\ v[4] \in Int
  OBVIOUS
<1> HIDE DEF p
<1> DEFINE Rest == /\ c = "GQMPROP" => ~Scalar(p)
                   /\ c = "CCF" => k = "transfer"
                   /\ StoresYesNo(c) => n = 2
<1>4. FitsContract(p, c) <=> Rest
  BY <1>1, <1>2 DEF FitsContract, StoresYesNo, Support, Contracts
<1> HIDE DEF Rest
<1>5. CASE k = "general"
  <2>1. CheckProposal(p, c) <=> n \in 2..8
    BY <1>1, <1>5 DEF CheckProposal
  <2>2. WellFormed(p, c) <=> n \in 2..8 /\ Rest
    BY <1>1, <1>2, <1>5 DEF WellFormed, Rest
  <2> QED
    BY <1>4, <2>1, <2>2 DEF p
<1>6. CASE k \in {"transfer", "variable"} /\ n \in 2..5
  <2> DEFINE m == n - 1
  <2>1. m \in 1..4 /\ Least(n - 1, 4) = m
    BY <1>6 DEF Least
  <2> HIDE DEF m
  <2>2. AscendingNoDuplicates(v, m) <=> Increasing(v, m)
    BY <2>1, AscendingFacts
  <2>3. k = "transfer" => (CheckProposal(p, c) <=> (\A i \in 1..m : v[i] >= 0) /\ Increasing(v, m))
    BY <1>1, <1>6, <2>1, <2>2 DEF CheckProposal
  <2>4. k = "variable" => (CheckProposal(p, c) <=> Increasing(v, m))
    <3>1. k = "variable" => n > 0
      BY <1>6
    <3> QED
      BY <1>1, <1>6, <2>1, <2>2, <3>1 DEF CheckProposal
  <2>5. WellFormed(p, c) <=> Increasing(v, m) /\ (k = "transfer" => v[1] >= 0) /\ Rest
    <3>1. m = n - 1 /\ n # 0
      BY <1>6 DEF m
    <3> QED
      BY <1>1, <1>2, <1>6, <3>1 DEF WellFormed, Rest
  <2>6. Increasing(v, m) => ((\A i \in 1..m : v[i] >= 0) <=> v[1] >= 0)
    <3> SUFFICES ASSUME Increasing(v, m), v[1] >= 0, NEW i \in 1..m PROVE v[i] >= 0
      BY <2>1
    <3>1. 1 \in 1..m /\ (i = 1 \/ 1 < i) /\ v[i] \in Int
      BY <2>1
    <3> QED
      BY <1>3, <3>1 DEF Increasing
  <2> QED
    BY <1>4, <1>6, <2>3, <2>4, <2>5, <2>6 DEF p
<1>7. CASE k = "transfer" /\ n \notin 2..5
  BY <1>1, <1>2, <1>7 DEF CheckProposal, WellFormed, p
<1>8. CASE k = "variable" /\ n \notin 2..5 /\ n # 0
  <2>1. n > 0
    BY <1>8
  <2> QED
    BY ZenonT(60), <1>1, <1>2, <1>8, <2>1 DEF CheckProposal, WellFormed, p
<1>9. CASE k = "in_epoch"
  <2>1. CheckProposal(p, c) <=> n = 2 /\ (c = "GQMPROP" \/ v[1] >= 0)
    BY <1>1, <1>9 DEF CheckProposal
  <2>2. WellFormed(p, c) <=> n = 2 /\ (c = "GQMPROP" \/ v[1] >= 0) /\ Rest
    BY <1>1, <1>2, <1>9 DEF WellFormed, Rest
  <2> QED
    BY <1>4, <2>1, <2>2 DEF p
<1>10. CASE k = "variable" /\ n = 0
  <2>1. CheckProposal(p, c) <=> v[1] > MinValue /\ v[2] <= MaxValue /\ v[1] <= v[3] /\ v[3] <= v[2]
    BY <1>1, <1>10 DEF CheckProposal
  <2>2. WellFormed(p, c) <=> v[1] # MinValue /\ v[3] \in v[1]..v[2] /\ Rest
    BY <1>1, <1>2, <1>10 DEF WellFormed, Rest, NoVoteValue
  <2>3. v[3] \in v[1]..v[2] <=> v[1] <= v[3] /\ v[3] <= v[2]
    BY <1>3
  <2>4. v[1] > MinValue <=> v[1] # MinValue
    BY <1>3, <1>10, RangeAssumption DEF InRange
  <2>5. v[2] <= MaxValue
    BY <1>10 DEF InRange
  <2> QED
    BY <1>4, <1>10, <2>1, <2>2, <2>3, <2>4, <2>5 DEF p
<1> QED
  BY <1>5, <1>6, <1>7, <1>8, <1>9, <1>10

LEMMA SetOkFacts ==
  ASSUME NEW text \in Texts, NEW c \in Contracts
  PROVE  SetOk(text, c) <=> WellFormed(Parsed(text), c) /\ (c = "CCF" => SubscriptionOk(text))
<1>1. CASE HeadOk(text) /\ NumbersOk(text)
  <2> DEFINE k == text.class  n == text.options  v == ValuesOf(text)
  <2>1. Parsed(text) = Proposal(k, n, v, 1, 0)
    BY <1>1 DEF Parsed
  <2>2. /\ k \in {"general", "transfer", "in_epoch", "variable"} /\ n \in 0..255 /\ v \in [1..4 -> Int]
        /\ InRange(k, n, v)
    BY <1>1, ValuesFacts DEF InRange
  <2> HIDE DEF k, n, v
  <2>3. CheckProposal(Parsed(text), c) /\ FitsContract(Parsed(text), c) <=> WellFormed(Parsed(text), c)
    <3>1. CheckProposal(Proposal(k, n, v, 1, 0), c) /\ FitsContract(Proposal(k, n, v, 1, 0), c)
            <=> WellFormed(Proposal(k, n, v, 1, 0), c)
      BY <2>2, CheckFacts
    <3> QED
      BY <2>1, <3>1
  <2>4. Parsed(text).epoch = 1
    BY <2>1 DEF Proposal
  <2> QED
    BY <2>3, <2>4 DEF SetOk, ParseOk
<1>2. CASE ~ (HeadOk(text) /\ NumbersOk(text))
  <2>1. Parsed(text).epoch = 0
    BY <1>2, ClearedTypes DEF Parsed
  <2> QED
    BY <2>1 DEF SetOk, ParseOk, WellFormed
<1> QED
  BY <1>1, <1>2

(* The yes/no form has room for all of a proposal with two options, but for  *)
(* the epoch of a transfer in a later one.                                   *)
LEMMA ToFormFacts ==
  ASSUME NEW text \in Texts, NEW c \in Contracts, WellFormed(Parsed(text), c),
         ~(Parsed(text).class = "in_epoch" /\ StoresYesNo(c))
  PROVE  ToForm(Parsed(text), c) = Parsed(text)
<1> DEFINE p == Parsed(text)
<1>1. /\ HeadOk(text) /\ NumbersOk(text)
      /\ p = Proposal(text.class, text.options, ValuesOf(text), 1, 0)
  <2>1. p.epoch = 1
    BY DEF WellFormed
  <2> QED
    BY <2>1, ClearedTypes DEF Parsed
<1>2. /\ p.class = text.class /\ p.options = text.options /\ p.values = ValuesOf(text)
      /\ p.epoch = 1 /\ p.tick = 0
  BY <1>1 DEF Proposal
<1>3. CASE ~StoresYesNo(c)
  BY <1>3 DEF ToForm
<1>4. CASE StoresYesNo(c) /\ text.class = "transfer"
  <2>1. text.options = 2
    BY <1>2, <1>4 DEF WellFormed
  <2>2. Wanted(text) = 1
    BY <1>4, <2>1 DEF Wanted, Least
  <2>3. ValuesOf(text) = [i \in 1..4 |-> IF i <= 1 THEN text.values[i] ELSE 0]
    BY <1>4, <2>2 DEF ValuesOf
  <2>4. ValuesOf(text) = <<ValuesOf(text)[1], 0, 0, 0>>
    BY <2>3
  <2>5. ToYesNo(p) = Proposal(text.class, text.options, ValuesOf(text), 1, 0)
    <3> HIDE DEF p
    <3> QED
      BY <1>2, <1>4, <2>4 DEF ToYesNo
  <2> QED
    BY <1>1, <1>4, <2>5 DEF ToForm
<1>5. CASE StoresYesNo(c) /\ text.class # "transfer"
  <2>1. ToYesNo(p) = Proposal(text.class, text.options, ValuesOf(text), 1, 0)
    <3> HIDE DEF p
    <3>1. p.class \notin {"transfer", "in_epoch"}
      BY <1>2, <1>5 DEF p
    <3> QED
      BY <1>2, <3>1 DEF ToYesNo
  <2> QED
    BY <1>1, <1>5, <2>1 DEF ToForm
<1> QED
  BY <1>3, <1>4, <1>5

(* The command to set a proposal, from its string to the transaction.       *)
SetInv ==
  /\ command \in Commands
  /\ pc # "ended" => sent = NotSent /\ outcome = "none"
  /\ command.op = "set" =>
       LET ok == SetOk(command.text, command.contract) \/ command.force
       IN  /\ pc = "send" => ok
           /\ sent.kind = "set" => ok /\ sent.proposal = ToForm(Parsed(command.text), command.contract)
           /\ outcome = "refused" => ~Supported \/ ~ok
  /\ sent.kind = "set" => command.op = "set"

(* Steps that neither refuse nor send.                                      *)
Silent ==
  /\ UNCHANGED <<command, sent>>
  /\ pc' = "send" => pc = "send" \/ command.op # "set"
  /\ pc = "ended" => pc' = "ended" /\ outcome' = outcome
  /\ pc' # "ended" => outcome' = outcome
  /\ outcome' = "refused" => outcome = "refused" \/ command.op # "set"

LEMMA SilentSet == ASSUME SetInv, Silent PROVE SetInv'
<1>1. Supported' = Supported
  BY DEF Silent, Supported
<1> QED
  BY <1>1 DEF SetInv, Silent

LEMMA SilentSteps ==
  ASSUME command \in Commands,
         \/ Start \/ Abort \/ GetFees \/ NoFees \/ ClearProposal \/ RefuseWords \/ Look
         \/ GetProposal \/ RefuseVote \/ NoValidProposal \/ GetVotingResults
         \/ GetProposalIndices \/ NoProposalIndices \/ PrintProposal \/ EndList
         \/ AskOnce \/ NoAnswer
  PROVE  Silent
<1> USE DEF Silent, Client, answers, output
<1>1. CASE Start \/ Abort \/ GetFees \/ NoFees
  BY <1>1 DEF Start, Abort, GetFees, NoFees
<1>2. CASE ClearProposal \/ RefuseWords
  BY <1>2 DEF ClearProposal, RefuseWords
<1>3. CASE Look
  <2>1. command.op \in Ops \ {"set", "clear"}
    BY <1>3, CommandTypes DEF Look
  <2> QED
    BY <1>3, <2>1 DEF Look
<1>4. CASE GetProposal \/ RefuseVote \/ NoValidProposal \/ GetVotingResults
  BY <1>4 DEF GetProposal, RefuseVote, NoValidProposal, GetVotingResults
<1>5. CASE GetProposalIndices \/ NoProposalIndices \/ PrintProposal \/ EndList
  BY <1>5 DEF GetProposalIndices, NoProposalIndices, PrintProposal, EndList
<1>6. CASE AskOnce \/ NoAnswer
  BY <1>6 DEF AskOnce, NoAnswer
<1> QED
  BY <1>1, <1>2, <1>3, <1>4, <1>5, <1>6

LEMMA NextSet == IInv /\ SetInv /\ [Next]_vars => SetInv'
<1> SUFFICES ASSUME IInv, SetInv, [Next]_vars PROVE SetInv'
  OBVIOUS
<1>0. command \in Commands
  BY DEF SetInv
<1>1. CASE \/ Start \/ Abort \/ GetFees \/ NoFees \/ ClearProposal \/ RefuseWords \/ Look
           \/ GetProposal \/ RefuseVote \/ NoValidProposal \/ GetVotingResults
           \/ GetProposalIndices \/ NoProposalIndices \/ PrintProposal \/ EndList
           \/ AskOnce \/ NoAnswer
  BY <1>0, <1>1, SilentSteps, SilentSet
<1>2. CASE Unsupported
  <2>1. /\ UNCHANGED <<command, sent>> /\ pc = "start" /\ pc' = "ended" /\ outcome' = "refused" /\ ~Supported
    BY <1>2 DEF Unsupported, Client
  <2>2. ~Supported'
    BY <2>1 DEF Supported
  <2> QED
    BY <2>1, <2>2 DEF SetInv, NotSent, Transaction
<1>3. CASE SetProposal
  <2>1. /\ UNCHANGED <<command, sent, outcome>> /\ pc = "words" /\ pc' = "send"
        /\ SetOk(command.text, command.contract) \/ command.force
    BY <1>3 DEF SetProposal, Client, output
  <2> QED
    BY <2>1 DEF SetInv, NotSent, Transaction
<1>4. CASE RefuseProposal
  <2>1. /\ UNCHANGED <<command, sent>> /\ pc = "words" /\ pc' = "ended"
        /\ outcome' = "refused" => ~SetOk(command.text, command.contract) /\ ~command.force
    BY <1>4 DEF RefuseProposal, Client
  <2> QED
    BY <2>1 DEF SetInv, NotSent, Transaction
<1>5. CASE Send
  <2>1. command' = command /\ pc = "send" /\ pc' = "ended" /\ outcome' = "sent"
    BY <1>5 DEF Send, Client
  <2>2. command.op = "set" => sent'.proposal = ToForm(Parsed(command.text), command.contract)
    BY <1>5 DEF Send, Transaction
  <2>3. ASSUME sent'.kind = "set" PROVE command.op = "set"
    <3> DEFINE t(polled) ==
          CASE command.op = "set" ->
                Transaction("set", Amount, 0, ToForm(Parsed(command.text), command.contract), <<>>,
                            Subscription(command.text), polled + Offset)
           [] command.op = "clear" ->
                Transaction("clear", Amount, 0, Cleared, <<>>, ClearsSubscription, polled + Offset)
           [] command.op = "vote" ->
                Transaction("vote", Amount, command.index, Voted,
                            VotesOf(command.words, command.contract), <<>>, polled + Offset)
    <3>1. PICK polled : sent' = t(polled)
      BY <1>5 DEF Send
    <3>2. command.op \in {"set", "clear", "vote"} => sent'.kind = command.op
      BY <3>1 DEF Transaction
    <3>3. command.op \in {"set", "clear", "vote"}
      BY <2>1 DEF IInv, Route
    <3> QED
      BY <2>3, <3>2, <3>3
  <2> QED
    BY <2>1, <2>2, <2>3 DEF SetInv
<1>6. CASE ~ClientStep
  <2>1. Silent
    BY <1>6 DEF Next, ClearSlot, SetSlot, EndEpoch, ChangeFee, Change, Advance, Execute, vars, answers, output,
       Silent
  <2> QED
    BY <2>1, SilentSet
<1> QED
  BY <1>1, <1>2, <1>3, <1>4, <1>5, <1>6 DEF ClientStep

(* setProposal: without -force only a proposal with the type and the values  *)
(* proposal.h allows is sent, whole but for the epoch of a transfer that a   *)
(* contract with the yes/no form does not get; and none is refused that also *)
(* has a destination and, for a transfer in a later epoch, goes to GQMPROP   *)
(* with an amount that is not negative, unless its subscription is wrong.    *)
THEOREM OnlyValidIsSet == Spec => []SetIsValid
<1>1. Init => SetInv
  BY DEF Init, SetInv, NotSent, Transaction
<1>2. SetInv => SetIsValid
  <2> SUFFICES ASSUME SetInv, command.op = "set", ~command.force PROVE SetIsValid
    BY DEF SetIsValid
  <2> DEFINE text == command.text  c == command.contract
  <2>1. text \in Texts /\ c \in Contracts
    BY SetTexts, CommandTypes DEF SetInv
  <2>2. SetOk(text, c) <=> WellFormed(Parsed(text), c) /\ (c = "CCF" => SubscriptionOk(text))
    <3> HIDE DEF text, c
    <3> QED
      BY <2>1, SetOkFacts
  <2>3. WellFormed(Parsed(text), c) /\ ~(Parsed(text).class = "in_epoch" /\ StoresYesNo(c))
          => ToForm(Parsed(text), c) = Parsed(text)
    <3> HIDE DEF text, c
    <3> QED
      BY <2>1, ToFormFacts
  <2>4. sent.kind = "set" => SetOk(text, c) /\ sent.proposal = ToForm(Parsed(text), c)
    BY DEF SetInv
  <2>5. outcome = "refused" => ~Supported \/ ~SetOk(text, c)
    BY DEF SetInv
  <2> QED
    BY <2>2, <2>3, <2>4, <2>5 DEF SetIsValid, Documented
<1> QED
  BY InitInv, NextInv, NextSet, <1>1, <1>2, PTL DEF Spec

-----------------------------------------------------------------------------
(* Lists: what is printed is complete, in order, and as it was in its slot. *)
Elements(s) == {s[k] : k \in DOMAIN s}
Upward(s) == \A j, k \in DOMAIN s : j < k => s[j] < s[k]
PrintedEntry == [index : Slots, proposal : Proposals0]
PrintedIndices == {printed[k].index : k \in DOMAIN printed}
PrintedUpward == \A j, k \in DOMAIN printed : j < k => printed[j].index < printed[k].index
PrintedAsTheyWere == \A k \in DOMAIN printed : printed[k].proposal \in was[printed[k].index]

(* The slots: an active or finished proposal has a type.                    *)
ListWorld ==
  /\ \A i \in Slots : slots[i] = Cleared \/ HasType(slots[i])
  /\ command.op = "list" => \A i \in Slots : slots[i] \in was[i]
  /\ \A i \in steady : i \in Slots /\ Listed(i, command.which, slots, epoch)
  /\ command.op # "list" => steady = {}

(* Only lists ask for pages and entries, and nothing is known before.       *)
ListRoute ==
  /\ pc \in {"page", "entry"} => command.op = "list"
  /\ pc \in {"proposal", "results", "one"} => command.op # "list"
  /\ pc \in {"start", "fees", "words"} => indices = <<>> /\ prev = -1 /\ printed = <<>>
  /\ pc # "ended" => outcome = "none"
  /\ command.op # "list" \/ pc = "page" => printed = <<>>

ListOrder ==
  /\ indices \in Seq(Slots) /\ prev \in Slots \cup {-1} /\ printed \in Seq(PrintedEntry)
  /\ Upward(indices) /\ PrintedUpward
  /\ pc = "page" => \A i \in Elements(indices) : i <= prev
  /\ \A j \in PrintedIndices, k \in Elements(indices) : j < k

(* What a list is about at all times is among the indices up to the last, or *)
(* still to be printed, or printed.                                         *)
ListCover ==
  aligned =>
    /\ pc = "page" => \A i \in steady : i <= prev => i \in Elements(indices)
    /\ pc = "entry" /\ command.which # "one" => steady \subseteq Elements(indices) \cup PrintedIndices
    /\ command.op = "list" /\ command.which # "one" /\ outcome = "printed" => steady \subseteq PrintedIndices

ListInv == ListWorld /\ ListRoute /\ ListOrder /\ PrintedAsTheyWere /\ ListCover

LEMMA SlotsTypes == /\ Slots \subseteq Nat /\ 0 \in Slots /\ PageSize \in Nat /\ PageSize # 0
                    /\ Slots \cup {-1} \subseteq Int
<1>1. Slots \subseteq Nat /\ 0 \in Slots /\ PageSize \in Nat /\ PageSize # 0
  BY SessionAssumption
<1>2. -1 \in Int /\ Nat \subseteq Int
  OBVIOUS
<1> QED
  BY <1>1, <1>2

(* Sequences that go upward: what is appended, and what is left.            *)
LEMMA UpwardConcat ==
  ASSUME NEW s \in Seq(Slots), NEW t \in Seq(Slots), Upward(s), Upward(t),
         \A i \in Elements(s), j \in Elements(t) : i < j
  PROVE  /\ s \o t \in Seq(Slots) /\ Upward(s \o t)
         /\ Elements(s \o t) = Elements(s) \cup Elements(t)
<1> DEFINE m == Len(s)  n == Len(t)  u == s \o t
<1>1. m \in Nat /\ n \in Nat /\ DOMAIN s = 1..m /\ DOMAIN t = 1..n
  BY LenProperties
<1>2. /\ u \in Seq(Slots) /\ Len(u) = m + n
      /\ \A k \in 1..(m + n) : u[k] = IF k <= m THEN s[k] ELSE t[k - m]
  BY ConcatProperties
<1>3. DOMAIN u = 1..(m + n)
  BY <1>2, LenProperties
<1> HIDE DEF m, n, u
<1>4. ASSUME NEW j \in DOMAIN u, NEW k \in DOMAIN u, j < k PROVE u[j] < u[k]
  <2>1. j \in 1..(m + n) /\ k \in 1..(m + n)
    BY <1>3
  <2>2. CASE k <= m
    <3>1. j <= m /\ j \in 1..m /\ k \in 1..m
      BY <1>1, <1>4, <2>1, <2>2
    <3>2. u[j] = s[j] /\ u[k] = s[k]
      BY <1>2, <2>1, <2>2, <3>1
    <3> QED
      BY <1>1, <1>4, <3>1, <3>2 DEF Upward
  <2>3. CASE ~(k <= m) /\ j <= m
    <3>1. j \in 1..m /\ k - m \in 1..n
      BY <1>1, <1>4, <2>1, <2>3
    <3>2. u[j] = s[j] /\ u[k] = t[k - m]
      BY <1>2, <2>1, <2>3
    <3> QED
      BY <1>1, <3>1, <3>2 DEF Elements
  <2>4. CASE ~(k <= m) /\ ~(j <= m)
    <3>1. j - m \in 1..n /\ k - m \in 1..n /\ j - m < k - m
      BY <1>1, <1>4, <2>1, <2>4
    <3>2. u[j] = t[j - m] /\ u[k] = t[k - m]
      BY <1>2, <2>1, <2>4
    <3> QED
      BY <1>1, <3>1, <3>2 DEF Upward
  <2> QED
    BY <2>2, <2>3, <2>4
<1>5. ASSUME NEW k \in DOMAIN u PROVE u[k] \in Elements(s) \cup Elements(t)
  <2>1. k \in 1..(m + n)
    BY <1>3
  <2>2. CASE k <= m
    BY <1>1, <1>2, <2>1, <2>2 DEF Elements
  <2>3. CASE ~(k <= m)
    <3>1. k - m \in 1..n
      BY <1>1, <2>1, <2>3
    <3> QED
      BY <1>1, <1>2, <2>1, <2>3, <3>1 DEF Elements
  <2> QED
    BY <2>2, <2>3
<1>6. ASSUME NEW k \in 1..m PROVE s[k] \in Elements(u)
  <2>1. k \in 1..(m + n) /\ k <= m
    BY <1>1
  <2> QED
    BY <1>2, <1>3, <2>1 DEF Elements
<1>7. ASSUME NEW k \in 1..n PROVE t[k] \in Elements(u)
  <2>1. m + k \in 1..(m + n) /\ ~(m + k <= m) /\ (m + k) - m = k
    BY <1>1
  <2>2. u[m + k] = t[k]
    BY <1>2, <2>1
  <2> QED
    BY <1>3, <2>1, <2>2 DEF Elements
<1>8. Upward(u)
  BY <1>4 DEF Upward
<1>9. Elements(u) = Elements(s) \cup Elements(t)
  BY <1>1, <1>5, <1>6, <1>7 DEF Elements
<1> QED
  BY <1>2, <1>8, <1>9 DEF u

LEMMA UpwardTail ==
  ASSUME NEW s \in Seq(Slots), s # <<>>, Upward(s)
  PROVE  /\ Head(s) \in Slots /\ Head(s) \in Elements(s)
         /\ Tail(s) \in Seq(Slots) /\ Upward(Tail(s))
         /\ Elements(s) = {Head(s)} \cup Elements(Tail(s))
         /\ \A i \in Elements(Tail(s)) : Head(s) < i
<1> DEFINE n == Len(s)  t == Tail(s)
<1>1. n \in Nat /\ n # 0 /\ DOMAIN s = 1..n
  BY LenProperties, EmptySeq
<1>2. /\ Head(s) \in Slots /\ t \in Seq(Slots) /\ Len(t) = n - 1
      /\ \A i \in 1..Len(t) : t[i] = s[i + 1]
  BY HeadTailProperties
<1>3. DOMAIN t = 1..(n - 1) /\ Head(s) = s[1]
  BY <1>2, LenProperties
<1> HIDE DEF n, t
<1>4. \A i \in 1..(n - 1) : i + 1 \in 1..n /\ 1 < i + 1
  BY <1>1
<1>5. 1 \in 1..n
  BY <1>1
<1>6. Upward(t)
  <2> SUFFICES ASSUME NEW j \in DOMAIN t, NEW k \in DOMAIN t, j < k PROVE t[j] < t[k]
    BY DEF Upward
  <2>1. j \in 1..(n - 1) /\ k \in 1..(n - 1) /\ j + 1 < k + 1
    BY <1>1, <1>3
  <2> QED
    BY <1>1, <1>2, <1>4, <2>1 DEF Upward
<1>7. \A i \in Elements(t) : Head(s) < i
  BY SMTT(30), <1>1, <1>2, <1>3, <1>4, <1>5 DEF Elements, Upward
<1>8. Elements(s) = {Head(s)} \cup Elements(t)
  <2>1. ASSUME NEW k \in 1..n, k # 1 PROVE s[k] \in Elements(t)
    <3>1. k - 1 \in 1..(n - 1) /\ (k - 1) + 1 = k
      BY <1>1, <2>1
    <3>2. t[k - 1] = s[k]
      BY <1>2, <3>1
    <3> QED
      BY <1>3, <3>1, <3>2 DEF Elements
  <2>2. ASSUME NEW k \in 1..(n - 1) PROVE t[k] \in Elements(s)
    BY <1>1, <1>2, <1>4 DEF Elements
  <2>3. Head(s) \in Elements(s)
    BY <1>1, <1>3, <1>5 DEF Elements
  <2>4. ASSUME NEW x \in Elements(s) PROVE x \in {Head(s)} \cup Elements(t)
    BY <1>1, <1>3, <2>1 DEF Elements
  <2>5. ASSUME NEW x \in Elements(t) PROVE x \in Elements(s)
    <3>1. PICK k \in DOMAIN t : x = t[k]
      BY DEF Elements
    <3> QED
      BY <1>3, <2>2, <3>1
  <2> QED
    BY <2>3, <2>4, <2>5
<1> QED
  BY <1>2, <1>6, <1>7, <1>8 DEF t

(* What is printed is appended.                                             *)
LEMMA AppendPrinted ==
  ASSUME printed \in Seq(PrintedEntry), NEW e \in PrintedEntry, printed' = Append(printed, e)
  PROVE  /\ printed' \in Seq(PrintedEntry)
         /\ PrintedIndices' = PrintedIndices \cup {e.index}
         /\ PrintedAsTheyWere /\ was' = was /\ e.proposal \in was[e.index] => PrintedAsTheyWere'
         /\ PrintedUpward /\ (\A i \in PrintedIndices : i < e.index) => PrintedUpward'
<1> DEFINE n == Len(printed)
<1>1. n \in Nat /\ DOMAIN printed = 1..n
  BY LenProperties
<1>2. /\ printed' \in Seq(PrintedEntry) /\ Len(printed') = n + 1
      /\ \A i \in 1..n : printed'[i] = printed[i]
      /\ printed'[n + 1] = e
  BY AppendProperties
<1>3. DOMAIN printed' = 1..(n + 1)
  BY <1>2, LenProperties
<1> HIDE DEF n
<1>4. DOMAIN printed' = 1..n \cup {n + 1} /\ n + 1 \notin 1..n /\ \A i \in 1..n : i < n + 1
  BY <1>1, <1>3
<1>5. PrintedIndices' = PrintedIndices \cup {e.index}
  BY <1>1, <1>2, <1>4 DEF PrintedIndices
<1>6. ASSUME PrintedAsTheyWere, was' = was, e.proposal \in was[e.index] PROVE PrintedAsTheyWere'
  BY <1>1, <1>2, <1>4, <1>6 DEF PrintedAsTheyWere
<1>7. ASSUME PrintedUpward, \A i \in PrintedIndices : i < e.index PROVE PrintedUpward'
  <2> SUFFICES ASSUME NEW j \in DOMAIN printed', NEW k \in DOMAIN printed', j < k
               PROVE  printed'[j].index < printed'[k].index
    BY DEF PrintedUpward
  <2>1. j \in 1..n
    BY <1>1, <1>3
  <2>2. CASE k \in 1..n
    BY <1>1, <1>2, <1>7, <2>1, <2>2 DEF PrintedUpward
  <2>3. CASE k = n + 1
    BY <1>1, <1>2, <1>7, <2>1, <2>3 DEF PrintedIndices
  <2> QED
    BY <1>4, <2>2, <2>3
<1> QED
  BY <1>2, <1>5, <1>6, <1>7

LEMMA ListedHasType ==
  ASSUME IInv, ListInv, NEW i \in steady
  PROVE  i \in Slots /\ HasType(slots[i])
<1>1. i \in Slots /\ Listed(i, command.which, slots, epoch)
  BY DEF ListInv, ListWorld
<1>2. epoch \in Nat /\ epoch >= 2
  BY DEF IInv, World
<1>3. slots[i].epoch # 0
  BY <1>1, <1>2 DEF Listed
<1> QED
  BY <1>1, <1>3, ClearedTypes DEF ListInv, ListWorld

LEMMA InitList == Init => ListInv
<1> SUFFICES ASSUME Init PROVE ListInv
  OBVIOUS
<1>1. /\ slots \in [Slots -> {Cleared} \cup Earlier] /\ was = [i \in Slots |-> {slots[i]}]
      /\ steady = IF command.op = "list"
                  THEN {i \in Slots : Listed(i, command.which, slots, epoch)} ELSE {}
      /\ pc = "start" /\ indices = <<>> /\ prev = -1 /\ printed = <<>> /\ outcome = "none"
  BY DEF Init
<1>2. ASSUME NEW q \in Earlier PROVE HasType(q)
  <2>1. PICK p \in Others, e \in {1, 2} : q = Stamped(p, e, FirstTick - 1)
    BY DEF Earlier
  <2>2. HasType(p)
    BY SessionAssumption DEF Others
  <2> QED
    BY <2>1, <2>2 DEF Stamped, Proposal, HasType
<1>3. ListWorld
  BY <1>1, <1>2 DEF ListWorld
<1>4. ListRoute
  BY <1>1 DEF ListRoute
<1>5. /\ <<>> \in Seq(Slots) /\ <<>> \in Seq(PrintedEntry) /\ DOMAIN <<>> = {}
  OBVIOUS
<1>6. ListOrder /\ PrintedAsTheyWere
  BY <1>1, <1>5 DEF ListOrder, PrintedAsTheyWere, Upward, PrintedUpward, PrintedIndices, Elements
<1>7. ListCover
  BY <1>1 DEF ListCover
<1> QED
  BY <1>3, <1>4, <1>6, <1>7 DEF ListInv

(* What the contract does changes what a list is about, not what it has      *)
(* read and printed.                                                        *)
LEMMA ChangeList ==
  ASSUME ListInv, Change, \A i \in Slots : slots'[i] = Cleared \/ HasType(slots'[i])
  PROVE  ListInv'
<1>1. /\ UNCHANGED <<command, pc, aligned, indices, prev, printed, outcome>>
      /\ was' = IF command.op = "list" THEN [i \in Slots |-> was[i] \cup {slots'[i]}] ELSE was
      /\ steady' = IF command.op = "list"
                   THEN {i \in steady : Listed(i, command.which, slots', epoch')} ELSE steady
  BY DEF Change, answers, output
<1>2. ListWorld'
  <2>1. \A i \in Slots : slots'[i] = Cleared \/ HasType(slots'[i])
    OBVIOUS
  <2>2. CASE command.op = "list"
    BY <1>1, <2>1, <2>2 DEF ListInv, ListWorld
  <2>3. CASE command.op # "list"
    BY <1>1, <2>1, <2>3 DEF ListInv, ListWorld
  <2> QED
    BY <2>2, <2>3
<1>3. ListRoute'
  BY <1>1 DEF ListInv, ListRoute
<1>4. ListOrder'
  BY <1>1 DEF ListInv, ListOrder, PrintedUpward, PrintedIndices
<1>5. PrintedAsTheyWere'
  <2>1. CASE command.op = "list"
    <3>1. printed \in Seq(PrintedEntry)
      BY DEF ListInv, ListOrder
    <3>2. \A k \in DOMAIN printed : printed[k] \in PrintedEntry
      BY <3>1, ElementOfSeq, LenProperties
    <3>3. \A k \in DOMAIN printed : printed[k].index \in Slots
      BY <3>2 DEF PrintedEntry
    <3> QED
      BY <1>1, <2>1, <3>3 DEF ListInv, PrintedAsTheyWere
  <2>2. CASE command.op # "list"
    BY <1>1, <2>2 DEF ListInv, ListRoute, PrintedAsTheyWere
  <2> QED
    BY <2>1, <2>2
<1>6. ListCover'
  <2>1. steady' \subseteq steady /\ PrintedIndices' = PrintedIndices
    BY <1>1 DEF PrintedIndices
  <2> QED
    BY <1>1, <2>1 DEF ListInv, ListCover
<1> QED
  BY <1>2, <1>3, <1>4, <1>5, <1>6 DEF ListInv

LEMMA OutsideList ==
  ASSUME IInv, ListInv,
         \/ \E i \in Slots : ClearSlot(i) \/ \E p \in Others : SetSlot(i, p)
         \/ EndEpoch \/ ChangeFee \/ Advance \/ Execute \/ UNCHANGED vars
  PROVE  ListInv'
<1>0. slots \in [Slots -> Proposals0] /\ \A i \in Slots : slots[i] = Cleared \/ HasType(slots[i])
  BY DEF IInv, World, ListInv, ListWorld
<1>1. ASSUME NEW i \in Slots, ClearSlot(i) PROVE ListInv'
  BY <1>0, <1>1, ChangeList DEF ClearSlot
<1>2. ASSUME NEW i \in Slots, NEW p \in Others, SetSlot(i, p) PROVE ListInv'
  <2>1. HasType(Stamped(p, epoch, nodeTick))
    <3>1. HasType(p)
      BY SessionAssumption DEF Others
    <3> QED
      BY <3>1 DEF Stamped, Proposal, HasType
  <2>2. slots' = [slots EXCEPT ![i] = Stamped(p, epoch, nodeTick)] /\ Change
    BY <1>2 DEF SetSlot
  <2> QED
    BY <1>0, <2>1, <2>2, ChangeList
<1>3. CASE EndEpoch \/ ChangeFee
  BY <1>0, <1>3, ChangeList DEF EndEpoch, ChangeFee
<1>4. CASE Advance \/ Execute \/ UNCHANGED vars
  <2>1. UNCHANGED <<slots, epoch, command, pc, aligned, indices, prev, printed, outcome, was, steady>>
    BY <1>4 DEF Advance, Execute, vars, contract, answers, output, history
  <2>2. ListWorld' /\ ListRoute' /\ ListOrder'
    BY <2>1 DEF ListInv, ListWorld, ListRoute, ListOrder, PrintedUpward, PrintedIndices
  <2>3. PrintedAsTheyWere' /\ ListCover'
    BY <2>1 DEF ListInv, PrintedAsTheyWere, ListCover, PrintedIndices
  <2> QED
    BY <2>2, <2>3 DEF ListInv
<1> QED
  BY <1>1, <1>2, <1>3, <1>4

(* Steps that neither read indices nor print a proposal.                    *)
Unlisted ==
  /\ UNCHANGED <<slots, epoch, command, indices, prev, printed, was, steady>>
  /\ pc # "ended" /\ pc' \notin {"page", "entry"}
  /\ pc' \in {"proposal", "results", "one"} => command.op # "list"
  /\ pc' \in {"start", "fees", "words"} => pc \in {"start", "fees", "words"}
  /\ pc' # "ended" => outcome' = outcome
  /\ command.op = "list" /\ outcome' = "printed" => FALSE

LEMMA UnlistedList == ASSUME ListInv, Unlisted PROVE ListInv'
<1>1. ListWorld' /\ ListRoute'
  BY DEF ListInv, ListWorld, ListRoute, Unlisted
<1>2. ListOrder' /\ PrintedAsTheyWere'
  BY DEF ListInv, ListOrder, PrintedAsTheyWere, Unlisted, PrintedUpward, PrintedIndices
<1>3. ListCover'
  BY DEF ListInv, ListCover, Unlisted, PrintedIndices
<1> QED
  BY <1>1, <1>2, <1>3 DEF ListInv

LEMMA UnlistedSteps ==
  ASSUME ListInv,
         \/ Unsupported \/ Start \/ Abort \/ GetFees \/ NoFees
         \/ SetProposal \/ RefuseProposal \/ ClearProposal \/ RefuseWords
         \/ GetProposal \/ RefuseVote \/ NoValidProposal \/ GetVotingResults
         \/ AskOnce \/ NoAnswer \/ Send
  PROVE  Unlisted
<1> USE DEF Unlisted, Client, contract, answers, output, history
<1>1. pc # "ended" => outcome = "none"
  BY DEF ListInv, ListRoute
<1>2. pc \in {"proposal", "results", "one"} => command.op # "list"
  BY DEF ListInv, ListRoute
<1>3. CASE Unsupported \/ Start \/ Abort \/ GetFees \/ NoFees
  BY <1>1, <1>3 DEF Unsupported, Start, Abort, GetFees, NoFees
<1>4. CASE SetProposal \/ RefuseProposal \/ ClearProposal \/ RefuseWords
  BY <1>1, <1>4 DEF SetProposal, RefuseProposal, ClearProposal, RefuseWords
<1>5. CASE GetProposal
  BY <1>1, <1>2, <1>5 DEF GetProposal
<1>6. CASE RefuseVote \/ NoValidProposal \/ GetVotingResults
  BY <1>1, <1>2, <1>6 DEF RefuseVote, NoValidProposal, GetVotingResults
<1>7. CASE AskOnce \/ NoAnswer
  BY <1>1, <1>2, <1>7 DEF AskOnce, NoAnswer
<1>8. CASE Send
  BY <1>1, <1>2, <1>8 DEF Send
<1> QED
  BY <1>3, <1>4, <1>5, <1>6, <1>7, <1>8

LEMMA LookList == ASSUME IInv, ListInv, Look PROVE ListInv'
<1>1. /\ UNCHANGED <<slots, epoch, command, aligned, prev, printed, outcome, was, steady>>
      /\ pc = "words" /\ command.op \notin {"set", "clear"}
      /\ pc' = CASE command.op \in {"vote", "results"} -> "proposal"
                 [] command.op \in OneRead -> "one"
                 [] command.op = "list" -> IF command.which = "one" THEN "entry" ELSE "page"
      /\ indices' = IF command.op = "list" /\ command.which = "one" THEN <<command.index>> ELSE <<>>
  BY DEF Look, Client, contract, answers, output, history
<1>2. indices = <<>> /\ prev = -1 /\ printed = <<>> /\ outcome = "none"
  BY <1>1 DEF ListInv, ListRoute
<1>3. command.op \in Ops \ {"set", "clear"} /\ command.index = 0
  BY <1>1, CommandTypes DEF IInv, World
<1>4. \/ command.op = "list" /\ pc' = IF command.which = "one" THEN "entry" ELSE "page"
      \/ command.op # "list" /\ pc' \in {"proposal", "one"}
  BY <1>1, <1>3 DEF OneRead, Ops
<1>5. ListWorld'
  BY <1>1 DEF ListInv, ListWorld
<1>6. ListRoute'
  <2>1. UNCHANGED <<command, printed, outcome>>
    BY <1>1
  <2>2. \/ pc' \in {"page", "entry"} /\ command.op = "list"
        \/ pc' \in {"proposal", "one"} /\ command.op # "list"
    BY <1>4
  <2> QED
    BY <1>2, <2>1, <2>2 DEF ListRoute
<1>7. indices' \in {<<0>>, <<>>} /\ (pc' = "page" => indices' = <<>>)
  BY <1>1, <1>3, <1>4
<1>8. PrintedIndices' = {} /\ PrintedUpward' /\ PrintedAsTheyWere'
  BY <1>1, <1>2 DEF PrintedIndices, PrintedUpward, PrintedAsTheyWere
<1>9. indices' \in Seq(Slots) /\ Upward(indices') /\ (pc' = "page" => Elements(indices') = {})
  <2>1. ASSUME indices' = <<>> PROVE indices' \in Seq(Slots) /\ Upward(indices') /\ Elements(indices') = {}
    BY <2>1 DEF Upward, Elements
  <2>2. ASSUME indices' = << 0 >> PROVE indices' \in Seq(Slots) /\ Upward(indices')
    <3>1. 0 \in Slots
      BY SlotsTypes
    <3>2. <<0>> \in Seq(Slots) /\ DOMAIN <<0>> = {1}
      BY <3>1
    <3> QED
      BY <2>2, <3>2 DEF Upward
  <2> QED
    BY <1>7, <2>1, <2>2
<1>10. ListOrder'
  BY <1>1, <1>8, <1>9 DEF ListInv, ListOrder
<1>11. ListCover'
  <2>1. \A i \in steady' : ~(i <= prev')
    BY <1>1, <1>2, SlotsTypes DEF ListInv, ListWorld
  <2> QED
    BY <1>1, <1>2, <1>4, <2>1 DEF ListCover
<1> QED
  BY <1>5, <1>6, <1>8, <1>10, <1>11 DEF ListInv

(* A page: the next indices that are listed, none left out up to its last.  *)
LEMMA PageFacts ==
  ASSUME prev \in Slots \cup {-1}, NEW page \in Pages
  PROVE  /\ page \in Seq(Slots) /\ Upward(page) /\ Following(page) \in Slots \cup {-1}
         /\ \A i \in Elements(page) : prev < i /\ i <= Following(page)
         /\ prev <= Following(page)
         /\ \A i \in Slots : Listed(i, command.which, slots, epoch) /\ i > prev =>
              \/ i \in Elements(page)
              \/ Len(page) = PageSize /\ i > Following(page)
<1> DEFINE next == {i \in Slots : i > prev /\ Listed(i, command.which, slots, epoch)}
<1>1. /\ page \in UNION {[1..n -> next] : n \in 0..PageSize}
      /\ Upward(page)
      /\ \A i \in next \ Elements(page) : Len(page) = PageSize /\ i > page[PageSize]
  BY DEF Pages, Upward, Elements
<1>2. PICK n \in 0..PageSize : page \in [1..n -> next]
  BY <1>1
<1>3. n \in Nat /\ next \subseteq Slots
  BY <1>2, SlotsTypes
<1> HIDE DEF next
<1>4. page \in Seq(next) /\ Len(page) = n
  BY <1>2, <1>3
<1>5. page \in Seq(Slots)
  BY <1>2, <1>3
<1>6. DOMAIN page = 1..n /\ \A k \in 1..n : page[k] \in next
  BY <1>2
<1>7. CASE n = 0
  <2>1. page = <<>> /\ Elements(page) = {} /\ Len(page) # PageSize
    BY <1>4, <1>6, <1>7, SlotsTypes DEF Elements
  <2>2. Following(page) = prev
    BY <2>1 DEF Following
  <2>3. prev \in Int
    BY SlotsTypes
  <2>4. \A i \in Slots : Listed(i, command.which, slots, epoch) /\ i > prev => i \in next
    BY DEF next
  <2> QED
    BY <1>1, <1>5, <2>1, <2>2, <2>3, <2>4
<1>8. CASE n # 0
  <2>1. n \in 1..n /\ page # <<>> /\ \A k \in 1..n : k < n \/ k = n
    BY <1>3, <1>4, <1>8
  <2>2. Following(page) = page[n] /\ page[n] \in Slots
    BY <1>3, <1>4, <1>6, <2>1 DEF Following
  <2>3. prev \in Int /\ \A k \in 1..n : page[k] \in Nat /\ page[k] > prev
    <3>1. prev \in Int
      BY SlotsTypes
    <3>2. \A k \in 1..n : page[k] \in Slots /\ page[k] > prev
      BY <1>3, <1>6 DEF next
    <3>3. \A k \in 1..n : page[k] \in Nat
      BY <3>2, SlotsTypes
    <3> QED
      BY <3>1, <3>2, <3>3
  <2>4. \A k \in 1..n : page[k] <= page[n]
    <3> SUFFICES ASSUME NEW k \in 1..n PROVE page[k] <= page[n]
      OBVIOUS
    <3>1. k < n => page[k] < page[n]
      BY <1>1, <1>6, <2>1 DEF Upward
    <3> QED
      BY <2>1, <2>3, <3>1
  <2>5. \A i \in Elements(page) : prev < i /\ i <= Following(page)
    BY <1>6, <2>2, <2>3, <2>4 DEF Elements
  <2>6. prev <= Following(page)
    BY <2>1, <2>2, <2>3
  <2>7. \A i \in Slots : Listed(i, command.which, slots, epoch) /\ i > prev => i \in next
    BY DEF next
  <2>8. Len(page) = PageSize => page[PageSize] = Following(page)
    BY <1>4, <2>2
  <2> QED
    BY <1>1, <1>5, <2>2, <2>5, <2>6, <2>7, <2>8
<1> QED
  BY <1>7, <1>8

LEMMA PageList == ASSUME ListInv, GetProposalIndices PROVE ListInv'
<1>1. PICK page \in Pages :
        /\ pc = "page" /\ pc' = IF Len(page) = PageSize THEN "page" ELSE "entry"
        /\ indices' = indices \o page /\ prev' = Following(page)
        /\ aligned /\ UNCHANGED <<slots, epoch, command, aligned, printed, outcome, was, steady>>
  BY DEF GetProposalIndices, Client, contract, output, history
<1>2. /\ command.op = "list" /\ outcome = "none" /\ printed = <<>>
      /\ indices \in Seq(Slots) /\ prev \in Slots \cup {-1} /\ Upward(indices)
      /\ \A i \in Elements(indices) : i <= prev
      /\ \A i \in steady : i <= prev => i \in Elements(indices)
      /\ \A i \in steady : i \in Slots /\ Listed(i, command.which, slots, epoch)
  BY <1>1 DEF ListInv, ListRoute, ListOrder, ListCover, ListWorld
<1>3. /\ page \in Seq(Slots) /\ Upward(page) /\ Following(page) \in Slots \cup {-1}
      /\ \A i \in Elements(page) : prev < i /\ i <= Following(page)
      /\ prev <= Following(page)
      /\ \A i \in Slots : Listed(i, command.which, slots, epoch) /\ i > prev =>
           \/ i \in Elements(page)
           \/ Len(page) = PageSize /\ i > Following(page)
  BY <1>2, PageFacts
<1>4. /\ Elements(indices) \subseteq Int /\ Elements(page) \subseteq Int
      /\ prev \in Int /\ Following(page) \in Int
  <2>1. Elements(indices) \subseteq Slots /\ Elements(page) \subseteq Slots
    <3>1. ASSUME NEW s \in Seq(Slots) PROVE Elements(s) \subseteq Slots
      BY ElementOfSeq, LenProperties DEF Elements
    <3> QED
      BY <1>2, <1>3, <3>1
  <2>2. prev \in Int
    BY <1>2, SlotsTypes
  <2>3. Following(page) \in Int
    BY <1>3, SlotsTypes
  <2>4. Slots \subseteq Int
    BY SlotsTypes
  <2> QED
    BY <2>1, <2>2, <2>3, <2>4
<1>5. \A i \in Elements(indices), j \in Elements(page) : i < j
  BY <1>2, <1>3, <1>4
<1>6. /\ indices' \in Seq(Slots) /\ Upward(indices')
      /\ Elements(indices') = Elements(indices) \cup Elements(page)
  BY <1>1, <1>2, <1>3, <1>5, UpwardConcat
<1>7. \A i \in Elements(indices') : i <= prev'
  BY <1>1, <1>2, <1>3, <1>4, <1>6
<1>8. \A i \in steady' : i \in Elements(indices') \/ (Len(page) = PageSize /\ ~(i <= prev'))
  <2> SUFFICES ASSUME NEW i \in steady
               PROVE  i \in Elements(indices') \/ (Len(page) = PageSize /\ ~(i <= prev'))
    BY <1>1
  <2>1. i \in Int /\ i \in Slots /\ Listed(i, command.which, slots, epoch)
    <3>1. i \in Slots /\ Listed(i, command.which, slots, epoch)
      BY <1>2
    <3>2. i \in Int
      BY <3>1, SlotsTypes
    <3> QED
      BY <3>1, <3>2
  <2>2. i <= prev \/ i > prev
    BY <1>4, <2>1
  <2>3. i > Following(page) => ~(i <= prev')
    BY <1>1, <1>4, <2>1
  <2> QED
    BY <1>2, <1>3, <1>6, <2>1, <2>2, <2>3
<1>9. ListWorld' /\ ListRoute'
  BY <1>1, <1>2 DEF ListInv, ListWorld, ListRoute
<1>10. PrintedIndices' = {} /\ PrintedUpward' /\ PrintedAsTheyWere'
  BY <1>1, <1>2 DEF PrintedIndices, PrintedUpward, PrintedAsTheyWere
<1>11. ListOrder'
  BY <1>1, <1>3, <1>6, <1>7, <1>10 DEF ListInv, ListOrder
<1>12. ListCover'
  BY <1>1, <1>2, <1>8 DEF ListCover
<1> QED
  BY <1>9, <1>10, <1>11, <1>12 DEF ListInv

LEMMA NoPageList == ASSUME ListInv, NoProposalIndices \/ EndList PROVE ListInv'
<1>1. /\ UNCHANGED <<slots, epoch, command, indices, prev, printed, was, steady>>
      /\ \/ pc = "page" /\ pc' = "entry" /\ aligned' = FALSE /\ outcome' = outcome
         \/ pc = "entry" /\ pc' = "ended" /\ indices = <<>> /\ aligned' = aligned
  BY DEF NoProposalIndices, EndList, Misread, Client, contract, answers, output, history
<1>2. ListWorld' /\ ListRoute'
  BY <1>1 DEF ListInv, ListWorld, ListRoute
<1>3. ListOrder' /\ PrintedAsTheyWere'
  BY <1>1 DEF ListInv, ListOrder, PrintedAsTheyWere, PrintedUpward, PrintedIndices
<1>4. indices = <<>> => Elements(indices) = {}
  BY DEF Elements
<1>5. ListCover'
  BY <1>1, <1>4 DEF ListInv, ListCover, PrintedIndices
<1> QED
  BY <1>2, <1>3, <1>5 DEF ListInv

LEMMA PrintList == ASSUME IInv, ListInv, PrintProposal PROVE ListInv'
<1> DEFINE h == Head(indices)  e == [index |-> h, proposal |-> slots[h]]
<1>1. /\ pc = "entry" /\ pc' = "entry" /\ indices # <<>> /\ indices' = Tail(indices)
      /\ UNCHANGED <<slots, epoch, command, prev, outcome, was, steady>>
      /\ \/ aligned /\ aligned' = aligned
            /\ printed' = IF HasType(slots[h]) THEN Append(printed, e) ELSE printed
         \/ aligned' = FALSE /\ printed' = printed
  BY DEF PrintProposal, Misread, Client, contract, history
<1>2. /\ indices \in Seq(Slots) /\ Upward(indices) /\ command.op = "list" /\ outcome = "none"
      /\ printed \in Seq(PrintedEntry)
  BY <1>1 DEF ListInv, ListOrder, ListRoute
<1>3. /\ h \in Slots /\ h \in Elements(indices)
      /\ indices' \in Seq(Slots) /\ Upward(indices')
      /\ Elements(indices) = {h} \cup Elements(indices')
      /\ \A i \in Elements(indices') : h < i
  BY <1>1, <1>2, UpwardTail
<1>4. e \in PrintedEntry /\ e.index = h /\ e.proposal \in was[h]
  <2>1. slots[h] \in Proposals0 /\ slots[h] \in was[h]
    BY <1>2, <1>3 DEF IInv, World, ListInv, ListWorld
  <2> QED
    BY <1>3, <2>1 DEF PrintedEntry
<1> HIDE DEF h, e
<1>5. \A i \in PrintedIndices : i < h
  BY <1>3 DEF ListInv, ListOrder
<1>6. CASE printed' = printed
  <2>1. PrintedIndices' = PrintedIndices
    BY <1>6 DEF PrintedIndices
  <2>2. printed' \in Seq(PrintedEntry) /\ PrintedUpward' /\ PrintedAsTheyWere'
    BY <1>1, <1>6 DEF ListInv, ListOrder, PrintedUpward, PrintedAsTheyWere
  <2>3. \A j \in PrintedIndices', k \in Elements(indices') : j < k
    BY <1>3, <2>1 DEF ListInv, ListOrder
  <2>4. ListOrder'
    BY <1>1, <1>3, <2>2, <2>3 DEF ListInv, ListOrder
  <2>5. aligned' => h \notin steady
    <3>1. ASSUME aligned' PROVE ~HasType(slots[h])
      <4>1. printed' = Append(printed, e) => FALSE
        <5>1. Len(Append(printed, e)) = Len(printed) + 1 /\ Len(printed) \in Nat
          BY <1>2, <1>4, AppendProperties, LenProperties
        <5> QED
          BY <1>6, <5>1
      <4> QED
        BY <1>1, <3>1, <4>1
    <3> QED
      BY <3>1, ListedHasType
  <2>6. ListCover'
    BY <1>1, <1>2, <1>3, <2>1, <2>5 DEF ListInv, ListCover
  <2>7. ListWorld' /\ ListRoute'
    BY <1>1, <1>2 DEF ListInv, ListWorld, ListRoute
  <2> QED
    BY <2>2, <2>4, <2>6, <2>7 DEF ListInv
<1>7. CASE aligned /\ aligned' = aligned /\ printed' = Append(printed, e)
  <2>1. /\ printed' \in Seq(PrintedEntry) /\ PrintedIndices' = PrintedIndices \cup {h}
        /\ PrintedAsTheyWere' /\ PrintedUpward'
    BY <1>1, <1>2, <1>4, <1>5, <1>7, AppendPrinted DEF ListInv, ListOrder
  <2>2. \A j \in PrintedIndices', k \in Elements(indices') : j < k
    BY <1>3, <2>1 DEF ListInv, ListOrder
  <2>3. ListOrder'
    BY <1>1, <1>3, <2>1, <2>2 DEF ListInv, ListOrder
  <2>4. ListCover'
    BY <1>1, <1>2, <1>3, <2>1 DEF ListInv, ListCover
  <2>5. ListWorld' /\ ListRoute'
    BY <1>1, <1>2 DEF ListInv, ListWorld, ListRoute
  <2> QED
    BY <2>1, <2>3, <2>4, <2>5 DEF ListInv
<1> QED
  BY <1>1, <1>6, <1>7

LEMMA NextList == IInv /\ ListInv /\ [Next]_vars => ListInv'
<1> SUFFICES ASSUME IInv, ListInv, [Next]_vars PROVE ListInv'
  OBVIOUS
<1>1. CASE ClientStep
  BY <1>1, UnlistedSteps, UnlistedList, LookList, PageList, NoPageList, PrintList DEF ClientStep
<1>2. CASE ~ClientStep
  BY <1>2, OutsideList DEF Next
<1> QED
  BY <1>1, <1>2

(* printProposals: a list that met no error has every proposal it was about  *)
(* from its first page to its end, each once, as it was in its slot.        *)
THEOREM ListsAreComplete == Spec => []ListComplete
<1>1. ListInv => ListComplete
  <2> SUFFICES ASSUME ListInv PROVE ListComplete
    OBVIOUS
  <2>1. PrintedUpward /\ PrintedAsTheyWere
    BY DEF ListInv, ListOrder
  <2>2. command.op = "list" /\ command.which # "one" /\ outcome = "printed" /\ aligned
          => steady \subseteq PrintedIndices
    BY DEF ListInv, ListCover
  <2> QED
    BY <2>1, <2>2 DEF ListComplete, PrintedUpward, PrintedAsTheyWere, PrintedIndices
<1> QED
  BY InitInv, NextInv, InitList, NextList, <1>1, PTL DEF Spec

-----------------------------------------------------------------------------
(* The payments of CCF, printed from the newest entry of their ring downwards. *)

Iterates(h, f, base, n) == h[0] = base /\ \A k \in 1..n : h[k] = f[k][h[k - 1]]

LEMMA IterationExists ==
  ASSUME NEW S, NEW base \in S, NEW l \in Nat, NEW f \in [1..l -> [S -> S]]
  PROVE  \E h \in [0..l -> S] : Iterates(h, f, base, l)
<1> DEFINE T == {n \in Nat : n <= l => \E h \in [0..n -> S] : Iterates(h, f, base, n)}
<1>1. 0 \in T
  <2> DEFINE h == [n \in 0..0 |-> base]
  <2>1. h \in [0..0 -> S] /\ h[0] = base
    OBVIOUS
  <2>2. Iterates(h, f, base, 0)
    BY <2>1 DEF Iterates
  <2> QED
    BY <2>1, <2>2
<1>2. ASSUME NEW n \in Nat, n \in T PROVE n + 1 \in T
  <2> SUFFICES ASSUME n + 1 <= l PROVE \E h \in [0..(n + 1) -> S] : Iterates(h, f, base, n + 1)
    OBVIOUS
  <2>1. PICK h \in [0..n -> S] : Iterates(h, f, base, n)
    BY <1>2
  <2> DEFINE m == n + 1
             g == [k \in 0..m |-> IF k = m THEN f[m][h[n]] ELSE h[k]]
  <2>2. m \in 1..l /\ m - 1 = n /\ m \notin 0..n /\ n \in 0..n
    OBVIOUS
  <2>3. f[m][h[n]] \in S
    <3>1. f[m] \in [S -> S] /\ h[n] \in S
      BY <2>1, <2>2
    <3> QED
      BY <3>1
  <2>4. g \in [0..m -> S]
    <3>1. \A k \in 0..m : k # m => k \in 0..n
      OBVIOUS
    <3> HIDE DEF m
    <3> QED
      BY <2>1, <2>3, <3>1
  <2>5. Iterates(g, f, base, m)
    <3>1. \A k \in 0..n : k \in 0..m /\ k # m
      OBVIOUS
    <3>2. 0 \in 0..n /\ m \in 0..m /\ \A k \in 1..m : k - 1 \in 0..n /\ (k = m \/ k \in 1..n)
      OBVIOUS
    <3> HIDE DEF m
    <3>3. g[m] = f[m][h[n]] /\ \A k \in 0..n : g[k] = h[k]
      BY <3>1, <3>2
    <3> HIDE DEF g
    <3>4. ASSUME NEW k \in 1..m PROVE g[k] = f[k][g[k - 1]]
      <4>1. g[k - 1] = h[k - 1]
        BY <3>2, <3>3
      <4>2. CASE k = m
        BY <2>2, <3>3, <4>1, <4>2
      <4>3. CASE k \in 1..n
        <5>1. h[k] = f[k][h[k - 1]]
          BY <2>1, <4>3 DEF Iterates
        <5>2. k \in 0..n
          BY <4>3
        <5> QED
          BY <3>3, <4>1, <5>1, <5>2
      <4> QED
        BY <3>2, <4>2, <4>3
    <3>5. g[0] = base
      BY <2>1, <3>2, <3>3 DEF Iterates
    <3> QED
      BY <3>4, <3>5 DEF Iterates
  <2> HIDE DEF g
  <2> QED
    BY <2>4, <2>5
<1> HIDE DEF T
<1>3. l \in T
  BY <1>1, <1>2, SetInduction
<1> QED
  BY <1>3 DEF T


(* The entry that is printed k-th, of a ring that is read downwards.        *)
At(ring, first, k) == ring[((first - k) % Len(ring)) + 1]
MayFollow(ring, a, b) == a >= b \/ (Straddles(ring) /\ b = Highest(ring))
Falling(ring, s) == \A i, j \in DOMAIN s : i < j => MayFollow(ring, s[i], s[j])
FallsTo(ring, first, t, m) ==
  /\ t \in Seq(Nat) /\ Falling(ring, t)
  /\ \A i \in DOMAIN t, k \in (m + 1)..Len(ring) : MayFollow(ring, t[i], At(ring, first, k))
ReadsDown(ring, first) ==
  /\ \A k \in 1..Len(ring) : At(ring, first, k) \in Nat
  /\ \A j, k \in 1..Len(ring) :
       j < k /\ At(ring, first, j) # 0 => MayFollow(ring, At(ring, first, j), At(ring, first, k))

LEMMA ModFacts ==
  ASSUME NEW n \in Nat, n # 0
  PROVE  /\ \A x \in 0..(n - 1) : x % n = x
         /\ \A x \in Int : -n <= x /\ x < 0 => x % n = x + n
<1>1. ASSUME NEW x \in 0..(n - 1) PROVE x % n = x
  BY <1>1, SMTT(30)
<1>2. ASSUME NEW x \in Int, -n <= x, x < 0 PROVE x % n = x + n
  BY <1>2, SMTT(30)
<1> QED
  BY <1>1, <1>2

LEMMA FallsFurther ==
  ASSUME NEW ring \in Seq(Nat), NEW first, ReadsDown(ring, first), NEW m \in 1..Len(ring), NEW t,
         FallsTo(ring, first, t, m - 1)
  PROVE  FallsTo(ring, first, IF At(ring, first, m) = 0 THEN t ELSE Append(t, At(ring, first, m)), m)
<1> DEFINE v == At(ring, first, m)  l == Len(t)  n == Len(ring)
<1>1. /\ t \in Seq(Nat) /\ l \in Nat /\ DOMAIN t = 1..l /\ n \in Nat /\ v \in Nat
      /\ \A i \in 1..l : t[i] \in Nat
  BY LenProperties, ElementOfSeq DEF FallsTo, ReadsDown
<1>2. /\ \A k \in (m + 1)..n : k \in ((m - 1) + 1)..n /\ k \in 1..n /\ m < k
      /\ m \in ((m - 1) + 1)..n
  BY <1>1
<1>3. CASE v = 0
  BY <1>2, <1>3 DEF FallsTo
<1>4. CASE v # 0
  <2> DEFINE u == Append(t, v)  L == l + 1
  <2>1. /\ u \in Seq(Nat) /\ Len(u) = L /\ u[L] = v /\ \A i \in 1..l : u[i] = t[i]
    BY <1>1, AppendProperties
  <2>2. DOMAIN u = 1..L
    BY <2>1, LenProperties
  <2> HIDE DEF u
  <2>3. \A i \in 1..L : i \in 1..l \/ i = L
    <3>1. l \in Nat
      BY <1>1
    <3> HIDE DEF l
    <3> QED
      BY <3>1
  <2>4. \A i \in 1..l : MayFollow(ring, t[i], v)
    BY <1>1, <1>2 DEF FallsTo
  <2>5. \A k \in (m + 1)..n : MayFollow(ring, v, At(ring, first, k))
    BY <1>2, <1>4 DEF ReadsDown
  <2>6. ASSUME NEW i \in 1..L, NEW j \in 1..L, i < j PROVE MayFollow(ring, u[i], u[j])
    <3>1. i \in 1..l
      BY <1>1, <2>6
    <3>2. CASE j \in 1..l
      BY <1>1, <2>1, <2>6, <3>1, <3>2 DEF FallsTo, Falling
    <3>3. CASE j = L
      BY <2>1, <2>4, <3>1, <3>3
    <3> QED
      BY <2>3, <3>2, <3>3
  <2>7. ASSUME NEW i \in 1..L, NEW k \in (m + 1)..n PROVE MayFollow(ring, u[i], At(ring, first, k))
    <3>1. CASE i \in 1..l
      BY <1>1, <1>2, <2>1, <3>1 DEF FallsTo
    <3>2. CASE i = L
      BY <2>1, <2>5, <3>2
    <3> QED
      BY <2>3, <3>1, <3>2
  <2>8. Falling(ring, u)
    BY <2>2, <2>6 DEF Falling
  <2>9. FallsTo(ring, first, u, m)
    BY <2>1, <2>2, <2>7, <2>8 DEF FallsTo
  <2> QED
    BY <1>4, <2>9 DEF u
<1> QED
  BY <1>3, <1>4

(* What is kept of a ring that falls from its first entry on falls.         *)
LEMMA DownwardsFalls ==
  ASSUME NEW ring \in Seq(Nat), NEW first, ReadsDown(ring, first)
  PROVE  Falling(ring, Downwards(ring, first))
<1> DEFINE Keep(k, t) == IF At(ring, first, k) = 0 THEN t ELSE Append(t, At(ring, first, k))
           Reads(h) == h = [k \in 0..Len(ring) |-> IF k = 0 THEN <<>> ELSE Keep(k, h[k - 1])]
           g == CHOOSE h : Reads(h)
           l == Len(ring)
<1>0. l \in Nat /\ \A k \in 1..l : At(ring, first, k) \in Nat
  BY LenProperties DEF ReadsDown
<1>1. Downwards(ring, first) = g[l]
  BY DEF Downwards, At
<1>2. PICK h \in [0..l -> Seq(Nat)] : h[0] = <<>> /\ \A k \in 1..l : h[k] = Keep(k, h[k - 1])
  <2> DEFINE f == [k \in 1..l |-> [x \in Seq(Nat) |-> Keep(k, x)]]
  <2>1. \A k \in 1..l, x \in Seq(Nat) : Keep(k, x) \in Seq(Nat)
    BY <1>0, AppendProperties
  <2> HIDE DEF Keep, l
  <2>2. f \in [1..l -> [Seq(Nat) -> Seq(Nat)]]
    BY <2>1
  <2>3. \A k \in 1..l, x \in Seq(Nat) : f[k][x] = Keep(k, x)
    OBVIOUS
  <2> HIDE DEF f
  <2>4. <<>> \in Seq(Nat)
    BY EmptySeq
  <2>5. PICK h \in [0..l -> Seq(Nat)] : Iterates(h, f, <<>>, l)
    BY <1>0, <2>2, <2>4, IterationExists
  <2>6. \A k \in 1..l : h[k - 1] \in Seq(Nat)
    BY <1>0
  <2> QED
    BY ZenonT(60), <2>3, <2>5, <2>6 DEF Iterates
<1> HIDE DEF Keep
<1>3. Reads(h)
  <2> DEFINE f == [k \in 0..l |-> IF k = 0 THEN <<>> ELSE Keep(k, h[k - 1])]
  <2> HIDE DEF l
  <2>1. \A k \in 0..l : f[k] = h[k]
    BY <1>0, <1>2
  <2>2. f = [k \in 0..l |-> f[k]] /\ h = [k \in 0..l |-> h[k]]
    BY <1>2
  <2> HIDE DEF f
  <2>3. f = h
    BY <2>1, <2>2
  <2> QED
    BY <2>3 DEF f, l
<1>4. Reads(g)
  <2> HIDE DEF Reads
  <2> QED
    BY <1>3
<1> HIDE DEF g
<1> DEFINE T == {k \in Nat : k <= l => FallsTo(ring, first, g[k], k)}
<1>5. 0 \in T
  <2>1. g[0] = <<>>
    BY <1>0, <1>4
  <2>2. <<>> \in Seq(Nat) /\ DOMAIN <<>> = {}
    BY EmptySeq
  <2>3. FallsTo(ring, first, <<>>, 0)
    BY <2>2 DEF FallsTo, Falling
  <2> QED
    BY <2>1, <2>3
<1>6. ASSUME NEW k \in Nat, k \in T PROVE k + 1 \in T
  <2> SUFFICES ASSUME k + 1 <= l PROVE FallsTo(ring, first, g[k + 1], k + 1)
    OBVIOUS
  <2> DEFINE m == k + 1
  <2>1. m \in 0..l /\ m # 0 /\ m - 1 = k /\ m \in 1..l
    BY <1>0
  <2>2. FallsTo(ring, first, g[k], k)
    BY <1>0, <1>6
  <2> HIDE DEF m
  <2>3. g[m] = Keep(m, g[m - 1])
    BY <1>4, <2>1
  <2>4. FallsTo(ring, first, Keep(m, g[k]), m)
    BY <2>1, <2>2, FallsFurther DEF Keep
  <2> QED
    BY <2>1, <2>3, <2>4 DEF m
<1> HIDE DEF T
<1>7. l \in T
  BY <1>0, <1>5, <1>6, SetInduction
<1>8. FallsTo(ring, first, g[l], l)
  BY <1>0, <1>7 DEF T
<1> QED
  BY <1>1, <1>8 DEF FallsTo

(* From the last entry of the newest tick at l downwards, then from the end  *)
(* of the array: an entry at x is read before one at y.                      *)
ReadBefore(l, x, y) == (y < x /\ x <= l) \/ (x <= l /\ l < y) \/ (l < y /\ y < x)

(* If the newest tick is at l behind the newest payment at m, all of the     *)
(* beginning of the array that is written is of it, and nothing follows l.   *)
LEMMA WrittenOrder ==
  ASSUME NEW ring \in Seq(Nat), Written(ring), NEW l \in 1..Len(ring),
         ring[l] = Highest(ring), \A i \in 1..Len(ring) : ring[i] <= ring[l],
         \A i \in 1..Len(ring) : i > l => ring[i] < ring[l],
         NEW x \in 1..Len(ring), NEW y \in 1..Len(ring), ReadBefore(l, x, y), ring[x] # 0
  PROVE  MayFollow(ring, ring[x], ring[y])
<1> DEFINE n == Len(ring)
<1>1. n \in Nat /\ DOMAIN ring = 1..n /\ \A i \in 1..n : ring[i] \in Nat
  BY LenProperties, ElementOfSeq
<1>2. PICK m \in 1..n :
        /\ \A i \in 1..n : ring[i] <= ring[m]
        /\ \A i, j \in 1..m : i < j /\ ring[j] # 0 => ring[i] <= ring[j]
        /\ \A i, j \in (m + 1)..n : i < j /\ ring[j] # 0 => ring[i] <= ring[j]
        /\ \A i \in 1..m, j \in (m + 1)..n : ring[i] # 0 => ring[j] <= ring[i]
  BY <1>1 DEF Written
<1>3. ring[l] = ring[m]
  BY <1>1, <1>2
<1> HIDE DEF n
<1>4. l >= m
  BY <1>1, <1>3 DEF n
<1>5. \A i \in 1..n : (i <= m => i \in 1..m) /\ (i > m => i \in (m + 1)..n)
  BY <1>1
<1>6. x \in 1..n /\ y \in 1..n /\ l \in 1..n
  BY DEF n
<1>7. ring[x] >= ring[y] => MayFollow(ring, ring[x], ring[y])
  BY DEF MayFollow
<1>8. CASE l = m
  <2>1. ring[y] <= ring[x]
    BY <1>1, <1>2, <1>5, <1>6, <1>8 DEF ReadBefore
  <2> QED
    BY <1>1, <1>6, <1>7, <2>1
<1>9. CASE l > m
  <2>1. \A i \in 1..n : i > l => ring[i] = 0
    <3> SUFFICES ASSUME NEW i \in 1..n, i > l, ring[i] # 0 PROVE FALSE
      OBVIOUS
    <3>1. i \in (m + 1)..n /\ l \in (m + 1)..n
      BY <1>1, <1>5, <1>6, <1>9
    <3>2. ring[l] <= ring[i]
      BY <1>2, <3>1
    <3>3. ring[i] < ring[l]
      BY DEF n
    <3> QED
      BY <1>1, <1>6, <3>2, <3>3
  <2>2. x <= l
    BY <1>6, <2>1 DEF ReadBefore
  <2>3. CASE y > l
    <3>1. ring[y] = 0
      BY <1>6, <2>1, <2>3
    <3> QED
      BY <1>1, <1>6, <1>7, <3>1
  <2>4. CASE y <= l
    <3>1. y < x
      BY <1>1, <1>6, <2>2, <2>4 DEF ReadBefore
    <3>2. \A i \in 1..m : ring[i] # 0 => ring[i] = ring[l]
      <4> SUFFICES ASSUME NEW i \in 1..m, ring[i] # 0 PROVE ring[i] = ring[l]
        OBVIOUS
      <4>1. ring[l] <= ring[i]
        BY <1>2, <1>5, <1>6, <1>9
      <4>2. i \in 1..n
        BY <1>1
      <4>3. ring[i] <= ring[l] /\ ring[i] \in Nat /\ ring[l] \in Nat
        BY <1>1, <1>2, <1>3, <1>6, <4>2
      <4> QED
        BY <4>1, <4>3
    <3>3. CASE y > m
      <4>1. x \in (m + 1)..n /\ y \in (m + 1)..n
        BY <1>1, <1>5, <1>6, <3>1, <3>3
      <4> QED
        BY <1>1, <1>2, <1>6, <1>7, <3>1, <4>1
    <3>4. CASE y <= m /\ ring[y] = 0
      BY <1>1, <1>6, <1>7, <3>4
    <3>5. CASE y <= m /\ ring[y] # 0 /\ ring[x] = ring[l]
      <4>1. ring[y] = ring[l]
        BY <1>5, <1>6, <3>2, <3>5
      <4> QED
        BY <1>1, <1>6, <1>7, <3>5, <4>1
    <3>6. CASE y <= m /\ ring[y] # 0 /\ ring[x] # ring[l]
      <4>1. ring[y] = Highest(ring) /\ ring[l] = Highest(ring) /\ ring[x] # Highest(ring)
        BY <1>5, <1>6, <3>2, <3>6
      <4>2. x < l
        <5>1. x # l
          BY <3>6
        <5> QED
          BY <1>6, <2>2, <5>1
      <4>3. Straddles(ring)
        BY <1>1, <1>6, <3>1, <4>1, <4>2 DEF Straddles
      <4> QED
        BY <4>1, <4>3 DEF MayFollow
    <3> QED
      BY <1>6, <3>3, <3>4, <3>5, <3>6
  <2> QED
    BY <1>6, <2>3, <2>4
<1> QED
  BY <1>4, <1>6, <1>8, <1>9

(* The program begins with the last entry of the newest tick.               *)
LEMMA PaymentsFall ==
  ASSUME NEW ring \in Seq(Nat), Written(ring)
  PROVE  Falling(ring, RegularPayments(ring))
<1> DEFINE n == Len(ring)
           Newest(i) == ring[i] = Highest(ring) /\ \A j \in DOMAIN ring : j > i => ring[j] < ring[i]
<1>1. n \in Nat /\ DOMAIN ring = 1..n /\ \A i \in 1..n : ring[i] \in Nat
  BY LenProperties, ElementOfSeq
<1>2. PICK m \in 1..n : \A i \in 1..n : ring[i] <= ring[m]
  BY <1>1 DEF Written
<1>3. Highest(ring) = ring[m]
  <2>1. ASSUME NEW t \in {ring[i] : i \in 1..n}, \A i \in 1..n : ring[i] <= t PROVE t = ring[m]
    <3>1. ring[m] <= t /\ t <= ring[m] /\ t \in Nat /\ ring[m] \in Nat
      BY <1>1, <1>2, <2>1
    <3> QED
      BY <3>1
  <2>2. ring[m] \in {ring[i] : i \in 1..n}
    OBVIOUS
  <2> HIDE DEF n
  <2> QED
    BY <1>1, <1>2, <2>1, <2>2 DEF Highest
<1>4. \E i \in 1..n : Newest(i)
  <2> DEFINE S == {i \in 1..n : ring[i] = ring[m]}
             Last == \E x \in S : \A y \in S : y <= x
             T == {k \in Nat : (\E i \in S : n - i <= k) => Last}
  <2>1. \A i \in S : i \in Int /\ i <= n
    BY <1>1
  <2>2. 0 \in T
    <3> SUFFICES ASSUME NEW i \in S, n - i <= 0 PROVE \A y \in S : y <= i
      OBVIOUS
    <3> QED
      BY <1>1, <2>1
  <2>3. ASSUME NEW k \in Nat, k \in T PROVE k + 1 \in T
    <3> SUFFICES ASSUME NEW i \in S, n - i <= k + 1 PROVE Last
      OBVIOUS
    <3> HIDE DEF S
    <3>1. CASE \A y \in S : y <= i
      BY <3>1
    <3>2. ASSUME NEW y \in S, ~(y <= i) PROVE Last
      <4>1. n - y <= k
        BY <1>1, <2>1, <3>2
      <4> QED
        BY <2>3, <4>1
    <3> QED
      BY <3>1, <3>2
  <2> HIDE DEF T
  <2>4. n \in T
    BY <1>1, <2>2, <2>3, SetInduction
  <2>5. m \in S /\ n - m <= n
    BY <1>1
  <2>6. Last
    <3> HIDE DEF S, Last
    <3> QED
      BY <2>4, <2>5 DEF T
  <2>7. PICK x \in S : \A y \in S : y <= x
    BY <2>6
  <2>8. ASSUME NEW j \in 1..n, j > x PROVE ring[j] < ring[x]
    BY <1>1, <1>2, <2>7, <2>8
  <2> QED
    BY <1>1, <1>3, <2>7, <2>8
<1> DEFINE l == CHOOSE i \in DOMAIN ring : Newest(i)
<1>5. l \in 1..n /\ Newest(l)
  <2> HIDE DEF Newest, n
  <2> QED
    BY <1>1, <1>4
<1>6. RegularPayments(ring) = Downwards(ring, l)
  BY DEF RegularPayments
<1>7. /\ ring[l] = Highest(ring) /\ \A i \in 1..n : ring[i] <= ring[l]
      /\ \A i \in 1..n : i > l => ring[i] < ring[l]
  BY <1>1, <1>2, <1>3, <1>5
<1> HIDE DEF Newest, l
<1>8. \A k \in 1..n : At(ring, l, k) = ring[IF k <= l THEN (l - k) + 1 ELSE ((l - k) + n) + 1]
  <2> SUFFICES ASSUME NEW k \in 1..n
               PROVE  At(ring, l, k) = ring[IF k <= l THEN (l - k) + 1 ELSE ((l - k) + n) + 1]
    OBVIOUS
  <2>1. n # 0
    BY <1>1
  <2>2. k <= l => l - k \in 0..(n - 1)
    BY <1>1, <1>5
  <2>3. ~(k <= l) => l - k \in Int /\ -n <= l - k /\ l - k < 0
    BY <1>1, <1>5
  <2> HIDE DEF n
  <2>4. (l - k) % n = IF k <= l THEN l - k ELSE (l - k) + n
    BY <1>1, <2>1, <2>2, <2>3, ModFacts
  <2> QED
    BY <2>4 DEF At, n
<1> DEFINE pos(k) == IF k <= l THEN (l - k) + 1 ELSE ((l - k) + n) + 1
<1>9. \A k \in 1..n : pos(k) \in 1..n
  BY <1>1, <1>5
<1>10. \A j, k \in 1..n : j < k => ReadBefore(l, pos(j), pos(k))
  BY <1>1, <1>5 DEF ReadBefore
<1>11. \A k \in 1..n : At(ring, l, k) = ring[pos(k)]
  BY <1>8
<1> HIDE DEF pos
<1>12. ASSUME NEW j \in 1..n, NEW k \in 1..n, j < k, ring[pos(j)] # 0
       PROVE  MayFollow(ring, ring[pos(j)], ring[pos(k)])
  BY <1>5, <1>7, <1>9, <1>10, <1>12, WrittenOrder
<1> HIDE DEF n
<1>13. ReadsDown(ring, l)
  BY <1>1, <1>9, <1>11, <1>12 DEF ReadsDown, n
<1> QED
  BY <1>6, <1>13, DownwardsFalls

PaymentsInv ==
  command.op = "payments" =>
    \/ past = Past(<<>>, <<>>)
    \/ \E ring \in Rings : past = Past(ring, RegularPayments(ring))

LEMMA NextPayments == PaymentsInv /\ [Next]_vars => PaymentsInv'
<1> SUFFICES ASSUME PaymentsInv, [Next]_vars PROVE PaymentsInv'
  OBVIOUS
<1>1. CASE AskOnce
  <2>1. command' = command
    BY <1>1 DEF AskOnce, Client
  <2>2. CASE command.op = "payments"
    BY <1>1, <2>1, <2>2 DEF AskOnce, PaymentsInv
  <2>3. CASE command.op # "payments"
    BY <2>1, <2>3 DEF PaymentsInv
  <2> QED
    BY <2>2, <2>3
<1>2. CASE ~AskOnce
  <2>1. UNCHANGED <<command, past>>
    <3> USE DEF Client, output
    <3>1. CASE ClientStep
      BY <1>2, <3>1 DEF ClientStep, Unsupported, Start, Abort, GetFees, NoFees, SetProposal, RefuseProposal,
         ClearProposal, RefuseWords, Look, GetProposal, RefuseVote, NoValidProposal, GetVotingResults,
         GetProposalIndices, NoProposalIndices, PrintProposal, EndList, NoAnswer, Send
    <3>2. CASE ~ClientStep
      BY <3>2 DEF Next, ClearSlot, SetSlot, EndEpoch, ChangeFee, Change, Advance, Execute, vars
    <3> QED
      BY <3>1, <3>2
  <2> QED
    BY <2>1 DEF PaymentsInv
<1> QED
  BY <1>1, <1>2

(* ccfGetRegularPayments: the most recent on top, unless the payments of the *)
(* newest tick are at both ends of the array; then only they can stand below *)
(* older ones.                                                               *)
THEOREM PaymentsAreNewestFirst == Spec => []NewestFirst
<1>1. Init => PaymentsInv
  BY DEF Init, PaymentsInv
<1>2. PaymentsInv => NewestFirst
  <2> SUFFICES ASSUME PaymentsInv, command.op = "payments" PROVE Falling(past.ring, past.ticks)
    BY DEF NewestFirst, Falling, MayFollow
  <2>1. CASE past = Past(<<>>, <<>>)
    BY <2>1 DEF Past, Falling
  <2>2. CASE \E ring \in Rings : past = Past(ring, RegularPayments(ring))
    <3>1. PICK ring \in Rings : past = Past(ring, RegularPayments(ring))
      BY <2>2
    <3>2. past.ring = ring /\ past.ticks = RegularPayments(ring)
      BY <3>1 DEF Past
    <3> QED
      BY <3>2, RingsAssumption, PaymentsFall
  <2> QED
    BY <2>1, <2>2 DEF PaymentsInv
<1> QED
  BY NextPayments, <1>1, <1>2, PTL DEF Spec
=============================================================================
