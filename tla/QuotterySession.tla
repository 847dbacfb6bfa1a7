-------------------------- MODULE QuotterySession --------------------------
(***************************************************************************)
(* The commands of quottery.cpp that look before they act: they read the   *)
(* contract, refuse what it would not accept, poll the tick and send one   *)
(* transaction.  Every read is of another moment of the contract, which    *)
(* goes on in between, and every read can fail.                            *)
(*                                                                         *)
(* The contract and the ledger are external: they are what the checks of   *)
(* quottery.cpp take them to be.  Reads of the contract share one socket   *)
(* and one packet type, so that an answer that comes too late for one read *)
(* is there for the next.                                                  *)
(***************************************************************************)
EXTENDS Integers, Sequences

CONSTANTS
  EventIds,      \* the events a command may name
  Deposits,      \* values governance gives depositAmountForDispute
  AntiSpam,      \* antiSpamAmount
  ResolveReward, \* MIN_INVOCATION_REWARD of qtryResolveDispute
  ClaimReward,   \* CLAIM_INVOCATION_REWARD of qtryUserClaimReward
  MaxFunds,      \* bound: the largest balance of the caller
  Window,        \* ticks between publishing and finalizing: 1000
  Offset,        \* scheduledTickOffset
  MaxTick,       \* bound: the last tick the node reaches
  MaxChanges,    \* bound: changes by governance and trades during a command
  Wrap           \* 2^32, the number of values of publishTickTime

ASSUME QuotteryAssumption ==
  /\ EventIds \subseteq Nat /\ Deposits \subseteq Nat \ {0}
  /\ {AntiSpam, ResolveReward, ClaimReward, Wrap} \subseteq Nat \ {0}
  /\ {MaxFunds, Window, Offset, MaxChanges} \subseteq Nat /\ MaxTick \in Nat \ {0}
  /\ MaxTick + Window < Wrap - 1 /\ MaxTick + Offset < Wrap

VARIABLES
  contract, \* operator and deposit; stage, publishTickTime, disputer of the event
  ended,    \* the end date of the event has passed
  holds,    \* the caller has a position in the event
  funds,    \* the caller's balance
  changes,  \* governance and trades so far
  nodeTick,
  command, eventId,
  pc,
  late,     \* answers of the contract not read yet
  basic,    \* qtryBasicInfo_output
  info,     \* getEventInfo_output
  tick,     \* the tick that the dispute window is checked with
  polledAt, \* history: the node's tick at that poll
  sent,     \* the transaction: its amount and the tick (or 0) its tick is counted from
  crossed,  \* history: an answer was taken for another read's
  seen,     \* history: the facts that held at some time of the command,
  asked,    \* ... the deposits asked for, ...
  most      \* ... and the largest balance

world == <<contract, ended, holds, funds, changes, nodeTick>>
read == <<late, basic, info, tick, polledAt, crossed>>
history == <<seen, asked, most>>
vars == <<world, command, eventId, pc, read, sent, history>>

OperatorCommands == {"publish", "finalize", "force", "clean", "discount"}
Commands == OperatorCommands \cup {"order", "vote", "dispute", "resolve", "claim"}

NoEvent == -1
NotSent == [amount |-> 0, polled |-> -1]
Finalized == Wrap - 1
NoBasic == [operator |-> "nobody", deposit |-> 0, antiSpam |-> 0]
(* resultByGO is -1, "unset", or a result; end and disputer are zero or not.*)
ZeroEvent == [eid |-> 0, end |-> "zero", result |-> "result", at |-> 0, disputer |-> "nobody"]
UnreadEvent == [ZeroEvent EXCEPT !.result = "unset"]

EventInfos == [eid : EventIds \cup {0, NoEvent}, end : {"zero", "date"}, result : {"unset", "result"},
               at : 0..(Wrap - 1), disputer : {"nobody", "somebody"}]
Basics == [operator : {"caller", "other", "nobody"}, deposit : Nat, antiSpam : Nat]
Answers == [of : {"basic"}, body : Basics] \cup [of : {"event"}, body : EventInfos]

(* The result is published and nobody disputes it.                          *)
Calm(c) == c.stage \in {"published", "final"} /\ c.disputer = "nobody"

Facts(c, held) ==
  {f \in {"operator", "held", "calm"} :
     \/ f = "operator" /\ c.operator = "caller"
     \/ f = "held" /\ held
     \/ f = "calm" /\ Calm(c)}

Init ==
  /\ contract \in [operator : {"caller", "other"}, deposit : Deposits,
                   stage : {"absent", "open", "published"}, at : {1}, disputer : {"nobody"}]
  /\ ended \in BOOLEAN /\ (contract.stage = "published" => ended) /\ (contract.stage = "absent" => ~ended)
  /\ holds \in BOOLEAN /\ funds \in 0..MaxFunds /\ changes = 0 /\ nodeTick = 1
  /\ command \in Commands /\ eventId \in EventIds
  /\ pc = IF command \in {"resolve", "claim"} THEN "event" ELSE "basic"
  /\ late = <<>> /\ basic = NoBasic /\ info = UnreadEvent /\ tick = 0 /\ polledAt = 0
  /\ sent = NotSent /\ crossed = FALSE
  /\ seen = Facts(contract, holds) /\ asked = {contract.deposit} /\ most = funds

-----------------------------------------------------------------------------
(* The contract, the ledger and the network, while the command runs.        *)
Change ==
  /\ pc # "ended"
  /\ seen' = seen \cup Facts(contract', holds')
  /\ asked' = asked \cup {contract'.deposit}
  /\ most' = IF funds' > most THEN funds' ELSE most
  /\ UNCHANGED <<command, eventId, pc, read, sent>>

Advance ==
  /\ nodeTick < MaxTick /\ nodeTick' = nodeTick + 1
  /\ UNCHANGED <<contract, ended, holds, funds, changes>> /\ Change

EventStep(from, to) ==
  /\ contract.stage = from /\ contract' = [contract EXCEPT !.stage = to]
  /\ UNCHANGED <<ended, holds, funds, changes, nodeTick>> /\ Change

Create == EventStep("absent", "open")
EndDate ==
  /\ contract.stage = "open" /\ ~ended /\ ended' = TRUE
  /\ UNCHANGED <<contract, holds, funds, changes, nodeTick>> /\ Change
Publish ==
  /\ ended /\ contract.stage = "open"
  /\ contract' = [contract EXCEPT !.stage = "published", !.at = nodeTick]
  /\ UNCHANGED <<ended, holds, funds, changes, nodeTick>> /\ Change
Disputed ==
  /\ contract.stage = "published" /\ contract.disputer = "nobody"
  /\ contract' = [contract EXCEPT !.disputer = "somebody"]
  /\ UNCHANGED <<ended, holds, funds, changes, nodeTick>> /\ Change
Finalize ==
  /\ contract.disputer = "somebody" \/ nodeTick >= contract.at + Window
  /\ EventStep("published", "final")
CleanUp == EventStep("final", "gone")

Govern ==
  /\ changes < MaxChanges /\ changes' = changes + 1
  /\ \E operator \in {"caller", "other"}, deposit \in Deposits :
       contract' = [contract EXCEPT !.operator = operator, !.deposit = deposit]
  /\ UNCHANGED <<ended, holds, funds, nodeTick>> /\ Change

Trade ==
  /\ changes < MaxChanges /\ changes' = changes + 1
  /\ holds' \in BOOLEAN /\ funds' \in 0..MaxFunds
  /\ UNCHANGED <<contract, ended, nodeTick>> /\ Change

World == Advance \/ Create \/ EndDate \/ Publish \/ Disputed \/ Finalize \/ CleanUp \/ Govern \/ Trade

-----------------------------------------------------------------------------
(* What the contract answers.                                               *)
BasicNow == [operator |-> contract.operator, deposit |-> contract.deposit, antiSpam |-> AntiSpam]
EventNow ==
  IF contract.stage \in {"absent", "gone"}
  THEN [UnreadEvent EXCEPT !.eid = NoEvent]
  ELSE [eid |-> eventId, end |-> "date",
        result |-> IF contract.stage = "open" THEN "unset" ELSE "result",
        at |-> IF contract.stage = "final" THEN Finalized ELSE contract.at,
        disputer |-> contract.disputer]

BasicAnswers == [of : {"basic"}, body : {BasicNow, NoBasic}]
EventAnswers == [of : {"event"}, body : {EventNow, ZeroEvent}]

Leave == UNCHANGED <<world, command, eventId, history>>

(* No answer in time: it is lost, or still to come.                         *)
Late(answers) == late' = late \/ \E a \in answers : late' = Append(late, a)

(* quotteryGetBasicInfo: the first read of a command.  An answer may have   *)
(* no payload; no answer is all zeros too, and may still come.              *)
ReadBasic ==
  /\ pc = "basic"
  /\ \/ \E a \in BasicAnswers : basic' = a.body /\ UNCHANGED late
     \/ basic' = NoBasic /\ Late(BasicAnswers)
  /\ UNCHANGED <<info, tick, polledAt, sent, crossed>> /\ Leave

(* _quotteryGetEventInfo: the next packet of the type is the event; the     *)
(* bytes of another answer could say anything.  No answer is zeros, but -1. *)
TakeEvent(stream) ==
  /\ late' = Tail(stream)
  /\ crossed' = (Head(stream).of # "event")
  /\ info' \in IF crossed' THEN EventInfos ELSE {Head(stream).body}

ReadEvent ==
  /\ pc = "event"
  /\ \/ \E a \in EventAnswers : TakeEvent(Append(late, a))
     \/ /\ info' = UnreadEvent /\ UNCHANGED crossed
        /\ Late(EventAnswers)
  /\ UNCHANGED <<basic, tick, polledAt, sent>> /\ Leave

(* getTickNumberFromNode: the node's tick, or 0 after three reconnections;  *)
(* what else was on the socket is skipped or gone.                          *)
PollTick ==
  /\ pc = "window"
  /\ tick' \in {0, nodeTick} /\ polledAt' = nodeTick /\ late' = <<>>
  /\ UNCHANGED <<basic, info, sent, crossed>> /\ Leave

(* quotteryGetUserPosition, on a connection of its own: a failed read is no *)
(* position.  getBalanceNumber: a failed read ends the command (Abort).     *)
Look(at) == pc = at /\ UNCHANGED <<read, sent>> /\ Leave
ReadPosition(found) == Look("position") /\ found \in {FALSE, holds}
ReadBalance == Look("balance")

(* makeContractTransaction polls again; the answer to a poll that was given *)
(* up may be what this one reads.                                           *)
Learnable == IF polledAt # 0 /\ tick = 0 THEN polledAt..nodeTick ELSE {nodeTick}
Send(amount) ==
  /\ pc = "send" /\ pc' = "ended"
  /\ \E t \in Learnable \cup {0} :
       sent' = [amount |-> amount, polled |-> t]
  /\ UNCHANGED read /\ Leave

Continue(ok, next) == pc' = IF ok THEN next ELSE "ended"

(* An exception ends the command: END_RESPOND where an answer is expected,  *)
(* no connection, no balance, a position of another size.                   *)
Abort == pc # "ended" /\ pc' = "ended" /\ UNCHANGED <<read, sent>> /\ Leave

-----------------------------------------------------------------------------
(* The checks.                                                              *)
(* Mutant of BasicWasRead: the answer is not looked at.                     *)
BasicTakenAsRead(b) == TRUE
BasicWasRead(b) == b # NoBasic

(* Mutant of IsOperator: any caller passes.                                 *)
AnyoneIsOperator(b) == TRUE
IsOperator(b) == b.operator = "caller"

EventWasRead(e) == e # ZeroEvent
IsNamed(e) == EventWasRead(e) /\ e.eid = eventId
EndPassed(e) == e.end = "date" => ended

(* Mutant of HasResult: it is not looked at.                                *)
HasNamedEvent(e) == IsNamed(e)
HasResult(e) == IsNamed(e) /\ e.result # "unset"

UnderDispute(e) == e.disputer # "nobody"

(* Mutant of WindowPassed: one tick early.                                  *)
WindowPassedOneEarly(e, t) == (e.at + Window) % Wrap <= t + Offset + 1
WindowPassed(e, t) == (e.at + Window) % Wrap <= t + Offset

(* Mutant of Affords: a balance one short is enough.                        *)
AffordsOneShort(amount) == funds + 1 >= amount
Affords(amount) == funds >= amount

-----------------------------------------------------------------------------
(* The commands.  Orders and votes send what they read, whatever it was.    *)
Order ==
  /\ command = "order"
  /\ (ReadBasic /\ Continue(TRUE, "send")) \/ Send(basic.antiSpam)

ProposalVote ==
  /\ command = "vote"
  /\ (ReadBasic /\ Continue(TRUE, "send")) \/ Send(basic.antiSpam)

UpdateFeeDiscountList ==
  /\ command = "discount"
  /\ (ReadBasic /\ Continue(IsOperator(basic'), "send")) \/ Send(0)

CleanMemory ==
  /\ command = "clean"
  /\ (ReadBasic /\ Continue(BasicWasRead(basic') /\ IsOperator(basic'), "send")) \/ Send(0)

PublishResult ==
  /\ command = "publish"
  /\ \/ ReadBasic /\ Continue(BasicWasRead(basic') /\ IsOperator(basic'), "event")
     \/ ReadEvent /\ Continue(EventWasRead(info') /\ info'.eid # NoEvent /\ EndPassed(info'), "send")
     \/ Send(basic.deposit)

TryFinalizeEvent ==
  /\ command = "finalize"
  /\ \/ ReadBasic /\ Continue(BasicWasRead(basic') /\ IsOperator(basic'), "event")
     \/ ReadEvent /\ Continue(HasResult(info') /\ ~UnderDispute(info'), "window")
     \/ PollTick /\ Continue(WindowPassed(info, tick'), "send")
     \/ Send(0)

Dispute ==
  /\ command = "dispute"
  /\ \/ ReadBasic /\ Continue(BasicWasRead(basic'), "event")
     \/ ReadEvent /\ Continue(HasResult(info') /\ info'.at # Finalized /\ ~UnderDispute(info'), "window")
     \/ PollTick /\ Continue(TRUE, "balance")
     \/ ReadBalance /\ Continue(Affords(basic.deposit), "send")
     \/ Send(basic.deposit)

ResolveDispute ==
  /\ command = "resolve"
  /\ \/ ReadEvent /\ Continue(IsNamed(info') /\ UnderDispute(info'), "balance")
     \/ ReadBalance /\ Continue(Affords(ResolveReward), "send")
     \/ Send(ResolveReward)

UserClaimReward ==
  /\ command = "claim"
  /\ \/ ReadEvent /\ Continue(HasResult(info'), "position")
     \/ \E found \in BOOLEAN : ReadPosition(found) /\ Continue(found, "balance")
     \/ ReadBalance /\ Continue(Affords(ClaimReward), "send")
     \/ Send(ClaimReward)

GOForceClaimReward ==
  /\ command = "force"
  /\ \/ ReadBasic /\ Continue(BasicWasRead(basic') /\ IsOperator(basic'), "event")
     \/ ReadEvent /\ Continue(HasResult(info'), "send")
     \/ Send(0)

Client ==
  \/ Order \/ ProposalVote \/ UpdateFeeDiscountList \/ CleanMemory
  \/ PublishResult \/ TryFinalizeEvent \/ Dispute \/ ResolveDispute
  \/ UserClaimReward \/ GOForceClaimReward \/ Abort

Terminated == pc = "ended" /\ UNCHANGED vars

Next == World \/ Client \/ Terminated

Spec == Init /\ [][Next]_vars

-----------------------------------------------------------------------------
TypeOK ==
  /\ contract \in [operator : {"caller", "other"}, deposit : Deposits,
                   stage : {"absent", "open", "published", "final", "gone"},
                   at : 1..nodeTick, disputer : {"nobody", "somebody"}]
  /\ ended \in BOOLEAN /\ holds \in BOOLEAN
  /\ funds \in 0..MaxFunds /\ changes \in 0..MaxChanges /\ nodeTick \in 1..MaxTick
  /\ command \in Commands /\ eventId \in EventIds
  /\ pc \in {"basic", "event", "window", "position", "balance", "send", "ended"}
  /\ late \in Seq(Answers)
  /\ basic \in Basics /\ info \in EventInfos
  /\ tick \in 0..MaxTick /\ polledAt \in 0..MaxTick
  /\ sent \in [amount : Nat, polled : 0..MaxTick] \cup {NotSent}
  /\ crossed \in BOOLEAN
  /\ seen \subseteq {"operator", "held", "calm"} /\ asked \subseteq Deposits /\ most \in 0..MaxFunds

Sends(commands) == command \in commands /\ sent # NotSent

(* The socket of a command carries answers of one type: none that came too  *)
(* late for one read is taken for another, because a failed read is noticed *)
(* before the next one.                                                     *)
AnswersMatch == ~crossed

(* Only who was the game operator while the command ran sends what the      *)
(* contract accepts from the game operator, whatever reads failed.          *)
Authorised == Sends(OperatorCommands) => "operator" \in seen

(* A command about a result is sent for an event whose result is published, *)
(* one about disputing or finalizing it for a result that stood undisputed  *)
(* while the command ran: failed and empty reads do not pass for results,   *)
(* not even of event 0.                                                     *)
ResultStands ==
  /\ Sends({"finalize", "dispute", "claim", "force"}) =>
       contract.stage \in {"published", "final", "gone"}
  /\ Sends({"finalize", "dispute"}) => "calm" \in seen
  /\ Sends({"resolve"}) => contract.disputer = "somebody"

(* "Finalize an event after the dispute window": the tick of the            *)
(* transaction, which is polled again after the check, is past the window;  *)
(* also for a finalized event, where publishTickTime + 1000 wraps around.   *)
WindowOver ==
  Sends({"finalize"}) /\ sent.polled # 0 => sent.polled + Offset >= contract.at + Window

(* Deposits sent are those the contract asked for while the command ran.    *)
PaysWhatIsAsked == Sends({"publish", "dispute"}) => sent.amount \in asked

(* What a dispute, its resolution and a claim cost, the caller had at some  *)
(* time of the command, and who claims had a position then.                 *)
Backed ==
  /\ Sends({"dispute", "resolve", "claim"}) => sent.amount <= most
  /\ Sends({"claim"}) => "held" \in seen
=============================================================================
