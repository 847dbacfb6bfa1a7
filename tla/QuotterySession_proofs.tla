----------------------- MODULE QuotterySession_proofs -----------------------
(***************************************************************************)
(* Proofs about QuotterySession, for all values of its constants.          *)
(*                                                                         *)
(* The properties speak of a transaction that was sent; the invariant says *)
(* what a command has established at each place on its way there.          *)
(***************************************************************************)
EXTENDS QuotterySession, TLAPS

(* seen holds the present.                                                  *)
Kept ==
  /\ contract.operator = "caller" => "operator" \in seen
  /\ contract.deposit \in asked
  /\ funds <= most
  /\ holds => "held" \in seen
  /\ Calm(contract) => "calm" \in seen

(* The contract that only finalizes what was disputed or is past its window *)
Windows ==
  contract.stage \in {"final", "gone"} /\ contract.disputer = "nobody" =>
    nodeTick >= contract.at + Window

(* A command reads the event on a socket without late answers, and sends    *)
(* only to end.                                                             *)
Route ==
  /\ pc \in {"basic", "event"} => late = <<>>
  /\ ~crossed
  /\ sent # NotSent => pc = "ended"

(* The places that lie after a check.                                       *)
Past(places) == pc \in places
AfterBasic == Past({"event", "window", "position", "balance", "send"})
AfterEvent == Past({"window", "position", "balance", "send"})

Checked ==
  /\ command \in OperatorCommands /\ AfterBasic => "operator" \in seen
  /\ command \in {"publish", "dispute"} /\ AfterBasic => basic.deposit \in asked
  /\ command \in {"finalize", "dispute", "claim", "force"} /\ AfterEvent =>
       contract.stage \in {"published", "final", "gone"}
  /\ command \in {"finalize", "dispute"} /\ AfterEvent => "calm" \in seen
  /\ command = "resolve" /\ AfterEvent => contract.disputer = "somebody"
  /\ command = "claim" /\ Past({"balance", "send"}) => "held" \in seen
  /\ command = "dispute" /\ pc = "send" => basic.deposit <= most
  /\ command = "resolve" /\ pc = "send" => ResolveReward <= most
  /\ command = "claim" /\ pc = "send" => ClaimReward <= most

InWindow ==
  /\ command = "finalize" /\ pc = "window" =>
       info.at = contract.at \/ nodeTick >= contract.at + Window
  /\ command = "finalize" /\ pc = "send" =>
       polledAt \in 1..nodeTick /\ polledAt + Offset >= contract.at + Window

Goals == AnswersMatch /\ Authorised /\ ResultStands /\ WindowOver /\ PaysWhatIsAsked /\ Backed
IInv == TypeOK /\ Kept /\ Windows /\ Route /\ Checked /\ InWindow /\ Goals

Contracts(t) ==
  [operator : {"caller", "other"}, deposit : Deposits,
   stage : {"absent", "open", "published", "final", "gone"}, at : 1..t, disputer : {"nobody", "somebody"}]
Decided(c) == c.stage \in {"published", "final", "gone"}
Places == {"basic", "event", "window", "position", "balance", "send", "ended"}

-----------------------------------------------------------------------------
LEMMA Constants ==
  /\ Window \in Nat /\ Offset \in Nat /\ MaxChanges \in Nat /\ MaxFunds \in Nat
  /\ MaxTick \in Nat /\ MaxTick >= 1 /\ Wrap \in Nat /\ MaxTick + Window < Wrap - 1
  /\ AntiSpam \in Nat /\ ResolveReward \in Nat /\ ClaimReward \in Nat
  /\ EventIds \subseteq Nat /\ Deposits \subseteq Nat
  BY QuotteryAssumption

LEMMA InitInv == Init => IInv
<1> SUFFICES ASSUME Init PROVE IInv
  OBVIOUS
<1> USE Constants
<1>1. TypeOK
  <2>1. contract \in Contracts(nodeTick) /\ nodeTick \in 1..MaxTick
    BY DEF Init, Contracts
  <2>2. /\ pc \in Places /\ tick \in 0..MaxTick
        /\ polledAt \in 0..MaxTick /\ changes \in 0..MaxChanges
    BY DEF Init, Places
  <2>6. late \in Seq(Answers)
    BY DEF Init
  <2>3. basic \in Basics
    BY DEF Init, Basics, NoBasic
  <2>4. info \in EventInfos
    BY SMTT(60) DEF Init, EventInfos, UnreadEvent, ZeroEvent
  <2>5. seen \subseteq {"operator", "held", "calm"} /\ asked \subseteq Deposits /\ most \in 0..MaxFunds
    BY DEF Init, Facts
  <2> QED
    BY <2>1, <2>2, <2>3, <2>4, <2>5, <2>6 DEF Init, TypeOK, Contracts, Places
<1>2. Kept
  BY <1>1 DEF Init, Kept, TypeOK, Facts
<1>3. Windows /\ Route
  BY DEF Init, Windows, Route
<1>4. Checked /\ InWindow
  BY DEF Init, Checked, InWindow, AfterBasic, AfterEvent, Past, Commands, OperatorCommands
<1>5. Goals
  BY DEF Init, Goals, AnswersMatch, Authorised, ResultStands, WindowOver, PaysWhatIsAsked, Backed, Sends
<1> QED
  BY <1>1, <1>2, <1>3, <1>4, <1>5 DEF IInv

-----------------------------------------------------------------------------
(* A step of the world: the client stands still, and what was established   *)
(* of the contract stays so.                                                *)
Moves ==
  /\ Change
  /\ contract' \in Contracts(nodeTick')
  /\ ended' \in BOOLEAN /\ holds' \in BOOLEAN
  /\ funds' \in 0..MaxFunds /\ changes' \in 0..MaxChanges
  /\ nodeTick' \in 1..MaxTick /\ nodeTick <= nodeTick'
  /\ Decided(contract) => Decided(contract') /\ contract'.at = contract.at
  /\ contract.disputer = "somebody" => contract'.disputer = "somebody"
  /\ Windows => Windows'

LEMMA WorldMoves == ASSUME TypeOK, World PROVE Moves
<1> USE Constants DEF TypeOK, Contracts, Decided
<1>1. CASE Advance
  <2>1. Change /\ nodeTick' \in 1..MaxTick /\ nodeTick <= nodeTick'
    BY <1>1 DEF Advance
  <2>2. contract' \in Contracts(nodeTick')
    BY <1>1 DEF Advance
  <2>3. ended' \in BOOLEAN /\ holds' \in BOOLEAN
    BY <1>1 DEF Advance
  <2>4. funds' \in 0..MaxFunds /\ changes' \in 0..MaxChanges
    BY <1>1 DEF Advance
  <2>5. /\ Decided(contract) => Decided(contract') /\ contract'.at = contract.at
        /\ contract.disputer = "somebody" => contract'.disputer = "somebody"
    BY <1>1 DEF Advance
  <2>6. Windows => Windows'
    <3>1. contract.at \in Nat /\ nodeTick \in Nat /\ nodeTick' = nodeTick + 1 /\ contract' = contract
      BY <1>1 DEF Advance
    <3> QED
      BY <3>1 DEF Windows
  <2> QED
    BY <2>1, <2>2, <2>3, <2>4, <2>5, <2>6 DEF Moves
<1>2. CASE Create
  <2>1. Change /\ nodeTick' \in 1..MaxTick /\ nodeTick <= nodeTick'
    BY <1>2 DEF Create, EventStep
  <2>2. contract' \in Contracts(nodeTick')
    BY <1>2 DEF Create, EventStep
  <2>3. ended' \in BOOLEAN /\ holds' \in BOOLEAN
    BY <1>2 DEF Create, EventStep
  <2>4. funds' \in 0..MaxFunds /\ changes' \in 0..MaxChanges
    BY <1>2 DEF Create, EventStep
  <2>5. /\ Decided(contract) => Decided(contract') /\ contract'.at = contract.at
        /\ contract.disputer = "somebody" => contract'.disputer = "somebody"
    BY <1>2 DEF Create, EventStep
  <2>6. Windows => Windows'
    BY <1>2, <2>1, <2>2 DEF Create, EventStep, Windows
  <2> QED
    BY <2>1, <2>2, <2>3, <2>4, <2>5, <2>6 DEF Moves
<1>3. CASE EndDate
  <2>1. Change /\ nodeTick' \in 1..MaxTick /\ nodeTick <= nodeTick'
    BY <1>3 DEF EndDate
  <2>2. contract' \in Contracts(nodeTick')
    BY <1>3 DEF EndDate
  <2>3. ended' \in BOOLEAN /\ holds' \in BOOLEAN
    BY <1>3 DEF EndDate
  <2>4. funds' \in 0..MaxFunds /\ changes' \in 0..MaxChanges
    BY <1>3 DEF EndDate
  <2>5. /\ Decided(contract) => Decided(contract') /\ contract'.at = contract.at
        /\ contract.disputer = "somebody" => contract'.disputer = "somebody"
    BY <1>3 DEF EndDate
  <2>6. Windows => Windows'
    BY <1>3, <2>1, <2>2 DEF EndDate, Windows
  <2> QED
    BY <2>1, <2>2, <2>3, <2>4, <2>5, <2>6 DEF Moves
<1>4. CASE Publish
  <2>1. Change /\ nodeTick' \in 1..MaxTick /\ nodeTick <= nodeTick'
    BY <1>4 DEF Publish
  <2>2. contract' \in Contracts(nodeTick')
    <3>1. contract' = [contract EXCEPT !.stage = "published", !.at = nodeTick]
      BY <1>4 DEF Publish
    <3>2. nodeTick' = nodeTick /\ nodeTick \in 1..nodeTick
      BY <1>4 DEF Publish
    <3> QED
      BY <3>1, <3>2
  <2>3. ended' \in BOOLEAN /\ holds' \in BOOLEAN
    BY <1>4 DEF Publish
  <2>4. funds' \in 0..MaxFunds /\ changes' \in 0..MaxChanges
    BY <1>4 DEF Publish
  <2>5. /\ Decided(contract) => Decided(contract') /\ contract'.at = contract.at
        /\ contract.disputer = "somebody" => contract'.disputer = "somebody"
    BY <1>4 DEF Publish
  <2>6. Windows => Windows'
    BY <1>4, <2>1, <2>2 DEF Publish, Windows
  <2> QED
    BY <2>1, <2>2, <2>3, <2>4, <2>5, <2>6 DEF Moves
<1>5. CASE Disputed
  <2>1. Change /\ nodeTick' \in 1..MaxTick /\ nodeTick <= nodeTick'
    BY <1>5 DEF Disputed
  <2>2. contract' \in Contracts(nodeTick')
    BY <1>5 DEF Disputed
  <2>3. ended' \in BOOLEAN /\ holds' \in BOOLEAN
    BY <1>5 DEF Disputed
  <2>4. funds' \in 0..MaxFunds /\ changes' \in 0..MaxChanges
    BY <1>5 DEF Disputed
  <2>5. /\ Decided(contract) => Decided(contract') /\ contract'.at = contract.at
        /\ contract.disputer = "somebody" => contract'.disputer = "somebody"
    BY <1>5 DEF Disputed
  <2>6. Windows => Windows'
    BY <1>5, <2>1, <2>2 DEF Disputed, Windows
  <2> QED
    BY <2>1, <2>2, <2>3, <2>4, <2>5, <2>6 DEF Moves
<1>6. CASE Finalize
  <2>1. Change /\ nodeTick' \in 1..MaxTick /\ nodeTick <= nodeTick'
    BY <1>6 DEF Finalize, EventStep
  <2>2. contract' \in Contracts(nodeTick')
    BY <1>6 DEF Finalize, EventStep
  <2>3. ended' \in BOOLEAN /\ holds' \in BOOLEAN
    BY <1>6 DEF Finalize, EventStep
  <2>4. funds' \in 0..MaxFunds /\ changes' \in 0..MaxChanges
    BY <1>6 DEF Finalize, EventStep
  <2>5. /\ Decided(contract) => Decided(contract') /\ contract'.at = contract.at
        /\ contract.disputer = "somebody" => contract'.disputer = "somebody"
    BY <1>6 DEF Finalize, EventStep
  <2>6. Windows => Windows'
    BY <1>6, <2>1, <2>2 DEF Finalize, EventStep, Windows
  <2> QED
    BY <2>1, <2>2, <2>3, <2>4, <2>5, <2>6 DEF Moves
<1>7. CASE CleanUp
  <2>1. Change /\ nodeTick' \in 1..MaxTick /\ nodeTick <= nodeTick'
    BY <1>7 DEF CleanUp, EventStep
  <2>2. contract' \in Contracts(nodeTick')
    BY <1>7 DEF CleanUp, EventStep
  <2>3. ended' \in BOOLEAN /\ holds' \in BOOLEAN
    BY <1>7 DEF CleanUp, EventStep
  <2>4. funds' \in 0..MaxFunds /\ changes' \in 0..MaxChanges
    BY <1>7 DEF CleanUp, EventStep
  <2>5. /\ Decided(contract) => Decided(contract') /\ contract'.at = contract.at
        /\ contract.disputer = "somebody" => contract'.disputer = "somebody"
    BY <1>7 DEF CleanUp, EventStep
  <2>6. Windows => Windows'
    BY <1>7, <2>1, <2>2 DEF CleanUp, EventStep, Windows
  <2> QED
    BY <2>1, <2>2, <2>3, <2>4, <2>5, <2>6 DEF Moves
<1>8. CASE Govern
  <2>1. Change /\ nodeTick' \in 1..MaxTick /\ nodeTick <= nodeTick'
    BY SMTT(60), <1>8 DEF Govern
  <2>2. contract' \in Contracts(nodeTick')
    BY <1>8 DEF Govern
  <2>3. ended' \in BOOLEAN /\ holds' \in BOOLEAN
    BY <1>8 DEF Govern
  <2>4. funds' \in 0..MaxFunds /\ changes' \in 0..MaxChanges
    <3>1. funds' = funds /\ changes' = changes + 1 /\ changes < MaxChanges
      BY <1>8 DEF Govern
    <3> QED
      BY <3>1
  <2>5. /\ Decided(contract) => Decided(contract') /\ contract'.at = contract.at
        /\ contract.disputer = "somebody" => contract'.disputer = "somebody"
    BY <1>8 DEF Govern
  <2>6. Windows => Windows'
    BY <1>8, <2>1, <2>2 DEF Govern, Windows
  <2> QED
    BY <2>1, <2>2, <2>3, <2>4, <2>5, <2>6 DEF Moves
<1>9. CASE Trade
  <2>1. Change /\ nodeTick' \in 1..MaxTick /\ nodeTick <= nodeTick'
    BY <1>9 DEF Trade
  <2>2. contract' \in Contracts(nodeTick')
    BY <1>9 DEF Trade
  <2>3. ended' \in BOOLEAN /\ holds' \in BOOLEAN
    BY <1>9 DEF Trade
  <2>4. funds' \in 0..MaxFunds /\ changes' \in 0..MaxChanges
    BY <1>9 DEF Trade
  <2>5. /\ Decided(contract) => Decided(contract') /\ contract'.at = contract.at
        /\ contract.disputer = "somebody" => contract'.disputer = "somebody"
    BY <1>9 DEF Trade
  <2>6. Windows => Windows'
    BY <1>9, <2>1, <2>2 DEF Trade, Windows
  <2> QED
    BY <2>1, <2>2, <2>3, <2>4, <2>5, <2>6 DEF Moves
<1> QED
  BY <1>1, <1>2, <1>3, <1>4, <1>5, <1>6, <1>7, <1>8, <1>9 DEF World

LEMMA WorldType == TypeOK /\ World => TypeOK'
<1> SUFFICES ASSUME TypeOK, World PROVE TypeOK'
  OBVIOUS
<1> USE Constants
<1>1. Moves
  BY WorldMoves
<1>2. /\ seen' \subseteq {"operator", "held", "calm"} /\ asked' \subseteq Deposits
      /\ most' \in 0..MaxFunds
  BY <1>1 DEF TypeOK, Moves, Change, Facts, Contracts
<1> QED
  BY <1>1, <1>2 DEF TypeOK, Moves, Change, read, Contracts

(* What no step of the world undoes.                                        *)
LEMMA WorldKeeps ==
  ASSUME TypeOK, World
  PROVE  Kept' /\ seen \subseteq seen' /\ asked \subseteq asked' /\ most <= most'
<1> USE Constants
<1>1. Moves /\ TypeOK'
  BY WorldMoves, WorldType
<1>2. Kept'
  BY <1>1 DEF Moves, Change, Kept, TypeOK, Facts
<1>3. seen \subseteq seen' /\ asked \subseteq asked' /\ most <= most'
  BY <1>1 DEF Moves, Change, TypeOK
<1> QED
  BY <1>2, <1>3

LEMMA WorldInv == IInv /\ World => IInv'
<1> SUFFICES ASSUME IInv, World PROVE IInv'
  OBVIOUS
<1> USE Constants
<1>1. TypeOK /\ TypeOK' /\ Moves
  BY WorldType, WorldMoves DEF IInv
<1>2. Kept' /\ seen \subseteq seen' /\ asked \subseteq asked' /\ most <= most'
  BY <1>1, WorldKeeps
<1>3. UNCHANGED <<command, eventId, pc, read, sent>> /\ pc # "ended" /\ sent = NotSent
  BY <1>1 DEF Moves, Change, IInv, Route
<1>4. Windows' /\ Route'
  BY <1>1, <1>3 DEF IInv, Moves, Route, read
<1>5. Checked'
  <2>1. /\ Decided(contract) => Decided(contract')
        /\ contract.disputer = "somebody" => contract'.disputer = "somebody"
        /\ basic' = basic /\ basic.deposit \in Nat /\ most \in Nat /\ most' \in Nat
    BY <1>1, <1>3 DEF Moves, read, TypeOK, Basics
  <2> QED
    BY <1>2, <1>3, <2>1 DEF IInv, Checked, AfterBasic, AfterEvent, Past, Decided
<1>6. InWindow'
  <2>1. /\ Decided(contract) => contract'.at = contract.at
        /\ contract.at \in Nat /\ nodeTick \in Nat /\ nodeTick' \in Nat /\ nodeTick <= nodeTick'
        /\ info' = info /\ polledAt' = polledAt
    BY <1>1, <1>3 DEF Moves, read, TypeOK
  <2>2. command = "finalize" /\ AfterEvent => Decided(contract)
    BY DEF IInv, Checked, Decided
  <2> QED
    BY <1>3, <2>1, <2>2 DEF IInv, InWindow, AfterEvent, Past
<1>7. Goals'
  BY <1>3 DEF IInv, Goals, AnswersMatch, Authorised, ResultStands, WindowOver, PaysWhatIsAsked,
         Backed, Sends, read, Route
<1> QED
  BY <1>1, <1>2, <1>4, <1>5, <1>6, <1>7 DEF IInv

-----------------------------------------------------------------------------
(* What the reads return: the contract's state, or what no check takes for  *)
(* one.                                                                     *)
LEMMA NowTyped ==
  ASSUME TypeOK
  PROVE  /\ BasicNow \in Basics /\ NoBasic \in Basics
         /\ EventNow \in EventInfos /\ ZeroEvent \in EventInfos /\ UnreadEvent \in EventInfos
         /\ BasicAnswers \subseteq Answers /\ EventAnswers \subseteq Answers
<1> USE Constants
<1>1. BasicNow \in Basics /\ NoBasic \in Basics
  BY DEF TypeOK, BasicNow, NoBasic, Basics
<1>2. ZeroEvent \in EventInfos /\ UnreadEvent \in EventInfos
  BY DEF ZeroEvent, UnreadEvent, EventInfos
<1>3. EventNow \in EventInfos
  <2>1. [UnreadEvent EXCEPT !.eid = NoEvent] \in EventInfos
    <3>1. UnreadEvent = [eid |-> 0, end |-> "zero", result |-> "unset", at |-> 0, disputer |-> "nobody"]
      BY DEF ZeroEvent, UnreadEvent
    <3>2. [UnreadEvent EXCEPT !.eid = NoEvent]
            = [eid |-> -1, end |-> "zero", result |-> "unset", at |-> 0, disputer |-> "nobody"]
      BY <3>1 DEF NoEvent
    <3>3. 0 \in 0..(Wrap - 1) /\ -1 \in EventIds \cup {0, NoEvent}
      BY DEF NoEvent
    <3> QED
      BY <3>2, <3>3 DEF EventInfos
  <2>2. contract.at \in 0..(Wrap - 1) /\ Finalized \in 0..(Wrap - 1)
    BY DEF TypeOK, Finalized
  <2>3. contract.disputer \in {"nobody", "somebody"} /\ eventId \in EventIds
    BY DEF TypeOK
  <2> QED
    BY <2>1, <2>2, <2>3 DEF EventNow, EventInfos
<1> QED
  BY <1>1, <1>2, <1>3 DEF BasicAnswers, EventAnswers, Answers

LEMMA BasicReadFacts ==
  ASSUME IInv, ReadBasic
  PROVE  /\ basic' \in Basics /\ late' \in Seq(Answers)
         /\ BasicWasRead(basic') => basic'.deposit \in asked /\ late' = <<>>
         /\ IsOperator(basic') => "operator" \in seen
<1>1. TypeOK /\ Kept /\ late = <<>>
  BY DEF IInv, Route, ReadBasic
<1>2. basic' \in {BasicNow, NoBasic}
  BY DEF ReadBasic, BasicAnswers
<1>3. late' = late \/ (basic' = NoBasic /\ \E a \in BasicAnswers : late' = Append(late, a))
  BY DEF ReadBasic, Late
<1>4. late' \in Seq(Answers)
  <2>1. late \in Seq(Answers) /\ BasicAnswers \subseteq Answers
    BY <1>1, NowTyped DEF TypeOK
  <2> QED
    BY <2>1, <1>3
<1>5. BasicWasRead(basic') => basic' = BasicNow /\ late' = <<>>
  BY <1>1, <1>2, <1>3 DEF BasicWasRead
<1>6. BasicNow.deposit \in asked /\ (BasicNow.operator = "caller" => "operator" \in seen)
  BY <1>1 DEF BasicNow, Kept
<1>7. IsOperator(basic') => basic' = BasicNow
  BY <1>2 DEF IsOperator, NoBasic
<1> QED
  BY <1>1, <1>2, <1>4, <1>5, <1>6, <1>7, NowTyped DEF IsOperator

LEMMA EventReadFacts ==
  ASSUME IInv, ReadEvent
  PROVE  /\ info' \in EventInfos /\ late' \in Seq(Answers) /\ crossed' = FALSE
         /\ HasResult(info') =>
              /\ Decided(contract)
              /\ info'.at = IF contract.stage = "final" THEN Finalized ELSE contract.at
              /\ contract.stage # "gone"
              /\ info'.disputer = contract.disputer
         /\ IsNamed(info') /\ UnderDispute(info') => contract.disputer = "somebody"
<1>1. TypeOK /\ late = <<>> /\ crossed = FALSE
  BY DEF IInv, Route, ReadEvent, TypeOK
<1>2. ASSUME \E a \in EventAnswers : TakeEvent(Append(late, a))
      PROVE  info' \in {EventNow, ZeroEvent} /\ late' \in Seq(Answers) /\ crossed' = FALSE
  <2>1. PICK a \in EventAnswers : TakeEvent(<<a>>)
    BY <1>1, <1>2
  <2>2. a.of = "event" /\ a.body \in {EventNow, ZeroEvent}
    BY DEF EventAnswers
  <2>4. Head(<<a>>) = a /\ Tail(<<a>>) = <<>>
    OBVIOUS
  <2>3. late' = <<>> /\ crossed' = FALSE /\ info' \in {EventNow, ZeroEvent}
    BY <2>1, <2>2, <2>4 DEF TakeEvent
  <2> QED
    BY <2>3
<1>3. ASSUME Late(EventAnswers) PROVE late' \in Seq(Answers)
  <2>1. late \in Seq(Answers) /\ EventAnswers \subseteq Answers
    BY <1>1, NowTyped DEF TypeOK
  <2> QED
    BY <2>1, <1>3 DEF Late
<1>4. info' \in {EventNow, ZeroEvent, UnreadEvent} /\ late' \in Seq(Answers) /\ crossed' = FALSE
  BY <1>1, <1>2, <1>3 DEF ReadEvent
<1>5. HasResult(info') => info' = EventNow
  BY <1>4 DEF HasResult, IsNamed, EventWasRead, UnreadEvent, ZeroEvent
<1>6. HasResult(EventNow) => contract.stage \in {"published", "final"}
  BY <1>1 DEF HasResult, EventNow, UnreadEvent, ZeroEvent, TypeOK
<1>7. UnderDispute(info') => info' = EventNow
  BY <1>4 DEF UnderDispute, UnreadEvent, ZeroEvent
<1>8. UnderDispute(EventNow) => contract.disputer = "somebody"
  BY <1>1 DEF UnderDispute, EventNow, UnreadEvent, ZeroEvent, TypeOK
<1> QED
  BY <1>1, <1>4, <1>5, <1>6, <1>7, <1>8, NowTyped DEF EventNow, Decided

-----------------------------------------------------------------------------
(* A step of the client that sends nothing keeps the invariant when it      *)
(* keeps what the places of the command say.                                *)
LEMMA StepInv ==
  ASSUME IInv, Leave, pc # "ended", pc' \in Places, sent' = sent,
         late' \in Seq(Answers), pc' \in {"basic", "event"} => late' = <<>>,
         basic' \in Basics, info' \in EventInfos, tick' \in 0..MaxTick, polledAt' \in 0..MaxTick,
         crossed' = FALSE, Checked', InWindow'
  PROVE  IInv'
<1>1. TypeOK /\ sent = NotSent
  BY DEF IInv, Route
<1>2. UNCHANGED <<contract, ended, holds, funds, changes, nodeTick, command, eventId, seen, asked, most>>
  BY DEF Leave, world, history
<1>3. TypeOK'
  BY <1>1, <1>2 DEF TypeOK, Places
<1>4. Kept' /\ Windows'
  BY <1>2 DEF IInv, Kept, Windows
<1>5. Route'
  BY <1>1 DEF Route
<1>6. Goals'
  BY <1>1 DEF Goals, AnswersMatch, Authorised, ResultStands, WindowOver, PaysWhatIsAsked, Backed, Sends
<1> QED
  BY <1>3, <1>4, <1>5, <1>6 DEF IInv

(* Sending is right wherever a command has come to send.                    *)
LEMMA SendInv ==
  ASSUME IInv, NEW amount \in Nat, Send(amount),
         command \in {"publish", "dispute"} => amount \in asked,
         command \in {"dispute", "resolve", "claim"} => amount <= most
  PROVE  IInv'
<1> USE Constants
<1>1. TypeOK /\ pc = "send" /\ pc' = "ended" /\ UNCHANGED read /\ Leave
  BY DEF IInv, Send
<1>2. UNCHANGED <<contract, ended, holds, funds, changes, nodeTick, command, eventId, seen, asked, most>>
  BY <1>1 DEF Leave, world, history
<1>3. UNCHANGED <<late, basic, info, tick, polledAt, crossed>>
  BY <1>1 DEF read
<1>4. PICK t \in Learnable \cup {0} : sent' = [amount |-> amount, polled |-> t]
  BY DEF Send
<1>5. /\ nodeTick \in 1..MaxTick /\ polledAt \in 0..MaxTick
      /\ contract.at \in Nat
  BY <1>1 DEF TypeOK
<1>6. t \in 0..MaxTick
  BY <1>4, <1>5 DEF Learnable
<1>7. sent'.amount = amount /\ sent'.polled = t
  BY <1>4
<1>8. TypeOK'
  <2>1. sent' \in [amount : Nat, polled : 0..MaxTick] \cup {NotSent}
    BY <1>4, <1>6
  <2> QED
    BY <1>1, <1>2, <1>3, <2>1 DEF TypeOK
<1>9. Kept' /\ Windows' /\ Route'
  BY <1>1, <1>2, <1>3 DEF IInv, Kept, Windows, Route
<1>10. Checked' /\ InWindow'
  BY <1>1 DEF Checked, InWindow, AfterBasic, AfterEvent, Past
<1>11. Checked /\ InWindow /\ AfterBasic /\ AfterEvent
  BY <1>1 DEF IInv, AfterBasic, AfterEvent, Past
<1>12. AnswersMatch'
  BY <1>3 DEF IInv, Goals, AnswersMatch
<1>13. Authorised' /\ ResultStands'
  BY <1>2, <1>11 DEF Checked, Authorised, ResultStands, Sends
<1>14. WindowOver'
  <2>1. SUFFICES ASSUME command = "finalize", t # 0 PROVE t + Offset >= contract.at + Window
    BY <1>2, <1>7 DEF WindowOver, Sends
  <2>2. polledAt \in 1..nodeTick /\ polledAt + Offset >= contract.at + Window
    BY <1>1, <1>11, <2>1 DEF InWindow
  <2>3. t \in Nat /\ t >= polledAt
    BY <1>4, <1>5, <2>1, <2>2 DEF Learnable
  <2> QED
    BY <1>5, <2>2, <2>3
<1>15. PaysWhatIsAsked' /\ Backed'
  <2>1. Past({"balance", "send"})
    BY <1>1 DEF Past
  <2> QED
    BY <1>2, <1>7, <1>11, <2>1 DEF Checked, PaysWhatIsAsked, Backed, Sends
<1> QED
  BY <1>8, <1>9, <1>10, <1>12, <1>13, <1>14, <1>15 DEF IInv, Goals

-----------------------------------------------------------------------------
(* The steps the commands are made of, with what the place a command goes   *)
(* on to asks of the check.                                                 *)
LEMMA BasicStep ==
  ASSUME IInv, ReadBasic, pc' \in {"event", "send", "ended"},
         pc' # "ended" /\ command \in OperatorCommands => IsOperator(basic'),
         pc' = "event" => BasicWasRead(basic') /\ command \in {"publish", "finalize", "dispute", "force"},
         pc' = "send" => command \in {"order", "vote", "discount", "clean"}
  PROVE  IInv'
<1>1. TypeOK /\ Leave /\ pc = "basic"
  BY DEF IInv, ReadBasic
<1>2. UNCHANGED <<contract, nodeTick, command, seen, asked, most, info, tick, polledAt, sent, crossed>>
  BY <1>1 DEF ReadBasic, Leave, world, history
<1>3. Checked'
  BY <1>2, BasicReadFacts DEF Checked, AfterBasic, AfterEvent, Past, OperatorCommands
<1>4. InWindow'
  BY <1>2 DEF InWindow
<1>5. pc' \in {"basic", "event"} => late' = <<>>
  BY BasicReadFacts
<1>6. info' \in EventInfos /\ tick' \in 0..MaxTick /\ polledAt' \in 0..MaxTick /\ crossed' = FALSE
  BY <1>1, <1>2 DEF TypeOK, IInv, Route
<1> QED
  BY <1>1, <1>2, <1>3, <1>4, <1>5, <1>6, BasicReadFacts, StepInv DEF Places

LEMMA EventReadStep ==
  ASSUME IInv, ReadEvent, pc' \in {"window", "position", "balance", "send", "ended"},
         pc' # "ended" =>
           /\ command \in {"finalize", "dispute", "claim", "force"} => HasResult(info')
           /\ command \in {"finalize", "dispute"} => ~UnderDispute(info')
           /\ command = "resolve" => IsNamed(info') /\ UnderDispute(info'),
         pc' = "balance" => command = "resolve",
         pc' = "send" => command \in {"publish", "force"}
  PROVE  IInv'
<1>1. TypeOK /\ Kept /\ Windows /\ Checked /\ Leave /\ pc = "event"
  BY DEF IInv, ReadEvent
<1>2. UNCHANGED <<contract, nodeTick, command, seen, asked, most, basic, tick, polledAt, sent>>
  BY <1>1 DEF ReadEvent, Leave, world, history
<1>3. ASSUME HasResult(info'), ~UnderDispute(info')
      PROVE  "calm" \in seen /\ (info'.at = contract.at \/ nodeTick >= contract.at + Window)
  <2>1. contract.disputer = "nobody" /\ contract.stage \in {"published", "final"}
    BY <1>3, EventReadFacts DEF UnderDispute, Decided
  <2>2. "calm" \in seen
    BY <1>1, <2>1 DEF Kept, Calm
  <2>3. contract.stage = "final" => nodeTick >= contract.at + Window
    BY <1>1, <2>1 DEF Windows
  <2> QED
    BY <1>3, <2>1, <2>2, <2>3, EventReadFacts
<1>4. Checked'
  BY <1>1, <1>2, <1>3, EventReadFacts
     DEF Checked, AfterBasic, AfterEvent, Past, Decided, OperatorCommands
<1>5. InWindow'
  BY <1>2, <1>3 DEF InWindow
<1>6. basic' \in Basics /\ tick' \in 0..MaxTick /\ polledAt' \in 0..MaxTick
  BY <1>1, <1>2 DEF TypeOK
<1> QED
  BY <1>1, <1>2, <1>4, <1>5, <1>6, EventReadFacts, StepInv DEF Places

LEMMA PollStep ==
  ASSUME IInv, PollTick,
         \/ command = "finalize" /\ Continue(WindowPassed(info, tick'), "send")
         \/ command = "dispute" /\ Continue(TRUE, "balance")
  PROVE  IInv'
<1> USE Constants
<1>1. TypeOK /\ Checked /\ InWindow /\ Leave /\ pc = "window"
  BY DEF IInv, PollTick
<1>2. UNCHANGED <<contract, nodeTick, command, seen, asked, most, basic, info, sent, crossed>>
  BY <1>1 DEF PollTick, Leave, world, history
<1>3. /\ tick' \in {0, nodeTick} /\ polledAt' = nodeTick /\ late' = <<>>
      /\ nodeTick \in 1..MaxTick /\ contract.at \in 1..nodeTick
  BY <1>1 DEF PollTick, TypeOK
<1>4. pc' \in {"send", "balance", "ended"} /\ (pc' = "send" => command = "finalize")
      /\ (pc' = "balance" => command = "dispute")
  BY DEF Continue
<1>5. Checked'
  BY <1>1, <1>2, <1>4 DEF Checked, AfterBasic, AfterEvent, Past, OperatorCommands
<1>6. ASSUME pc' = "send" PROVE nodeTick + Offset >= contract.at + Window
  <2>1. command = "finalize" /\ (info.at + Window) % Wrap <= tick' + Offset
    BY <1>6 DEF Continue, WindowPassed
  <2>2. CASE info.at = contract.at
    <3>1. contract.at + Window \in 0..(Wrap - 1)
      BY <1>3
    <3>2. (contract.at + Window) % Wrap = contract.at + Window
      BY <3>1
    <3> QED
      BY <1>3, <2>1, <2>2, <3>2
  <2>3. CASE nodeTick >= contract.at + Window
    BY <1>3, <2>3
  <2> QED
    BY <1>1, <2>1, <2>2, <2>3 DEF InWindow
<1>7. InWindow'
  BY <1>2, <1>3, <1>4, <1>6 DEF InWindow
<1>8. basic' \in Basics /\ info' \in EventInfos /\ crossed' = FALSE
  BY <1>1, <1>2 DEF TypeOK, IInv, Route
<1>9. tick' \in 0..MaxTick /\ polledAt' \in 0..MaxTick /\ late' \in Seq(Answers) /\ pc' \in Places
  BY <1>3, <1>4 DEF Places
<1> QED
  BY <1>1, <1>2, <1>4, <1>5, <1>7, <1>8, <1>9, StepInv

(* A look at the position or the balance, which no other variable remembers.*)
LEMMA LookStep ==
  ASSUME IInv, NEW at \in {"position", "balance"}, Look(at), pc' \in {"balance", "send", "ended"},
         pc' # "ended" => command \in {"dispute", "resolve", "claim"},
         pc' = "balance" => command = "claim" /\ "held" \in seen,
         pc' = "send" =>
           /\ pc = "balance"
           /\ command = "dispute" => basic.deposit <= most
           /\ command = "resolve" => ResolveReward <= most
           /\ command = "claim" => ClaimReward <= most
  PROVE  IInv'
<1>1. TypeOK /\ Checked /\ Leave /\ pc \in {"position", "balance"} /\ UNCHANGED <<read, sent>>
  BY DEF IInv, Look
<1>2. UNCHANGED <<contract, nodeTick, command, seen, asked, most>>
  BY <1>1 DEF Leave, world, history
<1>3. UNCHANGED <<late, basic, info, tick, polledAt, crossed>>
  BY <1>1 DEF read
<1>4. Checked'
  BY <1>1, <1>2, <1>3 DEF Checked, AfterBasic, AfterEvent, Past, OperatorCommands
<1>5. InWindow'
  BY <1>2 DEF InWindow
<1>6. /\ late' \in Seq(Answers) /\ basic' \in Basics /\ info' \in EventInfos
      /\ tick' \in 0..MaxTick /\ polledAt' \in 0..MaxTick /\ crossed' = FALSE
  BY <1>1, <1>3 DEF TypeOK, IInv, Route
<1> QED
  BY <1>1, <1>4, <1>5, <1>6, StepInv DEF Places

LEMMA BalanceStep ==
  ASSUME IInv, NEW amount \in Nat, ReadBalance, Continue(Affords(amount), "send"),
         command \in {"dispute", "resolve", "claim"},
         command = "dispute" => amount = basic.deposit,
         command = "resolve" => amount = ResolveReward,
         command = "claim" => amount = ClaimReward
  PROVE  IInv'
<1>1. pc = "balance" /\ Look("balance") /\ pc' \in {"send", "ended"}
  BY DEF ReadBalance, Look, Continue
<1>2. pc' = "send" => amount <= most
  <2>1. funds \in Nat /\ most \in Nat /\ funds <= most
    BY Constants DEF IInv, TypeOK, Kept
  <2> QED
    BY <2>1 DEF Continue, Affords
<1> QED
  BY <1>1, <1>2, LookStep

-----------------------------------------------------------------------------
(* The commands.                                                            *)
LEMMA Amounts ==
  ASSUME IInv
  PROVE  /\ basic.antiSpam \in Nat /\ basic.deposit \in Nat
         /\ 0 \in Nat /\ ResolveReward \in Nat /\ ClaimReward \in Nat
  BY Constants DEF IInv, TypeOK, Basics

LEMMA UncheckedInv == ASSUME IInv, Order \/ ProposalVote PROVE IInv'
<1>1. command \in {"order", "vote"} /\ command \notin OperatorCommands
  BY DEF Order, ProposalVote, OperatorCommands
<1>2. CASE ReadBasic /\ Continue(TRUE, "send")
  BY <1>1, <1>2, BasicStep DEF Continue
<1>3. CASE Send(basic.antiSpam)
  BY <1>1, <1>3, SendInv, Amounts
<1> QED
  BY <1>2, <1>3 DEF Order, ProposalVote

LEMMA OperatorInv == ASSUME IInv, UpdateFeeDiscountList \/ CleanMemory PROVE IInv'
<1>1. command \in {"discount", "clean"}
  BY DEF UpdateFeeDiscountList, CleanMemory
<1>2. CASE ReadBasic /\ pc' \in {"send", "ended"} /\ (pc' = "send" => IsOperator(basic'))
  BY <1>1, <1>2, BasicStep
<1>3. CASE Send(0)
  BY <1>1, <1>3, SendInv, Amounts
<1> QED
  BY <1>2, <1>3 DEF UpdateFeeDiscountList, CleanMemory, Continue

LEMMA PublishInv == ASSUME IInv, PublishResult PROVE IInv'
<1>1. command = "publish"
  BY DEF PublishResult
<1>2. CASE ReadBasic /\ Continue(BasicWasRead(basic') /\ IsOperator(basic'), "event")
  BY <1>1, <1>2, BasicStep DEF Continue
<1>3. CASE ReadEvent /\ pc' \in {"send", "ended"}
  BY <1>1, <1>3, EventReadStep
<1>4. CASE Send(basic.deposit)
  <2>1. basic.deposit \in asked
    BY <1>1, <1>4 DEF IInv, Checked, AfterBasic, Past, Send
  <2> QED
    BY <1>1, <1>4, <2>1, SendInv, Amounts
<1> QED
  BY <1>2, <1>3, <1>4 DEF PublishResult, Continue

LEMMA FinalizeInv == ASSUME IInv, TryFinalizeEvent PROVE IInv'
<1>1. command = "finalize"
  BY DEF TryFinalizeEvent
<1>2. CASE ReadBasic /\ Continue(BasicWasRead(basic') /\ IsOperator(basic'), "event")
  BY <1>1, <1>2, BasicStep DEF Continue
<1>3. CASE ReadEvent /\ Continue(HasResult(info') /\ ~UnderDispute(info'), "window")
  BY <1>1, <1>3, EventReadStep DEF Continue
<1>4. CASE PollTick /\ Continue(WindowPassed(info, tick'), "send")
  BY <1>1, <1>4, PollStep
<1>5. CASE Send(0)
  BY <1>1, <1>5, SendInv, Amounts
<1> QED
  BY <1>2, <1>3, <1>4, <1>5 DEF TryFinalizeEvent

LEMMA DisputeInv == ASSUME IInv, Dispute PROVE IInv'
<1>1. command = "dispute" /\ command \notin OperatorCommands
  BY DEF Dispute, OperatorCommands
<1>2. CASE ReadBasic /\ Continue(BasicWasRead(basic'), "event")
  BY <1>1, <1>2, BasicStep DEF Continue
<1>3. CASE ReadEvent /\ Continue(HasResult(info') /\ info'.at # Finalized /\ ~UnderDispute(info'), "window")
  BY <1>1, <1>3, EventReadStep DEF Continue
<1>4. CASE PollTick /\ Continue(TRUE, "balance")
  BY <1>1, <1>4, PollStep
<1>5. CASE ReadBalance /\ Continue(Affords(basic.deposit), "send")
  BY <1>1, <1>5, BalanceStep, Amounts
<1>6. CASE Send(basic.deposit)
  <2>1. basic.deposit \in asked /\ basic.deposit <= most
    BY <1>1, <1>6 DEF IInv, Checked, AfterBasic, Past, Send
  <2> QED
    BY <1>1, <1>6, <2>1, SendInv, Amounts
<1> QED
  BY <1>2, <1>3, <1>4, <1>5, <1>6 DEF Dispute

LEMMA ResolveInv == ASSUME IInv, ResolveDispute PROVE IInv'
<1>1. command = "resolve"
  BY DEF ResolveDispute
<1>2. CASE ReadEvent /\ Continue(IsNamed(info') /\ UnderDispute(info'), "balance")
  BY <1>1, <1>2, EventReadStep DEF Continue
<1>3. CASE ReadBalance /\ Continue(Affords(ResolveReward), "send")
  BY <1>1, <1>3, BalanceStep, Amounts
<1>4. CASE Send(ResolveReward)
  <2>1. ResolveReward <= most
    BY <1>1, <1>4 DEF IInv, Checked, Send
  <2> QED
    BY <1>1, <1>4, <2>1, SendInv, Amounts
<1> QED
  BY <1>2, <1>3, <1>4 DEF ResolveDispute

LEMMA ClaimInv == ASSUME IInv, UserClaimReward PROVE IInv'
<1>1. command = "claim"
  BY DEF UserClaimReward
<1>2. CASE ReadEvent /\ Continue(HasResult(info'), "position")
  BY <1>1, <1>2, EventReadStep DEF Continue
<1>3. ASSUME NEW found \in BOOLEAN, ReadPosition(found), Continue(found, "balance") PROVE IInv'
  <2>1. holds => "held" \in seen
    BY DEF IInv, Kept
  <2>2. found => holds
    BY <1>3 DEF ReadPosition
  <2>3. Look("position") /\ pc' \in {"balance", "ended"} /\ (pc' = "balance" => found)
    BY <1>3 DEF ReadPosition, Continue
  <2> QED
    BY <1>1, <2>1, <2>2, <2>3, LookStep
<1>4. CASE ReadBalance /\ Continue(Affords(ClaimReward), "send")
  BY <1>1, <1>4, BalanceStep, Amounts
<1>5. CASE Send(ClaimReward)
  <2>1. ClaimReward <= most
    BY <1>1, <1>5 DEF IInv, Checked, Send
  <2> QED
    BY <1>1, <1>5, <2>1, SendInv, Amounts
<1> QED
  BY <1>2, <1>3, <1>4, <1>5 DEF UserClaimReward

LEMMA ForceInv == ASSUME IInv, GOForceClaimReward PROVE IInv'
<1>1. command = "force"
  BY DEF GOForceClaimReward
<1>2. CASE ReadBasic /\ Continue(BasicWasRead(basic') /\ IsOperator(basic'), "event")
  BY <1>1, <1>2, BasicStep DEF Continue
<1>3. CASE ReadEvent /\ Continue(HasResult(info'), "send")
  BY <1>1, <1>3, EventReadStep DEF Continue
<1>4. CASE Send(0)
  BY <1>1, <1>4, SendInv, Amounts
<1> QED
  BY <1>2, <1>3, <1>4 DEF GOForceClaimReward

LEMMA AbortInv == ASSUME IInv, Abort PROVE IInv'
<1>1. TypeOK /\ Leave /\ pc # "ended" /\ pc' = "ended" /\ UNCHANGED <<read, sent>>
  BY DEF IInv, Abort
<1>2. UNCHANGED <<late, basic, info, tick, polledAt, crossed>>
  BY <1>1 DEF read
<1>3. Checked' /\ InWindow'
  BY <1>1 DEF Checked, InWindow, AfterBasic, AfterEvent, Past
<1>4. /\ late' \in Seq(Answers) /\ basic' \in Basics /\ info' \in EventInfos
      /\ tick' \in 0..MaxTick /\ polledAt' \in 0..MaxTick /\ crossed' = FALSE
  BY <1>1, <1>2 DEF TypeOK, IInv, Route
<1> QED
  BY <1>1, <1>3, <1>4, StepInv DEF Places

(* A step that changes nothing, as the last one of an ended command.        *)
LEMMA StutterInv == ASSUME IInv, UNCHANGED vars PROVE IInv'
<1>1. UNCHANGED <<contract, ended, holds, funds, changes, nodeTick, command, eventId, pc, sent>>
  BY DEF vars, world
<1>2. UNCHANGED <<late, basic, info, tick, polledAt, crossed, seen, asked, most>>
  BY DEF vars, read, history
<1>3. TypeOK' /\ Kept' /\ Windows' /\ Route'
  BY <1>1, <1>2 DEF IInv, TypeOK, Kept, Windows, Route
<1>4. Checked' /\ InWindow'
  BY <1>1, <1>2 DEF IInv, Checked, InWindow, AfterBasic, AfterEvent, Past
<1>5. Goals'
  BY <1>1, <1>2 DEF IInv, Goals, AnswersMatch, Authorised, ResultStands, WindowOver,
                    PaysWhatIsAsked, Backed, Sends
<1> QED
  BY <1>3, <1>4, <1>5 DEF IInv

LEMMA NextInv == IInv /\ [Next]_vars => IInv'
<1> SUFFICES ASSUME IInv, [Next]_vars PROVE IInv'
  OBVIOUS
<1>1. CASE World
  BY <1>1, WorldInv
<1>2. CASE Client
  BY <1>2, UncheckedInv, OperatorInv, PublishInv, FinalizeInv, DisputeInv, ResolveInv, ClaimInv,
     ForceInv, AbortInv DEF Client
<1>3. CASE Terminated \/ UNCHANGED vars
  BY <1>3, StutterInv DEF Terminated
<1> QED
  BY <1>1, <1>2, <1>3 DEF Next

-----------------------------------------------------------------------------
(* The invariant of the sessions: what each place of a command has          *)
(* established, whatever the contract and the network do in between.        *)
THEOREM SessionInductive == Spec => []IInv
  BY InitInv, NextInv, PTL DEF Spec

(* The variables of a session keep their types.                             *)
THEOREM SessionTypeCorrect == Spec => []TypeOK
<1>1. IInv => TypeOK
  BY DEF IInv
<1> QED
  BY <1>1, SessionInductive, PTL

(* quotteryGetBasicInfo, _quotteryGetEventInfo: no answer that came too     *)
(* late for one read of the contract is taken for another read's.           *)
THEOREM AnswersNeverCross == Spec => []AnswersMatch
<1>1. IInv => AnswersMatch
  BY DEF IInv, Goals
<1> QED
  BY <1>1, SessionInductive, PTL

(* qtryPublishResult, qtryTryFinalizeEvent, qtryGOForceClaimReward,         *)
(* qtryCleanMemory, qtryUpdateFeeDiscountList: who sends one was the game   *)
(* operator at some time of the command.                                    *)
THEOREM OperatorAuthorised == Spec => []Authorised
<1>1. IInv => Authorised
  BY DEF IInv, Goals
<1> QED
  BY <1>1, SessionInductive, PTL

(* qtryTryFinalizeEvent, qtryDispute, qtryResolveDispute and the claims     *)
(* are sent for events with the result or the dispute they speak of.        *)
THEOREM ResultsStand == Spec => []ResultStands
<1>1. IInv => ResultStands
  BY DEF IInv, Goals
<1> QED
  BY <1>1, SessionInductive, PTL

(* qtryTryFinalizeEvent sends for a tick past the dispute window, though    *)
(* the tick is polled again and publishTickTime + 1000 can wrap around.     *)
THEOREM FinalizesAfterWindow == Spec => []WindowOver
<1>1. IInv => WindowOver
  BY DEF IInv, Goals
<1> QED
  BY <1>1, SessionInductive, PTL

(* qtryPublishResult, qtryDispute: the deposit is one the contract asked    *)
(* for while the command ran.                                               *)
THEOREM DepositsAreAsked == Spec => []PaysWhatIsAsked
<1>1. IInv => PaysWhatIsAsked
  BY DEF IInv, Goals
<1> QED
  BY <1>1, SessionInductive, PTL

(* qtryDispute, qtryResolveDispute, qtryUserClaimReward: what is sent the   *)
(* caller had, and who claims had a position.                               *)
THEOREM SpendingBacked == Spec => []Backed
<1>1. IInv => Backed
  BY DEF IInv, Goals
<1> QED
  BY <1>1, SessionInductive, PTL
=============================================================================
