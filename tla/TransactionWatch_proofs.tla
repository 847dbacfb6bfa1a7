----------------------- MODULE TransactionWatch_proofs -----------------------
(***************************************************************************)
(* Machine-checked proofs about TransactionWatch, for every value of its   *)
(* constants: the inductive invariant IInv and what follows from it.       *)
(***************************************************************************)
EXTENDS TransactionWatch, TLAPS

IsTick(p) == p.type = "tick"

(* The answers on the stream are in the order of the node's ticks, none is  *)
(* lower than the last one read, and the node has reached them all.         *)
InOrder ==
  /\ seen <= nodeTick
  /\ \A i \in 1..Len(down) :
       IsTick(down[i]) => seen <= down[i].tick /\ down[i].tick <= nodeTick
  /\ \A i, j \in 1..Len(down) :
       i < j /\ IsTick(down[i]) /\ IsTick(down[j]) => down[i].tick <= down[j].tick

(* What a poll returns is the last tick read; the phases after the wait     *)
(* have read one past the scheduled tick.                                   *)
Acted ==
  ~misread =>
    /\ pc = "check" /\ tick # 0 => tick = seen
    /\ phase \in {"verify", "refused", "looked"} => seen > txTick
    /\ phase = "refused" => tick = 0

(* A misaligned stream is only ever read by the first attempt of a poll.    *)
Aligned ==
  /\ ~synced => up = <<>> /\ down = <<>>
  /\ ~synced /\ pc \in {"send", "recv"} => retries = 0

(* Until a poll gives up, a socket carries at most the request or the       *)
(* answer of the poll going on, and nothing between two attempts.           *)
NoRequest == \A i \in 1..Len(up) : up[i] # "tick"
NoAnswer == \A i \in 1..Len(down) : ~IsTick(down[i])
OneRequest == \A i, j \in 1..Len(up) : up[i] = "tick" /\ up[j] = "tick" => i = j
OneAnswer == \A i, j \in 1..Len(down) : IsTick(down[i]) /\ IsTick(down[j]) => i = j

Quiet == NoRequest /\ NoAnswer

(* While one is awaited: a single request or a single answer, a current one.*)
Asked ==
  /\ OneRequest /\ OneAnswer /\ (NoRequest \/ NoAnswer)
  /\ \A i \in 1..Len(down) : IsTick(down[i]) => down[i].tick >= pollStart

OwnAnswers ==
  /\ pollStart <= nodeTick
  /\ ~gaveUp /\ phase \in Running =>
       /\ pc \in {"peers", "computors", "broadcast", "send"} => Quiet
       /\ pc = "recv" => Asked
       /\ pc = "check" /\ tick # 0 => Quiet /\ (synced => tick >= pollStart)

Ends == phase \in Ended <=> pc = "end"

(* Only the second connection broadcasts.                                   *)
Sends == pc = "broadcast" => phase = "wait"

IInv == TypeOK /\ InOrder /\ Acted /\ Aligned /\ OwnAnswers /\ Ends /\ Sends

-----------------------------------------------------------------------------
(* What the stream's operations do to a sequence, element by element.       *)
LEMMA TailElements ==
  ASSUME NEW S, NEW s \in Seq(S), s # <<>>
  PROVE  /\ Tail(s) \in Seq(S) /\ Head(s) \in S /\ Head(s) = s[1]
         /\ Len(s) \in Nat /\ Len(s) >= 1 /\ Len(Tail(s)) = Len(s) - 1
         /\ \A i \in 1..Len(Tail(s)) : i + 1 \in 1..Len(s) /\ Tail(s)[i] = s[i + 1]
  OBVIOUS

LEMMA AppendElements ==
  ASSUME NEW S, NEW s \in Seq(S), NEW e \in S
  PROVE  /\ Append(s, e) \in Seq(S) /\ Len(s) \in Nat
         /\ Len(Append(s, e)) = Len(s) + 1
         /\ Append(s, e)[Len(s) + 1] = e
         /\ \A i \in 1..Len(s) : Append(s, e)[i] = s[i]
  OBVIOUS

(* A new socket holds the node's greeting: no request and no answer.        *)
LEMMA GreetingElements ==
  ASSUME NEW stream \in Greetings
  PROVE  /\ stream \in Seq(Packets)
         /\ \A i \in 1..Len(stream) : ~IsTick(stream[i])
  <1>1. CASE stream = <<Peers>>
    BY <1>1 DEF Peers, Packet, Packets, PacketTypes, IsTick
  <1>2. CASE stream = <<Peers, Packet("computors", 0)>>
    BY <1>2 DEF Peers, Packet, Packets, PacketTypes, IsTick
  <1> QED BY <1>1, <1>2 DEF Greetings

-----------------------------------------------------------------------------
(* What a step of the client may do to the connection ...                   *)
Moves ==
  /\ nodeTick' = nodeTick
  /\ \/ Open
     \/ \E r \in {"tick", "tx"} : Deliver(r)
     \/ Take /\ down # <<>>
     \/ CutShort
     \/ UNCHANGED connection

(* ... and nothing else: only GetTick changes what was last seen.           *)
LEMMA ClientMoves ==
  ASSUME Client
  PROVE  Moves /\ (seen' = seen \/ (pc = "recv" /\ GetTick))
  <1> USE DEF Moves, client, history
  <1>1. CASE ReceivePeers
    BY <1>1 DEF ReceivePeers, Matches, Skips, TimesOut, EndReceived, Abort
  <1>2. CASE ReceiveComputors
    BY <1>2 DEF ReceiveComputors, Matches, Skips, TimesOut, EndReceived, Abort
  <1>3. CASE Broadcast
    BY <1>3 DEF Broadcast, Lose
  <1>4. CASE SendRequest
    BY <1>4 DEF SendRequest, Lose
  <1>5. CASE ReceiveTick
    BY <1>5
    DEF ReceiveTick, GetTick, GetNothing, GetNoise, Matches, Skips, TimesOut, EndReceived
  <1>6. CASE Retry
    BY <1>6 DEF Retry, Abort
  <1>7. CASE Schedule \/ WaitOver
    BY <1>7 DEF Schedule, WaitOver, MakeQc
  <1>8. CASE PollAgain \/ CheckTxOnTick
    BY <1>8 DEF PollAgain, CheckTxOnTick
  <1> QED BY <1>1, <1>2, <1>3, <1>4, <1>5, <1>6, <1>7, <1>8 DEF Client

(* The operations of the connection keep its types.                         *)
LEMMA ConnectionTypes ==
  ASSUME ConnectionTypeOK, Moves
  PROVE  ConnectionTypeOK'
  <1> USE DEF Moves
  <1>1. CASE Open
    BY <1>1, GreetingElements DEF Open, Fresh, ConnectionTypeOK
  <1>2. CASE \E r \in {"tick", "tx"} : Deliver(r)
    <2>1. PICK r \in {"tick", "tx"} : Deliver(r)
      BY <1>2
    <2> QED BY <2>1, AppendElements DEF Deliver, ConnectionTypeOK
  <1>3. CASE Take /\ down # <<>>
    BY <1>3, TailElements DEF Take, ConnectionTypeOK
  <1>4. CASE CutShort
    <2>1. up' \in Seq({"tick", "tx"})
      BY <1>4 DEF CutShort
    <2>4. synced' \in BOOLEAN
      BY <1>4 DEF CutShort
    <2>2. down' \in Seq(Packets)
      BY <1>4 DEF CutShort
    <2>3. nodeTick' \in Nat /\ pushed' \in Nat
      BY <1>4 DEF CutShort, ConnectionTypeOK
    <2> QED BY <2>1, <2>2, <2>3, <2>4 DEF ConnectionTypeOK
  <1>5. CASE UNCHANGED connection
    BY <1>5 DEF connection, ConnectionTypeOK
  <1> QED BY <1>1, <1>2, <1>3, <1>4, <1>5

(* ... and so do the node's.                                                *)
LEMMA NodeTypes ==
  ASSUME ConnectionTypeOK, NodeServe \/ NodePush \/ NodeAdvance
  PROVE  ConnectionTypeOK'
  <1>1. CASE NodeServe
    <2>1. up' \in Seq({"tick", "tx"})
      BY <1>1, TailElements DEF NodeServe, ConnectionTypeOK
    <2>2. Packet("tick", nodeTick) \in Packets
      BY DEF Packet, Packets, PacketTypes, ConnectionTypeOK
    <2>3. down' \in Seq(Packets)
      BY <1>1, <2>2, AppendElements DEF NodeServe, ConnectionTypeOK
    <2> QED BY <1>1, <2>1, <2>3 DEF NodeServe, ConnectionTypeOK
  <1>2. CASE NodePush
    <2>1. PICK type \in {"other", "end"} : down' = Append(down, Packet(type, 0))
      BY <1>2 DEF NodePush
    <2>2. Packet(type, 0) \in Packets
      BY DEF Packet, Packets, PacketTypes
    <2>3. down' \in Seq(Packets)
      BY <2>1, <2>2, AppendElements DEF ConnectionTypeOK
    <2> QED BY <1>2, <2>3 DEF NodePush, ConnectionTypeOK
  <1>3. CASE NodeAdvance
    BY <1>3 DEF NodeAdvance, connection, ConnectionTypeOK
  <1> QED BY <1>1, <1>2, <1>3

(* The first packet of the stream is a packet, so an answer is a number.    *)
LEMMA ArrivedType ==
  ASSUME ConnectionTypeOK, down # <<>>
  PROVE  Arrived \in Packets /\ Arrived.tick \in Nat
  <1>1. Arrived \in Packets
    BY TailElements DEF Arrived, ConnectionTypeOK
  <1> QED BY <1>1 DEF Packets

(* The state keeps the type TypeOK gives it.                                *)
LEMMA TypeInit == Init => TypeOK
  <1> SUFFICES ASSUME Init PROVE TypeOK
    OBVIOUS
  <1>1. down \in Seq(Packets)
    BY GreetingElements DEF Init
  <1>2. ConnectionTypeOK
    BY <1>1, ConnectionAssumption DEF Init, ConnectionTypeOK
  <1>3. retries \in 0..Retries /\ tick \in Nat /\ txTick \in Nat
    BY WatchAssumption DEF Init
  <1>4. seen \in Nat /\ pollStart \in Nat
    BY ConnectionAssumption DEF Init
  <1>7. gaveUp \in BOOLEAN /\ misread \in BOOLEAN
    BY DEF Init
  <1>5. pc \in {"peers", "computors", "broadcast", "send", "recv", "check", "end"}
    BY DEF Init
  <1>6. phase \in Running
    BY DEF Init, Running
  <1> QED BY <1>2, <1>3, <1>4, <1>5, <1>6, <1>7 DEF TypeOK

LEMMA TypeStep == TypeOK /\ [Next]_vars => TypeOK'
  <1> SUFFICES ASSUME TypeOK, [Next]_vars PROVE TypeOK'
    OBVIOUS
  <1>0. ASSUME Client PROVE ConnectionTypeOK'
    BY <1>0, ClientMoves, ConnectionTypes DEF TypeOK
  <1> USE ConnectionAssumption, WatchAssumption
      DEF Running, Ended, client, history, TypeOK
  <1>1. CASE ReceivePeers
    BY <1>1, <1>0 DEF Client, ReceivePeers, Abort
  <1>2. CASE ReceiveComputors
    <2>1. ConnectionTypeOK'
      BY <1>2, <1>0 DEF Client
    <2>2. CASE StartPoll
      BY <1>2, <2>1, <2>2 DEF ReceiveComputors, StartPoll, Abort, ConnectionTypeOK
    <2>3. CASE ~StartPoll
      BY <1>2, <2>1, <2>3 DEF ReceiveComputors, Abort
    <2> QED BY <2>2, <2>3
  <1>3. CASE Broadcast
    BY <1>3, <1>0 DEF Client, Broadcast, StartPoll, ConnectionTypeOK
  <1>4. CASE SendRequest
    BY <1>4, <1>0 DEF Client, SendRequest
  <1>5. CASE ReceiveTick
    <2>1. ConnectionTypeOK'
      BY <1>5, <1>0 DEF Client
    <2>2. CASE GetTick
      BY <2>1, <2>2, ArrivedType DEF GetTick, Matches
    <2>3. CASE GetNothing
      BY <2>1, <2>3 DEF GetNothing
    <2>4. CASE GetNoise
      BY <2>1, <2>4 DEF GetNoise
    <2>5. CASE Skips("tick") /\ UNCHANGED <<nodeTick, client, history>>
      BY <2>1, <2>5
    <2> QED BY <1>5, <2>2, <2>3, <2>4, <2>5 DEF ReceiveTick
  <1>6. CASE Retry
    <2>1. ConnectionTypeOK'
      BY <1>6, <1>0 DEF Client
    <2>2. CASE Open
      <3>1. retries' \in 0..Retries
        BY <1>6, <2>2 DEF Retry, PollGoesOn, Abort
      <3> QED BY <1>6, <2>1, <3>1 DEF Retry, Abort
    <2>3. CASE Abort
      BY <1>6, <2>1, <2>3 DEF Retry, Abort
    <2> QED BY <1>6, <2>2, <2>3 DEF Retry
  <1>7. CASE Schedule
    <2>1. txTick' \in Nat
      BY <1>7 DEF Schedule
    <2> QED BY <1>7, <1>0, <2>1 DEF Client, Schedule, MakeQc
  <1>8. CASE PollAgain
    BY <1>8, <1>0 DEF Client, PollAgain, StartPoll, ConnectionTypeOK
  <1>9. CASE WaitOver
    BY <1>9, <1>0 DEF Client, WaitOver, MakeQc
  <1>10. CASE CheckTxOnTick
    BY <1>10, <1>0 DEF Client, CheckTxOnTick
  <1>11. CASE Node
    BY <1>11, NodeTypes DEF Node
  <1>12. CASE UNCHANGED vars
    BY <1>12 DEF vars, connection, ConnectionTypeOK
  <1> QED
    BY <1>1, <1>2, <1>3, <1>4, <1>5, <1>6, <1>7, <1>8, <1>9, <1>10, <1>11, <1>12
    DEF Next, Client, Terminated

(* Every state of the program has the types of TypeOK.                      *)
THEOREM TypeCorrect == Spec => []TypeOK
  BY TypeInit, TypeStep, PTL DEF Spec

-----------------------------------------------------------------------------
(* The stream stays in the order of the node's ticks.                       *)
LEMMA OrderInit == Init => InOrder
  <1> SUFFICES ASSUME Init PROVE InOrder
    OBVIOUS
  <1>1. \A i \in 1..Len(down) : ~IsTick(down[i])
    BY GreetingElements DEF Init
  <1>2. seen <= nodeTick
    BY ConnectionAssumption DEF Init
  <1> QED BY <1>1, <1>2 DEF InOrder

LEMMA OrderMoves ==
  ASSUME TypeOK, InOrder, Moves, seen' = seen
  PROVE  InOrder'
  <1> USE DEF Moves, TypeOK, ConnectionTypeOK
  <1>1. CASE Open
    BY <1>1, GreetingElements DEF Open, Fresh, InOrder
  <1>2. CASE \E r \in {"tick", "tx"} : Deliver(r)
    BY <1>2 DEF Deliver, InOrder
  <1>3. CASE Take /\ down # <<>>
    BY <1>3, TailElements DEF Take, InOrder
  <1>4. CASE CutShort
    BY <1>4 DEF CutShort, InOrder
  <1>5. CASE UNCHANGED connection
    BY <1>5 DEF connection, InOrder
  <1> QED BY <1>1, <1>2, <1>3, <1>4, <1>5

(* The answer taken is the lowest of the stream, and not below the last one. *)
LEMMA OrderGetTick ==
  ASSUME TypeOK, InOrder, GetTick
  PROVE  InOrder' /\ seen <= seen' /\ seen' = tick'
  <1> USE DEF TypeOK, ConnectionTypeOK
  <1>1. /\ down # <<>> /\ down' = Tail(down) /\ IsTick(down[1])
        /\ seen' = down[1].tick /\ nodeTick' = nodeTick /\ tick' = seen'
    BY TailElements DEF GetTick, Matches, Take, Arrived, IsTick
  <1>2. 1 \in 1..Len(down) /\ seen <= seen' /\ seen' <= nodeTick'
    BY <1>1, TailElements DEF InOrder
  <1>3. \A i \in 1..Len(down') :
          /\ i + 1 \in 1..Len(down) /\ 1 < i + 1
          /\ down'[i] = down[i + 1]
    BY <1>1, TailElements
  <1>4. \A i \in 1..Len(down') :
          IsTick(down'[i]) => seen' <= down'[i].tick /\ down'[i].tick <= nodeTick'
    BY <1>1, <1>2, <1>3 DEF InOrder
  <1>5. \A i, j \in 1..Len(down') :
          i < j /\ IsTick(down'[i]) /\ IsTick(down'[j]) => down'[i].tick <= down'[j].tick
    BY SMTT(30), <1>1, <1>3, TailElements DEF InOrder
  <1> QED BY <1>1, <1>2, <1>4, <1>5 DEF InOrder

LEMMA OrderNode ==
  ASSUME TypeOK, InOrder, Node
  PROVE  InOrder'
  <1> USE DEF TypeOK, ConnectionTypeOK
  <1>0. seen' = seen
    BY DEF Node, history
  <1>1. CASE NodeServe
    <2>1. CASE Head(up) = "tick"
      <3>1. Packet("tick", nodeTick) \in Packets /\ Packet("tick", nodeTick).tick = nodeTick
        BY DEF Packet, Packets, PacketTypes
      <3>2. down' = Append(down, Packet("tick", nodeTick)) /\ nodeTick' = nodeTick
        BY <1>1, <2>1 DEF NodeServe
      <3>3. /\ Len(down) \in Nat /\ Len(down') = Len(down) + 1
            /\ down'[Len(down) + 1].tick = nodeTick'
            /\ \A i \in 1..Len(down) : down'[i] = down[i]
        BY <3>1, <3>2, AppendElements
      <3>4. \A i \in 1..Len(down') : i \in 1..Len(down) \/ i = Len(down) + 1
        BY <3>3
      <3>5. \A i \in 1..Len(down') :
              IsTick(down'[i]) => seen <= down'[i].tick /\ down'[i].tick <= nodeTick'
        BY <3>2, <3>3, <3>4 DEF InOrder
      <3>6. \A i, j \in 1..Len(down') :
              i < j /\ IsTick(down'[i]) /\ IsTick(down'[j]) => down'[i].tick <= down'[j].tick
        <4> TAKE i, j \in 1..Len(down')
        <4>1. CASE j = Len(down) + 1
          BY <4>1, <3>2, <3>3, <3>5
        <4>2. CASE i < j /\ j \in 1..Len(down)
          BY <4>2, <3>3, <3>4 DEF InOrder
        <4> QED BY <4>1, <4>2, <3>4
      <3> QED BY <1>0, <3>2, <3>5, <3>6 DEF InOrder
    <2>2. CASE Head(up) # "tick"
      BY <1>0, <1>1, <2>2 DEF NodeServe, InOrder
    <2> QED BY <2>1, <2>2
  <1>2. CASE NodePush
    <2>1. PICK type \in {"other", "end"} : down' = Append(down, Packet(type, 0))
      BY <1>2 DEF NodePush
    <2>2. Packet(type, 0) \in Packets /\ ~IsTick(Packet(type, 0)) /\ nodeTick' = nodeTick
      BY <1>2 DEF Packet, Packets, PacketTypes, IsTick, NodePush
    <2> QED BY <1>0, <2>1, <2>2, AppendElements DEF InOrder
  <1>3. CASE NodeAdvance
    <2>1. nodeTick' = nodeTick + 1 /\ down' = down
      BY <1>3 DEF NodeAdvance, connection
    <2>2. \A p \in Packets : p.tick \in Nat
      BY DEF Packets
    <2>3. \A i \in 1..Len(down) : down[i].tick \in Nat
      BY <2>2
    <2> QED BY <1>0, <2>1, <2>3 DEF InOrder
  <1> QED BY <1>1, <1>2, <1>3 DEF Node

LEMMA OrderStep == TypeOK /\ InOrder /\ [Next]_vars => InOrder'
  <1> SUFFICES ASSUME TypeOK, InOrder, [Next]_vars PROVE InOrder'
    OBVIOUS
  <1>1. CASE Client
    BY <1>1, ClientMoves, OrderMoves, OrderGetTick
  <1>2. CASE Node
    BY <1>2, OrderNode
  <1>3. CASE UNCHANGED vars
    BY <1>3 DEF vars, connection, history, InOrder
  <1> QED BY <1>1, <1>2, <1>3 DEF Next, Terminated

-----------------------------------------------------------------------------
(* The command has ended exactly when its program counter says so.          *)
LEMMA EndsStep ==
  ASSUME TypeOK, Ends, [Next]_vars
  PROVE  Ends'
  <1> USE DEF Ends, client, history, Abort, Running, Ended
  <1>1. CASE ReceivePeers \/ ReceiveComputors \/ Broadcast
    BY <1>1 DEF ReceivePeers, ReceiveComputors, Broadcast, StartPoll
  <1>2. CASE SendRequest \/ ReceiveTick
    BY <1>2 DEF SendRequest, ReceiveTick, GetTick, GetNothing, GetNoise
  <1>3. CASE Retry \/ PollAgain
    BY <1>3 DEF Retry, PollAgain, PollReturns, StartPoll
  <1>4. CASE Schedule \/ WaitOver
    BY <1>4 DEF Schedule, WaitOver, MakeQc
  <1>5. CASE CheckTxOnTick
    BY <1>5 DEF CheckTxOnTick
  <1>6. CASE Node \/ UNCHANGED vars
    BY <1>6 DEF Node, vars
  <1> QED BY <1>1, <1>2, <1>3, <1>4, <1>5, <1>6 DEF Next, Client, Terminated

LEMMA SendsStep ==
  ASSUME Sends, [Next]_vars
  PROVE  Sends'
  BY DEF Sends, Next, Client, ReceivePeers, ReceiveComputors, Broadcast, SendRequest,
         ReceiveTick, GetTick, GetNothing, GetNoise, Retry, Schedule, PollAgain,
         WaitOver, CheckTxOnTick, MakeQc, Abort, StartPoll, Node, Terminated, vars, client

(* What the client acts on is what it read.                                 *)
LEMMA ActedStep ==
  ASSUME TypeOK, InOrder, Ends, Acted, [Next]_vars
  PROVE  Acted'
  <1>0. tick \in Nat /\ txTick \in Nat /\ seen \in Nat
    BY DEF TypeOK
  <1> USE DEF Acted, client, history, Abort, Running, Ended
  <1>1. CASE ReceivePeers
    BY <1>1 DEF ReceivePeers
  <1>2. CASE ReceiveComputors
    BY <1>2 DEF ReceiveComputors, StartPoll
  <1>3. CASE Broadcast
    BY <1>3 DEF Broadcast, StartPoll
  <1>4. CASE SendRequest
    BY <1>4 DEF SendRequest
  <1>5. CASE ReceiveTick
    <2>1. CASE GetTick
      <3>1. seen <= seen' /\ seen' = tick' /\ seen' \in Nat
        BY <2>1, OrderGetTick, TypeStep DEF TypeOK
      <3>2. phase # "refused"
        BY <1>5 DEF ReceiveTick, Ends
      <3> QED BY <1>0, <1>5, <2>1, <3>1, <3>2 DEF GetTick, ReceiveTick
    <2>2. CASE GetNothing
      BY <1>5, <2>2 DEF GetNothing, ReceiveTick
    <2>3. CASE GetNoise
      BY <1>5, <2>3 DEF GetNoise, ReceiveTick
    <2>4. CASE UNCHANGED <<nodeTick, client, history>>
      BY <2>4
    <2> QED BY <1>5, <2>1, <2>2, <2>3, <2>4 DEF ReceiveTick
  <1>6. CASE Retry
    BY <1>6 DEF Retry
  <1>7. CASE Schedule
    BY <1>7 DEF Schedule, MakeQc
  <1>8. CASE PollAgain
    BY <1>8 DEF PollAgain, StartPoll
  <1>9. CASE WaitOver
    <2>1. pc = "check" /\ tick > txTick /\ tick # 0
      BY <1>0, <1>9 DEF WaitOver, PollReturns, StillWaiting
    <2>2. ~misread => seen > txTick
      BY <1>0, <2>1
    <2> QED BY <1>9, <2>2 DEF WaitOver, MakeQc
  <1>10. CASE CheckTxOnTick
    <2>1. phase = "verify" /\ pc = "check"
      BY <1>10 DEF CheckTxOnTick, PollReturns
    <2>2. ~misread /\ tick <= txTick => tick = 0
      BY <1>0, <2>1
    <2> QED BY <1>10, <2>1, <2>2 DEF CheckTxOnTick
  <1>11. CASE Node
    BY <1>11 DEF Node
  <1>12. CASE UNCHANGED vars
    BY <1>12 DEF vars
  <1> QED
    BY <1>1, <1>2, <1>3, <1>4, <1>5, <1>6, <1>7, <1>8, <1>9, <1>10, <1>11, <1>12
    DEF Next, Client, Terminated

(* Noise never reaches a retry.                                             *)
LEMMA AlignedStep ==
  ASSUME TypeOK, Aligned, [Next]_vars
  PROVE  Aligned'
  <1>1. (~synced => up = <<>> /\ down = <<>>)'
    <2> USE DEF Aligned
    <2>1. CASE Moves
      <3>1. CASE Open
        BY <3>1 DEF Open, Fresh
      <3>2. CASE \E r \in {"tick", "tx"} : Deliver(r)
        BY <3>2 DEF Deliver
      <3>3. CASE Take /\ down # <<>>
        BY <3>3 DEF Take
      <3>4. CASE CutShort
        BY <3>4 DEF CutShort
      <3>5. CASE UNCHANGED connection
        BY <3>5 DEF connection
      <3> QED BY <2>1, <3>1, <3>2, <3>3, <3>4, <3>5 DEF Moves
    <2>2. CASE Node
      BY <2>2 DEF Node, NodeServe, NodePush, NodeAdvance, connection
    <2>3. CASE UNCHANGED vars
      BY <2>3 DEF vars, connection
    <2> QED BY <2>1, <2>2, <2>3, ClientMoves DEF Next, Terminated
  <1>2. (~synced /\ pc \in {"send", "recv"} => retries = 0)'
    <2> USE DEF Aligned, client, history, Abort
    <2>1. CASE ReceivePeers
      BY <2>1 DEF ReceivePeers, Skips, Take
    <2>2. CASE ReceiveComputors
      BY <2>2 DEF ReceiveComputors, StartPoll, Skips, Take
    <2>3. CASE Broadcast
      BY <2>3 DEF Broadcast, StartPoll
    <2>4. CASE SendRequest
      BY <2>4 DEF SendRequest, Deliver, Lose, connection
    <2>5. CASE ReceiveTick
      BY <2>5 DEF ReceiveTick, GetTick, GetNothing, GetNoise, Skips, Take
    <2>6. CASE Retry
      BY <2>6 DEF Retry, Open, Fresh
    <2>7. CASE Schedule \/ WaitOver
      BY <2>7 DEF Schedule, WaitOver, MakeQc
    <2>8. CASE PollAgain
      BY <2>8 DEF PollAgain, StartPoll
    <2>9. CASE CheckTxOnTick
      BY <2>9 DEF CheckTxOnTick
    <2>10. CASE Node
      BY <2>10 DEF Node, NodeServe, NodePush, NodeAdvance, connection
    <2>11. CASE UNCHANGED vars
      BY <2>11 DEF vars, connection
    <2> QED
      BY <2>1, <2>2, <2>3, <2>4, <2>5, <2>6, <2>7, <2>8, <2>9, <2>10, <2>11
      DEF Next, Client, Terminated
  <1> QED BY <1>1, <1>2 DEF Aligned

-----------------------------------------------------------------------------
(* How the requests and the answers on a socket change.                     *)
LEMMA OpenIsQuiet == ASSUME Open PROVE Quiet'
  BY GreetingElements DEF Open, Fresh, Quiet, NoRequest, NoAnswer

LEMMA CutIsQuiet == ASSUME CutShort PROVE Quiet'
  BY DEF CutShort, Quiet, NoRequest, NoAnswer

LEMMA UnsyncedIsQuiet == ASSUME Aligned, ~synced PROVE Quiet
  BY DEF Aligned, Quiet, NoRequest, NoAnswer

LEMMA TakeStaysQuiet == ASSUME TypeOK, Take, down # <<>>, Quiet PROVE Quiet'
  BY TailElements DEF Take, Quiet, NoRequest, NoAnswer, TypeOK, ConnectionTypeOK

LEMMA SameIsQuiet == ASSUME UNCHANGED connection, Quiet PROVE Quiet'
  BY DEF connection, Quiet, NoRequest, NoAnswer

LEMMA SendTxIsQuiet == ASSUME TypeOK, Deliver("tx"), Quiet PROVE Quiet'
  <1> USE DEF TypeOK, ConnectionTypeOK
  <1>1. NoAnswer'
    BY DEF Deliver, Quiet, NoAnswer
  <1>2. CASE synced
    <2>1. up' = Append(up, "tx")
      BY <1>2 DEF Deliver
    <2>2. NoRequest'
      BY SMTT(60), <2>1, AppendElements DEF Quiet, NoRequest
    <2> QED BY <1>1, <2>2 DEF Quiet
  <1>3. CASE ~synced
    BY <1>1, <1>3 DEF Deliver, Quiet, NoRequest
  <1> QED BY <1>2, <1>3

LEMMA SendTickIsOne ==
  ASSUME TypeOK, Deliver("tick"), Quiet
  PROVE  OneRequest' /\ NoAnswer'
  <1> USE DEF TypeOK, ConnectionTypeOK
  <1>1. NoAnswer'
    BY DEF Deliver, Quiet, NoAnswer
  <1>2. CASE synced
    <2>1. up' = Append(up, "tick")
      BY <1>2 DEF Deliver
    <2>2. \A i \in 1..Len(up') : i \in 1..Len(up) \/ i = Len(up) + 1
      BY <2>1, AppendElements
    <2>3. \A i \in 1..Len(up) : up'[i] # "tick"
      BY <2>1, AppendElements DEF Quiet, NoRequest
    <2>4. OneRequest'
      BY <2>2, <2>3 DEF OneRequest
    <2> QED BY <1>1, <2>4
  <1>3. CASE ~synced
    BY <1>1, <1>3 DEF Deliver, Quiet, NoRequest, OneRequest
  <1> QED BY <1>2, <1>3

LEMMA SkipStaysAsked ==
  ASSUME TypeOK, Take, down # <<>>, Asked, pollStart' = pollStart
  PROVE  Asked'
  <1> USE DEF TypeOK, ConnectionTypeOK
  <1>1. up' = up /\ down' = Tail(down)
    BY DEF Take
  <1>2. \A i \in 1..Len(down') : i + 1 \in 1..Len(down) /\ down'[i] = down[i + 1]
    BY <1>1, TailElements
  <1>3. OneAnswer'
    BY <1>2 DEF Asked, OneAnswer
  <1>4. OneRequest' /\ (NoRequest \/ NoAnswer)'
    BY <1>1, <1>2 DEF Asked, OneRequest, NoRequest, NoAnswer
  <1>5. (\A i \in 1..Len(down) : IsTick(down[i]) => down[i].tick >= pollStart)'
    BY <1>2 DEF Asked
  <1> QED BY <1>3, <1>4, <1>5 DEF Asked

LEMMA AnswerEndsIt ==
  ASSUME TypeOK, GetTick, Asked
  PROVE  Quiet' /\ tick' >= pollStart
  <1> USE DEF TypeOK, ConnectionTypeOK
  <1>1. /\ down # <<>> /\ down' = Tail(down) /\ up' = up
        /\ IsTick(down[1]) /\ tick' = down[1].tick
    BY TailElements DEF GetTick, Matches, Take, Arrived, IsTick
  <1>2. 1 \in 1..Len(down)
    BY <1>1, TailElements
  <1>3. NoRequest'
    BY <1>1, <1>2 DEF Asked, NoRequest, NoAnswer
  <1>4. \A i \in 1..Len(down') :
          i + 1 \in 1..Len(down) /\ i + 1 # 1 /\ down'[i] = down[i + 1]
    BY <1>1, TailElements
  <1>5. NoAnswer'
    BY <1>1, <1>2, <1>4 DEF Asked, OneAnswer, NoAnswer
  <1> QED BY <1>1, <1>2, <1>3, <1>5 DEF Quiet, Asked

(* The node answers the request there is, if there is one.                  *)
LEMMA NodeStaysQuiet ==
  ASSUME TypeOK, Node, Quiet
  PROVE  Quiet'
  <1> USE DEF TypeOK, ConnectionTypeOK
  <1>1. CASE NodeServe
    <2>1. Head(up) # "tick" /\ up' = Tail(up) /\ up # <<>>
      BY <1>1, TailElements DEF NodeServe, Quiet, NoRequest
    <2>2. down' = down
      BY <1>1, <2>1 DEF NodeServe
    <2> QED BY <2>1, <2>2, TailElements DEF Quiet, NoRequest, NoAnswer
  <1>2. CASE NodePush
    <2>1. PICK type \in {"other", "end"} : down' = Append(down, Packet(type, 0))
      BY <1>2 DEF NodePush
    <2>2. Packet(type, 0) \in Packets /\ ~IsTick(Packet(type, 0)) /\ up' = up
      BY <1>2 DEF Packet, Packets, PacketTypes, IsTick, NodePush
    <2> QED BY <2>1, <2>2, AppendElements DEF Quiet, NoRequest, NoAnswer
  <1>3. CASE NodeAdvance
    BY <1>3, SameIsQuiet DEF NodeAdvance
  <1> QED BY <1>1, <1>2, <1>3 DEF Node

LEMMA NodeStaysAsked ==
  ASSUME TypeOK, Node, Asked, pollStart <= nodeTick
  PROVE  Asked'
  <1> USE DEF TypeOK, ConnectionTypeOK
  <1>0. pollStart' = pollStart
    BY DEF Node, history
  <1>1. CASE NodeServe
    <2>1. up # <<>> /\ up' = Tail(up) /\ 1 \in 1..Len(up) /\ Head(up) = up[1]
      BY <1>1, TailElements DEF NodeServe
    <2>2. \A i \in 1..Len(up') : i + 1 \in 1..Len(up) /\ i + 1 # 1 /\ up'[i] = up[i + 1]
      BY <2>1, TailElements
    <2>3. OneRequest'
      <3>1. SUFFICES ASSUME NEW i \in 1..Len(up'), NEW j \in 1..Len(up'),
                            up'[i] = "tick", up'[j] = "tick"
                     PROVE  i = j
        BY DEF OneRequest
      <3>2. i + 1 = j + 1
        BY <2>2, <3>1 DEF Asked, OneRequest
      <3> QED BY <3>2
    <2>4. CASE Head(up) = "tick"
      <3>1. NoAnswer /\ NoRequest'
        BY <2>1, <2>2, <2>4 DEF Asked, OneRequest, NoRequest
      <3>2. /\ Packet("tick", nodeTick) \in Packets
            /\ Packet("tick", nodeTick).tick = nodeTick
        BY DEF Packet, Packets, PacketTypes
      <3>3. down' = Append(down, Packet("tick", nodeTick))
        BY <1>1, <2>4 DEF NodeServe
      <3>4. /\ \A i \in 1..Len(down') : i \in 1..Len(down) \/ i = Len(down) + 1
            /\ \A i \in 1..Len(down) : down'[i] = down[i]
            /\ down'[Len(down) + 1].tick = nodeTick
        BY <3>2, <3>3, AppendElements
      <3>5. OneAnswer'
        BY <3>1, <3>4 DEF NoAnswer, OneAnswer
      <3>6. (\A i \in 1..Len(down) : IsTick(down[i]) => down[i].tick >= pollStart)'
        BY <1>0, <3>1, <3>4 DEF NoAnswer
      <3> QED BY <2>3, <3>1, <3>5, <3>6 DEF Asked
    <2>5. CASE Head(up) # "tick"
      <3>1. down' = down
        BY <1>1, <2>5 DEF NodeServe
      <3>2. NoRequest => NoRequest'
        BY <2>2 DEF NoRequest
      <3> QED BY <1>0, <2>3, <3>1, <3>2 DEF Asked, OneAnswer, NoAnswer
    <2> QED BY <2>4, <2>5
  <1>2. CASE NodePush
    <2>1. PICK type \in {"other", "end"} : down' = Append(down, Packet(type, 0))
      BY <1>2 DEF NodePush
    <2>2. Packet(type, 0) \in Packets /\ ~IsTick(Packet(type, 0)) /\ up' = up
      BY <1>2 DEF Packet, Packets, PacketTypes, IsTick, NodePush
    <2>3. \A i \in 1..Len(down') :
            IsTick(down'[i]) => i \in 1..Len(down) /\ down'[i] = down[i]
      BY <2>1, <2>2, AppendElements
    <2> QED
      BY <1>0, <2>2, <2>3 DEF Asked, OneRequest, OneAnswer, NoRequest, NoAnswer
  <1>3. CASE NodeAdvance
    BY <1>0, <1>3 DEF NodeAdvance, connection, Asked, OneRequest, OneAnswer, NoRequest, NoAnswer
  <1> QED BY <1>1, <1>2, <1>3 DEF Node

(* A poll that never gave up reads its own answers.                         *)
LEMMA OwnAnswersInit == Init => OwnAnswers
  <1> SUFFICES ASSUME Init PROVE OwnAnswers
    OBVIOUS
  <1>1. Quiet
    BY GreetingElements DEF Init, Quiet, NoRequest, NoAnswer
  <1>2. pc = "peers"
    BY DEF Init
  <1>3. pollStart <= nodeTick
    BY ConnectionAssumption DEF Init
  <1> QED BY <1>1, <1>2, <1>3 DEF OwnAnswers

LEMMA OwnAnswersStep ==
  ASSUME TypeOK, Aligned, OwnAnswers, [Next]_vars
  PROVE  OwnAnswers'
  <1>0. pollStart \in Nat /\ nodeTick \in Nat
    BY DEF TypeOK, ConnectionTypeOK
  <1>1. pollStart' <= nodeTick'
    <2>1. pollStart' \in {pollStart, nodeTick} /\ nodeTick' \in {nodeTick, nodeTick + 1}
      <3>1. CASE Client
        <4>1. nodeTick' = nodeTick
          BY <3>1, ClientMoves DEF Moves
        <4>2. pollStart' \in {pollStart, nodeTick}
          BY <3>1
          DEF Client, ReceivePeers, ReceiveComputors, Broadcast, SendRequest, ReceiveTick,
              GetTick, GetNothing, GetNoise, Retry, Schedule, PollAgain, WaitOver,
              CheckTxOnTick, MakeQc, Abort, StartPoll, history
        <4> QED BY <4>1, <4>2
      <3>2. CASE Node
        BY <3>2 DEF Node, NodeServe, NodePush, NodeAdvance, history
      <3>3. CASE UNCHANGED vars
        BY <3>3 DEF vars, history
      <3> QED BY <3>1, <3>2, <3>3 DEF Next, Terminated
    <2> QED BY <1>0, <2>1 DEF OwnAnswers
  <1>2. SUFFICES ASSUME ~gaveUp', phase' \in Running
        PROVE  /\ pc' \in {"peers", "computors", "broadcast", "send"} => Quiet'
               /\ pc' = "recv" => Asked'
               /\ pc' = "check" /\ tick' # 0 => Quiet' /\ (synced' => tick' >= pollStart')
    BY <1>1 DEF OwnAnswers
  <1> USE <1>2 DEF OwnAnswers, client, history, Abort, Running
  <1>3. CASE ReceivePeers
    BY <1>3, TakeStaysQuiet DEF ReceivePeers, Matches, Skips
  <1>4. CASE ReceiveComputors
    BY <1>4, TakeStaysQuiet, CutIsQuiet, SameIsQuiet
    DEF ReceiveComputors, Matches, Skips, TimesOut, StartPoll
  <1>5. CASE Broadcast
    BY <1>5, SendTxIsQuiet, SameIsQuiet DEF Broadcast, Lose, StartPoll
  <1>6. CASE SendRequest
    <2>1. Quiet /\ pc' = "recv" /\ pollStart' = pollStart
      BY <1>6 DEF SendRequest
    <2>2. CASE Deliver("tick")
      BY <2>1, <2>2, SendTickIsOne DEF Asked, OneAnswer, NoAnswer
    <2>3. CASE Lose
      <3>1. Quiet'
        BY <2>1, <2>3, SameIsQuiet DEF Lose
      <3> QED BY <2>1, <3>1 DEF Quiet, Asked, OneRequest, OneAnswer, NoRequest, NoAnswer
    <2> QED BY <1>6, <2>2, <2>3 DEF SendRequest
  <1>7. CASE ReceiveTick
    <2>1. CASE GetTick
      BY <1>7, <2>1, AnswerEndsIt DEF ReceiveTick, GetTick
    <2>2. CASE GetNothing
      BY <1>7, <2>2 DEF ReceiveTick, GetNothing
    <2>3. CASE GetNoise
      <3>1. Quiet' /\ ~synced' /\ pc' = "check"
        BY <2>3, UnsyncedIsQuiet, SameIsQuiet DEF GetNoise, connection
      <3> QED BY <3>1
    <2>4. CASE Skips("tick") /\ UNCHANGED <<nodeTick, client, history>>
      BY <1>7, <2>4, SkipStaysAsked DEF ReceiveTick, Skips
    <2> QED BY <1>7, <2>1, <2>2, <2>3, <2>4 DEF ReceiveTick
  <1>8. CASE Retry
    BY <1>8, OpenIsQuiet DEF Retry
  <1>9. CASE Schedule \/ WaitOver
    BY <1>9, OpenIsQuiet DEF Schedule, WaitOver, MakeQc
  <1>10. CASE PollAgain
    BY <1>10, SameIsQuiet DEF PollAgain, PollReturns, StartPoll
  <1>11. CASE CheckTxOnTick
    BY <1>11 DEF CheckTxOnTick
  <1>12. CASE Node
    <2>1. UNCHANGED <<client, history>>
      BY <1>12 DEF Node
    <2>2. ~gaveUp /\ phase \in Running
      BY <2>1
    <2>3. synced' = synced
      BY <1>12 DEF Node, NodeServe, NodePush, NodeAdvance, connection
    <2> QED BY <2>1, <2>2, <2>3, <1>12, NodeStaysQuiet, NodeStaysAsked
  <1>13. CASE UNCHANGED vars
    BY <1>13 DEF vars, connection, Quiet, Asked, OneRequest, OneAnswer, NoRequest, NoAnswer
  <1> QED
    BY <1>3, <1>4, <1>5, <1>6, <1>7, <1>8, <1>9, <1>10, <1>11, <1>12, <1>13
    DEF Next, Client, Terminated

-----------------------------------------------------------------------------
(* The inductive invariant holds in every state of the program.             *)
THEOREM Inductive == Spec => []IInv
  <1>1. Init => IInv
    <2> SUFFICES ASSUME Init PROVE IInv
      OBVIOUS
    <2>1. Aligned
      BY DEF Init, Aligned
    <2>2. Acted
      BY DEF Init, Acted
    <2>3. Ends
      BY DEF Init, Ends, Ended
    <2>4. Sends
      BY DEF Init, Sends
    <2> QED BY <2>1, <2>2, <2>3, <2>4, TypeInit, OrderInit, OwnAnswersInit DEF IInv
  <1>2. IInv /\ [Next]_vars => IInv'
    BY TypeStep, OrderStep, ActedStep, AlignedStep, OwnAnswersStep, EndsStep, SendsStep
    DEF IInv
  <1> QED BY <1>1, <1>2, PTL DEF Spec

(* A number a poll returns was answered during that poll, as long as no poll *)
(* gave up on that socket.                                                  *)
THEOREM AnswersAreFresh == Spec => []FreshAnswer
  <1>1. IInv => FreshAnswer
    BY DEF IInv, FreshAnswer, OwnAnswers, Ends, Ended, Running, TypeOK
  <1> QED BY <1>1, Inductive, PTL

(* The wait of makeStandardTransactionInTick never ends early.              *)
THEOREM WaitIsSound == Spec => []WaitSound
  <1>1. IInv => WaitSound
    BY DEF IInv, WaitSound, InOrder, Acted, TypeOK, ConnectionTypeOK
  <1> QED BY <1>1, Inductive, PTL

(* checkTxOnTick asks for more patience only when it got no answer.         *)
THEOREM RefusalIsSilence == Spec => []RefusedOnlyOnSilence
  <1>1. IInv => RefusedOnlyOnSilence
    BY DEF IInv, RefusedOnlyOnSilence, Acted
  <1> QED BY <1>1, Inductive, PTL

(* A retry of getTickNumberFromNode always reads from a packet boundary.    *)
THEOREM RetriesAreAligned == Spec => AlignedRetry
  <1>1. IInv /\ [Next]_vars => [misread' # misread => retries = 0]_vars
    <2> SUFFICES ASSUME Aligned, [Next]_vars, misread' # misread PROVE retries = 0
      BY DEF IInv
    <2>1. pc = "recv" /\ GetNoise
      BY DEF Next, Client, ReceivePeers, ReceiveComputors, Broadcast, SendRequest,
             ReceiveTick, GetTick, GetNothing, Retry, Schedule, PollAgain, WaitOver,
             CheckTxOnTick, MakeQc, Abort, Node, Terminated, vars, history
    <2> QED BY <2>1 DEF GetNoise, Aligned
  <1> QED BY <1>1, Inductive, PTL DEF Spec, AlignedRetry

-----------------------------------------------------------------------------
(* When packets arrive whole, nothing is ever misread.                      *)
NoNoise == synced = TRUE /\ misread = FALSE

LEMMA WholePackets == ASSUME Cut = FALSE PROVE Spec => []NoNoise
  <1>1. Init => NoNoise
    BY DEF Init, NoNoise
  <1>2. NoNoise /\ [Next]_vars => NoNoise'
    <2> SUFFICES ASSUME NoNoise, [Next]_vars PROVE NoNoise'
      OBVIOUS
    <2>1. synced' = TRUE
      <3>1. CASE Client
        BY <3>1, ClientMoves
        DEF NoNoise, Moves, Open, Fresh, Deliver, Take, CutShort, connection
      <3>2. CASE Node
        BY <3>2 DEF NoNoise, Node, NodeServe, NodePush, NodeAdvance, connection
      <3> QED BY <3>1, <3>2 DEF Next, Terminated, vars, connection, NoNoise
    <2>2. misread' = misread
      BY DEF NoNoise, Next, Client, ReceivePeers, ReceiveComputors, Broadcast, SendRequest,
             ReceiveTick, GetTick, GetNothing, GetNoise, Retry, Schedule, PollAgain,
             WaitOver, CheckTxOnTick, MakeQc, Abort, Node, Terminated, vars, history
    <2> QED BY <2>1, <2>2 DEF NoNoise
  <1> QED BY <1>1, <1>2, PTL DEF Spec

LEMMA OutcomeStep ==
  ASSUME IInv, NoNoise, [Next]_vars
  PROVE  [Outcome!ONext]_(Outcome!ovars)
  <1> USE DEF Outcome!ovars, client, history
  <1>t. seen \in Nat /\ nodeTick \in Nat /\ tick \in Nat /\ txTick \in Nat
    BY DEF IInv, TypeOK, ConnectionTypeOK
  <1>e. pc # "end" => phase \in {"schedule", "wait", "verify"}
    BY DEF IInv, TypeOK, Ends, Running, Ended
  <1>a. ASSUME Abort, pc # "end" PROVE Outcome!GiveUp
    BY <1>a, <1>e DEF Abort, Outcome!GiveUp
  <1>p. ASSUME PollReturns PROVE tick = 0 \/ tick = seen
    BY <1>p DEF PollReturns, IInv, Acted, NoNoise
  <1>1. CASE ReceivePeers
    BY <1>1, <1>a DEF ReceivePeers, Outcome!ONext
  <1>2. CASE ReceiveComputors
    BY <1>2, <1>a DEF ReceiveComputors, StartPoll, Outcome!ONext
  <1>3. CASE Broadcast
    <2>1. CASE phase' = phase
      BY <1>3, <2>1 DEF Broadcast
    <2>2. CASE phase' # phase
      <3>1. phase = "wait"
        BY <1>3 DEF Broadcast, IInv, Sends
      <3> QED BY <1>3, <2>2, <3>1 DEF Broadcast, StartPoll, Outcome!ONext, Outcome!Send
    <2> QED BY <2>1, <2>2
  <1>4. CASE SendRequest
    BY <1>4 DEF SendRequest
  <1>5. CASE ReceiveTick
    <2>1. CASE GetTick
      <3>1. seen <= seen' /\ seen' <= nodeTick /\ seen' \in Nat
        BY <2>1, OrderGetTick, TypeStep DEF IInv, InOrder, TypeOK, GetTick
      <3>2. phase \in {"schedule", "wait", "verify"}
        BY <1>5, <1>e DEF ReceiveTick
      <3>3. Outcome!Learn
        BY <2>1, <3>1, <3>2, <1>t DEF Outcome!Learn, GetTick
      <3> QED BY <3>3 DEF Outcome!ONext
    <2>2. CASE ~GetTick
      BY <1>5, <2>2 DEF ReceiveTick, GetNothing, GetNoise
    <2> QED BY <2>1, <2>2
  <1>6. CASE Retry
    BY <1>6, <1>a DEF Retry, Outcome!ONext
  <1>7. CASE Schedule
    <2>1. txTick' \in {Offset, seen + Offset}
      BY <1>7, <1>p, WatchAssumption DEF Schedule
    <2>2. Outcome!Plan
      BY <1>7, <2>1 DEF Schedule, MakeQc, Outcome!Plan
    <2> QED BY <2>2 DEF Outcome!ONext
  <1>8. CASE PollAgain
    BY <1>8 DEF PollAgain
  <1>9. CASE WaitOver
    <2>1. phase = "wait" /\ seen > txTick
      BY <1>9, <1>p, <1>t DEF WaitOver, StillWaiting
    <2>2. Outcome!EndWait
      BY <1>9, <2>1 DEF WaitOver, MakeQc, Outcome!EndWait
    <2> QED BY <2>2 DEF Outcome!ONext
  <1>10. CASE CheckTxOnTick
    <2>1. phase = "verify" /\ seen > txTick
      BY <1>10 DEF CheckTxOnTick, IInv, Acted, NoNoise
    <2>2. Outcome!Verdict
      BY <1>10, <2>1 DEF CheckTxOnTick, Outcome!Verdict
    <2> QED BY <2>2 DEF Outcome!ONext
  <1>11. CASE Node
    BY <1>11
    DEF Node, NodeServe, NodePush, NodeAdvance, Outcome!ONext, Outcome!Advance
  <1>12. CASE UNCHANGED vars
    BY <1>12 DEF vars
  <1> QED
    BY <1>1, <1>2, <1>3, <1>4, <1>5, <1>6, <1>7, <1>8, <1>9, <1>10, <1>11, <1>12
    DEF Next, Client, Terminated

(* The whole command implements its outcome when packets arrive whole.      *)
THEOREM OutcomeImplemented == ASSUME Cut = FALSE PROVE Spec => ImplementsOutcome
  <1>1. Init => Outcome!OInit
    BY DEF Init, Outcome!OInit
  <1>2. Spec => []NoNoise
    BY WholePackets
  <1>3. IInv /\ NoNoise /\ [Next]_vars => [Outcome!ONext]_(Outcome!ovars)
    BY OutcomeStep
  <1> QED BY <1>1, <1>2, <1>3, Inductive, PTL DEF Spec, ImplementsOutcome, Outcome!OSpec
=============================================================================
