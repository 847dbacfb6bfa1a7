--------------------------- MODULE OracleQueries ---------------------------
(***************************************************************************)
(* -getoraclequery (oracle_utils.cpp) with a range of ticks: for each tick *)
(* receiveQueryIds and, with all details, receiveQueryInformation for each *)
(* of its queries, on one connection.  Responses are matched to requests   *)
(* by their dejavu, a random number: here the number of the request.       *)
(*                                                                         *)
(* The node is external: it answers each request in order, and may send    *)
(* packets of its own, as the RequestComputors that the constructor of     *)
(* QubicConnection has not waited long enough for.                         *)
(***************************************************************************)
EXTENDS Integers, Sequences, FiniteSets, SequencesExt

CONSTANTS
  Ids,       \* query IDs
  Ticks,     \* the number of ticks in the range
  Chunk,     \* IDs in one packet: 128
  Pieces,    \* data packets of one query
  MaxForeign \* bound: packets that answer no request

ASSUME OracleAssumption ==
  /\ IsFiniteSet(Ids) /\ Ids \subseteq Nat \ {0}
  /\ Ticks \in Nat \ {0} /\ Chunk \in Nat \ {0}
  /\ Pieces \in Nat /\ MaxForeign \in Nat

VARIABLES
  queries,    \* the node: the IDs of each tick
  getAllDetails,
  pc, tick,
  request,    \* requests sent so far, the dejavu of the last
  stream,     \* packets of the node not read yet
  header,     \* the header read last
  queryIds,   \* IDs received (recQueryIds) and not printed
  metadata,   \* metadata.queryId, 0 when reset
  data,       \* query and reply: the pieces received
  printed,    \* what was printed, in order
  foreign     \* packets sent that answer no request

node == <<queries, foreign>>
vars == <<queries, getAllDetails, pc, tick, request, stream, header,
          queryIds, metadata, data, printed, foreign>>

Packet(dejavu, kind, body) == [dejavu |-> dejavu, kind |-> kind, body |-> body]
None == Packet(0, "none", <<>>)

(* The IDs a tick can have, in the order of their making.                   *)
TickIds ==
  {ids \in UNION {[1..n -> Ids] : n \in 0..Cardinality(Ids)} :
     \A i, j \in DOMAIN ids : i < j => ids[i] < ids[j]}

Init ==
  /\ queries \in [1..Ticks -> TickIds]
  /\ getAllDetails \in BOOLEAN
  /\ pc = "ids" /\ tick = 1 /\ request = 0
  /\ stream = <<>> /\ header = None
  /\ queryIds = <<>> /\ metadata = 0 /\ data = <<>> /\ printed = <<>>
  /\ foreign = 0

-----------------------------------------------------------------------------
(* The node's answers.                                                      *)
EndRespond(r) == Packet(r, "end", <<>>)

Chunks(r, ids) ==
  [i \in 1..((Len(ids) + Chunk - 1) \div Chunk) |->
     Packet(r, "ids", SubSeq(ids, (i - 1) * Chunk + 1,
                             IF i * Chunk < Len(ids) THEN i * Chunk ELSE Len(ids)))]

IdsAnswers(r, t) ==
  {Append(Chunks(r, queries[t]), EndRespond(r)), <<Packet(r, "tickRange", <<t>>), EndRespond(r)>>}

Piece(id, i) == <<id, i>>
Information(id) == [i \in 1..Pieces |-> Piece(id, i)]

InfoAnswers(r, id) ==
  {<<Packet(r, "metadata", <<id>>)>>
     \o [i \in 1..Pieces |-> Packet(r, "data", <<Piece(id, i)>>)]
     \o <<EndRespond(r)>>,
   <<EndRespond(r)>>}

(* A packet that answers no request, before whatever is not read yet: with  *)
(* a payload, or a header alone.                                            *)
ForeignPackets == {Packet(0, "other", <<>>), Packet(0, "other", <<0>>)}

SendForeign ==
  /\ pc \in {"recvIds", "recvInfo"} /\ foreign < MaxForeign
  /\ foreign' = foreign + 1
  /\ \E p \in ForeignPackets : stream' = <<p>> \o stream
  /\ UNCHANGED <<queries, getAllDetails, pc, tick, request, header,
                 queryIds, metadata, data, printed>>

-----------------------------------------------------------------------------
(* An exception: main() prints it and the command ends.                     *)
Abort ==
  /\ pc' = "aborted"
  /\ UNCHANGED <<node, getAllDetails, tick, request, header, queryIds, metadata, data, printed>>

(* A header or a payload that does not arrive in time.                      *)
TimesOut ==
  /\ pc \in {"recvIds", "recvInfo"} \/ (pc = "foreign" /\ header.body # <<>>)
  /\ Abort /\ UNCHANGED stream

(* receiveQueryIds                                                          *)
RequestIds ==
  /\ pc = "ids"
  /\ request' = request + 1
  /\ \E answer \in IdsAnswers(request', tick) : stream' = stream \o answer
  /\ queryIds' = <<>> /\ pc' = "recvIds"
  /\ UNCHANGED <<node, getAllDetails, tick, header, metadata, data, printed>>

Received == Head(stream)

ReceiveIds ==
  /\ pc = "recvIds" /\ stream # <<>>
  /\ Received.dejavu = request /\ Received.kind = "ids"
  /\ queryIds' = queryIds \o Received.body
  /\ stream' = Tail(stream)
  /\ UNCHANGED <<node, getAllDetails, pc, tick, request, header, metadata, data, printed>>

(* Without details the IDs are printed, and the command is done with them.  *)
Unread(ids) == [i \in DOMAIN ids |-> [id |-> ids[i], data |-> <<>>]]

ReceiveIdsEnd ==
  /\ pc = "recvIds" /\ stream # <<>>
  /\ Received.dejavu = request /\ Received.kind = "end"
  /\ stream' = Tail(stream)
  /\ pc' = "info"
  /\ IF getAllDetails THEN UNCHANGED <<queryIds, printed>>
     ELSE printed' = printed \o Unread(queryIds) /\ queryIds' = <<>>
  /\ UNCHANGED <<node, getAllDetails, tick, request, header, metadata, data>>

(* "Unexpected dejavu!", "Unexpected packet type!", "Data is not available" *)
RefuseIds ==
  /\ pc = "recvIds" /\ stream # <<>>
  /\ Received.dejavu # request \/ Received.kind \notin {"ids", "end"}
  /\ stream' = Tail(stream) /\ Abort

-----------------------------------------------------------------------------
(* Mutant of RequestInfo: the output of the last query is not cleared.      *)
RequestInfoNoReset ==
  /\ pc = "info" /\ queryIds # <<>>
  /\ request' = request + 1
  /\ \E answer \in InfoAnswers(request', Head(queryIds)) : stream' = stream \o answer
  /\ pc' = "recvInfo"
  /\ UNCHANGED <<node, getAllDetails, tick, header, queryIds, metadata, data, printed>>

(* receiveQueryInformation, for each of the queries                         *)
RequestInfo ==
  /\ pc = "info" /\ queryIds # <<>>
  /\ request' = request + 1
  /\ \E answer \in InfoAnswers(request', Head(queryIds)) : stream' = stream \o answer
  /\ metadata' = 0 /\ data' = <<>>
  /\ pc' = "recvInfo"
  /\ UNCHANGED <<node, getAllDetails, tick, header, queryIds, printed>>

(* Mutant of Unmatched: the dejavu is that of the request before.           *)
UnmatchedStale == Received.dejavu # request - 1
Unmatched == Received.dejavu # request

ReceiveInfo ==
  /\ pc = "recvInfo" /\ stream # <<>> /\ ~Unmatched
  /\ stream' = Tail(stream) /\ header' = Received
  /\ \/ Received.kind = "metadata" /\ metadata' = Received.body[1] /\ UNCHANGED data
     \/ Received.kind = "data" /\ data' = data \o Received.body /\ UNCHANGED metadata
  /\ UNCHANGED <<node, getAllDetails, pc, tick, request, queryIds, printed>>

(* "Unknown query ID!", or the query is complete and is printed.            *)
ReceiveInfoEnd ==
  /\ pc = "recvInfo" /\ stream # <<>> /\ ~Unmatched /\ Received.kind = "end"
  /\ stream' = Tail(stream)
  /\ \/ metadata # Head(queryIds) /\ Abort
     \/ /\ metadata = Head(queryIds)
        /\ printed' = Append(printed, [id |-> metadata, data |-> data])
        /\ queryIds' = Tail(queryIds) /\ pc' = "info"
        /\ UNCHANGED <<node, getAllDetails, tick, request, header, metadata, data>>

(* A packet that is not for this request: the next header is read only in   *)
(* the branch of those that are, so this header stays.                      *)
ReceiveForeign ==
  /\ pc = "recvInfo" /\ stream # <<>> /\ Unmatched
  /\ stream' = Tail(stream) /\ header' = Received
  /\ pc' = "foreign"
  /\ UNCHANGED <<node, getAllDetails, tick, request, queryIds, metadata, data, printed>>

(* The loop goes on with the same header: as many bytes again are taken     *)
(* from the stream as its payload has, none when it has no payload.         *)
ReadPayloadAgain ==
  /\ pc = "foreign"
  /\ IF header.body = <<>> THEN UNCHANGED stream
     ELSE stream # <<>> /\ stream' = Tail(stream)
  /\ UNCHANGED <<node, getAllDetails, pc, tick, request, header, queryIds, metadata, data, printed>>

(* Mutant of NextTick: the range is left one tick early.                    *)
NextTickTooFew ==
  /\ pc = "info" /\ queryIds = <<>>
  /\ tick' = tick + 1
  /\ pc' = IF tick' < Ticks THEN "ids" ELSE "done"
  /\ UNCHANGED <<node, getAllDetails, request, stream, header, queryIds, metadata, data, printed>>

(* for (tick = tickFrom; tick <= tickTo; ++tick)                            *)
NextTick ==
  /\ pc = "info" /\ queryIds = <<>>
  /\ tick' = tick + 1
  /\ pc' = IF tick' <= Ticks THEN "ids" ELSE "done"
  /\ UNCHANGED <<node, getAllDetails, request, stream, header, queryIds, metadata, data, printed>>

-----------------------------------------------------------------------------
Client ==
  \/ RequestIds \/ ReceiveIds \/ ReceiveIdsEnd \/ RefuseIds
  \/ RequestInfo \/ ReceiveInfo \/ ReceiveInfoEnd
  \/ ReceiveForeign \/ ReadPayloadAgain \/ TimesOut \/ NextTick

Ended == pc \in {"done", "aborted"}
Terminated == Ended /\ UNCHANGED vars

Next == Client \/ SendForeign \/ Terminated

Spec == Init /\ [][Next]_vars

(* The client is one thread that always runs.                               *)
FairSpec == Spec /\ WF_vars(Client)

-----------------------------------------------------------------------------
Kinds == {"none", "ids", "tickRange", "metadata", "data", "other", "end"}
Output == [id : Ids, data : Seq(Ids \X (1..Pieces))]

TypeOK ==
  /\ getAllDetails \in BOOLEAN
  /\ pc \in {"ids", "recvIds", "info", "recvInfo", "foreign", "done", "aborted"}
  /\ tick \in 1..(Ticks + 1) /\ request \in Nat
  /\ \A p \in ToSet(stream) \cup {header} : p.dejavu \in 0..request /\ p.kind \in Kinds
  /\ queryIds \in Seq(Ids) /\ metadata \in Ids \cup {0}
  /\ data \in Seq(Ids \X (1..Pieces))
  /\ printed \in Seq(Output)
  /\ foreign \in 0..MaxForeign

(* What the whole command prints: the queries of the ticks, in order.       *)
Expected ==
  LET ids == FlattenSeq(queries) IN
  IF getAllDetails
  THEN [i \in DOMAIN ids |-> [id |-> ids[i], data |-> Information(ids[i])]]
  ELSE Unread(ids)

(* What is printed is the answer to its request, whole, and never a part of *)
(* another's: the connection is never opened again between requests, and    *)
(* nothing but the dejavu separates their answers.                          *)
PrintedIsAnswered == IsPrefix(printed, Expected)

(* A command that ends without an exception has printed everything.         *)
DoneIsComplete == pc = "done" => printed = Expected

(* Unless the node sends a header alone that answers no request, the        *)
(* command ends: other foreign packets end it with an exception, once the   *)
(* stream is used up.                                                       *)
Ends == [](\A p \in ToSet(stream) : p.dejavu = 0 => p.body # <<>>) => <>Ended
=============================================================================
