-------------------------- MODULE TickTransactions --------------------------
(***************************************************************************)
(* Reading the transactions of a tick (node_utils.cpp): checkTxOnTick,     *)
(* which looks a transaction up on the node, and getTickDataToFile with    *)
(* checkTxOnFile, which save the tick and look the transaction up in the   *)
(* file, put back in the order of the tick data.                           *)
(*                                                                         *)
(* A transaction is its digest.  The node is external: it answers with any *)
(* of the requested transactions it holds, in any order, then END_RESPOND. *)
(***************************************************************************)
EXTENDS Integers, Sequences, FiniteSets, SequencesExt

CONSTANTS
  Txs,     \* the transactions a tick can hold
  Slots,   \* NUMBER_OF_TRANSACTIONS_PER_TICK
  Group,   \* flags per byte of the request: 8
  MaxPush, \* bound: packets and bytes that are not part of the answer
  Zero,    \* the digest of an empty slot, a transaction of zero bytes
  Stray,   \* a transaction of another tick, or bytes that pass for one
  Other,   \* a packet of another type, or bytes that pass for its header
  End,     \* END_RESPOND
  NoHeader \* no header was read

ASSUME TickAssumption ==
  /\ Slots \in Nat \ {0} /\ Group \in Nat \ {0} /\ MaxPush \in Nat
  /\ {Zero, Stray, Other, End, NoHeader} \cap Txs = {}
  /\ Zero \notin {Stray, Other, End, NoHeader} /\ Stray \notin {Other, End, NoHeader}
  /\ Other \notin {End, NoHeader} /\ End # NoHeader

VARIABLES
  job,      \* "check": checkTxOnTick, "file": getTickDataToFile
  target,   \* the transaction asked for
  slots,    \* TickData.transactionDigests
  pc,
  nTx,      \* how many transactions getTickTransactions waits for
  answer,   \* packets of the node not read yet
  current,  \* the packet whose header was read last
  txs,      \* transactions received, in the order of arrival
  result,   \* transactions read back from the file
  verdict,
  pushed,   \* packets that were not part of the answer
  noisy,    \* a payload was not skipped: headers are read out of place
  clean     \* history: the node held and sent everything, and it all arrived

tick == <<job, target, slots>>
stream == <<answer, current, pushed, noisy>>
tickVars == <<tick, pc, nTx, stream, txs, result, verdict, clean>>

Indices == 1..Slots
Taken(s) == {i \in Indices : s[i] # Zero}

TickInit ==
  /\ job \in {"check", "file"} /\ target \in Txs
  /\ slots \in {s \in [Indices -> Txs \cup {Zero}] :
                  \A i, j \in Taken(s) : s[i] = s[j] => i = j}
  /\ pc = "tickData" /\ nTx = 0
  /\ answer = <<>> /\ current = NoHeader /\ pushed = 0 /\ noisy = FALSE
  /\ txs = <<>> /\ result = <<>> /\ verdict = "none" /\ clean = TRUE

-----------------------------------------------------------------------------
(* checkTxOnTick and readTickDataFromFile count the digests that are not    *)
(* zero; getTickDataToFile takes the index of the last one.                 *)
CountTx(s) == Cardinality(Taken(s))
LastTx(s) == CHOOSE n \in 0..Slots : (n = 0 \/ n \in Taken(s)) /\ \A i \in Taken(s) : i <= n

(* getTickData: the tick data, an END_RESPOND (no such tick), or nothing.   *)
GetTickData ==
  /\ pc = "tickData"
  /\ \/ /\ pc' = "request" /\ UNCHANGED verdict
        /\ nTx' = IF job = "check" THEN CountTx(slots) ELSE LastTx(slots)
     \/ /\ pc' = "ended" /\ verdict' = "noData" /\ UNCHANGED nTx
  /\ UNCHANGED <<tick, stream, txs, result, clean>>

(* Mutant of Requested: the last flags are not asked for.                   *)
RequestedRoundedDown(n) == {i \in Taken(slots) : i <= Group * (n \div Group)}

(* The flags of (nTx+7)/8 bytes are cleared: those slots are asked for.     *)
Requested(n) == {i \in Taken(slots) : i <= Group * ((n + Group - 1) \div Group)}

SendRequest ==
  /\ pc = "request"
  /\ pc' = "first"
  /\ LET asked == {slots[i] : i \in Requested(nTx)} IN
       \/ \E held \in SetToAllKPermutations(asked) :
            /\ answer' = Append(held, End)
            /\ clean' = (ToSet(held) = asked)
       \/ answer' = <<>> /\ clean' = FALSE
  /\ UNCHANGED <<tick, nTx, current, pushed, noisy, txs, result, verdict>>

-----------------------------------------------------------------------------
(* One receiveData of a header.                                             *)
NextPacket ==
  /\ answer # <<>>
  /\ current' = Head(answer) /\ answer' = Tail(answer)
  /\ UNCHANGED <<pushed, noisy, clean>>

Unasked ==
  /\ pushed < MaxPush
  /\ current' \in Txs \cup {Stray, Other} /\ UNCHANGED answer
  /\ pushed' = pushed + 1 /\ clean' = FALSE /\ UNCHANGED noisy

(* The payload of an Other packet is not skipped: headers are read from it, *)
(* and packets of the answer may be swallowed.                              *)
Noise ==
  /\ noisy \/ current = Other
  /\ noisy' = TRUE /\ clean' = FALSE
  /\ \E k \in 0..Len(answer) : answer' = SubSeq(answer, k + 1, Len(answer))
  /\ \/ pushed < MaxPush /\ current' \in {Stray, Other} /\ pushed' = pushed + 1
     \/ answer' # answer /\ current' = Other /\ UNCHANGED pushed

TimesOut ==
  /\ current' = NoHeader
  /\ clean' = (clean /\ answer = <<>>)
  /\ UNCHANGED <<answer, pushed, noisy>>

ReadPacketHeader == NextPacket \/ Unasked \/ Noise \/ TimesOut

FirstHeader ==
  /\ pc = "first" /\ ReadPacketHeader
  /\ pc' = IF current' = NoHeader THEN "received" ELSE "receive"
  /\ UNCHANGED <<tick, nTx, txs, result, verdict>>

(* The loop of getTickTransactions: a transaction is read and kept, every   *)
(* other packet is not; then the next header; then the count is looked at.  *)
IsTransaction(p) == p \in Txs \cup {Stray}

(* Mutant: the count is looked at before the next header.                   *)
ReceiveTransactionCountFirst ==
  /\ pc = "receive"
  /\ txs' = IF IsTransaction(current) THEN Append(txs, current) ELSE txs
  /\ \/ Len(txs') = nTx /\ pc' = "received" /\ UNCHANGED <<stream, clean>>
     \/ /\ Len(txs') # nTx /\ ReadPacketHeader
        /\ pc' = IF current' = NoHeader THEN "received" ELSE "receive"
  /\ UNCHANGED <<tick, nTx, result, verdict>>

ReceiveTransaction ==
  /\ pc = "receive" /\ ReadPacketHeader
  /\ txs' = IF IsTransaction(current) THEN Append(txs, current) ELSE txs
  /\ pc' = IF Len(txs') = nTx \/ current' = NoHeader THEN "received" ELSE "receive"
  /\ UNCHANGED <<tick, nTx, result, verdict>>

(* The body of a transaction does not arrive: an exception ends the command. *)
BodyTimesOut ==
  /\ pc = "receive" /\ IsTransaction(current)
  /\ pc' = "ended" /\ verdict' = "aborted" /\ clean' = FALSE
  /\ UNCHANGED <<tick, nTx, stream, txs, result>>

-----------------------------------------------------------------------------
Verdict(found) == verdict' = IF target \in ToSet(found) THEN "found" ELSE "missing"

(* checkTxOnTick looks through what was received.                           *)
SearchTick ==
  /\ pc = "received" /\ job = "check"
  /\ Verdict(txs)
  /\ pc' = IF verdict' = "found" THEN "receipt" ELSE "ended"
  /\ UNCHANGED <<tick, nTx, stream, txs, result, clean>>

(* Then a new connection, and getMoneyFlewStatus on it: the receipt is      *)
(* printed, or an exception that it does not catch (END_RESPOND, or no      *)
(* connection) ends the command.                                            *)
PrintReceipt ==
  /\ pc = "receipt" /\ pc' = "ended"
  /\ verdict' \in {"found", "aborted"}
  /\ UNCHANGED <<tick, nTx, stream, txs, result, clean>>

(* readTickDataFromFile: as many transactions as the tick data has digests  *)
(* (zeros once the file is over), then, for each of the first digests, the  *)
(* transaction that has it, zeros when none does.                           *)
FromFile(n) == [j \in 1..n |-> IF j <= Len(txs) THEN txs[j] ELSE Zero]

InTickOrder(read) ==
  [i \in DOMAIN read |-> IF slots[i] \in ToSet(read) THEN slots[i] ELSE Zero]

CheckTxOnFile ==
  /\ pc = "received" /\ job = "file"
  /\ result' = InTickOrder(FromFile(CountTx(slots)))
  /\ Verdict(result')
  /\ pc' = "ended"
  /\ UNCHANGED <<tick, nTx, stream, txs, clean>>

Terminated == pc = "ended" /\ UNCHANGED tickVars

TickNext ==
  \/ GetTickData \/ SendRequest
  \/ FirstHeader \/ ReceiveTransaction \/ BodyTimesOut
  \/ SearchTick \/ PrintReceipt \/ CheckTxOnFile
  \/ Terminated

TickSpec == TickInit /\ [][TickNext]_tickVars

-----------------------------------------------------------------------------
Packets == Txs \cup {Stray, Other, End}

TickTypeOK ==
  /\ job \in {"check", "file"} /\ target \in Txs /\ slots \in [Indices -> Txs \cup {Zero}]
  /\ pc \in {"tickData", "request", "first", "receive", "received", "receipt", "ended"}
  /\ nTx \in 0..Slots
  /\ answer \in Seq(Packets) /\ current \in Packets \cup {NoHeader}
  /\ pushed \in 0..MaxPush /\ noisy \in BOOLEAN /\ clean \in BOOLEAN
  /\ txs \in Seq(Txs \cup {Stray}) /\ result \in Seq(Txs \cup {Zero})
  /\ verdict \in {"none", "noData", "found", "missing", "aborted"}

(* The transactions of a tick are in its first slots, without a gap.        *)
Dense == \A i \in Taken(slots) : 1..i \subseteq Taken(slots)

(* When the tick has no gap and its answer arrives whole, "Can NOT find tx" *)
(* is right, in whatever order the transactions came: the loop, which stops *)
(* on a count it checks one header late, does not miss one, and neither     *)
(* does the way through the file.                                           *)
MissingIsAbsent == verdict = "missing" /\ clean /\ Dense => target \notin ToSet(slots)

(* When the loop stops on its count, no more packets of the answer are left *)
(* on the connection for the next request than packets came that were not   *)
(* part of it, and when none came END_RESPOND was read: that is why the     *)
(* count is looked at after the next header, "because response has an       *)
(* EndResponse header at the end" (node_utils.cpp:379).                     *)
EndIsRead ==
  pc = "received" /\ current # NoHeader =>
    Len(answer) <= pushed /\ (pushed = 0 => current = End)
=============================================================================
