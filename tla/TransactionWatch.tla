-------------------------- MODULE TransactionWatch --------------------------
(***************************************************************************)
(* makeStandardTransaction: ask the node for its tick, schedule the        *)
(* transaction Offset ticks later, send it, poll the tick until the        *)
(* scheduled tick is over, then ask again (checkTxOnTick) before looking   *)
(* the transaction up.  Each phase opens a QubicConnection of its own and  *)
(* polls with getTickNumberFromNode.                                       *)
(***************************************************************************)
EXTENDS QubicConnection

CONSTANTS
  Offset,   \* scheduledTickOffset of the command line
  Retries   \* reconnections of one poll: 3 in getTickNumberFromNode

ASSUME WatchAssumption == Offset \in Nat /\ Retries \in Nat

VARIABLES
  phase,     \* which of the three functions runs, or how the command ended
  pc,        \* where it is
  retries,   \* retryCounter
  tick,      \* curTickInfo.tick, the last answer (0: none)
  txTick,    \* the tick the transaction is scheduled for
  seen,      \* history: the last tick read from an aligned stream
  pollStart, \* history: nodeTick when the current poll began
  gaveUp,    \* history: a poll on this connection returned 0
  misread    \* history: bytes from the middle of a packet passed for a tick

client == <<phase, pc, retries, tick, txTick>>
history == <<seen, pollStart, gaveUp, misread>>
vars == <<nodeTick, connection, client, history>>

Running == {"schedule", "wait", "verify"}
Ended == {"sent", "refused", "looked", "aborted"}

TypeOK ==
  /\ ConnectionTypeOK
  /\ phase \in Running \cup Ended
  /\ pc \in {"peers", "computors", "broadcast", "send", "recv", "check", "end"}
  /\ retries \in 0..Retries
  /\ tick \in Nat /\ txTick \in Nat
  /\ seen \in Nat /\ pollStart \in Nat
  /\ gaveUp \in BOOLEAN /\ misread \in BOOLEAN

Init ==
  /\ nodeTick \in 0..MaxTick
  /\ up = <<>> /\ down \in Greetings /\ pushed = 0 /\ synced = TRUE
  /\ phase = "schedule" /\ pc = "peers"
  /\ retries = 0 /\ tick = 0 /\ txTick = 0
  /\ seen = 0 /\ pollStart = nodeTick /\ gaveUp = FALSE /\ misread = FALSE

-----------------------------------------------------------------------------
(* An exception nobody catches: main() prints it and the command ends.      *)
Abort ==
  /\ phase' = "aborted" /\ pc' = "end"
  /\ UNCHANGED <<nodeTick, retries, tick, txTick, history>>

(* make_qc: a connection of its own for the next phase, or an exception.    *)
MakeQc(next) ==
  \/ /\ Open
     /\ phase' = next /\ pc' = "peers" /\ gaveUp' = FALSE
     /\ UNCHANGED <<nodeTick, retries, tick, seen, pollStart, misread>>
  \/ /\ UNCHANGED connection
     /\ phase' = "aborted" /\ pc' = "end"
     /\ UNCHANGED <<nodeTick, retries, tick, history>>

(* The first lines of getTickNumberFromNode.                                *)
StartPoll == pc' = "send" /\ retries' = 0 /\ pollStart' = nodeTick

(* The constructor waits for the handshake ...                              *)
ReceivePeers ==
  /\ pc = "peers"
  /\ \/ /\ Matches("peers") /\ pc' = "computors"
        /\ UNCHANGED <<nodeTick, phase, retries, tick, txTick, history>>
     \/ Skips("peers") /\ UNCHANGED <<nodeTick, client, history>>
     \/ (TimesOut \/ CutShort \/ EndReceived) /\ Abort

(* ... then for a RequestComputors that may never come: it catches the      *)
(* logic_error of a timeout, and no EndResponseReceived.                    *)
ReceiveComputors ==
  /\ pc = "computors"
  /\ \/ /\ Matches("computors") \/ TimesOut \/ CutShort
        /\ IF phase = "wait"
             THEN pc' = "broadcast" /\ UNCHANGED <<retries, pollStart>>
             ELSE StartPoll
        /\ UNCHANGED <<nodeTick, phase, tick, txTick, seen, gaveUp, misread>>
     \/ Skips("computors") /\ UNCHANGED <<nodeTick, client, history>>
     \/ EndReceived /\ Abort

(* makeStandardTransactionInTick sends the transaction; waitUntilFinish is  *)
(* an argument of the command line.                                         *)
Broadcast ==
  /\ pc = "broadcast"
  /\ Deliver("tx") \/ Lose
  /\ \/ StartPoll /\ UNCHANGED phase
     \/ phase' = "sent" /\ pc' = "end" /\ UNCHANGED <<retries, pollStart>>
  /\ UNCHANGED <<nodeTick, tick, txTick, seen, gaveUp, misread>>

-----------------------------------------------------------------------------
(* getTickInfoFromNode: the request, then the answer or zeros.              *)
SendRequest ==
  /\ pc = "send"
  /\ Deliver("tick") \/ Lose
  /\ pc' = "recv"
  /\ UNCHANGED <<nodeTick, phase, retries, tick, txTick, history>>

GetTick ==
  /\ Matches("tick")
  /\ tick' = Arrived.tick /\ seen' = Arrived.tick
  /\ pc' = "check"
  /\ UNCHANGED <<nodeTick, phase, retries, txTick, pollStart, gaveUp, misread>>

(* Mutant of GetNothing: the catch blocks leave the last result.            *)
GetNothingKeepsTick ==
  /\ TimesOut \/ CutShort \/ EndReceived
  /\ pc' = "check"
  /\ UNCHANGED <<nodeTick, phase, retries, tick, txTick, history>>

GetNothing ==
  /\ TimesOut \/ CutShort \/ EndReceived
  /\ tick' = 0
  /\ pc' = "check"
  /\ UNCHANGED <<nodeTick, phase, retries, txTick, history>>

(* A misaligned stream: the header is noise.  Whatever is made of it, the   *)
(* outcome is an exception (0) or some number taken for a tick.             *)
GetNoise ==
  /\ ~synced
  /\ tick' \in 0..MaxTick
  /\ misread' = (misread \/ tick' # 0)
  /\ pc' = "check"
  /\ UNCHANGED <<nodeTick, connection, phase, retries, txTick, seen, pollStart, gaveUp>>

ReceiveTick ==
  /\ pc = "recv"
  /\ \/ GetTick
     \/ GetNothing
     \/ GetNoise
     \/ Skips("tick") /\ UNCHANGED <<nodeTick, client, history>>

-----------------------------------------------------------------------------
(* getTickNumberFromNode: while (tick == 0 && retryCounter++ < 3)           *)
PollGoesOn == tick = 0 /\ retries < Retries

Retry ==
  /\ pc = "check" /\ PollGoesOn
  /\ \/ /\ Open
        /\ retries' = retries + 1 /\ pc' = "send" /\ gaveUp' = FALSE
        /\ UNCHANGED <<nodeTick, phase, tick, txTick, seen, pollStart, misread>>
     \/ UNCHANGED connection /\ Abort

PollReturns == pc = "check" /\ ~PollGoesOn

(* makeStandardTransaction: the poll's result is used whatever it is.       *)
Schedule ==
  /\ PollReturns /\ phase = "schedule"
  /\ txTick' = tick + Offset
  /\ MakeQc("wait")

(* Mutants of StillWaiting: the wait ends at the tick of the transaction,   *)
(* or only at the tick after it.                                            *)
StillWaitingOffByOne == tick < txTick
StillWaitingForOneTick == tick # txTick + 1

(* makeStandardTransactionInTick: while (currentTick <= tx.tick)            *)
StillWaiting == tick <= txTick

PollAgain ==
  /\ PollReturns /\ phase = "wait" /\ StillWaiting
  /\ StartPoll
  /\ gaveUp' = (gaveUp \/ tick = 0)
  /\ UNCHANGED <<nodeTick, connection, phase, tick, txTick, seen, misread>>

WaitOver ==
  /\ PollReturns /\ phase = "wait" /\ ~StillWaiting
  /\ MakeQc("verify")
  /\ UNCHANGED txTick

(* checkTxOnTick refuses to look when its own poll is not past the tick.    *)
CheckTxOnTick ==
  /\ PollReturns /\ phase = "verify"
  /\ phase' = IF tick <= txTick THEN "refused" ELSE "looked"
  /\ pc' = "end"
  /\ UNCHANGED <<nodeTick, connection, retries, tick, txTick, history>>

-----------------------------------------------------------------------------
Client ==
  \/ ReceivePeers \/ ReceiveComputors \/ Broadcast
  \/ SendRequest \/ ReceiveTick \/ Retry
  \/ Schedule \/ PollAgain \/ WaitOver \/ CheckTxOnTick

Node == (NodeServe \/ NodePush \/ NodeAdvance) /\ phase \in Running /\ UNCHANGED <<client, history>>

Terminated == phase \in Ended /\ UNCHANGED vars

Next == Client \/ Node \/ Terminated

Spec == Init /\ [][Next]_vars

(* The client is one thread that always runs; the node serves its requests  *)
(* and its tick goes on.                                                    *)
Serving == NodeServe /\ phase \in Running /\ UNCHANGED <<client, history>>
Ticking == NodeAdvance /\ phase \in Running /\ UNCHANGED <<client, history>>
FairSpec == Spec /\ WF_vars(Client) /\ WF_vars(Serving) /\ WF_vars(Ticking)
-----------------------------------------------------------------------------
(* A poll that ends on a number was answered by the node during that poll,  *)
(* unless an earlier poll on this socket gave up and left its answer behind *)
(* (getTickNumberFromNode returns 0 without reconnecting a last time).      *)
FreshAnswer ==
  pc = "check" /\ tick # 0 /\ ~gaveUp /\ synced => tick >= pollStart

(* makeStandardTransactionInTick leaves its loop, and checkTxOnTick looks   *)
(* the transaction up, only once the node is past the scheduled tick.       *)
WaitSound ==
  phase \in {"verify", "refused", "looked"} /\ ~misread => nodeTick > txTick

(* After the wait, checkTxOnTick says "Please wait a bit more" only when its *)
(* own poll got no answer: its fresh connection never reports an earlier    *)
(* tick than the one that ended the wait.                                   *)
RefusedOnlyOnSilence == phase = "refused" /\ ~misread => tick = 0

(* Noise is taken for a tick only by the first attempt of a poll: the       *)
(* reconnection of a retry always puts the reader back on a packet boundary.*)
AlignedRetry == [][misread' # misread => retries = 0]_vars

(* A failure of the link: an answer that is on its way does not arrive in   *)
(* time, or the node breaks off; a request that gets lost.                  *)
Fault ==
  /\ pc' # pc
  /\ \/ pc \in {"send", "broadcast"} /\ up' = up /\ phase' = phase
     \/ pc = "recv" /\ tick' = 0 /\ nodeTick # 0 /\ (up # <<>> \/ down # <<>>)
     \/ pc' = "end" /\ phase' = "aborted"

(* Once the link stops failing, a command that waits for a tick the node    *)
(* goes past does end: the retries and the loop of the caller never poll    *)
(* for ever.                                                                *)
WaitEnds ==
  (<>[][~Fault]_vars /\ [](txTick < MaxTick)) => <>(phase \in Ended)

(* makeStandardTransaction implements TransactionOutcome: without misaligned *)
(* reads every answer it acts on is a tick the node had reached, never lower *)
(* than the last one, on whatever connection it came.                        *)
Outcome == INSTANCE TransactionOutcome
  WITH nodeTick <- nodeTick, phase <- phase, txTick <- txTick, seen <- seen,
       MaxTick <- MaxTick, Offset <- Offset
ImplementsOutcome == Outcome!OSpec
=============================================================================
