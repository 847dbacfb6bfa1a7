# Formal verification of qubic-cli

qubic-cli is the command line client of the Qubic network. One run of it
executes one command: it opens TCP connections to a node, sends requests or
signed transactions, reads packets and prints. It is a single thread, and almost
everything that can go wrong comes from the other side of the socket: answers
that are late, partial, out of order or not there, packets nobody asked for, a
chain that drops transactions, and a tick that goes on while the client looks.
The project models those exchanges in TLA+, checks them with TLC and proves the
central ones with TLAPS.

## 1. Inventory

| Component | Source | State | Operations | Correct when |
| --- | --- | --- | --- | --- |
| Connection | `connection.cpp/.h` | socket, position in the byte stream, handshake data | connect and handshake, `resolveConnection`, `sendData`, `receiveData`, `receivePacketWithHeaderAs<T>` (skips other types, throws on END_RESPOND and on timeouts), `getLatestVectorPacketAs<T>` | an answer is taken for the request it answers, or for none |
| Sending and waiting | `wallet_utils.cpp` 182-257, `node_utils.cpp` 20-53, 470-531 | current tick, scheduled tick, retry counter | poll the tick (3 reconnections), schedule, broadcast, wait, check | the wait ends after the scheduled tick and not before; it does end |
| File transfer | `file_upload.cpp`, `node_utils.cpp` 533-666 | header and fragment hashes; on download the buffer, the next hash, the data | upload header, upload fragment (retry until included), download from the trailer back | the list printed is a complete chain; a file written is one that was uploaded |
| Tick data | `node_utils.cpp` 294-531, 983-1310 | received transactions, the tick data file | get tick data, get transactions, save, read back in order, find | a transaction is reported missing only when it is; losses are reported |
| Quorum votes | `node_utils.cpp` 695-981 | votes of a tick and the next, groups | collect, verify salts, group | groups are classes of like votes; salts are checked against a quorum |
| Oracle queries | `oracle_utils.cpp` | IDs, metadata, query and reply of one request | IDs of a tick, one query, ranges, subscriptions, statistics | output belongs to its request and is complete; the command ends |
| Revenue | `node_utils.cpp` 129-292 | scores, factors | threshold, factor, integer roots | same result as the node's end-of-epoch computation |
| Special commands | `node_utils.cpp` 1339-1800, 2300-2490 | nonce | send, match the echo; synchronise the clock | a success is reported for one's own command |
| Node and computor lists, dumps | `node_utils.cpp` 1806-2112 | lists | crawl, check signature, copy | no duplicates, bounded crawl |
| Balances, contract functions, assets | `wallet_utils.cpp`, `asset_utils.cpp` | receive buffer | entity, `runContractFunction`, custom transactions | walks stay inside the received bytes |
| QPI function tests | `test_utils.cpp`, `qpi_adapter.cpp` | last tick, previous tick data | schedule, wait, compare | compares data of one tick |
| Contract formats | `sc_utils.cpp` | format text | size, alignment, encode, decode | sizes agree with the contract's structures |
| Quottery client | `quottery.cpp/.h` | what the last reads of contract, event and balance returned | orders, votes, publish, finalize, dispute, resolve, claim, clean up | what is sent was allowed, and paid for, at some time of the command |
| Proposals and votes | `proposal.cpp/.h`, `contracts.h` | the proposal, indices, fee and results that were read | parse and check a proposal or a vote, set, clear, list, vote, results, past payments | a vote counts for what was shown; only what the contract takes is sent and paid for |
| Contract clients | `qx`, `qutil`, `qearn`, `qvault`, `msvault`, `qbond`, `qrwa`, `qswap`, `nostromo`, `escrow` | none between commands | read a contract, compute a price, send | price and parameters fit the contract's state; lists are whole |
| Command line | `main.cpp`, `argparser.h`, `sanity_check.h`, `global.h` | the globals `g_*` | parse, check, dispatch | one command with its parameters |
| Cryptography | `k12_and_key_utils.h`, `key_utils.cpp`, FourQ | none | hash, sign, verify, identities | not modelled: a hash is the hashed value |

**Interactions.** All components reach the node through `QubicConnection`; a
command uses one or several connections, one after the other. Tick polling
(`getTickNumberFromNode`) is shared by almost all senders. Commands talk to each
other only through files (tick data, computor list, vote counters) and through
the chain. `main()` catches every exception, prints it and ends the command.

**What is hard.** There are no threads, so the interleavings are those of client
and node: a timeout racing a late answer, a reconnection between request and
answer, requests and answers of several polls on one socket. Failures are silent
(the result of `sendData` is ignored, a timeout becomes tick 0 or a return code),
so a retry may repeat what was done. The node's tick advances between any two
steps, and so do contracts between two reads of a command. A read cut in the middle of a packet leaves the stream out of step. The
40 hazards of `PROJECT.json` name these and others at their lines, each with the
properties that would catch it; section 5 has those no property covers. Where
nothing is concurrent the hard part is size: some 200 options, as many commands and
their checks are hand-written lists that must agree.

## 2. Modules

### QubicConnection: the stream

`nodeTick` is the node's tick; `up`, `down` are the requests and packets on
the current socket, `synced` says that the next byte to read begins a packet.
`Open` is connecting (constructor and `resolveConnection`): the old stream is
gone. `Deliver` and `Lose` are the outcomes of `sendData`, whose result no caller
looks at. `Matches`, `Skips`, `EndReceived`, `TimesOut` and `CutShort` are what one
turn of the loop of `receivePacketWithHeaderAs<T>` can come to.
`NodeServe`, `NodePush` and `NodeAdvance` are the node (external): it serves the
requests of a connection in order and its tick never falls.
A packet is read whole or cut; after a cut everything read is noise until the
next `Open`. The module has no `Init` or `Next` of its own: TransactionWatch
composes it with a client.

### TransactionWatch: one transaction, three connections

`makeStandardTransaction` polls the tick on one connection, `makeStandardTransactionInTick`
sends and waits on a second, `checkTxOnTick` polls on a third. `phase` is the
function, `pc` the place in it. `SendRequest` and `ReceiveTick` are
`getTickInfoFromNode`; `Retry` and `PollReturns` are the loop of
`getTickNumberFromNode`; `Schedule`, `PollAgain`, `WaitOver` and `CheckTxOnTick`
are what the callers do with its result. An exception ends the command (`Abort`):
`EndResponseReceived` during the handshake, or a connection that cannot be made.
`seen`, `pollStart`, `gaveUp` and `misread` are history.

The tick polling modelled here is what a timed-out poll really does: the first
attempt runs on whatever the stream still holds, each retry on a new socket, and
the last failure leaves its request on the socket for the next poll.

### TransactionOutcome: the abstract specification

What the command promises without a connection in sight: learned ticks never
fall and were reached by the node, the wait ends on a learned tick past the
schedule, a verdict follows. TransactionWatch implements it with its own
variables `nodeTick`, `phase`, `txTick` and `seen` (`ImplementsOutcome`).

### FileTransfer

The chain is external: a transaction is included at its tick or never. The
hash of a transaction is the transaction. `SendHeader`, `SendFragment` schedule
at any tick the node had reached (or 0, a failed poll) plus the offset;
`VerifyHeader`, `VerifyFragment` take any outcome of `_GetTxInfo`, which is 1 for
everything but success. `Restart` is a process that died and was started again.
The download keeps the buffer across failed reads, as the code does.

### TickTransactions

`job` is `checkTxOnTick` or `getTickDataToFile` followed by `checkTxOnFile`.
The receive loop is modelled header by header, with its count compared one
header late. The payload of a packet of another type is not skipped by the
code: from then on headers may be read from anywhere (`Noise`, `noisy`).
`clean` is history: the whole answer was sent and arrived.

### QuorumVotes

Two requests on one connection; `late` says that votes for the first were left
for the second. `AddVote`, `UniqueVotes`, `Largest`, `QuorumVote` and `SaltsAgree`
are pure operators. A vote has the parts that the code tells apart: the previous
state (four digests in the code, one value here), the transaction digest, the
digest it expects next, and what it committed to by its salted digests.
MCQuorumVotes gives the ballots.

### OracleQueries

A range of ticks on one connection: IDs, then each query. The dejavu, a random
number in the code, is the number of the request: collisions are left out. The
loop of `receiveQueryInformation`, which keeps an old header after a packet that
does not match, is modelled as it is (`ReceiveForeign`, `ReadPayloadAgain`).

### QuotterySession

One command of `-qtry`: `pc` is the next thing it does (read the parameters, read
the event, poll the tick, look for a position, look at the balance, send), `basic`
and `info` are the structures it fills, `sent` is the transaction. Each of the ten
commands is an action of its own with the order of its reads and checks; orders
and votes send what they read, whatever it was. `ReadBasic` and `ReadEvent` have
the outcomes of `receivePacketWithHeaderAs`: an answer, one without a payload (zeros), none in
time (zeros again, for the event with `resultByGO` = -1), and `late` keeps an
answer that comes after the timeout for the next read of that packet type.
`Abort` is an exception: END_RESPOND, no connection, no balance.

The contract and the ledger (`World`) are external: an event is created, ends, is published,
disputed, finalized and cleaned up; governance changes operator and deposit; the
caller trades. They do what the checks of `quottery.cpp` expect of them, and go on
between any two steps. `seen`, `asked` and `most` are history: a client can promise
that what it sends was right at some time of the command, not that it still is.

`publishTickTime` is `uint32_t` and 0xffffffff for a finalized event, for which
`+ 1000` wraps around; `Wrap` is 2^32 there.

### Tables, CommandOptions, CommandDispatch, CommandHelp and CommandLine

The front of the program. CommandOptions is `parseArgument` as a table: a row per
option with the words it checks for, those it reads, and the global and the cast of
each. CommandDispatch is the switch of `run()`: the checks of a command and the
globals it passes on. CommandHelp is what `print_help` says of the number of words.
Tables has the operators that put tables together from rows; `:>` and `@@` are those of
TLC, written out there because the provers do not know what those of TLC mean.
CommandLine is the machine over them: options in any order (`Setting`, `ConfFile`,
`FlagOption`, `UnknownWord`), the block of a command (`Command`, with the words
that are there and one of them odd), `readConfigFile`, and `DispatchCommand`.
`settings` and `globals` are the `g_*`. A word is a number; as a text it says only
whether a check of `sanity_check.h` would pass it.

### Proposals and ProposalSession

Proposals has the pure part of `proposal.cpp`: what `parseProposalString` makes of a
string (`Parsed`, `ParseOk`), `printAndCheckProposal` (`CheckProposal`), `parseVoteValue`
and `checkVoteValue`, the verdict of `printVotingResults`, the order of past payments.
ProposalSession is one command against a contract that goes on: `SetProposal`,
`ClearProposal`, `GetProposalIndices` page by page, `PrintProposal`, `GetProposal` and
`Send` for a vote, fees read before. `aligned` says that the next byte of the connection
begins an answer: a packet of another type is read at the size of the awaited one and
leaves the rest. The contract (external) stamps proposals with a tick and counts a
vote only if type and tick are still those of the vote. `ToForm` is `convertProposalDataToYesNo`,
which cuts what the other form has no room for. MCProposals has strings,
votes, results and rings.

### ContractSession

One command of escrow, msvault, qutil or qrwa: `pc` is its next read. `ReadRequestedQU`
and `ReadSharesFees` are the two reads of `escrowAcceptDeal`; `QueryVaults`,
`QueryAgain`, `QueryFailed`, `QueryEmpty` the lookups of `msvaultRegisterVault`;
`GetBalances16`, `TryBatchAgain`, `BatchFailed` the batches of `-getbalancesmany`;
`Totals`, `GetPayouts`, `NoPayouts`, `Dividends` the pages of qrwa; `ReadFee` the fees of
qutil. What is checked before the first read is `Refused`, what is sent is `Built`, with
one operator per function that builds a transaction. Contracts (external) change
only where the command can see it. MCContracts has the inputs.

## 3. Runs

| Run | States | Shows |
| --- | --- | --- |
| WatchSafety | 212,095 | fresh answers, sound wait, refusal only on silence, aligned retries |
| WatchLive | 60,662 | refinement of TransactionOutcome, the wait ends |
| FileSafety | 340,339 | links resolve, a finished upload is a chain, a written file was uploaded |
| TickSafety | 416,310 | missing means absent when slots have no gap; the loop leaves nothing of an answer to the next request |
| QuorumSafety | 945,184 | groups are classes, salts need a quorum of the next tick |
| QuorumSalts | violated | the body digest is not checked |
| OracleSafety | 18,720 | output is answered and complete, the command ends |
| QuotterySafety | 2,795,664 | own answers, authority, published results, the dispute window, deposits, balances |
| CommandSafety | 318,225 | settings, seeds, counts of words, globals passed, amounts, contracts of this port |
| CommandConf | violated | the escrow options do not read the file of `-conf` |
| ProposalSafety | 1,493,222 | votes count as shown and fit, proposals arrive as checked and are paid for, lists complete, verdicts exact |
| ContractSafety | 845,798 | what is sent is paid in full, owners have room, balances and payouts are complete |

The two violated runs are findings, with the quoted lines in `PROJECT.json`.

**Bounds.** *Watch*: `MaxTick` = 3 with offset 1 lets the schedule be in the past,
in the present and after the last tick of a poll, and the tick move between
any two of the three connections; `Retries` = 3 is the code's; one pushed packet
per connection (another type or END_RESPOND) meets every read. WatchLive leaves cut reads out because
`ImplementsOutcome` does not hold with noise taken for a tick. *File*: two-byte
fragments and files of 4 and 5 bytes give an exact multiple and a short last
fragment, two and three fragments; ticks 0-4 and one restart let a fragment be
dropped, resubmitted and included twice while an earlier upload is pending.
*Tick*: four slots in groups of two, three transactions: all positions of gaps,
counts below and above a group, all orders and losses; one packet that does not
belong. *Quorum*: three computors, quorum 2 (the smallest with a minority); six
ballots and three for the next tick. *Oracle*: three IDs over two ticks in
chunks of two, data in two pieces, one foreign packet at any place.
*Quottery*: events 0 and 1, because zeros look like event 0; two deposits and a
balance below, at and above them; a window of two ticks with offset 1 and four
ticks, so that both polls come before, in and after it; one change by governance
or a trade at any place; `Wrap` = 16 is above every tick. *Command*: every option
with every number of words up to one more than it reads and one odd word at every
place; `MaxUnusual` = 2 puts two other options before a usual command, or one before
an unusual one. `Wrap8` and `Wrap16` are the real ones; `Wrap32` is 2^20, above
`Wrap16` and within TLC's integers. *Proposal*: amounts -2..3 with the least one
standing for the value the code reserves; numbers of options at and around the limit of
each class; three slots in pages of two; two changes, so that a slot is replaced
between two reads and again; ticks 2 and 3, a vote is counted in the tick of a change or
after it. *Contract*: two assets on a side and one that is too many; three owners for a vault
of two; lists within, at and beyond a batch of two, with all six attempts; two pools,
rings within and at a page and full; fees that change; `Word` = 16 with factors up to 5
wraps; two changes.
FileSafety, CommandSafety, CommandConf, ProposalSafety and ContractSafety say
CHECK_DEADLOCK FALSE: their commands end. All other modules have `Terminated`.
`TypeOK` of TransactionWatch, QuotterySession, FileTransfer, QuorumVotes, OracleQueries and
CommandLine and `TickTypeOK` of TickTransactions are proved; the proofs about ProposalSession and
ContractSession carry what they need of the types in their invariants, and `TypeOK`
is stated there for the reader.

**Fairness.** `WF_vars(Client)`: the client is one thread and each of its waits is
bounded by a socket timeout, so that it always takes a step. For WatchLive also
`Serving` and `Ticking`: the node answers the requests it got and the network
goes on. They are assumptions on the node, and `WaitEnds` assumes beyond them
that the link stops failing for good at some time (`Fault`); without that no
retry can help. Nothing is assumed of the order of node and client.

## 4. Proofs

**TransactionWatch.** `TransactionWatch_proofs` proves for all values of `MaxTick`, `MaxPush`,
`Offset`, `Retries` and `Cut`:

| Theorem | Statement |
| --- | --- |
| TypeCorrect | `Spec => []TypeOK` |
| Inductive | `Spec => []IInv` |
| AnswersAreFresh | `Spec => []FreshAnswer` |
| WaitIsSound | `Spec => []WaitSound` |
| RefusalIsSilence | `Spec => []RefusedOnlyOnSilence` |
| RetriesAreAligned | `Spec => AlignedRetry` |
| OutcomeImplemented | `Cut = FALSE` implies `Spec => ImplementsOutcome` |

The assumptions are `ConnectionAssumption` and `WatchAssumption`: the constants
are natural numbers and `Cut` is a Boolean.

*The argument.* `WaitSound` is not inductive: it speaks of the node's tick while the
code compares an answer. `IInv` adds what connects them. `InOrder`: ticks on a
stream are ascending, between `seen` and `nodeTick`; it survives reconnections
because a new stream holds no answer, and answers because they are appended with
the node's present tick. `Acted`: what a poll returns is `seen`, so that the
phases after the wait have `seen > txTick`; with `seen <= nodeTick` this is
`WaitSound`, and since `seen` never falls a later answer cannot be refused.
`Aligned`: a misaligned stream is empty and is only read while `retries = 0`.
`OwnAnswers`: until a poll has given up, the socket holds at most the request or
the answer of this poll and the answer is not older than the poll. `Ends`
and `Sends` relate `phase` and `pc`. Each part has a lemma of its own over the moves a
client or node step can make of the connection; `OutcomeStep` goes through the
actions of `Next`.

**QuotterySession.** `QuotterySession_proofs` proves all properties of QuotterySafety
for all values of the constants that meet `QuotteryAssumption` (natural numbers, and
ticks, window and offset that fit in the word):

| Theorem | Statement |
| --- | --- |
| SessionTypeCorrect | `Spec => []TypeOK` |
| SessionInductive | `Spec => []IInv` |
| AnswersNeverCross | `Spec => []AnswersMatch` |
| OperatorAuthorised | `Spec => []Authorised` |
| ResultsStand | `Spec => []ResultStands` |
| FinalizesAfterWindow | `Spec => []WindowOver` |
| DepositsAreAsked | `Spec => []PaysWhatIsAsked` |
| SpendingBacked | `Spec => []Backed` |

*The argument.* The properties speak of a command that has sent; `IInv` says what it has
established at each place before. `Kept`: the history holds the present, so that a
check that passes now is remembered. `Route`: whoever reads the event has no
late answer on the socket, for a failed first read ended the command. `Checked`:
the facts behind each place (`AfterBasic`, `AfterEvent`, the balance). `Windows`:
the contract finalizes undisputed results only past their window, which is what saves
`tryfinalizeevent` where `publishTickTime + 1000` wraps; `InWindow` carries it, or
the comparison that did not wrap, to the poll that the transaction's tick is taken
from. `WorldInv` shows that what goes on in between undoes none of them; there is one
lemma per kind of read and one per command.

**FileTransfer.** `FilesAndTicks_proofs` holds the proofs about FileTransfer and
TickTransactions, which both put something back together from transactions and share the
lemmas about division and least numbers. It proves, for every set of file sizes, every size of a
fragment, offset, number of ticks and of restarts (`FileAssumption`: natural numbers, and no
file or fragment is empty, none is larger than an `int` holds):

| Theorem | Statement |
| --- | --- |
| TypeCorrect | `Spec => []TypeOK` |
| LinksHold | `Spec => []LinksResolve` |
| UploadIsComplete | `Spec => []UploadedChain` |
| DownloadIsSound | `Spec => []DownloadSound` |

*The argument.* `ChainInv` is about the transactions and not about the program: each that
is pending or included is the header of a file or the segment of one, and continues an
included transaction of the same file with the index before its own. It survives
restarts and resubmissions because a fragment is only built on what was verified. `UploadInv`
ties the locals of `uploadFile` to it, so that the printed list spells the file
(`SegmentsSpellFile`, by induction over the fragments). `Reading` is the hard part of
`downloadFile`, which keeps its buffer after a failed read: while no read has failed the
data is a piece of a file that begins with the fragment in the buffer; after one the buffer
is behind the loop, and stays behind, because every round puts at least a byte in front.

**TickTransactions.** `FilesAndTicks_proofs` proves, for every number of slots, flags in a
byte of the request, pushed packets and every set of transactions (`TickAssumption`: the
first two are positive, and the packets that are no transaction of the tick differ):

| Theorem | Statement |
| --- | --- |
| TickTypeCorrect | `TickSpec => []TickTypeOK` |
| TickInvariance | `TickSpec => []TickInv` |
| MissingMeansAbsent | `TickSpec => []MissingIsAbsent` |
| LoopReadsTheEnd | `TickSpec => []EndIsRead` |

*The argument.* In a tick without a gap the slots in use are `1..CountTx`, so that the count
of `checkTxOnTick` and the last index of `getTickDataToFile` agree, and the rounded-up bytes of
the request clear the flags of them all. `CleanInv` says where in the answer the loop is as
long as nothing was lost or pushed: the transactions kept, the packet whose header was read and
what is left on the socket are, in this order, one delivery `h` of the whole tick. The loop
stops when it has kept nTx, or on the END_RESPOND behind them; both are the end of `h`.
`Dense` is what it stands on: without it the first `CountTx` slots are not the slots in use.
`EndIsRead` needs no `Dense`: it asks whether the loop, which compares its count only after
the next header, is right to stop there. `StreamInv` counts: what is left of the answer, what was
kept and the packet whose header was read are together no more than nTx, an END_RESPOND and
what was pushed; so a loop that has kept nTx leaves at most what was pushed. While
nothing was, `Regular` says that the END_RESPOND is still to come or was read last.

**QuorumVotes.** `QuorumVotes_proofs` proves, for every finite set of computors, every set of
votes and every quorum of more than half (`QuorumAssumption`; the code has 451 of 676):

| Theorem | Statement |
| --- | --- |
| TypeCorrect | `Spec => []TypeOK` |
| GroupsAreTheClasses | `Spec => []GroupsAreClasses` |
| SaltsAreOfQuorum | `Spec => []SaltsNeedQuorum` |
| SaltsAreOfNextTick | `Spec => []SaltsOfNextTick` |

*The argument.* `Partition` says what `getUniqueVotes` has after the first n votes: a group
for each class of like votes with all who cast one. It is proved by induction over n
for every sequence. `StreamInv` says that what is collected comes from one cast, of different
computors for one tick, even when it is the late answer to the first request; so
voters of a group are counted once, and the largest group is the only one that can have a
quorum. `late` is what the exception in `SaltsOfNextTick` is for.

**OracleQueries.** `OracleQueries_proofs` proves, for every range of ticks, set of IDs, size of a
chunk, number of pieces and number of foreign packets (`OracleAssumption`):

| Theorem | Statement |
| --- | --- |
| TypeCorrect | `Spec => []TypeOK` |
| PrintedAreAnswers | `Spec => []PrintedIsAnswered` |
| DoneMeansAll | `Spec => []DoneIsComplete` |

*The argument.* `IdsLeft` and `InfoLeft` say what is left on the stream of the one answer
under way: foreign packets, then the chunks or pieces that are not read yet, then its
end. Nothing is left when the next request is sent, and no packet has the number of a
later one; a packet with the dejavu of the request is therefore the next of its
answer. `PrintedInv` adds the ticks before: what is printed is theirs (`Before`) and that
of the IDs already taken from this tick's list.

**ProposalSession.** `ProposalSession_proofs` proves all properties of ProposalSafety, for all
values of the constants that meet `RangeAssumption`, `SessionAssumption` (slots from 0, ticks and
fees that are natural numbers, proposals with four numbers), `InputsAssumption` (the shapes of a
string's parts and of results) and `RingsAssumption`:

| Theorem | Statement |
| --- | --- |
| VotesCountAsShown | `Spec => []VoteCountsAsShown` |
| VotesFit | `Spec => []VoteFits` |
| FeesPaid | `Spec => []FeePaid` |
| OnlyValidIsSet | `Spec => []SetIsValid` |
| VerdictsAreSound | `Spec => []VerdictSound` |
| ListsAreComplete | `Spec => []ListComplete` |
| PaymentsAreNewestFirst | `Spec => []NewestFirst` |

*The argument.* `VoteCountsAsShown` holds because the tick of a proposal identifies it, and
`Since` says why: the slot still has the proposal that was shown, or it was set or
cleared in a later tick. `SetSlot` and `ClearSlot` change a slot at most once in a tick,
so that a proposal set anew has a tick above the one shown, and `Execute` compares the tick. `AsRead`
connects shown, sent and counted; with `CheckVotes` of the proposal shown it is
`VoteFits`. `Asked`: the fees that were read are in the history from then on. Most steps of the
command are `Quiet`, which has one lemma for all of them.

`SetOkFacts` compares `printAndCheckProposal`, check by check, with `WellFormed`, what the contract's header
allows of the type and the values, and `ToFormFacts` shows that a proposal with two options loses
nothing in the yes/no form but the epoch of a transfer in a later one; `Thirds` shows that the divisions by three of `printVotingResults` lose nothing; `DownwardsFalls` and
`PaymentsFall` follow the ring from its newest entry. `Written` is the assumption on a ring: written in
the order of the ticks, around, up to its newest entry; several payments may have its tick, on
both sides of the end of the array. `WrittenOrder` goes through the positions the program
reads one after the other: only when such a tick is on both sides of an older one (`Straddles`)
can an entry be below an older one, and it is then of the newest tick. A list is the most involved: `ListCover` says that what it is about is among
the indices read, or above the last of them (`ListOrder`: pages ascend), and then printed or
still to be printed; `PrintedAsTheyWere` that each was read as it was in its slot at some time.

**ContractSession.** `ContractSession_proofs` proves all properties of ContractSafety, under
`ContractAssumption`, `CommandsAssumption` (every command has an operation and words of its shape;
a deal is created with natural amounts of assets, since the code passes a sign through
unchecked) and `RingsAssumption` (a ring has its newest payout first and every payout one
place). Epochs are numbers below 2^16, where the cast of the filter to `uint16_t` is the identity:

| Theorem | Statement |
| --- | --- |
| AllIsPaid | `Spec => []PaidInFull` |
| OwnersHaveRoom | `Spec => []OwnersHadRoom` |
| BalancesAreRead | `Spec => []BalancesRead` |
| PayoutsAreComplete | `Spec => []PayoutsComplete` |

*The argument.* `LookedUp`: an owner that is no longer left to look up had room or could not be
read; the history `low` never loses one, whoever joins another vault meanwhile.
`Priced`: a price that was found is the deal's, so that two reads that both found it agree.
`FeeRead`: a fee in hand was asked, or it came with no answer and is zero and `unread` says so; the
sums over rows and shares are recursive functions, whose values are shown by induction.
`BatchInv`: n batches have been printed, each from one moment (`OfOneMoment`).
`PageInv`: of what was in a ring all the time, everything before the next page's place is
printed. New payouts move it to later places only, so it cannot slip behind; while nothing
is paid, places and payouts are one to one (`Came`), so that none is printed twice.

**CommandLine.** `CommandLine_proofs` proves, for all widths of the integers that meet
`WidthsAssumption` and any bound on the unusual options (`MaxUnusualAssumption`):

| Theorem | Statement |
| --- | --- |
| SettingsAreResolved | `Spec => []SettingsResolved` |
| CommandTypes | `Spec => []TypeOK` |
| SeedsAreChecked | `Spec => []SeedChecked` |
| AmountsAreAsTyped | `Spec => []AmountAsTyped` |
| ContractsAreKnown | `Spec => []ContractKnownHere` |
| PassedAreRead | `Spec => []PassedIsRead` |
| CountsAreDocumented | `Spec => []DocumentedCounts` |

*The argument.* `SettingsAreResolved` does not open the tables. `Words`: before the file is read
a setting is what the words made of it (a default value that is typed stays out of the claim), and `-conf` is pending only for commands outside
`EscrowOptions`; the step that reads the file then establishes `Resolved`, which `run()`
does not disturb. The others go through the tables row by row. `SeedTable`: a command whose row
in the switch uses the seed has it checked, or is one of QVAULT or `-makeipobid`, which the
property excepts. `TableOk`: each block of `parseArgument` selects a command that has a case, its
contract parameter is parsed as one, and its amounts keep their width, with
`-sendtoaddressintick` excepted. `GlobalsFacts`: a global holds a word that was read,
converted as its parameter is. `CallInv` puts them together: what was selected stays true when
the file of `-conf` is read later, since that never gives a port back its default.

`PassedAreRead` compares the rows of two tables. The blocks of the switch have no command in
common (`BlocksAreApart`), so a row found in one block is the row of the switch (`Extends`).
`FitTable`: the globals a block reads are those handed to the function of its command, words
that may be missing are optional. `BlockNames` carries this from the row to what one line sets,
for each form of a row, and `GivenInv` from that step to the call.

`CountsAreDocumented` does the same with the rows of the help text (`CountTable`), spelled as
they are printed: a row checks for what the text gives, or is one of the exceptions of section 5. Then `TakenIsDocumented` and `DocumentedIsTaken` are the two
directions, for any number of words, and `CountInv` keeps them along a run; it adds that before
a command is found there is no line, which the step of the block needs.

**Induction.** What recursive functions compute (`Sum`, `Shown`, `UniqueVotes`, `Downwards`, the
segments of a file) is proved for every input: the property is given as the set of the numbers
that have it, and a least number outside this set (`WFMin`) cannot exist. Such functions are
written `f[n \in Nat] == ...`; no operator of a module with proofs is RECURSIVE.

**Only model-checked.** `WaitEnds` and `Ends`, which are liveness under fairness. All other
properties of the passing runs are stated by a theorem.

## 5. What the models leave out

Packets are read whole in all modules but TransactionWatch (a cut
ends them with an exception or a failure that is modelled as such). Ticks are natural
numbers: a sum that wraps at 2^32 is out of a node's range. Hashes have no
collisions, signatures verify or do not. Text output matters only where a
property names it. `-printtoscreen`, which replaces sending, is not modelled. Sockets left
open by `resolveConnection` (`connection.cpp:193`) are not counted. Components without a module are
listed with the reason in `PROJECT.json`.

*CommandLine*: `-qtry` drops words past 128; seeds of the file that are longer than 55
letters and lines without `=` are not told apart from others.
*Proposals*: a slot changes at most once in a tick, and only in ways that the reads of the
command can see; lists are of proposals of one kind and of CCF, QUTIL and QX (the
others have the same code). Left out are data a failed parse has already
written, the upper bound of a target epoch, and the voting results of a slot that changes
between the two reads (`proposal.cpp:905`: the tick is printed and not compared).
`ccfGetLatestTransfers` prints the newest last (1684-1688). A single vote value of a shareholder is sent unchecked (1148):
`VoteFits` speaks of values with a count. With `-force` a string that does not parse is
sent with epoch 0 and clears the own proposal (1325).
*ContractSession*: amounts are paid by contracts and ledgers that keep their promises: a deal
keeps its index and its price, a payout its place. Owners behind an empty word are not
read (`msvault.cpp:132`). Payouts of an epoch that is over are found only from the first
page on. A product of transfers that wraps passes the check (`qutil.cpp:592`).

*FileTransfer*: `file_upload.cpp` computes sizes in `int` (273-283); files of 2 GiB and more, for
which they are narrowed, are excluded by `FileAssumption`.

**Where the code and its texts disagree.** Two disagreements are findings with a run of their own.
The properties except the others by name, so that they claim no more than the code does:

| Text | Code | Excepted in |
| --- | --- | --- |
| `README.md:16`: parameters override `qubic.conf` | a default value that is typed is taken for one that was not, and a line of the file replaces it (`argparser.h:641`, `651`, `661`, `669`) | `SettingsResolved`: no claim where `typed[k] = "default"` |
| `argparser.h:534`: `-nostromogetInfoUserInvested` | parsed in small letters only (2717) | `DocumentedCounts`: `NotParsed` |
| `argparser.h:473`: the third word of `-qswapgetliquidityof` in brackets | the parser insists on it (1579) | `DocumentedCounts`: `Insists` |
| help: the fifth word of `-qutilcreatepoll` | read for polls of assets only | `DocumentedCounts`: `Insists` |
| help: words of `-setsolutionthreshold` and two test options | their blocks check fewer than they read | `DocumentedCounts`: `UncheckedWords` |
| `proposal.cpp:364-365`: TransferInEpoch "only supported in GQMPROP" | no check; a contract with the yes/no form gets it without the epoch (71-74, 1832) | `SetIsValid`: `Overlooked`, and its exception for what arrives |
| `proposal.cpp:136`, `190`: "ERROR: invalid destination address" | printed, and the proposal is sent | `SetIsValid`: `Overlooked` |
| `proposal.h:270`: the amount is not negative | not checked for GQMPROP (`proposal.cpp:200-201`) | `SetIsValid`: `Overlooked` |
| `proposal.h:178`: TransferInEpoch has "1" option | two (`proposal.cpp:365`, and the checks) | `WellFormed` has the code's two |
| `proposal.cpp:1735`: "most recent on top" | payments of the newest tick written around the end of the array: those at its beginning come last (1726-1733) | `NewestFirst`: `Straddles` |

**What other properties except**, each in its comment: `FreshAnswer` the polls after one that gave
up; `ImplementsOutcome` allows a schedule from tick 0; `SaltsOfNextTick` the runs in which late
votes are on the stream; `MissingIsAbsent` ticks with gaps; `Ends` a lone header that answers no
request; `SeedChecked` the bids of `-makeipobid` and QVAULT; `AmountAsTyped`
`-sendtoaddressintick`; `VoteFits` a value without a count; `OwnersHadRoom` and `PayoutsComplete`
what could not be read; `PaidInFull` a product that wraps.

Known and not covered by a property, because the module that would show them is not
written or because nothing in the repository says what should happen:

| Line | What |
| --- | --- |
| `node_utils.cpp:825` | no vote passes the salt check: `votes[0]` of an empty vector |
| `node_utils.cpp:444` | a transaction that was found is not reported when its receipt ends with END_RESPOND |
| `node_utils.cpp:663` | a fragment is submitted (and paid for) again although it is included |
| `node_utils.cpp:496` | transactions above an empty slot of a tick are not asked for |
| `node_utils.cpp:52` | a poll that gives up leaves its answer on the socket for the next one (`gaveUp`) |
| `escrow.cpp:321` | a poll that returns 0 schedules a transaction for a tick long past |
| `test_utils.cpp:291`, `359` | tick data of a failed retry; the index of `txHashes` when ticks are skipped |
| `wallet_utils.cpp:72`, `425` | a walk over packets by the size in their headers; answers shorter than expected |
| `quottery.cpp:570`, `1499` | a failed read of positions is an empty list; orders do not look whether the contract was read |
| `node_utils.cpp:1687` | `syncTime` sets the clock and then waits for an echo |
| `node_utils.cpp:281` | products of 64-bit words of the revenue factors |

## 6. Plan

Connection, transactions, files, ticks, votes, oracle queries, the Quottery client, the
command line, proposals and the reading contract clients are modelled. Left, in this order:

1. **Revenue**: threshold, factors, `revPowLE` and `revIroot` against reference
   definitions at a reduced width; proofs that factors stay in 0..SCALE.
2. **QpiTest** (`test_utils.cpp`): the tick loop over skipped ticks, the index of
   `txHashes`, tick data of failed retries.
3. **Oracle subscriptions**: `receiveSubscriptionInformation`,
   `receiveSubscriptionIds`, statistics and revenue points, added to OracleQueries.
4. **SpecialCommands**: echo matching and `syncTime`, with late and lost answers.
5. **NodeLists**: the crawl, the computor list; `getBalance`'s walk over packets.
6. **Formats and Merkle paths**: sizes and alignment of `sc_utils.cpp`,
   `getDigestFromSiblings`.
