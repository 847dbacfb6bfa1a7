-------------------------- MODULE ContractSession --------------------------
(***************************************************************************)
(* One command of the clients that read a contract more than once, or read *)
(* it before they pay: the deals of escrow, registerVault of msvault, the  *)
(* lists, fees and polls of qutil, the payouts of qrwa.  Every read has a  *)
(* connection of its own, or is the first of its connection and ends the   *)
(* command when it fails, so that no answer meets another request.         *)
(*                                                                         *)
(* The contracts are external and go on between any two reads.  A deal has *)
(* its index for good, and its price; a payout is put in front of the ring *)
(* and drives the oldest one out of a full ring.                           *)
(***************************************************************************)
EXTENDS Integers, SequencesExt, FiniteSetsExt

CONSTANTS
  Deals,       \* indices of deals
  Price,       \* ... what the creator asks: [qu, shares]
  AcceptFee, CreateFee, ShareFee, OperateFee, \* ESCROW_*_FEE
  MaxAssets,   \* assets of one side of a deal: 4
  Owners,      \* identities of vault owners, in the order of std::set
  MaxOwners, MaxCoOwner, RegisterFee, \* MSVAULT_MAX_OWNERS, MSVAULT_MAX_COOWNER, REGISTERING_FEE
  Queries,     \* attempts of queryVaults: 3
  Identities, Balances,
  Batch, Attempts, \* kBatch = 16, kGetBalances16MaxAttempts = 6
  Pools,       \* the rings, in order: 1..4
  PageSize, RingSize, \* QRWA_PAYOUT_PAGE_SIZE, QRWA_PAYOUT_RING_SIZE
  ManyRows, SharesRows, SharesFee, \* 25, 24 and 2500 QU
  PollAssets,  \* QUTIL_MAX_ASSETS_PER_POLL
  Tracker,     \* CONTRACT_ACTION_TRACKER_SIZE
  Word,        \* 2^32
  Fees,        \* fees of qutil: [many, create, vote]
  Commands,    \* what is typed
  Rings,       \* the payouts when a command starts
  MaxChanges   \* bound: changes of the contract during a command

ASSUME ContractAssumption ==
  /\ Deals \subseteq Nat /\ Price \in [Deals -> [qu : Nat, shares : Nat]]
  /\ Owners \subseteq Nat \ {0} /\ IsFiniteSet(Owners) /\ IsFiniteSet(Identities)
  /\ {AcceptFee, CreateFee, ShareFee, OperateFee, RegisterFee, SharesFee, Tracker, MaxChanges} \subseteq Nat
  /\ {MaxAssets, MaxOwners, MaxCoOwner, Queries, Batch, Attempts, Pools, PageSize, RingSize,
      ManyRows, SharesRows, PollAssets, Word} \subseteq Nat \ {0}
  /\ Fees \subseteq [many : Nat, create : Nat, vote : Nat]

VARIABLES
  deals,    \* where the caller finds a deal
  vaults,   \* the number of vaults of every owner
  balances,
  rings,    \* the payouts of every pool, newest first
  epoch, fees,
  changes,  \* changes so far
  command,
  pc,
  qu, shares, fee, \* what was read: a price (or -1), its fees for shares, a fee
  left,     \* owners still to look up
  tries,    \* failed attempts of the present read
  at,       \* the pool and page, or batch, that is read next
  printed,  \* what was printed
  sent,     \* the transaction
  outcome,
  asked, low, was, steady, \* history: fees asked, owners that had room, all
            \* balances, and the payouts that were in the rings all the time
  unread,   \* history: owners whose vaults were not read, pools with a failed page, 0 for a fee
  reached   \* history: the first page had a payout of the epoch

contract == <<deals, vaults, balances, rings, epoch, fees, changes>>
memory == <<qu, shares, fee, left, tries, at>>
output == <<printed, sent, outcome>>
history == <<asked, low, was, steady>>
vars == <<contract, command, pc, memory, output, history, unread, reached>>

-----------------------------------------------------------------------------
(* Deals as they are typed.  A side is an amount of QU and assets, each with *)
(* an amount, and whether it is a contract's share and has all its parts.    *)
FirstOf(n, s) == SubSeq(s, 1, IF Len(s) < n THEN Len(s) ELSE n)
Part(s, n, size) == FirstOf(size, SubSeq(s, n * size + 1, Len(s)))
Sum(s) ==
  LET upTo[n \in 0..Len(s)] == IF n = 0 THEN 0 ELSE upTo[n - 1] + s[n] IN upTo[Len(s)]
FeesOf(assets) == Sum([i \in DOMAIN assets |-> IF assets[i].share THEN assets[i].amount * ShareFee ELSE 0])

(* parseAssets: an asset with a part missing empties the list, and the fees  *)
(* of those before it stay.  What is beyond the last place is not looked at. *)
Malformed(side) == {i \in DOMAIN FirstOf(MaxAssets, side.assets) : ~side.assets[i].whole}
AssetsOf(side) == IF Malformed(side) = {} THEN FirstOf(MaxAssets, side.assets) ELSE <<>>
SharesFees(side) ==
  FeesOf(IF Malformed(side) = {} THEN AssetsOf(side)
         ELSE FirstOf(Min(Malformed(side)) - 1, side.assets))

(* The owners of a vault, 0 for an empty word: the loop ends there and what  *)
(* follows is not read.                                                      *)
OwnersOf(words) == IF Contains(words, 0) THEN SubSeq(words, 1, Min({i \in DOMAIN words : words[i] = 0}) - 1) ELSE words
OwnersOk(o, approvals) ==
  /\ IsInjective(o) /\ ToSet(o) \subseteq Owners
  /\ Len(o) >= 2 /\ Len(o) <= MaxOwners /\ approvals > 1 /\ approvals <= Len(o)

(* A line of a payout file that is not an identity and an amount; a list of  *)
(* identities must have one.                                                 *)
Odd == -1
RowsOk(rows) == ~Contains(rows, Odd)
ListOk(list) == list # <<>> /\ ~Contains(list, Odd)

PollOk(kind, assets) ==
  \/ kind = "asset" /\ Len(assets) \in 1..PollAssets /\ \A i \in DOMAIN assets : assets[i]
  \/ kind = "qubic"

(* The number of transfers is a product of two 32-bit words.                 *)
Transfers(d, n) == (d * n) % Word
BenchmarkOk(d, n) == d > 0 /\ n > 0 /\ (Transfers(d, n) + 2) % Word <= Tracker

Transaction(kind, amount, data) == [kind |-> kind, amount |-> amount, data |-> data]
NotSent == Transaction("none", 0, <<>>)

-----------------------------------------------------------------------------
Op == command.op
AnyFee == CHOOSE f \in Fees : TRUE
FirstEpoch == 2
FirstId == 100        \* of the payouts during the command
InRings(r) == UNION {ToSet(r[p]) : p \in 1..Pools}
Matches(x) ==
  /\ command.epoch >= 0 => x.epoch = command.epoch
  /\ Op = "payoutsOf" => x.to = command.to

Init ==
  /\ command \in Commands
  /\ deals \in [Deals -> IF Op = "accept" THEN {"absent", "proposed", "public"} ELSE {"absent"}]
  /\ vaults \in [Owners -> IF Op = "register" THEN {0, MaxCoOwner - 1, MaxCoOwner} ELSE {0}]
  /\ balances \in [Identities -> IF Op = "balances" THEN Balances ELSE {CHOOSE b \in Balances : TRUE}]
  /\ rings \in IF Op \in {"payouts", "payoutsOf"} THEN Rings ELSE {[p \in 1..Pools |-> <<>>]}
  /\ fees \in IF Op \in {"sendMany", "poll"} THEN Fees ELSE {AnyFee}
  /\ epoch = FirstEpoch /\ changes = 0 /\ pc = "start"
  /\ qu = 0 /\ shares = 0 /\ fee = AnyFee /\ left = {} /\ tries = 0 /\ at = <<1, 0>>
  /\ printed = <<>> /\ sent = NotSent /\ outcome = "none"
  /\ asked = {fees} /\ low = {o \in Owners : vaults[o] < MaxCoOwner} /\ was = {balances}
  /\ steady = InRings(rings) /\ unread = {} /\ reached = FALSE

(* The contracts.                                                           *)
Change ==
  /\ pc \notin {"start", "ended"} /\ changes < MaxChanges /\ changes' = changes + 1
  /\ asked' = asked \cup {fees'}
  /\ low' = low \cup {o \in Owners : vaults'[o] < MaxCoOwner}
  /\ was' = was \cup {balances'}
  /\ steady' = steady \cap InRings(rings')
  /\ UNCHANGED <<command, pc, memory, output, unread, reached>>

MoveDeal(i, place) ==
  /\ Op = "accept" /\ place # deals[i] /\ deals' = [deals EXCEPT ![i] = place]
  /\ UNCHANGED <<vaults, balances, rings, epoch, fees>> /\ Change
Join(o, n) ==
  /\ Op = "register" /\ n # vaults[o] /\ vaults' = [vaults EXCEPT ![o] = n]
  /\ UNCHANGED <<deals, balances, rings, epoch, fees>> /\ Change
Transfer(id, b) ==
  /\ Op = "balances" /\ b # balances[id] /\ balances' = [balances EXCEPT ![id] = b]
  /\ UNCHANGED <<deals, vaults, rings, epoch, fees>> /\ Change
Pay(p, to) ==
  /\ Op \in {"payouts", "payoutsOf"}
  /\ rings' = [rings EXCEPT ![p] =
                 FirstOf(RingSize, <<[to |-> to, epoch |-> epoch, id |-> FirstId + changes]>> \o @)]
  /\ UNCHANGED <<deals, vaults, balances, epoch, fees>> /\ Change
EndEpoch ==
  /\ Op \in {"payouts", "payoutsOf"} /\ epoch' = epoch + 1
  /\ UNCHANGED <<deals, vaults, balances, rings, fees>> /\ Change
ChangeFees ==
  /\ Op \in {"sendMany", "poll"} /\ fees' \in Fees \ {fees}
  /\ UNCHANGED <<deals, vaults, balances, rings, epoch>> /\ Change

-----------------------------------------------------------------------------
Client(from, to) == pc = from /\ pc' = to /\ UNCHANGED <<contract, command, history>>
End(how) == outcome' = how /\ UNCHANGED <<printed, sent>>

(* What is typed is looked at before the first read.                         *)
Refused ==
  CASE Op = "register"  -> ~OwnersOk(OwnersOf(command.owners), command.approvals)
    [] Op = "balances"  -> ~ListOk(command.list)
    [] Op = "sendMany"  -> ~RowsOk(command.rows)
    [] Op = "shares"    -> ~RowsOk(command.rows) \/ command.rows = <<>>
    [] Op = "poll"      -> command.do = "create" /\ ~PollOk(command.kind, command.assets)
    [] Op = "benchmark" -> ~BenchmarkOk(command.dst, command.each)
    [] OTHER            -> FALSE

FirstStep ==
  [accept |-> "qu", operate |-> "send", create |-> "send", register |-> "owner", balances |-> "batch",
   payouts |-> "totals", payoutsOf |-> "page", sendMany |-> "fee", shares |-> "send", poll |-> "fee",
   benchmark |-> "send"]

(* The amount of an asset is not checked, and can be typed with a sign: a    *)
(* command that creates a deal is taken to have natural ones.                *)
Side == [qu : Int, assets : Seq([share : BOOLEAN, amount : Nat, whole : BOOLEAN])]
ASSUME CommandsAssumption ==
  \A c \in Commands :
    /\ c.op \in DOMAIN FirstStep
    /\ c.op = "accept" => c.deal \in Deals
    /\ c.op = "create" => c.offered \in Side /\ c.requested \in Side
    /\ c.op = "balances" => c.list \in Seq(Identities \cup {Odd})
    /\ c.op = "benchmark" => c.dst \in Nat /\ c.each \in Nat
    /\ c.op = "payouts" => c.pool \in 1..Pools /\ c.epoch \in Int
    /\ c.op = "payoutsOf" => c.epoch \in Int

(* A ring has the newest payout first, and a payout has one place.           *)
Payouts == [to : Identities, epoch : Nat, id : Nat]
NewestFirst(ring) ==
  \A i, j \in DOMAIN ring : i <= j => ring[j].epoch <= ring[i].epoch
Apart(r) ==
  \A p, q \in 1..Pools : \A i \in DOMAIN r[p], j \in DOMAIN r[q] :
    r[p][i] = r[q][j] => p = q /\ i = j
ASSUME RingsAssumption ==
  \A r \in Rings :
    /\ r \in [1..Pools -> Seq(Payouts)] /\ Apart(r)
    /\ \A p \in 1..Pools :
         /\ Len(r[p]) <= RingSize /\ NewestFirst(r[p])
         /\ \A i \in DOMAIN r[p] : r[p][i].epoch <= FirstEpoch /\ r[p][i].id < FirstId

TypedOwners == ToSet(OwnersOf(command.owners))
Refuse ==
  /\ Refused /\ Client("start", "ended") /\ End("refused") /\ UNCHANGED <<memory, unread, reached>>
Start ==
  /\ ~Refused /\ Client("start", FirstStep[Op])
  /\ left' = IF Op = "register" THEN TypedOwners ELSE {}
  /\ UNCHANGED <<qu, shares, fee, tries, at, output, unread, reached>>

(* END_RESPOND where only std::logic_error is caught, no connection, or an   *)
(* answer that is too short for runContractFunction.  GetBalances16 catches  *)
(* everything.                                                               *)
Abort ==
  /\ pc \notin {"start", "batch", "ended"} /\ Client(pc, "ended") /\ End("aborted")
  /\ UNCHANGED <<memory, unread, reached>>

(* escrowAcceptDeal looks for the deal twice, on two connections: for what   *)
(* its creator asks and for the fees of its shares.  A failed read is an     *)
(* empty list of deals, a deal that is not in the lists has the price -1.    *)
Found(x) == IF deals[command.deal] = "absent" THEN -1 ELSE x
ReadRequestedQU ==
  /\ Client("qu", "shares") /\ qu' \in {Found(Price[command.deal].qu), -1}
  /\ UNCHANGED <<shares, fee, left, tries, at, output, unread, reached>>
ReadSharesFees ==
  /\ pc = "shares" /\ shares' \in {Found(Price[command.deal].shares * ShareFee), -1}
  /\ UNCHANGED <<qu, fee, left, tries, at, unread, reached>>
  /\ \/ qu >= 0 /\ shares' >= 0 /\ Client("shares", "send") /\ UNCHANGED output
     \/ (qu < 0 \/ shares' < 0) /\ Client("shares", "ended") /\ End("failed")

(* msvaultRegisterVault looks up every owner; one that cannot be read after  *)
(* all attempts has no vaults, nor has one whose answer has no payload.      *)
(* Mutant: one vault too many.                                               *)
FullLate(n) == n > MaxCoOwner
Full(n) == n >= MaxCoOwner
NextOwner == Min(left)
CountVaults(n, missed) ==
  LET o == NextOwner
  IN  /\ tries' = 0
      /\ unread' = IF missed THEN unread \cup {o} ELSE unread
      /\ UNCHANGED <<qu, shares, fee, at, reached>>
      /\ \/ Full(n) /\ Client("owner", "ended") /\ End("refused") /\ UNCHANGED left
         \/ /\ ~Full(n) /\ left' = left \ {o} /\ UNCHANGED output
            /\ Client("owner", IF left' = {} THEN "send" ELSE "owner")
QueryVaults == pc = "owner" /\ CountVaults(vaults[NextOwner], FALSE)
QueryAgain ==
  /\ tries + 1 < Queries /\ Client("owner", "owner") /\ tries' = tries + 1
  /\ UNCHANGED <<qu, shares, fee, left, at, output, unread, reached>>
QueryFailed == pc = "owner" /\ tries + 1 = Queries /\ CountVaults(0, TRUE)
QueryEmpty == pc = "owner" /\ CountVaults(0, TRUE)

(* qutilGetBalancesMany: batches of a file, each tried again from a new      *)
(* connection; what is printed stays when a later one fails.                 *)
BatchOf(n) == Part(command.list, n, Batch)
(* Mutant: the batch is printed with the first identities of the list.       *)
LinesShifted(n) == [i \in DOMAIN BatchOf(n) |-> [id |-> command.list[i], balance |-> balances[BatchOf(n)[i]]]]
Lines(n) == [i \in DOMAIN BatchOf(n) |-> [id |-> BatchOf(n)[i], balance |-> balances[BatchOf(n)[i]]]]
LastBatch(n) == (n + 1) * Batch >= Len(command.list)
GetBalances16 ==
  /\ Client("batch", IF LastBatch(at[2]) THEN "ended" ELSE "batch")
  /\ printed' = printed \o Lines(at[2]) /\ at' = <<1, at[2] + 1>> /\ tries' = 0
  /\ outcome' = IF LastBatch(at[2]) THEN "printed" ELSE outcome
  /\ UNCHANGED <<qu, shares, fee, left, sent, unread, reached>>
TryBatchAgain ==
  /\ tries + 1 < Attempts /\ Client("batch", "batch") /\ tries' = tries + 1
  /\ UNCHANGED <<qu, shares, fee, left, at, output, unread, reached>>
BatchFailed ==
  /\ tries + 1 = Attempts /\ Client("batch", "ended") /\ End("failed")
  /\ UNCHANGED <<memory, unread, reached>>

-----------------------------------------------------------------------------
(* The payouts of one pool: totals first, then pages until the last one or   *)
(* one without a payout of the epoch; without an epoch only the first page.  *)
(* The payouts to an address: all pages of all pools.  A packet of another   *)
(* type ends the pages like the last one does.                               *)
PageOf(p, n) == Part(rings[p], n, PageSize)
TotalPages(p) == (Len(rings[p]) + PageSize - 1) \div PageSize
Shown(page) ==
  LET upTo[n \in 0..Len(page)] ==
        IF n = 0 THEN <<>>
        ELSE IF Matches(page[n]) THEN Append(upTo[n - 1], page[n]) ELSE upTo[n - 1]
  IN  upTo[Len(page)]
MatchesOn(p, n) == Shown(PageOf(p, n))

(* Mutant: one page too few.                                                 *)
StopsEarly(p, n) ==
  \/ n + 2 >= TotalPages(p)
  \/ Op = "payouts" /\ (command.epoch < 0 \/ MatchesOn(p, n) = <<>>)
Stops(p, n) ==
  \/ n + 1 >= TotalPages(p)
  \/ Op = "payouts" /\ (command.epoch < 0 \/ MatchesOn(p, n) = <<>>)

AfterPool(p) ==
  IF Op = "payoutsOf" /\ p < Pools THEN "page" ELSE IF command.pool = 2 THEN "dividends" ELSE "ended"

Totals == Client("totals", "page") /\ at' = <<command.pool, 0>> /\ UNCHANGED <<qu, shares, fee, left, tries, output, unread, reached>>

LeavePool(p) ==
  /\ Client("page", AfterPool(p)) /\ at' = <<p + 1, 0>>
  /\ outcome' = IF AfterPool(p) = "ended" THEN "printed" ELSE outcome

GetPayouts ==
  LET p == at[1]  n == at[2]
  IN  /\ pc = "page" /\ printed' = printed \o MatchesOn(p, n)
      /\ reached' = (reached \/ (n = 0 /\ MatchesOn(p, n) # <<>>))
      /\ \/ Stops(p, n) /\ LeavePool(p)
         \/ ~Stops(p, n) /\ Client("page", "page") /\ at' = <<p, n + 1>> /\ UNCHANGED outcome
      /\ UNCHANGED <<qu, shares, fee, left, tries, sent, unread>>
NoPayouts ==
  /\ pc = "page" /\ LeavePool(at[1]) /\ unread' = unread \cup {at[1]}
  /\ UNCHANGED <<qu, shares, fee, left, tries, printed, sent, reached>>
Dividends == Client("dividends", "ended") /\ End("printed") /\ UNCHANGED <<memory, unread, reached>>

-----------------------------------------------------------------------------
(* qutil reads its fees and pays on the same connection; a fee that does not *)
(* come ends the command, an answer without a payload is a fee of 0 for      *)
(* payments to many.                                                         *)
ReadFee ==
  /\ Client("fee", "send") /\ UNCHANGED <<qu, shares, left, tries, at, output, reached>>
  /\ \/ fee' = fees /\ UNCHANGED unread
     \/ Op = "sendMany" /\ fee' = [fees EXCEPT !.many = 0] /\ unread' = unread \cup {0}
NoFee == Client("fee", "ended") /\ End("failed") /\ UNCHANGED <<memory, unread, reached>>

(* Mutant: the fee for shares of one side only.                              *)
CreateAmountOneSide(c) == CreateFee + c.offered.qu + SharesFees(c.offered)
CreateAmount(c) == CreateFee + c.offered.qu + SharesFees(c.offered) + SharesFees(c.requested)

(* The transactions, as they are put together after the reads.               *)
OperateDeal(kind, amount) == Transaction(kind, amount, command.deal)
AcceptDeal == OperateDeal("accept", AcceptFee + qu + shares)
CreateDeal ==
  Transaction("create", CreateAmount(command), <<AssetsOf(command.offered), AssetsOf(command.requested)>>)
RegisterVault == Transaction("register", RegisterFee, OwnersOf(command.owners))
SendToManyV1 ==
  LET paid == FirstOf(ManyRows, command.rows) IN Transaction("sendMany", Sum(paid) + fee.many, paid)
TransferSharesToManyV1 == Transaction("shares", SharesFee, FirstOf(SharesRows, command.rows))
CreatePoll == Transaction("poll", fee.create, "create")
Vote == Transaction("poll", fee.vote, "vote")
CancelPoll == Transaction("poll", fee.create, "cancel")
SendToManyBenchmark ==
  Transaction("benchmark", Transfers(command.dst, command.each), <<command.dst, command.each>>)

Built ==
  CASE Op = "accept"    -> AcceptDeal
    [] Op = "operate"   -> OperateDeal("operate", OperateFee)
    [] Op = "create"    -> CreateDeal
    [] Op = "register"  -> RegisterVault
    [] Op = "sendMany"  -> SendToManyV1
    [] Op = "shares"    -> TransferSharesToManyV1
    [] Op = "poll"      -> (CASE command.do = "create" -> CreatePoll [] command.do = "vote" -> Vote [] OTHER -> CancelPoll)
    [] Op = "benchmark" -> SendToManyBenchmark
Send ==
  /\ Client("send", "ended") /\ sent' = Built /\ outcome' = "sent"
  /\ UNCHANGED <<memory, printed, unread, reached>>

ClientStep ==
  \/ Refuse \/ Start \/ Abort \/ ReadRequestedQU \/ ReadSharesFees
  \/ QueryVaults \/ QueryAgain \/ QueryFailed \/ QueryEmpty \/ GetBalances16 \/ TryBatchAgain \/ BatchFailed
  \/ Totals \/ GetPayouts \/ NoPayouts \/ Dividends \/ ReadFee \/ NoFee \/ Send

Next ==
  \/ ClientStep
  \/ \E i \in Deals, place \in {"absent", "proposed", "public"} : MoveDeal(i, place)
  \/ \E o \in Owners, n \in {0, MaxCoOwner - 1, MaxCoOwner} : Join(o, n)
  \/ \E id \in Identities, b \in Balances : Transfer(id, b)
  \/ \E p \in 1..Pools, to \in Identities : Pay(p, to)
  \/ EndEpoch \/ ChangeFees

Spec == Init /\ [][Next]_vars
-----------------------------------------------------------------------------
Outcomes == {"none", "refused", "failed", "aborted", "printed", "sent"}

(* Every variable has its type.                                             *)
TypeOK ==
  /\ deals \in [Deals -> {"absent", "proposed", "public"}] /\ vaults \in [Owners -> 0..MaxCoOwner]
  /\ balances \in [Identities -> Balances] /\ fees \in Fees /\ fee \in [many : Nat, create : Nat, vote : Nat]
  /\ \A p \in 1..Pools : Len(rings[p]) <= RingSize
  /\ qu \in Nat \cup {-1} /\ shares \in Nat \cup {-1}
  /\ left \subseteq Owners /\ unread \subseteq Owners \cup (0..Pools)
  /\ tries < Queries \/ tries < Attempts
  /\ pc \in {"start", "ended"} \cup {FirstStep[o] : o \in DOMAIN FirstStep} \cup {"shares", "dividends"}
  /\ outcome \in Outcomes /\ (outcome = "sent") <=> (sent.kind # "none")

(* Who accepts a deal pays what that deal asks, read in two pieces while it  *)
(* was proposed, taken or withdrawn; a command that could not find it twice  *)
(* does not pay.                                                             *)
AcceptPaid ==
  sent.kind = "accept" =>
    sent.amount = AcceptFee + Price[sent.data].qu + Price[sent.data].shares * ShareFee

(* Who creates a deal pays for all shares in it, and no more if it is sent   *)
(* as it was typed.                                                          *)
CreatePaid ==
  sent.kind = "create" =>
    LET owed == CreateFee + command.offered.qu + FeesOf(sent.data[1]) + FeesOf(sent.data[2])
    IN  /\ sent.amount >= owed
        /\ Malformed(command.offered) \cup Malformed(command.requested) = {} => sent.amount = owed

(* The amount of a payment to many covers its rows and a fee that was asked  *)
(* during the command, unless the answer had none; polls pay such a fee; a   *)
(* benchmark carries one QU per transfer, where the word does not wrap.      *)
TransfersPaid ==
  /\ sent.kind = "sendMany" => \E f \in asked : sent.amount = Sum(sent.data) + IF 0 \in unread THEN 0 ELSE f.many
  /\ sent.kind = "poll" => \E f \in asked : sent.amount = IF sent.data = "vote" THEN f.vote ELSE f.create
  /\ sent.kind = "benchmark" /\ sent.data[1] * sent.data[2] + 2 < Word =>
       sent.amount = sent.data[1] * sent.data[2] /\ sent.amount + 2 <= Tracker

(* What is sent is paid for: deals, payments, polls and benchmarks.          *)
PaidInFull == AcceptPaid /\ CreatePaid /\ TransfersPaid

(* A vault is registered only for owners that had room for one more at some  *)
(* time of the command, unless an owner could not be looked up.              *)
OwnersHadRoom == sent.kind = "register" => ToSet(sent.data) \subseteq low \cup unread

(* What is printed of a list of identities is the beginning of that list;    *)
(* each batch shows the balances of one moment of the command, whichever     *)
(* attempt it came from; without an error the list is complete.              *)
BalancesRead ==
  Op = "balances" =>
    /\ \A i \in DOMAIN printed : printed[i].id = command.list[i]
    /\ \A n \in 0..Len(printed) : \E w \in was :
         \A k \in DOMAIN Part(printed, n, Batch) :
           Part(printed, n, Batch)[k].balance = w[Part(printed, n, Batch)[k].id]
    /\ outcome = "printed" => Len(printed) = Len(command.list)

(* The payouts to an address are all printed that were in the rings during   *)
(* the command, although new ones move them from page to page; of a pool all *)
(* of the current epoch, or those of an earlier one if it has a payout on    *)
(* the first page and nothing is paid meanwhile.  Then none comes twice.     *)
ShowsEpoch(p) ==
  /\ Op = "payouts" /\ p = command.pool
  /\ command.epoch = epoch \/ (command.epoch >= 0 /\ changes = 0 /\ reached)
PayoutsComplete ==
  outcome = "printed" /\ Op \in {"payouts", "payoutsOf"} =>
    /\ \A p \in 1..Pools \ unread : Op = "payoutsOf" \/ ShowsEpoch(p) =>
         {x \in steady \cap ToSet(rings[p]) : Matches(x)} \subseteq ToSet(printed)
    /\ changes = 0 => IsInjective(printed)
=============================================================================
