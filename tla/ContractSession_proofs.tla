----------------------- MODULE ContractSession_proofs -----------------------
(***************************************************************************)
(* Proofs about ContractSession, for all values of its constants: who has  *)
(* room for a vault when it is registered, what is paid with a transaction *)
(* after one read or two, and that lists of balances and payouts are whole *)
(* although the contracts go on between their batches and pages.           *)
(***************************************************************************)
EXTENDS ContractSession, TLAPS, WellFoundedInduction, NaturalsInduction, SequenceTheorems

(* The history holds the present.                                           *)
World ==
  /\ command \in Commands /\ vaults \in [Owners -> Nat]
  /\ \A o \in Owners : vaults[o] < MaxCoOwner => o \in low

(* Vaults are counted only by registerVault, a deal is looked for only by   *)
(* acceptDeal, and a command ends with its transaction.                     *)
Others == {"batch", "totals", "page", "dividends", "fee"}
Readers == {"balances", "payouts", "payoutsOf"}
Route ==
  /\ pc = "owner" => Op = "register"
  /\ pc \in {"qu", "shares"} => Op = "accept"
  /\ pc \in Others => Op \notin {"register", "accept"}
  /\ pc \in {"fee", "send"} => Op \notin Readers
  /\ pc # "ended" => sent = NotSent

(* An owner that is not left to look up had room or could not be read.      *)
LookedUp ==
  Op = "register" /\ pc \in {"owner", "send"} =>
    /\ TypedOwners \subseteq Owners
    /\ TypedOwners \ left \subseteq low \cup unread
    /\ pc = "send" => left = {}

(* A price that was found is that of the deal, whenever it was read.        *)
Priced ==
  /\ pc \in {"shares", "send"} /\ Op = "accept" => qu \in {Price[command.deal].qu, -1}
  /\ pc = "send" /\ Op = "accept" =>
       qu = Price[command.deal].qu /\ shares = Price[command.deal].shares * ShareFee

IInv == World /\ Route /\ LookedUp /\ Priced /\ OwnersHadRoom /\ AcceptPaid

-----------------------------------------------------------------------------
Operations == {"accept", "operate", "create", "register", "balances", "payouts", "payoutsOf",
               "sendMany", "shares", "poll", "benchmark"}

LEMMA CommandTypes ==
  \A c \in Commands : c.op \in Operations /\ (c.op = "accept" => c.deal \in Deals)
<1>1. DOMAIN FirstStep = Operations
  BY DEF FirstStep, Operations
<1> QED
  BY <1>1, CommandsAssumption

LEMMA Steps ==
  ASSUME Op \in Operations
  PROVE  /\ FirstStep[Op] \notin {"start", "shares", "ended"}
         /\ FirstStep[Op] = "owner" <=> Op = "register"
         /\ FirstStep[Op] = "qu" <=> Op = "accept"
         /\ FirstStep[Op] \in Others \cup {"send"} => Op \notin {"register", "accept"}
         /\ FirstStep[Op] \in {"fee", "send"} => Op \notin Readers
  BY DEF FirstStep, Operations, Others, Readers

LEMMA ConstantTypes ==
  /\ MaxCoOwner \in Nat /\ MaxCoOwner - 1 \in Nat /\ ShareFee \in Nat /\ AcceptFee \in Nat
  /\ Price \in [Deals -> [qu : Nat, shares : Nat]]
<1>1. MaxCoOwner \in Nat \ {0}
  BY ContractAssumption
<1> QED
  BY <1>1, ContractAssumption

LEMMA BuiltKinds ==
  ASSUME Op \in Operations \ Readers
  PROVE  /\ Built.kind = "register" => Op = "register" /\ Built = RegisterVault
         /\ Built.kind = "accept" => Op = "accept" /\ Built = AcceptDeal
<1>1. Op = "accept" => Built = AcceptDeal
  BY DEF Built
<1>2. Op = "register" => Built = RegisterVault
  BY DEF Built
<1>3. Op \in {"operate", "create"} => Built.kind = Op
  BY DEF Built, OperateDeal, CreateDeal, Transaction
<1>4. Op = "sendMany" => Built.kind = Op
  BY DEF Built, SendToManyV1, Transaction
<1>5. Op \in {"shares", "benchmark"} => Built.kind = Op
  BY DEF Built, TransferSharesToManyV1, SendToManyBenchmark, Transaction
<1>6. Op = "poll" => Built \in {CreatePoll, Vote, CancelPoll}
  BY DEF Built
<1>7. Op = "poll" => Built.kind = Op
  BY <1>6 DEF CreatePoll, Vote, CancelPoll, Transaction
<1> QED
  BY <1>1, <1>2, <1>3, <1>4, <1>5, <1>7 DEF Operations, Readers, AcceptDeal, OperateDeal, RegisterVault, Transaction

LEMMA InitInv == Init => IInv
<1> SUFFICES ASSUME Init PROVE IInv
  OBVIOUS
<1>1. World
  BY ConstantTypes DEF Init, World
<1>2. Route /\ LookedUp /\ Priced
  BY DEF Init, Route, LookedUp, Priced, Others
<1>3. OwnersHadRoom /\ AcceptPaid
  BY DEF Init, OwnersHadRoom, AcceptPaid, NotSent, Transaction
<1> QED
  BY <1>1, <1>2, <1>3 DEF IInv

(* The contracts go on; nobody who had room is forgotten.                   *)
LEMMA OutsideInv ==
  ASSUME IInv, World', low \subseteq low', UNCHANGED <<command, pc, memory, output, unread>>
  PROVE  IInv'
<1>1. Route' /\ LookedUp' /\ Priced'
  BY DEF IInv, Route, LookedUp, Priced, TypedOwners, Op, memory, output
<1>2. OwnersHadRoom' /\ AcceptPaid'
  BY DEF IInv, OwnersHadRoom, AcceptPaid, output
<1> QED
  BY <1>1, <1>2 DEF IInv

LEMMA ChangeInv ==
  ASSUME IInv, Change, vaults' \in [Owners -> Nat]
  PROVE  IInv'
<1>1. /\ low' = low \cup {o \in Owners : vaults'[o] < MaxCoOwner}
      /\ UNCHANGED <<command, pc, memory, output, unread>>
  BY DEF Change
<1>2. World'
  BY <1>1 DEF IInv, World
<1> QED
  BY <1>1, <1>2, OutsideInv

-----------------------------------------------------------------------------
(* The reads that say nothing of owners or deals, and those that end the    *)
(* command.                                                                 *)
Quiet ==
  /\ UNCHANGED <<contract, command, history, qu, left, sent>> /\ unread \subseteq unread'
  /\ shares' = shares \/ pc' = "ended"
  /\ pc # "ended"
  /\ \/ pc' \in {pc, "ended"}
     \/ /\ Op \notin {"register", "accept"} /\ pc' \notin {"owner", "qu", "shares"}
        /\ pc' \in {"fee", "send"} => pc = "fee"

LEMMA QuietInv == ASSUME IInv, Quiet PROVE IInv'
<1>1. World'
  BY DEF IInv, Quiet, World, contract, history
<1>2. Route'
  BY DEF IInv, Quiet, Route, Op, Others
<1>4. LookedUp'
  BY DEF IInv, Quiet, LookedUp, TypedOwners, Op, history
<1>5. Priced'
  BY DEF IInv, Quiet, Priced, Op
<1>3. OwnersHadRoom' /\ AcceptPaid'
  BY DEF IInv, Quiet, Route, OwnersHadRoom, AcceptPaid, NotSent, Transaction
<1> QED
  BY <1>1, <1>2, <1>3, <1>4, <1>5 DEF IInv

LEMMA QuietSteps ==
  ASSUME IInv,
         \/ Refuse \/ Abort \/ QueryAgain \/ GetBalances16 \/ TryBatchAgain \/ BatchFailed
         \/ Totals \/ GetPayouts \/ NoPayouts \/ Dividends \/ ReadFee \/ NoFee
  PROVE  Quiet
<1>0. pc \in Others => Op \notin {"register", "accept"}
  BY DEF IInv, Route
<1> USE DEF Quiet, Others, Client, End, memory, output
<1>1. CASE Refuse \/ Abort
  BY <1>1 DEF Refuse, Abort
<1>2. CASE QueryAgain
  BY <1>2 DEF QueryAgain
<1>3. CASE GetBalances16 \/ TryBatchAgain \/ BatchFailed
  BY <1>0, <1>3 DEF GetBalances16, TryBatchAgain, BatchFailed
<1>4. CASE Totals \/ Dividends
  BY <1>0, <1>4 DEF Totals, Dividends
<1>5. CASE GetPayouts \/ NoPayouts
  BY <1>0, <1>5 DEF GetPayouts, NoPayouts, LeavePool, AfterPool
<1>6. CASE ReadFee \/ NoFee
  BY <1>0, <1>6 DEF ReadFee, NoFee
<1> QED
  BY <1>1, <1>2, <1>3, <1>4, <1>5, <1>6

LEMMA StartInv == ASSUME IInv, Start PROVE IInv'
<1>1. /\ ~Refused /\ pc = "start" /\ pc' = FirstStep[Op]
      /\ left' = IF Op = "register" THEN TypedOwners ELSE {}
      /\ UNCHANGED <<contract, command, history, qu, shares, sent, unread>>
  BY DEF Start, Client, output
<1>2. Op \in Operations /\ sent = NotSent
  BY <1>1, CommandTypes DEF IInv, World, Route, Op
<1>3. World' /\ OwnersHadRoom' /\ AcceptPaid'
  BY <1>1 DEF IInv, World, OwnersHadRoom, AcceptPaid, contract, history
<1>4. Route'
  BY <1>1, <1>2, Steps DEF Route, Op
<1>5. LookedUp'
  <2>1. Op = "register" => TypedOwners \subseteq Owners
    BY <1>1 DEF Refused, OwnersOk, TypedOwners
  <2>2. Op = "register" => pc' # "send"
    BY <1>1, <1>2, Steps
  <2> QED
    BY <1>1, <2>1, <2>2 DEF LookedUp, TypedOwners, Op
<1>6. Priced'
  BY <1>1, <1>2, Steps DEF Priced, Op
<1> QED
  BY <1>3, <1>4, <1>5, <1>6 DEF IInv

(* An owner leaves the list when the answer shows room or none came.        *)
LEMMA CountInv ==
  ASSUME IInv, pc = "owner", NEW n, NEW missed \in BOOLEAN, CountVaults(n, missed),
         missed \/ n = vaults[NextOwner]
  PROVE  IInv'
<1> DEFINE o == NextOwner
<1>1. /\ UNCHANGED <<contract, command, history, qu, shares, sent>>
      /\ unread' = IF missed THEN unread \cup {o} ELSE unread
      /\ \/ pc' = "ended"
         \/ /\ ~Full(n) /\ left' = left \ {o}
            /\ pc' = IF left' = {} THEN "send" ELSE "owner"
  BY DEF CountVaults, Client, End, output
<1> HIDE DEF o
<1>2. Op = "register" /\ sent = NotSent
  BY DEF IInv, Route
<1>3. World'
  BY <1>1 DEF IInv, World, contract, history
<1>4. Route' /\ Priced'
  BY <1>1, <1>2 DEF Route, Priced, Op, Others, Readers
<1>5. OwnersHadRoom' /\ AcceptPaid'
  BY <1>1, <1>2 DEF OwnersHadRoom, AcceptPaid, NotSent, Transaction
<1>6. LookedUp'
  <2>1. CASE pc' = "ended"
    BY <2>1 DEF LookedUp
  <2>2. CASE pc' # "ended"
    <3>1. TypedOwners \subseteq Owners /\ TypedOwners \ left \subseteq low \cup unread
      BY <1>2 DEF IInv, LookedUp
    <3>2. o \in Owners => o \in low \/ o \in unread'
      <4>1. CASE missed
        BY <1>1, <4>1
      <4>2. CASE ~missed
        BY <1>1, <2>2, <4>2, ConstantTypes DEF IInv, World, Full, o
      <4> QED
        BY <4>1, <4>2
    <3>3. TypedOwners' = TypedOwners /\ low' = low /\ unread \subseteq unread'
      BY <1>1 DEF TypedOwners, history
    <3> QED
      BY <1>1, <2>2, <3>1, <3>2, <3>3 DEF LookedUp
  <2> QED
    BY <2>1, <2>2
<1> QED
  BY <1>3, <1>4, <1>5, <1>6 DEF IInv

LEMMA QueryInv == ASSUME IInv, QueryVaults \/ QueryFailed \/ QueryEmpty PROVE IInv'
<1>1. CASE QueryVaults
  BY <1>1, CountInv DEF QueryVaults, NextOwner
<1>2. CASE QueryFailed \/ QueryEmpty
  BY <1>2, CountInv DEF QueryFailed, QueryEmpty
<1> QED
  BY <1>1, <1>2

(* Of the two reads of a deal either may fail or come too late.             *)
LEMMA DealInv == ASSUME IInv, ReadRequestedQU \/ ReadSharesFees PROVE IInv'
<1>1. Op = "accept" /\ sent = NotSent
  BY DEF IInv, Route, ReadRequestedQU, ReadSharesFees, Client
<1>2. Price[command.deal].qu \in Nat /\ Price[command.deal].shares * ShareFee \in Nat
  BY <1>1, CommandTypes, ConstantTypes DEF IInv, World, Op
<1>3. CASE ReadRequestedQU
  <2>1. /\ UNCHANGED <<contract, command, history, shares, left, sent, unread>>
        /\ pc' = "shares" /\ qu' \in {Price[command.deal].qu, -1}
    BY <1>3 DEF ReadRequestedQU, Client, Found, output
  <2>2. World' /\ Route' /\ LookedUp' /\ Priced'
    BY <1>1, <2>1 DEF IInv, World, Route, LookedUp, Priced, Op, Others, contract, history
  <2>3. OwnersHadRoom' /\ AcceptPaid'
    BY <1>1, <2>1 DEF OwnersHadRoom, AcceptPaid, NotSent, Transaction
  <2> QED
    BY <2>2, <2>3 DEF IInv
<1>4. CASE ReadSharesFees
  <2>1. /\ UNCHANGED <<contract, command, history, qu, left, sent, unread>>
        /\ pc = "shares" /\ shares' \in {Price[command.deal].shares * ShareFee, -1}
        /\ pc' = "ended" \/ (pc' = "send" /\ qu >= 0 /\ shares' >= 0)
    BY <1>4 DEF ReadSharesFees, Client, End, Found, output
  <2>2. World' /\ Route' /\ LookedUp'
    BY <1>1, <2>1 DEF IInv, World, Route, LookedUp, Op, Others, Readers, contract, history
  <2>3. Priced'
    BY <1>1, <1>2, <2>1 DEF IInv, Priced, Op
  <2>4. OwnersHadRoom' /\ AcceptPaid'
    BY <1>1, <2>1 DEF OwnersHadRoom, AcceptPaid, NotSent, Transaction
  <2> QED
    BY <2>2, <2>3, <2>4 DEF IInv
<1> QED
  BY <1>3, <1>4 DEF ReadRequestedQU

LEMMA SendInv == ASSUME IInv, Send PROVE IInv'
<1>1. /\ UNCHANGED <<contract, command, history, qu, shares, left, unread>>
      /\ pc = "send" /\ pc' = "ended" /\ sent' = Built
  BY DEF Send, Client, memory
<1>2. World' /\ Route' /\ LookedUp' /\ Priced'
  BY <1>1 DEF IInv, World, Route, LookedUp, Priced, Others, contract, history
<1>3. Op \in Operations \ Readers
  BY <1>1, CommandTypes DEF IInv, World, Route, Op
<1>4. OwnersHadRoom'
  <2>1. sent'.kind = "register" => Op = "register" /\ sent' = RegisterVault
    BY <1>1, <1>3, BuiltKinds
  <2>2. CASE Op = "register"
    <3>1. TypedOwners \subseteq low \cup unread
      BY <1>1, <2>2 DEF IInv, LookedUp
    <3> QED
      BY <1>1, <2>1, <3>1 DEF OwnersHadRoom, RegisterVault, Transaction, TypedOwners, history
  <2> QED
    BY <2>1, <2>2 DEF OwnersHadRoom
<1>5. AcceptPaid'
  <2>1. sent'.kind = "accept" => Op = "accept" /\ sent' = AcceptDeal
    BY <1>1, <1>3, BuiltKinds
  <2>2. CASE Op = "accept"
    BY <1>1, <2>1, <2>2 DEF IInv, Priced, AcceptPaid, AcceptDeal, OperateDeal, Transaction
  <2> QED
    BY <2>1, <2>2 DEF AcceptPaid
<1> QED
  BY <1>2, <1>4, <1>5 DEF IInv

LEMMA NextInv == IInv /\ [Next]_vars => IInv'
<1> SUFFICES ASSUME IInv, [Next]_vars PROVE IInv'
  OBVIOUS
<1>1. CASE ClientStep
  BY <1>1, QuietSteps, QuietInv, StartInv, QueryInv, DealInv, SendInv DEF ClientStep
<1>2. ASSUME NEW o \in Owners, NEW n \in {0, MaxCoOwner - 1, MaxCoOwner}, Join(o, n) PROVE IInv'
  <2>1. vaults' \in [Owners -> Nat]
    BY <1>2, ConstantTypes DEF Join, IInv, World
  <2> QED
    BY <1>2, <2>1, ChangeInv DEF Join
<1>3. CASE \/ \E i \in Deals, place \in {"absent", "proposed", "public"} : MoveDeal(i, place)
           \/ \E id \in Identities, b \in Balances : Transfer(id, b)
           \/ \E p \in 1..Pools, to \in Identities : Pay(p, to)
           \/ EndEpoch \/ ChangeFees
  <2>1. UNCHANGED vaults /\ Change
    BY <1>3 DEF MoveDeal, Transfer, Pay, EndEpoch, ChangeFees
  <2> QED
    BY <2>1, ChangeInv DEF IInv, World
<1>4. CASE UNCHANGED vars
  BY <1>4, OutsideInv DEF IInv, World, vars, contract, history
<1> QED
  BY <1>1, <1>2, <1>3, <1>4 DEF Next

-----------------------------------------------------------------------------
(* msvaultRegisterVault: every owner of a vault that is registered had room  *)
(* during the command, or could not be looked up.                            *)
THEOREM OwnersHaveRoom == Spec => []OwnersHadRoom
<1>1. IInv => OwnersHadRoom
  BY DEF IInv
<1> QED
  BY InitInv, NextInv, <1>1, PTL DEF Spec

-----------------------------------------------------------------------------
(* Natural numbers.                                                         *)

LessThan == {ss \in Nat \X Nat : ss[1] < ss[2]}

LEMMA LessThanWellFounded == IsWellFoundedOn(LessThan, Nat)
  BY NatLessThanWellFounded DEF OpToRel, LessThan

LEMMA LeastNatural ==
  ASSUME NEW T, T \subseteq Nat, T # {}
  PROVE  \E n \in T : \A k \in T : n <= k
<1>1. PICK n \in T : \A k \in T : ~ (<<k, n>> \in LessThan)
  BY WFMin, LessThanWellFounded
<1>2. \A k \in T : ~ (k < n)
  BY <1>1 DEF LessThan
<1> QED
  BY <1>2

(* Induction, for a property given as the set of the numbers that have it.  *)
LEMMA SetInduction ==
  ASSUME NEW T, 0 \in T, \A n \in Nat : n \in T => n + 1 \in T
  PROVE  Nat \subseteq T
<1> SUFFICES ASSUME ~(Nat \subseteq T) PROVE FALSE
  OBVIOUS
<1>1. PICK n \in Nat \ T : \A k \in Nat \ T : n <= k
  <2>1. Nat \ T \subseteq Nat /\ Nat \ T # {}
    OBVIOUS
  <2> QED
    BY <2>1, LeastNatural
<1>2. n # 0 /\ n \in Nat
  BY <1>1
<1>3. n - 1 \in Nat /\ n - 1 \in T
  BY <1>1, <1>2
<1>4. n - 1 + 1 = n
  BY <1>2
<1>5. n - 1 + 1 \in T
  BY <1>3
<1> QED
  BY <1>1, <1>4, <1>5

LEMMA DivisionFacts ==
  ASSUME NEW a \in Nat, NEW b \in Nat \ {0}
  PROVE  /\ a \div b \in Nat
         /\ (a \div b) * b <= a /\ a < (a \div b) * b + b
  OBVIOUS

LEMMA ProductFacts ==
  ASSUME NEW a \in Nat, NEW b \in Nat, NEW c \in Nat \ {0}
  PROVE  /\ a * c \in Nat
         /\ a < b => a * c + c <= b * c
         /\ a <= b => a * c <= b * c
         /\ (a + 1) * c = a * c + c
         /\ a > 0 => a * c >= c
  OBVIOUS

(* What SubSeqProperties says of a stretch of a sequence.                   *)
LEMMA StretchFacts ==
  ASSUME NEW S, NEW s \in Seq(S), NEW a \in Nat, NEW z \in Nat, a + z <= Len(s)
  PROVE  /\ SubSeq(s, a + 1, a + z) \in Seq(S)
         /\ Len(SubSeq(s, a + 1, a + z)) = z
         /\ \A i \in 1..z : SubSeq(s, a + 1, a + z)[i] = s[a + i]
<1>1. \A k \in (a + 1)..(a + z) : s[k] \in S
  BY ElementOfSeq
<1>2. /\ SubSeq(s, a + 1, a + z) \in Seq(S)
      /\ Len(SubSeq(s, a + 1, a + z)) = IF a + 1 <= a + z THEN a + z - (a + 1) + 1 ELSE 0
      /\ \A i \in 1..(a + z - (a + 1) + 1) : SubSeq(s, a + 1, a + z)[i] = s[a + 1 + i - 1]
  <2>1. a + 1 \in Int /\ a + z \in Int
    OBVIOUS
  <2> QED
    BY <1>1, <2>1, SubSeqProperties
<1>3. \A i \in 1..z : a + 1 + i - 1 = a + i
  OBVIOUS
<1> QED
  BY <1>2, <1>3

-----------------------------------------------------------------------------
(* What is paid.                                                            *)

(* A function can be defined from its values before: f[k] is the k-th step. *)
Iterates(h, f, base, n) == h[0] = base /\ \A k \in 1..n : h[k] = f[k][h[k - 1]]

LEMMA IterationExists ==
  ASSUME NEW S, NEW base \in S, NEW l \in Nat, NEW f \in [1..l -> [S -> S]]
  PROVE  \E h \in [0..l -> S] : Iterates(h, f, base, l)
<1> DEFINE T == {n \in Nat : n <= l => \E h \in [0..n -> S] : Iterates(h, f, base, n)}
<1>1. 0 \in T
  <2> DEFINE h == [n \in 0..0 |-> base]
  <2>1. h \in [0..0 -> S] /\ h[0] = base
    OBVIOUS
  <2>2. Iterates(h, f, base, 0)
    BY <2>1 DEF Iterates
  <2> QED
    BY <2>1, <2>2
<1>2. ASSUME NEW n \in Nat, n \in T PROVE n + 1 \in T
  <2> SUFFICES ASSUME n + 1 <= l PROVE \E h \in [0..(n + 1) -> S] : Iterates(h, f, base, n + 1)
    OBVIOUS
  <2>1. PICK h \in [0..n -> S] : Iterates(h, f, base, n)
    BY <1>2
  <2> DEFINE m == n + 1
             g == [k \in 0..m |-> IF k = m THEN f[m][h[n]] ELSE h[k]]
  <2>2. m \in 1..l /\ m - 1 = n /\ m \notin 0..n /\ n \in 0..n
    OBVIOUS
  <2>3. f[m][h[n]] \in S
    <3>1. f[m] \in [S -> S] /\ h[n] \in S
      BY <2>1, <2>2
    <3> QED
      BY <3>1
  <2>4. g \in [0..m -> S]
    <3>1. \A k \in 0..m : k # m => k \in 0..n
      OBVIOUS
    <3> HIDE DEF m
    <3> QED
      BY <2>1, <2>3, <3>1
  <2>5. Iterates(g, f, base, m)
    <3>1. \A k \in 0..n : k \in 0..m /\ k # m
      OBVIOUS
    <3>2. 0 \in 0..n /\ m \in 0..m /\ \A k \in 1..m : k - 1 \in 0..n /\ (k = m \/ k \in 1..n)
      OBVIOUS
    <3> HIDE DEF m
    <3>3. g[m] = f[m][h[n]] /\ \A k \in 0..n : g[k] = h[k]
      BY <3>1, <3>2
    <3> HIDE DEF g
    <3>4. ASSUME NEW k \in 1..m PROVE g[k] = f[k][g[k - 1]]
      <4>1. g[k - 1] = h[k - 1]
        BY <3>2, <3>3
      <4>2. CASE k = m
        BY <2>2, <3>3, <4>1, <4>2
      <4>3. CASE k \in 1..n
        <5>1. h[k] = f[k][h[k - 1]]
          BY <2>1, <4>3 DEF Iterates
        <5>2. k \in 0..n
          BY <4>3
        <5> QED
          BY <3>3, <4>1, <5>1, <5>2
      <4> QED
        BY <3>2, <4>2, <4>3
    <3>5. g[0] = base
      BY <2>1, <3>2, <3>3 DEF Iterates
    <3> QED
      BY <3>4, <3>5 DEF Iterates
  <2> HIDE DEF g
  <2> QED
    BY <2>4, <2>5
<1> HIDE DEF T
<1>3. l \in T
  BY <1>1, <1>2, SetInduction
<1> QED
  BY <1>3 DEF T

LEMMA SumFacts ==
  /\ \A s \in Seq(Nat) : Sum(s) \in Nat
  /\ Sum(<<>>) = 0
<1>1. ASSUME NEW s \in Seq(Nat) PROVE Sum(s) \in Nat /\ (Len(s) = 0 => Sum(s) = 0)
  <2> DEFINE Sums(h) == h = [n \in 0..Len(s) |-> IF n = 0 THEN 0 ELSE h[n - 1] + s[n]]
             g == CHOOSE h : Sums(h)
  <2>1. Sum(s) = g[Len(s)]
    BY DEF Sum
  <2>2. PICK h \in [0..Len(s) -> Nat] : h[0] = 0 /\ \A k \in 1..Len(s) : h[k] = h[k - 1] + s[k]
    <3> DEFINE l == Len(s)  f == [k \in 1..l |-> [x \in Nat |-> x + s[k]]]
    <3>1. l \in Nat /\ \A k \in 1..l : s[k] \in Nat
      BY ElementOfSeq
    <3> HIDE DEF l
    <3>2. f \in [1..l -> [Nat -> Nat]]
      BY <3>1
    <3>3. \A k \in 1..l, x \in Nat : f[k][x] = x + s[k]
      OBVIOUS
    <3> HIDE DEF f
    <3>4. PICK h \in [0..l -> Nat] : Iterates(h, f, 0, l)
      BY <3>1, <3>2, IterationExists
    <3>5. \A k \in 1..l : h[k - 1] \in Nat
      BY <3>1
    <3> QED
      BY ZenonT(60), <3>3, <3>4, <3>5 DEF Iterates, l
  <2>3. Sums(h)
    <3> DEFINE f == [n \in 0..Len(s) |-> IF n = 0 THEN 0 ELSE h[n - 1] + s[n]]
    <3>1. \A n \in 0..Len(s) : f[n] = h[n]
      BY <2>2
    <3>2. f = [n \in 0..Len(s) |-> f[n]] /\ h = [n \in 0..Len(s) |-> h[n]]
      BY <2>2
    <3> HIDE DEF f
    <3>3. f = h
      BY <3>1, <3>2
    <3> QED
      BY <3>3 DEF f
  <2>4. Sums(g)
    <3> HIDE DEF Sums
    <3> QED
      BY <2>3
  <2> HIDE DEF g
  <2>5. g[0] = 0
    BY <2>4
  <2>6. g[Len(s)] \in Nat
    <3> DEFINE T == {n \in Nat : n <= Len(s) => g[n] \in Nat}
    <3>1. 0 \in T
      BY <2>5
    <3>2. ASSUME NEW n \in Nat, n \in T PROVE n + 1 \in T
      <4> SUFFICES ASSUME n + 1 <= Len(s) PROVE g[n + 1] \in Nat
        OBVIOUS
      <4> DEFINE m == n + 1
      <4>1. m \in 0..Len(s) /\ m # 0 /\ m - 1 = n /\ m \in 1..Len(s)
        OBVIOUS
      <4>2. s[m] \in Nat /\ g[n] \in Nat
        BY <3>2, <4>1, ElementOfSeq
      <4> HIDE DEF m
      <4>3. g[m] = g[m - 1] + s[m]
        BY <2>4, <4>1
      <4> QED
        BY <4>1, <4>2, <4>3 DEF m
    <3> HIDE DEF T
    <3>3. Len(s) \in Nat
      OBVIOUS
    <3>4. Len(s) \in T
      BY <3>1, <3>2, <3>3, SetInduction
    <3> QED
      BY <3>3, <3>4 DEF T
  <2> QED
    BY <2>1, <2>5, <2>6
<1>2. <<>> \in Seq(Nat) /\ Len(<<>>) = 0
  BY EmptySeq
<1> QED
  BY <1>1, <1>2

(* A side of a deal pays for its shares, or for those before the asset that *)
(* has a part missing, which is sent without any.                           *)
LEMMA FeesAreNatural ==
  ASSUME NEW assets \in Seq([share : BOOLEAN, amount : Nat, whole : BOOLEAN])
  PROVE  FeesOf(assets) \in Nat
<1> DEFINE fees_ == [i \in DOMAIN assets |-> IF assets[i].share THEN assets[i].amount * ShareFee ELSE 0]
<1>1. ASSUME NEW i \in 1..Len(assets) PROVE fees_[i] \in Nat
  <2> DEFINE Asset == [share : BOOLEAN, amount : Nat, whole : BOOLEAN]
  <2> HIDE DEF Asset
  <2>a. assets \in Seq(Asset)
    BY DEF Asset
  <2>b. assets[i] \in Asset
    BY <2>a, ElementOfSeq
  <2>1. assets[i].amount \in Nat
    BY <2>b DEF Asset
  <2>2. assets[i].amount * ShareFee \in Nat
    BY <2>1, ConstantTypes
  <2> QED
    BY <2>2
<1>2. DOMAIN assets = 1..Len(assets) /\ Len(assets) \in Nat
  OBVIOUS
<1>3. fees_ \in [1..Len(assets) -> Nat]
  BY <1>1, <1>2
<1>4. fees_ \in Seq(Nat)
  BY <1>2, <1>3, SeqDef
<1> HIDE DEF fees_
<1>5. Sum(fees_) \in Nat
  BY <1>4, SumFacts
<1> QED
  BY <1>5 DEF FeesOf, fees_

LEMMA FirstFacts ==
  ASSUME NEW S, NEW s \in Seq(S), NEW n \in Nat
  PROVE  /\ FirstOf(n, s) \in Seq(S)
         /\ Len(FirstOf(n, s)) = IF Len(s) < n THEN Len(s) ELSE n
         /\ \A i \in 1..Len(FirstOf(n, s)) : FirstOf(n, s)[i] = s[i]
<1> DEFINE z == IF Len(s) < n THEN Len(s) ELSE n
<1>1. z \in Nat /\ 0 + z <= Len(s) /\ 0 \in Nat /\ 0 + z = z /\ 0 + 1 = 1
  OBVIOUS
<1>2. FirstOf(n, s) = SubSeq(s, 1, z)
  BY DEF FirstOf
<1> HIDE DEF z
<1>3. /\ SubSeq(s, 0 + 1, 0 + z) \in Seq(S) /\ Len(SubSeq(s, 0 + 1, 0 + z)) = z
      /\ \A i \in 1..z : SubSeq(s, 0 + 1, 0 + z)[i] = s[0 + i]
  BY <1>1, StretchFacts
<1>4. \A i \in 1..z : 0 + i = i
  BY <1>1
<1> QED
  BY <1>1, <1>2, <1>3, <1>4 DEF z

LEMMA SidesPay ==
  ASSUME NEW side \in Side
  PROVE  /\ SharesFees(side) \in Nat /\ FeesOf(AssetsOf(side)) \in Nat
         /\ FeesOf(AssetsOf(side)) <= SharesFees(side)
         /\ Malformed(side) = {} => FeesOf(AssetsOf(side)) = SharesFees(side)
<1> DEFINE Asset == [share : BOOLEAN, amount : Nat, whole : BOOLEAN]
           first == FirstOf(MaxAssets, side.assets)
<1>1. side.assets \in Seq(Asset) /\ MaxAssets \in Nat
  BY ContractAssumption DEF Side
<1>2. first \in Seq(Asset)
  BY <1>1, FirstFacts
<1>3. CASE Malformed(side) = {}
  <2>1. AssetsOf(side) = first /\ SharesFees(side) = FeesOf(AssetsOf(side))
    BY <1>3 DEF AssetsOf, SharesFees
  <2>2. FeesOf(first) \in Nat
    BY <1>2, FeesAreNatural
  <2> QED
    BY <2>1, <2>2
<1>4. CASE Malformed(side) # {}
  <2> DEFINE k == Min(Malformed(side)) - 1
  <2>1. k \in Nat
    <3>1. Malformed(side) \subseteq 1..Len(first)
      BY <1>2 DEF Malformed
    <3>2. Malformed(side) \subseteq Nat
      BY <3>1
    <3>3. \E i \in Malformed(side) : \A j \in Malformed(side) : i <= j
      BY <1>4, <3>2, LeastNatural
    <3>4. Min(Malformed(side)) \in Malformed(side)
      BY <3>3 DEF Min
    <3> QED
      BY <3>1, <3>4
  <2>2. AssetsOf(side) = <<>> /\ SharesFees(side) = FeesOf(FirstOf(k, side.assets))
    BY <1>4 DEF AssetsOf, SharesFees
  <2> HIDE DEF k
  <2>3. FirstOf(k, side.assets) \in Seq(Asset)
    BY <1>1, <2>1, FirstFacts
  <2> DEFINE some == FirstOf(k, side.assets)
  <2> HIDE DEF some
  <2>4. FeesOf(some) \in Nat
    BY <2>3, FeesAreNatural DEF some
  <2>5. FeesOf(<<>>) = 0
    <3> DEFINE none == [i \in DOMAIN <<>> |-> IF <<>>[i].share THEN <<>>[i].amount * ShareFee ELSE 0]
    <3>1. none = <<>>
      OBVIOUS
    <3>2. FeesOf(<<>>) = Sum(none)
      BY DEF FeesOf
    <3> QED
      BY <3>1, <3>2, SumFacts
  <2> QED
    BY <1>4, <2>2, <2>4, <2>5 DEF some
<1> QED
  BY <1>3, <1>4

(* The kind of a transaction is the operation, its amount what it pays.     *)
LEMMA BuiltKind ==
  ASSUME Op \in Operations \ Readers
  PROVE  /\ Built.kind = Op
         /\ Op = "create" => Built = CreateDeal
         /\ Op = "sendMany" => Built = SendToManyV1
         /\ Op = "poll" => Built \in {CreatePoll, Vote, CancelPoll}
         /\ Op = "benchmark" => Built = SendToManyBenchmark
<1>1. Op \in {"accept", "operate", "create"} => Built.kind = Op
  BY DEF Built, AcceptDeal, OperateDeal, CreateDeal, Transaction
<1>2. Op \in {"register", "sendMany"} => Built.kind = Op
  BY DEF Built, RegisterVault, SendToManyV1, Transaction
<1>3. Op \in {"shares", "benchmark"} => Built.kind = Op
  BY DEF Built, TransferSharesToManyV1, SendToManyBenchmark, Transaction
<1>4. Op = "poll" => Built \in {CreatePoll, Vote, CancelPoll}
  BY DEF Built
<1>5. Op = "poll" => Built.kind = Op
  BY <1>4 DEF CreatePoll, Vote, CancelPoll, Transaction
<1>6. Op = "create" => Built = CreateDeal
  BY DEF Built
<1>7. Op = "sendMany" => Built = SendToManyV1
  BY DEF Built
<1>8. Op = "benchmark" => Built = SendToManyBenchmark
  BY DEF Built
<1> QED
  BY <1>1, <1>2, <1>3, <1>4, <1>5, <1>6, <1>7, <1>8 DEF Operations, Readers

(* What is typed has been looked at; the fee that was read was asked, or no *)
(* fee came with the answer, and nothing counts as unread before.           *)
Looked == pc \notin {"start", "ended"} => ~Refused
FeeRead ==
  /\ fees \in asked /\ (Op \in {"sendMany", "poll"} => fees \in Fees)
  /\ pc \in {"start", "fee"} => unread = {}
  /\ pc = "fee" => Op \in {"sendMany", "poll"}
  /\ pc = "send" /\ Op = "poll" => fee \in asked
  /\ pc = "send" /\ Op = "sendMany" =>
       IF 0 \in unread THEN fee.many = 0 ELSE fee \in asked
PayInv == Looked /\ FeeRead /\ CreatePaid /\ TransfersPaid

LEMMA InitPay == Init => PayInv
<1> SUFFICES ASSUME Init PROVE PayInv
  OBVIOUS
<1>2. Looked /\ CreatePaid /\ TransfersPaid
  BY DEF Init, Looked, CreatePaid, TransfersPaid, NotSent, Transaction
<1>3. Op \in {"sendMany", "poll"} => fees \in Fees
  BY DEF Init
<1> QED
  BY <1>2, <1>3 DEF Init, FeeRead, PayInv

(* Before the end nothing is sent, and nothing need be paid.                *)
LEMMA NothingSent ==
  ASSUME IInv, pc # "ended", sent' = sent
  PROVE  CreatePaid' /\ TransfersPaid'
<1>1. sent' = NotSent
  BY DEF IInv, Route
<1> QED
  BY <1>1 DEF CreatePaid, TransfersPaid, NotSent, Transaction

LEMMA RefusedStays == ASSUME UNCHANGED command PROVE Refused' = Refused
  BY DEF Refused, Op

LEMMA ChangePay ==
  ASSUME IInv, PayInv, Change, fees' = fees \/ fees' \in Fees
  PROVE  PayInv'
<1>1. /\ pc \notin {"start", "ended"} /\ asked' = asked \cup {fees'}
      /\ UNCHANGED <<command, pc, fee, sent, unread>>
  BY DEF Change, memory, output
<1>2. CreatePaid' /\ TransfersPaid'
  BY <1>1, NothingSent
<1>3. Looked'
  BY <1>1, RefusedStays DEF PayInv, Looked
<1>4. FeeRead'
  BY <1>1 DEF PayInv, FeeRead, Op
<1> QED
  BY <1>2, <1>3, <1>4 DEF PayInv

(* The steps that neither start, nor read a fee, nor send.                  *)
PlainStep ==
  /\ pc \notin {"start", "ended"} /\ UNCHANGED <<contract, command, history, sent>>
  /\ pc' \notin {"start", "fee"}
  /\ pc' = "send" => Op \in {"register", "accept"}

LEMMA PlainPay == ASSUME IInv, PayInv, PlainStep PROVE PayInv'
<1>1. CreatePaid' /\ TransfersPaid'
  BY NothingSent DEF PlainStep
<1>2. Looked'
  BY RefusedStays DEF PlainStep, PayInv, Looked
<1>3. FeeRead'
  BY DEF PlainStep, PayInv, FeeRead, Op, contract, history
<1> QED
  BY <1>1, <1>2, <1>3 DEF PayInv

LEMMA PlainSteps ==
  ASSUME IInv, Op \in Operations,
         \/ Abort \/ ReadRequestedQU \/ ReadSharesFees \/ QueryVaults \/ QueryAgain \/ QueryFailed
         \/ QueryEmpty \/ GetBalances16 \/ TryBatchAgain \/ BatchFailed \/ Totals \/ GetPayouts
         \/ NoPayouts \/ Dividends \/ NoFee
  PROVE  PlainStep
<1>1. /\ pc = "shares" => Op = "accept"
      /\ pc = "owner" => Op = "register"
  BY DEF IInv, Route
<1> USE DEF PlainStep, Client, End, output
<1>2. CASE Abort \/ NoFee \/ Dividends
  BY <1>2 DEF Abort, NoFee, Dividends
<1>3. CASE ReadRequestedQU
  BY <1>3 DEF ReadRequestedQU
<1>4. CASE ReadSharesFees
  BY <1>1, <1>4 DEF ReadSharesFees
<1>5. CASE QueryVaults \/ QueryFailed \/ QueryEmpty
  BY <1>1, <1>5 DEF QueryVaults, QueryFailed, QueryEmpty, CountVaults
<1>6. CASE QueryAgain
  BY <1>6 DEF QueryAgain
<1>7. CASE GetBalances16 \/ TryBatchAgain \/ BatchFailed
  BY <1>7 DEF GetBalances16, TryBatchAgain, BatchFailed
<1>8. CASE Totals \/ GetPayouts \/ NoPayouts
  BY <1>8 DEF Totals, GetPayouts, NoPayouts, LeavePool, AfterPool
<1> QED
  BY <1>2, <1>3, <1>4, <1>5, <1>6, <1>7, <1>8

LEMMA StartPay == ASSUME IInv, PayInv, Op \in Operations, Start \/ Refuse PROVE PayInv'
<1>1. /\ pc = "start" /\ UNCHANGED <<contract, command, history, fee, sent, unread>>
      /\ \/ pc' = "ended"
         \/ pc' = FirstStep[Op] /\ ~Refused
  BY DEF Start, Refuse, Client, End, output, memory
<1>2. /\ FirstStep[Op] = "fee" <=> Op \in {"sendMany", "poll"}
      /\ FirstStep[Op] # "start" /\ (FirstStep[Op] = "send" => Op \notin {"sendMany", "poll"})
  BY DEF FirstStep, Operations
<1>3. CreatePaid' /\ TransfersPaid'
  BY <1>1, NothingSent
<1>4. Looked'
  BY <1>1, RefusedStays DEF Looked
<1>5. FeeRead'
  BY <1>1, <1>2 DEF PayInv, FeeRead, Op, contract, history
<1> QED
  BY <1>3, <1>4, <1>5 DEF PayInv

LEMMA FeePay == ASSUME IInv, PayInv, ReadFee PROVE PayInv'
<1>1. /\ pc = "fee" /\ pc' = "send" /\ UNCHANGED <<contract, command, history, sent>>
      /\ \/ fee' = fees /\ UNCHANGED unread
         \/ Op = "sendMany" /\ fee' = [fees EXCEPT !.many = 0] /\ unread' = unread \cup {0}
  BY DEF ReadFee, Client, output
<1>2. CreatePaid' /\ TransfersPaid'
  BY <1>1, NothingSent
<1>3. Looked'
  BY <1>1, RefusedStays DEF PayInv, Looked
<1>4. unread = {} /\ fees \in asked /\ (Op = "sendMany" => fees \in [many : Nat, create : Nat, vote : Nat])
  BY <1>1, ContractAssumption DEF PayInv, FeeRead
<1>5. FeeRead'
  BY <1>1, <1>4 DEF PayInv, FeeRead, Op, contract, history
<1> QED
  BY <1>2, <1>3, <1>5 DEF PayInv

LEMMA SendPay == ASSUME IInv, PayInv, Op \in Operations, Send PROVE PayInv'
<1>1. /\ UNCHANGED <<contract, command, history, fee, unread>>
      /\ pc = "send" /\ pc' = "ended" /\ sent' = Built
  BY DEF Send, Client, memory
<1>2. Op \in Operations \ Readers /\ command \in Commands
  BY <1>1 DEF IInv, World, Route
<1>3. Looked' /\ FeeRead'
  BY <1>1 DEF PayInv, Looked, FeeRead, Op, contract, history
<1>4. CreatePaid'
  <2>1. CASE Op = "create"
    <3>1. command.offered \in Side /\ command.requested \in Side
      BY <1>2, <2>1, CommandsAssumption DEF Op
    <3> DEFINE o == command.offered  r == command.requested
               do == FeesOf(AssetsOf(o))  so == SharesFees(o)
               dr == FeesOf(AssetsOf(r))  sr == SharesFees(r)
    <3>2. /\ do \in Nat /\ so \in Nat /\ do <= so /\ (Malformed(o) = {} => do = so)
          /\ dr \in Nat /\ sr \in Nat /\ dr <= sr /\ (Malformed(r) = {} => dr = sr)
      BY <3>1, SidesPay
    <3>3. CreateFee \in Nat /\ o.qu \in Int
      BY <3>1, ContractAssumption DEF Side
    <3>4. sent' = Transaction("create", CreateFee + o.qu + so + sr, <<AssetsOf(o), AssetsOf(r)>>)
      BY <1>1, <1>2, <2>1, BuiltKind DEF CreateDeal, CreateAmount
    <3>5. /\ sent'.amount = CreateFee + o.qu + so + sr
          /\ sent'.data[1] = AssetsOf(o) /\ sent'.data[2] = AssetsOf(r)
      BY <3>4 DEF Transaction
    <3>6. command' = command
      BY <1>1
    <3> DEFINE owed == CreateFee + o.qu + do + dr  paid == CreateFee + o.qu + so + sr
    <3>7. paid >= owed /\ (Malformed(o) \cup Malformed(r) = {} => paid = owed)
      <4> HIDE DEF do, so, dr, sr
      <4>1. Malformed(o) \cup Malformed(r) = {} => Malformed(o) = {} /\ Malformed(r) = {}
        OBVIOUS
      <4> QED
        BY <3>2, <3>3, <4>1
    <3> QED
      BY <3>5, <3>6, <3>7 DEF CreatePaid
  <2>2. CASE Op # "create"
    BY <1>1, <1>2, <2>2, BuiltKind DEF CreatePaid
  <2> QED
    BY <2>1, <2>2
<1>5. TransfersPaid'
  <2>1. sent'.kind = Op /\ asked' = asked /\ unread' = unread
    BY <1>1, <1>2, BuiltKind DEF history
  <2>2. ASSUME Op = "sendMany"
        PROVE  \E f \in asked : sent'.amount = Sum(sent'.data) + IF 0 \in unread THEN 0 ELSE f.many
    <3>1. sent' = SendToManyV1
      BY <1>1, <1>2, <2>2, BuiltKind
    <3>2. sent'.amount = Sum(sent'.data) + fee.many
      BY <3>1 DEF SendToManyV1, Transaction
    <3>3. fees \in asked /\ IF 0 \in unread THEN fee.many = 0 ELSE fee \in asked
      BY <1>1, <2>2 DEF PayInv, FeeRead
    <3> QED
      BY <3>2, <3>3
  <2>3. ASSUME Op = "poll"
        PROVE  \E f \in asked : sent'.amount = IF sent'.data = "vote" THEN f.vote ELSE f.create
    <3>1. sent' \in {CreatePoll, Vote, CancelPoll}
      BY <1>1, <1>2, <2>3, BuiltKind
    <3>2. sent'.amount = IF sent'.data = "vote" THEN fee.vote ELSE fee.create
      BY <3>1 DEF CreatePoll, Vote, CancelPoll, Transaction
    <3>3. fee \in asked
      BY <1>1, <2>3 DEF PayInv, FeeRead
    <3> QED
      BY <3>2, <3>3
  <2>4. ASSUME Op = "benchmark", sent'.data[1] * sent'.data[2] + 2 < Word
        PROVE  sent'.amount = sent'.data[1] * sent'.data[2] /\ sent'.amount + 2 <= Tracker
    <3>1. sent' = SendToManyBenchmark
      BY <1>1, <1>2, <2>4, BuiltKind
    <3> DEFINE d == command.dst  e == command.each  n == d * e
    <3>2. d \in Nat /\ e \in Nat
      BY <1>2, <2>4, CommandsAssumption DEF Op
    <3>3. BenchmarkOk(d, e)
      <4>1. ~Refused
        BY <1>1 DEF PayInv, Looked
      <4> QED
        BY <2>4, <4>1 DEF Refused
    <3>4. sent'.amount = n % Word /\ sent'.data[1] * sent'.data[2] = n
      BY <3>1 DEF SendToManyBenchmark, Transaction, Transfers
    <3>5. ((n % Word) + 2) % Word <= Tracker
      BY <3>3 DEF BenchmarkOk, Transfers
    <3>6. n \in Nat /\ Word \in Nat \ {0} /\ n + 2 < Word
      BY <2>4, <3>2, <3>4, ContractAssumption
    <3> HIDE DEF n
    <3>7. n % Word = n /\ (n + 2) % Word = n + 2
      BY <3>6
    <3> QED
      BY <3>4, <3>5, <3>7
  <2> QED
    BY <2>1, <2>2, <2>3, <2>4 DEF TransfersPaid
<1> QED
  BY <1>3, <1>4, <1>5 DEF PayInv

LEMMA NextPay == IInv /\ PayInv /\ [Next]_vars => PayInv'
<1> SUFFICES ASSUME IInv, PayInv, [Next]_vars PROVE PayInv'
  OBVIOUS
<1>0. Op \in Operations
  BY CommandTypes DEF IInv, World, Op
<1>1. CASE ClientStep
  BY <1>0, <1>1, PlainSteps, PlainPay, StartPay, FeePay, SendPay DEF ClientStep
<1>2. CASE \/ \E i \in Deals, place \in {"absent", "proposed", "public"} : MoveDeal(i, place)
           \/ \E o \in Owners, n \in {0, MaxCoOwner - 1, MaxCoOwner} : Join(o, n)
           \/ \E id \in Identities, b \in Balances : Transfer(id, b)
           \/ \E p \in 1..Pools, to \in Identities : Pay(p, to)
           \/ EndEpoch \/ ChangeFees
  <2>1. Change /\ (fees' = fees \/ fees' \in Fees)
    BY <1>2 DEF MoveDeal, Join, Transfer, Pay, EndEpoch, ChangeFees
  <2> QED
    BY <2>1, ChangePay
<1>3. CASE UNCHANGED vars
  <2>1. Looked' /\ FeeRead'
    BY <1>3, RefusedStays DEF PayInv, Looked, FeeRead, Op, vars, contract, history, memory
  <2>2. CreatePaid' /\ TransfersPaid'
    BY <1>3 DEF PayInv, CreatePaid, TransfersPaid, vars, history, output
  <2> QED
    BY <2>1, <2>2 DEF PayInv
<1> QED
  BY <1>1, <1>2, <1>3 DEF Next

(* What is sent is paid for in full: a deal that is accepted with its price  *)
(* and the fees of its shares, although the two are read one after the other *)
(* while the deal comes and goes; a deal that is created with the fees of    *)
(* all shares in it; rows, polls and benchmarks with fees that were asked.   *)
THEOREM AllIsPaid == Spec => []PaidInFull
<1>1. IInv /\ PayInv => PaidInFull
  BY DEF IInv, PayInv, PaidInFull
<1> QED
  BY InitInv, NextInv, InitPay, NextPay, <1>1, PTL DEF Spec

-----------------------------------------------------------------------------
(* The balances of a list: every batch is the next one of the list, and has *)
(* the balances of one moment.                                              *)
OfOneMoment(n) ==
  \E w \in was : \A k \in 1..Batch :
    n * Batch + k <= Len(printed) =>
      printed[n * Batch + k].balance = w[printed[n * Batch + k].id]

Line == [id : Identities, balance : Balances]
BatchInv ==
  Op = "balances" =>
    /\ pc \in {"start", "batch", "ended"} /\ balances \in was
    /\ balances \in [Identities -> Balances]
    /\ printed \in Seq(Line) /\ at[2] \in Nat
    /\ pc = "start" => printed = <<>> /\ at[2] = 0
    /\ pc = "batch" => /\ ListOk(command.list)
                       /\ Len(printed) = at[2] * Batch /\ at[2] * Batch < Len(command.list)
    /\ \A i \in 1..Len(printed) : printed[i].id = command.list[i]
    /\ \A n \in Nat : OfOneMoment(n)
    /\ pc # "ended" => outcome = "none"
    /\ outcome = "printed" => Len(printed) = Len(command.list)

(* A page or a batch: part n of s, where n parts of this size come before.  *)
LEMMA PartFacts ==
  ASSUME NEW S, NEW s \in Seq(S), NEW n \in Nat, NEW size \in Nat \ {0}
  PROVE  /\ Part(s, n, size) \in Seq(S) /\ Len(Part(s, n, size)) <= size
         /\ \A k \in 1..Len(Part(s, n, size)) :
              n * size + k \in 1..Len(s) /\ Part(s, n, size)[k] = s[n * size + k]
         /\ \A k \in 1..size : n * size + k <= Len(s) => k \in 1..Len(Part(s, n, size))
<1> DEFINE a == n * size  rest == SubSeq(s, a + 1, Len(s))
<1>1. a \in Nat /\ size \in Nat
  OBVIOUS
<1>2. Part(s, n, size) = FirstOf(size, rest)
  BY DEF Part
<1> HIDE DEF a
<1>3. CASE a <= Len(s)
  <2> DEFINE z == Len(s) - a
  <2>1. z \in Nat /\ a + z = Len(s)
    BY <1>1, <1>3
  <2>2. /\ SubSeq(s, a + 1, a + z) \in Seq(S) /\ Len(SubSeq(s, a + 1, a + z)) = z
        /\ \A i \in 1..z : SubSeq(s, a + 1, a + z)[i] = s[a + i]
    <3> HIDE DEF z
    <3> QED
      BY <1>1, <2>1, StretchFacts
  <2>3. rest \in Seq(S) /\ Len(rest) = z /\ \A i \in 1..z : rest[i] = s[a + i]
    BY <2>1, <2>2
  <2> HIDE DEF rest
  <2>4. /\ FirstOf(size, rest) \in Seq(S)
        /\ Len(FirstOf(size, rest)) = IF z < size THEN z ELSE size
        /\ \A i \in 1..Len(FirstOf(size, rest)) : FirstOf(size, rest)[i] = rest[i]
    BY <1>1, <2>3, FirstFacts
  <2> DEFINE p == FirstOf(size, rest)
  <2> HIDE DEF p
  <2>5. /\ p \in Seq(S) /\ Len(p) = (IF z < size THEN z ELSE size)
        /\ \A i \in 1..Len(p) : p[i] = rest[i]
    BY <2>4 DEF p
  <2> DEFINE l == Len(s)  lp == Len(p)
  <2>6. /\ l \in Nat /\ z \in Nat /\ a + z = l /\ lp = IF z < size THEN z ELSE size
        /\ \A i \in 1..lp : p[i] = rest[i]
        /\ \A i \in 1..z : rest[i] = s[a + i]
    BY <2>1, <2>3, <2>5
  <2> HIDE DEF l, lp, z
  <2>7. lp \in Nat /\ lp <= size /\ lp <= z
    BY <1>1, <2>6
  <2>8. ASSUME NEW k \in 1..lp PROVE a + k \in 1..l /\ p[k] = s[a + k]
    <3>1. k \in 1..z /\ a + k \in 1..l
      BY <1>1, <2>6, <2>7
    <3> QED
      BY <2>6, <3>1
  <2>9. ASSUME NEW k \in 1..size, a + k <= l PROVE k \in 1..lp
    BY <1>1, <2>6, <2>9
  <2> QED
    BY <1>2, <2>5, <2>7, <2>8, <2>9 DEF p, a, l, lp
<1>4. CASE a > Len(s)
  <2>1. rest = <<>>
    BY <1>1, <1>4, SubSeqEmpty
  <2>2. <<>> \in Seq(S) /\ Len(<<>>) = 0
    BY EmptySeq
  <2>3. FirstOf(size, <<>>) \in Seq(S) /\ Len(FirstOf(size, <<>>)) = 0
    <3>1. Len(FirstOf(size, <<>>)) = IF Len(<<>>) < size THEN Len(<<>>) ELSE size
      BY <1>1, <2>2, FirstFacts
    <3>2. FirstOf(size, <<>>) \in Seq(S)
      BY <1>1, <2>2, FirstFacts
    <3> QED
      BY <1>1, <2>2, <3>1, <3>2
  <2>4. \A k \in 1..size : ~ (a + k <= Len(s))
    BY <1>1, <1>4
  <2> DEFINE p == Part(s, n, size)
  <2>5. p \in Seq(S) /\ Len(p) = 0
    BY <1>1, <1>2, <2>1, <2>3
  <2> HIDE DEF p, rest
  <2>6. Len(p) <= size /\ \A k \in 1..Len(p) : FALSE
    BY <2>5
  <2> QED
    BY <2>4, <2>5, <2>6 DEF p, a
<1> QED
  BY <1>1, <1>3, <1>4

LEMMA BatchSize == Batch \in Nat \ {0} /\ PageSize \in Nat \ {0} /\ Pools \in Nat \ {0}
  BY ContractAssumption

LEMMA ListFacts ==
  ASSUME Op = "balances", command \in Commands
  PROVE  /\ command.list \in Seq(Identities \cup {Odd})
         /\ ListOk(command.list) => command.list \in Seq(Identities) /\ 0 < Len(command.list)
<1>1. command.list \in Seq(Identities \cup {Odd})
  BY CommandsAssumption DEF Op
<1>2. ASSUME ListOk(command.list)
      PROVE  command.list \in Seq(Identities) /\ 0 < Len(command.list)
  <2> DEFINE list == command.list  S == Identities \cup {Odd}
  <2>1. list \in Seq(S) /\ list # <<>> /\ \A i \in 1..Len(list) : list[i] # Odd
    BY <1>1, <1>2 DEF ListOk, Contains
  <2> HIDE DEF list
  <2>2. \A i \in 1..Len(list) : list[i] \in S
    BY <2>1, ElementOfSeq
  <2>3. Len(list) \in Nat /\ list \in [1..Len(list) -> Identities]
    BY <2>1, <2>2
  <2>4. list \in Seq(Identities)
    BY <2>3, SeqDef
  <2>5. Len(list) # 0
    BY <2>1, EmptySeq
  <2> QED
    BY <2>3, <2>4, <2>5 DEF list
<1> QED
  BY <1>1, <1>2

LEMMA InitBatch == Init => BatchInv
<1> SUFFICES ASSUME Init, Op = "balances" PROVE BatchInv
  BY DEF BatchInv
<1>1. /\ printed = <<>> /\ pc = "start" /\ at = <<1, 0>> /\ outcome = "none"
      /\ was = {balances} /\ balances \in [Identities -> Balances]
  BY DEF Init
<1>2. <<>> \in Seq(Line) /\ Len(<<>>) = 0
  BY EmptySeq
<1>3. ASSUME NEW n \in Nat PROVE OfOneMoment(n)
  <2> DEFINE a == n * Batch
  <2>1. a \in Nat
    BY BatchSize
  <2> HIDE DEF a
  <2>2. \A k \in 1..Batch : ~ (a + k <= 0)
    BY <2>1
  <2> QED
    BY <1>1, <1>2, <2>2 DEF OfOneMoment, a
<1>4. at[2] = 0 /\ at[2] \in Nat
  BY <1>1
<1> QED
  BY <1>1, <1>2, <1>3, <1>4 DEF BatchInv

LEMMA ChangeBatch ==
  ASSUME BatchInv, Change, balances' = balances \/ balances' \in [Identities -> Balances]
  PROVE  BatchInv'
<1> SUFFICES ASSUME Op = "balances" PROVE BatchInv'
  BY DEF BatchInv, Change, Op
<1>1. /\ UNCHANGED <<command, pc, at, printed, outcome>> /\ was \subseteq was' /\ balances' \in was'
  BY DEF Change, memory, output
<1>2. ASSUME NEW n \in Nat PROVE OfOneMoment(n)'
  <2>1. OfOneMoment(n)
    BY DEF BatchInv
  <2> QED
    BY <1>1, <2>1 DEF OfOneMoment
<1> QED
  BY <1>1, <1>2 DEF BatchInv, Op

LEMMA StartBatch ==
  ASSUME BatchInv, Op = "balances", command \in Commands, Start \/ Refuse \/ TryBatchAgain \/ BatchFailed
  PROVE  BatchInv'
<1>1. UNCHANGED <<command, at, printed, balances, was>>
  BY DEF Start, Refuse, TryBatchAgain, BatchFailed, Client, End, memory, output, contract, history
<1>2. \A n \in Nat : OfOneMoment(n)'
  BY <1>1 DEF BatchInv, OfOneMoment
<1>3. CASE Start
  <2>1. ListOk(command.list) /\ pc = "start" /\ pc' = "batch" /\ outcome' = outcome
    BY <1>3 DEF Start, Client, FirstStep, Refused, output
  <2>2. 0 < Len(command.list)
    BY <2>1, ListFacts
  <2>3. at[2] = 0 /\ Len(printed) = 0 /\ 0 * Batch = 0
    BY <2>1, EmptySeq, BatchSize DEF BatchInv
  <2> QED
    BY <1>1, <1>2, <2>1, <2>2, <2>3 DEF BatchInv, Op
<1>4. CASE Refuse \/ BatchFailed
  <2>1. pc' = "ended" /\ outcome' \in {"refused", "failed"}
    BY <1>4 DEF Refuse, BatchFailed, Client, End
  <2> QED
    BY <1>1, <1>2, <2>1 DEF BatchInv, Op
<1>5. CASE TryBatchAgain
  <2>1. pc = "batch" /\ pc' = pc /\ outcome' = outcome
    BY <1>5 DEF TryBatchAgain, Client, output
  <2> QED
    BY <1>1, <1>2, <2>1 DEF BatchInv, Op
<1> QED
  BY <1>3, <1>4, <1>5

(* The batch at a * Batch follows what was printed.                          *)
LEMMA PrintBatch ==
  ASSUME BatchInv, Op = "balances", command \in Commands, GetBalances16
  PROVE  BatchInv'
<1> DEFINE n == at[2]  a == n * Batch  list == command.list  lines == Lines(n)
           l == Len(list)  b == Len(lines)
<1>1. /\ pc = "batch" /\ pc' = IF LastBatch(n) THEN "ended" ELSE "batch"
      /\ printed' = printed \o lines /\ at' = <<1, n + 1>>
      /\ outcome' = IF LastBatch(n) THEN "printed" ELSE outcome
      /\ UNCHANGED <<command, balances, was>>
  BY DEF GetBalances16, Client, contract, history
<1>2. /\ n \in Nat /\ list \in Seq(Identities) /\ printed \in Seq(Line) /\ ListOk(list)
      /\ Len(printed) = a /\ a < l /\ outcome = "none"
      /\ balances \in was /\ balances \in [Identities -> Balances]
      /\ \A i \in 1..Len(printed) : printed[i].id = list[i]
  BY <1>1, ListFacts DEF BatchInv
<1>3. a \in Nat /\ (n + 1) * Batch = a + Batch /\ Batch \in Nat \ {0} /\ l \in Nat
  <2> HIDE DEF n
  <2> QED
    BY <1>2, BatchSize, ProductFacts
<1>4. /\ lines \in Seq(Line) /\ b <= Batch
      /\ \A k \in 1..b : a + k \in 1..l /\ lines[k] = [id |-> list[a + k], balance |-> balances[list[a + k]]]
      /\ \A k \in 1..Batch : a + k <= l => k \in 1..b
  <2> DEFINE p == Part(list, n, Batch)
  <2>1. /\ p \in Seq(Identities) /\ Len(p) <= Batch
        /\ \A k \in 1..Len(p) : a + k \in 1..l /\ p[k] = list[a + k]
        /\ \A k \in 1..Batch : a + k <= l => k \in 1..Len(p)
    <3> HIDE DEF n
    <3> QED
      BY <1>2, <1>3, PartFacts
  <2>2. lines = [i \in DOMAIN p |-> [id |-> p[i], balance |-> balances[p[i]]]]
    BY DEF Lines, BatchOf
  <2> HIDE DEF p, lines
  <2>3. DOMAIN p = 1..Len(p) /\ Len(p) \in Nat
    BY <2>1
  <2>4. \A i \in 1..Len(p) : p[i] \in Identities
    BY <2>1, ElementOfSeq
  <2>5. \A i \in 1..Len(p) : lines[i] = [id |-> p[i], balance |-> balances[p[i]]]
    BY <2>2, <2>3
  <2>6. ASSUME NEW i \in 1..Len(p) PROVE lines[i] \in Line
    <3>1. p[i] \in Identities
      BY <2>4
    <3>2. balances[p[i]] \in Balances
      BY <1>2, <3>1
    <3>3. lines[i] = [id |-> p[i], balance |-> balances[p[i]]]
      BY <2>5
    <3> DEFINE x == p[i]  y == balances[p[i]]
    <3> HIDE DEF x, y
    <3>4. lines[i] = [id |-> x, balance |-> y] /\ x \in Identities /\ y \in Balances
      BY <3>1, <3>2, <3>3 DEF x, y
    <3> QED
      BY <3>4 DEF Line
  <2>7. lines \in [1..Len(p) -> Line]
    BY <2>2, <2>3, <2>6
  <2>8. lines \in Seq(Line) /\ Len(lines) = Len(p)
    BY <2>3, <2>7, SeqDef, LenProperties
  <2> QED
    BY <2>1, <2>5, <2>8
<1> HIDE DEF lines
<1>5. /\ printed \o lines \in Seq(Line) /\ Len(printed \o lines) = a + b
      /\ \A i \in 1..a : (printed \o lines)[i] = printed[i]
      /\ \A k \in 1..b : (printed \o lines)[a + k] = lines[k]
  <2>1. /\ printed \o lines \in Seq(Line) /\ Len(printed \o lines) = Len(printed) + Len(lines)
        /\ \A i \in 1..(Len(printed) + Len(lines)) :
             (printed \o lines)[i] = IF i <= Len(printed) THEN printed[i] ELSE lines[i - Len(printed)]
    BY <1>2, <1>4, ConcatProperties
  <2>2. b \in Nat
    BY <1>4
  <2> HIDE DEF a, b
  <2>3. \A i \in 1..(a + b) : (printed \o lines)[i] = IF i <= a THEN printed[i] ELSE lines[i - a]
    BY <1>2, <2>1 DEF b
  <2> DEFINE both == printed \o lines
  <2>9. both \in Seq(Line) /\ Len(both) = a + b
    BY <1>2, <2>1 DEF b
  <2>10. \A i \in 1..(a + b) : both[i] = IF i <= a THEN printed[i] ELSE lines[i - a]
    BY <2>3
  <2> HIDE DEF both
  <2>4. \A i \in 1..a : i \in 1..(a + b) /\ i <= a
    BY <1>3, <2>2
  <2>5. \A k \in 1..b : a + k \in 1..(a + b) /\ ~ (a + k <= a) /\ (a + k) - a = k
    BY <1>3, <2>2
  <2>6. \A i \in 1..a : both[i] = printed[i]
    BY <2>4, <2>10
  <2>7. ASSUME NEW k \in 1..b PROVE both[a + k] = lines[k]
    <3>1. both[a + k] = lines[(a + k) - a]
      BY <2>5, <2>10
    <3> QED
      BY <2>5, <3>1
  <2> QED
    BY <2>6, <2>7, <2>9 DEF both
<1>6. b \in Nat /\ b >= 1 /\ (LastBatch(n) => a + b = l) /\ (~LastBatch(n) => b = Batch /\ a + b < l)
  <2>1. b \in Nat /\ b <= Batch
    BY <1>4
  <2>2. LastBatch(n) <=> a + Batch >= l
    BY <1>3 DEF LastBatch
  <2> HIDE DEF a, b, l, list, n
  <2>3. 1 \in 1..b
    <3>1. 1 \in 1..Batch /\ a + 1 <= l
      BY <1>2, <1>3
    <3> QED
      BY <1>4, <3>1
  <2>4. ASSUME a + Batch >= l PROVE a + b = l
    <3>1. l - a \in 1..Batch /\ a + (l - a) <= l
      BY <1>2, <1>3, <2>4
    <3>2. l - a \in 1..b
      BY <1>4, <3>1
    <3>3. b \in 1..b
      BY <2>1, <2>3
    <3>4. a + b \in 1..l
      BY <1>4, <3>3 DEF b, l, list
    <3>5. a + b <= l
      BY <1>3, <3>4
    <3> QED
      BY <1>3, <2>1, <3>2, <3>5
  <2>5. ASSUME ~ (a + Batch >= l) PROVE b = Batch /\ a + b < l
    <3>1. Batch \in 1..Batch /\ a + Batch <= l
      BY <1>3, <2>5
    <3>2. Batch \in 1..b
      BY <1>4, <3>1
    <3> QED
      BY <1>3, <2>1, <2>5, <3>2
  <2> QED
    BY <2>1, <2>2, <2>3, <2>4, <2>5
<1>7. \A i \in 1..Len(printed') : printed'[i].id = list[i]
  <2>1. ASSUME NEW i \in 1..(a + b) PROVE (printed \o lines)[i].id = list[i]
    <3> HIDE DEF a, b, list
    <3>1. CASE i <= a
      <4>1. i \in 1..a
        BY <1>3, <1>6, <3>1
      <4> QED
        BY <1>2, <1>5, <4>1
    <3>2. CASE ~ (i <= a)
      <4>1. i - a \in 1..b /\ a + (i - a) = i
        BY <1>3, <1>6, <3>2
      <4>2. (printed \o lines)[i] = lines[i - a]
        BY <1>5, <4>1
      <4>3. lines[i - a] = [id |-> list[a + (i - a)], balance |-> balances[list[a + (i - a)]]]
        BY <1>4, <4>1 DEF b
      <4> QED
        BY <4>1, <4>2, <4>3
    <3> QED
      BY <3>1, <3>2
  <2> QED
    BY <1>1, <1>5, <2>1
<1>8. ASSUME NEW m \in Nat PROVE OfOneMoment(m)'
  <2> DEFINE c == m * Batch
  <2>1. c \in Nat /\ (m < n => c + Batch <= a) /\ (m > n => a + Batch <= c)
    <3> HIDE DEF n
    <3> QED
      BY <1>2, <1>3, ProductFacts
  <2>2. OfOneMoment(m)
    BY DEF BatchInv
  <2>3. CASE m < n
    <3>1. \A k \in 1..Batch : c + k \in 1..a
      <4> HIDE DEF c, a
      <4> QED
        BY <1>3, <2>1, <2>3
    <3>2. \A k \in 1..Batch : c + k <= Len(printed) /\ printed'[c + k] = printed[c + k]
      <4> HIDE DEF c, a
      <4> QED
        BY <1>1, <1>2, <1>3, <1>5, <3>1
    <3> HIDE DEF c
    <3> QED
      BY <1>1, <2>2, <3>2 DEF OfOneMoment, c
  <2>4. CASE m = n
    <3>1. ASSUME NEW k \in 1..Batch, a + k <= Len(printed')
          PROVE  printed'[a + k].balance = balances[printed'[a + k].id]
      <4> HIDE DEF a, b, list
      <4>1. k \in 1..b
        BY <1>1, <1>3, <1>5, <1>6, <3>1
      <4>2. printed'[a + k] = [id |-> list[a + k], balance |-> balances[list[a + k]]]
        BY <1>1, <1>4, <1>5, <4>1
      <4> QED
        BY <4>2
    <3>2. c = a
      BY <2>4
    <3> HIDE DEF a, c
    <3> QED
      BY ZenonT(60), <1>1, <1>2, <3>1, <3>2 DEF OfOneMoment, c
  <2>5. CASE m > n
    <3>1. ASSUME NEW k \in 1..Batch PROVE ~ (c + k <= Len(printed'))
      <4>1. Len(printed') = a + b /\ b <= Batch
        BY <1>1, <1>4, <1>5
      <4> HIDE DEF a, b, c
      <4> QED
        BY <1>3, <1>6, <2>1, <2>5, <4>1
    <3> HIDE DEF c
    <3> QED
      BY <1>1, <1>2, <3>1 DEF OfOneMoment, c
  <2> QED
    BY <1>2, <2>3, <2>4, <2>5
<1>9. at'[2] = n + 1 /\ at'[2] \in Nat
  BY <1>1, <1>2
<1>10. CASE LastBatch(n)
  <2>1. pc' = "ended" /\ Len(printed') = Len(list)
    BY <1>1, <1>5, <1>6, <1>10
  <2> QED
    BY <1>1, <1>2, <1>5, <1>7, <1>8, <1>9, <2>1 DEF BatchInv, Op
<1>11. CASE ~LastBatch(n)
  <2>1. pc' = "batch" /\ outcome' = "none" /\ Len(printed') = a + Batch /\ a + Batch < l
    BY <1>1, <1>2, <1>5, <1>6, <1>11
  <2>2. Len(printed') = at'[2] * Batch /\ at'[2] * Batch < Len(list)
    BY <1>3, <1>9, <2>1
  <2> QED
    BY <1>1, <1>2, <1>5, <1>7, <1>8, <1>9, <2>1, <2>2 DEF BatchInv, Op
<1> QED
  BY <1>10, <1>11

LEMMA NextBatch == IInv /\ BatchInv /\ [Next]_vars => BatchInv'
<1> SUFFICES ASSUME IInv, BatchInv, [Next]_vars PROVE BatchInv'
  OBVIOUS
<1>0. command \in Commands
  BY DEF IInv, World
<1>1. CASE ClientStep
  <2>0. command' = command
    BY <1>1 DEF ClientStep, Refuse, Start, Abort, ReadRequestedQU, ReadSharesFees, QueryVaults, QueryAgain,
         QueryFailed, QueryEmpty, CountVaults, GetBalances16, TryBatchAgain, BatchFailed, Totals, GetPayouts,
         NoPayouts, LeavePool, Dividends, ReadFee, NoFee, Send, Client
  <2>1. CASE Op # "balances"
    BY <2>0, <2>1 DEF BatchInv, Op
  <2>2. CASE Op = "balances"
    <3>1. pc \in {"start", "batch", "ended"}
      BY <2>2 DEF BatchInv
    <3>2. Start \/ Refuse \/ TryBatchAgain \/ BatchFailed \/ GetBalances16
      BY <1>1, <3>1 DEF ClientStep, Abort, ReadRequestedQU, ReadSharesFees, QueryVaults, QueryAgain,
         QueryFailed, QueryEmpty, Totals, GetPayouts, NoPayouts, Dividends, ReadFee, NoFee, Send, Client
    <3> QED
      BY <1>0, <2>2, <3>2, StartBatch, PrintBatch
  <2> QED
    BY <2>1, <2>2
<1>2. CASE \/ \E i \in Deals, place \in {"absent", "proposed", "public"} : MoveDeal(i, place)
           \/ \E o \in Owners, n \in {0, MaxCoOwner - 1, MaxCoOwner} : Join(o, n)
           \/ \E p \in 1..Pools, to \in Identities : Pay(p, to)
           \/ EndEpoch \/ ChangeFees
  <2>1. Change /\ balances' = balances
    BY <1>2 DEF MoveDeal, Join, Pay, EndEpoch, ChangeFees
  <2> QED
    BY <2>1, ChangeBatch
<1>3. ASSUME NEW id \in Identities, NEW b \in Balances, Transfer(id, b) PROVE BatchInv'
  <2>1. Change /\ Op = "balances" /\ balances' = [balances EXCEPT ![id] = b]
    BY <1>3 DEF Transfer
  <2>2. balances' \in [Identities -> Balances]
    BY <2>1 DEF BatchInv
  <2> QED
    BY <2>1, <2>2, ChangeBatch
<1>4. CASE UNCHANGED vars
  BY <1>4 DEF BatchInv, OfOneMoment, Op, vars, contract, memory, output, history
<1> QED
  BY <1>1, <1>2, <1>3, <1>4 DEF Next

(* qutilGetBalancesMany: what is printed is the beginning of the list, batch *)
(* by batch with the balances of one moment of the command, and all of the   *)
(* list when no error is printed.                                            *)
THEOREM BalancesAreRead == Spec => []BalancesRead
<1>1. IInv /\ BatchInv => BalancesRead
  <2> SUFFICES ASSUME IInv, BatchInv, Op = "balances" PROVE BalancesRead
    BY DEF BalancesRead
  <2>1. \A i \in DOMAIN printed : printed[i].id = command.list[i]
    BY DEF BatchInv
  <2>2. ASSUME NEW n \in 0..Len(printed)
        PROVE  \E w \in was : \A k \in DOMAIN Part(printed, n, Batch) :
                 Part(printed, n, Batch)[k].balance = w[Part(printed, n, Batch)[k].id]
    <3> DEFINE p == Part(printed, n, Batch)
    <3>1. n \in Nat /\ printed \in Seq(Line)
      BY DEF BatchInv
    <3>2. PICK w \in was : \A k \in 1..Batch :
            n * Batch + k <= Len(printed) =>
              printed[n * Batch + k].balance = w[printed[n * Batch + k].id]
      BY <3>1 DEF BatchInv, OfOneMoment
    <3>3. /\ p \in Seq(Line) /\ Len(p) <= Batch
          /\ \A k \in 1..Len(p) : n * Batch + k \in 1..Len(printed) /\ p[k] = printed[n * Batch + k]
      <4>1. Batch \in Nat \ {0}
        BY BatchSize
      <4> HIDE DEF p
      <4>2. /\ Part(printed, n, Batch) \in Seq(Line) /\ Len(Part(printed, n, Batch)) <= Batch
            /\ \A k \in 1..Len(Part(printed, n, Batch)) :
                 /\ n * Batch + k \in 1..Len(printed)
                 /\ Part(printed, n, Batch)[k] = printed[n * Batch + k]
        BY <3>1, <4>1, PartFacts
      <4> QED
        BY <4>2 DEF p
    <3> HIDE DEF p
    <3>4. ASSUME NEW k \in DOMAIN p PROVE p[k].balance = w[p[k].id]
      <4>1. k \in 1..Len(p) /\ Len(p) \in Nat
        BY <3>3
      <4>2. k \in 1..Batch
        BY <3>3, <4>1, BatchSize
      <4> DEFINE i == n * Batch + k
      <4>3. i \in 1..Len(printed) /\ p[k] = printed[i] /\ Len(printed) \in Nat
        BY <3>1, <3>3, <4>1
      <4>4. i <= Len(printed) => printed[i].balance = w[printed[i].id]
        BY <3>2, <4>2
      <4> HIDE DEF i
      <4> QED
        BY <4>3, <4>4
    <3> QED
      BY <3>4 DEF p
  <2> QED
    BY <2>1, <2>2 DEF BatchInv, BalancesRead
<1> QED
  BY InitInv, NextInv, InitBatch, NextBatch, <1>1, PTL DEF Spec

-----------------------------------------------------------------------------
(* The payouts: what was in the ring all the time is printed when its page  *)
(* was read, or is still to come.  New payouts move it to later pages only. *)
Ringers == {"payouts", "payoutsOf"}
Matching == {x \in Payouts : Matches(x)}
PrintedSet == {printed[k] : k \in 1..Len(printed)}
Seen(p, m) ==
  \A i \in 1..Len(rings[p]) :
    i <= m /\ rings[p][i] \in steady \cap Matching => rings[p][i] \in PrintedSet
Complete(p) ==
  \A i \in 1..Len(rings[p]) : rings[p][i] \in steady \cap Matching => rings[p][i] \in PrintedSet

RingInv ==
  /\ epoch \in Nat /\ changes \in Nat
  /\ Op \in Ringers =>
       /\ rings \in [1..Pools -> Seq(Payouts)]
       /\ \A p \in 1..Pools : NewestFirst(rings[p])
       /\ \A p \in 1..Pools : \A i \in 1..Len(rings[p]) : rings[p][i].epoch <= epoch
       /\ \A x \in steady : x.id < FirstId
       /\ changes = 0 => Apart(rings)

RouteInv ==
  Op \in Ringers =>
    /\ pc \in {"start", "totals", "page", "dividends", "ended"} /\ printed \in Seq(Payouts)
    /\ pc # "ended" => outcome = "none"
    /\ pc \in {"start", "totals"} => printed = <<>> /\ ~reached /\ unread = {}
    /\ pc = "start" => at = <<1, 0>>
    /\ pc = "totals" => Op = "payouts"

(* When changes = 0 the printed payouts have come from the pools and pages  *)
(* before, each from its place.                                             *)
Distinct == \A j, k \in 1..Len(printed) : printed[j] = printed[k] => j = k
Came(p, m) ==
  \A k \in 1..Len(printed) : \E q \in 1..Pools : \E i \in 1..Len(rings[q]) :
    printed[k] = rings[q][i] /\ (q < p \/ (q = p /\ i <= m))

PageInv ==
  Op \in Ringers /\ pc = "page" =>
    /\ at \in (1..Pools) \X Nat
    /\ Op = "payouts" => at[1] = command.pool
    /\ Seen(at[1], at[2] * PageSize)
    /\ Op = "payoutsOf" => \A q \in 1..Pools : q < at[1] => q \in unread \/ Complete(q)
    /\ Op = "payouts" /\ changes = 0 /\ reached =>
         at[2] > 0 /\ \E i \in 1..Len(rings[at[1]]) : i <= PageSize /\ rings[at[1]][i] \in Matching
    /\ changes = 0 => Distinct /\ Came(at[1], at[2] * PageSize)

(* Of a pool all payouts of this epoch are printed, or of an epoch to come; *)
(* those of an earlier one if the first page has one and nothing changes.   *)
Due == command.epoch >= epoch \/ (command.epoch >= 0 /\ changes = 0 /\ reached)
DoneInv ==
  Op \in Ringers /\ (pc = "dividends" \/ outcome = "printed") =>
    /\ Op = "payoutsOf" => \A q \in 1..Pools : q \in unread \/ Complete(q)
    /\ Op = "payouts" => command.pool \in unread \/ (Due => Complete(command.pool))
    /\ changes = 0 => Distinct

(* What is printed of a page.                                               *)
Keeps(page, t, n) ==
  /\ t \in Seq(Payouts)
  /\ \A k \in 1..Len(t) : \E i \in 1..n : t[k] = page[i] /\ Matches(page[i])
  /\ \A i \in 1..n : Matches(page[i]) => \E k \in 1..Len(t) : t[k] = page[i]
  /\ (\A i, j \in 1..n : page[i] = page[j] => i = j) =>
       \A j, k \in 1..Len(t) : t[j] = t[k] => j = k

LEMMA KeepsMore ==
  ASSUME NEW page \in Seq(Payouts), NEW m \in 1..Len(page), NEW t, Keeps(page, t, m - 1)
  PROVE  Keeps(page, IF Matches(page[m]) THEN Append(t, page[m]) ELSE t, m)
<1>1. m \in Nat /\ m - 1 \in Nat /\ page[m] \in Payouts /\ t \in Seq(Payouts)
  BY ElementOfSeq DEF Keeps
<1>2. \A i \in 1..m : i = m \/ i \in 1..(m - 1)
  BY <1>1
<1>3. m \in 1..m /\ m \notin 1..(m - 1) /\ \A i \in 1..(m - 1) : i \in 1..m
  BY <1>1
<1>4. CASE ~Matches(page[m])
  BY <1>1, <1>2, <1>3, <1>4 DEF Keeps
<1>5. CASE Matches(page[m])
  <2> DEFINE u == Append(t, page[m])  l == Len(t)  L == l + 1
  <2>1. /\ u \in Seq(Payouts) /\ Len(u) = L /\ l \in Nat
        /\ u[L] = page[m] /\ \A k \in 1..l : u[k] = t[k]
    BY <1>1, AppendProperties
  <2>2. /\ \A k \in 1..L : k = L \/ k \in 1..l
        /\ L \in 1..L /\ \A k \in 1..l : k \in 1..L
    BY <2>1
  <2>3. /\ \A k \in 1..l : \E i \in 1..(m - 1) : t[k] = page[i] /\ Matches(page[i])
        /\ \A i \in 1..(m - 1) : Matches(page[i]) => \E k \in 1..l : t[k] = page[i]
        /\ (\A i, j \in 1..(m - 1) : page[i] = page[j] => i = j) =>
             \A j, k \in 1..l : t[j] = t[k] => j = k
    BY DEF Keeps
  <2> HIDE DEF u, l, L
  <2>4. ASSUME NEW k \in 1..L PROVE \E i \in 1..m : u[k] = page[i] /\ Matches(page[i])
    <3>1. CASE k = L
      BY <1>3, <1>5, <2>1, <3>1
    <3>2. CASE k \in 1..l
      <4>1. PICK i \in 1..(m - 1) : t[k] = page[i] /\ Matches(page[i])
        BY <2>3, <3>2
      <4> QED
        BY <1>3, <2>1, <3>2, <4>1
    <3> QED
      BY <2>2, <3>1, <3>2
  <2>5. ASSUME NEW i \in 1..m, Matches(page[i]) PROVE \E k \in 1..L : u[k] = page[i]
    BY <1>2, <2>1, <2>2, <2>3, <2>5
  <2>6. ASSUME \A i, j \in 1..m : page[i] = page[j] => i = j, NEW j \in 1..L, NEW k \in 1..L, u[j] = u[k]
        PROVE  j = k
    <3>1. \A i \in 1..(m - 1) : page[i] # page[m]
      BY <1>3, <2>6
    <3>2. \A i \in 1..l : t[i] # page[m]
      BY <2>3, <3>1
    <3>3. CASE j \in 1..l /\ k \in 1..l
      BY <1>3, <2>1, <2>3, <2>6, <3>3
    <3>4. CASE j = L \/ k = L
      BY <2>1, <2>2, <2>6, <3>2, <3>4
    <3> QED
      BY <2>2, <3>3, <3>4
  <2> QED
    BY <1>5, <2>1, <2>4, <2>5, <2>6 DEF Keeps, u
<1> QED
  BY <1>4, <1>5

LEMMA ShownFacts ==
  ASSUME NEW page \in Seq(Payouts)
  PROVE  Keeps(page, Shown(page), Len(page))
<1> DEFINE Keep(n, t) == IF Matches(page[n]) THEN Append(t, page[n]) ELSE t
           Shows(h) == h = [n \in 0..Len(page) |-> IF n = 0 THEN <<>> ELSE Keep(n, h[n - 1])]
           g == CHOOSE h : Shows(h)
           l == Len(page)
<1>0. l \in Nat /\ \A n \in 1..l : page[n] \in Payouts
  BY ElementOfSeq
<1>1. Shown(page) = g[l]
  BY DEF Shown
<1>2. PICK h \in [0..l -> Seq(Payouts)] : h[0] = <<>> /\ \A k \in 1..l : h[k] = Keep(k, h[k - 1])
  <2> DEFINE f == [k \in 1..l |-> [x \in Seq(Payouts) |-> Keep(k, x)]]
  <2>1. \A k \in 1..l, x \in Seq(Payouts) : Keep(k, x) \in Seq(Payouts)
    BY <1>0, AppendProperties
  <2> HIDE DEF Keep, l
  <2>2. f \in [1..l -> [Seq(Payouts) -> Seq(Payouts)]]
    BY <2>1
  <2>3. \A k \in 1..l, x \in Seq(Payouts) : f[k][x] = Keep(k, x)
    OBVIOUS
  <2> HIDE DEF f
  <2>4. <<>> \in Seq(Payouts)
    BY EmptySeq
  <2>5. PICK h \in [0..l -> Seq(Payouts)] : Iterates(h, f, <<>>, l)
    BY <1>0, <2>2, <2>4, IterationExists
  <2>6. \A k \in 1..l : h[k - 1] \in Seq(Payouts)
    BY <1>0
  <2> QED
    BY ZenonT(60), <2>3, <2>5, <2>6 DEF Iterates
<1> HIDE DEF Keep
<1>3. Shows(h)
  <2> DEFINE f == [n \in 0..l |-> IF n = 0 THEN <<>> ELSE Keep(n, h[n - 1])]
  <2> HIDE DEF l
  <2>1. \A n \in 0..l : f[n] = h[n]
    BY <1>0, <1>2
  <2>2. f = [n \in 0..l |-> f[n]] /\ h = [n \in 0..l |-> h[n]]
    BY <1>2
  <2> HIDE DEF f
  <2>3. f = h
    BY <2>1, <2>2
  <2> QED
    BY <2>3 DEF f, l
<1>4. Shows(g)
  <2> HIDE DEF Shows
  <2> QED
    BY <1>3
<1> HIDE DEF g
<1> DEFINE T == {n \in Nat : n <= l => Keeps(page, g[n], n)}
<1>5. 0 \in T
  <2>1. g[0] = <<>>
    BY <1>0, <1>4
  <2>2. <<>> \in Seq(Payouts) /\ Len(<<>>) = 0
    BY EmptySeq
  <2>3. \A k \in 1..Len(<<>>) : FALSE
    BY <2>2
  <2>4. \A k \in 1..0 : FALSE
    OBVIOUS
  <2>5. Keeps(page, <<>>, 0)
    BY <2>2, <2>3, <2>4 DEF Keeps
  <2> QED
    BY <2>1, <2>5
<1>6. ASSUME NEW n \in Nat, n \in T PROVE n + 1 \in T
  <2> SUFFICES ASSUME n + 1 <= l PROVE Keeps(page, g[n + 1], n + 1)
    OBVIOUS
  <2> DEFINE m == n + 1
  <2>1. m \in 0..l /\ m # 0 /\ m - 1 = n /\ m \in 1..l
    BY <1>0
  <2>2. Keeps(page, g[n], n)
    BY <1>0, <1>6
  <2> HIDE DEF m
  <2>3. g[m] = Keep(m, g[m - 1])
    BY <1>4, <2>1
  <2>4. Keeps(page, Keep(m, g[n]), m)
    BY <2>1, <2>2, KeepsMore DEF Keep
  <2> QED
    BY <2>1, <2>3, <2>4 DEF m
<1> HIDE DEF T
<1>7. l \in T
  BY <1>0, <1>5, <1>6, SetInduction
<1> QED
  BY <1>0, <1>1, <1>7 DEF T

PayoutsInv == RingInv /\ RouteInv /\ PageInv /\ DoneInv

LEMMA MatchingStays == ASSUME UNCHANGED command PROVE Matching' = Matching /\ Op' = Op
  BY DEF Matching, Matches, Op

LEMMA RingCommands ==
  ASSUME command \in Commands
  PROVE  /\ Op = "payouts" => command.pool \in 1..Pools
         /\ Op \in Ringers => command.epoch \in Int
  BY CommandsAssumption DEF Op, Ringers

(* Nothing is printed before the first page.                                *)
LEMMA NothingYet ==
  ASSUME printed = <<>>, rings \in [1..Pools -> Seq(Payouts)], NEW p \in 1..Pools
  PROVE  Seen(p, 0 * PageSize) /\ Distinct /\ Came(p, 0 * PageSize)
<1>1. 0 * PageSize = 0
  BY BatchSize
<1>2. \A k \in 1..Len(printed) : FALSE
  BY EmptySeq
<1>3. \A i \in 1..Len(rings[p]) : ~ (i <= 0)
  OBVIOUS
<1> QED
  BY <1>1, <1>2, <1>3 DEF Seen, Distinct, Came

LEMMA InitPayouts == Init => PayoutsInv
<1> SUFFICES ASSUME Init PROVE PayoutsInv
  OBVIOUS
<1>1. RingInv
  <2>1. epoch \in Nat /\ changes \in Nat
    BY DEF Init, FirstEpoch
  <2>2. ASSUME Op \in Ringers
        PROVE  /\ rings \in [1..Pools -> Seq(Payouts)]
               /\ \A p \in 1..Pools : NewestFirst(rings[p])
               /\ \A p \in 1..Pools : \A i \in 1..Len(rings[p]) : rings[p][i].epoch <= epoch
               /\ \A x \in steady : x.id < FirstId
               /\ changes = 0 => Apart(rings)
    <3>1. rings \in Rings
      BY <2>2 DEF Init, Ringers
    <3>2. /\ rings \in [1..Pools -> Seq(Payouts)] /\ Apart(rings)
          /\ \A p \in 1..Pools :
               /\ NewestFirst(rings[p])
               /\ \A i \in DOMAIN rings[p] : rings[p][i].epoch <= FirstEpoch /\ rings[p][i].id < FirstId
      BY <3>1, RingsAssumption
    <3>3. \A p \in 1..Pools : DOMAIN rings[p] = 1..Len(rings[p])
      BY <3>2
    <3>4. ASSUME NEW x \in steady PROVE x.id < FirstId
      <4>1. \E p \in 1..Pools : x \in {rings[p][i] : i \in DOMAIN rings[p]}
        BY DEF Init, InRings, ToSet
      <4> QED
        BY <3>2, <4>1
    <3>5. epoch = FirstEpoch
      BY DEF Init
    <3> QED
      BY <3>2, <3>3, <3>4, <3>5
  <2> QED
    BY <2>1, <2>2 DEF RingInv
<1>2. RouteInv
  BY EmptySeq DEF Init, RouteInv
<1>3. PageInv /\ DoneInv
  BY DEF Init, PageInv, DoneInv
<1> QED
  BY <1>1, <1>2, <1>3 DEF PayoutsInv

(* What was there all the time only moves away from the front.              *)
Moves ==
  \A q \in 1..Pools : \A i \in 1..Len(rings'[q]) :
    rings'[q][i] \in steady' =>
      \E j \in 1..Len(rings[q]) : j <= i /\ rings[q][j] = rings'[q][i] /\ rings[q][j] \in steady

LEMMA MovesInv ==
  ASSUME PayoutsInv, command \in Commands, RingInv', Moves, UNCHANGED <<command, pc, memory, output, unread, reached>>,
         changes' = changes + 1, epoch' >= epoch
  PROVE  PayoutsInv'
<1>1. Matching' = Matching /\ Op' = Op /\ PrintedSet' = PrintedSet
  BY MatchingStays DEF output, PrintedSet
<1>2. RouteInv'
  BY <1>1 DEF PayoutsInv, RouteInv, memory, output
<1> SUFFICES ASSUME Op \in Ringers PROVE PageInv' /\ DoneInv'
  BY <1>1, <1>2 DEF PayoutsInv, PageInv, DoneInv
<1>3. /\ changes' # 0 /\ epoch \in Nat /\ epoch' \in Nat /\ at' = at
      /\ rings \in [1..Pools -> Seq(Payouts)] /\ rings' \in [1..Pools -> Seq(Payouts)]
  BY <1>1 DEF PayoutsInv, RingInv, memory
<1>4. ASSUME NEW p \in 1..Pools, NEW m \in Int, Seen(p, m) PROVE Seen(p, m)'
  <2> SUFFICES ASSUME NEW i \in 1..Len(rings'[p]), i <= m, rings'[p][i] \in steady' \cap Matching
               PROVE  rings'[p][i] \in PrintedSet
    BY <1>1 DEF Seen
  <2>1. PICK j \in 1..Len(rings[p]) : j <= i /\ rings[p][j] = rings'[p][i] /\ rings[p][j] \in steady
    BY DEF Moves
  <2>2. Len(rings[p]) \in Nat /\ Len(rings'[p]) \in Nat
    BY <1>3
  <2>3. j <= m
    BY <2>1, <2>2
  <2> QED
    BY <1>4, <2>1, <2>3 DEF Seen
<1>5. ASSUME NEW p \in 1..Pools, Complete(p) PROVE Complete(p)'
  <2> SUFFICES ASSUME NEW i \in 1..Len(rings'[p]), rings'[p][i] \in steady' \cap Matching
               PROVE  rings'[p][i] \in PrintedSet
    BY <1>1 DEF Complete
  <2>1. PICK j \in 1..Len(rings[p]) : rings[p][j] = rings'[p][i] /\ rings[p][j] \in steady
    BY DEF Moves
  <2> QED
    BY <1>5, <2>1 DEF Complete
<1>6. PageInv'
  <2> SUFFICES ASSUME pc = "page" PROVE PageInv'
    BY DEF PageInv
  <2>1. at \in (1..Pools) \X Nat
    BY DEF PayoutsInv, PageInv
  <2>2. at[1] \in 1..Pools /\ at[2] * PageSize \in Int
    <3>1. at[1] \in 1..Pools /\ at[2] \in Nat
      BY <2>1
    <3> QED
      BY <3>1, BatchSize
  <2>3. Seen(at[1], at[2] * PageSize)'
    <3> DEFINE p == at[1]  m == at[2] * PageSize
    <3>1. Seen(p, m)
      BY DEF PayoutsInv, PageInv
    <3>2. p' = p /\ m' = m
      BY <1>3
    <3> HIDE DEF p, m
    <3>3. \A i \in 1..Len(rings'[p]) :
            i <= m /\ rings'[p][i] \in steady' \cap Matching' => rings'[p][i] \in PrintedSet'
      BY <1>4, <2>2, <3>1 DEF p, m, Seen
    <3> QED
      BY <1>3, <3>3 DEF Seen, p, m
  <2>4. Op = "payoutsOf" => \A q \in 1..Pools : q < at[1] => q \in unread \/ Complete(q)'
    BY <1>5 DEF PayoutsInv, PageInv
  <2> QED
    BY <1>1, <1>3, <2>1, <2>3, <2>4 DEF PayoutsInv, PageInv
<1>7. DoneInv'
  <2> SUFFICES ASSUME pc = "dividends" \/ outcome = "printed" PROVE DoneInv'
    BY DEF DoneInv, output
  <2>1. Op = "payoutsOf" => \A q \in 1..Pools : q \in unread \/ Complete(q)'
    BY <1>5 DEF PayoutsInv, DoneInv
  <2>2. Op = "payouts" => command.pool \in unread \/ (Due' => Complete(command.pool)')
    <3> SUFFICES ASSUME Op = "payouts" PROVE command.pool \in unread \/ (Due' => Complete(command.pool)')
      OBVIOUS
    <3>1. command.pool \in 1..Pools /\ command.epoch \in Int
      BY RingCommands
    <3>2. Due' => Due
      BY <1>3, <3>1 DEF Due
    <3>3. command.pool \in unread \/ (Due => Complete(command.pool))
      BY DEF PayoutsInv, DoneInv
    <3> QED
      BY <1>5, <3>1, <3>2, <3>3
  <2> QED
    BY <1>1, <1>3, <2>1, <2>2 DEF DoneInv
<1> QED
  BY <1>6, <1>7

(* A payout that is made now is the first of its ring, and was not there    *)
(* before.                                                                  *)
LEMMA PayInvariant ==
  ASSUME PayoutsInv, command \in Commands, NEW p \in 1..Pools, NEW to \in Identities, Pay(p, to)
  PROVE  PayoutsInv'
<1> DEFINE new == [to |-> to, epoch |-> epoch, id |-> FirstId + changes]
           s == rings[p]  t == <<new>> \o s  u == FirstOf(RingSize, t)
<1>1. /\ Op \in Ringers /\ rings' = [rings EXCEPT ![p] = u] /\ changes' = changes + 1
      /\ steady' = steady \cap InRings(rings') /\ epoch' = epoch
      /\ UNCHANGED <<command, pc, memory, output, unread, reached>>
  BY DEF Pay, Change, Ringers
<1>2. /\ rings \in [1..Pools -> Seq(Payouts)] /\ epoch \in Nat /\ changes \in Nat
      /\ \A x \in steady : x.id < FirstId
      /\ \A q \in 1..Pools : NewestFirst(rings[q])
      /\ \A q \in 1..Pools : \A i \in 1..Len(rings[q]) : rings[q][i].epoch <= epoch
  BY <1>1 DEF PayoutsInv, RingInv
<1>3. new \in Payouts /\ new \notin steady /\ new.epoch = epoch
  <2>1. FirstId + changes \in Nat /\ ~ (FirstId + changes < FirstId)
    BY <1>2 DEF FirstId
  <2>2. new.id = FirstId + changes /\ new.epoch = epoch
    OBVIOUS
  <2> DEFINE id == FirstId + changes
  <2> HIDE DEF id
  <2>3. [to |-> to, epoch |-> epoch, id |-> id] \in Payouts
    BY <1>2, <2>1 DEF Payouts, id
  <2>4. new \in Payouts
    BY <2>3 DEF id
  <2> QED
    BY <1>2, <2>1, <2>2, <2>4
<1> HIDE DEF new
<1>4. s \in Seq(Payouts) /\ Len(s) \in Nat
  BY <1>2
<1>5. /\ t \in Seq(Payouts) /\ Len(t) = Len(s) + 1 /\ t[1] = new
      /\ \A i \in 2..(Len(s) + 1) : i - 1 \in 1..Len(s) /\ t[i] = s[i - 1]
  <2>1. <<new>> \in Seq(Payouts) /\ Len(<<new>>) = 1 /\ <<new>>[1] = new
    BY <1>3
  <2> DEFINE one == <<new>>
  <2> HIDE DEF one, s
  <2>2. /\ one \o s \in Seq(Payouts) /\ Len(one \o s) = Len(one) + Len(s)
        /\ \A i \in 1..(Len(one) + Len(s)) :
             (one \o s)[i] = IF i <= Len(one) THEN one[i] ELSE s[i - Len(one)]
    BY <1>4, <2>1, ConcatProperties DEF one
  <2> DEFINE l == Len(s)  both == one \o s
  <2>3. /\ both \in Seq(Payouts) /\ Len(both) = 1 + l /\ l \in Nat /\ one[1] = new
        /\ \A i \in 1..(1 + l) : both[i] = IF i <= 1 THEN one[i] ELSE s[i - 1]
    BY <1>4, <2>1, <2>2 DEF one
  <2> HIDE DEF l, both
  <2>4. Len(both) = l + 1 /\ both[1] = new /\ \A i \in 2..(l + 1) : i - 1 \in 1..l /\ both[i] = s[i - 1]
    BY <2>3
  <2> QED
    BY <2>3, <2>4 DEF l, both, one
<1> HIDE DEF t
<1>6. /\ u \in Seq(Payouts) /\ Len(u) \in Nat /\ Len(u) <= Len(t)
      /\ \A i \in 1..Len(u) : u[i] = t[i]
  <2>1. RingSize \in Nat
    BY ContractAssumption
  <2>2. /\ u \in Seq(Payouts)
        /\ Len(u) = IF Len(t) < RingSize THEN Len(t) ELSE RingSize
        /\ \A i \in 1..Len(u) : u[i] = t[i]
    BY <1>5, <2>1, FirstFacts
  <2> HIDE DEF u
  <2>3. Len(t) \in Nat
    BY <1>5
  <2> QED
    BY <2>1, <2>2, <2>3
<1> HIDE DEF u
<1>7. ASSUME NEW i \in 1..Len(u), i # 1 PROVE i - 1 \in 1..Len(s) /\ u[i] = s[i - 1] /\ i - 1 <= i
  <2>1. i \in 2..(Len(s) + 1)
    BY <1>4, <1>5, <1>6, <1>7
  <2> QED
    BY SMTT(60), <1>5, <1>6, <2>1
<1>8. 1 \in 1..Len(u) => u[1] = new
  BY <1>5, <1>6
<1>9. rings'[p] = u /\ \A q \in 1..Pools : q # p => rings'[q] = rings[q]
  BY <1>1, <1>2
<1> HIDE DEF s
<1>10. Moves
  <2> SUFFICES ASSUME NEW q \in 1..Pools, NEW i \in 1..Len(rings'[q]), rings'[q][i] \in steady'
               PROVE  \E j \in 1..Len(rings[q]) : j <= i /\ rings[q][j] = rings'[q][i] /\ rings[q][j] \in steady
    BY DEF Moves
  <2>1. rings'[q][i] \in steady
    BY <1>1
  <2>2. CASE q # p
    <3>1. i \in 1..Len(rings[q]) /\ i <= i
      BY <1>9, <2>2
    <3> QED
      BY <1>9, <2>1, <2>2, <3>1
  <2>3. CASE q = p
    <3>1. i # 1
      BY <1>3, <1>8, <1>9, <2>1, <2>3
    <3> QED
      BY <1>7, <1>9, <2>1, <2>3, <3>1 DEF s
  <2> QED
    BY <2>2, <2>3
<1>11. RingInv'
  <2>1. rings' \in [1..Pools -> Seq(Payouts)]
    BY <1>1, <1>2, <1>6
  <2>2. ASSUME NEW i \in 1..Len(u) PROVE u[i].epoch <= epoch
    <3>1. \A k \in 1..Len(s) : s[k].epoch <= epoch
      BY <1>2 DEF s
    <3>2. CASE i = 1
      BY <1>2, <1>3, <1>8, <3>2
    <3>3. CASE i # 1
      BY <1>7, <3>1, <3>3
    <3> QED
      BY <3>2, <3>3
  <2>3. \A q \in 1..Pools : \A i \in 1..Len(rings'[q]) : rings'[q][i].epoch <= epoch'
    BY <1>1, <1>2, <1>9, <2>2
  <2>4. NewestFirst(u)
    <3> SUFFICES ASSUME NEW i \in 1..Len(u), NEW j \in 1..Len(u), i <= j PROVE u[j].epoch <= u[i].epoch
      BY <1>6 DEF NewestFirst
    <3>1. CASE i = 1
      BY <1>3, <1>8, <2>2, <3>1
    <3>2. CASE i # 1
      <4>1. j # 1
        BY <1>6, <3>2
      <4>2. i - 1 \in 1..Len(s) /\ j - 1 \in 1..Len(s) /\ u[i] = s[i - 1] /\ u[j] = s[j - 1]
        BY <1>7, <3>2, <4>1
      <4>3. i - 1 <= j - 1
        BY <1>6
      <4>4. NewestFirst(s) /\ DOMAIN s = 1..Len(s)
        BY <1>2, <1>4 DEF s
      <4> QED
        BY <4>2, <4>3, <4>4 DEF NewestFirst
    <3> QED
      BY <3>1, <3>2
  <2>5. \A q \in 1..Pools : NewestFirst(rings'[q])
    BY <1>2, <1>9, <2>4
  <2>6. changes' \in Nat /\ changes' # 0
    BY <1>1, <1>2
  <2> QED
    BY <1>1, <1>2, <2>1, <2>3, <2>5, <2>6 DEF RingInv, NewestFirst
<1>12. epoch' >= epoch
  BY <1>1, <1>2
<1> QED
  BY <1>1, <1>10, <1>11, <1>12, MovesInv

LEMMA ChangePayouts ==
  ASSUME PayoutsInv, command \in Commands, Change, UNCHANGED rings, epoch' = epoch \/ EndEpoch
  PROVE  PayoutsInv'
<1>1. /\ changes' = changes + 1 /\ steady' \subseteq steady
      /\ UNCHANGED <<command, pc, memory, output, unread, reached>>
  BY DEF Change
<1>2. epoch' \in Nat /\ epoch' >= epoch /\ epoch \in Nat /\ changes' \in Nat /\ changes' # 0
  BY <1>1 DEF EndEpoch, PayoutsInv, RingInv
<1>3. RingInv'
  <2>1. CASE Op \notin Ringers
    BY <1>1, <1>2, <2>1 DEF RingInv, Op
  <2>2. CASE Op \in Ringers
    <3>1. /\ rings \in [1..Pools -> Seq(Payouts)]
          /\ \A q \in 1..Pools : NewestFirst(rings[q])
          /\ \A q \in 1..Pools : \A i \in 1..Len(rings[q]) : rings[q][i].epoch <= epoch
          /\ \A x \in steady : x.id < FirstId
      BY <2>2 DEF PayoutsInv, RingInv
    <3>2. ASSUME NEW q \in 1..Pools, NEW i \in 1..Len(rings[q]) PROVE rings[q][i].epoch <= epoch'
      <4>1. rings[q] \in Seq(Payouts)
        BY <3>1
      <4>2. rings[q][i] \in Payouts
        BY <4>1, ElementOfSeq
      <4>3. rings[q][i].epoch \in Nat
        BY <4>2 DEF Payouts
      <4> QED
        BY <1>2, <3>1, <4>3
    <3> QED
      BY <1>1, <1>2, <3>1, <3>2 DEF RingInv, NewestFirst
  <2> QED
    BY <2>1, <2>2
<1>4. Op \in Ringers => Moves
  <2> SUFFICES ASSUME Op \in Ringers, NEW q \in 1..Pools, NEW i \in 1..Len(rings[q]), rings[q][i] \in steady'
               PROVE  i <= i /\ rings[q][i] \in steady
    BY DEF Moves
  <2> QED
    BY <1>1
<1>5. CASE Op \in Ringers
  BY <1>1, <1>2, <1>3, <1>4, <1>5, MovesInv
<1>6. CASE Op \notin Ringers
  BY <1>1, <1>3, <1>6 DEF PayoutsInv, RouteInv, PageInv, DoneInv, Op
<1> QED
  BY <1>5, <1>6

-----------------------------------------------------------------------------
(* The steps of the client, seen from the rings: they stay, and a command   *)
(* that ends without its last page promises nothing.                        *)
Watch == PayoutsInv /\ command \in Commands /\ Op \in Ringers /\ UNCHANGED <<contract, command, history>>

LEMMA RingsStay ==
  ASSUME Watch
  PROVE  /\ RingInv' /\ Matching' = Matching /\ Op' = Op
         /\ rings \in [1..Pools -> Seq(Payouts)] /\ epoch \in Nat /\ changes \in Nat
         /\ UNCHANGED <<rings, steady, changes, epoch>>
         /\ Op = "payouts" => command.pool \in 1..Pools
         /\ command.epoch \in Int /\ printed \in Seq(Payouts)
<1>1. UNCHANGED <<rings, steady, changes, epoch, command>>
  BY DEF Watch, contract, history
<1>2. RingInv'
  BY <1>1 DEF Watch, PayoutsInv, RingInv, Op, NewestFirst, Apart
<1> QED
  BY <1>1, <1>2, MatchingStays, RingCommands DEF Watch, PayoutsInv, RingInv, RouteInv

LEMMA EarlyEnd ==
  ASSUME Watch, Refuse \/ Abort
  PROVE  PayoutsInv'
<1>1. pc' = "ended" /\ outcome' \in {"refused", "aborted"} /\ printed' = printed
  BY DEF Refuse, Abort, Client, End
<1> QED
  BY <1>1, RingsStay DEF PayoutsInv, RouteInv, PageInv, DoneInv

LEMMA FirstPage ==
  ASSUME Watch, Start \/ Totals
  PROVE  PayoutsInv'
<1>1. /\ printed = <<>> /\ ~reached /\ unread = {} /\ outcome = "none"
      /\ UNCHANGED <<printed, reached, unread, outcome>>
      /\ \/ pc' = "totals" /\ Op = "payouts"
         \/ pc' = "page" /\ at' = <<1, 0>> /\ Op = "payoutsOf"
         \/ pc' = "page" /\ at' = <<command.pool, 0>> /\ Op = "payouts"
  BY DEF Start, Totals, Client, FirstStep, output, Watch, PayoutsInv, RouteInv, Ringers
<1>2. /\ RingInv' /\ Op' = Op /\ rings' = rings /\ rings' \in [1..Pools -> Seq(Payouts)]
      /\ Op = "payouts" => command.pool \in 1..Pools
  BY RingsStay
<1>3. RouteInv' /\ DoneInv'
  BY <1>1, <1>2, EmptySeq DEF RouteInv, DoneInv
<1>4. CASE pc' = "totals"
  BY <1>2, <1>3, <1>4 DEF PayoutsInv, PageInv
<1>5. CASE pc' = "page"
  <2>1. PICK p \in 1..Pools : at' = <<p, 0>> /\ (Op = "payouts" => p = command.pool) /\ (Op = "payoutsOf" => p = 1)
    <3>1. 1 \in 1..Pools
      BY BatchSize
    <3> QED
      BY <1>1, <1>2, <1>5, <3>1
  <2>2. at'[1] = p /\ at'[2] = 0 /\ at' \in (1..Pools) \X Nat
    BY <2>1
  <2>3. Seen(p, 0 * PageSize)' /\ Distinct' /\ Came(p, 0 * PageSize)'
    <3>1. 0 * PageSize = 0
      BY BatchSize
    <3>2. printed' = <<>> /\ \A k \in 1..Len(printed') : FALSE
      BY <1>1, EmptySeq
    <3>3. \A i \in 1..Len(rings'[p]) : ~ (i <= 0)
      BY <1>2
    <3> QED
      BY <3>1, <3>2, <3>3 DEF Seen, Distinct, Came
  <2>4. command' = command
    BY DEF Watch
  <2>5. Op = "payoutsOf" => \A q \in 1..Pools : ~ (q < at'[1])
    BY <2>1, <2>2
  <2>6. PageInv'
    BY <1>1, <1>2, <2>1, <2>2, <2>3, <2>4, <2>5 DEF PageInv
  <2> QED
    BY <1>2, <1>3, <2>6 DEF PayoutsInv
<1> QED
  BY <1>1, <1>4, <1>5

(* A pool is left for the next one or for good.                             *)
LEMMA LeaveInv ==
  ASSUME Watch, pc = "page", NEW p \in 1..Pools, p = at[1], LeavePool(p),
         printed' \in Seq(Payouts),
         Op = "payoutsOf" => \A q \in 1..Pools : q <= p => q \in unread' \/ Complete(q)',
         Op = "payouts" => p \in unread' \/ (Due' => Complete(p)'),
         changes = 0 => Distinct' /\ Came(p + 1, 0 * PageSize)'
  PROVE  PayoutsInv'
<1>1. /\ RingInv' /\ Op' = Op /\ rings' = rings /\ changes' = changes
      /\ rings \in [1..Pools -> Seq(Payouts)] /\ command' = command
  BY RingsStay DEF Watch
<1>2. /\ pc' = AfterPool(p) /\ at' = <<p + 1, 0>>
      /\ outcome' = IF AfterPool(p) = "ended" THEN "printed" ELSE outcome
      /\ outcome = "none" /\ (Op = "payouts" => p = command.pool)
  BY DEF LeavePool, Client, Watch, PayoutsInv, RouteInv, PageInv
<1>3. (AfterPool(p) = "page" /\ Op = "payoutsOf" /\ p < Pools) \/ AfterPool(p) \in {"dividends", "ended"}
  BY DEF AfterPool
<1>4. RouteInv'
  BY <1>1, <1>2, <1>3 DEF RouteInv
<1>5. CASE AfterPool(p) = "page"
  <2>1. Op = "payoutsOf" /\ p + 1 \in 1..Pools
    BY <1>3, <1>5, BatchSize
  <2>2. at'[1] = p + 1 /\ at'[2] = 0 /\ at' \in (1..Pools) \X Nat
    BY <1>2, <2>1
  <2>3. Seen(p + 1, 0 * PageSize)'
    <3>1. 0 * PageSize = 0
      BY BatchSize
    <3>2. \A i \in 1..Len(rings'[p + 1]) : ~ (i <= 0)
      BY <1>1, <2>1
    <3> QED
      BY <3>1, <3>2 DEF Seen
  <2>4. \A q \in 1..Pools : q < at'[1] => q <= p
    BY <2>2
  <2>5. PageInv'
    BY <1>1, <2>1, <2>2, <2>3, <2>4 DEF PageInv
  <2>6. DoneInv'
    BY <1>2, <1>5 DEF DoneInv
  <2> QED
    BY <1>1, <1>4, <2>5, <2>6 DEF PayoutsInv
<1>6. CASE AfterPool(p) \in {"dividends", "ended"}
  <2>1. PageInv'
    BY <1>2, <1>6 DEF PageInv
  <2>2. Op = "payoutsOf" => \A q \in 1..Pools : q <= p
    <3>1. Op = "payoutsOf" => ~ (p < Pools)
      BY <1>6 DEF AfterPool
    <3> QED
      BY <3>1, BatchSize
  <2>3. DoneInv'
    BY <1>1, <1>2, <2>2 DEF DoneInv
  <2> QED
    BY <1>1, <1>4, <2>1, <2>3 DEF PayoutsInv
<1> QED
  BY <1>3, <1>5, <1>6

LEMMA LaterPages ==
  ASSUME Watch, NoPayouts \/ Dividends
  PROVE  PayoutsInv'
<1>1. /\ RingInv' /\ Op' = Op /\ Matching' = Matching /\ command' = command
      /\ UNCHANGED <<rings, steady, changes, epoch>>
  BY RingsStay DEF Watch
<1>2. printed' = printed /\ reached' = reached /\ unread \subseteq unread'
  BY DEF NoPayouts, Dividends, End
<1>3. \A q : Complete(q) => Complete(q)'
  BY <1>1, <1>2 DEF Complete, PrintedSet
<1>4. Due' = Due /\ Distinct' = Distinct
  BY <1>1, <1>2 DEF Due, Distinct
<1>5. CASE Dividends
  <2>1. pc = "dividends" /\ pc' = "ended" /\ outcome' = "printed" /\ unread' = unread
    BY <1>5 DEF Dividends, Client, End
  <2>2. DoneInv'
    BY <1>1, <1>3, <1>4, <2>1 DEF DoneInv, Watch, PayoutsInv
  <2> QED
    BY <1>1, <1>2, <2>1, <2>2 DEF Watch, PayoutsInv, RouteInv, PageInv
<1>6. CASE NoPayouts
  <2>0. pc = "page" /\ LeavePool(at[1]) /\ unread' = unread \cup {at[1]} /\ at \in (1..Pools) \X Nat
    BY <1>6 DEF NoPayouts, Watch, PayoutsInv, PageInv
  <2>a. PICK p \in 1..Pools : p = at[1]
    BY <2>0
  <2>b. PICK m : m = at[2] * PageSize
    OBVIOUS
  <2>1. pc = "page" /\ LeavePool(p) /\ unread' = unread \cup {p}
    BY <2>0, <2>a
  <2>2. /\ Op = "payoutsOf" => \A q \in 1..Pools : q < p => q \in unread \/ Complete(q)
        /\ changes = 0 => Distinct /\ Came(p, m)
    BY <2>1, <2>a, <2>b DEF Watch, PayoutsInv, PageInv
  <2>4. Op = "payoutsOf" => \A q \in 1..Pools : q <= p => q \in unread' \/ Complete(q)'
    <3>1. \A q \in 1..Pools : q <= p => q < p \/ q = p
      OBVIOUS
    <3> QED
      BY <1>2, <1>3, <2>1, <2>2, <3>1
  <2>5. changes = 0 => Came(p + 1, 0 * PageSize)'
    <3>1. \A q \in 1..Pools : q < p \/ q = p => q < p + 1
      OBVIOUS
    <3> SUFFICES ASSUME changes = 0, NEW k \in 1..Len(printed)
                 PROVE  \E q \in 1..Pools : \E i \in 1..Len(rings[q]) : printed[k] = rings[q][i] /\ q < p + 1
      BY <1>1, <1>2 DEF Came
    <3>2. \E q \in 1..Pools : \E i \in 1..Len(rings[q]) :
            printed[k] = rings[q][i] /\ (q < p \/ (q = p /\ i <= m))
      BY <2>2 DEF Came
    <3> QED
      BY <3>1, <3>2
  <2>6. p \in unread' /\ printed' \in Seq(Payouts)
    BY <1>2, <2>1, RingsStay
  <2> QED
    BY <1>4, <2>1, <2>2, <2>a, <2>4, <2>5, <2>6, LeaveInv
<1> QED
  BY <1>5, <1>6

(* The last page ends where the ring does.                                  *)
LEMMA LastPage ==
  ASSUME rings \in [1..Pools -> Seq(Payouts)], NEW p \in 1..Pools, NEW n \in Nat
  PROVE  /\ n * PageSize \in Nat /\ (n + 1) * PageSize = n * PageSize + PageSize
         /\ n + 1 >= TotalPages(p) => Len(rings[p]) <= n * PageSize + PageSize
         /\ ~ (n + 1 >= TotalPages(p)) => Len(rings[p]) > n * PageSize + PageSize
<1> DEFINE l == Len(rings[p])  s == PageSize  e == l + s - 1  t == e \div s
<1>1. l \in Nat /\ s \in Nat \ {0} /\ TotalPages(p) = t
  BY BatchSize DEF TotalPages
<1>2. e \in Nat /\ e = l + (s - 1)
  BY <1>1
<1> HIDE DEF l, s, e
<1>3. t \in Nat /\ t * s <= e /\ e < t * s + s
  BY <1>1, <1>2, DivisionFacts
<1> HIDE DEF t
<1>4. n * s \in Nat /\ (n + 1) * s = n * s + s /\ t * s \in Nat
  BY <1>1, <1>3, ProductFacts
<1>5. t <= n + 1 => t * s <= (n + 1) * s
  BY <1>1, <1>3, ProductFacts
<1>6. n + 1 < t => (n + 1) * s + s <= t * s
  BY <1>1, <1>3, ProductFacts
<1> DEFINE a == n * s  b == (n + 1) * s  c == t * s
<1>7. /\ a \in Nat /\ b = a + s /\ c \in Nat /\ c <= e /\ e < c + s
      /\ t <= n + 1 => c <= b
      /\ n + 1 < t => b + s <= c
  BY <1>3, <1>4, <1>5, <1>6
<1> HIDE DEF a, b, c
<1>8. /\ n + 1 >= t => l <= a + s
      /\ ~ (n + 1 >= t) => l > a + s
  BY <1>1, <1>2, <1>3, <1>7
<1> QED
  BY <1>1, <1>4, <1>8 DEF l, s, a

(* The page that is printed: everything on it that matches, and each from   *)
(* its own place.                                                           *)
Printable(t, p, a) ==
  /\ t \in Seq(Payouts)
  /\ \A k \in 1..Len(t) : \E i \in 1..Len(rings[p]) :
       a < i /\ i <= a + PageSize /\ t[k] = rings[p][i] /\ t[k] \in Matching
  /\ \A i \in 1..Len(rings[p]) :
       a < i /\ i <= a + PageSize /\ rings[p][i] \in Matching =>
         \E k \in 1..Len(t) : t[k] = rings[p][i]
  /\ Apart(rings) => \A j, k \in 1..Len(t) : t[j] = t[k] => j = k

LEMMA PageFacts ==
  ASSUME rings \in [1..Pools -> Seq(Payouts)], NEW p \in 1..Pools, NEW n \in Nat,
         NEW a, a = n * PageSize
  PROVE  Printable(MatchesOn(p, n), p, a)
<1> DEFINE r == rings[p]  page == PageOf(p, n)  t == MatchesOn(p, n)
<1>1. /\ r \in Seq(Payouts) /\ PageSize \in Nat \ {0} /\ a \in Nat /\ Len(r) \in Nat
      /\ \A i \in 1..Len(r) : r[i] \in Payouts
  <2>1. r \in Seq(Payouts)
    OBVIOUS
  <2>2. a \in Nat /\ PageSize \in Nat \ {0}
    BY BatchSize
  <2> HIDE DEF r
  <2> QED
    BY <2>1, <2>2, ElementOfSeq
<1>2. page = Part(r, n, PageSize)
  BY DEF PageOf
<1>3. /\ page \in Seq(Payouts) /\ Len(page) <= PageSize
      /\ \A k \in 1..Len(page) : n * PageSize + k \in 1..Len(r) /\ page[k] = r[n * PageSize + k]
      /\ \A k \in 1..PageSize : n * PageSize + k <= Len(r) => k \in 1..Len(page)
  <2> HIDE DEF r, page
  <2> QED
    BY <1>1, <1>2, PartFacts
<1>4. t = Shown(page)
  BY DEF MatchesOn
<1> HIDE DEF page, t
<1>5. Keeps(page, t, Len(page))
  BY <1>3, <1>4, ShownFacts
<1> HIDE DEF r
<1> DEFINE l == Len(page)
<1>6. /\ l \in Nat /\ l <= PageSize
      /\ \A k \in 1..l : a + k \in 1..Len(r) /\ page[k] = r[a + k]
      /\ \A k \in 1..PageSize : a + k <= Len(r) => k \in 1..l
  BY <1>3
<1>7. /\ t \in Seq(Payouts)
      /\ \A k \in 1..Len(t) : \E i \in 1..l : t[k] = page[i] /\ Matches(page[i])
      /\ \A i \in 1..l : Matches(page[i]) => \E k \in 1..Len(t) : t[k] = page[i]
      /\ (\A i, j \in 1..l : page[i] = page[j] => i = j) => \A j, k \in 1..Len(t) : t[j] = t[k] => j = k
  BY <1>5 DEF Keeps
<1> HIDE DEF l
<1>8. ASSUME NEW k \in 1..Len(t)
      PROVE  \E i \in 1..Len(r) : a < i /\ i <= a + PageSize /\ t[k] = r[i] /\ t[k] \in Matching
  <2>1. PICK i \in 1..l : t[k] = page[i] /\ Matches(page[i])
    BY <1>7
  <2>2. a + i \in 1..Len(r) /\ page[i] = r[a + i] /\ a < a + i /\ a + i <= a + PageSize
    BY <1>1, <1>6
  <2>3. page[i] \in Matching
    BY <1>1, <2>1, <2>2 DEF Matching
  <2> QED
    BY <2>1, <2>2, <2>3
<1>9. ASSUME NEW i \in 1..Len(r), a < i, i <= a + PageSize, r[i] \in Matching
      PROVE  \E k \in 1..Len(t) : t[k] = r[i]
  <2> DEFINE j == i - a
  <2>1. j \in 1..PageSize /\ a + j = i /\ a + j <= Len(r)
    BY <1>1, <1>9
  <2> HIDE DEF j
  <2>2. j \in 1..l /\ page[j] = r[i]
    BY <1>6, <2>1
  <2> QED
    BY <1>7, <1>9, <2>2 DEF Matching
<1>10. ASSUME Apart(rings) PROVE \A i, j \in 1..l : page[i] = page[j] => i = j
  <2> SUFFICES ASSUME NEW i \in 1..l, NEW j \in 1..l, page[i] = page[j] PROVE i = j
    OBVIOUS
  <2>1. a + i \in 1..Len(r) /\ a + j \in 1..Len(r) /\ r[a + i] = r[a + j]
    BY <1>6
  <2>2. DOMAIN r = 1..Len(r)
    BY <1>1
  <2>3. a + i = a + j
    BY <1>10, <2>1, <2>2 DEF Apart, r
  <2> QED
    BY <1>1, <1>6, <2>3
<1> QED
  BY <1>7, <1>8, <1>9, <1>10 DEF t, r, Printable

(* GetPayouts: one page more.                                               *)
LEMMA PrintFacts ==
  ASSUME Watch, GetPayouts, NEW p \in 1..Pools, NEW n \in Nat, NEW a,
         p = at[1], n = at[2], a = n * PageSize
  PROVE  /\ printed' \in Seq(Payouts) /\ PrintedSet \subseteq PrintedSet'
         /\ Seen(p, a + PageSize)'
         /\ changes = 0 => Distinct' /\ Came(p, a + PageSize)'
<1> DEFINE t == MatchesOn(p, n)  l == Len(printed)  b == Len(t)  both == printed \o t
<1>1. /\ Matching' = Matching /\ rings \in [1..Pools -> Seq(Payouts)] /\ printed \in Seq(Payouts)
      /\ UNCHANGED <<rings, steady, changes>>
  BY RingsStay
<1>2. pc = "page" /\ printed' = printed \o t
  BY DEF GetPayouts
<1>3. /\ t \in Seq(Payouts)
      /\ \A k \in 1..b : \E i \in 1..Len(rings[p]) :
           a < i /\ i <= a + PageSize /\ t[k] = rings[p][i] /\ t[k] \in Matching
      /\ \A i \in 1..Len(rings[p]) :
           a < i /\ i <= a + PageSize /\ rings[p][i] \in Matching => \E k \in 1..b : t[k] = rings[p][i]
      /\ Apart(rings) => \A j, k \in 1..b : t[j] = t[k] => j = k
  <2> HIDE DEF l, both
  <2>1. Printable(t, p, a)
    BY <1>1, PageFacts
  <2> HIDE DEF t
  <2> QED
    BY <2>1 DEF Printable
<1> HIDE DEF t
<1>4. a \in Nat /\ PageSize \in Nat /\ l \in Nat /\ b \in Nat /\ \A i \in 1..Len(rings[p]) : i \in Nat
  BY SMTT(30), <1>1, <1>3, BatchSize
<1>5. /\ both \in Seq(Payouts) /\ Len(both) = l + b
      /\ \A k \in 1..l : k \in 1..(l + b) /\ both[k] = printed[k]
      /\ \A k \in 1..b : l + k \in 1..(l + b) /\ both[l + k] = t[k]
      /\ \A k \in 1..(l + b) : k \in 1..l \/ \E j \in 1..b : k = l + j
  <2>1. /\ both \in Seq(Payouts) /\ Len(both) = l + b
        /\ \A k \in 1..(l + b) : both[k] = IF k <= l THEN printed[k] ELSE t[k - l]
    BY <1>1, <1>3, ConcatProperties
  <2> HIDE DEF both, l, b
  <2>2. ASSUME NEW k \in 1..l PROVE k \in 1..(l + b) /\ k <= l
    BY <1>4
  <2>3. ASSUME NEW k \in 1..b PROVE l + k \in 1..(l + b) /\ ~ (l + k <= l) /\ (l + k) - l = k
    BY <1>4
  <2>4. ASSUME NEW k \in 1..(l + b), k \notin 1..l PROVE k - l \in 1..b /\ k = l + (k - l)
    BY <1>4, <2>4
  <2>5. \A k \in 1..l : both[k] = printed[k]
    BY <2>1, <2>2
  <2>6. ASSUME NEW k \in 1..b PROVE both[l + k] = t[k]
    <3>1. both[l + k] = t[(l + k) - l]
      BY <2>1, <2>3
    <3> QED
      BY <2>3, <3>1
  <2> QED
    BY <2>1, <2>2, <2>3, <2>4, <2>5, <2>6
<1> HIDE DEF both, l, b
<1>6. printed' = both
  BY <1>2 DEF both
<1>7. PrintedSet \subseteq PrintedSet' /\ \A k \in 1..b : t[k] \in PrintedSet'
  <2>1. PrintedSet' = {both[k] : k \in 1..(l + b)}
    BY <1>5, <1>6 DEF PrintedSet
  <2>2. PrintedSet = {printed[k] : k \in 1..l}
    BY DEF PrintedSet, l
  <2>3. ASSUME NEW k \in 1..l PROVE printed[k] \in PrintedSet'
    BY <1>5, <2>1
  <2>4. ASSUME NEW k \in 1..b PROVE t[k] \in PrintedSet'
    BY <1>5, <2>1
  <2> QED
    BY <2>2, <2>3, <2>4
<1>8. Seen(p, a)
  BY <1>2 DEF Watch, PayoutsInv, PageInv
<1>9. Seen(p, a + PageSize)'
  <2> SUFFICES ASSUME NEW i \in 1..Len(rings[p]), i <= a + PageSize, rings[p][i] \in steady \cap Matching
               PROVE  rings[p][i] \in PrintedSet'
    BY <1>1 DEF Seen
  <2>1. CASE i <= a
    BY <1>7, <1>8, <2>1 DEF Seen
  <2>2. CASE ~ (i <= a)
    <3>1. a < i
      BY <1>4, <2>2
    <3>2. \E k \in 1..b : t[k] = rings[p][i]
      BY <1>3, <3>1
    <3> QED
      BY <1>7, <3>2
  <2> QED
    BY <2>1, <2>2
<1>10. ASSUME changes = 0 PROVE Distinct' /\ Came(p, a + PageSize)'
  <2>1. Distinct /\ Came(p, a) /\ Apart(rings)
    BY <1>2, <1>10 DEF Watch, PayoutsInv, PageInv, RingInv
  <2>2. \A q \in 1..Pools : DOMAIN rings[q] = 1..Len(rings[q])
    BY <1>1
  <2>3. ASSUME NEW k \in 1..l, NEW j \in 1..b PROVE printed[k] # t[j]
    <3>a. PICK q \in 1..Pools : \E i \in 1..Len(rings[q]) :
            printed[k] = rings[q][i] /\ (q < p \/ (q = p /\ i <= a))
      BY <2>1 DEF Came, l
    <3>1. PICK i \in 1..Len(rings[q]) : printed[k] = rings[q][i] /\ (q < p \/ (q = p /\ i <= a))
      BY <3>a
    <3>2. PICK m \in 1..Len(rings[p]) : a < m /\ t[j] = rings[p][m]
      BY <1>3
    <3>3. rings[q][i] = rings[p][m] => q = p /\ i = m
      BY SMTT(30), <2>1, <2>2 DEF Apart
    <3>4. ~ (p < p) /\ ~ (m <= a)
      BY SMTT(30), <1>4, <3>2
    <3> QED
      BY <3>1, <3>2, <3>3, <3>4
  <2>4. Distinct'
    <3> SUFFICES ASSUME NEW j \in 1..(l + b), NEW k \in 1..(l + b), both[j] = both[k] PROVE j = k
      BY <1>5, <1>6 DEF Distinct
    <3>1. CASE j \in 1..l /\ k \in 1..l
      BY <1>5, <2>1, <3>1 DEF Distinct, l
    <3>2. CASE j \in 1..l /\ k \notin 1..l
      <4>1. PICK i \in 1..b : k = l + i
        BY <1>5, <3>2
      <4> QED
        BY <1>5, <2>3, <3>2, <4>1
    <3>3. CASE j \notin 1..l /\ k \in 1..l
      <4>1. PICK i \in 1..b : j = l + i
        BY <1>5, <3>3
      <4> QED
        BY <1>5, <2>3, <3>3, <4>1
    <3>4. CASE j \notin 1..l /\ k \notin 1..l
      <4>1. PICK i \in 1..b : j = l + i
        BY <1>5, <3>4
      <4>2. PICK m \in 1..b : k = l + m
        BY <1>5, <3>4
      <4>3. t[i] = t[m]
        BY <1>5, <4>1, <4>2
      <4>4. i = m
        BY <1>3, <2>1, <4>3
      <4> QED
        BY <4>1, <4>2, <4>4
    <3> QED
      BY <3>1, <3>2, <3>3, <3>4
  <2>5. Came(p, a + PageSize)'
    <3> SUFFICES ASSUME NEW k \in 1..(l + b)
                 PROVE  \E q \in 1..Pools : \E i \in 1..Len(rings[q]) :
                          both[k] = rings[q][i] /\ (q < p \/ (q = p /\ i <= a + PageSize))
      <4>1. rings' = rings /\ printed' = both /\ Len(printed') = l + b
        BY <1>1, <1>5, <1>6
      <4>2. Came(p, a + PageSize)' <=>
              \A k \in 1..(l + b) : \E q \in 1..Pools : \E i \in 1..Len(rings[q]) :
                both[k] = rings[q][i] /\ (q < p \/ (q = p /\ i <= a + PageSize))
        BY <4>1 DEF Came
      <4> QED
        BY <4>2
    <3>1. CASE k \in 1..l
      <4>a. PICK q \in 1..Pools : \E i \in 1..Len(rings[q]) :
              printed[k] = rings[q][i] /\ (q < p \/ (q = p /\ i <= a))
        BY <2>1, <3>1 DEF Came, l
      <4>1. PICK i \in 1..Len(rings[q]) : printed[k] = rings[q][i] /\ (q < p \/ (q = p /\ i <= a))
        BY <4>a
      <4>2. q = p /\ i <= a => i <= a + PageSize
        BY <1>4
      <4> QED
        BY <1>5, <3>1, <4>1, <4>2
    <3>2. CASE k \notin 1..l
      <4>1. PICK j \in 1..b : k = l + j
        BY <1>5, <3>2
      <4>2. both[k] = t[j]
        BY <1>5, <4>1
      <4> QED
        BY <1>3, <4>2
    <3> QED
      BY <3>1, <3>2
  <2> QED
    BY <2>4, <2>5
<1> QED
  BY <1>5, <1>6, <1>7, <1>9, <1>10
(* Behind a payout of an earlier epoch comes none of the epoch.             *)
LEMMA NoneLater ==
  ASSUME rings \in [1..Pools -> Seq(Payouts)], NEW p \in 1..Pools, NewestFirst(rings[p]),
         Op = "payouts", command.epoch \in Nat,
         NEW e \in 1..Len(rings[p]), rings[p][e].epoch < command.epoch
  PROVE  \A i \in 1..Len(rings[p]) : e <= i => rings[p][i] \notin Matching
<1> SUFFICES ASSUME NEW i \in 1..Len(rings[p]), e <= i, rings[p][i] \in Matching PROVE FALSE
  OBVIOUS
<1>1. rings[p] \in Seq(Payouts) /\ DOMAIN rings[p] = 1..Len(rings[p])
  OBVIOUS
<1>2. rings[p][i] \in Payouts /\ rings[p][e] \in Payouts
  BY <1>1, ElementOfSeq
<1> DEFINE x == rings[p][i]  y == rings[p][e]
<1>3. x.epoch <= y.epoch
  BY <1>1 DEF NewestFirst
<1>4. x.epoch = command.epoch
  BY DEF Matching, Matches
<1>5. x.epoch \in Nat /\ y.epoch \in Nat /\ y.epoch < command.epoch
  BY <1>2 DEF Payouts
<1> HIDE DEF x, y
<1> QED
  BY <1>3, <1>4, <1>5

LEMMA GetPayoutsInv ==
  ASSUME Watch, GetPayouts
  PROVE  PayoutsInv'
<1>0. pc = "page" /\ at \in (1..Pools) \X Nat
  BY DEF GetPayouts, Watch, PayoutsInv, PageInv
<1>a. PICK p \in 1..Pools : p = at[1]
  BY <1>0
<1>b. PICK n \in Nat : n = at[2]
  BY <1>0
<1>c. PICK a : a = n * PageSize
  OBVIOUS
<1>1. /\ RingInv' /\ Op' = Op /\ Matching' = Matching /\ command' = command
      /\ UNCHANGED <<rings, steady, changes, epoch>>
      /\ rings \in [1..Pools -> Seq(Payouts)] /\ epoch \in Nat /\ command.epoch \in Int
  BY RingsStay DEF Watch
<1>2. /\ a \in Nat /\ (n + 1) * PageSize = a + PageSize /\ PageSize \in Nat \ {0}
      /\ n + 1 >= TotalPages(p) => Len(rings[p]) <= a + PageSize
      /\ ~ (n + 1 >= TotalPages(p)) => Len(rings[p]) > a + PageSize
      /\ n > 0 => a >= PageSize
      /\ n = 0 => a = 0
  <2>1. n * PageSize = a
    BY <1>c
  <2>2. n > 0 => n * PageSize >= PageSize
    BY BatchSize, ProductFacts
  <2>3. n = 0 => n * PageSize = 0
    BY BatchSize
  <2> QED
    BY <1>1, <2>1, <2>2, <2>3, BatchSize, LastPage
<1>3. /\ printed' \in Seq(Payouts) /\ PrintedSet \subseteq PrintedSet'
      /\ Seen(p, a + PageSize)'
      /\ changes = 0 => Distinct' /\ Came(p, a + PageSize)'
  BY <1>a, <1>b, <1>c, PrintFacts
<1>4. Printable(MatchesOn(p, n), p, a)
  BY <1>1, <1>c, PageFacts
<1>5. /\ reached' = (reached \/ (n = 0 /\ MatchesOn(p, n) # <<>>)) /\ unread' = unread
      /\ \/ Stops(p, n) /\ LeavePool(p)
         \/ ~Stops(p, n) /\ Client("page", "page") /\ at' = <<p, n + 1>> /\ outcome' = outcome
  BY <1>a, <1>b DEF GetPayouts
<1>6. ASSUME NEW q \in 1..Pools, Complete(q) PROVE Complete(q)'
  BY <1>1, <1>3, <1>6 DEF Complete
<1>7. /\ Op = "payoutsOf" => \A q \in 1..Pools : q < p => q \in unread' \/ Complete(q)'
      /\ Op = "payouts" /\ changes = 0 /\ reached =>
           n > 0 /\ \E i \in 1..Len(rings[p]) : i <= PageSize /\ rings[p][i] \in Matching
      /\ Op = "payouts" => p = command.pool
  BY <1>0, <1>5, <1>6, <1>a, <1>b DEF Watch, PayoutsInv, PageInv
<1>8. n = 0 /\ MatchesOn(p, n) # <<>> =>
        \E i \in 1..Len(rings[p]) : i <= PageSize /\ rings[p][i] \in Matching
  <2> DEFINE t == MatchesOn(p, n)
  <2> SUFFICES ASSUME n = 0, t # <<>>
               PROVE  \E i \in 1..Len(rings[p]) : i <= PageSize /\ rings[p][i] \in Matching
    OBVIOUS
  <2> HIDE DEF t
  <2>0. Printable(t, p, a)
    BY <1>4 DEF t
  <2>1. t \in Seq(Payouts) /\ Len(t) \in Nat
    BY <2>0 DEF Printable
  <2>2. Len(t) # 0
    BY <2>1, EmptySeq
  <2>3. 1 \in 1..Len(t)
    BY <2>1, <2>2
  <2>4. PICK i \in 1..Len(rings[p]) : i <= a + PageSize /\ t[1] = rings[p][i] /\ t[1] \in Matching
    BY <2>0, <2>3 DEF Printable
  <2> QED
    BY <1>2, <2>4
<1>9. CASE ~Stops(p, n)
  <2>1. /\ at' = <<p, n + 1>> /\ pc' = "page" /\ outcome' = outcome /\ at'[1] = p /\ at'[2] = n + 1
        /\ at' \in (1..Pools) \X Nat /\ at'[2] * PageSize = a + PageSize /\ at'[2] > 0
    BY <1>2, <1>5, <1>9 DEF Client
  <2>2. outcome = "none"
    BY <1>0 DEF Watch, PayoutsInv, RouteInv
  <2>3. RouteInv'
    BY <1>1, <1>3, <2>1, <2>2 DEF RouteInv
  <2>4. DoneInv'
    BY <2>1, <2>2 DEF DoneInv
  <2>5. Seen(at[1], at[2] * PageSize)' /\ (changes = 0 => Distinct' /\ Came(at[1], at[2] * PageSize)')
    <3>1. Seen(at[1], at[2] * PageSize)' <=> Seen(p, a + PageSize)'
      BY <2>1 DEF Seen
    <3>2. Came(at[1], at[2] * PageSize)' <=> Came(p, a + PageSize)'
      BY <2>1 DEF Came
    <3> QED
      BY <1>3, <3>1, <3>2
  <2>6. Op = "payouts" /\ changes = 0 /\ reached' =>
          \E i \in 1..Len(rings[p]) : i <= PageSize /\ rings[p][i] \in Matching
    BY <1>5, <1>7, <1>8
  <2>7. PageInv'
    BY <1>1, <1>7, <2>1, <2>5, <2>6 DEF PageInv
  <2> QED
    BY <1>1, <2>3, <2>4, <2>7 DEF PayoutsInv
<1>10. CASE Stops(p, n)
  <2>1. n + 1 >= TotalPages(p) => Complete(p)'
    <3> SUFFICES ASSUME n + 1 >= TotalPages(p) PROVE Complete(p)'
      OBVIOUS
    <3>1. \A i \in 1..Len(rings[p]) : i <= a + PageSize
      BY <1>1, <1>2
    <3> QED
      BY <1>1, <1>3, <3>1 DEF Seen, Complete
  <2>2. Op = "payoutsOf" => \A q \in 1..Pools : q <= p => q \in unread' \/ Complete(q)'
    <3>1. Op = "payoutsOf" => n + 1 >= TotalPages(p)
      BY <1>10 DEF Stops
    <3>2. \A q \in 1..Pools : q <= p => q < p \/ q = p
      OBVIOUS
    <3> QED
      BY <1>7, <2>1, <3>1, <3>2
  <2>3. ASSUME Op = "payouts", Due', ~ (n + 1 >= TotalPages(p)) PROVE Complete(p)'
    <3>1. Due' <=> command.epoch >= epoch \/ (command.epoch >= 0 /\ changes = 0 /\ reached')
      BY <1>1 DEF Due
    <3>2. command.epoch \in Nat
      BY <1>1, <2>3, <3>1
    <3>3. MatchesOn(p, n) = <<>>
      BY <1>10, <2>3, <3>2 DEF Stops
    <3> DEFINE e == a + 1
    <3>4. Len(rings[p]) \in Nat /\ e \in 1..Len(rings[p]) /\ a < e /\ e <= a + PageSize
      BY <1>1, <1>2, <2>3
    <3> HIDE DEF e
    <3>5. rings[p][e] \notin Matching
      <4>1. Len(<<>>) = 0 /\ \A k \in 1..Len(<<>>) : FALSE
        BY EmptySeq
      <4> QED
        BY <1>4, <3>3, <3>4, <4>1 DEF Printable
    <3>6. rings[p][e] \in Payouts /\ rings[p][e].epoch \in Nat
      <4>1. rings[p] \in Seq(Payouts)
        BY <1>1
      <4>2. rings[p][e] \in Payouts
        BY <3>4, <4>1, ElementOfSeq
      <4> QED
        BY <4>2 DEF Payouts
    <3>7. rings[p][e].epoch # command.epoch
      BY <2>3, <3>5, <3>6 DEF Matching, Matches
    <3>8. NewestFirst(rings[p]) /\ DOMAIN rings[p] = 1..Len(rings[p]) /\ rings[p][e].epoch <= epoch
      BY <1>1, <3>4 DEF Watch, PayoutsInv, RingInv
    <3>9. rings[p][e].epoch <= command.epoch
      <4>1. CASE command.epoch >= epoch
        BY <1>1, <3>2, <3>6, <3>8, <4>1
      <4>2. CASE changes = 0 /\ reached'
        <5>1. n > 0
          BY <1>5, <1>7, <2>3, <3>3, <4>2
        <5>2. PICK i \in 1..Len(rings[p]) : i <= PageSize /\ rings[p][i] \in Matching
          BY <1>5, <1>7, <2>3, <3>3, <4>2
        <5>3. i <= e
          BY <1>2, <3>4, <5>1, <5>2
        <5>4. rings[p][i].epoch = command.epoch
          BY <2>3, <3>2, <5>2 DEF Matching, Matches
        <5>5. rings[p][e].epoch <= rings[p][i].epoch
          BY <3>4, <3>8, <5>2, <5>3 DEF NewestFirst
        <5> QED
          BY <5>4, <5>5
      <4> QED
        BY <2>3, <3>1, <4>1, <4>2
    <3>10. rings[p][e].epoch < command.epoch
      BY <3>2, <3>6, <3>7, <3>9
    <3>11. \A i \in 1..Len(rings[p]) : e <= i => rings[p][i] \notin Matching
      BY <1>1, <2>3, <3>2, <3>4, <3>8, <3>10, NoneLater
    <3>12. ASSUME NEW i \in 1..Len(rings[p]), rings[p][i] \in steady \cap Matching
           PROVE  rings[p][i] \in PrintedSet'
      <4>1. ~ (e <= i)
        BY <3>11, <3>12
      <4>2. i <= a + PageSize
        BY <1>2, <3>4, <4>1
      <4> QED
        BY <1>1, <1>3, <3>12, <4>2 DEF Seen
    <3> QED
      BY <1>1, <3>12 DEF Complete
  <2>4. Op = "payouts" => p \in unread' \/ (Due' => Complete(p)')
    BY <2>1, <2>3
  <2>5. changes = 0 => Distinct' /\ Came(p + 1, 0 * PageSize)'
    <3> SUFFICES ASSUME changes = 0 PROVE Came(p + 1, 0 * PageSize)'
      BY <1>3
    <3>1. \A q \in 1..Pools : q < p \/ q = p => q < p + 1
      OBVIOUS
    <3>2. \A k \in 1..Len(printed') : \E q \in 1..Pools : \E i \in 1..Len(rings'[q]) :
            printed'[k] = rings'[q][i] /\ (q < p \/ (q = p /\ i <= a + PageSize))
      BY <1>3 DEF Came
    <3>3. \A k \in 1..Len(printed') : \E q \in 1..Pools : \E i \in 1..Len(rings'[q]) :
            printed'[k] = rings'[q][i] /\ q < p + 1
      BY <3>1, <3>2
    <3> QED
      BY <3>3 DEF Came
  <2>6. LeavePool(p)
    BY <1>5, <1>10
  <2> QED
    BY <1>0, <1>3, <1>a, <2>2, <2>4, <2>5, <2>6, LeaveInv
<1> QED
  BY <1>9, <1>10
LEMMA NextPayouts == IInv /\ PayoutsInv /\ [Next]_vars => PayoutsInv'
<1> SUFFICES ASSUME IInv, PayoutsInv, [Next]_vars PROVE PayoutsInv'
  OBVIOUS
<1>0. command \in Commands
  BY DEF IInv, World
<1>1. CASE ClientStep
  <2>0. UNCHANGED <<contract, command, history>>
    BY <1>1 DEF ClientStep, Refuse, Start, Abort, ReadRequestedQU, ReadSharesFees, QueryVaults, QueryAgain,
         QueryFailed, QueryEmpty, CountVaults, GetBalances16, TryBatchAgain, BatchFailed, Totals, GetPayouts,
         NoPayouts, LeavePool, Dividends, ReadFee, NoFee, Send, Client
  <2>1. CASE Op \notin Ringers
    BY <2>0, <2>1 DEF PayoutsInv, RingInv, RouteInv, PageInv, DoneInv, Op, contract
  <2>2. CASE Op \in Ringers
    <3>1. Watch
      BY <1>0, <2>0, <2>2 DEF Watch
    <3>2. pc \in {"start", "totals", "page", "dividends", "ended"}
      BY <2>2 DEF PayoutsInv, RouteInv
    <3>3. Start \/ Refuse \/ Abort \/ Totals \/ GetPayouts \/ NoPayouts \/ Dividends
      BY <1>1, <3>2 DEF ClientStep, ReadRequestedQU, ReadSharesFees, QueryVaults, QueryAgain, QueryFailed,
         QueryEmpty, GetBalances16, TryBatchAgain, BatchFailed, ReadFee, NoFee, Send, Client
    <3> QED
      BY <3>1, <3>3, EarlyEnd, FirstPage, GetPayoutsInv, LaterPages
  <2> QED
    BY <2>1, <2>2
<1>2. CASE \/ \E i \in Deals, place \in {"absent", "proposed", "public"} : MoveDeal(i, place)
           \/ \E o \in Owners, n \in {0, MaxCoOwner - 1, MaxCoOwner} : Join(o, n)
           \/ \E id \in Identities, b \in Balances : Transfer(id, b)
           \/ EndEpoch \/ ChangeFees
  <2>1. Change /\ rings' = rings /\ (epoch' = epoch \/ EndEpoch)
    BY <1>2 DEF MoveDeal, Join, Transfer, EndEpoch, ChangeFees
  <2> QED
    BY <1>0, <2>1, ChangePayouts
<1>3. ASSUME NEW p \in 1..Pools, NEW to \in Identities, Pay(p, to) PROVE PayoutsInv'
  BY <1>0, <1>3, PayInvariant
<1>4. CASE UNCHANGED vars
  BY <1>4 DEF PayoutsInv, RingInv, RouteInv, PageInv, DoneInv, Seen, Complete, Came, Distinct, Due, PrintedSet,
       Matching, Matches, NewestFirst, Apart, Op, vars, contract, memory, output, history
<1> QED
  BY <1>1, <1>2, <1>3, <1>4 DEF Next

(* The payouts of qrwa: those that were in the rings during the command and  *)
(* are asked for are printed, although new ones move them from page to page; *)
(* when nothing is paid meanwhile none is printed twice.                     *)
THEOREM PayoutsAreComplete == Spec => []PayoutsComplete
<1>1. IInv /\ PayoutsInv => PayoutsComplete
  <2> SUFFICES ASSUME IInv, PayoutsInv, outcome = "printed", Op \in {"payouts", "payoutsOf"}
               PROVE  PayoutsComplete
    BY DEF PayoutsComplete
  <2>1. /\ rings \in [1..Pools -> Seq(Payouts)] /\ printed \in Seq(Payouts)
        /\ epoch \in Nat /\ command.epoch \in Int
    BY RingCommands DEF IInv, World, PayoutsInv, RingInv, RouteInv, Ringers
  <2>2. /\ Op = "payoutsOf" => \A q \in 1..Pools : q \in unread \/ Complete(q)
        /\ Op = "payouts" => command.pool \in unread \/ (Due => Complete(command.pool))
        /\ changes = 0 => Distinct
    BY DEF PayoutsInv, DoneInv, Ringers
  <2>3. DOMAIN printed = 1..Len(printed)
    BY <2>1
  <2>4. changes = 0 => IsInjective(printed)
    BY <2>2, <2>3 DEF Distinct, IsInjective
  <2>5. ASSUME NEW p \in 1..Pools \ unread, Op = "payoutsOf" \/ ShowsEpoch(p) PROVE Complete(p)
    <3>1. CASE Op = "payoutsOf"
      BY <2>2, <3>1
    <3>2. CASE ShowsEpoch(p)
      <4>1. command.epoch = epoch => command.epoch >= epoch
        BY <2>1
      <4>2. Op = "payouts" /\ p = command.pool /\ Due
        BY <3>2, <4>1 DEF ShowsEpoch, Due
      <4> QED
        BY <2>2, <4>2
    <3> QED
      BY <2>5, <3>1, <3>2
  <2>6. ASSUME NEW p \in 1..Pools, Complete(p), NEW x \in steady \cap ToSet(rings[p]), Matches(x)
        PROVE  x \in ToSet(printed)
    <3>1. DOMAIN rings[p] = 1..Len(rings[p])
      BY <2>1
    <3>2. PICK i \in 1..Len(rings[p]) : x = rings[p][i]
      BY <3>1 DEF ToSet
    <3>3. x \in Payouts
      BY <2>1, <3>2, ElementOfSeq
    <3>4. x \in PrintedSet
      BY <2>6, <3>2, <3>3 DEF Complete, Matching
    <3> QED
      BY <2>3, <3>4 DEF PrintedSet, ToSet
  <2> QED
    BY <2>4, <2>5, <2>6 DEF PayoutsComplete
<1> QED
  BY InitInv, NextInv, InitPayouts, NextPayouts, <1>1, PTL DEF Spec
=============================================================================
