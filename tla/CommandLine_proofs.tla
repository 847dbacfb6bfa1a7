------------------------- MODULE CommandLine_proofs -------------------------
(***************************************************************************)
(* Proofs about CommandLine: the settings a function is called with, for   *)
(* all tables of options and commands; then, from these tables, the types, *)
(* the seed, the amounts and the contract of a call, the globals that are  *)
(* handed over, and the numbers of words that the help text gives.         *)
(* The tables are opened row by row: SeedTable says what holds of each row *)
(* of the switch, TableOk, FitTable and CountTable what holds of each of   *)
(* the blocks of parseArgument.                                            *)
(***************************************************************************)
EXTENDS CommandLine, TLAPS, SequenceTheorems, FiniteSetTheorems

(* What the words alone make of a setting, and what comes of the file.      *)
FromWords(k) == IF typed[k] = "none" THEN "default" ELSE typed[k]
FromFile(k) ==
  IF typed[k] \notin {"none", "default"} THEN typed[k]
  ELSE IF conf /\ line.option \notin DOMAIN EscrowOptions /\ file[k] # "none"
       THEN file[k] ELSE "default"

Typed ==
  /\ phase \in {"options", "conf", "dispatch"} \cup Stopped
  /\ settings = [k \in Keys |-> settings[k]] /\ typed = [k \in Keys |-> typed[k]]

(* Before the file nothing but the words counts, and no command is selected *)
(* before its block; the blocks of escrow pass the file by.                 *)
Words ==
  /\ phase \in {"options", "conf"} => \A k \in Keys : settings[k] = FromWords(k)
  /\ phase = "options" => command = "TOTAL_COMMAND"
  /\ phase = "conf" /\ command # "TOTAL_COMMAND" => line.option \notin DOMAIN EscrowOptions
  /\ phase = "conf" => conf

Resolved ==
  phase = "called" \/ (phase = "dispatch" /\ command # "TOTAL_COMMAND")
    => \A k \in Keys : settings[k] = FromFile(k)

IInv == Typed /\ Words /\ Resolved

-----------------------------------------------------------------------------
(* A line is one of its option.                                             *)
LEMMA LineOption == \A o : \A l \in Lines(o) : l.option = o
<1> SUFFICES ASSUME NEW o, NEW l \in Lines(o) PROVE l.option = o
  OBVIOUS
<1>1. \E n, p, w : l = [option |-> o, supplied |-> n, oddAt |-> p, odd |-> w]
  BY DEF Lines
<1> QED
  BY <1>1

LEMMA InitInv == Init => IInv
  BY DEF Init, IInv, Typed, Words, Resolved, FromWords

LEMMA SettingInv == ASSUME IInv, NEW k \in Keys, NEW v, Setting(k, v), v # "none" PROVE IInv'
<1>1. /\ phase = "options" /\ UNCHANGED <<phase, conf, file, line, command>>
      /\ settings' = [settings EXCEPT ![k] = v] /\ typed' = [typed EXCEPT ![k] = v]
  BY DEF Setting, Before
<1>2. Typed'
  BY <1>1 DEF IInv, Typed
<1>3. ASSUME NEW j \in Keys PROVE settings'[j] = FromWords(j)'
  <2>1. CASE j = k
    BY <1>1, <2>1 DEF IInv, Typed, FromWords
  <2>2. CASE j # k
    BY <1>1, <2>2 DEF IInv, Typed, Words, FromWords
  <2> QED
    BY <2>1, <2>2
<1>4. Words' /\ Resolved'
  BY <1>1, <1>3 DEF IInv, Words, Resolved
<1> QED
  BY <1>2, <1>4 DEF IInv

(* The steps that leave the settings and what was typed alone.              *)
LEMMA OptionsInv ==
  ASSUME IInv,
         \/ \E f \in Files : ConfFile(f)
         \/ \E name \in FlagNames : FlagOption(name)
         \/ UnknownWord \/ HelpOrMissingValue \/ NoMoreWords
  PROVE  IInv'
<1>1. /\ phase = "options" /\ UNCHANGED <<settings, typed, command>>
      /\ phase' \in {"options", "conf", "dispatch", "exited"}
      /\ phase' = "conf" => conf'
  BY DEF ConfFile, FlagOption, UnknownWord, HelpOrMissingValue, NoMoreWords, Before
<1> QED
  BY <1>1 DEF IInv, Typed, Words, Resolved, FromWords, Stopped

(* A command ends the options: with the file to come, or without it.        *)
LEMMA CommandInv ==
  ASSUME IInv, NEW o, NEW l \in Lines(o), Command(o, l)
  PROVE  IInv'
<1>1. /\ phase = "options" /\ line' = l /\ UNCHANGED <<settings, typed, conf, file>>
      /\ \/ phase' \in {"crashed", "exited"}
         \/ phase' = AfterBlock(o)
  BY DEF Command
<1>2. l.option = o
  BY LineOption
<1>3. CASE phase' \in {"crashed", "exited"}
  BY <1>1, <1>3 DEF IInv, Typed, Words, Resolved, Stopped
<1>4. CASE phase' = AfterBlock(o)
  <2>1. CASE conf /\ o \notin DOMAIN EscrowOptions
    BY <1>1, <1>2, <1>4, <2>1 DEF IInv, Typed, Words, Resolved, FromWords, AfterBlock
  <2>2. CASE ~(conf /\ o \notin DOMAIN EscrowOptions)
    BY <1>1, <1>2, <1>4, <2>2 DEF IInv, Typed, Words, Resolved, FromWords, FromFile, AfterBlock
  <2> QED
    BY <2>1, <2>2
<1> QED
  BY <1>1, <1>3, <1>4

LEMMA ReadConfigFileInv == ASSUME IInv, ReadConfigFile PROVE IInv'
<1>1. /\ phase = "conf" /\ phase' = "dispatch" /\ conf
      /\ settings' = [k \in Keys |-> IF settings[k] = "default" /\ file[k] # "none"
                                     THEN file[k] ELSE settings[k]]
      /\ UNCHANGED <<typed, conf, file, line, command>>
  BY DEF ReadConfigFile, IInv, Words
<1>2. ASSUME command # "TOTAL_COMMAND", NEW k \in Keys PROVE settings'[k] = FromFile(k)'
  BY <1>1, <1>2 DEF IInv, Words, FromWords, FromFile
<1> QED
  BY <1>1, <1>2 DEF IInv, Typed, Words, Resolved

LEMMA RunInv == ASSUME IInv, DispatchCommand \/ UnexpectedCommand PROVE IInv'
<1>1. /\ phase = "dispatch" /\ phase' \in {"called", "exited", "unexpected"}
      /\ phase' = "called" => command # "TOTAL_COMMAND"
      /\ UNCHANGED <<settings, typed, conf, file, line, command>>
  BY DEF DispatchCommand, UnexpectedCommand
<1> QED
  BY <1>1 DEF IInv, Typed, Words, Resolved, FromFile, Stopped

LEMMA NextInv == IInv /\ [Next]_vars => IInv'
<1> SUFFICES ASSUME IInv, [Next]_vars PROVE IInv'
  OBVIOUS
<1>1. ASSUME NEW k \in Keys, NEW v \in Typable[k], Setting(k, v) PROVE IInv'
  <2>1. v # "none"
    BY DEF Typable
  <2> QED
    BY <1>1, <2>1, SettingInv
<1>2. ASSUME NEW o \in DOMAIN Options, NEW l \in Lines(o), Command(o, l) PROVE IInv'
  BY <1>2, CommandInv
<1>3. CASE ReadConfigFile
  BY <1>3, ReadConfigFileInv
<1>4. CASE DispatchCommand \/ UnexpectedCommand
  BY <1>4, RunInv
<1>5. CASE \/ \E f \in Files : ConfFile(f)
           \/ \E name \in FlagNames : FlagOption(name)
           \/ UnknownWord \/ HelpOrMissingValue \/ NoMoreWords
  BY <1>5, OptionsInv
<1>6. CASE UNCHANGED vars
  BY <1>6 DEF IInv, Typed, Words, Resolved, FromWords, FromFile, vars
<1> QED
  BY <1>1, <1>2, <1>3, <1>4, <1>5, <1>6 DEF Next

(* parseArgument and readConfigFile: a command is called with the value that *)
(* was typed last, unless that is the default value; and with that of the    *)
(* file, else the default, for what was not typed.  Of a default that was    *)
(* typed it says nothing: the code lets the file replace it, against         *)
(* README.md:16.                                                             *)
THEOREM SettingsAreResolved == Spec => []SettingsResolved
<1>1. IInv => SettingsResolved
  BY DEF IInv, Resolved, FromFile, SettingsResolved
<1> QED
  BY InitInv, NextInv, <1>1, PTL DEF Spec

-----------------------------------------------------------------------------
(* The rows of the switch.                                                  *)
SeedKind(row) == row.seed \in {"always", "never", "without_identity"}
(* A row of the switch that uses the seed has it checked.                   *)
SeedRow(c, row) ==
  /\ SeedKind(row)
  /\ row.usesSeed =>
       \/ row.seed \in {"always", "without_identity"}
       \/ c \in DOMAIN DispatchQearnQvault \cup {"MAKE_IPO_BID"}
KindTable(f) == \A c \in DOMAIN f : SeedKind(f[c])
SeedTable(f) == \A c \in DOMAIN f : SeedRow(c, f[c])

(* The tables are put together row by row.                                  *)
LEMMA MergeFacts ==
  /\ \A f, g : f @@ g = Merge(f, g)
  /\ \A f, g, x : x \in DOMAIN Merge(f, g) <=> x \in DOMAIN f \/ x \in DOMAIN g
  /\ \A f, g, x : x \in DOMAIN Merge(f, g) =>
       \/ Merge(f, g)[x] = f[x] /\ x \in DOMAIN f
       \/ Merge(f, g)[x] = g[x] /\ x \in DOMAIN g
<1>1. \A f, g : f @@ g = Merge(f, g)
  BY DEF @@
<1>2. /\ \A f, g, x : x \in DOMAIN Merge(f, g) <=> x \in DOMAIN f \/ x \in DOMAIN g
      /\ \A f, g, x : x \in DOMAIN Merge(f, g) =>
           \/ Merge(f, g)[x] = f[x] /\ x \in DOMAIN f
           \/ Merge(f, g)[x] = g[x] /\ x \in DOMAIN g
  BY DEF Merge
<1> QED
  BY <1>1, <1>2

LEMMA EachFacts ==
  /\ \A o, row : (o :> row) = Each({o}, row)
  /\ \A S, row, x : x \in DOMAIN Each(S, row) <=> x \in S
  /\ \A S, row, x : x \in S => Each(S, row)[x] = row
  BY DEF :>, Each

LEMMA TableDomain ==
  /\ \A f, g, x : x \in DOMAIN (f @@ g) <=> x \in DOMAIN f \/ x \in DOMAIN g
  /\ \A o, row, x : x \in DOMAIN (o :> row) <=> x = o
  /\ \A S, row, x : x \in DOMAIN Each(S, row) <=> x \in S
<1>1. \A f, g, x : x \in DOMAIN (f @@ g) <=> x \in DOMAIN f \/ x \in DOMAIN g
  BY MergeFacts
<1>2. /\ \A o, row, x : x \in DOMAIN (o :> row) <=> x = o
      /\ \A S, row, x : x \in DOMAIN Each(S, row) <=> x \in S
  BY EachFacts
<1> QED
  BY <1>1, <1>2

LEMMA SeedTables ==
  /\ \A f, g : SeedTable(f) /\ SeedTable(g) => SeedTable(f @@ g)
  /\ \A c, row : SeedRow(c, row) => SeedTable(c :> row)
  /\ \A S, row : (\A c \in S : SeedRow(c, row)) => SeedTable(Each(S, row))
<1>1. ASSUME NEW f, NEW g, SeedTable(f), SeedTable(g) PROVE SeedTable(f @@ g)
  <2>1. f @@ g = Merge(f, g)
    BY MergeFacts
  <2>2. SeedTable(Merge(f, g))
    BY <1>1, MergeFacts DEF SeedTable
  <2> QED
    BY <2>1, <2>2
<1>2. ASSUME NEW S, NEW row, \A c \in S : SeedRow(c, row) PROVE SeedTable(Each(S, row))
  BY <1>2, EachFacts DEF SeedTable
<1>3. ASSUME NEW c, NEW row, SeedRow(c, row) PROVE SeedTable(c :> row)
  BY <1>2, <1>3, EachFacts
<1> QED
  BY <1>1, <1>2, <1>3

LEMMA KindTables ==
  /\ \A f, g : KindTable(f) /\ KindTable(g) => KindTable(f @@ g)
  /\ \A c, row : SeedKind(row) => KindTable(c :> row)
  /\ \A S, row : SeedKind(row) => KindTable(Each(S, row))
<1>1. ASSUME NEW f, NEW g, KindTable(f), KindTable(g) PROVE KindTable(f @@ g)
  <2>1. f @@ g = Merge(f, g)
    BY MergeFacts
  <2>2. KindTable(Merge(f, g))
    BY <1>1, MergeFacts DEF KindTable
  <2> QED
    BY <2>1, <2>2
<1>2. ASSUME NEW S, NEW row, SeedKind(row) PROVE KindTable(Each(S, row))
  BY <1>2, EachFacts DEF KindTable
<1>3. ASSUME NEW c, NEW row, SeedKind(row) PROVE KindTable(c :> row)
  BY <1>2, <1>3, EachFacts
<1> QED
  BY <1>1, <1>2, <1>3

LEMMA KindRows ==
  \A checks, uses :
    SeedKind(Sign(checks, uses)) /\ SeedKind(Ask(checks, uses)) /\ SeedKind(SignUnchecked(checks, uses))
  BY DEF SeedKind, Call, Sign, Ask, SignUnchecked

LEMMA SeedRows ==
  \A c, checks, uses :
    /\ SeedRow(c, Sign(checks, uses)) /\ SeedRow(c, Ask(checks, uses))
    /\ SeedRow(c, AskWithSeed(checks, uses)) /\ SeedRow(c, GetVote(checks, uses))
    /\ SeedRow(c, Offline(checks, uses)) /\ SeedRow(c, OfflineWithSeed(checks, uses))
    /\ c \in DOMAIN DispatchQearnQvault \cup {"MAKE_IPO_BID"} =>
         SeedRow(c, SignUnchecked(checks, uses))
  BY DEF SeedRow, SeedKind, Call, Sign, Ask, AskWithSeed, GetVote, Offline, OfflineWithSeed, SignUnchecked

LEMMA DispatchWalletRows == \A c : c \in DOMAIN DispatchWallet <=> c \in
  {"SHOW_KEYS", "GET_CURRENT_TICK", "GET_SYSTEM_INFO", "GET_REVENUE_DATA",
   "GET_BALANCE", "GET_ASSET", "QUERY_ASSETS",
   "GET_TOTAL_NUMBER_OF_ASSET_SHARES",
   "QUTIL_DISTRIBUTE_QU_TO_SHAREHOLDERS", "SEND_COIN",
   "SEND_COIN_IN_TICK", "SEND_CUSTOM_TX", "INVOKE_CONTRACT_PROCEDURE"}
  BY SMTT(60), TableDomain DEF DispatchWallet

LEMMA DispatchWalletSeeds == SeedTable(DispatchWallet)
  BY SeedTables, SeedRows DEF DispatchWallet

LEMMA DispatchQueriesRows == \A c : c \in DOMAIN DispatchQueries <=> c \in
  {"CALL_CONTRACT_FUNCTION", "GET_TX_INFO", "CHECK_TX_ON_TICK",
   "SEND_RAW_PACKET", "GET_TICK_DATA", "GET_QUORUM_TICK",
   "READ_TICK_DATA", "CHECK_TX_ON_FILE", "PUBLISH_PROPOSAL",
   "VOTE_PROPOSAL"}
  BY SMTT(60), TableDomain DEF DispatchQueries

LEMMA DispatchQueriesSeeds == SeedTable(DispatchQueries)
  BY SeedTables, SeedRows DEF DispatchQueries

LEMMA DispatchQxRows == \A c : c \in DOMAIN DispatchQx <=> c \in
  {"QX_ISSUE_ASSET", "QX_TRANSFER_ASSET", "QX_ORDER", "QX_GET_ORDER",
   "QX_TRANSFER_MANAGEMENT_RIGHTS"}
  BY SMTT(60), TableDomain DEF DispatchQx

LEMMA DispatchQxSeeds == SeedTable(DispatchQx)
  BY SeedTables, SeedRows DEF DispatchQx

LEMMA DispatchFilesRows == \A c : c \in DOMAIN DispatchFiles <=> c \in
  {"GET_COMP_LIST", "GET_NODE_IP_LIST", "PRINT_QX_FEE", "GET_ACTIVE_IPOS",
   "UPLOAD_FILE", "DOWNLOAD_FILE", "DUMP_SPECTRUM_FILE",
   "DUMP_UNIVERSE_FILE", "DUMP_CONTRACT_FILE", "MAKE_IPO_BID",
   "GET_IPO_STATUS", "QUOTTERY_COMMAND"}
  BY SMTT(60), TableDomain DEF DispatchFiles

LEMMA DispatchFilesSeeds == SeedTable(DispatchFiles)
  BY SeedTables, SeedRows DEF DispatchFiles

LEMMA DispatchQrwaRows == \A c : c \in DOMAIN DispatchQrwa <=> c \in
  {"QRWA_PAYOUT_POOL_A", "QRWA_PAYOUT_POOL_B", "QRWA_PAYOUT_POOL_C",
   "QRWA_PAYOUT_POOL_D", "QRWA_PAYOUT_ADDRESS", "QRWA_STATUS",
   "QRWA_ASSETS", "QRWA_GOV_PARAMS", "QRWA_GOV_POLL_IDS",
   "QRWA_DIVIDENDS", "QRWA_SC_DIVIDENDS", "QRWA_GOV_POLL",
   "QRWA_DONATE_TREASURY", "QRWA_VOTE_GOV_PARAMS", "QRWA_SET_POOL_A_ADDR",
   "QRWA_SET_POOL_D_ADDR", "QRWA_DEPOSIT_ASSET", "QRWA_REVOKE_ASSET_MGMT"}
  BY SMTT(60), TableDomain DEF DispatchQrwa

LEMMA DispatchQrwaSeeds == SeedTable(DispatchQrwa)
  BY SeedTables, SeedRows DEF DispatchQrwa

LEMMA DispatchNodeRows == \A c : c \in DOMAIN DispatchNode <=> c \in
  {"TOOGLE_MAIN_AUX", "SET_SOLUTION_THRESHOLD", "SEND_SPECIAL_COMMAND",
   "REFRESH_PEER_LIST", "FORCE_NEXT_TICK", "REISSUE_VOTE",
   "GET_MINING_SCORE_RANKING", "SYNC_TIME", "SAVE_SNAPSHOT",
   "GET_EXECUTION_FEE_MULTIPLIER", "GET_VOTE_COUNTER_TX",
   "SET_LOGGING_MODE", "COMP_CHAT", "SET_EXECUTION_FEE_MULTIPLIER"}
  BY SMTT(60), TableDomain DEF DispatchNode

LEMMA DispatchNodeSeeds == SeedTable(DispatchNode)
  BY SeedTables, SeedRows DEF DispatchNode

LEMMA DispatchOracleRows == \A c : c \in DOMAIN DispatchOracle <=> c \in
  {"GET_ORACLE_QUERY", "GET_ORACLE_SUBSCRIPTION", "SEND_ORACLE_QUERY_TX",
   "SEND_ORACLE_CONTRACT_TX"}
  BY SMTT(60), TableDomain DEF DispatchOracle

LEMMA DispatchOracleSeeds == SeedTable(DispatchOracle)
  BY SeedTables, SeedRows DEF DispatchOracle

LEMMA DispatchQutilRows == \A c : c \in DOMAIN DispatchQutil <=> c \in
  {"QUTIL_SEND_TO_MANY_V1", "QUTIL_BURN_QUBIC",
   "QUTIL_BURN_QUBIC_FOR_CONTRACT", "QUTIL_QUERY_FEE_RESERVE",
   "QUTIL_SEND_TO_MANY_BENCHMARK", "QUTIL_CREATE_POLL", "QUTIL_VOTE"}
  BY SMTT(60), TableDomain DEF DispatchQutil

LEMMA DispatchQutilSeeds == SeedTable(DispatchQutil)
  BY SeedTables, SeedRows DEF DispatchQutil

LEMMA DispatchQutilQueriesRows == \A c : c \in DOMAIN DispatchQutilQueries <=> c \in
  {"QUTIL_GET_CURRENT_RESULT", "QUTIL_GET_POLLS_BY_CREATOR",
   "QUTIL_GET_CURRENT_POLL_ID", "QUTIL_PRINT_FEE", "QUTIL_GET_POLL_INFO",
   "QUTIL_CANCEL_POLL", "QUTIL_GET_BALANCES_MANY",
   "QUTIL_TRANSFER_SHARES_TO_MANY_V1",
   "QUTIL_TRANSFER_SHARES_MANAGEMENT_RIGHTS"}
  BY SMTT(60), TableDomain DEF DispatchQutilQueries

LEMMA DispatchQutilQueriesSeeds == SeedTable(DispatchQutilQueries)
  BY SeedTables, SeedRows DEF DispatchQutilQueries

LEMMA DispatchProposalsRows == \A c : c \in DOMAIN DispatchProposals <=> c \in
  {"GQMPROP_SET_PROPOSAL", "CCF_SET_PROPOSAL", "GQMPROP_CLEAR_PROPOSAL",
   "CCF_CLEAR_PROPOSAL", "GQMPROP_GET_PROPOSALS",
   "GQMPROP_GET_VOTING_RESULTS", "CCF_GET_PROPOSALS",
   "CCF_GET_VOTING_RESULTS", "GQMPROP_VOTE", "CCF_VOTE",
   "GQMPROP_GET_VOTE", "CCF_GET_VOTE", "GQMPROP_GET_REV_DONATION",
   "CCF_GET_LATEST_TRANSFERS", "CCF_GET_REGULAR_PAYMENTS",
   "CCF_GET_SUBSCRIPTION"}
  BY SMTT(60), TableDomain DEF DispatchProposals

LEMMA DispatchProposalsSeeds == SeedTable(DispatchProposals)
  BY SeedTables, SeedRows DEF DispatchProposals

LEMMA DispatchQearnQvaultRows == \A c : c \in DOMAIN DispatchQearnQvault <=> c \in
  {"QEARN_LOCK", "QEARN_UNLOCK", "QEARN_GET_INFO_PER_EPOCH",
   "QEARN_GET_STATE_OF_ROUND", "QEARN_GET_USER_LOCKED_INFO",
   "QEARN_GET_USER_LOCK_STATUS", "QEARN_GET_UNLOCKING_STATUS",
   "QEARN_GET_STATS_PER_EPOCH",
   "QEARN_GET_BURNED_AND_BOOSTED_STATS_PER_EPOCH",
   "QEARN_GET_BURNED_AND_BOOSTED_STATS", "QVAULT_GET_DATA",
   "QVAULT_SUBMIT_AUTH_ADDRESS", "QVAULT_SUBMIT_REINVESTING_ADDRESS",
   "QVAULT_CHANGE_REINVESTING_ADDRESS", "QVAULT_SUBMIT_ADMIN_ADDRESS",
   "QVAULT_CHANGE_ADMIN_ADDRESS", "QVAULT_SUBMIT_BANNED_ADDRESS",
   "QVAULT_SAVE_BANNED_ADDRESS", "QVAULT_SUBMIT_UNBANNED_ADDRESS",
   "QVAULT_SAVE_UNBANNED_ADDRESS", "QVAULT_CHANGE_AUTH_ADDRESS",
   "QVAULT_SUBMIT_FEES", "QVAULT_CHANGE_FEES"}
  BY SMTT(60), TableDomain DEF DispatchQearnQvault

LEMMA DispatchQearnQvaultSeeds == SeedTable(DispatchQearnQvault)
<1>1. KindTable(DispatchQearnQvault)
  BY KindTables, KindRows DEF DispatchQearnQvault
<1> QED
  BY <1>1 DEF KindTable, SeedTable, SeedRow

LEMMA DispatchMsvaultRows == \A c : c \in DOMAIN DispatchMsvault <=> c \in
  {"MSVAULT_REGISTER_VAULT_CMD", "MSVAULT_DEPOSIT_CMD",
   "MSVAULT_RELEASE_TO_CMD", "MSVAULT_RESET_RELEASE_CMD",
   "MSVAULT_GET_VAULTS_CMD", "MSVAULT_GET_RELEASE_STATUS_CMD",
   "MSVAULT_GET_BALANCE_OF_CMD", "MSVAULT_GET_VAULT_NAME_CMD",
   "MSVAULT_GET_OWNERS_CMD", "MSVAULT_GET_REVENUE_INFO_CMD",
   "MSVAULT_GET_FEES_CMD", "MSVAULT_GET_FEE_VOTES_CMD",
   "MSVAULT_GET_FEE_VOTES_OWNER_CMD", "MSVAULT_GET_FEE_VOTES_SCORE_CMD",
   "MSVAULT_GET_UNIQUE_FEE_VOTES_CMD",
   "MSVAULT_GET_UNIQUE_FEE_VOTES_RANKING_CMD",
   "MSVAULT_GET_MANAGED_ASSET_BALANCE_CMD",
   "MSVAULT_REVOKE_ASSET_RIGHTS_CMD", "MSVAULT_IS_SHAREHOLDER_CMD",
   "MSVAULT_VOTE_FEE_CHANGE_CMD"}
  BY SMTT(60), TableDomain DEF DispatchMsvault

LEMMA DispatchMsvaultSeeds == SeedTable(DispatchMsvault)
  BY SeedTables, SeedRows DEF DispatchMsvault

LEMMA DispatchQswapRows == \A c : c \in DOMAIN DispatchQswap <=> c \in
  {"PRINT_QSWAP_FEE", "QSWAP_ISSUE_ASSET", "QSWAP_TRANSFER_ASSET",
   "QSWAP_TRANSFER_ASSET_RIGHTS", "QSWAP_CREATE_POOL",
   "QSWAP_ADD_LIQUIDITY", "QSWAP_REMOVE_LIQUIDITY",
   "QSWAP_SWAP_EXACT_QU_FOR_ASSET", "QSWAP_SWAP_EXACT_ASSET_FOR_QU",
   "QSWAP_SWAP_QU_FOR_EXACT_ASSET", "QSWAP_SWAP_ASSET_FOR_EXACT_QU"}
  BY SMTT(60), TableDomain DEF DispatchQswap

LEMMA DispatchQswapSeeds == SeedTable(DispatchQswap)
  BY SeedTables, SeedRows DEF DispatchQswap

LEMMA DispatchQswapQueriesRows == \A c : c \in DOMAIN DispatchQswapQueries <=> c \in
  {"QSWAP_GET_POOL_BASIC", "QSWAP_GET_LIQUIDITY_OF", "QSWAP_QUOTE"}
  BY SMTT(60), TableDomain DEF DispatchQswapQueries

LEMMA DispatchQswapQueriesSeeds == SeedTable(DispatchQswapQueries)
  BY SeedTables, SeedRows DEF DispatchQswapQueries

LEMMA DispatchNostromoRows == \A c : c \in DOMAIN DispatchNostromo <=> c \in
  {"NOSTROMO_REGISTER_IN_TIER", "NOSTROMO_UPGRADE_TIER_LEVEL",
   "NOSTROMO_LOGOUT_FROM_TIER", "NOSTROMO_CREATE_PROJECT",
   "NOSTROMO_VOTE_IN_PROJECT", "NOSTROMO_CREATE_FUNDRAISING",
   "NOSTROMO_INVEST_IN_FUNDRAISING", "NOSTROMO_CLAIM_TOKEN",
   "NOSTROMO_TRANSFER_SHARE_MANAGEMENT_RIGHTS"}
  BY SMTT(60), TableDomain DEF DispatchNostromo

LEMMA DispatchNostromoSeeds == SeedTable(DispatchNostromo)
  BY SeedTables, SeedRows DEF DispatchNostromo

LEMMA DispatchNostromoQueriesRows == \A c : c \in DOMAIN DispatchNostromoQueries <=> c \in
  {"NOSTROMO_GET_STATS", "NOSTROMO_GET_TIER_LEVEL_BY_USER",
   "NOSTROMO_GET_USER_VOTE_STATUS",
   "NOSTROMO_GET_NUMBER_OF_INVESTED_PROJECTS",
   "NOSTROMO_GET_PROJECT_INDEX_LIST_BY_CREATOR",
   "NOSTROMO_GET_INFO_USER_INVESTED", "NOSTROMO_CHECK_TOKEN_CREATABILITY",
   "NOSTROMO_GET_PROJECT_BY_INDEX", "NOSTROMO_GET_FUNDRAISING_BY_INDEX",
   "NOSTROMO_GET_MAX_CLAIM_AMOUNT"}
  BY SMTT(60), TableDomain DEF DispatchNostromoQueries

LEMMA DispatchNostromoQueriesSeeds == SeedTable(DispatchNostromoQueries)
  BY SeedTables, SeedRows DEF DispatchNostromoQueries

LEMMA DispatchMsvaultAssetsRows == \A c : c \in DOMAIN DispatchMsvaultAssets <=> c \in
  {"MSVAULT_DEPOSIT_ASSET_CMD", "MSVAULT_RELEASE_ASSET_TO_CMD",
   "MSVAULT_RESET_ASSET_RELEASE_CMD", "MSVAULT_GET_ASSET_BALANCES_CMD",
   "MSVAULT_GET_ASSET_RELEASE_STATUS_CMD"}
  BY SMTT(60), TableDomain DEF DispatchMsvaultAssets

LEMMA DispatchMsvaultAssetsSeeds == SeedTable(DispatchMsvaultAssets)
  BY SeedTables, SeedRows DEF DispatchMsvaultAssets

LEMMA DispatchQbondRows == \A c : c \in DOMAIN DispatchQbond <=> c \in
  {"QBOND_STAKE_CMD", "QBOND_TRANSFER_CMD", "QBOND_ADD_ASK_ORDER_CMD",
   "QBOND_REMOVE_ASK_ORDER_CMD", "QBOND_ADD_BID_ORDER_CMD",
   "QBOND_REMOVE_BID_ORDER_CMD", "QBOND_BURN_QU_CMD",
   "QBOND_UPDATE_CFA_CMD", "QBOND_GET_FEES_CMD",
   "QBOND_GET_EARNED_FEES_CMD", "QBOND_GET_TABLE_CMD",
   "QBOND_GET_CFA_CMD", "QBOND_GET_EPOCH_INFO_CMD",
   "QBOND_GET_ORDERS_CMD", "QBOND_GET_USER_ORDERS_CMD",
   "QBOND_GET_USER_MBONDS_CMD"}
  BY SMTT(60), TableDomain DEF DispatchQbond

LEMMA DispatchQbondSeeds == SeedTable(DispatchQbond)
  BY SeedTables, SeedRows DEF DispatchQbond

LEMMA DispatchEscrowRows == \A c : c \in DOMAIN DispatchEscrow <=> c \in
  {"ESCROW_CREATE_DEAL_CMD", "ESCROW_GET_DEALS_CMD",
   "ESCROW_ACCEPT_DEAL_CMD", "ESCROW_MAKE_DEAL_PUBLIC_CMD",
   "ESCROW_CANCEL_DEAL_CMD", "ESCROW_TRANSFER_RIGHTS_CMD",
   "ESCROW_GET_FREE_ASSET_CMD"}
  BY SMTT(60), TableDomain DEF DispatchEscrow

LEMMA DispatchEscrowSeeds == SeedTable(DispatchEscrow)
  BY SeedTables, SeedRows DEF DispatchEscrow

LEMMA DispatchShareholdersRows == \A c : c \in DOMAIN DispatchShareholders <=> c \in
  {"SHAREHOLDER_SET_PROPOSAL", "SHAREHOLDER_CLEAR_PROPOSAL",
   "SHAREHOLDER_GET_PROPOSALS", "SHAREHOLDER_GET_VOTING_RESULTS",
   "SHAREHOLDER_VOTE", "SHAREHOLDER_GET_VOTE"}
  BY SMTT(60), TableDomain DEF DispatchShareholders

LEMMA DispatchShareholdersSeeds == SeedTable(DispatchShareholders)
  BY SeedTables, SeedRows DEF DispatchShareholders

LEMMA DispatchTestsRows == \A c : c \in DOMAIN DispatchTests <=> c \in
  {"TEST_QPI_FUNCTIONS_OUTPUT", "TEST_QPI_FUNCTIONS_OUTPUT_PAST",
   "TEST_GET_INCOMING_TRANSFER_AMOUNTS",
   "TEST_BID_IN_IPO_THROUGH_CONTRACT"}
  BY SMTT(60), TableDomain DEF DispatchTests

LEMMA DispatchTestsSeeds == SeedTable(DispatchTests)
  BY SeedTables, SeedRows DEF DispatchTests

LEMMA DispatchSeeds == SeedTable(Dispatch)
  BY SeedTables, DispatchWalletSeeds, DispatchQueriesSeeds, DispatchQxSeeds,
     DispatchFilesSeeds, DispatchQrwaSeeds, DispatchNodeSeeds,
     DispatchOracleSeeds, DispatchQutilSeeds, DispatchQutilQueriesSeeds,
     DispatchProposalsSeeds, DispatchQearnQvaultSeeds, DispatchMsvaultSeeds,
     DispatchQswapSeeds, DispatchQswapQueriesSeeds, DispatchNostromoSeeds,
     DispatchNostromoQueriesSeeds, DispatchMsvaultAssetsSeeds,
     DispatchQbondSeeds, DispatchEscrowSeeds, DispatchShareholdersSeeds,
     DispatchTestsSeeds
     DEF Dispatch

LEMMA DispatchDomain ==
  /\ DOMAIN DispatchWallet \subseteq DOMAIN Dispatch
  /\ DOMAIN DispatchQueries \subseteq DOMAIN Dispatch
  /\ DOMAIN DispatchQx \subseteq DOMAIN Dispatch
  /\ DOMAIN DispatchFiles \subseteq DOMAIN Dispatch
  /\ DOMAIN DispatchQrwa \subseteq DOMAIN Dispatch
  /\ DOMAIN DispatchNode \subseteq DOMAIN Dispatch
  /\ DOMAIN DispatchOracle \subseteq DOMAIN Dispatch
  /\ DOMAIN DispatchQutil \subseteq DOMAIN Dispatch
  /\ DOMAIN DispatchQutilQueries \subseteq DOMAIN Dispatch
  /\ DOMAIN DispatchProposals \subseteq DOMAIN Dispatch
  /\ DOMAIN DispatchQearnQvault \subseteq DOMAIN Dispatch
  /\ DOMAIN DispatchMsvault \subseteq DOMAIN Dispatch
  /\ DOMAIN DispatchQswap \subseteq DOMAIN Dispatch
  /\ DOMAIN DispatchQswapQueries \subseteq DOMAIN Dispatch
  /\ DOMAIN DispatchNostromo \subseteq DOMAIN Dispatch
  /\ DOMAIN DispatchNostromoQueries \subseteq DOMAIN Dispatch
  /\ DOMAIN DispatchMsvaultAssets \subseteq DOMAIN Dispatch
  /\ DOMAIN DispatchQbond \subseteq DOMAIN Dispatch
  /\ DOMAIN DispatchEscrow \subseteq DOMAIN Dispatch
  /\ DOMAIN DispatchShareholders \subseteq DOMAIN Dispatch
  /\ DOMAIN DispatchTests \subseteq DOMAIN Dispatch
  BY SMTT(60), TableDomain DEF Dispatch

-----------------------------------------------------------------------------
(* The blocks of the switch have no command in common: each is found in the *)
(* switch as it stands.                                                     *)
Without(f, h) == \A c \in DOMAIN h : c \notin DOMAIN f
Apart(fs, h) == \A f \in fs : Without(f, h)
Extends(f, h) == \A c \in DOMAIN h : c \in DOMAIN f /\ f[c] = h[c]

LEMMA ExtensionFacts ==
  /\ \A f : Extends(f, f)
  /\ \A f, g, h : Without(f, h) /\ Without(g, h) => Without(f @@ g, h)
  /\ \A f, g, h : Extends(f, h) => Extends(f @@ g, h)
  /\ \A f, g, h : Without(f, h) /\ Extends(g, h) => Extends(f @@ g, h)
<1>1. ASSUME NEW f, NEW g, NEW h
      PROVE  /\ Without(f, h) /\ Without(g, h) => Without(f @@ g, h)
             /\ Extends(f, h) => Extends(f @@ g, h)
             /\ Without(f, h) /\ Extends(g, h) => Extends(f @@ g, h)
  <2>1. f @@ g = Merge(f, g)
    BY MergeFacts
  <2>2. Without(f, h) /\ Without(g, h) => Without(Merge(f, g), h)
    BY MergeFacts DEF Without
  <2>3. Extends(f, h) => Extends(Merge(f, g), h)
    BY DEF Extends, Merge
  <2>4. Without(f, h) /\ Extends(g, h) => Extends(Merge(f, g), h)
    BY DEF Extends, Without, Merge
  <2> QED
    BY <2>1, <2>2, <2>3, <2>4
<1> QED
  BY <1>1 DEF Extends

LEMMA BlocksAreApart ==
  /\ Apart({DispatchWallet}, DispatchQueries)
  /\ Apart({DispatchWallet, DispatchQueries}, DispatchQx)
  /\ Apart({DispatchWallet, DispatchQueries, DispatchQx}, DispatchFiles)
  /\ Apart({DispatchWallet, DispatchQueries, DispatchQx, DispatchFiles}, DispatchQrwa)
  /\ Apart({DispatchWallet, DispatchQueries, DispatchQx, DispatchFiles,
            DispatchQrwa}, DispatchNode)
  /\ Apart({DispatchWallet, DispatchQueries, DispatchQx, DispatchFiles,
            DispatchQrwa, DispatchNode}, DispatchOracle)
  /\ Apart({DispatchWallet, DispatchQueries, DispatchQx, DispatchFiles,
            DispatchQrwa, DispatchNode, DispatchOracle}, DispatchQutil)
  /\ Apart({DispatchWallet, DispatchQueries, DispatchQx, DispatchFiles,
            DispatchQrwa, DispatchNode, DispatchOracle, DispatchQutil}, DispatchQutilQueries)
  /\ Apart({DispatchWallet, DispatchQueries, DispatchQx, DispatchFiles,
            DispatchQrwa, DispatchNode, DispatchOracle, DispatchQutil,
            DispatchQutilQueries}, DispatchProposals)
  /\ Apart({DispatchWallet, DispatchQueries, DispatchQx, DispatchFiles,
            DispatchQrwa, DispatchNode, DispatchOracle, DispatchQutil,
            DispatchQutilQueries, DispatchProposals}, DispatchQearnQvault)
  /\ Apart({DispatchWallet, DispatchQueries, DispatchQx, DispatchFiles,
            DispatchQrwa, DispatchNode, DispatchOracle, DispatchQutil,
            DispatchQutilQueries, DispatchProposals, DispatchQearnQvault}, DispatchMsvault)
  /\ Apart({DispatchWallet, DispatchQueries, DispatchQx, DispatchFiles,
            DispatchQrwa, DispatchNode, DispatchOracle, DispatchQutil,
            DispatchQutilQueries, DispatchProposals, DispatchQearnQvault,
            DispatchMsvault}, DispatchQswap)
  /\ Apart({DispatchWallet, DispatchQueries, DispatchQx, DispatchFiles,
            DispatchQrwa, DispatchNode, DispatchOracle, DispatchQutil,
            DispatchQutilQueries, DispatchProposals, DispatchQearnQvault,
            DispatchMsvault, DispatchQswap}, DispatchQswapQueries)
  /\ Apart({DispatchWallet, DispatchQueries, DispatchQx, DispatchFiles,
            DispatchQrwa, DispatchNode, DispatchOracle, DispatchQutil,
            DispatchQutilQueries, DispatchProposals, DispatchQearnQvault,
            DispatchMsvault, DispatchQswap, DispatchQswapQueries}, DispatchNostromo)
  /\ Apart({DispatchWallet, DispatchQueries, DispatchQx, DispatchFiles,
            DispatchQrwa, DispatchNode, DispatchOracle, DispatchQutil,
            DispatchQutilQueries, DispatchProposals, DispatchQearnQvault,
            DispatchMsvault, DispatchQswap, DispatchQswapQueries, DispatchNostromo},
           DispatchNostromoQueries)
  /\ Apart({DispatchWallet, DispatchQueries, DispatchQx, DispatchFiles,
            DispatchQrwa, DispatchNode, DispatchOracle, DispatchQutil,
            DispatchQutilQueries, DispatchProposals, DispatchQearnQvault,
            DispatchMsvault, DispatchQswap, DispatchQswapQueries,
            DispatchNostromo, DispatchNostromoQueries}, DispatchMsvaultAssets)
  /\ Apart({DispatchWallet, DispatchQueries, DispatchQx, DispatchFiles,
            DispatchQrwa, DispatchNode, DispatchOracle, DispatchQutil,
            DispatchQutilQueries, DispatchProposals, DispatchQearnQvault,
            DispatchMsvault, DispatchQswap, DispatchQswapQueries,
            DispatchNostromo, DispatchNostromoQueries, DispatchMsvaultAssets}, DispatchQbond)
  /\ Apart({DispatchWallet, DispatchQueries, DispatchQx, DispatchFiles,
            DispatchQrwa, DispatchNode, DispatchOracle, DispatchQutil,
            DispatchQutilQueries, DispatchProposals, DispatchQearnQvault,
            DispatchMsvault, DispatchQswap, DispatchQswapQueries,
            DispatchNostromo, DispatchNostromoQueries, DispatchMsvaultAssets,
            DispatchQbond}, DispatchEscrow)
  /\ Apart({DispatchWallet, DispatchQueries, DispatchQx, DispatchFiles,
            DispatchQrwa, DispatchNode, DispatchOracle, DispatchQutil,
            DispatchQutilQueries, DispatchProposals, DispatchQearnQvault,
            DispatchMsvault, DispatchQswap, DispatchQswapQueries,
            DispatchNostromo, DispatchNostromoQueries, DispatchMsvaultAssets,
            DispatchQbond, DispatchEscrow}, DispatchShareholders)
  /\ Apart({DispatchWallet, DispatchQueries, DispatchQx, DispatchFiles,
            DispatchQrwa, DispatchNode, DispatchOracle, DispatchQutil,
            DispatchQutilQueries, DispatchProposals, DispatchQearnQvault,
            DispatchMsvault, DispatchQswap, DispatchQswapQueries,
            DispatchNostromo, DispatchNostromoQueries, DispatchMsvaultAssets,
            DispatchQbond, DispatchEscrow, DispatchShareholders}, DispatchTests)
  BY SMTT(60), DispatchWalletRows, DispatchQueriesRows, DispatchQxRows,
     DispatchFilesRows, DispatchQrwaRows, DispatchNodeRows, DispatchOracleRows,
     DispatchQutilRows, DispatchQutilQueriesRows, DispatchProposalsRows,
     DispatchQearnQvaultRows, DispatchMsvaultRows, DispatchQswapRows,
     DispatchQswapQueriesRows, DispatchNostromoRows, DispatchNostromoQueriesRows,
     DispatchMsvaultAssetsRows, DispatchQbondRows, DispatchEscrowRows,
     DispatchShareholdersRows, DispatchTestsRows
     DEF Apart, Without

LEMMA DispatchHasBlocks ==
  /\ Extends(Dispatch, DispatchWallet)
  /\ Extends(Dispatch, DispatchQueries)
  /\ Extends(Dispatch, DispatchQx)
  /\ Extends(Dispatch, DispatchFiles)
  /\ Extends(Dispatch, DispatchQrwa)
  /\ Extends(Dispatch, DispatchNode)
  /\ Extends(Dispatch, DispatchOracle)
  /\ Extends(Dispatch, DispatchQutil)
  /\ Extends(Dispatch, DispatchQutilQueries)
  /\ Extends(Dispatch, DispatchProposals)
  /\ Extends(Dispatch, DispatchQearnQvault)
  /\ Extends(Dispatch, DispatchMsvault)
  /\ Extends(Dispatch, DispatchQswap)
  /\ Extends(Dispatch, DispatchQswapQueries)
  /\ Extends(Dispatch, DispatchNostromo)
  /\ Extends(Dispatch, DispatchNostromoQueries)
  /\ Extends(Dispatch, DispatchMsvaultAssets)
  /\ Extends(Dispatch, DispatchQbond)
  /\ Extends(Dispatch, DispatchEscrow)
  /\ Extends(Dispatch, DispatchShareholders)
  /\ Extends(Dispatch, DispatchTests)
<1> DEFINE first == DispatchWallet @@ DispatchQueries @@ DispatchQx
                    @@ DispatchFiles @@ DispatchQrwa
                    @@ DispatchNode @@ DispatchOracle
                    @@ DispatchQutil @@ DispatchQutilQueries
                    @@ DispatchProposals
<1>1. /\ Extends(first, DispatchWallet) /\ Extends(first, DispatchQueries)
      /\ Extends(first, DispatchQx) /\ Extends(first, DispatchFiles)
      /\ Extends(first, DispatchQrwa) /\ Extends(first, DispatchNode)
      /\ Extends(first, DispatchOracle) /\ Extends(first, DispatchQutil)
      /\ Extends(first, DispatchQutilQueries) /\ Extends(first, DispatchProposals)
      /\ Without(first, DispatchQearnQvault) /\ Without(first, DispatchMsvault)
      /\ Without(first, DispatchQswap) /\ Without(first, DispatchQswapQueries)
      /\ Without(first, DispatchNostromo) /\ Without(first, DispatchNostromoQueries)
      /\ Without(first, DispatchMsvaultAssets) /\ Without(first, DispatchQbond)
      /\ Without(first, DispatchEscrow) /\ Without(first, DispatchShareholders)
      /\ Without(first, DispatchTests)
  BY SMTT(60), BlocksAreApart, ExtensionFacts DEF Apart
<1>2. Dispatch = first @@ DispatchQearnQvault @@ DispatchMsvault @@ DispatchQswap
                  @@ DispatchQswapQueries @@ DispatchNostromo
                  @@ DispatchNostromoQueries
                  @@ DispatchMsvaultAssets @@ DispatchQbond
                  @@ DispatchEscrow @@ DispatchShareholders
                  @@ DispatchTests
  BY DEF Dispatch
<1> HIDE DEF first
<1> QED
  BY SMTT(60), <1>1, <1>2, BlocksAreApart, ExtensionFacts DEF Apart

(* What the function of a command is handed.                                *)
UsesOf(row) == row.uses
LEMMA UsesFacts == \A checks, uses :
  /\ UsesOf(Sign(checks, uses)) = uses /\ UsesOf(Ask(checks, uses)) = uses
  /\ UsesOf(AskWithSeed(checks, uses)) = uses /\ UsesOf(GetVote(checks, uses)) = uses
  /\ UsesOf(Offline(checks, uses)) = uses /\ UsesOf(OfflineWithSeed(checks, uses)) = uses
  /\ UsesOf(SignUnchecked(checks, uses)) = uses
  BY DEF UsesOf, Call, Sign, Ask, AskWithSeed, GetVote, Offline, OfflineWithSeed, SignUnchecked

Hands(f, c, uses) == c \in DOMAIN f /\ UsesOf(f[c]) = uses

LEMMA HandsFacts ==
  /\ \A f, g, c, u : Hands(f, c, u) => Hands(f @@ g, c, u)
  /\ \A f, g, c, u : c \notin DOMAIN f /\ Hands(g, c, u) => Hands(f @@ g, c, u)
  /\ \A c, row : Hands(c :> row, c, UsesOf(row))
  /\ \A S, c, row : c \in S => Hands(Each(S, row), c, UsesOf(row))
<1>1. ASSUME NEW f, NEW g, NEW c, NEW u
      PROVE  /\ Hands(f, c, u) => Hands(f @@ g, c, u)
             /\ c \notin DOMAIN f /\ Hands(g, c, u) => Hands(f @@ g, c, u)
  <2>1. f @@ g = Merge(f, g)
    BY MergeFacts
  <2>2. /\ Hands(f, c, u) => Hands(Merge(f, g), c, u)
        /\ c \notin DOMAIN f /\ Hands(g, c, u) => Hands(Merge(f, g), c, u)
    BY DEF Hands, Merge
  <2> QED
    BY <2>1, <2>2
<1>2. \A S, c, row : c \in S => Hands(Each(S, row), c, UsesOf(row))
  BY EachFacts DEF Hands
<1>3. ASSUME NEW c, NEW row PROVE Hands(c :> row, c, UsesOf(row))
  <2>1. (c :> row) = Each({c}, row)
    BY EachFacts
  <2> QED
    BY <1>2, <2>1
<1>4. /\ \A f, g, c, u : Hands(f, c, u) => Hands(f @@ g, c, u)
      /\ \A f, g, c, u : c \notin DOMAIN f /\ Hands(g, c, u) => Hands(f @@ g, c, u)
  BY <1>1
<1> QED
  BY <1>2, <1>3, <1>4

LEMMA DispatchWalletHands ==
  /\ \A c \in {"SHOW_KEYS", "GET_CURRENT_TICK", "GET_SYSTEM_INFO"} :
       Hands(DispatchWallet, c, {})
  /\ Hands(DispatchWallet, "GET_REVENUE_DATA", {"dumpBinaryFileOutput"})
  /\ \A c \in {"GET_BALANCE", "GET_ASSET"} :
       Hands(DispatchWallet, c, {"requestedIdentity"})
  /\ \A c \in {"QUERY_ASSETS", "GET_TOTAL_NUMBER_OF_ASSET_SHARES"} :
       Hands(DispatchWallet, c, {"paramString1", "paramString2"})
  /\ Hands(DispatchWallet, "QUTIL_DISTRIBUTE_QU_TO_SHAREHOLDERS",
       {"paramString1", "paramString2", "txAmount"})
  /\ Hands(DispatchWallet, "SEND_COIN", {"targetIdentity", "txAmount", "waitUntilFinish"})
  /\ Hands(DispatchWallet, "SEND_COIN_IN_TICK",
       {"targetIdentity", "txAmount", "txTick", "waitUntilFinish"})
  /\ Hands(DispatchWallet, "SEND_CUSTOM_TX",
       {"targetIdentity", "txType", "txAmount", "txExtraDataSize", "txExtraData"})
  /\ Hands(DispatchWallet, "INVOKE_CONTRACT_PROCEDURE",
       {"contractIndex", "txType", "txAmount", "invokeContractProcedureInputFormat"})
  BY SMTT(60), HandsFacts, UsesFacts, TableDomain DEF DispatchWallet

LEMMA DispatchQueriesHands ==
  /\ Hands(DispatchQueries, "CALL_CONTRACT_FUNCTION",
       {"contractIndex", "contractFunctionNumber", "callContractFunctionInputFormat",
        "callContractFunctionOutputFormat"})
  /\ Hands(DispatchQueries, "GET_TX_INFO", {"requestedTxId"})
  /\ Hands(DispatchQueries, "CHECK_TX_ON_TICK", {"requestedTxId", "requestedTickNumber"})
  /\ Hands(DispatchQueries, "SEND_RAW_PACKET", {"rawPacketSize", "rawPacket"})
  /\ \A c \in {"GET_TICK_DATA", "GET_QUORUM_TICK"} :
       Hands(DispatchQueries, c, {"requestedTickNumber", "requestedFileName"})
  /\ Hands(DispatchQueries, "READ_TICK_DATA", {"requestedFileName", "requestedFileName2"})
  /\ Hands(DispatchQueries, "CHECK_TX_ON_FILE", {"requestedTxId", "requestedFileName"})
  /\ \A c \in {"PUBLISH_PROPOSAL", "VOTE_PROPOSAL"} :
       Hands(DispatchQueries, c, {})
  BY SMTT(60), HandsFacts, UsesFacts, TableDomain DEF DispatchQueries

LEMMA DispatchQxHands ==
  /\ Hands(DispatchQx, "QX_ISSUE_ASSET",
       {"qx_issueAssetName", "qx_issueUnitOfMeasurement", "qx_issueAssetNumberOfUnit",
        "qx_issueAssetNumDecimal"})
  /\ Hands(DispatchQx, "QX_TRANSFER_ASSET",
       {"qx_assetTransferAssetName", "qx_assetTransferIssuerInHex",
        "qx_assetTransferNewOwnerIdentity", "qx_assetTransferAmount"})
  /\ Hands(DispatchQx, "QX_ORDER",
       {"qx_command1", "qx_command2", "qx_assetName", "qx_issuer", "qx_price",
        "qx_numberOfShare"})
  /\ Hands(DispatchQx, "QX_GET_ORDER",
       {"qx_command1", "qx_command2", "qx_issuer", "qx_offset", "qx_assetName"})
  /\ Hands(DispatchQx, "QX_TRANSFER_MANAGEMENT_RIGHTS",
       {"qx_assetName", "qx_issuer", "contractIndex", "qx_numberOfShare"})
  BY SMTT(60), HandsFacts, UsesFacts, TableDomain DEF DispatchQx

LEMMA DispatchFilesHands ==
  /\ Hands(DispatchFiles, "GET_COMP_LIST", {"requestedFileName"})
  /\ \A c \in {"GET_NODE_IP_LIST", "PRINT_QX_FEE", "GET_ACTIVE_IPOS"} :
       Hands(DispatchFiles, c, {})
  /\ Hands(DispatchFiles, "UPLOAD_FILE", {"filePath", "compressTool"})
  /\ Hands(DispatchFiles, "DOWNLOAD_FILE", {"requestedTxId", "filePath", "compressTool"})
  /\ \A c \in {"DUMP_SPECTRUM_FILE", "DUMP_UNIVERSE_FILE"} :
       Hands(DispatchFiles, c, {"dumpBinaryFileInput", "dumpBinaryFileOutput"})
  /\ Hands(DispatchFiles, "DUMP_CONTRACT_FILE",
       {"dumpBinaryFileInput", "dumpBinaryContractId", "dumpBinaryFileOutput"})
  /\ Hands(DispatchFiles, "MAKE_IPO_BID",
       {"IPOContractIndex", "makeIPOBidPricePerShare", "makeIPOBidNumberOfShare"})
  /\ Hands(DispatchFiles, "GET_IPO_STATUS", {"IPOContractIndex"})
  /\ Hands(DispatchFiles, "QUOTTERY_COMMAND",
       {"quottery_subcmd_count", "quottery_subcmd"})
  BY SMTT(60), HandsFacts, UsesFacts, TableDomain DEF DispatchFiles

LEMMA DispatchQrwaHands ==
  /\ \A c \in {"QRWA_PAYOUT_POOL_A", "QRWA_PAYOUT_POOL_B", "QRWA_PAYOUT_POOL_C",
              "QRWA_PAYOUT_POOL_D"} :
       Hands(DispatchQrwa, c, {"qrwa_epoch"})
  /\ Hands(DispatchQrwa, "QRWA_PAYOUT_ADDRESS", {"qrwa_identity", "qrwa_epoch"})
  /\ \A c \in {"QRWA_STATUS", "QRWA_ASSETS", "QRWA_GOV_PARAMS", "QRWA_GOV_POLL_IDS",
              "QRWA_DIVIDENDS", "QRWA_SC_DIVIDENDS"} :
       Hands(DispatchQrwa, c, {})
  /\ Hands(DispatchQrwa, "QRWA_GOV_POLL", {"qrwa_poll_id"})
  /\ Hands(DispatchQrwa, "QRWA_DONATE_TREASURY", {"qrwa_amount"})
  /\ Hands(DispatchQrwa, "QRWA_VOTE_GOV_PARAMS",
       {"qrwa_gov_admin", "qrwa_gov_electricity", "qrwa_gov_maintenance",
        "qrwa_gov_reinvestment", "qrwa_gov_qminedev", "qrwa_gov_electricity_pct",
        "qrwa_gov_maintenance_pct", "qrwa_gov_reinvestment_pct"})
  /\ \A c \in {"QRWA_SET_POOL_A_ADDR", "QRWA_SET_POOL_D_ADDR"} :
       Hands(DispatchQrwa, c, {"qrwa_new_address"})
  /\ Hands(DispatchQrwa, "QRWA_DEPOSIT_ASSET",
       {"qrwa_issuer", "qrwa_asset_name", "qrwa_amount"})
  /\ Hands(DispatchQrwa, "QRWA_REVOKE_ASSET_MGMT",
       {"qrwa_issuer", "qrwa_asset_name", "qrwa_num_shares"})
  BY SMTT(60), HandsFacts, UsesFacts, TableDomain DEF DispatchQrwa

LEMMA DispatchNodeHands ==
  /\ Hands(DispatchNode, "TOOGLE_MAIN_AUX", {"toggleMainAux0", "toggleMainAux1"})
  /\ Hands(DispatchNode, "SET_SOLUTION_THRESHOLD",
       {"setSolutionThresholdEpoch", "setSolutionThresholdValue",
        "setSolutionThresholdAlgo"})
  /\ \A c \in {"SEND_SPECIAL_COMMAND", "REFRESH_PEER_LIST", "FORCE_NEXT_TICK",
              "REISSUE_VOTE"} :
       Hands(DispatchNode, c, {"requestedSpecialCommand"})
  /\ \A c \in {"GET_MINING_SCORE_RANKING", "SYNC_TIME", "SAVE_SNAPSHOT",
              "GET_EXECUTION_FEE_MULTIPLIER"} :
       Hands(DispatchNode, c, {})
  /\ Hands(DispatchNode, "GET_VOTE_COUNTER_TX",
       {"requestedTickNumber", "requestedFileName"})
  /\ Hands(DispatchNode, "SET_LOGGING_MODE", {"loggingMode"})
  /\ Hands(DispatchNode, "COMP_CHAT", {"compChatString"})
  /\ Hands(DispatchNode, "SET_EXECUTION_FEE_MULTIPLIER",
       {"executionFeeMultiplierNumerator", "executionFeeMultiplierDenominator"})
  BY SMTT(60), HandsFacts, UsesFacts, TableDomain DEF DispatchNode

LEMMA DispatchOracleHands ==
  /\ \A c \in {"GET_ORACLE_QUERY", "GET_ORACLE_SUBSCRIPTION"} :
       Hands(DispatchOracle, c, {"paramString1", "paramString2"})
  /\ Hands(DispatchOracle, "SEND_ORACLE_QUERY_TX",
       {"paramString1", "paramString2", "paramString3"})
  /\ Hands(DispatchOracle, "SEND_ORACLE_CONTRACT_TX",
       {"paramString1", "contractIndex", "paramString2", "paramString3"})
  BY SMTT(60), HandsFacts, UsesFacts, TableDomain DEF DispatchOracle

LEMMA DispatchQutilHands ==
  /\ Hands(DispatchQutil, "QUTIL_SEND_TO_MANY_V1", {"qutil_sendToManyV1PayoutListFile"})
  /\ Hands(DispatchQutil, "QUTIL_BURN_QUBIC", {"txAmount"})
  /\ Hands(DispatchQutil, "QUTIL_BURN_QUBIC_FOR_CONTRACT", {"txAmount", "contractIndex"})
  /\ Hands(DispatchQutil, "QUTIL_QUERY_FEE_RESERVE", {"contractIndex"})
  /\ Hands(DispatchQutil, "QUTIL_SEND_TO_MANY_BENCHMARK",
       {"qutil_sendToManyBenchmarkDestinationCount",
        "qutil_sendToManyBenchmarkNumTransfersEach"})
  /\ Hands(DispatchQutil, "QUTIL_CREATE_POLL",
       {"qutil_pollType", "qutil_pollNameStr", "qutil_minAmount", "qutil_githubLinkStr",
        "qutil_semicolonSeparatedAssets"})
  /\ Hands(DispatchQutil, "QUTIL_VOTE",
       {"qutil_votePollId", "qutil_voteAmount", "qutil_voteChosenOption"})
  BY SMTT(60), HandsFacts, UsesFacts, TableDomain DEF DispatchQutil

LEMMA DispatchQutilQueriesHands ==
  /\ Hands(DispatchQutilQueries, "QUTIL_GET_CURRENT_RESULT", {"qutil_getResultPollId"})
  /\ Hands(DispatchQutilQueries, "QUTIL_GET_POLLS_BY_CREATOR",
       {"qutil_getPollsCreatorAddress"})
  /\ \A c \in {"QUTIL_GET_CURRENT_POLL_ID", "QUTIL_PRINT_FEE"} :
       Hands(DispatchQutilQueries, c, {})
  /\ Hands(DispatchQutilQueries, "QUTIL_GET_POLL_INFO", {"qutil_getPollInfoPollId"})
  /\ Hands(DispatchQutilQueries, "QUTIL_CANCEL_POLL", {"qutil_cancelPollId"})
  /\ Hands(DispatchQutilQueries, "QUTIL_GET_BALANCES_MANY", {"qutil_getBalancesManyFile"})
  /\ Hands(DispatchQutilQueries, "QUTIL_TRANSFER_SHARES_TO_MANY_V1",
       {"paramString1", "paramString2", "qutil_transferSharePayoutListFile"})
  /\ Hands(DispatchQutilQueries, "QUTIL_TRANSFER_SHARES_MANAGEMENT_RIGHTS",
       {"qx_assetName", "qx_issuer", "contractIndex", "qx_numberOfShare"})
  BY SMTT(60), HandsFacts, UsesFacts, TableDomain DEF DispatchQutilQueries

LEMMA DispatchProposalsHands ==
  /\ \A c \in {"GQMPROP_SET_PROPOSAL", "CCF_SET_PROPOSAL"} :
       Hands(DispatchProposals, c, {"proposalString", "force"})
  /\ \A c \in {"GQMPROP_CLEAR_PROPOSAL", "CCF_CLEAR_PROPOSAL",
              "GQMPROP_GET_REV_DONATION", "CCF_GET_LATEST_TRANSFERS",
              "CCF_GET_REGULAR_PAYMENTS"} :
       Hands(DispatchProposals, c, {})
  /\ \A c \in {"GQMPROP_GET_PROPOSALS", "GQMPROP_GET_VOTING_RESULTS",
              "CCF_GET_PROPOSALS", "CCF_GET_VOTING_RESULTS"} :
       Hands(DispatchProposals, c, {"proposalString"})
  /\ \A c \in {"GQMPROP_VOTE", "CCF_VOTE"} :
       Hands(DispatchProposals, c, {"proposalString", "voteValueString", "force"})
  /\ \A c \in {"GQMPROP_GET_VOTE", "CCF_GET_VOTE"} :
       Hands(DispatchProposals, c, {"requestedIdentity", "proposalString"})
  /\ Hands(DispatchProposals, "CCF_GET_SUBSCRIPTION", {"ccf_subscriptionDestination"})
  BY SMTT(60), HandsFacts, UsesFacts, TableDomain DEF DispatchProposals

LEMMA DispatchQearnQvaultHands ==
  /\ Hands(DispatchQearnQvault, "QEARN_LOCK", {"qearn_lockAmount"})
  /\ Hands(DispatchQearnQvault, "QEARN_UNLOCK",
       {"qearn_unlockAmount", "qearn_lockedEpoch"})
  /\ \A c \in {"QEARN_GET_INFO_PER_EPOCH", "QEARN_GET_STATE_OF_ROUND"} :
       Hands(DispatchQearnQvault, c, {"qearn_getInfoEpoch"})
  /\ Hands(DispatchQearnQvault, "QEARN_GET_USER_LOCKED_INFO",
       {"requestedIdentity", "qearn_getInfoEpoch"})
  /\ \A c \in {"QEARN_GET_USER_LOCK_STATUS", "QEARN_GET_UNLOCKING_STATUS"} :
       Hands(DispatchQearnQvault, c, {"requestedIdentity"})
  /\ \A c \in {"QEARN_GET_STATS_PER_EPOCH",
              "QEARN_GET_BURNED_AND_BOOSTED_STATS_PER_EPOCH"} :
       Hands(DispatchQearnQvault, c, {"qearn_getStatsEpoch"})
  /\ \A c \in {"QEARN_GET_BURNED_AND_BOOSTED_STATS", "QVAULT_GET_DATA"} :
       Hands(DispatchQearnQvault, c, {})
  /\ \A c \in {"QVAULT_SUBMIT_AUTH_ADDRESS", "QVAULT_SUBMIT_REINVESTING_ADDRESS",
              "QVAULT_CHANGE_REINVESTING_ADDRESS", "QVAULT_SUBMIT_ADMIN_ADDRESS",
              "QVAULT_CHANGE_ADMIN_ADDRESS", "QVAULT_SUBMIT_BANNED_ADDRESS",
              "QVAULT_SAVE_BANNED_ADDRESS", "QVAULT_SUBMIT_UNBANNED_ADDRESS",
              "QVAULT_SAVE_UNBANNED_ADDRESS"} :
       Hands(DispatchQearnQvault, c, {"qvault_identity"})
  /\ Hands(DispatchQearnQvault, "QVAULT_CHANGE_AUTH_ADDRESS",
       {"qvault_numberOfChangedAddress"})
  /\ \A c \in {"QVAULT_SUBMIT_FEES", "QVAULT_CHANGE_FEES"} :
       Hands(DispatchQearnQvault, c, {"qvault_newQCAPHolderFee",
                                      "qvault_newReinvestingFee", "qvault_newDevFee"})
  BY SMTT(60), HandsFacts, UsesFacts, TableDomain DEF DispatchQearnQvault

LEMMA DispatchMsvaultHands ==
  /\ Hands(DispatchMsvault, "MSVAULT_REGISTER_VAULT_CMD",
       {"msvault_requiredApprovals", "msvault_vaultName",
        "msvault_ownersCommaSeparated"})
  /\ Hands(DispatchMsvault, "MSVAULT_DEPOSIT_CMD", {"msvault_id", "txAmount"})
  /\ Hands(DispatchMsvault, "MSVAULT_RELEASE_TO_CMD",
       {"msvault_id", "txAmount", "msvault_destination"})
  /\ \A c \in {"MSVAULT_RESET_RELEASE_CMD", "MSVAULT_GET_RELEASE_STATUS_CMD",
              "MSVAULT_GET_BALANCE_OF_CMD", "MSVAULT_GET_VAULT_NAME_CMD",
              "MSVAULT_GET_OWNERS_CMD"} :
       Hands(DispatchMsvault, c, {"msvault_id"})
  /\ Hands(DispatchMsvault, "MSVAULT_GET_VAULTS_CMD", {"msvault_publicId"})
  /\ \A c \in {"MSVAULT_GET_REVENUE_INFO_CMD", "MSVAULT_GET_FEES_CMD",
              "MSVAULT_GET_FEE_VOTES_CMD", "MSVAULT_GET_FEE_VOTES_OWNER_CMD",
              "MSVAULT_GET_FEE_VOTES_SCORE_CMD", "MSVAULT_GET_UNIQUE_FEE_VOTES_CMD",
              "MSVAULT_GET_UNIQUE_FEE_VOTES_RANKING_CMD"} :
       Hands(DispatchMsvault, c, {})
  /\ Hands(DispatchMsvault, "MSVAULT_GET_MANAGED_ASSET_BALANCE_CMD",
       {"msVaultAssetName", "msVaultIssuer", "msVaultOwner"})
  /\ Hands(DispatchMsvault, "MSVAULT_REVOKE_ASSET_RIGHTS_CMD",
       {"msVaultAssetName", "msVaultIssuer", "txAmount"})
  /\ Hands(DispatchMsvault, "MSVAULT_IS_SHAREHOLDER_CMD", {"msVaultCandidateIdentity"})
  /\ Hands(DispatchMsvault, "MSVAULT_VOTE_FEE_CHANGE_CMD",
       {"msVaultNewRegisteringFee", "msVaultNewReleaseFee", "msVaultNewReleaseResetFee",
        "msVaultNewHoldingFee", "msVaultNewDepositFee"})
  BY SMTT(60), HandsFacts, UsesFacts, TableDomain DEF DispatchMsvault

LEMMA DispatchQswapHands ==
  /\ Hands(DispatchQswap, "PRINT_QSWAP_FEE", {})
  /\ Hands(DispatchQswap, "QSWAP_ISSUE_ASSET",
       {"qswap_issueAssetName", "qswap_issueUnitOfMeasurement",
        "qswap_issueAssetNumberOfUnit", "qswap_issueAssetNumDecimal"})
  /\ Hands(DispatchQswap, "QSWAP_TRANSFER_ASSET",
       {"qswap_assetTransferAssetName", "qswap_assetTransferIssuer",
        "qswap_assetTransferNewOwnerIdentity", "qswap_assetTransferAmount"})
  /\ Hands(DispatchQswap, "QSWAP_TRANSFER_ASSET_RIGHTS",
       {"qswap_assetTransferAssetName", "qswap_assetTransferIssuer",
        "qswap_newContractIndex", "qswap_assetTransferAmount"})
  /\ Hands(DispatchQswap, "QSWAP_CREATE_POOL", {"qswap_assetName", "qswap_issuer"})
  /\ Hands(DispatchQswap, "QSWAP_ADD_LIQUIDITY",
       {"qswap_assetName", "qswap_issuer", "qswap_addLiquidityQuAmount",
        "qswap_addLiquidityAssetAmountDesired", "qswap_liquidityQuAmountMin",
        "qswap_liquidityAssetAmountMin"})
  /\ Hands(DispatchQswap, "QSWAP_REMOVE_LIQUIDITY",
       {"qswap_assetName", "qswap_issuer", "qswap_removeLiquidityBurnLiquidity",
        "qswap_liquidityQuAmountMin", "qswap_liquidityAssetAmountMin"})
  /\ \A c \in {"QSWAP_SWAP_EXACT_QU_FOR_ASSET", "QSWAP_SWAP_EXACT_ASSET_FOR_QU"} :
       Hands(DispatchQswap, c, {"qswap_assetName", "qswap_issuer", "qswap_swapAmountIn",
                                "qswap_swapAmountOutMin"})
  /\ \A c \in {"QSWAP_SWAP_QU_FOR_EXACT_ASSET", "QSWAP_SWAP_ASSET_FOR_EXACT_QU"} :
       Hands(DispatchQswap, c, {"qswap_assetName", "qswap_issuer",
                                "qswap_swapAmountInMax", "qswap_swapAmountOut"})
  BY SMTT(60), HandsFacts, UsesFacts, TableDomain DEF DispatchQswap

LEMMA DispatchQswapQueriesHands ==
  /\ Hands(DispatchQswapQueries, "QSWAP_GET_POOL_BASIC",
       {"qswap_assetName", "qswap_issuer"})
  /\ Hands(DispatchQswapQueries, "QSWAP_GET_LIQUIDITY_OF",
       {"qswap_assetName", "qswap_issuer", "qswap_getLiquidityOfStakerIssuer"})
  /\ Hands(DispatchQswapQueries, "QSWAP_QUOTE",
       {"qswap_command1", "qswap_assetName", "qswap_issuer", "qswap_quoteAmount"})
  BY SMTT(60), HandsFacts, UsesFacts, TableDomain DEF DispatchQswapQueries

LEMMA DispatchNostromoHands ==
  /\ \A c \in {"NOSTROMO_REGISTER_IN_TIER", "NOSTROMO_UPGRADE_TIER_LEVEL"} :
       Hands(DispatchNostromo, c, {"nost_tierLevel"})
  /\ Hands(DispatchNostromo, "NOSTROMO_LOGOUT_FROM_TIER", {})
  /\ Hands(DispatchNostromo, "NOSTROMO_CREATE_PROJECT",
       {"nost_tokenName", "nost_supply", "nost_startYear", "nost_startMonth",
        "nost_startDay", "nost_startHour", "nost_endYear", "nost_endMonth",
        "nost_endDay", "nost_endHour"})
  /\ Hands(DispatchNostromo, "NOSTROMO_VOTE_IN_PROJECT",
       {"nost_indexOfProject", "nost_decision"})
  /\ Hands(DispatchNostromo, "NOSTROMO_CREATE_FUNDRAISING", Named(Fundraising))
  /\ \A c \in {"NOSTROMO_INVEST_IN_FUNDRAISING", "NOSTROMO_CLAIM_TOKEN"} :
       Hands(DispatchNostromo, c, {"nost_indexOfFundraising", "nost_amount"})
  /\ Hands(DispatchNostromo, "NOSTROMO_TRANSFER_SHARE_MANAGEMENT_RIGHTS",
       {"nost_identity", "nost_tokenName", "nost_numberOfShare",
        "nost_newManagementContractIndex"})
  BY SMTT(60), HandsFacts, UsesFacts, TableDomain DEF DispatchNostromo

LEMMA DispatchNostromoQueriesHands ==
  /\ Hands(DispatchNostromoQueries, "NOSTROMO_GET_STATS", {})
  /\ \A c \in {"NOSTROMO_GET_TIER_LEVEL_BY_USER", "NOSTROMO_GET_USER_VOTE_STATUS",
              "NOSTROMO_GET_NUMBER_OF_INVESTED_PROJECTS",
              "NOSTROMO_GET_PROJECT_INDEX_LIST_BY_CREATOR",
              "NOSTROMO_GET_INFO_USER_INVESTED"} :
       Hands(DispatchNostromoQueries, c, {"nost_identity"})
  /\ Hands(DispatchNostromoQueries, "NOSTROMO_CHECK_TOKEN_CREATABILITY",
       {"nost_tokenName"})
  /\ Hands(DispatchNostromoQueries, "NOSTROMO_GET_PROJECT_BY_INDEX",
       {"nost_indexOfProject"})
  /\ Hands(DispatchNostromoQueries, "NOSTROMO_GET_FUNDRAISING_BY_INDEX",
       {"nost_indexOfFundraising"})
  /\ Hands(DispatchNostromoQueries, "NOSTROMO_GET_MAX_CLAIM_AMOUNT",
       {"nost_identity", "nost_indexOfFundraising"})
  BY SMTT(60), HandsFacts, UsesFacts, TableDomain DEF DispatchNostromoQueries

LEMMA DispatchMsvaultAssetsHands ==
  /\ Hands(DispatchMsvaultAssets, "MSVAULT_DEPOSIT_ASSET_CMD",
       {"msvault_id", "msVaultAssetName", "msVaultIssuer", "txAmount"})
  /\ Hands(DispatchMsvaultAssets, "MSVAULT_RELEASE_ASSET_TO_CMD",
       {"msvault_id", "msVaultAssetName", "msVaultIssuer", "txAmount",
        "msvault_destination"})
  /\ \A c \in {"MSVAULT_RESET_ASSET_RELEASE_CMD", "MSVAULT_GET_ASSET_BALANCES_CMD",
              "MSVAULT_GET_ASSET_RELEASE_STATUS_CMD"} :
       Hands(DispatchMsvaultAssets, c, {"msvault_id"})
  BY SMTT(60), HandsFacts, UsesFacts, TableDomain DEF DispatchMsvaultAssets

LEMMA DispatchQbondHands ==
  /\ Hands(DispatchQbond, "QBOND_STAKE_CMD", {"qbond_millionsOfQu"})
  /\ Hands(DispatchQbond, "QBOND_TRANSFER_CMD",
       {"qbond_targetIdentity", "qbond_epoch", "qbond_mbondsAmount"})
  /\ \A c \in {"QBOND_ADD_ASK_ORDER_CMD", "QBOND_REMOVE_ASK_ORDER_CMD",
              "QBOND_ADD_BID_ORDER_CMD", "QBOND_REMOVE_BID_ORDER_CMD"} :
       Hands(DispatchQbond, c, {"qbond_epoch", "qbond_mbondPrice", "qbond_mbondsAmount"})
  /\ Hands(DispatchQbond, "QBOND_BURN_QU_CMD", {"qbond_burnAmount"})
  /\ Hands(DispatchQbond, "QBOND_UPDATE_CFA_CMD",
       {"qbond_targetIdentity", "qbond_updateCFAOperation"})
  /\ \A c \in {"QBOND_GET_FEES_CMD", "QBOND_GET_EARNED_FEES_CMD",
              "QBOND_GET_TABLE_CMD", "QBOND_GET_CFA_CMD"} :
       Hands(DispatchQbond, c, {})
  /\ Hands(DispatchQbond, "QBOND_GET_EPOCH_INFO_CMD", {"qbond_epoch"})
  /\ Hands(DispatchQbond, "QBOND_GET_ORDERS_CMD",
       {"qbond_epoch", "qbond_asksOffset", "qbond_bidsOffset"})
  /\ Hands(DispatchQbond, "QBOND_GET_USER_ORDERS_CMD",
       {"qbond_owner", "qbond_asksOffset", "qbond_bidsOffset"})
  /\ Hands(DispatchQbond, "QBOND_GET_USER_MBONDS_CMD", {"qbond_owner"})
  BY SMTT(60), HandsFacts, UsesFacts, TableDomain DEF DispatchQbond

LEMMA DispatchEscrowHands ==
  /\ Hands(DispatchEscrow, "ESCROW_CREATE_DEAL_CMD",
       {"escrowAcceptorId", "escrow_offeredAssetsCommaSeparated",
        "escrow_requestedAssetsCommaSeparated"})
  /\ Hands(DispatchEscrow, "ESCROW_GET_DEALS_CMD",
       {"escrow_proposedOffset", "escrow_publicOffset"})
  /\ \A c \in {"ESCROW_ACCEPT_DEAL_CMD", "ESCROW_MAKE_DEAL_PUBLIC_CMD",
              "ESCROW_CANCEL_DEAL_CMD"} :
       Hands(DispatchEscrow, c, {"escrow_dealIndex"})
  /\ Hands(DispatchEscrow, "ESCROW_TRANSFER_RIGHTS_CMD",
       {"escrow_assetName", "escrow_issuer", "contractIndex", "escrow_amount"})
  /\ Hands(DispatchEscrow, "ESCROW_GET_FREE_ASSET_CMD",
       {"escrow_assetName", "escrow_issuer"})
  BY SMTT(60), HandsFacts, UsesFacts, TableDomain DEF DispatchEscrow

LEMMA DispatchShareholdersHands ==
  /\ Hands(DispatchShareholders, "SHAREHOLDER_SET_PROPOSAL",
       {"contractIndex", "proposalString", "force"})
  /\ Hands(DispatchShareholders, "SHAREHOLDER_CLEAR_PROPOSAL", {"contractIndex"})
  /\ \A c \in {"SHAREHOLDER_GET_PROPOSALS", "SHAREHOLDER_GET_VOTING_RESULTS"} :
       Hands(DispatchShareholders, c, {"contractIndex", "proposalString"})
  /\ Hands(DispatchShareholders, "SHAREHOLDER_VOTE",
       {"contractIndex", "proposalString", "voteValueString", "force"})
  /\ Hands(DispatchShareholders, "SHAREHOLDER_GET_VOTE",
       {"requestedIdentity", "contractIndex", "proposalString"})
  BY SMTT(60), HandsFacts, UsesFacts, TableDomain DEF DispatchShareholders

LEMMA DispatchTestsHands ==
  /\ \A c \in {"TEST_QPI_FUNCTIONS_OUTPUT", "TEST_QPI_FUNCTIONS_OUTPUT_PAST"} :
       Hands(DispatchTests, c, {})
  /\ Hands(DispatchTests, "TEST_GET_INCOMING_TRANSFER_AMOUNTS", {"paramString1"})
  /\ Hands(DispatchTests, "TEST_BID_IN_IPO_THROUGH_CONTRACT",
       {"paramString1", "IPOContractIndex", "makeIPOBidPricePerShare",
        "makeIPOBidNumberOfShare"})
  BY SMTT(60), HandsFacts, UsesFacts, TableDomain DEF DispatchTests

-----------------------------------------------------------------------------
(* The blocks of parseArgument.                                             *)
(* A contract is parsed as one, and an amount keeps its width.              *)
Traced == Amounts \cup {"contractIndex"}
Located(p) == p.global = "contractIndex" => p.kind = "contract"
Exact(p) == Located(p) /\ (p.global \in Amounts => p.kind \in {"num", "text"})

IsList(s) == s \in Seq({s[i] : i \in DOMAIN s})
AllExact(s) == IsList(s) /\ \A i \in DOMAIN s : Exact(s[i])
RowOk(row) ==
  /\ row.command \in DOMAIN Dispatch
  /\ IsList(row.params) /\ \A i \in DOMAIN row.params : Located(row.params[i])
  /\ row.command = "SEND_COIN_IN_TICK" \/ AllExact(row.params)
  /\ row.checked \in Nat
  /\ row.form = "payout" => Len(row.params) = 2 /\ row.command # "SEND_COIN_IN_TICK"
  /\ row.form = "poll" => Len(row.params) = 5
  /\ row.form = "fixed" => Named(row.params) \cap Traced = {}
TableOk(f) == \A o \in DOMAIN f : RowOk(f[o])

LEMMA ParamFacts ==
  /\ \A g : g # "contractIndex" => Exact(Text(g)) /\ Exact(Num(g))
  /\ \A g : g \notin Amounts => Exact(Contract(g))
  /\ \A g : g \notin Traced =>
       /\ Exact(U32(g)) /\ Exact(U16(g)) /\ Exact(U8(g))
       /\ Exact(I32(g)) /\ Exact(I8(g)) /\ Exact(Flag(g))
<1>1. ASSUME NEW g PROVE
        /\ Text(g) = Param("text", g) /\ Num(g) = Param("num", g)
        /\ Contract(g) = Param("contract", g)
        /\ U32(g) = Param("u32", g) /\ U16(g) = Param("u16", g) /\ U8(g) = Param("u8", g)
        /\ I32(g) = Param("i32", g) /\ I8(g) = Param("i8", g) /\ Flag(g) = Param("flag", g)
  BY DEF Text, Num, Contract, U32, U16, U8, I32, I8, Flag
<1>2. ASSUME NEW k, NEW g, g = "contractIndex" => k = "contract",
             g \in Amounts => k \in {"num", "text"}
      PROVE  Exact(Param(k, g))
  BY <1>2 DEF Exact, Located, Param
<1>3. ASSUME NEW g, g # "contractIndex" PROVE Exact(Text(g)) /\ Exact(Num(g))
  BY <1>1, <1>2, <1>3
<1>4. ASSUME NEW g, g \notin Amounts PROVE Exact(Contract(g))
  BY <1>1, <1>2, <1>4
<1>5. ASSUME NEW g, g \notin Traced
      PROVE  /\ Exact(U32(g)) /\ Exact(U16(g)) /\ Exact(U8(g))
             /\ Exact(I32(g)) /\ Exact(I8(g)) /\ Exact(Flag(g))
  BY <1>1, <1>2, <1>5 DEF Traced
<1> QED
  BY <1>3, <1>4, <1>5

LEMMA ListFacts ==
  ASSUME NEW S, NEW s \in Seq(S), \A x \in S : Exact(x)
  PROVE  AllExact(s)
<1>1. s \in Seq({s[i] : i \in DOMAIN s})
  OBVIOUS
<1>2. \A i \in DOMAIN s : s[i] \in S
  OBVIOUS
<1> QED
  BY <1>1, <1>2 DEF AllExact, IsList

(* Lists of up to six words, and the longer ones that options take.         *)
LEMMA ListsOfWords ==
  /\ AllExact(<<>>)
  /\ \A a : Exact(a) => AllExact(<<a>>)
  /\ \A a, b : Exact(a) /\ Exact(b) => AllExact(<<a, b>>)
  /\ \A a, b, c : Exact(a) /\ Exact(b) /\ Exact(c) => AllExact(<<a, b, c>>)
  /\ \A a, b, c, d : Exact(a) /\ Exact(b) /\ Exact(c) /\ Exact(d) => AllExact(<<a, b, c, d>>)
  /\ \A a, b, c, d, e : Exact(a) /\ Exact(b) /\ Exact(c) /\ Exact(d) /\ Exact(e)
                          => AllExact(<<a, b, c, d, e>>)
  BY DEF AllExact, IsList

LEMMA SixWords ==
  \A a, b, c, d, e, f :
    Exact(a) /\ Exact(b) /\ Exact(c) /\ Exact(d) /\ Exact(e) /\ Exact(f)
      => AllExact(<<a, b, c, d, e, f>>)
  BY DEF AllExact, IsList

LEMMA EightWords ==
  ASSUME NEW a, NEW b, NEW c, NEW d, NEW e, NEW f, NEW g, NEW h,
         Exact(a), Exact(b), Exact(c), Exact(d),
         Exact(e), Exact(f), Exact(g), Exact(h)
  PROVE  AllExact(<<a, b, c, d, e, f, g, h>>)
<1> DEFINE S == {a, b, c, d, e, f, g, h}
<1>1. <<a, b, c, d, e, f, g, h>> \in Seq(S) /\ \A x \in S : Exact(x)
  OBVIOUS
<1> HIDE DEF S
<1> QED
  BY <1>1, ListFacts

LEMMA TenWords ==
  ASSUME NEW a, NEW b, NEW c, NEW d, NEW e, NEW f, NEW g, NEW h, NEW i, NEW j,
         Exact(a), Exact(b), Exact(c), Exact(d), Exact(e),
         Exact(f), Exact(g), Exact(h), Exact(i), Exact(j)
  PROVE  AllExact(<<a, b, c, d, e, f, g, h, i, j>>)
<1> DEFINE S == {a, b, c, d, e, f, g, h, i, j}
<1>1. <<a, b, c, d, e, f, g, h, i, j>> \in Seq(S) /\ \A x \in S : Exact(x)
  OBVIOUS
<1> HIDE DEF S
<1> QED
  BY <1>1, ListFacts

LEMMA JoinedLists == \A s, t : AllExact(s) /\ AllExact(t) => AllExact(s \o t)
<1> SUFFICES ASSUME NEW s, NEW t, AllExact(s), AllExact(t) PROVE AllExact(s \o t)
  OBVIOUS
<1> DEFINE S == {s[i] : i \in DOMAIN s} \cup {t[i] : i \in DOMAIN t}
<1>1. s \in Seq(S) /\ t \in Seq(S)
  BY DEF AllExact, IsList
<1>2. \A x \in S : Exact(x)
  BY DEF AllExact
<1>3. s \o t \in Seq(S)
  BY <1>1
<1> HIDE DEF S
<1> QED
  BY <1>2, <1>3, ListFacts

LEMMA RowFacts ==
  \A cmd \in DOMAIN Dispatch :
    /\ \A params : AllExact(params) =>
         /\ RowOk(Takes(cmd, params))
         /\ \A n \in Nat : RowOk(TakesUpTo(cmd, n, params)) /\ RowOk(Underchecked(cmd, n, params))
    /\ RowOk(Alone(cmd)) /\ RowOk(TakesAll(cmd))
    /\ \A g : g \notin Traced => RowOk(Fixed(cmd, g))
<1> SUFFICES ASSUME NEW cmd \in DOMAIN Dispatch
             PROVE  /\ \A params : AllExact(params) =>
                         /\ RowOk(Takes(cmd, params))
                         /\ \A n \in Nat : /\ RowOk(TakesUpTo(cmd, n, params))
                                          /\ RowOk(Underchecked(cmd, n, params))
                    /\ RowOk(Alone(cmd)) /\ RowOk(TakesAll(cmd))
                    /\ \A g : g \notin Traced => RowOk(Fixed(cmd, g))
  OBVIOUS
<1>1. ASSUME NEW form \in {"takes", "upto", "all"}, NEW n \in Nat, NEW s, AllExact(s)
      PROVE  RowOk(Row(form, cmd, n, s))
  BY <1>1 DEF RowOk, AllExact, Exact, Row
<1>2. AllExact(<<>>)
  BY ListsOfWords
<1>3. ASSUME NEW params, AllExact(params)
      PROVE  /\ RowOk(Takes(cmd, params))
             /\ \A n \in Nat : RowOk(TakesUpTo(cmd, n, params)) /\ RowOk(Underchecked(cmd, n, params))
  <2>1. Len(params) \in Nat
    BY <1>3 DEF AllExact, IsList
  <2> QED
    BY <1>1, <1>3, <2>1 DEF Takes, TakesUpTo, Underchecked
<1>4. RowOk(Alone(cmd)) /\ RowOk(TakesAll(cmd))
  <2>1. Len(<<>>) \in Nat /\ 0 \in Nat
    OBVIOUS
  <2> QED
    BY <1>1, <1>2, <2>1 DEF Takes, Alone, TakesAll
<1>5. ASSUME NEW g, g \notin Traced PROVE RowOk(Fixed(cmd, g))
  <2>1. AllExact(<<Num(g)>>)
    BY <1>5, ParamFacts, ListsOfWords DEF Traced
  <2>2. Named(<<Num(g)>>) \cap Traced = {}
    BY <1>5 DEF Named, Num, Param
  <2> QED
    BY <2>1, <2>2 DEF RowOk, AllExact, Exact, Row, Fixed
<1> QED
  BY <1>3, <1>4, <1>5

LEMMA TableFacts ==
  /\ \A f, g : TableOk(f) /\ TableOk(g) => TableOk(f @@ g)
  /\ \A o, row : RowOk(row) => TableOk(o :> row)
<1>1. ASSUME NEW f, NEW g, TableOk(f), TableOk(g) PROVE TableOk(f @@ g)
  <2>1. f @@ g = Merge(f, g)
    BY MergeFacts
  <2>2. TableOk(Merge(f, g))
    BY <1>1, MergeFacts DEF TableOk
  <2> QED
    BY <2>1, <2>2
<1>2. ASSUME NEW o, NEW row, RowOk(row) PROVE TableOk(o :> row)
  BY <1>2, EachFacts DEF TableOk
<1> QED
  BY <1>1, <1>2

(* The rows with a form of their own.                                       *)
LEMMA SendInTickRow ==
  RowOk(Takes("SEND_COIN_IN_TICK", <<Text("targetIdentity"), U32("txAmount"), U32("txTick")>>))
<1>1. "SEND_COIN_IN_TICK" \in DOMAIN Dispatch
  BY DispatchWalletRows, DispatchDomain
<1> QED
  BY <1>1 DEF RowOk, IsList, Located, Takes, Row, Text, U32, Param

LEMMA PayoutRow == RowOk(Payout)
<1>1. "QRWA_PAYOUT_ADDRESS" \in DOMAIN Dispatch
  BY DispatchQrwaRows, DispatchDomain
<1>2. AllExact(<<Text("qrwa_identity"), I32("qrwa_epoch")>>)
  BY ParamFacts, ListsOfWords DEF Traced, Amounts
<1> QED
  BY <1>1, <1>2 DEF RowOk, AllExact, Exact, Payout, Row

LEMMA CreatePollRow == RowOk(CreatePoll)
<1>1. "QUTIL_CREATE_POLL" \in DOMAIN Dispatch
  BY DispatchQutilRows, DispatchDomain
<1> DEFINE words == <<Text("qutil_pollNameStr"), Num("qutil_pollType"), Num("qutil_minAmount"),
                      Text("qutil_githubLinkStr"), Text("qutil_semicolonSeparatedAssets")>>
<1>2. AllExact(words)
  BY ParamFacts, ListsOfWords DEF Traced, Amounts
<1>3. Len(words) = 5
  OBVIOUS
<1> QED
  BY <1>1, <1>2, <1>3 DEF RowOk, AllExact, Exact, CreatePoll, Row

LEMMA MsvaultAssetCommands ==
  {"MSVAULT_DEPOSIT_ASSET_CMD", "MSVAULT_RELEASE_ASSET_TO_CMD",
   "MSVAULT_RESET_ASSET_RELEASE_CMD", "MSVAULT_GET_ASSET_BALANCES_CMD",
   "MSVAULT_GET_ASSET_RELEASE_STATUS_CMD",
   "MSVAULT_GET_MANAGED_ASSET_BALANCE_CMD",
   "MSVAULT_REVOKE_ASSET_RIGHTS_CMD", "MSVAULT_IS_SHAREHOLDER_CMD",
   "MSVAULT_VOTE_FEE_CHANGE_CMD", "MSVAULT_GET_FEE_VOTES_CMD",
   "MSVAULT_GET_FEE_VOTES_OWNER_CMD", "MSVAULT_GET_FEE_VOTES_SCORE_CMD",
   "MSVAULT_GET_UNIQUE_FEE_VOTES_CMD",
   "MSVAULT_GET_UNIQUE_FEE_VOTES_RANKING_CMD"}
    \subseteq DOMAIN Dispatch
  BY DispatchMsvaultRows, DispatchMsvaultAssetsRows, DispatchDomain

LEMMA MsvaultAssetLongRows ==
  /\ RowOk(Takes("MSVAULT_DEPOSIT_ASSET_CMD", <<
       Num("msvault_id"), Text("msVaultAssetName"), Text("msVaultIssuer"), Num("txAmount")>>))
  /\ RowOk(Takes("MSVAULT_RELEASE_ASSET_TO_CMD", <<
       Num("msvault_id"), Text("msVaultAssetName"), Text("msVaultIssuer"), Num("txAmount"),
       Text("msvault_destination")>>))
  /\ RowOk(Takes("MSVAULT_GET_MANAGED_ASSET_BALANCE_CMD", <<
       Text("msVaultAssetName"), Text("msVaultIssuer"), Text("msVaultOwner")>>))
  /\ RowOk(Takes("MSVAULT_REVOKE_ASSET_RIGHTS_CMD", <<
       Text("msVaultAssetName"), Text("msVaultIssuer"), Num("txAmount")>>))
  /\ RowOk(Takes("MSVAULT_VOTE_FEE_CHANGE_CMD", <<
       Num("msVaultNewRegisteringFee"), Num("msVaultNewReleaseFee"),
       Num("msVaultNewReleaseResetFee"), Num("msVaultNewHoldingFee"),
       Num("msVaultNewDepositFee")>>))
  BY RowFacts, MsvaultAssetCommands, ParamFacts, ListsOfWords DEF Traced, Amounts

LEMMA FundraisingOk == AllExact(Fundraising)
  BY ZenonT(120), ParamFacts, ListsOfWords, JoinedLists DEF Fundraising, Date, Traced, Amounts

LEMMA WalletOptionsOk == TableOk(WalletOptions)
  BY ZenonT(120), TableFacts, RowFacts, SendInTickRow, ParamFacts, ListsOfWords,
     DispatchDomain, DispatchWalletRows
     DEF WalletOptions, Traced, Amounts

LEMMA QueryOptionsOk == TableOk(QueryOptions)
  BY ZenonT(120), TableFacts, RowFacts, ParamFacts, ListsOfWords, DispatchDomain,
     DispatchFilesRows, DispatchNodeRows, DispatchQueriesRows
     DEF QueryOptions, Traced, Amounts

LEMMA ProtocolOptionsOk == TableOk(ProtocolOptions)
  BY ZenonT(120), TableFacts, RowFacts, ParamFacts, ListsOfWords, DispatchDomain,
     DispatchFilesRows, DispatchQueriesRows, DispatchWalletRows
     DEF ProtocolOptions, Traced, Amounts

LEMMA NodeCommands ==
  {"GET_SYSTEM_INFO", "GET_REVENUE_DATA", "GET_CURRENT_TICK",
   "SEND_SPECIAL_COMMAND", "TOOGLE_MAIN_AUX", "SET_SOLUTION_THRESHOLD",
   "REFRESH_PEER_LIST", "FORCE_NEXT_TICK", "REISSUE_VOTE", "SYNC_TIME",
   "SAVE_SNAPSHOT", "SEND_RAW_PACKET", "GET_MINING_SCORE_RANKING",
   "SET_LOGGING_MODE", "COMP_CHAT", "SET_EXECUTION_FEE_MULTIPLIER",
   "GET_EXECUTION_FEE_MULTIPLIER"}
    \subseteq DOMAIN Dispatch
  BY DispatchNodeRows, DispatchWalletRows, DispatchQueriesRows, DispatchDomain

LEMMA NodeOptionsOk == TableOk(NodeOptions)
  BY ZenonT(150), TableFacts, RowFacts, ParamFacts, ListsOfWords, NodeCommands
     DEF NodeOptions, Traced, Amounts

LEMMA OracleOptionsOk == TableOk(OracleOptions)
  BY ZenonT(120), TableFacts, RowFacts, ParamFacts, ListsOfWords, DispatchDomain,
     DispatchOracleRows
     DEF OracleOptions, Traced, Amounts

LEMMA QrwaOptionsOk == TableOk(QrwaOptions)
  BY ZenonT(120), TableFacts, RowFacts, PayoutRow, ParamFacts, ListsOfWords, EightWords,
     DispatchDomain, DispatchQrwaRows
     DEF QrwaOptions, Traced, Amounts

LEMMA QxOptionsOk == TableOk(QxOptions)
  BY ZenonT(120), TableFacts, RowFacts, ParamFacts, ListsOfWords, SixWords, DispatchDomain,
     DispatchFilesRows, DispatchQxRows
     DEF QxOptions, Traced, Amounts

LEMMA QswapPoolOptionsOk == TableOk(QswapPoolOptions)
  BY ZenonT(120), TableFacts, RowFacts, ParamFacts, ListsOfWords, SixWords, DispatchDomain,
     DispatchQswapRows, DispatchQswapQueriesRows
     DEF QswapPoolOptions, Traced, Amounts

LEMMA QswapSwapOptionsOk == TableOk(QswapSwapOptions)
  BY ZenonT(120), TableFacts, RowFacts, ParamFacts, ListsOfWords, DispatchDomain,
     DispatchQswapRows, DispatchQswapQueriesRows
     DEF QswapSwapOptions, Traced, Amounts

LEMMA QuotteryOptionsOk == TableOk(QuotteryOptions)
  BY ZenonT(120), TableFacts, RowFacts, ParamFacts, ListsOfWords, DispatchDomain,
     DispatchFilesRows
     DEF QuotteryOptions, Traced, Amounts

LEMMA QutilOptionsOk == TableOk(QutilOptions)
  BY ZenonT(120), TableFacts, RowFacts, CreatePollRow, ParamFacts, ListsOfWords,
     DispatchDomain, DispatchQutilRows
     DEF QutilOptions, Traced, Amounts

LEMMA QutilQueryOptionsOk == TableOk(QutilQueryOptions)
  BY ZenonT(120), TableFacts, RowFacts, ParamFacts, ListsOfWords, DispatchDomain,
     DispatchQutilQueriesRows
     DEF QutilQueryOptions, Traced, Amounts

LEMMA GqmpropOptionsOk == TableOk(GqmpropOptions)
  BY ZenonT(120), TableFacts, RowFacts, ParamFacts, ListsOfWords, DispatchDomain,
     DispatchProposalsRows
     DEF GqmpropOptions, Traced, Amounts

LEMMA CcfOptionsOk == TableOk(CcfOptions)
  BY ZenonT(120), TableFacts, RowFacts, ParamFacts, ListsOfWords, DispatchDomain,
     DispatchProposalsRows
     DEF CcfOptions, Traced, Amounts

LEMMA QearnOptionsOk == TableOk(QearnOptions)
  BY ZenonT(120), TableFacts, RowFacts, ParamFacts, ListsOfWords, DispatchDomain,
     DispatchQearnQvaultRows
     DEF QearnOptions, Traced, Amounts

LEMMA QvaultOptionsOk == TableOk(QvaultOptions)
  BY ZenonT(120), TableFacts, RowFacts, ParamFacts, ListsOfWords, DispatchDomain,
     DispatchQearnQvaultRows
     DEF QvaultOptions, Traced, Amounts

LEMMA MsvaultOptionsOk == TableOk(MsvaultOptions)
  BY ZenonT(120), TableFacts, RowFacts, ParamFacts, ListsOfWords, DispatchDomain,
     DispatchMsvaultRows
     DEF MsvaultOptions, Traced, Amounts

LEMMA MsvaultAssetOptionsOk == TableOk(MsvaultAssetOptions)
  BY ZenonT(120), TableFacts, RowFacts, MsvaultAssetLongRows, MsvaultAssetCommands,
     ParamFacts, ListsOfWords
     DEF MsvaultAssetOptions, Traced, Amounts

LEMMA NostromoOptionsOk == TableOk(NostromoOptions)
  BY ZenonT(120), TableFacts, RowFacts, FundraisingOk, ParamFacts, ListsOfWords, TenWords,
     DispatchDomain, DispatchNostromoRows
     DEF NostromoOptions, Traced, Amounts

LEMMA NostromoQueryOptionsOk == TableOk(NostromoQueryOptions)
  BY ZenonT(120), TableFacts, RowFacts, ParamFacts, ListsOfWords, DispatchDomain,
     DispatchNostromoQueriesRows
     DEF NostromoQueryOptions, Traced, Amounts

LEMMA QbondOptionsOk == TableOk(QbondOptions)
  BY ZenonT(120), TableFacts, RowFacts, ParamFacts, ListsOfWords, DispatchDomain,
     DispatchQbondRows
     DEF QbondOptions, Traced, Amounts

LEMMA QbondQueryOptionsOk == TableOk(QbondQueryOptions)
  BY ZenonT(120), TableFacts, RowFacts, ParamFacts, ListsOfWords, DispatchDomain,
     DispatchQbondRows
     DEF QbondQueryOptions, Traced, Amounts

LEMMA EscrowOptionsOk == TableOk(EscrowOptions)
  BY ZenonT(120), TableFacts, RowFacts, ParamFacts, ListsOfWords, DispatchDomain,
     DispatchEscrowRows
     DEF EscrowOptions, Traced, Amounts

LEMMA ShareholderOptionsOk == TableOk(ShareholderOptions)
  BY ZenonT(120), TableFacts, RowFacts, ParamFacts, ListsOfWords, DispatchDomain,
     DispatchShareholdersRows
     DEF ShareholderOptions, Traced, Amounts

LEMMA TestOptionsOk == TableOk(TestOptions)
  BY ZenonT(120), TableFacts, RowFacts, ParamFacts, ListsOfWords, DispatchDomain,
     DispatchTestsRows
     DEF TestOptions, Traced, Amounts

LEMMA OptionsOk == TableOk(Options)
  BY TableFacts, WalletOptionsOk, QueryOptionsOk, ProtocolOptionsOk, NodeOptionsOk,
     OracleOptionsOk, QrwaOptionsOk, QxOptionsOk, QswapPoolOptionsOk,
     QswapSwapOptionsOk, QuotteryOptionsOk, QutilOptionsOk,
     QutilQueryOptionsOk, GqmpropOptionsOk, CcfOptionsOk, QearnOptionsOk,
     QvaultOptionsOk, MsvaultOptionsOk, MsvaultAssetOptionsOk,
     NostromoOptionsOk, NostromoQueryOptionsOk, QbondOptionsOk,
     QbondQueryOptionsOk, EscrowOptionsOk, ShareholderOptionsOk, TestOptionsOk
     DEF Options

-----------------------------------------------------------------------------
(* What a block has read is what the function of its command is handed.     *)
Uses(c) == Dispatch[c].uses
Given(c, names) ==
  /\ Uses(c) \ {"force", "waitUntilFinish"} \subseteq names \cup Optional
  /\ names \subseteq Uses(c) \cup {"requestedSpecialCommand"}

ReadNames(row) ==
  IF row.form = "all" THEN {"quottery_subcmd", "quottery_subcmd_count"} ELSE Named(row.params)
LaterOptional(n, params) == \A i \in DOMAIN params : i <= n \/ params[i].global \in Optional
Fits(row) ==
  /\ Given(row.command, ReadNames(row))
  /\ row.form = "upto" => LaterOptional(row.checked, row.params)
  /\ row.form = "payout" => row = Payout
  /\ row.form = "poll" => row = CreatePoll
FitTable(f) == \A o \in DOMAIN f : Fits(f[o])

LEMMA UsesOfBlocks ==
  \A f, c, u : Extends(Dispatch, f) /\ Hands(f, c, u) => Uses(c) = u
  BY DEF Extends, Hands, UsesOf, Uses

LEMMA FitTables ==
  /\ \A f, g : FitTable(f) /\ FitTable(g) => FitTable(f @@ g)
  /\ \A o, row : Fits(row) => FitTable(o :> row)
<1>1. ASSUME NEW f, NEW g, FitTable(f), FitTable(g) PROVE FitTable(f @@ g)
  <2>1. f @@ g = Merge(f, g)
    BY MergeFacts
  <2>2. FitTable(Merge(f, g))
    BY <1>1, MergeFacts DEF FitTable
  <2> QED
    BY <2>1, <2>2
<1>2. ASSUME NEW o, NEW row, Fits(row) PROVE FitTable(o :> row)
  BY <1>2, EachFacts DEF FitTable
<1> QED
  BY <1>1, <1>2

LEMMA FitRows ==
  /\ \A c, params : Given(c, Named(params)) => Fits(Takes(c, params))
  /\ \A c, n, params : Given(c, Named(params)) => Fits(Underchecked(c, n, params))
  /\ \A c, n, params :
       Given(c, Named(params)) /\ LaterOptional(n, params) => Fits(TakesUpTo(c, n, params))
  /\ \A c : Given(c, {}) => Fits(Alone(c))
  /\ \A c, g : Given(c, {g}) => Fits(Fixed(c, g))
  /\ \A c : Given(c, {"quottery_subcmd", "quottery_subcmd_count"}) => Fits(TakesAll(c))
<1>1. ASSUME NEW c, NEW params, Given(c, Named(params))
      PROVE  /\ Fits(Takes(c, params))
             /\ \A n : Fits(Underchecked(c, n, params))
             /\ \A n : LaterOptional(n, params) => Fits(TakesUpTo(c, n, params))
  BY <1>1 DEF Fits, ReadNames, Takes, Underchecked, TakesUpTo, Row
<1>2. ASSUME NEW c, Given(c, {}) PROVE Fits(Alone(c))
  <2>1. Named(<<>>) = {}
    BY DEF Named
  <2> QED
    BY <1>1, <1>2, <2>1 DEF Alone
<1>3. ASSUME NEW c, NEW g, Given(c, {g}) PROVE Fits(Fixed(c, g))
  <2>1. Named(<<Num(g)>>) = {g}
    BY DEF Named, Num, Param
  <2> QED
    BY <1>3, <2>1 DEF Fits, ReadNames, Fixed, Row
<1>4. ASSUME NEW c, Given(c, {"quottery_subcmd", "quottery_subcmd_count"})
      PROVE  Fits(TakesAll(c))
  BY <1>4 DEF Fits, ReadNames, TakesAll, Row
<1> QED
  BY <1>1, <1>2, <1>3, <1>4

LEMMA WordNames ==
  \A g : /\ Text(g).global = g /\ Num(g).global = g /\ Contract(g).global = g
         /\ U32(g).global = g /\ U16(g).global = g /\ U8(g).global = g
         /\ I32(g).global = g /\ I8(g).global = g /\ Flag(g).global = g
  BY DEF Text, Num, Contract, U32, U16, U8, I32, I8, Flag, Param

LEMMA FitPayout == Fits(Payout)
<1>1. Uses("QRWA_PAYOUT_ADDRESS") = {"qrwa_identity", "qrwa_epoch"}
  BY UsesOfBlocks, DispatchHasBlocks, DispatchQrwaHands
<1>2. ReadNames(Payout) = Named(<<Text("qrwa_identity"), I32("qrwa_epoch")>>)
  BY DEF ReadNames, Payout, Row
<1>3. Given("QRWA_PAYOUT_ADDRESS", ReadNames(Payout))
  BY <1>1, <1>2, WordNames DEF Given, Named
<1> QED
  BY <1>3 DEF Fits, Payout, Row

LEMMA FitCreatePoll == Fits(CreatePoll)
<1> DEFINE words == <<Text("qutil_pollNameStr"), Num("qutil_pollType"), Num("qutil_minAmount"),
                      Text("qutil_githubLinkStr"), Text("qutil_semicolonSeparatedAssets")>>
<1>1. Uses("QUTIL_CREATE_POLL") =
        {"qutil_pollNameStr", "qutil_pollType", "qutil_minAmount", "qutil_githubLinkStr",
         "qutil_semicolonSeparatedAssets"}
  BY UsesOfBlocks, DispatchHasBlocks, DispatchQutilHands
<1>2. ReadNames(CreatePoll) = Named(words)
  BY DEF ReadNames, CreatePoll, Row
<1>3. Given("QUTIL_CREATE_POLL", ReadNames(CreatePoll))
  BY <1>1, <1>2, WordNames DEF Given, Named
<1> QED
  BY <1>3 DEF Fits, CreatePoll, Row

LEMMA WalletOptionsFit == FitTable(WalletOptions)
<1>1. Extends(Dispatch, DispatchWallet)
  BY DispatchHasBlocks
<1> QED
  BY SMTT(60), <1>1, UsesOfBlocks, FitTables, FitRows, WordNames,
     DispatchWalletHands
     DEF WalletOptions, Given, Named, LaterOptional, Optional

LEMMA QueryOptionsFit == FitTable(QueryOptions)
<1>1. /\ Extends(Dispatch, DispatchQueries)
      /\ Extends(Dispatch, DispatchFiles)
      /\ Extends(Dispatch, DispatchNode)
  BY DispatchHasBlocks
<1> QED
  BY SMTT(60), <1>1, UsesOfBlocks, FitTables, FitRows, WordNames,
     DispatchQueriesHands, DispatchFilesHands, DispatchNodeHands
     DEF QueryOptions, Given, Named, LaterOptional, Optional

LEMMA ProtocolOptionsFit == FitTable(ProtocolOptions)
<1>1. /\ Extends(Dispatch, DispatchWallet)
      /\ Extends(Dispatch, DispatchQueries)
      /\ Extends(Dispatch, DispatchFiles)
  BY DispatchHasBlocks
<1> QED
  BY SMTT(60), <1>1, UsesOfBlocks, FitTables, FitRows, WordNames,
     DispatchWalletHands, DispatchQueriesHands, DispatchFilesHands
     DEF ProtocolOptions, Given, Named, LaterOptional, Optional

LEMMA NodeOptionsFit == FitTable(NodeOptions)
<1>1. /\ Extends(Dispatch, DispatchWallet)
      /\ Extends(Dispatch, DispatchNode)
      /\ Extends(Dispatch, DispatchQueries)
  BY DispatchHasBlocks
<1> QED
  BY SMTT(60), <1>1, UsesOfBlocks, FitTables, FitRows, WordNames,
     DispatchWalletHands, DispatchNodeHands, DispatchQueriesHands
     DEF NodeOptions, Given, Named, LaterOptional, Optional

LEMMA OracleOptionsFit == FitTable(OracleOptions)
<1>1. Extends(Dispatch, DispatchOracle)
  BY DispatchHasBlocks
<1> QED
  BY SMTT(60), <1>1, UsesOfBlocks, FitTables, FitRows, WordNames,
     DispatchOracleHands
     DEF OracleOptions, Given, Named, LaterOptional, Optional

LEMMA QrwaOptionsFit == FitTable(QrwaOptions)
<1>1. Extends(Dispatch, DispatchQrwa)
  BY DispatchHasBlocks
<1> QED
  BY SMTT(60), <1>1, UsesOfBlocks, FitTables, FitRows, WordNames, FitPayout,
     DispatchQrwaHands
     DEF QrwaOptions, Given, Named, LaterOptional, Optional

LEMMA QxOptionsFit == FitTable(QxOptions)
<1>1. /\ Extends(Dispatch, DispatchQx)
      /\ Extends(Dispatch, DispatchFiles)
  BY DispatchHasBlocks
<1> QED
  BY SMTT(60), <1>1, UsesOfBlocks, FitTables, FitRows, WordNames,
     DispatchQxHands, DispatchFilesHands
     DEF QxOptions, Given, Named, LaterOptional, Optional

LEMMA QswapPoolOptionsFit == FitTable(QswapPoolOptions)
<1>1. /\ Extends(Dispatch, DispatchQswap)
      /\ Extends(Dispatch, DispatchQswapQueries)
  BY DispatchHasBlocks
<1> QED
  BY SMTT(60), <1>1, UsesOfBlocks, FitTables, FitRows, WordNames,
     DispatchQswapHands, DispatchQswapQueriesHands
     DEF QswapPoolOptions, Given, Named, LaterOptional, Optional

LEMMA QswapSwapOptionsFit == FitTable(QswapSwapOptions)
<1>1. /\ Extends(Dispatch, DispatchQswap)
      /\ Extends(Dispatch, DispatchQswapQueries)
  BY DispatchHasBlocks
<1> QED
  BY SMTT(60), <1>1, UsesOfBlocks, FitTables, FitRows, WordNames,
     DispatchQswapHands, DispatchQswapQueriesHands
     DEF QswapSwapOptions, Given, Named, LaterOptional, Optional

LEMMA QuotteryOptionsFit == FitTable(QuotteryOptions)
<1>1. Extends(Dispatch, DispatchFiles)
  BY DispatchHasBlocks
<1> QED
  BY SMTT(60), <1>1, UsesOfBlocks, FitTables, FitRows, WordNames,
     DispatchFilesHands
     DEF QuotteryOptions, Given, Named, LaterOptional, Optional

LEMMA QutilOptionsFit == FitTable(QutilOptions)
<1>1. Extends(Dispatch, DispatchQutil)
  BY DispatchHasBlocks
<1> QED
  BY SMTT(60), <1>1, UsesOfBlocks, FitTables, FitRows, WordNames, FitCreatePoll,
     DispatchQutilHands
     DEF QutilOptions, Given, Named, LaterOptional, Optional

LEMMA QutilQueryOptionsFit == FitTable(QutilQueryOptions)
<1>1. Extends(Dispatch, DispatchQutilQueries)
  BY DispatchHasBlocks
<1> QED
  BY SMTT(60), <1>1, UsesOfBlocks, FitTables, FitRows, WordNames,
     DispatchQutilQueriesHands
     DEF QutilQueryOptions, Given, Named, LaterOptional, Optional

LEMMA GqmpropOptionsFit == FitTable(GqmpropOptions)
<1>1. Extends(Dispatch, DispatchProposals)
  BY DispatchHasBlocks
<1> QED
  BY SMTT(60), <1>1, UsesOfBlocks, FitTables, FitRows, WordNames,
     DispatchProposalsHands
     DEF GqmpropOptions, Given, Named, LaterOptional, Optional

LEMMA CcfOptionsFit == FitTable(CcfOptions)
<1>1. Extends(Dispatch, DispatchProposals)
  BY DispatchHasBlocks
<1> QED
  BY SMTT(60), <1>1, UsesOfBlocks, FitTables, FitRows, WordNames,
     DispatchProposalsHands
     DEF CcfOptions, Given, Named, LaterOptional, Optional

LEMMA QearnOptionsFit == FitTable(QearnOptions)
<1>1. Extends(Dispatch, DispatchQearnQvault)
  BY DispatchHasBlocks
<1> QED
  BY SMTT(60), <1>1, UsesOfBlocks, FitTables, FitRows, WordNames,
     DispatchQearnQvaultHands
     DEF QearnOptions, Given, Named, LaterOptional, Optional

LEMMA QvaultOptionsFit == FitTable(QvaultOptions)
<1>1. Extends(Dispatch, DispatchQearnQvault)
  BY DispatchHasBlocks
<1> QED
  BY SMTT(60), <1>1, UsesOfBlocks, FitTables, FitRows, WordNames,
     DispatchQearnQvaultHands
     DEF QvaultOptions, Given, Named, LaterOptional, Optional

LEMMA MsvaultOptionsFit == FitTable(MsvaultOptions)
<1>1. Extends(Dispatch, DispatchMsvault)
  BY DispatchHasBlocks
<1> QED
  BY SMTT(60), <1>1, UsesOfBlocks, FitTables, FitRows, WordNames,
     DispatchMsvaultHands
     DEF MsvaultOptions, Given, Named, LaterOptional, Optional

LEMMA MsvaultAssetOptionsFit == FitTable(MsvaultAssetOptions)
<1>1. /\ Extends(Dispatch, DispatchMsvaultAssets)
      /\ Extends(Dispatch, DispatchMsvault)
  BY DispatchHasBlocks
<1> QED
  BY SMTT(60), <1>1, UsesOfBlocks, FitTables, FitRows, WordNames,
     DispatchMsvaultAssetsHands, DispatchMsvaultHands
     DEF MsvaultAssetOptions, Given, Named, LaterOptional, Optional

LEMMA NostromoOptionsFit == FitTable(NostromoOptions)
<1>1. Extends(Dispatch, DispatchNostromo)
  BY DispatchHasBlocks
<1> QED
  BY SMTT(60), <1>1, UsesOfBlocks, FitTables, FitRows, WordNames,
     DispatchNostromoHands
     DEF NostromoOptions, Given, Named, LaterOptional, Optional

LEMMA NostromoQueryOptionsFit == FitTable(NostromoQueryOptions)
<1>1. Extends(Dispatch, DispatchNostromoQueries)
  BY DispatchHasBlocks
<1> QED
  BY SMTT(60), <1>1, UsesOfBlocks, FitTables, FitRows, WordNames,
     DispatchNostromoQueriesHands
     DEF NostromoQueryOptions, Given, Named, LaterOptional, Optional

LEMMA QbondOptionsFit == FitTable(QbondOptions)
<1>1. Extends(Dispatch, DispatchQbond)
  BY DispatchHasBlocks
<1> QED
  BY SMTT(60), <1>1, UsesOfBlocks, FitTables, FitRows, WordNames,
     DispatchQbondHands
     DEF QbondOptions, Given, Named, LaterOptional, Optional

LEMMA QbondQueryOptionsFit == FitTable(QbondQueryOptions)
<1>1. Extends(Dispatch, DispatchQbond)
  BY DispatchHasBlocks
<1> QED
  BY SMTT(60), <1>1, UsesOfBlocks, FitTables, FitRows, WordNames,
     DispatchQbondHands
     DEF QbondQueryOptions, Given, Named, LaterOptional, Optional

LEMMA EscrowOptionsFit == FitTable(EscrowOptions)
<1>1. Extends(Dispatch, DispatchEscrow)
  BY DispatchHasBlocks
<1> QED
  BY SMTT(60), <1>1, UsesOfBlocks, FitTables, FitRows, WordNames,
     DispatchEscrowHands
     DEF EscrowOptions, Given, Named, LaterOptional, Optional

LEMMA ShareholderOptionsFit == FitTable(ShareholderOptions)
<1>1. Extends(Dispatch, DispatchShareholders)
  BY DispatchHasBlocks
<1> QED
  BY SMTT(60), <1>1, UsesOfBlocks, FitTables, FitRows, WordNames,
     DispatchShareholdersHands
     DEF ShareholderOptions, Given, Named, LaterOptional, Optional

LEMMA TestOptionsFit == FitTable(TestOptions)
<1>1. Extends(Dispatch, DispatchTests)
  BY DispatchHasBlocks
<1> QED
  BY SMTT(60), <1>1, UsesOfBlocks, FitTables, FitRows, WordNames,
     DispatchTestsHands
     DEF TestOptions, Given, Named, LaterOptional, Optional

LEMMA OptionsFit == FitTable(Options)
  BY FitTables, WalletOptionsFit, QueryOptionsFit, ProtocolOptionsFit,
     NodeOptionsFit, OracleOptionsFit, QrwaOptionsFit, QxOptionsFit,
     QswapPoolOptionsFit, QswapSwapOptionsFit, QuotteryOptionsFit,
     QutilOptionsFit, QutilQueryOptionsFit, GqmpropOptionsFit, CcfOptionsFit,
     QearnOptionsFit, QvaultOptionsFit, MsvaultOptionsFit,
     MsvaultAssetOptionsFit, NostromoOptionsFit, NostromoQueryOptionsFit,
     QbondOptionsFit, QbondQueryOptionsFit, EscrowOptionsFit,
     ShareholderOptionsFit, TestOptionsFit
     DEF Options

-----------------------------------------------------------------------------
(* The rows and the help text.                                              *)
FullyChecked(row) == row.form = "takes" => row.checked = Len(row.params)
Agrees(o, row, r) ==
  /\ row.form \in {"takes", "upto", "fixed", "all", "payout", "poll"}
  /\ row.form = "takes" =>
       /\ row.checked <= Len(row.params)
       /\ \/ r = Len(row.params)..Len(row.params)
          \/ o = "-qswapgetliquidityof" /\ Len(row.params) = 3 /\ r = 2..3
  /\ row.form = "upto" => r = row.checked..Len(row.params)
  /\ row.form = "fixed" => r = 0..0 /\ row.checked = 0
  /\ row.form = "payout" => r = 1..2 /\ row.checked = 1
  /\ row.form = "poll" => r = 4..5 /\ row.checked = 4
  /\ row.form = "all" => r = Nat /\ row.checked = 0
Counted(o, row) ==
  o \in DOMAIN Documented =>
    /\ Agrees(o, row, Documented[o])
    /\ o \in UncheckedWords \/ FullyChecked(row)
    /\ row.form = "poll" => o = "-qutilcreatepoll"
CountTable(f) == \A o \in DOMAIN f : Counted(o, f[o])

LEMMA CountTables ==
  /\ \A f, g : CountTable(f) /\ CountTable(g) => CountTable(f @@ g)
  /\ \A o, row : Counted(o, row) => CountTable(o :> row)
<1>1. ASSUME NEW f, NEW g, CountTable(f), CountTable(g) PROVE CountTable(f @@ g)
  <2>1. f @@ g = Merge(f, g)
    BY MergeFacts
  <2>2. CountTable(Merge(f, g))
    BY <1>1, MergeFacts DEF CountTable
  <2> QED
    BY <2>1, <2>2
<1>2. ASSUME NEW o, NEW row, Counted(o, row) PROVE CountTable(o :> row)
  BY <1>2, EachFacts DEF CountTable
<1> QED
  BY <1>1, <1>2

(* What a table says of an option.                                          *)
Says(f, o, r) == o \in DOMAIN f /\ f[o] = r

LEMMA SaysFacts ==
  /\ \A f, g, o, r : Says(f, o, r) => Says(f @@ g, o, r)
  /\ \A f, g, o, r : o \notin DOMAIN f /\ Says(g, o, r) => Says(f @@ g, o, r)
  /\ \A o, r : Says(o :> r, o, r)
  /\ \A S, o, r : o \in S => Says(Each(S, r), o, r)
<1>1. ASSUME NEW f, NEW g, NEW o, NEW r
      PROVE  /\ Says(f, o, r) => Says(f @@ g, o, r)
             /\ o \notin DOMAIN f /\ Says(g, o, r) => Says(f @@ g, o, r)
  <2>1. f @@ g = Merge(f, g)
    BY MergeFacts
  <2>2. /\ Says(f, o, r) => Says(Merge(f, g), o, r)
        /\ o \notin DOMAIN f /\ Says(g, o, r) => Says(Merge(f, g), o, r)
    BY DEF Says, Merge
  <2> QED
    BY <2>1, <2>2
<1>2. \A S, o, r : o \in S => Says(Each(S, r), o, r)
  BY EachFacts DEF Says
<1>3. ASSUME NEW o, NEW r PROVE Says(o :> r, o, r)
  <2>1. (o :> r) = Each({o}, r)
    BY EachFacts
  <2>2. Says(Each({o}, r), o, r)
    BY <1>2
  <2> QED
    BY <2>1, <2>2
<1> QED
  BY <1>1, <1>2, <1>3

LEMMA CountRows ==
  /\ \A o, row : o \notin DOMAIN Documented => Counted(o, row)
  /\ \A o, c, s : Says(Documented, o, Len(s)..Len(s)) /\ Len(s) \in Nat =>
       Counted(o, Takes(c, s))
  /\ \A o, c, m, s :
       Says(Documented, o, Len(s)..Len(s)) /\ o \in UncheckedWords /\ m <= Len(s) =>
         Counted(o, Underchecked(c, m, s))
  /\ \A o, c, m, s : Says(Documented, o, m..Len(s)) => Counted(o, TakesUpTo(c, m, s))
  /\ \A o, c, g : Says(Documented, o, 0..0) => Counted(o, Fixed(c, g))
  /\ \A o, c : Says(Documented, o, Nat) => Counted(o, TakesAll(c))
  /\ \A o : Says(Documented, o, 1..2) => Counted(o, Payout)
  /\ Says(Documented, "-qutilcreatepoll", 4..5) => Counted("-qutilcreatepoll", CreatePoll)
  /\ \A c, s : Says(Documented, "-qswapgetliquidityof", 2..3) /\ Len(s) = 3 =>
       Counted("-qswapgetliquidityof", Takes(c, s))
<1> USE DEF Says, Counted, Agrees, FullyChecked, Row
<1>1. \A o, row : o \notin DOMAIN Documented => Counted(o, row)
  OBVIOUS
<1>2. \A o, c, s : Says(Documented, o, Len(s)..Len(s)) /\ Len(s) \in Nat =>
        Counted(o, Takes(c, s))
  BY DEF Takes
<1>3. \A o, c, m, s :
        Says(Documented, o, Len(s)..Len(s)) /\ o \in UncheckedWords /\ m <= Len(s) =>
          Counted(o, Underchecked(c, m, s))
  BY DEF Underchecked, UncheckedWords
<1>4. \A o, c, m, s : Says(Documented, o, m..Len(s)) => Counted(o, TakesUpTo(c, m, s))
  BY DEF TakesUpTo
<1>5. \A o, c, g : Says(Documented, o, 0..0) => Counted(o, Fixed(c, g))
  BY DEF Fixed
<1>6. \A o, c : Says(Documented, o, Nat) => Counted(o, TakesAll(c))
  BY DEF TakesAll
<1>7. \A o : Says(Documented, o, 1..2) => Counted(o, Payout)
  BY DEF Payout
<1>8. Says(Documented, "-qutilcreatepoll", 4..5) => Counted("-qutilcreatepoll", CreatePoll)
  BY DEF CreatePoll
<1>9. \A c, s : Says(Documented, "-qswapgetliquidityof", 2..3) /\ Len(s) = 3 =>
        Counted("-qswapgetliquidityof", Takes(c, s))
  BY DEF Takes
<1> QED
  BY <1>1, <1>2, <1>3, <1>4, <1>5, <1>6, <1>7, <1>8, <1>9

(* The options that each part of the text names.                            *)
LEMMA HelpWalletOptions == \A o : o \in DOMAIN HelpWallet <=> o \in
  {"-showkeys", "-getbalance", "-getasset", "-queryassets",
   "-gettotalnumberofassetshares", "-sendtoaddress", "-sendtoaddressintick"}
  BY SMTT(60), TableDomain DEF HelpWallet

LEMMA HelpQutilOptions == \A o : o \in DOMAIN HelpQutil <=> o \in
  {"-qutilsendtomanyv1", "-qutilburnqubic", "-qutilqueryfeereserve",
   "-qutilgetcurrentresult", "-qutilgetpollsbycreator", "-qutilgetpollinfo",
   "-qutilcancelpoll", "-getbalancesmany", "-qutilburnqubicforcontract",
   "-qutilsendtomanybenchmark", "-qutildistributequbictoshareholders",
   "-qutilvote", "-qutiltransfersharestomanyv1", "-qutilcreatepoll",
   "-qutilgetcurrentpollid", "-qutilgetfee", "-qutiltransferrights"}
  BY SMTT(60), TableDomain DEF HelpQutil

LEMMA HelpProtocolOptions == \A o : o \in DOMAIN HelpProtocol <=> o \in
  {"-gettickdata", "-getquorumtick", "-checktxontick", "-checktxonfile",
   "-readtickdata", "-dumpspectrumfile", "-dumpuniversefile", "-getcomputorlist",
   "-gettxinfo", "-getipostatus", "-getrevenuedata", "-getnodeiplist",
   "-getactiveipos", "-getsysteminfo", "-uploadfile", "-downloadfile",
   "-sendcustomtransaction", "-dumpcontractfile", "-makeipobid"}
  BY SMTT(60), TableDomain DEF HelpProtocol

LEMMA HelpNodeOptions == \A o : o \in DOMAIN HelpNode <=> o \in
  {"-getcurrenttick", "-refreshpeerlist", "-forcenexttick", "-reissuevote",
   "-synctime", "-getminingscoreranking", "-savesnapshot",
   "-getexecutionfeemultiplier", "-sendspecialcommand", "-setloggingmode", "-compmessage",
   "-togglemainaux", "-sendrawpacket", "-getvotecountertx",
   "-setexecutionfeemultiplier", "-setsolutionthreshold"}
  BY SMTT(60), TableDomain DEF HelpNode

LEMMA HelpOracleQrwaOptions == \A o : o \in DOMAIN HelpOracleQrwa <=> o \in
  {"-getoraclequery", "-getoraclesubscription", "-queryoracle",
   "-querypriceviacontract", "-qrwapayout", "-qrwastatus", "-qrwaassets",
   "-qrwagovparams", "-qrwagovpollids", "-qrwadividends", "-qrwascdividends",
   "-qrwagovpoll", "-qrwadonate", "-qrwasetpoolaaddr", "-qrwasetpooldaddr",
   "-qrwavotegov", "-qrwadepositasset", "-qrwarevokeasset"}
  BY SMTT(60), TableDomain DEF HelpOracleQrwa

LEMMA HelpShareholdersQxOptions == \A o : o \in DOMAIN HelpShareholdersQx <=> o \in
  {"-callcontractfunction", "-invokecontractprocedure", "-qxissueasset",
   "-qxtransferasset", "-qxtransferrights", "-setshareholderproposal",
   "-getshareholderproposals", "-getshareholderresults",
   "-clearshareholderproposal", "-shareholdervote", "-getshareholdervotes",
   "-qxgetfee", "-qxorder", "-qxgetorder"}
  BY SMTT(60), TableDomain DEF HelpShareholdersQx

LEMMA HelpQuotteryOptions == \A o : o \in DOMAIN HelpQuottery <=> o \in
  {"-qtry"}
  BY SMTT(60), TableDomain DEF HelpQuottery

LEMMA HelpProposalsOptions == \A o : o \in DOMAIN HelpProposals <=> o \in
  {"-gqmpropsetproposal", "-gqmpropgetproposals", "-gqmpropgetresults",
   "-ccfsetproposal", "-ccfgetproposals", "-ccfgetsubscription", "-ccfgetresults",
   "-gqmpropclearproposal", "-gqmpropgetrevdonation", "-ccfclearproposal",
   "-ccflatesttransfers", "-ccfgetregularpayments", "-gqmpropvote", "-ccfvote",
   "-gqmpropgetvote", "-ccfgetvote"}
  BY SMTT(60), TableDomain DEF HelpProposals

LEMMA HelpQearnQvaultOptions == \A o : o \in DOMAIN HelpQearnQvault <=> o \in
  {"-qearnlock", "-qearngetlockinfoperepoch", "-qearngetstateofround",
   "-qearngetuserlockstatus", "-qearngetunlockingstatus",
   "-qearngetstatsperepoch", "-qearngetburnedandboostedstatsperepoch",
   "-qvaultsubmitauthaddress", "-qvaultchangeauthaddress",
   "-qvaultsubmitreinvestingaddress", "-qvaultchangereinvestingaddress",
   "-qvaultsubmitadminaddress", "-qvaultchangeadminaddress",
   "-qvaultsubmitbannedaddress", "-qvaultsavebannedaddress",
   "-qvaultsubmitunbannedaddress", "-qvaultsaveunbannedaddress", "-qearnunlock",
   "-qearngetuserlockedinfo", "-qearngetburnedandboostedstats", "-qvaultgetdata",
   "-qvaultsubmitfees", "-qvaultchangefees"}
  BY SMTT(60), TableDomain DEF HelpQearnQvault

LEMMA HelpMsvaultOptions == \A o : o \in DOMAIN HelpMsvault <=> o \in
  {"-msvaultregistervault", "-msvaultreleaseto", "-msvaultgetmanagedassetbalance",
   "-msvaultrevokeassetrights", "-msvaultdeposit", "-msvaultresetrelease",
   "-msvaultgetvaults", "-msvaultgetreleasestatus", "-msvaultgetbalanceof",
   "-msvaultgetvaultname", "-msvaultgetvaultowners", "-msvaultresetassetrelease",
   "-msvaultgetassetbalances", "-msvaultgetassetreleasestatus",
   "-msvaultisshareholder", "-msvaultgetrevenueinfo", "-msvaultgetfees",
   "-msvaultgetfeevotes", "-msvaultgetfeevotesowner", "-msvaultgetfeevotesscore",
   "-msvaultgetuniquefeevotes", "-msvaultgetuniquefeevotesranking",
   "-msvaultdepositasset", "-msvaultreleaseassetto", "-msvaultvotechange"}
  BY SMTT(60), TableDomain DEF HelpMsvault

LEMMA HelpQswapOptions == \A o : o \in DOMAIN HelpQswap <=> o \in
  {"-qswapgetfee", "-qswapissueasset", "-qswaptransferasset",
   "-qswaptransferassetrights", "-qswapswapexactquforasset",
   "-qswapswapquforexactasset", "-qswapswapexactassetforqu",
   "-qswapswapassetforexactqu", "-qswapquote", "-qswapcreatepool",
   "-qswapgetpoolbasicstate", "-qswapaddliquidity", "-qswapremoveliquidity",
   "-qswapgetliquidityof"}
  BY SMTT(60), TableDomain DEF HelpQswap

LEMMA HelpNostromoOptions == \A o : o \in DOMAIN HelpNostromo <=> o \in
  {"-nostromoregisterintier", "-nostromoupgradetierlevel",
   "-nostromogettierlevelbyuser", "-nostromogetuservotestatus",
   "-nostromochecktokencreatability", "-nostromogetnumberofinvestedprojects",
   "-nostromogetprojectbyindex", "-nostromogetfundraisingbyindex",
   "-nostromogetprojectindexlistbycreator", "-nostromogetInfoUserInvested",
   "-nostromologoutfromtier", "-nostromogetstats", "-nostromocreateproject",
   "-nostromovoteinproject", "-nostromoinvestinproject", "-nostromoclaimtoken",
   "-nostromogetmaxclaimamount", "-nostromocreatefundraising",
   "-nostromotransfersharemanagementrights"}
  BY SMTT(60), TableDomain DEF HelpNostromo

LEMMA HelpQbondOptions == \A o : o \in DOMAIN HelpQbond <=> o \in
  {"-qbondstake", "-qbondburnqu", "-qbondgetinfoperepoch", "-qbondgetusermbonds",
   "-qbondtransfer", "-qbondaddask", "-qbondremoveask", "-qbondaddbid",
   "-qbondremovebid", "-qbondgetorders", "-qbondgetuserorders", "-qbondupdatecfa",
   "-qbondgetfees", "-qbondgetearnedfees", "-qbondtable", "-qbondgetcfa"}
  BY SMTT(60), TableDomain DEF HelpQbond

LEMMA HelpEscrowTestsOptions == \A o : o \in DOMAIN HelpEscrowTests <=> o \in
  {"-escrowcreatedeal", "-escrowacceptdeal", "-escrowmakedealpublic",
   "-escrowcanceldeal", "-testgetincomingtransferamounts",
   "-escrowtransferrights", "-testbidinipothroughcontract", "-escrowgetdeals",
   "-escrowgetfreeasset", "-testqpifunctionsoutput",
   "-testqpifunctionsoutputpast"}
  BY SMTT(60), TableDomain DEF HelpEscrowTests

(* No option is in two parts: what a part says of it is what the text says. *)
LEMMA HelpIsApart ==
  /\ Apart({HelpWallet}, HelpQutil)
  /\ Apart({HelpWallet, HelpQutil}, HelpProtocol)
  /\ Apart({HelpWallet, HelpQutil, HelpProtocol}, HelpNode)
  /\ Apart({HelpWallet, HelpQutil, HelpProtocol, HelpNode}, HelpOracleQrwa)
  /\ Apart({HelpWallet, HelpQutil, HelpProtocol, HelpNode, HelpOracleQrwa}, HelpShareholdersQx)
  /\ Apart({HelpWallet, HelpQutil, HelpProtocol, HelpNode, HelpOracleQrwa,
            HelpShareholdersQx}, HelpQuottery)
  /\ Apart({HelpWallet, HelpQutil, HelpProtocol, HelpNode, HelpOracleQrwa,
            HelpShareholdersQx, HelpQuottery}, HelpProposals)
  /\ Apart({HelpWallet, HelpQutil, HelpProtocol, HelpNode, HelpOracleQrwa,
            HelpShareholdersQx, HelpQuottery, HelpProposals}, HelpQearnQvault)
  /\ Apart({HelpWallet, HelpQutil, HelpProtocol, HelpNode, HelpOracleQrwa,
            HelpShareholdersQx, HelpQuottery, HelpProposals, HelpQearnQvault}, HelpMsvault)
  /\ Apart({HelpWallet, HelpQutil, HelpProtocol, HelpNode, HelpOracleQrwa,
            HelpShareholdersQx, HelpQuottery, HelpProposals, HelpQearnQvault,
            HelpMsvault}, HelpQswap)
  /\ Apart({HelpWallet, HelpQutil, HelpProtocol, HelpNode, HelpOracleQrwa,
            HelpShareholdersQx, HelpQuottery, HelpProposals, HelpQearnQvault,
            HelpMsvault, HelpQswap}, HelpNostromo)
  /\ Apart({HelpWallet, HelpQutil, HelpProtocol, HelpNode, HelpOracleQrwa,
            HelpShareholdersQx, HelpQuottery, HelpProposals, HelpQearnQvault,
            HelpMsvault, HelpQswap, HelpNostromo}, HelpQbond)
  /\ Apart({HelpWallet, HelpQutil, HelpProtocol, HelpNode, HelpOracleQrwa,
            HelpShareholdersQx, HelpQuottery, HelpProposals, HelpQearnQvault,
            HelpMsvault, HelpQswap, HelpNostromo, HelpQbond}, HelpEscrowTests)
  BY SMTT(60), HelpWalletOptions, HelpQutilOptions, HelpProtocolOptions,
     HelpNodeOptions, HelpOracleQrwaOptions, HelpShareholdersQxOptions,
     HelpQuotteryOptions, HelpProposalsOptions, HelpQearnQvaultOptions,
     HelpMsvaultOptions, HelpQswapOptions, HelpNostromoOptions,
     HelpQbondOptions, HelpEscrowTestsOptions
     DEF Apart, Without

LEMMA DocumentedHas ==
  /\ Extends(Documented, HelpWallet) /\ Extends(Documented, HelpQutil)
  /\ Extends(Documented, HelpProtocol) /\ Extends(Documented, HelpNode)
  /\ Extends(Documented, HelpOracleQrwa)
  /\ Extends(Documented, HelpShareholdersQx)
  /\ Extends(Documented, HelpQuottery) /\ Extends(Documented, HelpProposals)
  /\ Extends(Documented, HelpQearnQvault) /\ Extends(Documented, HelpMsvault)
  /\ Extends(Documented, HelpQswap) /\ Extends(Documented, HelpNostromo)
  /\ Extends(Documented, HelpQbond) /\ Extends(Documented, HelpEscrowTests)
  BY SMTT(60), HelpIsApart, ExtensionFacts DEF Documented, Apart

(* The numbers of words, part by part.                                      *)
LEMMA HelpWalletSays ==
  /\ Says(HelpWallet, "-showkeys", 0..0)
  /\ \A o \in {"-getbalance", "-getasset"} :
       Says(HelpWallet, o, 1..1)
  /\ Says(HelpWallet, "-queryassets", 0..2)
  /\ \A o \in {"-gettotalnumberofassetshares", "-sendtoaddress"} :
       Says(HelpWallet, o, 2..2)
  /\ Says(HelpWallet, "-sendtoaddressintick", 3..3)
  BY SMTT(60), SaysFacts, TableDomain DEF HelpWallet

LEMMA HelpQutilSays ==
  /\ \A o \in {"-qutilsendtomanyv1", "-qutilburnqubic", "-qutilqueryfeereserve",
              "-qutilgetcurrentresult", "-qutilgetpollsbycreator",
              "-qutilgetpollinfo", "-qutilcancelpoll", "-getbalancesmany"} :
       Says(HelpQutil, o, 1..1)
  /\ \A o \in {"-qutilburnqubicforcontract", "-qutilsendtomanybenchmark"} :
       Says(HelpQutil, o, 2..2)
  /\ \A o \in {"-qutildistributequbictoshareholders", "-qutilvote",
              "-qutiltransfersharestomanyv1"} :
       Says(HelpQutil, o, 3..3)
  /\ Says(HelpQutil, "-qutilcreatepoll", 4..5)
  /\ \A o \in {"-qutilgetcurrentpollid", "-qutilgetfee"} :
       Says(HelpQutil, o, 0..0)
  /\ Says(HelpQutil, "-qutiltransferrights", 4..4)
  BY SMTT(60), SaysFacts, TableDomain DEF HelpQutil

LEMMA HelpProtocolSays ==
  /\ \A o \in {"-gettickdata", "-getquorumtick", "-checktxontick",
              "-checktxonfile", "-readtickdata", "-dumpspectrumfile",
              "-dumpuniversefile"} :
       Says(HelpProtocol, o, 2..2)
  /\ \A o \in {"-getcomputorlist", "-gettxinfo", "-getipostatus",
              "-getrevenuedata"} :
       Says(HelpProtocol, o, 1..1)
  /\ \A o \in {"-getnodeiplist", "-getactiveipos", "-getsysteminfo"} :
       Says(HelpProtocol, o, 0..0)
  /\ Says(HelpProtocol, "-uploadfile", 1..2)
  /\ Says(HelpProtocol, "-downloadfile", 2..3)
  /\ Says(HelpProtocol, "-sendcustomtransaction", 5..5)
  /\ \A o \in {"-dumpcontractfile", "-makeipobid"} :
       Says(HelpProtocol, o, 3..3)
  BY SMTT(60), SaysFacts, TableDomain DEF HelpProtocol

LEMMA HelpNodeSays ==
  /\ \A o \in {"-getcurrenttick", "-refreshpeerlist", "-forcenexttick",
              "-reissuevote", "-synctime", "-getminingscoreranking",
              "-savesnapshot", "-getexecutionfeemultiplier"} :
       Says(HelpNode, o, 0..0)
  /\ \A o \in {"-sendspecialcommand", "-setloggingmode", "-compmessage"} :
       Says(HelpNode, o, 1..1)
  /\ \A o \in {"-togglemainaux", "-sendrawpacket", "-getvotecountertx",
              "-setexecutionfeemultiplier"} :
       Says(HelpNode, o, 2..2)
  /\ Says(HelpNode, "-setsolutionthreshold", 3..3)
  BY SMTT(60), SaysFacts, TableDomain DEF HelpNode

LEMMA HelpOracleQrwaSays ==
  /\ \A o \in {"-getoraclequery", "-getoraclesubscription"} :
       Says(HelpOracleQrwa, o, 0..2)
  /\ Says(HelpOracleQrwa, "-queryoracle", 0..3)
  /\ Says(HelpOracleQrwa, "-querypriceviacontract", 0..4)
  /\ Says(HelpOracleQrwa, "-qrwapayout", 1..2)
  /\ \A o \in {"-qrwastatus", "-qrwaassets", "-qrwagovparams", "-qrwagovpollids",
              "-qrwadividends", "-qrwascdividends"} :
       Says(HelpOracleQrwa, o, 0..0)
  /\ \A o \in {"-qrwagovpoll", "-qrwadonate", "-qrwasetpoolaaddr",
              "-qrwasetpooldaddr"} :
       Says(HelpOracleQrwa, o, 1..1)
  /\ Says(HelpOracleQrwa, "-qrwavotegov", 8..8)
  /\ \A o \in {"-qrwadepositasset", "-qrwarevokeasset"} :
       Says(HelpOracleQrwa, o, 3..3)
  BY SMTT(60), SaysFacts, TableDomain DEF HelpOracleQrwa

LEMMA HelpShareholdersQxSays ==
  /\ \A o \in {"-callcontractfunction", "-invokecontractprocedure",
              "-qxissueasset", "-qxtransferasset", "-qxtransferrights"} :
       Says(HelpShareholdersQx, o, 4..4)
  /\ \A o \in {"-setshareholderproposal", "-getshareholderproposals",
              "-getshareholderresults"} :
       Says(HelpShareholdersQx, o, 2..2)
  /\ Says(HelpShareholdersQx, "-clearshareholderproposal", 1..1)
  /\ Says(HelpShareholdersQx, "-shareholdervote", 3..3)
  /\ Says(HelpShareholdersQx, "-getshareholdervotes", 2..3)
  /\ Says(HelpShareholdersQx, "-qxgetfee", 0..0)
  /\ Says(HelpShareholdersQx, "-qxorder", 6..6)
  /\ Says(HelpShareholdersQx, "-qxgetorder", 5..5)
  BY SMTT(60), SaysFacts, TableDomain DEF HelpShareholdersQx

LEMMA HelpQuotterySays ==
  /\ Says(HelpQuottery, "-qtry", Nat)
  BY SMTT(60), SaysFacts, TableDomain DEF HelpQuottery

LEMMA HelpProposalsSays ==
  /\ \A o \in {"-gqmpropsetproposal", "-gqmpropgetproposals", "-gqmpropgetresults",
              "-ccfsetproposal", "-ccfgetproposals", "-ccfgetsubscription",
              "-ccfgetresults"} :
       Says(HelpProposals, o, 1..1)
  /\ \A o \in {"-gqmpropclearproposal", "-gqmpropgetrevdonation",
              "-ccfclearproposal", "-ccflatesttransfers",
              "-ccfgetregularpayments"} :
       Says(HelpProposals, o, 0..0)
  /\ \A o \in {"-gqmpropvote", "-ccfvote"} :
       Says(HelpProposals, o, 2..2)
  /\ \A o \in {"-gqmpropgetvote", "-ccfgetvote"} :
       Says(HelpProposals, o, 1..2)
  BY SMTT(60), SaysFacts, TableDomain DEF HelpProposals

LEMMA HelpQearnQvaultSays ==
  /\ \A o \in {"-qearnlock", "-qearngetlockinfoperepoch", "-qearngetstateofround",
              "-qearngetuserlockstatus", "-qearngetunlockingstatus",
              "-qearngetstatsperepoch", "-qearngetburnedandboostedstatsperepoch",
              "-qvaultsubmitauthaddress", "-qvaultchangeauthaddress",
              "-qvaultsubmitreinvestingaddress",
              "-qvaultchangereinvestingaddress", "-qvaultsubmitadminaddress",
              "-qvaultchangeadminaddress", "-qvaultsubmitbannedaddress",
              "-qvaultsavebannedaddress", "-qvaultsubmitunbannedaddress",
              "-qvaultsaveunbannedaddress"} :
       Says(HelpQearnQvault, o, 1..1)
  /\ \A o \in {"-qearnunlock", "-qearngetuserlockedinfo"} :
       Says(HelpQearnQvault, o, 2..2)
  /\ \A o \in {"-qearngetburnedandboostedstats", "-qvaultgetdata"} :
       Says(HelpQearnQvault, o, 0..0)
  /\ \A o \in {"-qvaultsubmitfees", "-qvaultchangefees"} :
       Says(HelpQearnQvault, o, 3..3)
  BY SMTT(60), SaysFacts, TableDomain DEF HelpQearnQvault

LEMMA HelpMsvaultSays ==
  /\ \A o \in {"-msvaultregistervault", "-msvaultreleaseto",
              "-msvaultgetmanagedassetbalance", "-msvaultrevokeassetrights"} :
       Says(HelpMsvault, o, 3..3)
  /\ Says(HelpMsvault, "-msvaultdeposit", 2..2)
  /\ \A o \in {"-msvaultresetrelease", "-msvaultgetvaults",
              "-msvaultgetreleasestatus", "-msvaultgetbalanceof",
              "-msvaultgetvaultname", "-msvaultgetvaultowners",
              "-msvaultresetassetrelease", "-msvaultgetassetbalances",
              "-msvaultgetassetreleasestatus", "-msvaultisshareholder"} :
       Says(HelpMsvault, o, 1..1)
  /\ \A o \in {"-msvaultgetrevenueinfo", "-msvaultgetfees", "-msvaultgetfeevotes",
              "-msvaultgetfeevotesowner", "-msvaultgetfeevotesscore",
              "-msvaultgetuniquefeevotes", "-msvaultgetuniquefeevotesranking"} :
       Says(HelpMsvault, o, 0..0)
  /\ Says(HelpMsvault, "-msvaultdepositasset", 4..4)
  /\ \A o \in {"-msvaultreleaseassetto", "-msvaultvotechange"} :
       Says(HelpMsvault, o, 5..5)
  BY SMTT(60), SaysFacts, TableDomain DEF HelpMsvault

LEMMA HelpQswapSays ==
  /\ Says(HelpQswap, "-qswapgetfee", 0..0)
  /\ \A o \in {"-qswapissueasset", "-qswaptransferasset",
              "-qswaptransferassetrights", "-qswapswapexactquforasset",
              "-qswapswapquforexactasset", "-qswapswapexactassetforqu",
              "-qswapswapassetforexactqu", "-qswapquote"} :
       Says(HelpQswap, o, 4..4)
  /\ \A o \in {"-qswapcreatepool", "-qswapgetpoolbasicstate"} :
       Says(HelpQswap, o, 2..2)
  /\ Says(HelpQswap, "-qswapaddliquidity", 6..6)
  /\ Says(HelpQswap, "-qswapremoveliquidity", 5..5)
  /\ Says(HelpQswap, "-qswapgetliquidityof", 2..3)
  BY SMTT(60), SaysFacts, TableDomain DEF HelpQswap

LEMMA HelpNostromoSays ==
  /\ \A o \in {"-nostromoregisterintier", "-nostromoupgradetierlevel",
              "-nostromogettierlevelbyuser", "-nostromogetuservotestatus",
              "-nostromochecktokencreatability",
              "-nostromogetnumberofinvestedprojects",
              "-nostromogetprojectbyindex", "-nostromogetfundraisingbyindex",
              "-nostromogetprojectindexlistbycreator",
              "-nostromogetInfoUserInvested"} :
       Says(HelpNostromo, o, 1..1)
  /\ \A o \in {"-nostromologoutfromtier", "-nostromogetstats"} :
       Says(HelpNostromo, o, 0..0)
  /\ Says(HelpNostromo, "-nostromocreateproject", 10..10)
  /\ \A o \in {"-nostromovoteinproject", "-nostromoinvestinproject",
              "-nostromoclaimtoken", "-nostromogetmaxclaimamount"} :
       Says(HelpNostromo, o, 2..2)
  /\ Says(HelpNostromo, "-nostromocreatefundraising", 43..43)
  /\ Says(HelpNostromo, "-nostromotransfersharemanagementrights", 4..4)
  BY SMTT(60), SaysFacts, TableDomain DEF HelpNostromo

LEMMA HelpQbondSays ==
  /\ \A o \in {"-qbondstake", "-qbondburnqu", "-qbondgetinfoperepoch",
              "-qbondgetusermbonds"} :
       Says(HelpQbond, o, 1..1)
  /\ \A o \in {"-qbondtransfer", "-qbondaddask", "-qbondremoveask", "-qbondaddbid",
              "-qbondremovebid", "-qbondgetorders", "-qbondgetuserorders"} :
       Says(HelpQbond, o, 3..3)
  /\ Says(HelpQbond, "-qbondupdatecfa", 2..2)
  /\ \A o \in {"-qbondgetfees", "-qbondgetearnedfees", "-qbondtable",
              "-qbondgetcfa"} :
       Says(HelpQbond, o, 0..0)
  BY SMTT(60), SaysFacts, TableDomain DEF HelpQbond

LEMMA HelpEscrowTestsSays ==
  /\ Says(HelpEscrowTests, "-escrowcreatedeal", 3..3)
  /\ \A o \in {"-escrowacceptdeal", "-escrowmakedealpublic", "-escrowcanceldeal",
              "-testgetincomingtransferamounts"} :
       Says(HelpEscrowTests, o, 1..1)
  /\ \A o \in {"-escrowtransferrights", "-testbidinipothroughcontract"} :
       Says(HelpEscrowTests, o, 4..4)
  /\ \A o \in {"-escrowgetdeals", "-escrowgetfreeasset"} :
       Says(HelpEscrowTests, o, 2..2)
  /\ \A o \in {"-testqpifunctionsoutput", "-testqpifunctionsoutputpast"} :
       Says(HelpEscrowTests, o, 0..0)
  BY SMTT(60), SaysFacts, TableDomain DEF HelpEscrowTests

LEMMA SaysOfBlocks ==
  \A f, o, r : Extends(Documented, f) /\ Says(f, o, r) => Says(Documented, o, r)
  BY DEF Extends, Says

(* The same for lists of up to ten words.                                   *)
LEMMA CountLists ==
  /\ \A o, cmd : Says(Documented, o, 0..0) => Counted(o, Alone(cmd))
  /\ \A o, cmd, a : Says(Documented, o, 1..1) => Counted(o, Takes(cmd, <<a>>))
  /\ \A o, cmd, a, b : Says(Documented, o, 2..2) => Counted(o, Takes(cmd, <<a, b>>))
  /\ \A o, cmd, a, b, c : Says(Documented, o, 3..3) => Counted(o, Takes(cmd, <<a, b, c>>))
  /\ \A o, cmd, a, b, c, d :
       Says(Documented, o, 4..4) => Counted(o, Takes(cmd, <<a, b, c, d>>))
  /\ \A o, cmd, a, b, c, d, e :
       Says(Documented, o, 5..5) => Counted(o, Takes(cmd, <<a, b, c, d, e>>))
  /\ \A o, cmd, a, b, c, d, e, f :
       Says(Documented, o, 6..6) => Counted(o, Takes(cmd, <<a, b, c, d, e, f>>))
  /\ \A o, cmd, a, b, c, d, e, f, g, h :
       Says(Documented, o, 8..8) => Counted(o, Takes(cmd, <<a, b, c, d, e, f, g, h>>))
  /\ \A o, cmd, a, b, c, d, e, f, g, h, i, j :
       Says(Documented, o, 10..10) => Counted(o, Takes(cmd, <<a, b, c, d, e, f, g, h, i, j>>))
<1>1. Len(<<>>) = 0
  OBVIOUS
<1>2. \A o, cmd : Says(Documented, o, 0..0) => Counted(o, Alone(cmd))
  BY <1>1, CountRows DEF Alone
<1>3. \A o, cmd, a :
        Says(Documented, o, 1..1) => Counted(o, Takes(cmd, <<a>>))
  <2>1. \A a : Len(<<a>>) = 1 /\ 1 \in Nat
    OBVIOUS
  <2> QED
    BY ZenonT(120), <2>1, CountRows
<1>4. \A o, cmd, a, b :
        Says(Documented, o, 2..2) => Counted(o, Takes(cmd, <<a, b>>))
  <2>1. \A a, b : Len(<<a, b>>) = 2 /\ 2 \in Nat
    OBVIOUS
  <2> QED
    BY ZenonT(120), <2>1, CountRows
<1>5. \A o, cmd, a, b, c :
        Says(Documented, o, 3..3) => Counted(o, Takes(cmd, <<a, b, c>>))
  <2>1. \A a, b, c : Len(<<a, b, c>>) = 3 /\ 3 \in Nat
    OBVIOUS
  <2> QED
    BY ZenonT(120), <2>1, CountRows
<1>6. \A o, cmd, a, b, c, d :
        Says(Documented, o, 4..4) => Counted(o, Takes(cmd, <<a, b, c, d>>))
  <2>1. \A a, b, c, d : Len(<<a, b, c, d>>) = 4 /\ 4 \in Nat
    OBVIOUS
  <2> QED
    BY ZenonT(120), <2>1, CountRows
<1>7. \A o, cmd, a, b, c, d, e :
        Says(Documented, o, 5..5) => Counted(o, Takes(cmd, <<a, b, c, d, e>>))
  <2>1. \A a, b, c, d, e : Len(<<a, b, c, d, e>>) = 5 /\ 5 \in Nat
    OBVIOUS
  <2> QED
    BY ZenonT(120), <2>1, CountRows
<1>8. \A o, cmd, a, b, c, d, e, f :
        Says(Documented, o, 6..6) => Counted(o, Takes(cmd, <<a, b, c, d, e, f>>))
  <2>1. \A a, b, c, d, e, f : Len(<<a, b, c, d, e, f>>) = 6 /\ 6 \in Nat
    OBVIOUS
  <2> QED
    BY ZenonT(120), <2>1, CountRows
<1>9. \A o, cmd, a, b, c, d, e, f, g, h :
        Says(Documented, o, 8..8) => Counted(o, Takes(cmd, <<a, b, c, d, e, f, g, h>>))
  <2>1. \A a, b, c, d, e, f, g, h : Len(<<a, b, c, d, e, f, g, h>>) = 8 /\ 8 \in Nat
    OBVIOUS
  <2> QED
    BY ZenonT(120), <2>1, CountRows
<1>10. \A o, cmd, a, b, c, d, e, f, g, h, i, j :
        Says(Documented, o, 10..10) => Counted(o, Takes(cmd, <<a, b, c, d, e, f, g, h, i, j>>))
  <2>1. \A a, b, c, d, e, f, g, h, i, j : Len(<<a, b, c, d, e, f, g, h, i, j>>) = 10 /\ 10 \in Nat
    OBVIOUS
  <2> QED
    BY ZenonT(120), <2>1, CountRows
<1> QED
  BY <1>2, <1>3, <1>4, <1>5, <1>6, <1>7, <1>8, <1>9, <1>10

(* Rows with optional words, and those that check too few.                  *)
LEMMA CountShorter ==
  \A o, cmd, m :
    /\ \A a : Says(Documented, o, m..1) => Counted(o, TakesUpTo(cmd, m, <<a>>))
    /\ \A a, b : Says(Documented, o, m..2) => Counted(o, TakesUpTo(cmd, m, <<a, b>>))
    /\ \A a, b, c : Says(Documented, o, m..3) => Counted(o, TakesUpTo(cmd, m, <<a, b, c>>))
    /\ \A a, b, c, d : Says(Documented, o, m..4) => Counted(o, TakesUpTo(cmd, m, <<a, b, c, d>>))
  BY ZenonT(60), CountRows

LEMMA CountUnchecked ==
  ASSUME NEW o \in UncheckedWords, NEW cmd, NEW a, NEW b, NEW c, NEW d
  PROVE  /\ Says(Documented, o, 1..1) => Counted(o, Underchecked(cmd, 0, <<a>>))
         /\ Says(Documented, o, 3..3) => Counted(o, Underchecked(cmd, 2, <<a, b, c>>))
         /\ Says(Documented, o, 4..4) => Counted(o, Underchecked(cmd, 0, <<a, b, c, d>>))
<1>1. Len(<<a>>) = 1 /\ Len(<<a, b, c>>) = 3 /\ Len(<<a, b, c, d>>) = 4
  OBVIOUS
<1>2. 0 <= 1 /\ 2 <= 3 /\ 0 <= 4
  OBVIOUS
<1> QED
  BY <1>1, <1>2, CountRows

(* The one long list.                                                       *)
Sized(s, n) == IsList(s) /\ Len(s) = n

LEMMA JoinedSizes ==
  \A s, t, m, n : Sized(s, m) /\ Sized(t, n) => Sized(s \o t, m + n)
<1> SUFFICES ASSUME NEW s, NEW t, IsList(s), IsList(t)
             PROVE  IsList(s \o t) /\ Len(s \o t) = Len(s) + Len(t)
  BY DEF Sized
<1> DEFINE S == {s[i] : i \in DOMAIN s} \cup {t[i] : i \in DOMAIN t}
<1>1. s \in Seq(S) /\ t \in Seq(S)
  BY DEF IsList
<1>2. s \o t \in Seq(S) /\ Len(s \o t) = Len(s) + Len(t)
  BY <1>1
<1>3. \A u \in Seq(S) : IsList(u)
  <2> HIDE DEF S
  <2> QED
    BY DEF IsList
<1> QED
  BY <1>2, <1>3

LEMMA FundraisingLength == Len(Fundraising) = 43
<1>1. /\ \A a, b, c : Sized(<<a, b, c>>, 3)
      /\ \A a, b, c, d : Sized(<<a, b, c, d>>, 4)
  BY DEF Sized, IsList
<1>2. Sized(Fundraising, 4 + 4 + 4 + 4 + 4 + 4 + 4 + 4 + 4 + 4 + 3)
  BY ZenonT(120), <1>1, JoinedSizes DEF Fundraising, Date
<1>3. 4 + 4 + 4 + 4 + 4 + 4 + 4 + 4 + 4 + 4 + 3 = 43
  OBVIOUS
<1> QED
  BY <1>2, <1>3 DEF Sized

LEMMA FundraisingCount ==
  \A o, c : Says(Documented, o, 43..43) => Counted(o, Takes(c, Fundraising))
<1>1. Len(Fundraising) \in Nat
  BY FundraisingLength
<1>2. \A o, c : Says(Documented, o, Len(Fundraising)..Len(Fundraising)) =>
        Counted(o, Takes(c, Fundraising))
  BY <1>1, CountRows
<1> QED
  BY <1>2, FundraisingLength

(* What the text does not name: -nostromogetinfouserinvested as the parser  *)
(* spells it, and the line without a command.                               *)
LEMMA DocumentedDomain ==
  \A o : o \in DOMAIN Documented <=>
    \/ o \in DOMAIN HelpWallet \/ o \in DOMAIN HelpQutil
    \/ o \in DOMAIN HelpProtocol \/ o \in DOMAIN HelpNode
    \/ o \in DOMAIN HelpOracleQrwa \/ o \in DOMAIN HelpShareholdersQx
    \/ o \in DOMAIN HelpQuottery \/ o \in DOMAIN HelpProposals
    \/ o \in DOMAIN HelpQearnQvault \/ o \in DOMAIN HelpMsvault
    \/ o \in DOMAIN HelpQswap \/ o \in DOMAIN HelpNostromo
    \/ o \in DOMAIN HelpQbond \/ o \in DOMAIN HelpEscrowTests
  BY SMTT(60), TableDomain DEF Documented

LEMMA SpelledOtherwise == "-nostromogetinfouserinvested" \notin DOMAIN Documented
  BY SMTT(60), DocumentedDomain, HelpWalletOptions, HelpQutilOptions,
     HelpProtocolOptions, HelpNodeOptions, HelpOracleQrwaOptions,
     HelpShareholdersQxOptions, HelpQuotteryOptions, HelpProposalsOptions,
     HelpQearnQvaultOptions, HelpMsvaultOptions, HelpQswapOptions,
     HelpNostromoOptions, HelpQbondOptions, HelpEscrowTestsOptions

LEMMA EmptyIsNoOption == \A o \in DOMAIN Documented : o # ""
<1>1. ASSUME NEW o \in DOMAIN HelpWallet PROVE o # ""
  BY ZenonT(30), HelpWalletOptions
<1>2. ASSUME NEW o \in DOMAIN HelpQutil PROVE o # ""
  BY ZenonT(30), HelpQutilOptions
<1>3. ASSUME NEW o \in DOMAIN HelpProtocol PROVE o # ""
  BY ZenonT(30), HelpProtocolOptions
<1>4. ASSUME NEW o \in DOMAIN HelpNode PROVE o # ""
  BY ZenonT(30), HelpNodeOptions
<1>5. ASSUME NEW o \in DOMAIN HelpOracleQrwa PROVE o # ""
  BY ZenonT(30), HelpOracleQrwaOptions
<1>6. ASSUME NEW o \in DOMAIN HelpShareholdersQx PROVE o # ""
  BY ZenonT(30), HelpShareholdersQxOptions
<1>7. ASSUME NEW o \in DOMAIN HelpQuottery PROVE o # ""
  BY ZenonT(30), HelpQuotteryOptions
<1>8. ASSUME NEW o \in DOMAIN HelpProposals PROVE o # ""
  BY ZenonT(30), HelpProposalsOptions
<1>9. ASSUME NEW o \in DOMAIN HelpQearnQvault PROVE o # ""
  BY ZenonT(30), HelpQearnQvaultOptions
<1>10. ASSUME NEW o \in DOMAIN HelpMsvault PROVE o # ""
  BY ZenonT(30), HelpMsvaultOptions
<1>11. ASSUME NEW o \in DOMAIN HelpQswap PROVE o # ""
  BY ZenonT(30), HelpQswapOptions
<1>12. ASSUME NEW o \in DOMAIN HelpNostromo PROVE o # ""
  BY ZenonT(30), HelpNostromoOptions
<1>13. ASSUME NEW o \in DOMAIN HelpQbond PROVE o # ""
  BY ZenonT(30), HelpQbondOptions
<1>14. ASSUME NEW o \in DOMAIN HelpEscrowTests PROVE o # ""
  BY ZenonT(30), HelpEscrowTestsOptions
<1> QED
  BY Zenon, DocumentedDomain, <1>1, <1>2, <1>3, <1>4, <1>5, <1>6, <1>7, <1>8,
     <1>9, <1>10, <1>11, <1>12, <1>13, <1>14

(* The options of the parser.                                               *)
LEMMA WalletOptionsRows == \A o : o \in DOMAIN WalletOptions <=> o \in
  {"-showkeys", "-getbalance", "-getasset", "-queryassets",
  "-gettotalnumberofassetshares", "-qutildistributequbictoshareholders",
  "-sendtoaddress", "-sendtoaddressintick"}
  BY SMTT(60), TableDomain DEF WalletOptions

LEMMA QueryOptionsRows == \A o : o \in DOMAIN QueryOptions <=> o \in
  {"-gettickdata", "-getquorumtick", "-getcomputorlist", "-getnodeiplist",
  "-gettxinfo", "-uploadfile", "-downloadfile", "-checktxontick", "-checktxonfile",
  "-readtickdata", "-getvotecountertx"}
  BY SMTT(60), TableDomain DEF QueryOptions

LEMMA ProtocolOptionsRows == \A o : o \in DOMAIN ProtocolOptions <=> o \in
  {"-sendcustomtransaction", "-invokecontractprocedure", "-callcontractfunction",
  "-dumpspectrumfile", "-dumpuniversefile", "-dumpcontractfile", "-makeipobid",
  "-getipostatus", "-getactiveipos"}
  BY SMTT(60), TableDomain DEF ProtocolOptions

LEMMA NodeOptionsRows == \A o : o \in DOMAIN NodeOptions <=> o \in
  {"-getsysteminfo", "-getrevenuedata", "-getcurrenttick", "-sendspecialcommand",
  "-togglemainaux", "-setsolutionthreshold", "-refreshpeerlist", "-forcenexttick",
  "-reissuevote", "-synctime", "-savesnapshot", "-sendrawpacket",
  "-getminingscoreranking", "-setloggingmode", "-compmessage",
  "-setexecutionfeemultiplier", "-getexecutionfeemultiplier"}
  BY SMTT(60), TableDomain DEF NodeOptions

LEMMA OracleOptionsRows == \A o : o \in DOMAIN OracleOptions <=> o \in
  {"-getoraclequery", "-getoraclesubscription", "-queryoracle",
  "-querypriceviacontract"}
  BY SMTT(60), TableDomain DEF OracleOptions

LEMMA QrwaOptionsRows == \A o : o \in DOMAIN QrwaOptions <=> o \in
  {"-qrwapayout", "-qrwastatus", "-qrwaassets", "-qrwagovparams", "-qrwagovpoll",
  "-qrwagovpollids", "-qrwadividends", "-qrwascdividends", "-qrwadonate",
  "-qrwavotegov", "-qrwasetpoolaaddr", "-qrwasetpooldaddr", "-qrwadepositasset",
  "-qrwarevokeasset"}
  BY SMTT(60), TableDomain DEF QrwaOptions

LEMMA QxOptionsRows == \A o : o \in DOMAIN QxOptions <=> o \in
  {"-qxissueasset", "-qxtransferasset", "-qxgetfee", "-qxorder", "-qxgetorder",
  "-qxtransferrights"}
  BY SMTT(60), TableDomain DEF QxOptions

LEMMA QswapPoolOptionsRows == \A o : o \in DOMAIN QswapPoolOptions <=> o \in
  {"-qswapissueasset", "-qswaptransferasset", "-qswaptransferassetrights",
  "-qswapgetfee", "-qswapcreatepool", "-qswapgetpoolbasicstate", "-qswapaddliquidity",
  "-qswapremoveliquidity", "-qswapgetliquidityof"}
  BY SMTT(60), TableDomain DEF QswapPoolOptions

LEMMA QswapSwapOptionsRows == \A o : o \in DOMAIN QswapSwapOptions <=> o \in
  {"-qswapswapexactquforasset", "-qswapswapquforexactasset",
  "-qswapswapexactassetforqu", "-qswapswapassetforexactqu", "-qswapquote"}
  BY SMTT(60), TableDomain DEF QswapSwapOptions

LEMMA QuotteryOptionsRows == \A o : o \in DOMAIN QuotteryOptions <=> o \in
  {"-qtry"}
  BY SMTT(60), TableDomain DEF QuotteryOptions

LEMMA QutilOptionsRows == \A o : o \in DOMAIN QutilOptions <=> o \in
  {"-qutilsendtomanyv1", "-qutilburnqubic", "-qutilburnqubicforcontract",
  "-qutilqueryfeereserve", "-qutilsendtomanybenchmark", "-qutilcreatepoll",
  "-qutilvote"}
  BY SMTT(60), TableDomain DEF QutilOptions

LEMMA QutilQueryOptionsRows == \A o : o \in DOMAIN QutilQueryOptions <=> o \in
  {"-qutilgetcurrentresult", "-qutilgetpollsbycreator", "-qutilgetcurrentpollid",
  "-qutilgetpollinfo", "-qutilcancelpoll", "-qutilgetfee", "-getbalancesmany",
  "-qutiltransfersharestomanyv1", "-qutiltransferrights"}
  BY SMTT(60), TableDomain DEF QutilQueryOptions

LEMMA GqmpropOptionsRows == \A o : o \in DOMAIN GqmpropOptions <=> o \in
  {"-gqmpropsetproposal", "-gqmpropclearproposal", "-gqmpropgetproposals",
  "-gqmpropvote", "-gqmpropgetvote", "-gqmpropgetresults", "-gqmpropgetrevdonation"}
  BY SMTT(60), TableDomain DEF GqmpropOptions

LEMMA CcfOptionsRows == \A o : o \in DOMAIN CcfOptions <=> o \in
  {"-ccfsetproposal", "-ccfclearproposal", "-ccfgetproposals", "-ccfgetsubscription",
  "-ccfvote", "-ccfgetvote", "-ccfgetresults", "-ccflatesttransfers",
  "-ccfgetregularpayments"}
  BY SMTT(60), TableDomain DEF CcfOptions

LEMMA QearnOptionsRows == \A o : o \in DOMAIN QearnOptions <=> o \in
  {"-qearnlock", "-qearnunlock", "-qearngetlockinfoperepoch",
  "-qearngetuserlockedinfo", "-qearngetstateofround", "-qearngetuserlockstatus",
  "-qearngetunlockingstatus", "-qearngetstatsperepoch",
  "-qearngetburnedandboostedstats", "-qearngetburnedandboostedstatsperepoch"}
  BY SMTT(60), TableDomain DEF QearnOptions

LEMMA QvaultOptionsRows == \A o : o \in DOMAIN QvaultOptions <=> o \in
  {"-qvaultsubmitauthaddress", "-qvaultchangeauthaddress", "-qvaultsubmitfees",
  "-qvaultchangefees", "-qvaultsubmitreinvestingaddress",
  "-qvaultchangereinvestingaddress", "-qvaultsubmitadminaddress",
  "-qvaultchangeadminaddress", "-qvaultgetdata", "-qvaultsubmitbannedaddress",
  "-qvaultsavebannedaddress", "-qvaultsubmitunbannedaddress",
  "-qvaultsaveunbannedaddress"}
  BY SMTT(60), TableDomain DEF QvaultOptions

LEMMA MsvaultOptionsRows == \A o : o \in DOMAIN MsvaultOptions <=> o \in
  {"-msvaultregistervault", "-msvaultdeposit", "-msvaultreleaseto",
  "-msvaultresetrelease", "-msvaultgetvaults", "-msvaultgetreleasestatus",
  "-msvaultgetbalanceof", "-msvaultgetvaultname", "-msvaultgetrevenueinfo",
  "-msvaultgetfees", "-msvaultgetvaultowners"}
  BY SMTT(60), TableDomain DEF MsvaultOptions

LEMMA MsvaultAssetOptionsRows == \A o : o \in DOMAIN MsvaultAssetOptions <=> o \in
  {"-msvaultdepositasset", "-msvaultreleaseassetto", "-msvaultresetassetrelease",
  "-msvaultgetassetbalances", "-msvaultgetassetreleasestatus",
  "-msvaultgetmanagedassetbalance", "-msvaultrevokeassetrights",
  "-msvaultisshareholder", "-msvaultvotechange", "-msvaultgetfeevotes",
  "-msvaultgetfeevotesowner", "-msvaultgetfeevotesscore", "-msvaultgetuniquefeevotes",
  "-msvaultgetuniquefeevotesranking"}
  BY SMTT(60), TableDomain DEF MsvaultAssetOptions

LEMMA NostromoOptionsRows == \A o : o \in DOMAIN NostromoOptions <=> o \in
  {"-nostromoregisterintier", "-nostromologoutfromtier", "-nostromocreateproject",
  "-nostromovoteinproject", "-nostromocreatefundraising", "-nostromoinvestinproject",
  "-nostromoclaimtoken", "-nostromoupgradetierlevel",
  "-nostromotransfersharemanagementrights"}
  BY SMTT(60), TableDomain DEF NostromoOptions

LEMMA NostromoQueryOptionsRows == \A o : o \in DOMAIN NostromoQueryOptions <=> o \in
  {"-nostromogetstats", "-nostromogettierlevelbyuser", "-nostromogetuservotestatus",
  "-nostromochecktokencreatability", "-nostromogetnumberofinvestedprojects",
  "-nostromogetprojectbyindex", "-nostromogetfundraisingbyindex",
  "-nostromogetprojectindexlistbycreator", "-nostromogetinfouserinvested",
  "-nostromogetmaxclaimamount"}
  BY SMTT(60), TableDomain DEF NostromoQueryOptions

LEMMA QbondOptionsRows == \A o : o \in DOMAIN QbondOptions <=> o \in
  {"-qbondstake", "-qbondtransfer", "-qbondaddask", "-qbondremoveask", "-qbondaddbid",
  "-qbondremovebid", "-qbondburnqu", "-qbondupdatecfa"}
  BY SMTT(60), TableDomain DEF QbondOptions

LEMMA QbondQueryOptionsRows == \A o : o \in DOMAIN QbondQueryOptions <=> o \in
  {"-qbondgetfees", "-qbondgetearnedfees", "-qbondgetinfoperepoch", "-qbondgetorders",
  "-qbondgetuserorders", "-qbondtable", "-qbondgetusermbonds", "-qbondgetcfa"}
  BY SMTT(60), TableDomain DEF QbondQueryOptions

LEMMA EscrowOptionsRows == \A o : o \in DOMAIN EscrowOptions <=> o \in
  {"-escrowcreatedeal", "-escrowgetdeals", "-escrowacceptdeal",
  "-escrowmakedealpublic", "-escrowcanceldeal", "-escrowtransferrights",
  "-escrowgetfreeasset"}
  BY SMTT(60), TableDomain DEF EscrowOptions

LEMMA ShareholderOptionsRows == \A o : o \in DOMAIN ShareholderOptions <=> o \in
  {"-setshareholderproposal", "-clearshareholderproposal", "-getshareholderproposals",
  "-shareholdervote", "-getshareholdervotes", "-getshareholderresults"}
  BY SMTT(60), TableDomain DEF ShareholderOptions

LEMMA TestOptionsRows == \A o : o \in DOMAIN TestOptions <=> o \in
  {"-testqpifunctionsoutput", "-testqpifunctionsoutputpast",
  "-testgetincomingtransferamounts", "-testbidinipothroughcontract"}
  BY SMTT(60), TableDomain DEF TestOptions

LEMMA OptionsDomain ==
  \A o : o \in DOMAIN Options <=>
    \/ o \in DOMAIN WalletOptions
    \/ o \in DOMAIN QueryOptions
    \/ o \in DOMAIN ProtocolOptions
    \/ o \in DOMAIN NodeOptions
    \/ o \in DOMAIN OracleOptions
    \/ o \in DOMAIN QrwaOptions
    \/ o \in DOMAIN QxOptions
    \/ o \in DOMAIN QswapPoolOptions
    \/ o \in DOMAIN QswapSwapOptions
    \/ o \in DOMAIN QuotteryOptions
    \/ o \in DOMAIN QutilOptions
    \/ o \in DOMAIN QutilQueryOptions
    \/ o \in DOMAIN GqmpropOptions
    \/ o \in DOMAIN CcfOptions
    \/ o \in DOMAIN QearnOptions
    \/ o \in DOMAIN QvaultOptions
    \/ o \in DOMAIN MsvaultOptions
    \/ o \in DOMAIN MsvaultAssetOptions
    \/ o \in DOMAIN NostromoOptions
    \/ o \in DOMAIN NostromoQueryOptions
    \/ o \in DOMAIN QbondOptions
    \/ o \in DOMAIN QbondQueryOptions
    \/ o \in DOMAIN EscrowOptions
    \/ o \in DOMAIN ShareholderOptions
    \/ o \in DOMAIN TestOptions
<1> DEFINE first == WalletOptions @@ QueryOptions @@ ProtocolOptions @@
               NodeOptions @@ OracleOptions @@ QrwaOptions @@ QxOptions @@
               QswapPoolOptions @@ QswapSwapOptions @@ QuotteryOptions @@
               QutilOptions @@ QutilQueryOptions @@ GqmpropOptions
<1>1. \A o : o \in DOMAIN first <=>
        \/ o \in DOMAIN WalletOptions
        \/ o \in DOMAIN QueryOptions
        \/ o \in DOMAIN ProtocolOptions
        \/ o \in DOMAIN NodeOptions
        \/ o \in DOMAIN OracleOptions
        \/ o \in DOMAIN QrwaOptions
        \/ o \in DOMAIN QxOptions
        \/ o \in DOMAIN QswapPoolOptions
        \/ o \in DOMAIN QswapSwapOptions
        \/ o \in DOMAIN QuotteryOptions
        \/ o \in DOMAIN QutilOptions
        \/ o \in DOMAIN QutilQueryOptions
        \/ o \in DOMAIN GqmpropOptions
  BY SMTT(60), TableDomain
<1>2. Options = first @@ CcfOptions @@ QearnOptions @@ QvaultOptions @@
                    MsvaultOptions @@ MsvaultAssetOptions @@ NostromoOptions @@
                    NostromoQueryOptions @@ QbondOptions @@ QbondQueryOptions @@
                    EscrowOptions @@ ShareholderOptions @@ TestOptions
  BY DEF Options
<1> HIDE DEF first
<1>3. \A o : o \in DOMAIN Options <=>
        \/ o \in DOMAIN first
        \/ o \in DOMAIN CcfOptions
        \/ o \in DOMAIN QearnOptions
        \/ o \in DOMAIN QvaultOptions
        \/ o \in DOMAIN MsvaultOptions
        \/ o \in DOMAIN MsvaultAssetOptions
        \/ o \in DOMAIN NostromoOptions
        \/ o \in DOMAIN NostromoQueryOptions
        \/ o \in DOMAIN QbondOptions
        \/ o \in DOMAIN QbondQueryOptions
        \/ o \in DOMAIN EscrowOptions
        \/ o \in DOMAIN ShareholderOptions
        \/ o \in DOMAIN TestOptions
  BY SMTT(60), <1>2, TableDomain
<1> QED
  BY SMTT(60), <1>1, <1>3

(* Every option of the text is one of the parser's, but for a misspelt one.  *)
LEMMA NotParsedIs == NotParsed = {"-nostromogetInfoUserInvested"}
<1>1. \A o \in DOMAIN HelpWallet : o \in DOMAIN Options
  BY SMTT(60), HelpWalletOptions,
     WalletOptionsRows, QueryOptionsRows, ProtocolOptionsRows, NodeOptionsRows,
     OracleOptionsRows, QrwaOptionsRows, QxOptionsRows, QswapPoolOptionsRows,
     QswapSwapOptionsRows, QuotteryOptionsRows, QutilOptionsRows,
     QutilQueryOptionsRows, GqmpropOptionsRows, CcfOptionsRows, QearnOptionsRows,
     QvaultOptionsRows, MsvaultOptionsRows, MsvaultAssetOptionsRows,
     NostromoOptionsRows, NostromoQueryOptionsRows, QbondOptionsRows,
     QbondQueryOptionsRows, EscrowOptionsRows, ShareholderOptionsRows,
     TestOptionsRows, OptionsDomain
<1>2. \A o \in DOMAIN HelpQutil : o \in DOMAIN Options
  BY SMTT(60), HelpQutilOptions,
     WalletOptionsRows, QueryOptionsRows, ProtocolOptionsRows, NodeOptionsRows,
     OracleOptionsRows, QrwaOptionsRows, QxOptionsRows, QswapPoolOptionsRows,
     QswapSwapOptionsRows, QuotteryOptionsRows, QutilOptionsRows,
     QutilQueryOptionsRows, GqmpropOptionsRows, CcfOptionsRows, QearnOptionsRows,
     QvaultOptionsRows, MsvaultOptionsRows, MsvaultAssetOptionsRows,
     NostromoOptionsRows, NostromoQueryOptionsRows, QbondOptionsRows,
     QbondQueryOptionsRows, EscrowOptionsRows, ShareholderOptionsRows,
     TestOptionsRows, OptionsDomain
<1>3. \A o \in DOMAIN HelpProtocol : o \in DOMAIN Options
  BY SMTT(60), HelpProtocolOptions,
     WalletOptionsRows, QueryOptionsRows, ProtocolOptionsRows, NodeOptionsRows,
     OracleOptionsRows, QrwaOptionsRows, QxOptionsRows, QswapPoolOptionsRows,
     QswapSwapOptionsRows, QuotteryOptionsRows, QutilOptionsRows,
     QutilQueryOptionsRows, GqmpropOptionsRows, CcfOptionsRows, QearnOptionsRows,
     QvaultOptionsRows, MsvaultOptionsRows, MsvaultAssetOptionsRows,
     NostromoOptionsRows, NostromoQueryOptionsRows, QbondOptionsRows,
     QbondQueryOptionsRows, EscrowOptionsRows, ShareholderOptionsRows,
     TestOptionsRows, OptionsDomain
<1>4. \A o \in DOMAIN HelpNode : o \in DOMAIN Options
  BY SMTT(60), HelpNodeOptions,
     WalletOptionsRows, QueryOptionsRows, ProtocolOptionsRows, NodeOptionsRows,
     OracleOptionsRows, QrwaOptionsRows, QxOptionsRows, QswapPoolOptionsRows,
     QswapSwapOptionsRows, QuotteryOptionsRows, QutilOptionsRows,
     QutilQueryOptionsRows, GqmpropOptionsRows, CcfOptionsRows, QearnOptionsRows,
     QvaultOptionsRows, MsvaultOptionsRows, MsvaultAssetOptionsRows,
     NostromoOptionsRows, NostromoQueryOptionsRows, QbondOptionsRows,
     QbondQueryOptionsRows, EscrowOptionsRows, ShareholderOptionsRows,
     TestOptionsRows, OptionsDomain
<1>5. \A o \in DOMAIN HelpOracleQrwa : o \in DOMAIN Options
  BY SMTT(60), HelpOracleQrwaOptions,
     WalletOptionsRows, QueryOptionsRows, ProtocolOptionsRows, NodeOptionsRows,
     OracleOptionsRows, QrwaOptionsRows, QxOptionsRows, QswapPoolOptionsRows,
     QswapSwapOptionsRows, QuotteryOptionsRows, QutilOptionsRows,
     QutilQueryOptionsRows, GqmpropOptionsRows, CcfOptionsRows, QearnOptionsRows,
     QvaultOptionsRows, MsvaultOptionsRows, MsvaultAssetOptionsRows,
     NostromoOptionsRows, NostromoQueryOptionsRows, QbondOptionsRows,
     QbondQueryOptionsRows, EscrowOptionsRows, ShareholderOptionsRows,
     TestOptionsRows, OptionsDomain
<1>6. \A o \in DOMAIN HelpShareholdersQx : o \in DOMAIN Options
  BY SMTT(60), HelpShareholdersQxOptions,
     WalletOptionsRows, QueryOptionsRows, ProtocolOptionsRows, NodeOptionsRows,
     OracleOptionsRows, QrwaOptionsRows, QxOptionsRows, QswapPoolOptionsRows,
     QswapSwapOptionsRows, QuotteryOptionsRows, QutilOptionsRows,
     QutilQueryOptionsRows, GqmpropOptionsRows, CcfOptionsRows, QearnOptionsRows,
     QvaultOptionsRows, MsvaultOptionsRows, MsvaultAssetOptionsRows,
     NostromoOptionsRows, NostromoQueryOptionsRows, QbondOptionsRows,
     QbondQueryOptionsRows, EscrowOptionsRows, ShareholderOptionsRows,
     TestOptionsRows, OptionsDomain
<1>7. \A o \in DOMAIN HelpQuottery : o \in DOMAIN Options
  BY SMTT(60), HelpQuotteryOptions,
     WalletOptionsRows, QueryOptionsRows, ProtocolOptionsRows, NodeOptionsRows,
     OracleOptionsRows, QrwaOptionsRows, QxOptionsRows, QswapPoolOptionsRows,
     QswapSwapOptionsRows, QuotteryOptionsRows, QutilOptionsRows,
     QutilQueryOptionsRows, GqmpropOptionsRows, CcfOptionsRows, QearnOptionsRows,
     QvaultOptionsRows, MsvaultOptionsRows, MsvaultAssetOptionsRows,
     NostromoOptionsRows, NostromoQueryOptionsRows, QbondOptionsRows,
     QbondQueryOptionsRows, EscrowOptionsRows, ShareholderOptionsRows,
     TestOptionsRows, OptionsDomain
<1>8. \A o \in DOMAIN HelpProposals : o \in DOMAIN Options
  BY SMTT(60), HelpProposalsOptions,
     WalletOptionsRows, QueryOptionsRows, ProtocolOptionsRows, NodeOptionsRows,
     OracleOptionsRows, QrwaOptionsRows, QxOptionsRows, QswapPoolOptionsRows,
     QswapSwapOptionsRows, QuotteryOptionsRows, QutilOptionsRows,
     QutilQueryOptionsRows, GqmpropOptionsRows, CcfOptionsRows, QearnOptionsRows,
     QvaultOptionsRows, MsvaultOptionsRows, MsvaultAssetOptionsRows,
     NostromoOptionsRows, NostromoQueryOptionsRows, QbondOptionsRows,
     QbondQueryOptionsRows, EscrowOptionsRows, ShareholderOptionsRows,
     TestOptionsRows, OptionsDomain
<1>9. \A o \in DOMAIN HelpQearnQvault : o \in DOMAIN Options
  BY SMTT(60), HelpQearnQvaultOptions,
     WalletOptionsRows, QueryOptionsRows, ProtocolOptionsRows, NodeOptionsRows,
     OracleOptionsRows, QrwaOptionsRows, QxOptionsRows, QswapPoolOptionsRows,
     QswapSwapOptionsRows, QuotteryOptionsRows, QutilOptionsRows,
     QutilQueryOptionsRows, GqmpropOptionsRows, CcfOptionsRows, QearnOptionsRows,
     QvaultOptionsRows, MsvaultOptionsRows, MsvaultAssetOptionsRows,
     NostromoOptionsRows, NostromoQueryOptionsRows, QbondOptionsRows,
     QbondQueryOptionsRows, EscrowOptionsRows, ShareholderOptionsRows,
     TestOptionsRows, OptionsDomain
<1>10. \A o \in DOMAIN HelpMsvault : o \in DOMAIN Options
  BY SMTT(60), HelpMsvaultOptions,
     WalletOptionsRows, QueryOptionsRows, ProtocolOptionsRows, NodeOptionsRows,
     OracleOptionsRows, QrwaOptionsRows, QxOptionsRows, QswapPoolOptionsRows,
     QswapSwapOptionsRows, QuotteryOptionsRows, QutilOptionsRows,
     QutilQueryOptionsRows, GqmpropOptionsRows, CcfOptionsRows, QearnOptionsRows,
     QvaultOptionsRows, MsvaultOptionsRows, MsvaultAssetOptionsRows,
     NostromoOptionsRows, NostromoQueryOptionsRows, QbondOptionsRows,
     QbondQueryOptionsRows, EscrowOptionsRows, ShareholderOptionsRows,
     TestOptionsRows, OptionsDomain
<1>11. \A o \in DOMAIN HelpQswap : o \in DOMAIN Options
  BY SMTT(60), HelpQswapOptions,
     WalletOptionsRows, QueryOptionsRows, ProtocolOptionsRows, NodeOptionsRows,
     OracleOptionsRows, QrwaOptionsRows, QxOptionsRows, QswapPoolOptionsRows,
     QswapSwapOptionsRows, QuotteryOptionsRows, QutilOptionsRows,
     QutilQueryOptionsRows, GqmpropOptionsRows, CcfOptionsRows, QearnOptionsRows,
     QvaultOptionsRows, MsvaultOptionsRows, MsvaultAssetOptionsRows,
     NostromoOptionsRows, NostromoQueryOptionsRows, QbondOptionsRows,
     QbondQueryOptionsRows, EscrowOptionsRows, ShareholderOptionsRows,
     TestOptionsRows, OptionsDomain
<1>12. \A o \in DOMAIN HelpNostromo \ {"-nostromogetInfoUserInvested"} : o \in DOMAIN Options
  BY SMTT(60), HelpNostromoOptions,
     WalletOptionsRows, QueryOptionsRows, ProtocolOptionsRows, NodeOptionsRows,
     OracleOptionsRows, QrwaOptionsRows, QxOptionsRows, QswapPoolOptionsRows,
     QswapSwapOptionsRows, QuotteryOptionsRows, QutilOptionsRows,
     QutilQueryOptionsRows, GqmpropOptionsRows, CcfOptionsRows, QearnOptionsRows,
     QvaultOptionsRows, MsvaultOptionsRows, MsvaultAssetOptionsRows,
     NostromoOptionsRows, NostromoQueryOptionsRows, QbondOptionsRows,
     QbondQueryOptionsRows, EscrowOptionsRows, ShareholderOptionsRows,
     TestOptionsRows, OptionsDomain
<1>13. \A o \in DOMAIN HelpQbond : o \in DOMAIN Options
  BY SMTT(60), HelpQbondOptions,
     WalletOptionsRows, QueryOptionsRows, ProtocolOptionsRows, NodeOptionsRows,
     OracleOptionsRows, QrwaOptionsRows, QxOptionsRows, QswapPoolOptionsRows,
     QswapSwapOptionsRows, QuotteryOptionsRows, QutilOptionsRows,
     QutilQueryOptionsRows, GqmpropOptionsRows, CcfOptionsRows, QearnOptionsRows,
     QvaultOptionsRows, MsvaultOptionsRows, MsvaultAssetOptionsRows,
     NostromoOptionsRows, NostromoQueryOptionsRows, QbondOptionsRows,
     QbondQueryOptionsRows, EscrowOptionsRows, ShareholderOptionsRows,
     TestOptionsRows, OptionsDomain
<1>14. \A o \in DOMAIN HelpEscrowTests : o \in DOMAIN Options
  BY SMTT(60), HelpEscrowTestsOptions,
     WalletOptionsRows, QueryOptionsRows, ProtocolOptionsRows, NodeOptionsRows,
     OracleOptionsRows, QrwaOptionsRows, QxOptionsRows, QswapPoolOptionsRows,
     QswapSwapOptionsRows, QuotteryOptionsRows, QutilOptionsRows,
     QutilQueryOptionsRows, GqmpropOptionsRows, CcfOptionsRows, QearnOptionsRows,
     QvaultOptionsRows, MsvaultOptionsRows, MsvaultAssetOptionsRows,
     NostromoOptionsRows, NostromoQueryOptionsRows, QbondOptionsRows,
     QbondQueryOptionsRows, EscrowOptionsRows, ShareholderOptionsRows,
     TestOptionsRows, OptionsDomain
<1>15. "-nostromogetInfoUserInvested" \notin DOMAIN Options
  BY SMTT(60),
     WalletOptionsRows, QueryOptionsRows, ProtocolOptionsRows, NodeOptionsRows,
     OracleOptionsRows, QrwaOptionsRows, QxOptionsRows, QswapPoolOptionsRows,
     QswapSwapOptionsRows, QuotteryOptionsRows, QutilOptionsRows,
     QutilQueryOptionsRows, GqmpropOptionsRows, CcfOptionsRows, QearnOptionsRows,
     QvaultOptionsRows, MsvaultOptionsRows, MsvaultAssetOptionsRows,
     NostromoOptionsRows, NostromoQueryOptionsRows, QbondOptionsRows,
     QbondQueryOptionsRows, EscrowOptionsRows, ShareholderOptionsRows,
     TestOptionsRows, OptionsDomain
<1>16. "-nostromogetInfoUserInvested" \in DOMAIN HelpNostromo
  BY HelpNostromoOptions
<1> QED
  BY DocumentedDomain, <1>1, <1>2, <1>3, <1>4, <1>5, <1>6, <1>7, <1>8, <1>9, <1>10, <1>11, <1>12, <1>13, <1>14, <1>15, <1>16 DEF NotParsed

(* Block by block: the words a block takes are those the text gives for its *)
(* option.                                                                  *)
LEMMA WalletOptionsCount == CountTable(WalletOptions)
<1>1. /\ Extends(Documented, HelpWallet)
      /\ Extends(Documented, HelpQutil)
  BY DocumentedHas
<1> QED
  BY ZenonT(120), <1>1, CountTables, CountLists, CountRows, HelpWalletSays,
     HelpQutilSays, SaysOfBlocks, CountShorter
     DEF WalletOptions

LEMMA QueryOptionsCount == CountTable(QueryOptions)
<1>1. /\ Extends(Documented, HelpProtocol)
      /\ Extends(Documented, HelpNode)
  BY DocumentedHas
<1> QED
  BY ZenonT(120), <1>1, CountTables, CountLists, CountRows, HelpProtocolSays,
     HelpNodeSays, SaysOfBlocks, CountShorter
     DEF QueryOptions

LEMMA ProtocolOptionsCount == CountTable(ProtocolOptions)
<1>1. /\ Extends(Documented, HelpProtocol)
      /\ Extends(Documented, HelpShareholdersQx)
  BY DocumentedHas
<1> QED
  BY ZenonT(120), <1>1, CountTables, CountLists, CountRows, HelpProtocolSays,
     HelpShareholdersQxSays, SaysOfBlocks
     DEF ProtocolOptions

LEMMA NodeOptionsCount == CountTable(NodeOptions)
<1>1. /\ Extends(Documented, HelpProtocol)
      /\ Extends(Documented, HelpNode)
  BY DocumentedHas
<1> QED
  BY ZenonT(150), <1>1, CountTables, CountLists, CountRows, HelpProtocolSays,
     HelpNodeSays, SaysOfBlocks, CountUnchecked
     DEF NodeOptions, UncheckedWords

LEMMA OracleOptionsCount == CountTable(OracleOptions)
<1>1. Extends(Documented, HelpOracleQrwa)
  BY DocumentedHas
<1> QED
  BY ZenonT(120), <1>1, CountTables, CountLists, CountRows, HelpOracleQrwaSays,
     SaysOfBlocks, CountShorter
     DEF OracleOptions

LEMMA QrwaOptionsCount == CountTable(QrwaOptions)
<1>1. Extends(Documented, HelpOracleQrwa)
  BY DocumentedHas
<1> QED
  BY ZenonT(120), <1>1, CountTables, CountLists, CountRows, HelpOracleQrwaSays,
     SaysOfBlocks
     DEF QrwaOptions

LEMMA QxOptionsCount == CountTable(QxOptions)
<1>1. Extends(Documented, HelpShareholdersQx)
  BY DocumentedHas
<1> QED
  BY ZenonT(120), <1>1, CountTables, CountLists, CountRows,
     HelpShareholdersQxSays, SaysOfBlocks
     DEF QxOptions

LEMMA QswapPoolOptionsCount == CountTable(QswapPoolOptions)
<1>1. Extends(Documented, HelpQswap)
  BY DocumentedHas
<1>2. \A c, x, y, z : Counted("-qswapgetliquidityof", Takes(c, <<x, y, z>>))
  <2>1. Says(Documented, "-qswapgetliquidityof", 2..3)
    BY <1>1, HelpQswapSays, SaysOfBlocks
  <2>2. \A x, y, z : Len(<<x, y, z>>) = 3
    OBVIOUS
  <2> QED
    BY ZenonT(60), <2>1, <2>2, CountRows
<1> QED
  BY ZenonT(120), <1>1, <1>2, CountTables, CountLists, HelpQswapSays, SaysOfBlocks
     DEF QswapPoolOptions

LEMMA QswapSwapOptionsCount == CountTable(QswapSwapOptions)
<1>1. Extends(Documented, HelpQswap)
  BY DocumentedHas
<1> QED
  BY ZenonT(120), <1>1, CountTables, CountLists, CountRows, HelpQswapSays,
     SaysOfBlocks
     DEF QswapSwapOptions

LEMMA QuotteryOptionsCount == CountTable(QuotteryOptions)
<1>1. Extends(Documented, HelpQuottery)
  BY DocumentedHas
<1> QED
  BY ZenonT(120), <1>1, CountTables, CountLists, CountRows, HelpQuotterySays,
     SaysOfBlocks
     DEF QuotteryOptions

LEMMA QutilOptionsCount == CountTable(QutilOptions)
<1>1. Extends(Documented, HelpQutil)
  BY DocumentedHas
<1> QED
  BY ZenonT(120), <1>1, CountTables, CountLists, CountRows, HelpQutilSays,
     SaysOfBlocks
     DEF QutilOptions

LEMMA QutilQueryOptionsCount == CountTable(QutilQueryOptions)
<1>1. Extends(Documented, HelpQutil)
  BY DocumentedHas
<1> QED
  BY ZenonT(120), <1>1, CountTables, CountLists, CountRows, HelpQutilSays,
     SaysOfBlocks
     DEF QutilQueryOptions

LEMMA GqmpropOptionsCount == CountTable(GqmpropOptions)
<1>1. Extends(Documented, HelpProposals)
  BY DocumentedHas
<1> QED
  BY ZenonT(120), <1>1, CountTables, CountLists, CountRows, HelpProposalsSays,
     SaysOfBlocks, CountShorter
     DEF GqmpropOptions

LEMMA CcfOptionsCount == CountTable(CcfOptions)
<1>1. Extends(Documented, HelpProposals)
  BY DocumentedHas
<1> QED
  BY ZenonT(120), <1>1, CountTables, CountLists, CountRows, HelpProposalsSays,
     SaysOfBlocks, CountShorter
     DEF CcfOptions

LEMMA QearnOptionsCount == CountTable(QearnOptions)
<1>1. Extends(Documented, HelpQearnQvault)
  BY DocumentedHas
<1> QED
  BY ZenonT(120), <1>1, CountTables, CountLists, CountRows, HelpQearnQvaultSays,
     SaysOfBlocks
     DEF QearnOptions

LEMMA QvaultOptionsCount == CountTable(QvaultOptions)
<1>1. Extends(Documented, HelpQearnQvault)
  BY DocumentedHas
<1> QED
  BY ZenonT(120), <1>1, CountTables, CountLists, CountRows, HelpQearnQvaultSays,
     SaysOfBlocks
     DEF QvaultOptions

LEMMA MsvaultOptionsCount == CountTable(MsvaultOptions)
<1>1. Extends(Documented, HelpMsvault)
  BY DocumentedHas
<1> QED
  BY ZenonT(120), <1>1, CountTables, CountLists, CountRows, HelpMsvaultSays,
     SaysOfBlocks
     DEF MsvaultOptions

LEMMA MsvaultAssetOptionsCount == CountTable(MsvaultAssetOptions)
<1>1. Extends(Documented, HelpMsvault)
  BY DocumentedHas
<1> QED
  BY ZenonT(120), <1>1, CountTables, CountLists, CountRows, HelpMsvaultSays,
     SaysOfBlocks
     DEF MsvaultAssetOptions

LEMMA NostromoOptionsCount == CountTable(NostromoOptions)
<1>1. Extends(Documented, HelpNostromo)
  BY DocumentedHas
<1> QED
  BY ZenonT(120), <1>1, CountTables, CountLists, CountRows, HelpNostromoSays,
     SaysOfBlocks, FundraisingCount
     DEF NostromoOptions

LEMMA NostromoQueryOptionsCount == CountTable(NostromoQueryOptions)
<1>1. Extends(Documented, HelpNostromo)
  BY DocumentedHas
<1> QED
  BY ZenonT(120), <1>1, CountTables, CountLists, CountRows, HelpNostromoSays,
     SaysOfBlocks, SpelledOtherwise
     DEF NostromoQueryOptions

LEMMA QbondOptionsCount == CountTable(QbondOptions)
<1>1. Extends(Documented, HelpQbond)
  BY DocumentedHas
<1> QED
  BY ZenonT(120), <1>1, CountTables, CountLists, CountRows, HelpQbondSays,
     SaysOfBlocks
     DEF QbondOptions

LEMMA QbondQueryOptionsCount == CountTable(QbondQueryOptions)
<1>1. Extends(Documented, HelpQbond)
  BY DocumentedHas
<1> QED
  BY ZenonT(120), <1>1, CountTables, CountLists, CountRows, HelpQbondSays,
     SaysOfBlocks
     DEF QbondQueryOptions

LEMMA EscrowOptionsCount == CountTable(EscrowOptions)
<1>1. Extends(Documented, HelpEscrowTests)
  BY DocumentedHas
<1> QED
  BY ZenonT(120), <1>1, CountTables, CountLists, CountRows, HelpEscrowTestsSays,
     SaysOfBlocks
     DEF EscrowOptions

LEMMA ShareholderOptionsCount == CountTable(ShareholderOptions)
<1>1. Extends(Documented, HelpShareholdersQx)
  BY DocumentedHas
<1> QED
  BY ZenonT(120), <1>1, CountTables, CountLists, CountRows,
     HelpShareholdersQxSays, SaysOfBlocks, CountShorter
     DEF ShareholderOptions

LEMMA TestOptionsCount == CountTable(TestOptions)
<1>1. Extends(Documented, HelpEscrowTests)
  BY DocumentedHas
<1> QED
  BY ZenonT(120), <1>1, CountTables, CountLists, CountRows, HelpEscrowTestsSays,
     SaysOfBlocks, CountUnchecked
     DEF TestOptions, UncheckedWords

LEMMA OptionsCount == CountTable(Options)
  BY CountTables, WalletOptionsCount, QueryOptionsCount, ProtocolOptionsCount,
     NodeOptionsCount, OracleOptionsCount, QrwaOptionsCount, QxOptionsCount,
     QswapPoolOptionsCount, QswapSwapOptionsCount, QuotteryOptionsCount,
     QutilOptionsCount, QutilQueryOptionsCount, GqmpropOptionsCount,
     CcfOptionsCount, QearnOptionsCount, QvaultOptionsCount,
     MsvaultOptionsCount, MsvaultAssetOptionsCount, NostromoOptionsCount,
     NostromoQueryOptionsCount, QbondOptionsCount, QbondQueryOptionsCount,
     EscrowOptionsCount, ShareholderOptionsCount, TestOptionsCount
     DEF Options

-----------------------------------------------------------------------------
(* What a command is called with, from the rows.                            *)

(* A contract that is known here is one the settings let through.           *)
Allowed(w) ==
  /\ w = 3 => settings["nodeport"] # "default"
  /\ w = 2 => settings["nodeport"] # "default" \/ "enabletestcontracts" \in flags

AsTyped(g) ==
  \E p \in DOMAIN Options[line.option].params :
    /\ Options[line.option].params[p].global = g
    /\ globals[g] = Word(line, p)

Selected ==
  /\ command \in DOMAIN Dispatch /\ line.option \in DOMAIN Options
  /\ command # "SEND_COIN_IN_TICK" => \A g \in DOMAIN globals \cap Amounts : AsTyped(g)
  /\ "contractIndex" \in DOMAIN globals => Allowed(globals["contractIndex"])

CallInv ==
  /\ command # "TOTAL_COMMAND" => Selected
  /\ phase = "called" => command # "TOTAL_COMMAND"
  /\ SeedChecked

LEMMA LineFacts ==
  ASSUME NEW o \in DOMAIN Options, NEW l \in Lines(o)
  PROVE  l.option = o /\ l.supplied \in Nat /\ l.odd \in Int /\ RowOk(Options[o])
<1>1. RowOk(Options[o])
  BY OptionsOk DEF TableOk
<1> DEFINE n == Len(Options[o].params)
<1>2. n \in Nat /\ Options[o].checked \in Nat
  BY <1>1 DEF RowOk, IsList
<1>3. ASSUME NEW p PROVE OddWordsOf(Options[o], p) \subseteq Int
  <2>1. \A kind : OddWords(kind) \subseteq Int
    BY WidthsAssumption DEF OddWords
  <2> QED
    BY <2>1 DEF OddWordsOf
<1>4. \E k \in Nat, p, w \in Int : l = [option |-> o, supplied |-> k, oddAt |-> p, odd |-> w]
  <2> DEFINE typedLine(k, p, w) == [option |-> o, supplied |-> k, oddAt |-> p, odd |-> w]
  <2>1. \/ l \in {typedLine(k, 0, 1) : k \in 0..(n + 1)}
        \/ \E k \in Options[o].checked..n : \E p \in 1..k :
             l \in {typedLine(k, p, w) : w \in OddWordsOf(Options[o], p)}
    BY DEF Lines
  <2>2. 0..(n + 1) \subseteq Nat /\ Options[o].checked..n \subseteq Nat
    BY <1>2
  <2> QED
    BY <1>3, <2>1, <2>2
<1> QED
  BY <1>1, <1>4

LEMMA StoredIsInt ==
  ASSUME NEW kind, NEW w \in Int
  PROVE  Stored(kind, w) \in Int
<1>1. ASSUME NEW wrap \in Nat, wrap > 0 PROVE w % wrap \in Int /\ Signed(w, wrap) \in Int
  BY <1>1 DEF Signed
<1>2. /\ Wrap8 \in Nat /\ Wrap8 > 0 /\ Wrap16 \in Nat /\ Wrap16 > 0
      /\ Wrap32 \in Nat /\ Wrap32 > 0
  BY WidthsAssumption
<1> QED
  BY <1>1, <1>2 DEF Stored

(* What a global holds after its block: a word that the block has read, in  *)
(* the conversion of its parameter; amounts and contracts nothing else.     *)
LEMMA GlobalsFacts ==
  ASSUME NEW row, RowOk(row), NEW l, l.supplied \in Nat,
         NEW g \in DOMAIN GlobalsSetBy(row, l)
  PROVE  \/ \E p \in ReadBy(row, l) \cap DOMAIN row.params :
              /\ row.params[p].global = g
              /\ GlobalsSetBy(row, l)[g] = Stored(row.params[p].kind, Word(l, p))
         \/ g \notin Traced /\ GlobalsSetBy(row, l)[g] \in Int
<1> DEFINE S(P) == [x \in {row.params[p].global : p \in P} |->
                      LET p == CHOOSE q \in P : row.params[q].global = x
                      IN  Stored(row.params[p].kind, Word(l, p))]
<1>1. ASSUME NEW P, g \in DOMAIN S(P)
      PROVE  \E p \in P : /\ row.params[p].global = g
                          /\ S(P)[g] = Stored(row.params[p].kind, Word(l, p))
  <2>1. \E q \in P : row.params[q].global = g
    BY <1>1
  <2> DEFINE p == CHOOSE q \in P : row.params[q].global = g
  <2>2. p \in P /\ row.params[p].global = g
    BY <2>1
  <2>3. S(P)[g] = Stored(row.params[p].kind, Word(l, p))
    BY <1>1
  <2> QED
    BY <2>2, <2>3
<1>2. Len(row.params) \in Nat /\ DOMAIN row.params = 1..Len(row.params)
  BY DEF RowOk, IsList
<1> DEFINE G == GlobalsSetBy(row, l)
<1>3. CASE row.form = "all"
  <2> DEFINE A == "quottery_subcmd" :> 1
             B == "quottery_subcmd_count" :> l.supplied + 1
  <2>1. G = A @@ B
    BY <1>3 DEF GlobalsSetBy
  <2>2. /\ g \in {"quottery_subcmd", "quottery_subcmd_count"}
    BY <2>1, TableDomain
  <2>3. \A x : /\ x \in DOMAIN A => A[x] = 1
               /\ x \in DOMAIN B => B[x] = l.supplied + 1
    <3>1. /\ A = Each({"quottery_subcmd"}, 1)
          /\ B = Each({"quottery_subcmd_count"}, l.supplied + 1)
      BY EachFacts
    <3> HIDE DEF A, B
    <3> QED
      BY <3>1, EachFacts
  <2> HIDE DEF A, B
  <2>4. G = Merge(A, B)
    BY <2>1, MergeFacts
  <2> HIDE DEF G
  <2>5. G[g] \in {1, l.supplied + 1}
    BY <2>3, <2>4, MergeFacts DEF G
  <2> QED
    BY <2>2, <2>5 DEF Traced, Amounts, G
<1>4. CASE row.form = "fixed"
  <2>1. G = [x \in Named(row.params) |-> 1]
    BY <1>4 DEF GlobalsSetBy
  <2> QED
    BY <1>4, <2>1 DEF RowOk
<1>5. CASE row.form = "payout"
  <2>1. ReadBy(row, l) \subseteq DOMAIN row.params
    <3>1. ReadBy(row, l) \in {1..2, 1..1}
      BY <1>5 DEF ReadBy
    <3>2. DOMAIN row.params = 1..2
      BY <1>2, <1>5 DEF RowOk
    <3> QED
      BY <3>1, <3>2
  <2>2. G = S(ReadBy(row, l) \ {1}) \/ G = S(ReadBy(row, l))
    BY <1>5 DEF GlobalsSetBy
  <2> HIDE DEF S
  <2> QED
    BY <1>1, <2>1, <2>2
<1>6. CASE row.form = "poll"
  <2>1. ReadBy(row, l) \subseteq DOMAIN row.params
    <3>1. ReadBy(row, l) \in {1..5, 1..4}
      BY <1>6 DEF ReadBy
    <3>2. DOMAIN row.params = 1..5
      BY <1>2, <1>6 DEF RowOk
    <3> QED
      BY <3>1, <3>2
  <2>2. \/ G = S(ReadBy(row, l))
        \/ /\ G = S(1..4) @@ "qutil_semicolonSeparatedAssets" :> Null
           /\ Word(l, 2) = 1
    BY <1>6 DEF GlobalsSetBy
  <2>3. CASE G = S(ReadBy(row, l))
    <3> HIDE DEF S
    <3> QED
      BY <1>1, <2>1, <2>3
  <2>4. CASE /\ G = S(1..4) @@ "qutil_semicolonSeparatedAssets" :> Null
             /\ Word(l, 2) = 1
    <3>1. ReadBy(row, l) = 1..4
      BY <1>6, <2>4 DEF ReadBy
    <3> DEFINE T == "qutil_semicolonSeparatedAssets" :> Null
    <3>2. g \in DOMAIN T => g \notin Traced /\ T[g] \in Int
      BY TableDomain, EachFacts DEF Traced, Amounts, Null
    <3>3. G = Merge(S(1..4), T)
      BY <2>4, MergeFacts
    <3> HIDE DEF T, S, G
    <3>4. \/ g \in DOMAIN S(1..4) /\ G[g] = S(1..4)[g]
          \/ g \in DOMAIN T /\ G[g] = T[g]
      BY <3>3, MergeFacts DEF G
    <3> QED
      BY <1>1, <2>1, <3>1, <3>2, <3>4 DEF G
  <2> QED
    BY <2>2, <2>3, <2>4
<1>7. CASE row.form \notin {"all", "fixed", "payout", "poll"}
  <2>1. ReadBy(row, l) \subseteq DOMAIN row.params
    BY <1>2, <1>7 DEF ReadBy
  <2>2. G = S(ReadBy(row, l))
    BY <1>7 DEF GlobalsSetBy
  <2> HIDE DEF S
  <2> QED
    BY <1>1, <2>1, <2>2
<1> QED
  BY <1>3, <1>4, <1>5, <1>6, <1>7

(* The command that a row selects.                                          *)
LEMMA SelectedByFacts ==
  ASSUME NEW row, RowOk(row), NEW l
  PROVE  /\ SelectedBy(row, l) \in DOMAIN Dispatch
         /\ SelectedBy(row, l) # "SEND_COIN_IN_TICK" => AllExact(row.params)
<1>1. CASE row.form = "payout" /\ Word(l, 1) \in 1..4
  <2>1. SelectedBy(row, l) \in {"QRWA_PAYOUT_POOL_A", "QRWA_PAYOUT_POOL_B",
                                "QRWA_PAYOUT_POOL_C", "QRWA_PAYOUT_POOL_D"}
    BY <1>1 DEF SelectedBy
  <2>2. SelectedBy(row, l) \in DOMAIN Dispatch
    BY <2>1, DispatchQrwaRows, DispatchDomain
  <2> QED
    BY <1>1, <2>2 DEF RowOk
<1>2. CASE ~(row.form = "payout" /\ Word(l, 1) \in 1..4)
  BY <1>2 DEF SelectedBy, RowOk
<1> QED
  BY <1>1, <1>2

LEMMA KnownIsAllowed == \A w : KnownContract(w) => Allowed(w)
  BY DEF KnownContract, TestContracts, Allowed

(* The block of a command: the amounts keep their width, the contract was   *)
(* looked up with the settings of this moment.                              *)
LEMMA BlockCall ==
  ASSUME NEW o \in DOMAIN Options, NEW l \in Lines(o), Command(o, l),
         command = "TOTAL_COMMAND", phase = "options"
  PROVE  CallInv'
<1> DEFINE row == Options[o]
<1>1. /\ UNCHANGED <<settings, flags>> /\ line' = l /\ phase' # "called"
      /\ \/ command' = command
         \/ /\ ~Rejects(row, l) /\ command' = SelectedBy(row, l)
            /\ globals' = GlobalsSetBy(row, l)
  BY DEF Command, AfterBlock
<1>2. l.option = o /\ l.supplied \in Nat /\ RowOk(row)
  BY LineFacts
<1>3. CASE command' = command
  BY <1>1, <1>3 DEF CallInv, SeedChecked
<1>4. CASE /\ ~Rejects(row, l) /\ command' = SelectedBy(row, l)
           /\ globals' = GlobalsSetBy(row, l)
  <2>1. command' \in DOMAIN Dispatch /\ line'.option \in DOMAIN Options
    BY <1>1, <1>2, <1>4, SelectedByFacts
  <2>2. ASSUME command' # "SEND_COIN_IN_TICK", NEW g \in DOMAIN globals' \cap Amounts
        PROVE  AsTyped(g)'
    <3>1. g \in DOMAIN GlobalsSetBy(row, l) \cap Traced
      BY <1>4, <2>2 DEF Traced
    <3>2. PICK p \in DOMAIN row.params :
            /\ row.params[p].global = g
            /\ GlobalsSetBy(row, l)[g] = Stored(row.params[p].kind, Word(l, p))
      BY <1>2, <3>1, GlobalsFacts
    <3>3. row.params[p].kind \in {"num", "text"}
      BY <1>2, <1>4, <2>2, <3>2, SelectedByFacts DEF AllExact, Exact
    <3>4. globals'[g] = Word(l, p)
      BY <1>4, <3>2, <3>3 DEF Stored
    <3> QED
      BY <1>1, <1>2, <3>2, <3>4 DEF AsTyped, Word
  <2>3. ASSUME "contractIndex" \in DOMAIN globals'
        PROVE  Allowed(globals["contractIndex"])'
    <3> DEFINE g == "contractIndex"
    <3>1. g \in DOMAIN GlobalsSetBy(row, l) \cap Traced
      BY <1>4, <2>3 DEF Traced
    <3>2. PICK p \in ReadBy(row, l) \cap DOMAIN row.params :
            /\ row.params[p].global = g
            /\ GlobalsSetBy(row, l)[g] = Stored(row.params[p].kind, Word(l, p))
      BY <1>2, <3>1, GlobalsFacts
    <3>3. row.params[p].kind = "contract"
      BY <1>2, <3>2 DEF RowOk, Located
    <3>4. globals'[g] = Word(l, p)
      BY <1>4, <3>2, <3>3 DEF Stored
    <3>5. KnownContract(Word(l, p))
      BY <1>4, <3>2, <3>3 DEF Rejects
    <3>6. Allowed(Word(l, p))
      BY <3>5, KnownIsAllowed
    <3> QED
      BY <1>1, <3>4, <3>6 DEF Allowed
  <2> QED
    BY <1>1, <2>1, <2>2, <2>3 DEF CallInv, Selected, SeedChecked
<1> QED
  BY <1>1, <1>3, <1>4

(* The file never gives a port back its default.                            *)
LEMMA FileCall == ASSUME CallInv, IInv, ReadConfigFile PROVE CallInv'
<1>1. /\ phase' = "dispatch" /\ UNCHANGED <<flags, line, command, globals>>
      /\ settings["nodeport"] # "default" => settings'["nodeport"] # "default"
  BY DEF ReadConfigFile, Keys
<1>2. ASSUME command # "TOTAL_COMMAND" PROVE Selected'
  BY <1>1, <1>2 DEF CallInv, Selected, AsTyped, Allowed, Word
<1> QED
  BY <1>1, <1>2 DEF CallInv, SeedChecked

(* run(): a seed that is not usable gets through only where none is looked  *)
(* at, which SeedRow knows of every row.                                    *)
LEMMA DispatchCall == ASSUME CallInv, DispatchCommand PROVE CallInv'
<1> DEFINE row == Dispatch[command]
<1>1. /\ phase = "dispatch" /\ command # "TOTAL_COMMAND"
      /\ UNCHANGED <<settings, flags, line, command, globals>>
      /\ phase' = "called" =>
           \E seedOk \in SeedOutcomes : (SeedNeeded(row) => seedOk) /\ IdentityOk(row)
  BY DEF DispatchCommand
<1>2. Selected'
  BY <1>1 DEF CallInv, Selected, AsTyped, Allowed, Word
<1>3. SeedChecked'
  <2> SUFFICES ASSUME phase' = "called", row.usesSeed, ~Usable(settings["seed"])
               PROVE  \/ command \in Unchecked
                      \/ row.seed = "without_identity" /\ ValueOf("requestedIdentity") >= 0
    BY <1>1 DEF SeedChecked, Unchecked, ValueOf, Usable
  <2>1. SeedRow(command, row)
    BY <1>1, DispatchSeeds DEF SeedTable, CallInv, Selected
  <2>2. SeedOutcomes = {FALSE}
    BY DEF SeedOutcomes, Usable
  <2>3. ~SeedNeeded(row) /\ IdentityOk(row)
    BY <1>1, <2>2
  <2>4. CASE row.seed = "without_identity"
    BY <2>3, <2>4 DEF SeedNeeded, IdentityOk
  <2>5. CASE row.seed # "without_identity"
    <3>1. row.seed = "never" /\ command \in DOMAIN DispatchQearnQvault \cup {"MAKE_IPO_BID"}
      BY <2>1, <2>3, <2>5 DEF SeedRow, SeedKind, SeedNeeded
    <3> QED
      BY <3>1 DEF Unchecked
  <2> QED
    BY <2>4, <2>5
<1> QED
  BY <1>1, <1>2, <1>3 DEF CallInv

LEMMA CallStep == CallInv /\ IInv /\ [Next]_vars => CallInv'
<1> SUFFICES ASSUME CallInv, IInv, [Next]_vars PROVE CallInv'
  OBVIOUS
<1>1. ASSUME NEW o \in DOMAIN Options, NEW l \in Lines(o), Command(o, l) PROVE CallInv'
  <2>1. phase = "options" /\ command = "TOTAL_COMMAND"
    BY <1>1 DEF Command, IInv, Words
  <2> QED
    BY <1>1, <2>1, BlockCall
<1>2. CASE ReadConfigFile
  BY <1>2, FileCall
<1>3. CASE DispatchCommand
  BY <1>3, DispatchCall
<1>4. CASE UnexpectedCommand
  BY <1>4 DEF UnexpectedCommand, CallInv, SeedChecked
<1>5. CASE \/ \E k \in Keys : \E v \in Typable[k] : Setting(k, v)
           \/ \E f \in Files : ConfFile(f)
           \/ \E name \in FlagNames : FlagOption(name)
           \/ UnknownWord \/ HelpOrMissingValue \/ NoMoreWords
  <2>1. /\ phase = "options" /\ phase' # "called" /\ UNCHANGED command
    BY <1>5 DEF Setting, ConfFile, FlagOption, UnknownWord, HelpOrMissingValue,
                NoMoreWords, Before
  <2> QED
    BY <2>1 DEF IInv, Words, CallInv, SeedChecked
<1>6. CASE UNCHANGED vars
  <2>1. UNCHANGED <<phase, settings, flags, line, command, globals>>
    BY <1>6 DEF vars
  <2>2. Selected => Selected'
    BY <2>1 DEF Selected, AsTyped, Allowed, Word
  <2>3. SeedChecked => SeedChecked'
    BY <2>1 DEF SeedChecked, Unchecked, ValueOf, Usable
  <2> QED
    BY <2>1, <2>2, <2>3 DEF CallInv
<1> QED
  BY <1>1, <1>2, <1>3, <1>4, <1>5, <1>6 DEF Next

LEMMA CallInvariance == Spec => []CallInv
<1>1. Init => CallInv
  BY DEF Init, CallInv, SeedChecked
<1> QED
  BY <1>1, InitInv, NextInv, CallStep, PTL DEF Spec

(* run(): what is handed a seed that nobody checked are the bids of         *)
(* -makeipobid, the procedures of QVAULT, and a vote with an identity.      *)
THEOREM SeedsAreChecked == Spec => []SeedChecked
  BY CallInvariance, PTL DEF CallInv

(* parseArgument: on its way from a word of any size to a call, no amount   *)
(* loses a bit, but that of -sendtoaddressintick.                           *)
THEOREM AmountsAreAsTyped == Spec => []AmountAsTyped
<1>1. CallInv => AmountAsTyped
  BY DEF CallInv, Selected, AsTyped, AmountAsTyped
<1> QED
  BY <1>1, CallInvariance, PTL

(* getContractIndex: a contract that is not on the list is called only with *)
(* a port or a flag that lets it through, although -conf is read later.     *)
THEOREM ContractsAreKnown == Spec => []ContractKnownHere
<1>1. CallInv => ContractKnownHere
  BY DEF CallInv, Selected, Allowed, ContractKnownHere
<1> QED
  BY <1>1, CallInvariance, PTL

-----------------------------------------------------------------------------
(* The globals that a block has set are what its function is handed.        *)
LEMMA PayoutUses ==
  \A c \in {"QRWA_PAYOUT_POOL_A", "QRWA_PAYOUT_POOL_B", "QRWA_PAYOUT_POOL_C",
            "QRWA_PAYOUT_POOL_D"} : Uses(c) = {"qrwa_epoch"}
  BY UsesOfBlocks, DispatchHasBlocks, DispatchQrwaHands

LEMMA MergedDomains ==
  ASSUME NEW f, NEW o, NEW row PROVE DOMAIN (f @@ o :> row) = DOMAIN f \cup {o}
<1>1. DOMAIN (f @@ o :> row) = DOMAIN f \cup DOMAIN (o :> row)
  BY TableDomain
<1>2. DOMAIN (o :> row) = {o}
  BY DEF :>, Each
<1> QED
  BY <1>1, <1>2

LEMMA BlockNames ==
  ASSUME NEW row, RowOk(row), Fits(row), NEW l, l.supplied \in Nat, ~Rejects(row, l)
  PROVE  Given(SelectedBy(row, l), DOMAIN GlobalsSetBy(row, l))
<1> DEFINE NamesOf(P) == {row.params[p].global : p \in P}
           S(P) == [x \in NamesOf(P) |->
                      LET p == CHOOSE q \in P : row.params[q].global = x
                      IN  Stored(row.params[p].kind, Word(l, p))]
           G == GlobalsSetBy(row, l)
<1>1. \A P : DOMAIN S(P) = NamesOf(P)
  OBVIOUS
<1>2. Len(row.params) \in Nat /\ DOMAIN row.params = 1..Len(row.params)
  BY DEF RowOk, IsList
<1>3. Named(row.params) = NamesOf(DOMAIN row.params)
  BY DEF Named
<1>4. Given(row.command, ReadNames(row))
  BY DEF Fits
<1>5. CASE row.form = "all"
  <2>1. G = "quottery_subcmd" :> 1 @@ "quottery_subcmd_count" :> l.supplied + 1
    BY <1>5 DEF GlobalsSetBy
  <2>2. DOMAIN G = {"quottery_subcmd"} \cup {"quottery_subcmd_count"}
    <3>1. DOMAIN G = DOMAIN ("quottery_subcmd" :> 1) \cup {"quottery_subcmd_count"}
      <4> HIDE DEF G
      <4> QED
        BY ONLY <2>1, MergedDomains
    <3>2. DOMAIN ("quottery_subcmd" :> 1) = {"quottery_subcmd"}
      BY DEF :>, Each
    <3> HIDE DEF G
    <3> QED
      BY <3>1, <3>2
  <2> HIDE DEF G
  <2>3. DOMAIN G = ReadNames(row)
    BY <1>5, <2>2 DEF ReadNames
  <2> QED
    BY <1>4, <1>5, <2>3 DEF SelectedBy, G
<1>6. CASE row.form = "fixed"
  <2>1. DOMAIN G = Named(row.params)
    BY <1>6 DEF GlobalsSetBy
  <2> QED
    BY <1>4, <1>6, <2>1 DEF SelectedBy, ReadNames
<1>7. CASE row.form = "payout"
  <2>1. /\ row.command = "QRWA_PAYOUT_ADDRESS"
        /\ NamesOf({1}) = {"qrwa_identity"} /\ NamesOf({2}) = {"qrwa_epoch"}
        /\ NamesOf({1, 2}) = {"qrwa_identity", "qrwa_epoch"}
    <3>1. /\ row.command = "QRWA_PAYOUT_ADDRESS"
          /\ row.params = <<Text("qrwa_identity"), I32("qrwa_epoch")>>
      BY <1>7 DEF Fits, Payout, Row
    <3>2. row.params[1].global = "qrwa_identity" /\ row.params[2].global = "qrwa_epoch"
      BY <3>1, WordNames
    <3> QED
      BY <3>1, <3>2
  <2>2. ReadBy(row, l) = {1} \/ ReadBy(row, l) = {1, 2}
    BY <1>7 DEF ReadBy
  <2>3. CASE Word(l, 1) \in 1..4
    <3>1. G = S(ReadBy(row, l) \ {1})
      BY <1>7, <2>3 DEF GlobalsSetBy
    <3>2. DOMAIN G \subseteq {"qrwa_epoch"}
      <4>1. ReadBy(row, l) \ {1} \subseteq {2}
        BY <2>2
      <4>2. NamesOf(ReadBy(row, l) \ {1}) \subseteq NamesOf({2})
        BY <4>1
      <4> QED
        BY <1>1, <2>1, <3>1, <4>2
    <3>3. Uses(SelectedBy(row, l)) = {"qrwa_epoch"}
      <4>1. SelectedBy(row, l) \in {"QRWA_PAYOUT_POOL_A", "QRWA_PAYOUT_POOL_B",
                                    "QRWA_PAYOUT_POOL_C", "QRWA_PAYOUT_POOL_D"}
        BY <1>7, <2>3 DEF SelectedBy
      <4> QED
        BY <4>1, PayoutUses
    <3> QED
      BY <3>2, <3>3 DEF Given, Optional
  <2>4. CASE Word(l, 1) \notin 1..4
    <3>1. G = S(ReadBy(row, l)) /\ SelectedBy(row, l) = row.command
      BY <1>7, <2>4 DEF GlobalsSetBy, SelectedBy
    <3>2. DOMAIN G = {"qrwa_identity"} \/ DOMAIN G = {"qrwa_identity", "qrwa_epoch"}
      BY <1>1, <2>1, <2>2, <3>1
    <3>3. Uses("QRWA_PAYOUT_ADDRESS") = {"qrwa_identity", "qrwa_epoch"}
      BY UsesOfBlocks, DispatchHasBlocks, DispatchQrwaHands
    <3> QED
      BY <2>1, <3>1, <3>2, <3>3 DEF Given, Optional
  <2> QED
    BY <2>3, <2>4
<1>8. CASE row.form = "poll"
  <2>1. Word(l, 2) \in {1, 2} /\ SelectedBy(row, l) = row.command
    BY <1>8 DEF Rejects, SelectedBy
  <2>2. DOMAIN row.params = 1..5 /\ row.params[5].global = "qutil_semicolonSeparatedAssets"
    <3>1. row.params = <<Text("qutil_pollNameStr"), Num("qutil_pollType"),
                         Num("qutil_minAmount"), Text("qutil_githubLinkStr"),
                         Text("qutil_semicolonSeparatedAssets")>>
      BY <1>8 DEF Fits, CreatePoll, Row
    <3> QED
      BY <3>1, WordNames
  <2>3. DOMAIN G = Named(row.params)
    <3>1. CASE Word(l, 2) = 2
      <4>1. G = S(1..5)
        BY <1>8, <3>1 DEF GlobalsSetBy, ReadBy
      <4> QED
        BY <1>1, <1>3, <2>2, <4>1
    <3>2. CASE Word(l, 2) = 1
      <4>1. G = S(1..4) @@ "qutil_semicolonSeparatedAssets" :> Null
        BY <1>8, <3>2 DEF GlobalsSetBy
      <4> HIDE DEF S, G, NamesOf
      <4>2. DOMAIN G = NamesOf(1..4) \cup {row.params[5].global}
        <5>1. DOMAIN G = DOMAIN S(1..4) \cup {"qutil_semicolonSeparatedAssets"}
          BY ONLY <4>1, MergedDomains
        <5> QED
          BY <1>1, <2>2, <5>1
      <4>3. NamesOf(1..5) = NamesOf(1..4) \cup {row.params[5].global}
        <5>1. 1..5 = 1..4 \cup {5}
          OBVIOUS
        <5> QED
          BY <5>1 DEF NamesOf
      <4> QED
        BY <1>3, <2>2, <4>2, <4>3 DEF G
    <3> QED
      BY <2>1, <3>1, <3>2
  <2> QED
    BY <1>4, <1>8, <2>1, <2>3 DEF ReadNames
<1>9. CASE row.form = "upto"
  <2> DEFINE n == IF l.supplied < Len(row.params) THEN l.supplied ELSE Len(row.params)
  <2>1. DOMAIN G = NamesOf(1..n)
    BY <1>1, <1>9 DEF GlobalsSetBy, ReadBy
  <2>2. 1..n \subseteq DOMAIN row.params
    BY <1>2
  <2>3. \A i \in DOMAIN row.params : i \in 1..n \/ row.params[i].global \in Optional
    <3>1. row.checked \in Nat /\ row.checked <= l.supplied
      BY DEF Rejects, RowOk
    <3> QED
      BY <1>2, <1>9, <3>1 DEF Fits, LaterOptional
  <2>4. /\ NamesOf(1..n) \subseteq Named(row.params)
        /\ Named(row.params) \subseteq NamesOf(1..n) \cup Optional
    BY <1>3, <2>2, <2>3
  <2>5. Given(row.command, Named(row.params)) /\ SelectedBy(row, l) = row.command
    BY <1>4, <1>9 DEF ReadNames, SelectedBy
  <2>6. \A c, names, M : Given(c, M) /\ names \subseteq M /\ M \subseteq names \cup Optional =>
          Given(c, names)
    BY DEF Given
  <2> HIDE DEF NamesOf, n, G
  <2> QED
    BY <2>1, <2>4, <2>5, <2>6 DEF G
<1>10. CASE row.form \notin {"all", "fixed", "payout", "poll", "upto"}
  <2>1. ReadBy(row, l) = DOMAIN row.params /\ SelectedBy(row, l) = row.command
    BY <1>10 DEF ReadBy, SelectedBy
  <2>2. G = S(ReadBy(row, l))
    BY <1>10 DEF GlobalsSetBy
  <2> QED
    BY <1>1, <1>3, <1>4, <1>10, <2>1, <2>2 DEF ReadNames
<1> QED
  BY <1>5, <1>6, <1>7, <1>8, <1>9, <1>10

GivenInv == command # "TOTAL_COMMAND" => Given(command, DOMAIN globals)

LEMMA GivenStep == GivenInv /\ IInv /\ [Next]_vars => GivenInv'
<1> SUFFICES ASSUME GivenInv, IInv, [Next]_vars PROVE GivenInv'
  OBVIOUS
<1>1. ASSUME NEW o \in DOMAIN Options, NEW l \in Lines(o), Command(o, l) PROVE GivenInv'
  <2> DEFINE row == Options[o]
  <2>1. CASE UNCHANGED <<command, globals>>
    BY <2>1 DEF GivenInv
  <2>2. CASE /\ ~Rejects(row, l) /\ command' = SelectedBy(row, l)
             /\ globals' = GlobalsSetBy(row, l)
    <3>1. l.supplied \in Nat /\ RowOk(row) /\ Fits(row)
      BY LineFacts, OptionsFit DEF FitTable
    <3> QED
      BY <2>2, <3>1, BlockNames DEF GivenInv
  <2> QED
    BY <1>1, <2>1, <2>2 DEF Command
<1>2. CASE UNCHANGED <<command, globals>>
  BY <1>2 DEF GivenInv
<1> QED
  BY <1>1, <1>2 DEF Next, vars, Setting, ConfFile, FlagOption, UnknownWord, Before,
     HelpOrMissingValue, NoMoreWords, ReadConfigFile, DispatchCommand, UnexpectedCommand

(* run(): every global that is handed to a function was read by the block   *)
(* of its command, or is optional or a flag, and no word of a line is lost. *)
THEOREM PassedAreRead == Spec => []PassedIsRead
<1>1. Init => GivenInv
  BY DEF Init, GivenInv
<1>2. CallInv /\ GivenInv => PassedIsRead
  BY DEF CallInv, GivenInv, Given, Uses, PassedIsRead
<1> QED
  BY <1>1, <1>2, GivenStep, InitInv, NextInv, CallInvariance, PTL DEF Spec

-----------------------------------------------------------------------------
(* The number of words and what comes of it.                                *)
LEMMA WordsRead ==
  ASSUME NEW row, RowOk(row), NEW l, l.supplied \in Nat
  PROVE  /\ Len(row.params) \in Nat /\ DOMAIN row.params = 1..Len(row.params)
         /\ \A n \in Nat : Cardinality(1..n) = n
         /\ Cardinality({}) = 0
<1>1. Len(row.params) \in Nat /\ DOMAIN row.params = 1..Len(row.params)
  BY DEF RowOk, IsList
<1>2. ASSUME NEW n \in Nat PROVE Cardinality(1..n) = n
  BY FS_Interval
<1> QED
  BY <1>1, <1>2, FS_EmptySet

(* A block that runs had a number of words that the help gives.             *)
LEMMA TakenIsDocumented ==
  ASSUME NEW o \in DOMAIN Documented, NEW row, RowOk(row), Counted(o, row),
         NEW l, l.supplied \in Nat, ~Rejects(row, l)
  PROVE  l.supplied \in Documented[o] \/ o \in UncheckedWords
<1> SUFFICES ASSUME o \notin UncheckedWords PROVE l.supplied \in Documented[o]
  OBVIOUS
<1>1. /\ row.checked \in Nat /\ row.checked <= l.supplied
      /\ ~(l.supplied > Cardinality(ReadBy(row, l)))
  BY DEF Rejects, RowOk
<1>2. Agrees(o, row, Documented[o]) /\ FullyChecked(row)
  BY DEF Counted
<1> DEFINE n == Len(row.params)
<1>3. CASE row.form = "takes"
  <2>1. ReadBy(row, l) = 1..n
    BY <1>3, WordsRead DEF ReadBy
  <2>2. n \in Nat /\ Cardinality(1..n) = n
    BY WordsRead
  <2>3. row.checked = n
    BY <1>2, <1>3 DEF FullyChecked
  <2>4. l.supplied = n
    BY <1>1, <2>1, <2>2, <2>3
  <2>5. n \in Documented[o]
    <3>1. \/ Documented[o] = n..n
          \/ n = 3 /\ Documented[o] = 2..3
      BY <1>2, <1>3 DEF Agrees
    <3> HIDE DEF n
    <3> QED
      BY <2>2, <3>1
  <2> QED
    BY <2>4, <2>5
<1>4. CASE row.form = "upto"
  <2>1. ReadBy(row, l) = 1..(IF l.supplied < n THEN l.supplied ELSE n)
    BY <1>4 DEF ReadBy
  <2>2. l.supplied <= n
    BY <1>1, <2>1, WordsRead
  <2> QED
    BY <1>1, <1>2, <1>4, <2>2, WordsRead DEF Agrees
<1>5. CASE row.form = "fixed"
  <2>1. ReadBy(row, l) = {}
    BY <1>5 DEF ReadBy
  <2> QED
    BY <1>1, <1>2, <1>5, <2>1, WordsRead DEF Agrees
<1>6. CASE row.form = "all"
  BY <1>2, <1>6 DEF Agrees
<1>7. CASE row.form = "payout"
  <2>1. ReadBy(row, l) = 1..1 \/ ReadBy(row, l) = 1..2
    BY <1>7 DEF ReadBy
  <2>2. Cardinality(1..1) = 1 /\ Cardinality(1..2) = 2
    BY WordsRead
  <2>3. l.supplied <= 2
    BY <1>1, <2>1, <2>2
  <2> QED
    BY <1>1, <1>2, <1>7, <2>3 DEF Agrees
<1>8. CASE row.form = "poll"
  <2>1. ReadBy(row, l) = 1..5 \/ ReadBy(row, l) = 1..4
    BY <1>8 DEF ReadBy
  <2>2. Cardinality(1..5) = 5 /\ Cardinality(1..4) = 4
    BY WordsRead
  <2>3. l.supplied <= 5
    BY <1>1, <2>1, <2>2
  <2> QED
    BY <1>1, <1>2, <1>8, <2>3 DEF Agrees
<1> QED
  BY <1>2, <1>3, <1>4, <1>5, <1>6, <1>7, <1>8 DEF Agrees

(* With the usual words a block that reads no more than it has does not     *)
(* turn the line away.                                                      *)
LEMMA UsualWordsPass ==
  ASSUME NEW row, RowOk(row), row.form # "poll",
         NEW l, l.supplied \in Nat, l.oddAt = 0,
         row.checked <= l.supplied, NEW n \in Nat, ReadBy(row, l) = 1..n, n = l.supplied
  PROVE  ~Crashes(row, l) /\ ~Rejects(row, l)
<1>1. \A p \in 1..n : Word(l, p) = 1
  BY DEF Word
<1>2. ~Crashes(row, l)
  BY <1>1 DEF Crashes, Null
<1>3. Cardinality(ReadBy(row, l)) = l.supplied
  BY WordsRead
<1>4. ~ \E p \in ReadBy(row, l) \cap DOMAIN row.params :
          row.params[p].kind = "contract" /\ ~KnownContract(Word(l, p))
  BY <1>1 DEF KnownContract
<1>5. row.form = "payout" => Word(l, 1) \in 1..5
  <2>1. CASE n = 0
    <3>1. row.form = "payout" => ReadBy(row, l) = 1..1 \/ ReadBy(row, l) = 1..2
      BY DEF ReadBy
    <3> QED
      BY <2>1, <3>1
  <2>2. CASE n # 0
    BY <1>1, <2>2
  <2> QED
    BY <2>1, <2>2
<1> QED
  BY <1>2, <1>3, <1>4, <1>5, WordsRead DEF Rejects, RowOk

LEMMA DocumentedIsTaken ==
  ASSUME NEW o \in DOMAIN Documented, NEW row, RowOk(row), Counted(o, row),
         NEW l, l.option = o, ~Insists(l),
         l.supplied \in Documented[o], l.oddAt = 0, l.supplied \in Nat
  PROVE  ~Crashes(row, l) /\ ~Rejects(row, l)
<1>1. Agrees(o, row, Documented[o]) /\ row.form # "poll"
  BY DEF Counted, Insists
<1>2. Len(row.params) \in Nat /\ row.checked \in Nat
  BY WordsRead DEF RowOk
<1>3. CASE row.form = "takes"
  <2>1. ReadBy(row, l) = 1..Len(row.params)
    BY <1>3, WordsRead DEF ReadBy
  <2>2. l.supplied = Len(row.params) /\ row.checked <= l.supplied
    <3>1. row.checked <= Len(row.params)
      BY <1>1, <1>3 DEF Agrees
    <3>2. CASE Documented[o] = Len(row.params)..Len(row.params)
      BY <1>2, <3>1, <3>2
    <3>3. CASE o = "-qswapgetliquidityof" /\ Len(row.params) = 3 /\ Documented[o] = 2..3
      <4>1. l.supplied # 2
        BY <3>3 DEF Insists
      <4>2. l.supplied \in 2..3
        BY <3>3
      <4> QED
        BY <1>2, <3>1, <3>3, <4>1, <4>2
    <3> QED
      BY <1>1, <1>3, <3>2, <3>3 DEF Agrees
  <2> QED
    BY <1>1, <1>2, <2>1, <2>2, UsualWordsPass
<1>4. CASE row.form = "upto"
  <2>1. row.checked <= l.supplied /\ l.supplied <= Len(row.params)
    BY <1>1, <1>2, <1>4 DEF Agrees
  <2>2. ReadBy(row, l) = 1..l.supplied
    BY <1>2, <1>4, <2>1 DEF ReadBy
  <2> QED
    BY <1>1, <2>1, <2>2, UsualWordsPass
<1>5. CASE row.form = "fixed"
  <2>1. ReadBy(row, l) = 1..0 /\ l.supplied = 0 /\ row.checked = 0
    BY <1>1, <1>5 DEF Agrees, ReadBy
  <2> QED
    BY <1>1, <2>1, UsualWordsPass
<1>6. CASE row.form = "all"
  <2>1. ReadBy(row, l) = 1..l.supplied /\ row.checked = 0
    BY <1>1, <1>6 DEF Agrees, ReadBy
  <2> QED
    BY <1>1, <2>1, UsualWordsPass
<1>7. CASE row.form = "payout"
  <2>1. l.supplied \in 1..2 /\ row.checked = 1
    BY <1>1, <1>7 DEF Agrees
  <2>2. ReadBy(row, l) = 1..l.supplied
    <3>1. CASE l.supplied = 1
      BY <1>7, <3>1 DEF ReadBy
    <3>2. CASE l.supplied = 2
      <4>1. Word(l, 2) = 1
        BY <3>2 DEF Word
      <4> QED
        BY <1>7, <3>2, <4>1 DEF ReadBy
    <3> QED
      BY <2>1, <3>1, <3>2
  <2> QED
    BY <1>1, <2>1, <2>2, UsualWordsPass
<1> QED
  BY <1>1, <1>3, <1>4, <1>5, <1>6, <1>7 DEF Agrees

CountInv ==
  /\ phase = "options" => line.option \notin DOMAIN Documented /\ command = "TOTAL_COMMAND"
  /\ DocumentedCounts

LEMMA CountStep == CountInv /\ IInv /\ [Next]_vars => CountInv'
<1> SUFFICES ASSUME CountInv, IInv, [Next]_vars PROVE CountInv'
  OBVIOUS
<1>1. ASSUME NEW o \in DOMAIN Options, NEW l \in Lines(o), Command(o, l) PROVE CountInv'
  <2> DEFINE row == Options[o]
  <2>1. l.option = o /\ l.supplied \in Nat /\ RowOk(row) /\ Counted(o, row)
    BY LineFacts, OptionsCount DEF CountTable
  <2>2. line' = l /\ command = "TOTAL_COMMAND"
    BY <1>1 DEF Command, CountInv
  <2>3. CASE /\ Crashes(row, l) \/ Rejects(row, l)
             /\ phase' \in {"crashed", "exited"} /\ UNCHANGED command
    <3>1. o \in DOMAIN Documented /\ ~Insists(l) /\ l.oddAt = 0 =>
            l.supplied \notin Documented[o]
      BY <2>1, <2>3, DocumentedIsTaken
    <3> QED
      BY <2>1, <2>2, <2>3, <3>1 DEF CountInv, DocumentedCounts
  <2>4. CASE ~Rejects(row, l) /\ phase' = AfterBlock(o)
    <3>1. o \in DOMAIN Documented => l.supplied \in Documented[o] \/ o \in UncheckedWords
      BY <2>1, <2>4, TakenIsDocumented
    <3>2. phase' \in {"conf", "dispatch"}
      BY <2>4 DEF AfterBlock
    <3> QED
      BY <2>1, <2>2, <3>1, <3>2 DEF CountInv, DocumentedCounts
  <2> QED
    BY <1>1, <2>3, <2>4 DEF Command
<1>2. CASE UNCHANGED <<line, command, phase>>
  BY <1>2 DEF CountInv, DocumentedCounts
<1>3. CASE /\ phase = "options" /\ phase' \in {"exited", "conf", "dispatch"}
           /\ UNCHANGED <<line, command>>
  BY <1>3 DEF CountInv, DocumentedCounts
<1>4. CASE /\ phase = "conf" /\ phase' = "dispatch" /\ UNCHANGED <<line, command>>
  BY <1>4 DEF CountInv, DocumentedCounts
<1>5. CASE /\ phase = "dispatch" /\ UNCHANGED <<line, command>>
           /\ \/ phase' = "unexpected"
              \/ command # "TOTAL_COMMAND" /\ phase' \in {"called", "exited"}
  BY <1>5 DEF CountInv, DocumentedCounts
<1>6. DispatchCommand => <1>5!1
  BY DEF DispatchCommand
<1> QED
  BY <1>1, <1>2, <1>3, <1>4, <1>5, <1>6 DEF Next, vars, Setting, ConfFile, FlagOption,
     UnknownWord, Before, HelpOrMissingValue, NoMoreWords, ReadConfigFile, UnexpectedCommand

(* parseArgument and print_help, for every option and line of words: all    *)
(* options of the help but a misspelt one are the parser's; a command runs  *)
(* with a number of words that the help gives for its option, the blocks    *)
(* that check too few excepted; and a line with such a number and the usual *)
(* words is not turned away, a poll's and the one that leaves out the       *)
(* bracketed staker of -qswapgetliquidityof excepted.                       *)
THEOREM CountsAreDocumented == Spec => []DocumentedCounts
<1>1. Init => CountInv
  <2>1. "" \notin DOMAIN Documented
    BY Zenon, EmptyIsNoOption
  <2>2. NoLine.option = ""
    BY Zenon DEF NoLine
  <2>3. Init => line.option \notin DOMAIN Documented /\ command = "TOTAL_COMMAND"
    BY Zenon, <2>1, <2>2 DEF Init
  <2> QED
    BY <2>3, NotParsedIs DEF CountInv, DocumentedCounts
<1>2. CountInv => DocumentedCounts
  BY DEF CountInv
<1> QED
  BY <1>1, <1>2, CountStep, InitInv, NextInv, PTL DEF Spec

-----------------------------------------------------------------------------
(* The types.                                                               *)
LEMMA FileValues == \A f \in Files, k \in Keys : f[k] \in {"file", "none", "default", "bad_file"}
  BY DEF Files, FullFile, EmptyFile, Keys

LEMMA BlockTypes ==
  ASSUME NEW o \in DOMAIN Options, NEW l \in Lines(o), Command(o, l), TypeOK
  PROVE  TypeOK'
<1> DEFINE row == Options[o]
<1>1. /\ UNCHANGED <<settings, typed, flags, conf, file>> /\ line' = l
      /\ unusual' = unusual + (IF l.oddAt > 0 \/ l.supplied # Len(row.params) THEN 1 ELSE 0)
      /\ unusual' <= MaxUnusual
      /\ phase' \in {"crashed", "exited", "conf", "dispatch"}
      /\ \/ UNCHANGED <<command, globals>>
         \/ command' = SelectedBy(row, l) /\ globals' = GlobalsSetBy(row, l)
  BY DEF Command, AfterBlock
<1>2. l.option = o /\ l.supplied \in Nat /\ l.odd \in Int /\ RowOk(row)
  BY LineFacts
<1>3. \A p : Word(l, p) \in Int
  BY <1>2 DEF Word, Null
<1>4. \A g \in DOMAIN GlobalsSetBy(row, l) : GlobalsSetBy(row, l)[g] \in Int
  BY <1>2, <1>3, GlobalsFacts, StoredIsInt
<1>5. SelectedBy(row, l) \in DOMAIN Dispatch
  BY <1>2, SelectedByFacts
<1>6. unusual' \in 0..MaxUnusual
  BY <1>1, MaxUnusualAssumption DEF TypeOK
<1> QED
  BY <1>1, <1>2, <1>4, <1>5, <1>6 DEF TypeOK, Stopped

LEMMA FileTypes == ASSUME TypeOK, ReadConfigFile PROVE TypeOK'
<1>1. \A k \in Keys : file[k] \in {"file", "none", "default", "bad_file"}
  BY FileValues DEF TypeOK
<1>2. settings' \in [Keys -> {"default", "typed", "bad", "file", "bad_file"}]
  BY <1>1 DEF TypeOK, ReadConfigFile
<1> QED
  BY <1>2 DEF TypeOK, ReadConfigFile

(* Every command that is selected has a case in the switch of run(), and    *)
(* every global a value of its width.                                       *)
THEOREM CommandTypes == Spec => []TypeOK
<1>1. Init => TypeOK
  <2> SUFFICES ASSUME Init PROVE TypeOK
    OBVIOUS
  <2>1. /\ settings \in [Keys -> {"default", "typed", "bad", "file", "bad_file"}]
        /\ typed \in [Keys -> {"none", "default", "typed", "bad"}]
    BY DEF Init
  <2>2. file \in Files /\ unusual \in 0..MaxUnusual
    BY MaxUnusualAssumption DEF Init, Files
  <2>3. DOMAIN globals = {}
    BY DEF Init, NoGlobals
  <2> QED
    BY <2>1, <2>2, <2>3 DEF Init, TypeOK
<1>2. TypeOK /\ [Next]_vars => TypeOK'
  <2> SUFFICES ASSUME TypeOK, [Next]_vars PROVE TypeOK'
    OBVIOUS
  <2>1. ASSUME NEW k \in Keys, NEW v \in Typable[k], Setting(k, v) PROVE TypeOK'
    <3>1. v \in {"default", "typed", "bad"}
      BY DEF Typable
    <3> QED
      BY <2>1, <3>1, MaxUnusualAssumption DEF TypeOK, Setting, Before
  <2>2. ASSUME NEW o \in DOMAIN Options, NEW l \in Lines(o), Command(o, l) PROVE TypeOK'
    BY <2>2, BlockTypes
  <2>3. CASE ReadConfigFile
    BY <2>3, FileTypes
  <2>4. CASE \/ \E f \in Files : ConfFile(f)
             \/ \E name \in FlagNames : FlagOption(name)
             \/ UnknownWord \/ HelpOrMissingValue \/ NoMoreWords
    <3>1. /\ UNCHANGED <<settings, typed, line, command, globals>>
          /\ phase' \in {phase, "exited", "conf", "dispatch"}
          /\ flags' \subseteq FlagNames /\ conf' \in BOOLEAN /\ file' \in Files
      BY <2>4 DEF TypeOK, ConfFile, FlagOption, UnknownWord, HelpOrMissingValue,
                  NoMoreWords, Before
    <3>2. unusual' = unusual \/ (unusual < MaxUnusual /\ unusual' = unusual + 1)
      BY <2>4 DEF ConfFile, FlagOption, UnknownWord, HelpOrMissingValue, NoMoreWords, Before
    <3>3. unusual' \in 0..MaxUnusual
      BY <3>2, MaxUnusualAssumption DEF TypeOK
    <3> QED
      BY <3>1, <3>3 DEF TypeOK, Stopped
  <2>5. CASE DispatchCommand \/ UnexpectedCommand
    BY <2>5 DEF TypeOK, DispatchCommand, UnexpectedCommand, Stopped
  <2>6. CASE UNCHANGED vars
    BY <2>6 DEF TypeOK, vars
  <2> QED
    BY <2>1, <2>2, <2>3, <2>4, <2>5, <2>6 DEF Next
<1> QED
  BY <1>1, <1>2, PTL DEF Spec
=============================================================================
