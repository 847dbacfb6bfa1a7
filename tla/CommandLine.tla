---------------------------- MODULE CommandLine ----------------------------
(* The front of qubic-cli: parseArgument and readConfigFile (argparser.h)    *)
(* resolve the settings and the globals of one command from the words the    *)
(* user typed and the file of -conf, and run() (main.cpp) checks them        *)
(* (sanity_check.h) and calls the function of the command.  The tables of    *)
(* options and of commands are CommandOptions and CommandDispatch.           *)
(*                                                                           *)
(* A word is the integer it parses to; as a text, a negative word is one     *)
(* that no identity, name or file matches.  As a contract, 1 is on the list  *)
(* of contracts.cpp, 2 is a test contract, 3 is beyond both.                 *)
EXTENDS CommandDispatch, CommandHelp, FiniteSets

CONSTANTS
  Wrap8, Wrap16, Wrap32,   \* 2^8, 2^16, 2^32: the widths of the casts
  MaxUnusual               \* bound: options before the command, plus one for
                           \* a command whose words are not the usual ones

ASSUME WidthsAssumption ==
  /\ {Wrap8, Wrap16, Wrap32} \subseteq Nat
  /\ 8 < Wrap8 /\ Wrap8 < Wrap16 /\ Wrap16 < Wrap32
ASSUME MaxUnusualAssumption == MaxUnusual \in Nat

VARIABLES
  phase,      \* where parseArgument and run() are
  settings,   \* g_seed, g_nodeIp, g_nodePort, g_offsetScheduledTick
  typed,      \* what the options gave for each of them (history)
  flags,      \* options without an effect on the parsing, and -enabletestcontracts
  conf,       \* whether g_configFile is set
  file,       \* the lines of that file
  unusual,    \* counts toward MaxUnusual
  line,       \* the option that is a command, and its words (history)
  command,    \* g_cmd
  globals     \* the globals the block of the option has set

vars == <<phase, settings, typed, flags, conf, file, unusual, line,
          command, globals>>

Keys == {"seed", "nodeip", "nodeport", "scheduletick"}
Typable == [k \in Keys |-> IF k = "scheduletick" THEN {"default", "typed"}
                           ELSE {"default", "typed", "bad"}]

(* The files: all four lines, one of them missing or bad, or none of them,   *)
(* which is also what is read of a file that does not open.                  *)
FullFile == [k \in Keys |-> "file"]
EmptyFile == [k \in Keys |-> "none"]
Files ==
  {FullFile, EmptyFile}
  \cup {[FullFile EXCEPT ![k] = v] : k \in Keys, v \in {"none", "default"}}
  \cup {[FullFile EXCEPT ![k] = "bad_file"] : k \in Keys \ {"scheduletick"}}

Null == -2            \* argv[argc]
NoLine == [option |-> "", supplied |-> 0, oddAt |-> 0, odd |-> 1]
NoGlobals == [g \in {} |-> 0]
Stopped == {"called", "exited", "crashed", "unexpected"}

Init ==
  /\ phase = "options"
  /\ settings = [k \in Keys |-> "default"]
  /\ typed = [k \in Keys |-> "none"]
  /\ flags = {}
  /\ conf = FALSE
  /\ file = EmptyFile
  /\ unusual = 0
  /\ line = NoLine
  /\ command = "TOTAL_COMMAND"
  /\ globals = NoGlobals

-----------------------------------------------------------------------------
(* The loop of parseArgument over the options that are not commands.         *)

Before == phase = "options" /\ unusual < MaxUnusual /\ unusual' = unusual + 1

(* -seed, -nodeip, -nodeport, -scheduletick: the last one typed counts.      *)
Setting(k, v) ==
  /\ Before
  /\ settings' = [settings EXCEPT ![k] = v]
  /\ typed' = [typed EXCEPT ![k] = v]
  /\ UNCHANGED <<phase, flags, conf, file, line, command, globals>>

(* -conf: only the name is kept here.                                        *)
ConfFile(f) ==
  /\ Before
  /\ conf' = TRUE
  /\ file' = f
  /\ UNCHANGED <<phase, settings, typed, flags, line, command, globals>>

FlagOption(name) ==
  /\ Before
  /\ flags' = flags \cup {name}
  /\ UNCHANGED <<phase, settings, typed, conf, file, line, command, globals>>

(* A word that is no option is passed over (i++): it changes nothing.        *)
UnknownWord ==
  /\ Before
  /\ UNCHANGED <<phase, settings, typed, flags, conf, file, line, command, globals>>

(* -help, or an option whose value is missing at the end of the line.        *)
HelpOrMissingValue ==
  /\ phase = "options"
  /\ phase' = "exited"
  /\ UNCHANGED <<settings, typed, flags, conf, file, unusual, line, command, globals>>

-----------------------------------------------------------------------------
(* The block of a command.                                                   *)

TestContracts == "enabletestcontracts" \in flags \/ settings["nodeport"] # "default"

KnownContractUnchecked(w) == w # 0

(* getContractIndex reads g_nodePort while the command line is parsed.       *)
KnownContract(w) ==
  \/ w = 1
  \/ w = 2 /\ TestContracts
  \/ w = 3 /\ settings["nodeport"] # "default"

Signed(w, wrap) == ((w + wrap \div 2) % wrap) - wrap \div 2
Stored(kind, w) ==
  CASE kind = "u32" -> w % Wrap32
    [] kind = "u16" -> w % Wrap16
    [] kind = "u8" -> w % Wrap8
    [] kind = "i32" -> Signed(w, Wrap32)
    [] kind = "i8" -> Signed(w, Wrap8)
    [] kind = "flag" -> IF w = 0 THEN 0 ELSE 1
    [] OTHER -> w

(* A word behind the last one is argv[argc], then the environment, whose     *)
(* strings parse to 0.                                                       *)
Word(l, p) ==
  IF p <= l.supplied THEN (IF p = l.oddAt THEN l.odd ELSE 1)
  ELSE IF p = l.supplied + 1 THEN Null ELSE 0

(* Mutant: the last word of a block is not read.                             *)
ReadByShort(row, l) == DOMAIN row.params \ {Len(row.params)}

(* The words a block reads, once it has the words it checks for.             *)
ReadBy(row, l) ==
  CASE row.form = "upto" -> 1..(IF l.supplied < Len(row.params)
                                THEN l.supplied ELSE Len(row.params))
    [] row.form = "payout" -> IF l.supplied > 1 /\ Word(l, 2) >= 0 THEN 1..2 ELSE 1..1
    [] row.form = "poll" -> IF Word(l, 2) = 2 THEN 1..5 ELSE 1..4
    [] row.form = "all" -> 1..l.supplied
    [] row.form = "fixed" -> {}
    [] OTHER -> DOMAIN row.params

SelectedBy(row, l) ==
  IF row.form = "payout" /\ Word(l, 1) \in 1..4
  THEN <<"QRWA_PAYOUT_POOL_A", "QRWA_PAYOUT_POOL_B",
         "QRWA_PAYOUT_POOL_C", "QRWA_PAYOUT_POOL_D">>[Word(l, 1)]
  ELSE row.command

GlobalsSetBy(row, l) ==
  LET stored(P) == [g \in {row.params[p].global : p \in P} |->
        LET p == CHOOSE q \in P : row.params[q].global = g
        IN  Stored(row.params[p].kind, Word(l, p))]
  IN  CASE row.form = "all" ->
             "quottery_subcmd" :> 1 @@ "quottery_subcmd_count" :> l.supplied + 1
        [] row.form = "fixed" -> [g \in Named(row.params) |-> 1]
        [] row.form = "payout" /\ Word(l, 1) \in 1..4 -> stored(ReadBy(row, l) \ {1})
        [] row.form = "poll" /\ Word(l, 2) = 1 ->
             stored(1..4) @@ "qutil_semicolonSeparatedAssets" :> Null
        [] OTHER -> stored(ReadBy(row, l))

(* strtoll of a word that is not there.                                      *)
Crashes(row, l) ==
  \E p \in ReadBy(row, l) \cap DOMAIN row.params :
    Word(l, p) = Null /\ row.params[p].kind # "text"

Rejects(row, l) ==
  \/ l.supplied < row.checked
  \/ l.supplied > Cardinality(ReadBy(row, l))
  \/ \E p \in ReadBy(row, l) \cap DOMAIN row.params :
       row.params[p].kind = "contract" /\ ~KnownContract(Word(l, p))
  \/ row.form = "payout" /\ Word(l, 1) \notin 1..5
  \/ row.form = "poll" /\ \/ Word(l, 2) \notin {1, 2}
                          \/ l.supplied < Cardinality(ReadBy(row, l))

(* The blocks of the escrow options return from parseArgument, all others    *)
(* break out of its loop.                                                    *)
AfterBlock(o) ==
  IF conf /\ o \notin DOMAIN EscrowOptions THEN "conf" ELSE "dispatch"

Command(o, l) ==
  LET row == Options[o]
  IN  /\ phase = "options"
      /\ unusual' = unusual + (IF l.oddAt > 0 \/ l.supplied # Len(row.params)
                               THEN 1 ELSE 0)
      /\ unusual' <= MaxUnusual
      /\ line' = l
      /\ IF l.supplied >= row.checked /\ Crashes(row, l)
         THEN phase' = "crashed" /\ UNCHANGED <<command, globals>>
         ELSE IF Rejects(row, l)
         THEN phase' = "exited" /\ UNCHANGED <<command, globals>>
         ELSE /\ phase' = AfterBlock(o)
              /\ command' = SelectedBy(row, l)
              /\ globals' = GlobalsSetBy(row, l)
      /\ UNCHANGED <<settings, typed, flags, conf, file>>

(* Words that make a difference to a parameter.                              *)
OddWords(kind) ==
  CASE kind = "text" -> {-1}
    [] kind = "contract" -> {0, 2, 3}
    [] OTHER -> {-1, 0, 2, 3, Wrap8 + 1, Wrap16 + 1, Wrap32 + 1}
OddWordsOf(row, p) ==
  IF row.form = "payout" THEN (IF p = 1 THEN {-1, 2, 3, 4, 5} ELSE {-1})
  ELSE OddWords(row.params[p].kind)

Lines(o) ==
  LET row == Options[o]
      typedLine(n, p, w) == [option |-> o, supplied |-> n, oddAt |-> p, odd |-> w]
  IN  {typedLine(n, 0, 1) : n \in 0..(Len(row.params) + 1)}
      \cup UNION {UNION {{typedLine(n, p, w) : w \in OddWordsOf(row, p)} :
                          p \in 1..n} :
                   n \in row.checked..Len(row.params)}

NoMoreWords ==
  /\ phase = "options"
  /\ phase' = IF conf THEN "conf" ELSE "dispatch"
  /\ UNCHANGED <<settings, typed, flags, conf, file, unusual, line, command, globals>>

-----------------------------------------------------------------------------
ReadConfigFileAlways ==
  /\ phase = "conf"
  /\ phase' = "dispatch"
  /\ settings' = [k \in Keys |-> IF file[k] # "none" THEN file[k] ELSE settings[k]]
  /\ UNCHANGED <<typed, flags, conf, file, unusual, line, command, globals>>

(* readConfigFile: a line overrides a setting that has its default value.    *)
ReadConfigFile ==
  /\ phase = "conf"
  /\ phase' = "dispatch"
  /\ settings' = [k \in Keys |-> IF settings[k] = "default" /\ file[k] # "none"
                                 THEN file[k] ELSE settings[k]]
  /\ UNCHANGED <<typed, flags, conf, file, unusual, line, command, globals>>

-----------------------------------------------------------------------------
(* run().                                                                    *)

Usable(v) == v \notin {"bad", "bad_file"}

(* A global the block did not set has the value global.h gives it.           *)
InitialNull == {"requestedIdentity", "compressTool"}
ValueOf(g) == IF g \in DOMAIN globals THEN globals[g]
              ELSE IF g \in InitialNull THEN Null ELSE 0

Passes(check) ==
  LET v == ValueOf(check.global)
  IN  CASE check.kind = "valid" -> v >= 0
        [] check.kind = "string" -> v # Null
        [] check.kind = "non_negative" -> v >= 0
        [] check.kind = "positive" -> v > 0
        [] check.kind = "size" -> v <= 1024
        [] check.kind = "epoch" -> v \in 0..999
        [] check.kind = "algo" -> v \in 0..1
        [] check.kind = "special" -> v # -1
        [] check.kind = "logging_mode" -> v \in 0..2

(* Three cases check less than they list: -qxgetorder checks the name of an  *)
(* asset only for "asset", -qutilcreatepoll the assets only of an asset poll,*)
(* the others check all.                                                     *)
Skips(check) ==
  \/ command = "QX_GET_ORDER" /\ check.global = "qx_assetName"
       /\ ValueOf("qx_command1") < 0
  \/ check.global = "qutil_semicolonSeparatedAssets" /\ ValueOf("qutil_pollType") # 2

NodeOk == Usable(settings["nodeport"]) /\ Usable(settings["nodeip"])

(* The seed of the file is copied without a terminator: strlen may count     *)
(* what lies behind it.                                                      *)
SeedOutcomes ==
  CASE settings["seed"] = "file" -> {TRUE, FALSE}
    [] OTHER -> {Usable(settings["seed"])}

SeedNeeded(row) ==
  \/ row.seed = "always"
  \/ row.seed = "without_identity" /\ ValueOf("requestedIdentity") = Null

IdentityOk(row) ==
  row.seed = "without_identity" /\ ValueOf("requestedIdentity") # Null
    => ValueOf("requestedIdentity") >= 0

(* All checks of a case exit the process when they fail.                     *)
DispatchCommand ==
  /\ phase = "dispatch" /\ command # "TOTAL_COMMAND"
  /\ LET row == Dispatch[command]
     IN  \E seedOk \in SeedOutcomes :
           phase' = IF /\ row.node => NodeOk
                       /\ SeedNeeded(row) => seedOk
                       /\ IdentityOk(row)
                       /\ \A i \in DOMAIN row.checks :
                            Skips(row.checks[i]) \/ Passes(row.checks[i])
                    THEN "called" ELSE "exited"
  /\ UNCHANGED <<settings, typed, flags, conf, file, unusual, line, command, globals>>

UnexpectedCommand ==
  /\ phase = "dispatch" /\ command = "TOTAL_COMMAND"
  /\ phase' = "unexpected"
  /\ UNCHANGED <<settings, typed, flags, conf, file, unusual, line, command, globals>>

(* -waituntilfinish and -print-only are like -force.                         *)
FlagNames == {"force", "enabletestcontracts"}

Next ==
  \/ \E k \in Keys : \E v \in Typable[k] : Setting(k, v)
  \/ \E f \in Files : ConfFile(f)
  \/ \E name \in FlagNames : FlagOption(name)
  \/ UnknownWord
  \/ HelpOrMissingValue
  \/ \E o \in DOMAIN Options : \E l \in Lines(o) : Command(o, l)
  \/ NoMoreWords
  \/ ReadConfigFile
  \/ DispatchCommand
  \/ UnexpectedCommand

Spec == Init /\ [][Next]_vars

-----------------------------------------------------------------------------
(* The variables stay in their ranges; a command is only selected by a row.  *)
TypeOK ==
  /\ phase \in {"options", "conf", "dispatch"} \cup Stopped
  /\ settings \in [Keys -> {"default", "typed", "bad", "file", "bad_file"}]
  /\ typed \in [Keys -> {"none", "default", "typed", "bad"}]
  /\ flags \subseteq FlagNames
  /\ conf \in BOOLEAN /\ file \in Files
  /\ unusual \in 0..MaxUnusual
  /\ line # NoLine => line.option \in DOMAIN Options
  /\ command \in {"TOTAL_COMMAND"} \cup DOMAIN Dispatch
  /\ \A g \in DOMAIN globals : globals[g] \in Int

(* What a function is called with, whatever the order of -conf and the       *)
(* others on the line: "variables in qubic.conf will be overrided by values  *)
(* on parameters" (README.md:16) for every value typed last that is not the  *)
(* default; a setting that was not typed has the value of the file, for the  *)
(* commands that read one, else the default.  README.md:16 does not hold of  *)
(* a default value that is typed: readConfigFile takes it for one that was   *)
(* not, and a line of the file replaces it.                                  *)
SettingsResolved ==
  phase = "called" =>
    \A k \in Keys :
      /\ typed[k] \notin {"none", "default"} => settings[k] = typed[k]
      /\ typed[k] = "none" =>
           settings[k] = IF conf /\ line.option \notin DOMAIN EscrowOptions /\ file[k] # "none"
                         THEN file[k] ELSE "default"

(* The bids of -makeipobid and the procedures of QVAULT are signed with a    *)
(* seed nobody has checked; every other command that is handed the seed and  *)
(* uses it has one of 55 characters.                                         *)
Unchecked == {"MAKE_IPO_BID"} \cup {c \in DOMAIN DispatchQearnQvault :
                                      Dispatch[c].usesSeed /\ Dispatch[c].seed = "never"}
SeedChecked ==
  phase = "called" /\ Dispatch[command].usesSeed /\ ~Usable(settings["seed"])
    => \/ command \in Unchecked
       \/ Dispatch[command].seed = "without_identity" /\ ValueOf("requestedIdentity") >= 0

(* Parser and help text agree: every option of the help but one is an option *)
(* of the parser, a command runs with a number of parameters the help gives  *)
(* for its option, and one that has such a number, and the usual words, is   *)
(* not turned away by the parser.  The exceptions: the help spells           *)
(* -nostromogetinfouserinvested with two capitals, which no block takes; the *)
(* blocks of UncheckedWords check fewer words than they read, and may crash  *)
(* instead; -qutilcreatepoll takes its fifth word for polls of assets only;  *)
(* and -qswapgetliquidityof insists on the staker the help has in brackets.  *)
NotParsed == DOMAIN Documented \ DOMAIN Options
UncheckedWords == {"-setsolutionthreshold", "-testgetincomingtransferamounts",
                   "-testbidinipothroughcontract"}
Insists(l) ==
  l.option = "-qutilcreatepoll" \/ (l.option = "-qswapgetliquidityof" /\ l.supplied = 2)
DocumentedCounts ==
  /\ NotParsed = {"-nostromogetInfoUserInvested"}
  /\ line.option \in DOMAIN Documented =>
       LET documented == line.supplied \in Documented[line.option]
       IN  /\ phase \in {"conf", "dispatch", "called"} =>
                documented \/ line.option \in UncheckedWords
           /\ phase \in {"exited", "crashed"} /\ command = "TOTAL_COMMAND"
                /\ line.oddAt = 0 /\ ~Insists(line) => ~documented

(* The switch passes what the block has read: a global handed to a function  *)
(* was set by the option that selected it, or is one of an optional word or  *)
(* of a flag; and no word of the line is left unused.                        *)
Optional == {"requestedIdentity", "compressTool", "paramString1", "paramString2",
             "paramString3", "contractIndex", "qrwa_epoch"}
PassedIsRead ==
  phase = "called" =>
    /\ Dispatch[command].uses \ {"force", "waitUntilFinish"}
         \subseteq DOMAIN globals \cup Optional
    /\ DOMAIN globals \subseteq Dispatch[command].uses \cup {"requestedSpecialCommand"}

(* An amount of a transaction is the number that was typed, at full width;   *)
(* -sendtoaddressintick is the exception (argparser.h casts it to 32 bits).  *)
Amounts == {"txAmount", "qx_assetTransferAmount", "qx_price", "qx_numberOfShare",
            "qswap_assetTransferAmount", "qswap_swapAmountIn", "qswap_swapAmountOut",
            "qswap_addLiquidityQuAmount", "qutil_voteAmount", "qearn_lockAmount",
            "qearn_unlockAmount", "nost_amount", "qbond_millionsOfQu",
            "qbond_mbondPrice", "qbond_mbondsAmount", "qbond_burnAmount",
            "qrwa_amount", "escrow_amount", "makeIPOBidPricePerShare"}
AmountAsTyped ==
  phase = "called" /\ command # "SEND_COIN_IN_TICK" =>
    \A g \in DOMAIN globals \cap Amounts :
      \E p \in DOMAIN Options[line.option].params :
        /\ Options[line.option].params[p].global = g
        /\ globals[g] = Word(line, p)

(* A contract that is not on the list is called only on a port other than    *)
(* the default one, or after -enabletestcontracts: also when the file of     *)
(* -conf, which is read later, has another port.                             *)
ContractKnownHere ==
  phase = "called" /\ "contractIndex" \in DOMAIN globals =>
    /\ globals["contractIndex"] = 3 => settings["nodeport"] # "default"
    /\ globals["contractIndex"] = 2 =>
         settings["nodeport"] # "default" \/ "enabletestcontracts" \in flags

(* "-conf <file> Specify configuration file", "Seed must be passed either    *)
(* from params or configuration file" (README.md:14, 35): a setting that is  *)
(* in the file and not on the command line is used.                          *)
ConfigFileHonoured ==
  phase = "called" /\ conf =>
    \A k \in Keys : typed[k] = "none" /\ file[k] # "none" => settings[k] = file[k]
=============================================================================
