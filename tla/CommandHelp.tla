---------------------------- MODULE CommandHelp ----------------------------
(* What print_help (argparser.h) says of the number of parameters of an      *)
(* option: a range, because of optional ones.  The options are spelled as    *)
(* they are printed.  "Skip arguments" and "<...>" (-queryassets and three   *)
(* of the oracle) are any number up to the words the usage text of the       *)
(* option names; -qtry, with a line for each of its subcommands, any number. *)
EXTENDS Integers, Tables

HelpWallet ==
  Each({"-showkeys"}, 0..0)
  @@ Each({"-getbalance", "-getasset"}, 1..1)
  @@ Each({"-queryassets"}, 0..2)
  @@ Each({"-gettotalnumberofassetshares", "-sendtoaddress"}, 2..2)
  @@ Each({"-sendtoaddressintick"}, 3..3)

HelpQutil ==
  Each({"-qutilsendtomanyv1", "-qutilburnqubic", "-qutilqueryfeereserve",
             "-qutilgetcurrentresult", "-qutilgetpollsbycreator", "-qutilgetpollinfo",
             "-qutilcancelpoll", "-getbalancesmany"}, 1..1)
  @@ Each({"-qutilburnqubicforcontract", "-qutilsendtomanybenchmark"}, 2..2)
  @@ Each({"-qutildistributequbictoshareholders", "-qutilvote",
             "-qutiltransfersharestomanyv1"}, 3..3)
  @@ Each({"-qutilcreatepoll"}, 4..5)
  @@ Each({"-qutilgetcurrentpollid", "-qutilgetfee"}, 0..0)
  @@ Each({"-qutiltransferrights"}, 4..4)

HelpProtocol ==
  Each({"-gettickdata", "-getquorumtick", "-checktxontick", "-checktxonfile",
             "-readtickdata", "-dumpspectrumfile", "-dumpuniversefile"}, 2..2)
  @@ Each({"-getcomputorlist", "-gettxinfo", "-getipostatus", "-getrevenuedata"}, 1..1)
  @@ Each({"-getnodeiplist", "-getactiveipos", "-getsysteminfo"}, 0..0)
  @@ Each({"-uploadfile"}, 1..2)
  @@ Each({"-downloadfile"}, 2..3)
  @@ Each({"-sendcustomtransaction"}, 5..5)
  @@ Each({"-dumpcontractfile", "-makeipobid"}, 3..3)

HelpNode ==
  Each({"-getcurrenttick", "-refreshpeerlist", "-forcenexttick", "-reissuevote",
             "-synctime", "-getminingscoreranking", "-savesnapshot",
             "-getexecutionfeemultiplier"}, 0..0)
  @@ Each({"-sendspecialcommand", "-setloggingmode", "-compmessage"}, 1..1)
  @@ Each({"-togglemainaux", "-sendrawpacket", "-getvotecountertx",
             "-setexecutionfeemultiplier"}, 2..2)
  @@ Each({"-setsolutionthreshold"}, 3..3)

HelpOracleQrwa ==
  Each({"-getoraclequery", "-getoraclesubscription"}, 0..2)
  @@ Each({"-queryoracle"}, 0..3)
  @@ Each({"-querypriceviacontract"}, 0..4)
  @@ Each({"-qrwapayout"}, 1..2)
  @@ Each({"-qrwastatus", "-qrwaassets", "-qrwagovparams", "-qrwagovpollids",
             "-qrwadividends", "-qrwascdividends"}, 0..0)
  @@ Each({"-qrwagovpoll", "-qrwadonate", "-qrwasetpoolaaddr", "-qrwasetpooldaddr"}, 1..1)
  @@ Each({"-qrwavotegov"}, 8..8)
  @@ Each({"-qrwadepositasset", "-qrwarevokeasset"}, 3..3)

HelpShareholdersQx ==
  Each({"-callcontractfunction", "-invokecontractprocedure", "-qxissueasset",
             "-qxtransferasset", "-qxtransferrights"}, 4..4)
  @@ Each({"-setshareholderproposal", "-getshareholderproposals", "-getshareholderresults"}, 2..2)
  @@ Each({"-clearshareholderproposal"}, 1..1)
  @@ Each({"-shareholdervote"}, 3..3)
  @@ Each({"-getshareholdervotes"}, 2..3)
  @@ Each({"-qxgetfee"}, 0..0)
  @@ Each({"-qxorder"}, 6..6)
  @@ Each({"-qxgetorder"}, 5..5)

HelpQuottery == "-qtry" :> Nat

HelpProposals ==
  Each({"-gqmpropsetproposal", "-gqmpropgetproposals", "-gqmpropgetresults",
             "-ccfsetproposal", "-ccfgetproposals", "-ccfgetsubscription", "-ccfgetresults"}, 1..1)
  @@ Each({"-gqmpropclearproposal", "-gqmpropgetrevdonation", "-ccfclearproposal",
             "-ccflatesttransfers", "-ccfgetregularpayments"}, 0..0)
  @@ Each({"-gqmpropvote", "-ccfvote"}, 2..2)
  @@ Each({"-gqmpropgetvote", "-ccfgetvote"}, 1..2)

HelpQearnQvault ==
  Each({"-qearnlock", "-qearngetlockinfoperepoch", "-qearngetstateofround",
             "-qearngetuserlockstatus", "-qearngetunlockingstatus",
             "-qearngetstatsperepoch", "-qearngetburnedandboostedstatsperepoch",
             "-qvaultsubmitauthaddress", "-qvaultchangeauthaddress",
             "-qvaultsubmitreinvestingaddress", "-qvaultchangereinvestingaddress",
             "-qvaultsubmitadminaddress", "-qvaultchangeadminaddress",
             "-qvaultsubmitbannedaddress", "-qvaultsavebannedaddress",
             "-qvaultsubmitunbannedaddress", "-qvaultsaveunbannedaddress"}, 1..1)
  @@ Each({"-qearnunlock", "-qearngetuserlockedinfo"}, 2..2)
  @@ Each({"-qearngetburnedandboostedstats", "-qvaultgetdata"}, 0..0)
  @@ Each({"-qvaultsubmitfees", "-qvaultchangefees"}, 3..3)

HelpMsvault ==
  Each({"-msvaultregistervault", "-msvaultreleaseto",
             "-msvaultgetmanagedassetbalance", "-msvaultrevokeassetrights"}, 3..3)
  @@ Each({"-msvaultdeposit"}, 2..2)
  @@ Each({"-msvaultresetrelease", "-msvaultgetvaults", "-msvaultgetreleasestatus",
             "-msvaultgetbalanceof", "-msvaultgetvaultname", "-msvaultgetvaultowners",
             "-msvaultresetassetrelease", "-msvaultgetassetbalances",
             "-msvaultgetassetreleasestatus", "-msvaultisshareholder"}, 1..1)
  @@ Each({"-msvaultgetrevenueinfo", "-msvaultgetfees", "-msvaultgetfeevotes",
             "-msvaultgetfeevotesowner", "-msvaultgetfeevotesscore",
             "-msvaultgetuniquefeevotes", "-msvaultgetuniquefeevotesranking"}, 0..0)
  @@ Each({"-msvaultdepositasset"}, 4..4)
  @@ Each({"-msvaultreleaseassetto", "-msvaultvotechange"}, 5..5)

HelpQswap ==
  Each({"-qswapgetfee"}, 0..0)
  @@ Each({"-qswapissueasset", "-qswaptransferasset", "-qswaptransferassetrights",
             "-qswapswapexactquforasset", "-qswapswapquforexactasset",
             "-qswapswapexactassetforqu", "-qswapswapassetforexactqu", "-qswapquote"}, 4..4)
  @@ Each({"-qswapcreatepool", "-qswapgetpoolbasicstate"}, 2..2)
  @@ Each({"-qswapaddliquidity"}, 6..6)
  @@ Each({"-qswapremoveliquidity"}, 5..5)
  @@ Each({"-qswapgetliquidityof"}, 2..3)

HelpNostromo ==
  Each({"-nostromoregisterintier", "-nostromoupgradetierlevel",
             "-nostromogettierlevelbyuser", "-nostromogetuservotestatus",
             "-nostromochecktokencreatability", "-nostromogetnumberofinvestedprojects",
             "-nostromogetprojectbyindex", "-nostromogetfundraisingbyindex",
             "-nostromogetprojectindexlistbycreator", "-nostromogetInfoUserInvested"}, 1..1)
  @@ Each({"-nostromologoutfromtier", "-nostromogetstats"}, 0..0)
  @@ Each({"-nostromocreateproject"}, 10..10)
  @@ Each({"-nostromovoteinproject", "-nostromoinvestinproject", "-nostromoclaimtoken",
             "-nostromogetmaxclaimamount"}, 2..2)
  @@ Each({"-nostromocreatefundraising"}, 43..43)
  @@ Each({"-nostromotransfersharemanagementrights"}, 4..4)

HelpQbond ==
  Each({"-qbondstake", "-qbondburnqu", "-qbondgetinfoperepoch", "-qbondgetusermbonds"}, 1..1)
  @@ Each({"-qbondtransfer", "-qbondaddask", "-qbondremoveask", "-qbondaddbid",
             "-qbondremovebid", "-qbondgetorders", "-qbondgetuserorders"}, 3..3)
  @@ Each({"-qbondupdatecfa"}, 2..2)
  @@ Each({"-qbondgetfees", "-qbondgetearnedfees", "-qbondtable", "-qbondgetcfa"}, 0..0)

HelpEscrowTests ==
  Each({"-escrowcreatedeal"}, 3..3)
  @@ Each({"-escrowacceptdeal", "-escrowmakedealpublic", "-escrowcanceldeal",
             "-testgetincomingtransferamounts"}, 1..1)
  @@ Each({"-escrowtransferrights", "-testbidinipothroughcontract"}, 4..4)
  @@ Each({"-escrowgetdeals", "-escrowgetfreeasset"}, 2..2)
  @@ Each({"-testqpifunctionsoutput", "-testqpifunctionsoutputpast"}, 0..0)

Documented ==
  HelpWallet @@ HelpQutil @@ HelpProtocol @@ HelpNode @@ HelpOracleQrwa
  @@ HelpShareholdersQx @@ HelpQuottery @@ HelpProposals @@ HelpQearnQvault @@ HelpMsvault
  @@ HelpQswap @@ HelpNostromo @@ HelpQbond @@ HelpEscrowTests
============================================================================
