--------------------------- MODULE CommandOptions ---------------------------
(* The options of qubic-cli as the parser reads them (argparser.h): for      *)
(* every option the COMMAND it selects and the words it takes from the       *)
(* command line.  The rows are the blocks of parseArgument; what a block     *)
(* does with its words is the row's constructor:                             *)
(*   Takes         CHECK_NUMBER_OF_PARAMETERS of all it reads                *)
(*   Alone         reads nothing                                             *)
(*   TakesUpTo     the words after the first `least` are read if present     *)
(*   Underchecked  reads words it did not check to be there                  *)
(*   TakesAll      keeps every word                                          *)
(*   Fixed         sets a global to a constant                               *)
(* CHECK_OVER_PARAMETERS follows in all of them but TakesAll.  A parameter   *)
(* is the global it is stored in and the conversion on the way: the text, or *)
(* strtoll cast to the type of the global.                                   *)
EXTENDS Integers, Sequences, Tables

Param(kind, global) == [kind |-> kind, global |-> global]
Text(global) == Param("text", global)
NumNarrow(global) == Param("u32", global)
Num(global) == Param("num", global)
U32(global) == Param("u32", global)
U16(global) == Param("u16", global)
U8(global) == Param("u8", global)
I32(global) == Param("i32", global)
I8(global) == Param("i8", global)
Flag(global) == Param("flag", global)
Contract(global) == Param("contract", global)

Row(form, cmd, checked, params) ==
  [form |-> form, command |-> cmd, checked |-> checked, params |-> params]

TakesUnchecked(cmd, params) == Row("takes", cmd, 0, params)
Takes(cmd, params) == Row("takes", cmd, Len(params), params)
Alone(cmd) == Takes(cmd, <<>>)
TakesUpTo(cmd, least, params) == Row("upto", cmd, least, params)
Underchecked(cmd, checked, params) == Row("takes", cmd, checked, params)
TakesAll(cmd) == Row("all", cmd, 0, <<>>)
Fixed(cmd, global) == Row("fixed", cmd, 0, <<Num(global)>>)

(* -qrwapayout and -qutilcreatepoll choose what they do from a word; see     *)
(* CommandLine.                                                              *)
Payout == Row("payout", "QRWA_PAYOUT_ADDRESS", 1,
              <<Text("qrwa_identity"), I32("qrwa_epoch")>>)
CreatePoll == Row("poll", "QUTIL_CREATE_POLL", 4, <<
  Text("qutil_pollNameStr"), Num("qutil_pollType"), Num("qutil_minAmount"),
  Text("qutil_githubLinkStr"), Text("qutil_semicolonSeparatedAssets")>>)

(* The words of -nostromocreatefundraising: nine dates of four words each.  *)
Date(year, month, day, hour) == <<U32(year), U32(month), U32(day), U32(hour)>>
Fundraising ==
  <<Num("nost_tokenPrice"), Num("nost_soldAmount"), Num("nost_requiredFunds"),
    U32("nost_indexOfProject")>>
  \o Date("nost_firstPhaseStartYear", "nost_firstPhaseStartMonth",
          "nost_firstPhaseStartDay", "nost_firstPhaseStartHour")
  \o Date("nost_firstPhaseEndYear", "nost_firstPhaseEndMonth",
          "nost_firstPhaseEndDay", "nost_firstPhaseEndHour")
  \o Date("nost_secondPhaseStartYear", "nost_secondPhaseStartMonth",
          "nost_secondPhaseStartDay", "nost_secondPhaseStartHour")
  \o Date("nost_secondPhaseEndYear", "nost_secondPhaseEndMonth",
          "nost_secondPhaseEndDay", "nost_secondPhaseEndHour")
  \o Date("nost_thirdPhaseStartYear", "nost_thirdPhaseStartMonth",
          "nost_thirdPhaseStartDay", "nost_thirdPhaseStartHour")
  \o Date("nost_thirdPhaseEndYear", "nost_thirdPhaseEndMonth",
          "nost_thirdPhaseEndDay", "nost_thirdPhaseEndHour")
  \o Date("nost_listingStartYear", "nost_listingStartMonth",
          "nost_listingStartDay", "nost_listingStartHour")
  \o Date("nost_cliffEndYear", "nost_cliffEndMonth",
          "nost_cliffEndDay", "nost_cliffEndHour")
  \o Date("nost_vestingEndYear", "nost_vestingEndMonth",
          "nost_vestingEndDay", "nost_vestingEndHour")
  \o <<U8("nost_threshold"), U8("nost_TGE"), U8("nost_stepOfVesting")>>

Named(params) == {params[p].global : p \in DOMAIN params}

WalletOptions ==
  "-showkeys" :> Alone("SHOW_KEYS")
  @@ "-getbalance" :> Takes("GET_BALANCE", <<Text("requestedIdentity")>>)
  @@ "-getasset" :> Takes("GET_ASSET", <<Text("requestedIdentity")>>)
  @@ "-queryassets" :> TakesUpTo("QUERY_ASSETS", 0, <<
       Text("paramString1"), Text("paramString2")>>)
  @@ "-gettotalnumberofassetshares" :> Takes("GET_TOTAL_NUMBER_OF_ASSET_SHARES", <<
       Text("paramString1"), Text("paramString2")>>)
  @@ "-qutildistributequbictoshareholders" :> Takes("QUTIL_DISTRIBUTE_QU_TO_SHAREHOLDERS", <<
       Text("paramString1"), Text("paramString2"), Num("txAmount")>>)
  @@ "-sendtoaddress" :> Takes("SEND_COIN", <<Text("targetIdentity"), Num("txAmount")>>)
  @@ "-sendtoaddressintick" :> Takes("SEND_COIN_IN_TICK", <<
       Text("targetIdentity"), U32("txAmount"), U32("txTick")>>)

QueryOptions ==
  "-gettickdata" :> Takes("GET_TICK_DATA", <<
       U32("requestedTickNumber"), Text("requestedFileName")>>)
  @@ "-getquorumtick" :> Takes("GET_QUORUM_TICK", <<
       Text("requestedFileName"), U32("requestedTickNumber")>>)
  @@ "-getcomputorlist" :> Takes("GET_COMP_LIST", <<Text("requestedFileName")>>)
  @@ "-getnodeiplist" :> Alone("GET_NODE_IP_LIST")
  @@ "-gettxinfo" :> Takes("GET_TX_INFO", <<Text("requestedTxId")>>)
  @@ "-uploadfile" :> TakesUpTo("UPLOAD_FILE", 1, <<Text("filePath"), Text("compressTool")>>)
  @@ "-downloadfile" :> TakesUpTo("DOWNLOAD_FILE", 2, <<
       Text("requestedTxId"), Text("filePath"), Text("compressTool")>>)
  @@ "-checktxontick" :> Takes("CHECK_TX_ON_TICK", <<
       U32("requestedTickNumber"), Text("requestedTxId")>>)
  @@ "-checktxonfile" :> Takes("CHECK_TX_ON_FILE", <<
       Text("requestedTxId"), Text("requestedFileName")>>)
  @@ "-readtickdata" :> Takes("READ_TICK_DATA", <<
       Text("requestedFileName"), Text("requestedFileName2")>>)
  @@ "-getvotecountertx" :> Takes("GET_VOTE_COUNTER_TX", <<
       Text("requestedFileName"), U32("requestedTickNumber")>>)

ProtocolOptions ==
  "-sendcustomtransaction" :> Takes("SEND_CUSTOM_TX", <<
       Text("targetIdentity"), U16("txType"), Num("txAmount"), I32("txExtraDataSize"),
       Text("txExtraData")>>)
  @@ "-invokecontractprocedure" :> Takes("INVOKE_CONTRACT_PROCEDURE", <<
       Contract("contractIndex"), U16("txType"), Num("txAmount"),
       Text("invokeContractProcedureInputFormat")>>)
  @@ "-callcontractfunction" :> Takes("CALL_CONTRACT_FUNCTION", <<
       Contract("contractIndex"), U16("contractFunctionNumber"),
       Text("callContractFunctionInputFormat"), Text("callContractFunctionOutputFormat")>>)
  @@ "-dumpspectrumfile" :> Takes("DUMP_SPECTRUM_FILE", <<
       Text("dumpBinaryFileInput"), Text("dumpBinaryFileOutput")>>)
  @@ "-dumpuniversefile" :> Takes("DUMP_UNIVERSE_FILE", <<
       Text("dumpBinaryFileInput"), Text("dumpBinaryFileOutput")>>)
  @@ "-dumpcontractfile" :> Takes("DUMP_CONTRACT_FILE", <<
       Text("dumpBinaryFileInput"), U32("dumpBinaryContractId"),
       Text("dumpBinaryFileOutput")>>)
  @@ "-makeipobid" :> Takes("MAKE_IPO_BID", <<
       U32("IPOContractIndex"), U16("makeIPOBidNumberOfShare"),
       Num("makeIPOBidPricePerShare")>>)
  @@ "-getipostatus" :> Takes("GET_IPO_STATUS", <<U32("IPOContractIndex")>>)
  @@ "-getactiveipos" :> Alone("GET_ACTIVE_IPOS")

NodeOptions ==
  "-getsysteminfo" :> Alone("GET_SYSTEM_INFO")
  @@ "-getrevenuedata" :> Takes("GET_REVENUE_DATA", <<Text("dumpBinaryFileOutput")>>)
  @@ "-getcurrenttick" :> Alone("GET_CURRENT_TICK")
  @@ "-sendspecialcommand" :> Takes("SEND_SPECIAL_COMMAND", <<I32("requestedSpecialCommand")>>)
  @@ "-togglemainaux" :> Takes("TOOGLE_MAIN_AUX", <<
       Text("toggleMainAux0"), Text("toggleMainAux1")>>)
  @@ "-setsolutionthreshold" :> Underchecked("SET_SOLUTION_THRESHOLD", 2, <<
       I32("setSolutionThresholdEpoch"), I32("setSolutionThresholdValue"),
       I32("setSolutionThresholdAlgo")>>)
  @@ "-refreshpeerlist" :> Fixed("REFRESH_PEER_LIST", "requestedSpecialCommand")
  @@ "-forcenexttick" :> Fixed("FORCE_NEXT_TICK", "requestedSpecialCommand")
  @@ "-reissuevote" :> Fixed("REISSUE_VOTE", "requestedSpecialCommand")
  @@ "-synctime" :> Fixed("SYNC_TIME", "requestedSpecialCommand")
  @@ "-savesnapshot" :> Fixed("SAVE_SNAPSHOT", "requestedSpecialCommand")
  @@ "-sendrawpacket" :> Takes("SEND_RAW_PACKET", <<Text("rawPacket"), I32("rawPacketSize")>>)
  @@ "-getminingscoreranking" :> Alone("GET_MINING_SCORE_RANKING")
  @@ "-setloggingmode" :> Takes("SET_LOGGING_MODE", <<I8("loggingMode")>>)
  @@ "-compmessage" :> Takes("COMP_CHAT", <<Text("compChatString")>>)
  @@ "-setexecutionfeemultiplier" :> Takes("SET_EXECUTION_FEE_MULTIPLIER", <<
       Num("executionFeeMultiplierNumerator"), Num("executionFeeMultiplierDenominator")>>)
  @@ "-getexecutionfeemultiplier" :> Alone("GET_EXECUTION_FEE_MULTIPLIER")

OracleOptions ==
  "-getoraclequery" :> TakesUpTo("GET_ORACLE_QUERY", 0, <<
       Text("paramString1"), Text("paramString2")>>)
  @@ "-getoraclesubscription" :> TakesUpTo("GET_ORACLE_SUBSCRIPTION", 0, <<
       Text("paramString1"), Text("paramString2")>>)
  @@ "-queryoracle" :> TakesUpTo("SEND_ORACLE_QUERY_TX", 0, <<
       Text("paramString1"), Text("paramString2"), Text("paramString3")>>)
  @@ "-querypriceviacontract" :> TakesUpTo("SEND_ORACLE_CONTRACT_TX", 0, <<
       Text("paramString1"), Contract("contractIndex"), Text("paramString2"),
       Text("paramString3")>>)

QrwaOptions ==
  "-qrwapayout" :> Payout
  @@ "-qrwastatus" :> Alone("QRWA_STATUS")
  @@ "-qrwaassets" :> Alone("QRWA_ASSETS")
  @@ "-qrwagovparams" :> Alone("QRWA_GOV_PARAMS")
  @@ "-qrwagovpoll" :> Takes("QRWA_GOV_POLL", <<Num("qrwa_poll_id")>>)
  @@ "-qrwagovpollids" :> Alone("QRWA_GOV_POLL_IDS")
  @@ "-qrwadividends" :> Alone("QRWA_DIVIDENDS")
  @@ "-qrwascdividends" :> Alone("QRWA_SC_DIVIDENDS")
  @@ "-qrwadonate" :> Takes("QRWA_DONATE_TREASURY", <<Num("qrwa_amount")>>)
  @@ "-qrwavotegov" :> Takes("QRWA_VOTE_GOV_PARAMS", <<
       Text("qrwa_gov_admin"), Text("qrwa_gov_electricity"), Text("qrwa_gov_maintenance"),
       Text("qrwa_gov_reinvestment"), Text("qrwa_gov_qminedev"),
       Num("qrwa_gov_electricity_pct"), Num("qrwa_gov_maintenance_pct"),
       Num("qrwa_gov_reinvestment_pct")>>)
  @@ "-qrwasetpoolaaddr" :> Takes("QRWA_SET_POOL_A_ADDR", <<Text("qrwa_new_address")>>)
  @@ "-qrwasetpooldaddr" :> Takes("QRWA_SET_POOL_D_ADDR", <<Text("qrwa_new_address")>>)
  @@ "-qrwadepositasset" :> Takes("QRWA_DEPOSIT_ASSET", <<
       Text("qrwa_issuer"), Text("qrwa_asset_name"), Num("qrwa_amount")>>)
  @@ "-qrwarevokeasset" :> Takes("QRWA_REVOKE_ASSET_MGMT", <<
       Text("qrwa_issuer"), Text("qrwa_asset_name"), Num("qrwa_num_shares")>>)

QxOptions ==
  "-qxissueasset" :> Takes("QX_ISSUE_ASSET", <<
       Text("qx_issueAssetName"), Num("qx_issueAssetNumberOfUnit"),
       Text("qx_issueUnitOfMeasurement"), I8("qx_issueAssetNumDecimal")>>)
  @@ "-qxtransferasset" :> Takes("QX_TRANSFER_ASSET", <<
       Text("qx_assetTransferAssetName"), Text("qx_assetTransferIssuerInHex"),
       Text("qx_assetTransferNewOwnerIdentity"), Num("qx_assetTransferAmount")>>)
  @@ "-qxgetfee" :> Alone("PRINT_QX_FEE")
  @@ "-qxorder" :> Takes("QX_ORDER", <<
       Text("qx_command1"), Text("qx_command2"), Text("qx_issuer"), Text("qx_assetName"),
       Num("qx_price"), Num("qx_numberOfShare")>>)
  @@ "-qxgetorder" :> Takes("QX_GET_ORDER", <<
       Text("qx_command1"), Text("qx_command2"), Text("qx_issuer"), Text("qx_assetName"),
       Num("qx_offset")>>)
  @@ "-qxtransferrights" :> Takes("QX_TRANSFER_MANAGEMENT_RIGHTS", <<
       Text("qx_assetName"), Text("qx_issuer"), Contract("contractIndex"),
       Num("qx_numberOfShare")>>)

QswapPoolOptions ==
  "-qswapissueasset" :> Takes("QSWAP_ISSUE_ASSET", <<
       Text("qswap_issueAssetName"), Num("qswap_issueAssetNumberOfUnit"),
       Text("qswap_issueUnitOfMeasurement"), I8("qswap_issueAssetNumDecimal")>>)
  @@ "-qswaptransferasset" :> Takes("QSWAP_TRANSFER_ASSET", <<
       Text("qswap_assetTransferAssetName"), Text("qswap_assetTransferIssuer"),
       Text("qswap_assetTransferNewOwnerIdentity"), Num("qswap_assetTransferAmount")>>)
  @@ "-qswaptransferassetrights" :> Takes("QSWAP_TRANSFER_ASSET_RIGHTS", <<
       Text("qswap_assetTransferAssetName"), Text("qswap_assetTransferIssuer"),
       Contract("qswap_newContractIndex"), Num("qswap_assetTransferAmount")>>)
  @@ "-qswapgetfee" :> Alone("PRINT_QSWAP_FEE")
  @@ "-qswapcreatepool" :> Takes("QSWAP_CREATE_POOL", <<
       Text("qswap_assetName"), Text("qswap_issuer")>>)
  @@ "-qswapgetpoolbasicstate" :> Takes("QSWAP_GET_POOL_BASIC", <<
       Text("qswap_assetName"), Text("qswap_issuer")>>)
  @@ "-qswapaddliquidity" :> Takes("QSWAP_ADD_LIQUIDITY", <<
       Text("qswap_assetName"), Text("qswap_issuer"), Num("qswap_addLiquidityQuAmount"),
       Num("qswap_addLiquidityAssetAmountDesired"), Num("qswap_liquidityQuAmountMin"),
       Num("qswap_liquidityAssetAmountMin")>>)
  @@ "-qswapremoveliquidity" :> Takes("QSWAP_REMOVE_LIQUIDITY", <<
       Text("qswap_assetName"), Text("qswap_issuer"),
       Num("qswap_removeLiquidityBurnLiquidity"), Num("qswap_liquidityQuAmountMin"),
       Num("qswap_liquidityAssetAmountMin")>>)
  @@ "-qswapgetliquidityof" :> Takes("QSWAP_GET_LIQUIDITY_OF", <<
       Text("qswap_assetName"), Text("qswap_issuer"),
       Text("qswap_getLiquidityOfStakerIssuer")>>)

QswapSwapOptions ==
  "-qswapswapexactquforasset" :> Takes("QSWAP_SWAP_EXACT_QU_FOR_ASSET", <<
       Text("qswap_assetName"), Text("qswap_issuer"), Num("qswap_swapAmountIn"),
       Num("qswap_swapAmountOutMin")>>)
  @@ "-qswapswapquforexactasset" :> Takes("QSWAP_SWAP_QU_FOR_EXACT_ASSET", <<
       Text("qswap_assetName"), Text("qswap_issuer"), Num("qswap_swapAmountOut"),
       Num("qswap_swapAmountInMax")>>)
  @@ "-qswapswapexactassetforqu" :> Takes("QSWAP_SWAP_EXACT_ASSET_FOR_QU", <<
       Text("qswap_assetName"), Text("qswap_issuer"), Num("qswap_swapAmountIn"),
       Num("qswap_swapAmountOutMin")>>)
  @@ "-qswapswapassetforexactqu" :> Takes("QSWAP_SWAP_ASSET_FOR_EXACT_QU", <<
       Text("qswap_assetName"), Text("qswap_issuer"), Num("qswap_swapAmountOut"),
       Num("qswap_swapAmountInMax")>>)
  @@ "-qswapquote" :> Takes("QSWAP_QUOTE", <<
       Text("qswap_command1"), Text("qswap_assetName"), Text("qswap_issuer"),
       Num("qswap_quoteAmount")>>)

QuotteryOptions == "-qtry" :> TakesAll("QUOTTERY_COMMAND")

QutilOptions ==
  "-qutilsendtomanyv1" :> Takes("QUTIL_SEND_TO_MANY_V1", <<
       Text("qutil_sendToManyV1PayoutListFile")>>)
  @@ "-qutilburnqubic" :> Takes("QUTIL_BURN_QUBIC", <<Num("txAmount")>>)
  @@ "-qutilburnqubicforcontract" :> Takes("QUTIL_BURN_QUBIC_FOR_CONTRACT", <<
       Num("txAmount"), Contract("contractIndex")>>)
  @@ "-qutilqueryfeereserve" :> Takes("QUTIL_QUERY_FEE_RESERVE", <<Contract("contractIndex")>>)
  @@ "-qutilsendtomanybenchmark" :> Takes("QUTIL_SEND_TO_MANY_BENCHMARK", <<
       Num("qutil_sendToManyBenchmarkDestinationCount"),
       Num("qutil_sendToManyBenchmarkNumTransfersEach")>>)
  @@ "-qutilcreatepoll" :> CreatePoll
  @@ "-qutilvote" :> Takes("QUTIL_VOTE", <<
       Num("qutil_votePollId"), Num("qutil_voteAmount"), Num("qutil_voteChosenOption")>>)

QutilQueryOptions ==
  "-qutilgetcurrentresult" :> Takes("QUTIL_GET_CURRENT_RESULT", <<
       Num("qutil_getResultPollId")>>)
  @@ "-qutilgetpollsbycreator" :> Takes("QUTIL_GET_POLLS_BY_CREATOR", <<
       Text("qutil_getPollsCreatorAddress")>>)
  @@ "-qutilgetcurrentpollid" :> Alone("QUTIL_GET_CURRENT_POLL_ID")
  @@ "-qutilgetpollinfo" :> Takes("QUTIL_GET_POLL_INFO", <<Num("qutil_getPollInfoPollId")>>)
  @@ "-qutilcancelpoll" :> Takes("QUTIL_CANCEL_POLL", <<Num("qutil_cancelPollId")>>)
  @@ "-qutilgetfee" :> Alone("QUTIL_PRINT_FEE")
  @@ "-getbalancesmany" :> Takes("QUTIL_GET_BALANCES_MANY", <<
       Text("qutil_getBalancesManyFile")>>)
  @@ "-qutiltransfersharestomanyv1" :> Takes("QUTIL_TRANSFER_SHARES_TO_MANY_V1", <<
       Text("paramString1"), Text("paramString2"), Text("qutil_transferSharePayoutListFile")>>)
  @@ "-qutiltransferrights" :> Takes("QUTIL_TRANSFER_SHARES_MANAGEMENT_RIGHTS", <<
       Text("qx_assetName"), Text("qx_issuer"), Contract("contractIndex"),
       Num("qx_numberOfShare")>>)

GqmpropOptions ==
  "-gqmpropsetproposal" :> Takes("GQMPROP_SET_PROPOSAL", <<Text("proposalString")>>)
  @@ "-gqmpropclearproposal" :> Alone("GQMPROP_CLEAR_PROPOSAL")
  @@ "-gqmpropgetproposals" :> Takes("GQMPROP_GET_PROPOSALS", <<Text("proposalString")>>)
  @@ "-gqmpropvote" :> Takes("GQMPROP_VOTE", <<Text("proposalString"), Text("voteValueString")>>)
  @@ "-gqmpropgetvote" :> TakesUpTo("GQMPROP_GET_VOTE", 1, <<
       Text("proposalString"), Text("requestedIdentity")>>)
  @@ "-gqmpropgetresults" :> Takes("GQMPROP_GET_VOTING_RESULTS", <<Text("proposalString")>>)
  @@ "-gqmpropgetrevdonation" :> Alone("GQMPROP_GET_REV_DONATION")

CcfOptions ==
  "-ccfsetproposal" :> Takes("CCF_SET_PROPOSAL", <<Text("proposalString")>>)
  @@ "-ccfclearproposal" :> Alone("CCF_CLEAR_PROPOSAL")
  @@ "-ccfgetproposals" :> Takes("CCF_GET_PROPOSALS", <<Text("proposalString")>>)
  @@ "-ccfgetsubscription" :> Takes("CCF_GET_SUBSCRIPTION", <<
       Text("ccf_subscriptionDestination")>>)
  @@ "-ccfvote" :> Takes("CCF_VOTE", <<Text("proposalString"), Text("voteValueString")>>)
  @@ "-ccfgetvote" :> TakesUpTo("CCF_GET_VOTE", 1, <<
       Text("proposalString"), Text("requestedIdentity")>>)
  @@ "-ccfgetresults" :> Takes("CCF_GET_VOTING_RESULTS", <<Text("proposalString")>>)
  @@ "-ccflatesttransfers" :> Alone("CCF_GET_LATEST_TRANSFERS")
  @@ "-ccfgetregularpayments" :> Alone("CCF_GET_REGULAR_PAYMENTS")

QearnOptions ==
  "-qearnlock" :> Takes("QEARN_LOCK", <<Num("qearn_lockAmount")>>)
  @@ "-qearnunlock" :> Takes("QEARN_UNLOCK", <<
       Num("qearn_unlockAmount"), U32("qearn_lockedEpoch")>>)
  @@ "-qearngetlockinfoperepoch" :> Takes("QEARN_GET_INFO_PER_EPOCH", <<
       U32("qearn_getInfoEpoch")>>)
  @@ "-qearngetuserlockedinfo" :> Takes("QEARN_GET_USER_LOCKED_INFO", <<
       Text("requestedIdentity"), U32("qearn_getInfoEpoch")>>)
  @@ "-qearngetstateofround" :> Takes("QEARN_GET_STATE_OF_ROUND", <<U32("qearn_getInfoEpoch")>>)
  @@ "-qearngetuserlockstatus" :> Takes("QEARN_GET_USER_LOCK_STATUS", <<
       Text("requestedIdentity")>>)
  @@ "-qearngetunlockingstatus" :> Takes("QEARN_GET_UNLOCKING_STATUS", <<
       Text("requestedIdentity")>>)
  @@ "-qearngetstatsperepoch" :> Takes("QEARN_GET_STATS_PER_EPOCH", <<
       U32("qearn_getStatsEpoch")>>)
  @@ "-qearngetburnedandboostedstats" :> Alone("QEARN_GET_BURNED_AND_BOOSTED_STATS")
  @@ "-qearngetburnedandboostedstatsperepoch" :> Takes("QEARN_GET_BURNED_AND_BOOSTED_STATS_PER_EPOCH", <<
       U32("qearn_getStatsEpoch")>>)

QvaultOptions ==
  "-qvaultsubmitauthaddress" :> Takes("QVAULT_SUBMIT_AUTH_ADDRESS", <<
       Text("qvault_identity")>>)
  @@ "-qvaultchangeauthaddress" :> Takes("QVAULT_CHANGE_AUTH_ADDRESS", <<
       U32("qvault_numberOfChangedAddress")>>)
  @@ "-qvaultsubmitfees" :> Takes("QVAULT_SUBMIT_FEES", <<
       U32("qvault_newQCAPHolderFee"), U32("qvault_newReinvestingFee"),
       U32("qvault_newDevFee")>>)
  @@ "-qvaultchangefees" :> Takes("QVAULT_CHANGE_FEES", <<
       U32("qvault_newQCAPHolderFee"), U32("qvault_newReinvestingFee"),
       U32("qvault_newDevFee")>>)
  @@ "-qvaultsubmitreinvestingaddress" :> Takes("QVAULT_SUBMIT_REINVESTING_ADDRESS", <<
       Text("qvault_identity")>>)
  @@ "-qvaultchangereinvestingaddress" :> Takes("QVAULT_CHANGE_REINVESTING_ADDRESS", <<
       Text("qvault_identity")>>)
  @@ "-qvaultsubmitadminaddress" :> Takes("QVAULT_SUBMIT_ADMIN_ADDRESS", <<
       Text("qvault_identity")>>)
  @@ "-qvaultchangeadminaddress" :> Takes("QVAULT_CHANGE_ADMIN_ADDRESS", <<
       Text("qvault_identity")>>)
  @@ "-qvaultgetdata" :> Alone("QVAULT_GET_DATA")
  @@ "-qvaultsubmitbannedaddress" :> Takes("QVAULT_SUBMIT_BANNED_ADDRESS", <<
       Text("qvault_identity")>>)
  @@ "-qvaultsavebannedaddress" :> Takes("QVAULT_SAVE_BANNED_ADDRESS", <<
       Text("qvault_identity")>>)
  @@ "-qvaultsubmitunbannedaddress" :> Takes("QVAULT_SUBMIT_UNBANNED_ADDRESS", <<
       Text("qvault_identity")>>)
  @@ "-qvaultsaveunbannedaddress" :> Takes("QVAULT_SAVE_UNBANNED_ADDRESS", <<
       Text("qvault_identity")>>)

MsvaultOptions ==
  "-msvaultregistervault" :> Takes("MSVAULT_REGISTER_VAULT_CMD", <<
       Num("msvault_requiredApprovals"), Text("msvault_vaultName"),
       Text("msvault_ownersCommaSeparated")>>)
  @@ "-msvaultdeposit" :> Takes("MSVAULT_DEPOSIT_CMD", <<Num("msvault_id"), Num("txAmount")>>)
  @@ "-msvaultreleaseto" :> Takes("MSVAULT_RELEASE_TO_CMD", <<
       Num("msvault_id"), Num("txAmount"), Text("msvault_destination")>>)
  @@ "-msvaultresetrelease" :> Takes("MSVAULT_RESET_RELEASE_CMD", <<Num("msvault_id")>>)
  @@ "-msvaultgetvaults" :> Takes("MSVAULT_GET_VAULTS_CMD", <<Text("msvault_publicId")>>)
  @@ "-msvaultgetreleasestatus" :> Takes("MSVAULT_GET_RELEASE_STATUS_CMD", <<Num("msvault_id")>>)
  @@ "-msvaultgetbalanceof" :> Takes("MSVAULT_GET_BALANCE_OF_CMD", <<Num("msvault_id")>>)
  @@ "-msvaultgetvaultname" :> Takes("MSVAULT_GET_VAULT_NAME_CMD", <<Num("msvault_id")>>)
  @@ "-msvaultgetrevenueinfo" :> Alone("MSVAULT_GET_REVENUE_INFO_CMD")
  @@ "-msvaultgetfees" :> Alone("MSVAULT_GET_FEES_CMD")
  @@ "-msvaultgetvaultowners" :> Takes("MSVAULT_GET_OWNERS_CMD", <<Num("msvault_id")>>)

MsvaultAssetOptions ==
  "-msvaultdepositasset" :> Takes("MSVAULT_DEPOSIT_ASSET_CMD", <<
       Num("msvault_id"), Text("msVaultAssetName"), Text("msVaultIssuer"), Num("txAmount")>>)
  @@ "-msvaultreleaseassetto" :> Takes("MSVAULT_RELEASE_ASSET_TO_CMD", <<
       Num("msvault_id"), Text("msVaultAssetName"), Text("msVaultIssuer"), Num("txAmount"),
       Text("msvault_destination")>>)
  @@ "-msvaultresetassetrelease" :> Takes("MSVAULT_RESET_ASSET_RELEASE_CMD", <<
       Num("msvault_id")>>)
  @@ "-msvaultgetassetbalances" :> Takes("MSVAULT_GET_ASSET_BALANCES_CMD", <<Num("msvault_id")>>)
  @@ "-msvaultgetassetreleasestatus" :> Takes("MSVAULT_GET_ASSET_RELEASE_STATUS_CMD", <<
       Num("msvault_id")>>)
  @@ "-msvaultgetmanagedassetbalance" :> Takes("MSVAULT_GET_MANAGED_ASSET_BALANCE_CMD", <<
       Text("msVaultAssetName"), Text("msVaultIssuer"), Text("msVaultOwner")>>)
  @@ "-msvaultrevokeassetrights" :> Takes("MSVAULT_REVOKE_ASSET_RIGHTS_CMD", <<
       Text("msVaultAssetName"), Text("msVaultIssuer"), Num("txAmount")>>)
  @@ "-msvaultisshareholder" :> Takes("MSVAULT_IS_SHAREHOLDER_CMD", <<
       Text("msVaultCandidateIdentity")>>)
  @@ "-msvaultvotechange" :> Takes("MSVAULT_VOTE_FEE_CHANGE_CMD", <<
       Num("msVaultNewRegisteringFee"), Num("msVaultNewReleaseFee"),
       Num("msVaultNewReleaseResetFee"), Num("msVaultNewHoldingFee"),
       Num("msVaultNewDepositFee")>>)
  @@ "-msvaultgetfeevotes" :> Alone("MSVAULT_GET_FEE_VOTES_CMD")
  @@ "-msvaultgetfeevotesowner" :> Alone("MSVAULT_GET_FEE_VOTES_OWNER_CMD")
  @@ "-msvaultgetfeevotesscore" :> Alone("MSVAULT_GET_FEE_VOTES_SCORE_CMD")
  @@ "-msvaultgetuniquefeevotes" :> Alone("MSVAULT_GET_UNIQUE_FEE_VOTES_CMD")
  @@ "-msvaultgetuniquefeevotesranking" :> Alone("MSVAULT_GET_UNIQUE_FEE_VOTES_RANKING_CMD")

NostromoOptions ==
  "-nostromoregisterintier" :> Takes("NOSTROMO_REGISTER_IN_TIER", <<U32("nost_tierLevel")>>)
  @@ "-nostromologoutfromtier" :> Alone("NOSTROMO_LOGOUT_FROM_TIER")
  @@ "-nostromocreateproject" :> Takes("NOSTROMO_CREATE_PROJECT", <<
       Text("nost_tokenName"), Num("nost_supply"), U32("nost_startYear"),
       U32("nost_startMonth"), U32("nost_startDay"), U32("nost_startHour"),
       U32("nost_endYear"), U32("nost_endMonth"), U32("nost_endDay"), U32("nost_endHour")>>)
  @@ "-nostromovoteinproject" :> Takes("NOSTROMO_VOTE_IN_PROJECT", <<
       U32("nost_indexOfProject"), Flag("nost_decision")>>)
  @@ "-nostromocreatefundraising" :> Takes("NOSTROMO_CREATE_FUNDRAISING", Fundraising)
  @@ "-nostromoinvestinproject" :> Takes("NOSTROMO_INVEST_IN_FUNDRAISING", <<
       U32("nost_indexOfFundraising"), Num("nost_amount")>>)
  @@ "-nostromoclaimtoken" :> Takes("NOSTROMO_CLAIM_TOKEN", <<
       Num("nost_amount"), U32("nost_indexOfFundraising")>>)
  @@ "-nostromoupgradetierlevel" :> Takes("NOSTROMO_UPGRADE_TIER_LEVEL", <<
       U32("nost_tierLevel")>>)
  @@ "-nostromotransfersharemanagementrights" :> Takes("NOSTROMO_TRANSFER_SHARE_MANAGEMENT_RIGHTS", <<
       Text("nost_tokenName"), Text("nost_identity"),
       U32("nost_newManagementContractIndex"), Num("nost_numberOfShare")>>)

NostromoQueryOptions ==
  "-nostromogetstats" :> Alone("NOSTROMO_GET_STATS")
  @@ "-nostromogettierlevelbyuser" :> Takes("NOSTROMO_GET_TIER_LEVEL_BY_USER", <<
       Text("nost_identity")>>)
  @@ "-nostromogetuservotestatus" :> Takes("NOSTROMO_GET_USER_VOTE_STATUS", <<
       Text("nost_identity")>>)
  @@ "-nostromochecktokencreatability" :> Takes("NOSTROMO_CHECK_TOKEN_CREATABILITY", <<
       Text("nost_tokenName")>>)
  @@ "-nostromogetnumberofinvestedprojects" :> Takes("NOSTROMO_GET_NUMBER_OF_INVESTED_PROJECTS", <<
       Text("nost_identity")>>)
  @@ "-nostromogetprojectbyindex" :> Takes("NOSTROMO_GET_PROJECT_BY_INDEX", <<
       U32("nost_indexOfProject")>>)
  @@ "-nostromogetfundraisingbyindex" :> Takes("NOSTROMO_GET_FUNDRAISING_BY_INDEX", <<
       U32("nost_indexOfFundraising")>>)
  @@ "-nostromogetprojectindexlistbycreator" :> Takes("NOSTROMO_GET_PROJECT_INDEX_LIST_BY_CREATOR", <<
       Text("nost_identity")>>)
  @@ "-nostromogetinfouserinvested" :> Takes("NOSTROMO_GET_INFO_USER_INVESTED", <<
       Text("nost_identity")>>)
  @@ "-nostromogetmaxclaimamount" :> Takes("NOSTROMO_GET_MAX_CLAIM_AMOUNT", <<
       Text("nost_identity"), U32("nost_indexOfFundraising")>>)

QbondOptions ==
  "-qbondstake" :> Takes("QBOND_STAKE_CMD", <<Num("qbond_millionsOfQu")>>)
  @@ "-qbondtransfer" :> Takes("QBOND_TRANSFER_CMD", <<
       Text("qbond_targetIdentity"), Num("qbond_epoch"), Num("qbond_mbondsAmount")>>)
  @@ "-qbondaddask" :> Takes("QBOND_ADD_ASK_ORDER_CMD", <<
       Num("qbond_epoch"), Num("qbond_mbondPrice"), Num("qbond_mbondsAmount")>>)
  @@ "-qbondremoveask" :> Takes("QBOND_REMOVE_ASK_ORDER_CMD", <<
       Num("qbond_epoch"), Num("qbond_mbondPrice"), Num("qbond_mbondsAmount")>>)
  @@ "-qbondaddbid" :> Takes("QBOND_ADD_BID_ORDER_CMD", <<
       Num("qbond_epoch"), Num("qbond_mbondPrice"), Num("qbond_mbondsAmount")>>)
  @@ "-qbondremovebid" :> Takes("QBOND_REMOVE_BID_ORDER_CMD", <<
       Num("qbond_epoch"), Num("qbond_mbondPrice"), Num("qbond_mbondsAmount")>>)
  @@ "-qbondburnqu" :> Takes("QBOND_BURN_QU_CMD", <<Num("qbond_burnAmount")>>)
  @@ "-qbondupdatecfa" :> Takes("QBOND_UPDATE_CFA_CMD", <<
       Text("qbond_targetIdentity"), Flag("qbond_updateCFAOperation")>>)

QbondQueryOptions ==
  "-qbondgetfees" :> Alone("QBOND_GET_FEES_CMD")
  @@ "-qbondgetearnedfees" :> Alone("QBOND_GET_EARNED_FEES_CMD")
  @@ "-qbondgetinfoperepoch" :> Takes("QBOND_GET_EPOCH_INFO_CMD", <<Num("qbond_epoch")>>)
  @@ "-qbondgetorders" :> Takes("QBOND_GET_ORDERS_CMD", <<
       Num("qbond_epoch"), Num("qbond_asksOffset"), Num("qbond_bidsOffset")>>)
  @@ "-qbondgetuserorders" :> Takes("QBOND_GET_USER_ORDERS_CMD", <<
       Text("qbond_owner"), Num("qbond_asksOffset"), Num("qbond_bidsOffset")>>)
  @@ "-qbondtable" :> Alone("QBOND_GET_TABLE_CMD")
  @@ "-qbondgetusermbonds" :> Takes("QBOND_GET_USER_MBONDS_CMD", <<Text("qbond_owner")>>)
  @@ "-qbondgetcfa" :> Alone("QBOND_GET_CFA_CMD")

EscrowOptions ==
  "-escrowcreatedeal" :> Takes("ESCROW_CREATE_DEAL_CMD", <<
       Text("escrowAcceptorId"), Text("escrow_offeredAssetsCommaSeparated"),
       Text("escrow_requestedAssetsCommaSeparated")>>)
  @@ "-escrowgetdeals" :> Takes("ESCROW_GET_DEALS_CMD", <<
       Num("escrow_proposedOffset"), Num("escrow_publicOffset")>>)
  @@ "-escrowacceptdeal" :> Takes("ESCROW_ACCEPT_DEAL_CMD", <<Num("escrow_dealIndex")>>)
  @@ "-escrowmakedealpublic" :> Takes("ESCROW_MAKE_DEAL_PUBLIC_CMD", <<Num("escrow_dealIndex")>>)
  @@ "-escrowcanceldeal" :> Takes("ESCROW_CANCEL_DEAL_CMD", <<Num("escrow_dealIndex")>>)
  @@ "-escrowtransferrights" :> Takes("ESCROW_TRANSFER_RIGHTS_CMD", <<
       Text("escrow_assetName"), Text("escrow_issuer"), Contract("contractIndex"),
       Num("escrow_amount")>>)
  @@ "-escrowgetfreeasset" :> Takes("ESCROW_GET_FREE_ASSET_CMD", <<
       Text("escrow_assetName"), Text("escrow_issuer")>>)

ShareholderOptions ==
  "-setshareholderproposal" :> Takes("SHAREHOLDER_SET_PROPOSAL", <<
       Contract("contractIndex"), Text("proposalString")>>)
  @@ "-clearshareholderproposal" :> Takes("SHAREHOLDER_CLEAR_PROPOSAL", <<
       Contract("contractIndex")>>)
  @@ "-getshareholderproposals" :> Takes("SHAREHOLDER_GET_PROPOSALS", <<
       Contract("contractIndex"), Text("proposalString")>>)
  @@ "-shareholdervote" :> Takes("SHAREHOLDER_VOTE", <<
       Contract("contractIndex"), Text("proposalString"), Text("voteValueString")>>)
  @@ "-getshareholdervotes" :> TakesUpTo("SHAREHOLDER_GET_VOTE", 2, <<
       Contract("contractIndex"), Text("proposalString"), Text("requestedIdentity")>>)
  @@ "-getshareholderresults" :> Takes("SHAREHOLDER_GET_VOTING_RESULTS", <<
       Contract("contractIndex"), Text("proposalString")>>)

TestOptions ==
  "-testqpifunctionsoutput" :> Alone("TEST_QPI_FUNCTIONS_OUTPUT")
  @@ "-testqpifunctionsoutputpast" :> Alone("TEST_QPI_FUNCTIONS_OUTPUT_PAST")
  @@ "-testgetincomingtransferamounts" :> Underchecked("TEST_GET_INCOMING_TRANSFER_AMOUNTS", 0, <<
       Text("paramString1")>>)
  @@ "-testbidinipothroughcontract" :> Underchecked("TEST_BID_IN_IPO_THROUGH_CONTRACT", 0, <<
       Text("paramString1"), U32("IPOContractIndex"), U16("makeIPOBidNumberOfShare"),
       Num("makeIPOBidPricePerShare")>>)

Options ==
  WalletOptions @@ QueryOptions @@ ProtocolOptions @@ NodeOptions
  @@ OracleOptions @@ QrwaOptions @@ QxOptions @@ QswapPoolOptions
  @@ QswapSwapOptions @@ QuotteryOptions @@ QutilOptions @@ QutilQueryOptions
  @@ GqmpropOptions @@ CcfOptions @@ QearnOptions @@ QvaultOptions
  @@ MsvaultOptions @@ MsvaultAssetOptions @@ NostromoOptions @@ NostromoQueryOptions
  @@ QbondOptions @@ QbondQueryOptions @@ EscrowOptions @@ ShareholderOptions
  @@ TestOptions
=============================================================================
