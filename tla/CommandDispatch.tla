-------------------------- MODULE CommandDispatch --------------------------
(* The switch of main.cpp: what run() checks before it calls the function of *)
(* a command, and the globals it passes to it.                               *)
(*   Sign            sanityCheckNode, sanityCheckSeed; the seed is passed    *)
(*   SignUnchecked   sanityCheckNode only, although the seed is passed       *)
(*   Ask             sanityCheckNode                                         *)
(*   AskWithSeed     both checks, the seed is not passed                     *)
(*   GetVote         Ask, and the identity or, without one, the seed         *)
(*   Offline         no node;  OfflineWithSeed  the seed is checked, passed  *)
EXTENDS CommandOptions

Call(node, seed, usesSeed, checks, uses) ==
  [node |-> node, seed |-> seed, usesSeed |-> usesSeed,
   checks |-> checks, uses |-> uses]
SignForgetful(checks, uses) == Call(TRUE, "never", TRUE, checks, uses)
Sign(checks, uses) == Call(TRUE, "always", TRUE, checks, uses)
SignUnchecked(checks, uses) == Call(TRUE, "never", TRUE, checks, uses)
Ask(checks, uses) == Call(TRUE, "never", FALSE, checks, uses)
AskWithSeed(checks, uses) == Call(TRUE, "always", FALSE, checks, uses)
GetVote(checks, uses) == Call(TRUE, "without_identity", TRUE, checks, uses)
Offline(checks, uses) == Call(FALSE, "never", FALSE, checks, uses)
OfflineWithSeed(checks, uses) == Call(FALSE, "always", TRUE, checks, uses)

(* The functions of sanity_check.h, applied to a global. *)
Check(kind, global) == [kind |-> kind, global |-> global]
Identity(global) == Check("valid", global)
TxHash(global) == Check("valid", global)
AssetName(global) == Check("valid", global)
MainAux(global) == Check("valid", global)
File(global) == Check("valid", global)
String(global) == Check("string", global)
Amount(global) == Check("non_negative", global)
Threshold(global) == Check("non_negative", global)
Decimals(global) == Check("non_negative", global)
Units(global) == Check("positive", global)
Size(global) == Check("size", global)
Epoch(global) == Check("epoch", global)
Algo(global) == Check("algo", global)
Special(global) == Check("special", global)
LoggingMode(global) == Check("logging_mode", global)

DispatchWallet ==
  "SHOW_KEYS" :> OfflineWithSeed(<<>>, {})
  @@ Each({"GET_CURRENT_TICK", "GET_SYSTEM_INFO"},
       Ask(<<>>, {}))
  @@ "GET_REVENUE_DATA" :> Ask(<<String("dumpBinaryFileOutput")>>, {"dumpBinaryFileOutput"})
  @@ Each({"GET_BALANCE", "GET_ASSET"},
       Ask(<<Identity("requestedIdentity")>>, {"requestedIdentity"}))
  @@ Each({"QUERY_ASSETS", "GET_TOTAL_NUMBER_OF_ASSET_SHARES"},
       Ask(<<>>, {"paramString1", "paramString2"}))
  @@ "QUTIL_DISTRIBUTE_QU_TO_SHAREHOLDERS" :>
       Sign(<<Amount("txAmount")>>, {"paramString1", "paramString2", "txAmount"})
  @@ "SEND_COIN" :>
       Sign(<<Identity("targetIdentity"), Amount("txAmount")>>, {"targetIdentity",
       "txAmount", "waitUntilFinish"})
  @@ "SEND_COIN_IN_TICK" :>
       Sign(<<Identity("targetIdentity"), Amount("txAmount")>>, {"targetIdentity",
       "txAmount", "txTick", "waitUntilFinish"})
  @@ "SEND_CUSTOM_TX" :>
       Sign(<<Identity("targetIdentity"), Amount("txAmount"), Size("txExtraDataSize")>>,
       {"targetIdentity", "txType", "txAmount", "txExtraDataSize", "txExtraData"})
  @@ "INVOKE_CONTRACT_PROCEDURE" :>
       Sign(<<Amount("txAmount")>>, {"contractIndex", "txType", "txAmount",
       "invokeContractProcedureInputFormat"})

DispatchQueries ==
  "CALL_CONTRACT_FUNCTION" :>
       AskWithSeed(<<>>, {"contractIndex", "contractFunctionNumber",
       "callContractFunctionInputFormat", "callContractFunctionOutputFormat"})
  @@ "GET_TX_INFO" :> Ask(<<TxHash("requestedTxId")>>, {"requestedTxId"})
  @@ "CHECK_TX_ON_TICK" :>
       Ask(<<TxHash("requestedTxId")>>, {"requestedTxId", "requestedTickNumber"})
  @@ "SEND_RAW_PACKET" :> Ask(<<Size("rawPacketSize")>>, {"rawPacketSize", "rawPacket"})
  @@ Each({"GET_TICK_DATA", "GET_QUORUM_TICK"},
       Ask(<<>>, {"requestedTickNumber", "requestedFileName"}))
  @@ "READ_TICK_DATA" :>
       Offline(<<File("requestedFileName"), File("requestedFileName2")>>,
       {"requestedFileName", "requestedFileName2"})
  @@ "CHECK_TX_ON_FILE" :>
       Offline(<<File("requestedFileName"), TxHash("requestedTxId")>>, {"requestedTxId",
       "requestedFileName"})
  @@ Each({"PUBLISH_PROPOSAL", "VOTE_PROPOSAL"},
       Offline(<<>>, {}))

DispatchQx ==
  "QX_ISSUE_ASSET" :>
       Sign(<<Units("qx_issueAssetNumberOfUnit"), AssetName("qx_issueAssetName"),
       String("qx_issueUnitOfMeasurement"), Decimals("qx_issueAssetNumDecimal")>>,
       {"qx_issueAssetName", "qx_issueUnitOfMeasurement", "qx_issueAssetNumberOfUnit",
       "qx_issueAssetNumDecimal"})
  @@ "QX_TRANSFER_ASSET" :>
       Sign(<<Units("qx_assetTransferAmount"), AssetName("qx_assetTransferAssetName"),
       String("qx_assetTransferIssuerInHex"),
       Identity("qx_assetTransferNewOwnerIdentity")>>, {"qx_assetTransferAssetName",
       "qx_assetTransferIssuerInHex", "qx_assetTransferNewOwnerIdentity",
       "qx_assetTransferAmount"})
  @@ "QX_ORDER" :>
       Sign(<<AssetName("qx_assetName"), String("qx_command1"), String("qx_command2")>>,
       {"qx_command1", "qx_command2", "qx_assetName", "qx_issuer", "qx_price",
       "qx_numberOfShare"})
  @@ "QX_GET_ORDER" :>
       Ask(<<String("qx_command1"), String("qx_command2"), AssetName("qx_assetName")>>,
       {"qx_command1", "qx_command2", "qx_issuer", "qx_offset", "qx_assetName"})
  @@ "QX_TRANSFER_MANAGEMENT_RIGHTS" :>
       Sign(<<AssetName("qx_assetName"), Identity("qx_issuer"),
       Units("qx_numberOfShare")>>, {"qx_assetName", "qx_issuer", "contractIndex",
       "qx_numberOfShare"})

DispatchFiles ==
  "GET_COMP_LIST" :> Ask(<<>>, {"requestedFileName"})
  @@ Each({"GET_NODE_IP_LIST", "PRINT_QX_FEE", "GET_ACTIVE_IPOS"},
       Ask(<<>>, {}))
  @@ "UPLOAD_FILE" :> Sign(<<>>, {"filePath", "compressTool"})
  @@ "DOWNLOAD_FILE" :> AskWithSeed(<<>>, {"requestedTxId", "filePath", "compressTool"})
  @@ Each({"DUMP_SPECTRUM_FILE", "DUMP_UNIVERSE_FILE"},
       Offline(<<File("dumpBinaryFileInput"), String("dumpBinaryFileOutput")>>,
       {"dumpBinaryFileInput", "dumpBinaryFileOutput"}))
  @@ "DUMP_CONTRACT_FILE" :>
       Offline(<<File("dumpBinaryFileInput"), String("dumpBinaryFileOutput")>>,
       {"dumpBinaryFileInput", "dumpBinaryContractId", "dumpBinaryFileOutput"})
  @@ "MAKE_IPO_BID" :>
       SignUnchecked(<<>>, {"IPOContractIndex", "makeIPOBidPricePerShare",
       "makeIPOBidNumberOfShare"})
  @@ "GET_IPO_STATUS" :> Ask(<<>>, {"IPOContractIndex"})
  @@ "QUOTTERY_COMMAND" :> Sign(<<>>, {"quottery_subcmd_count", "quottery_subcmd"})

DispatchQrwa ==
  Each({"QRWA_PAYOUT_POOL_A", "QRWA_PAYOUT_POOL_B", "QRWA_PAYOUT_POOL_C",
             "QRWA_PAYOUT_POOL_D"},
       Ask(<<>>, {"qrwa_epoch"}))
  @@ "QRWA_PAYOUT_ADDRESS" :> Ask(<<>>, {"qrwa_identity", "qrwa_epoch"})
  @@ Each({"QRWA_STATUS", "QRWA_ASSETS", "QRWA_GOV_PARAMS", "QRWA_GOV_POLL_IDS",
             "QRWA_DIVIDENDS", "QRWA_SC_DIVIDENDS"},
       Ask(<<>>, {}))
  @@ "QRWA_GOV_POLL" :> Ask(<<>>, {"qrwa_poll_id"})
  @@ "QRWA_DONATE_TREASURY" :> Sign(<<>>, {"qrwa_amount"})
  @@ "QRWA_VOTE_GOV_PARAMS" :>
       Sign(<<>>, {"qrwa_gov_admin", "qrwa_gov_electricity", "qrwa_gov_maintenance",
       "qrwa_gov_reinvestment", "qrwa_gov_qminedev", "qrwa_gov_electricity_pct",
       "qrwa_gov_maintenance_pct", "qrwa_gov_reinvestment_pct"})
  @@ Each({"QRWA_SET_POOL_A_ADDR", "QRWA_SET_POOL_D_ADDR"},
       Sign(<<>>, {"qrwa_new_address"}))
  @@ "QRWA_DEPOSIT_ASSET" :> Sign(<<>>, {"qrwa_issuer", "qrwa_asset_name", "qrwa_amount"})
  @@ "QRWA_REVOKE_ASSET_MGMT" :>
       Sign(<<>>, {"qrwa_issuer", "qrwa_asset_name", "qrwa_num_shares"})

DispatchNode ==
  "TOOGLE_MAIN_AUX" :>
       Sign(<<MainAux("toggleMainAux0"), MainAux("toggleMainAux1")>>, {"toggleMainAux0",
       "toggleMainAux1"})
  @@ "SET_SOLUTION_THRESHOLD" :>
       Sign(<<Epoch("setSolutionThresholdEpoch"), Threshold("setSolutionThresholdValue"),
       Algo("setSolutionThresholdAlgo")>>, {"setSolutionThresholdEpoch",
       "setSolutionThresholdValue", "setSolutionThresholdAlgo"})
  @@ Each({"SEND_SPECIAL_COMMAND", "REFRESH_PEER_LIST", "FORCE_NEXT_TICK",
       "REISSUE_VOTE"},
       Sign(<<Special("requestedSpecialCommand")>>, {"requestedSpecialCommand"}))
  @@ Each({"GET_MINING_SCORE_RANKING", "SYNC_TIME", "SAVE_SNAPSHOT",
             "GET_EXECUTION_FEE_MULTIPLIER"},
       Sign(<<>>, {}))
  @@ "GET_VOTE_COUNTER_TX" :> Ask(<<>>, {"requestedTickNumber", "requestedFileName"})
  @@ "SET_LOGGING_MODE" :> Sign(<<LoggingMode("loggingMode")>>, {"loggingMode"})
  @@ "COMP_CHAT" :> Sign(<<>>, {"compChatString"})
  @@ "SET_EXECUTION_FEE_MULTIPLIER" :>
       Sign(<<>>, {"executionFeeMultiplierNumerator", "executionFeeMultiplierDenominator"})

DispatchOracle ==
  Each({"GET_ORACLE_QUERY", "GET_ORACLE_SUBSCRIPTION"},
       Ask(<<>>, {"paramString1", "paramString2"}))
  @@ "SEND_ORACLE_QUERY_TX" :> Sign(<<>>, {"paramString1", "paramString2", "paramString3"})
  @@ "SEND_ORACLE_CONTRACT_TX" :>
       Sign(<<>>, {"paramString1", "contractIndex", "paramString2", "paramString3"})

DispatchQutil ==
  "QUTIL_SEND_TO_MANY_V1" :>
       Sign(<<File("qutil_sendToManyV1PayoutListFile")>>,
       {"qutil_sendToManyV1PayoutListFile"})
  @@ "QUTIL_BURN_QUBIC" :> Sign(<<>>, {"txAmount"})
  @@ "QUTIL_BURN_QUBIC_FOR_CONTRACT" :> Sign(<<>>, {"txAmount", "contractIndex"})
  @@ "QUTIL_QUERY_FEE_RESERVE" :> Ask(<<>>, {"contractIndex"})
  @@ "QUTIL_SEND_TO_MANY_BENCHMARK" :>
       Sign(<<>>, {"qutil_sendToManyBenchmarkDestinationCount",
       "qutil_sendToManyBenchmarkNumTransfersEach"})
  @@ "QUTIL_CREATE_POLL" :>
       Sign(<<String("qutil_pollNameStr"), Amount("qutil_minAmount"),
       String("qutil_githubLinkStr"), String("qutil_semicolonSeparatedAssets")>>,
       {"qutil_pollType", "qutil_pollNameStr", "qutil_minAmount", "qutil_githubLinkStr",
       "qutil_semicolonSeparatedAssets"})
  @@ "QUTIL_VOTE" :>
       Sign(<<Amount("qutil_voteAmount")>>, {"qutil_votePollId", "qutil_voteAmount",
       "qutil_voteChosenOption"})

DispatchQutilQueries ==
  "QUTIL_GET_CURRENT_RESULT" :> Ask(<<>>, {"qutil_getResultPollId"})
  @@ "QUTIL_GET_POLLS_BY_CREATOR" :>
       Ask(<<Identity("qutil_getPollsCreatorAddress")>>, {"qutil_getPollsCreatorAddress"})
  @@ Each({"QUTIL_GET_CURRENT_POLL_ID", "QUTIL_PRINT_FEE"},
       Ask(<<>>, {}))
  @@ "QUTIL_GET_POLL_INFO" :> Ask(<<>>, {"qutil_getPollInfoPollId"})
  @@ "QUTIL_CANCEL_POLL" :> Sign(<<>>, {"qutil_cancelPollId"})
  @@ "QUTIL_GET_BALANCES_MANY" :>
       Ask(<<File("qutil_getBalancesManyFile")>>, {"qutil_getBalancesManyFile"})
  @@ "QUTIL_TRANSFER_SHARES_TO_MANY_V1" :>
       Sign(<<Identity("paramString1"), AssetName("paramString2"),
       File("qutil_transferSharePayoutListFile")>>, {"paramString1", "paramString2",
       "qutil_transferSharePayoutListFile"})
  @@ "QUTIL_TRANSFER_SHARES_MANAGEMENT_RIGHTS" :>
       Sign(<<AssetName("qx_assetName"), Identity("qx_issuer"),
       Units("qx_numberOfShare")>>, {"qx_assetName", "qx_issuer", "contractIndex",
       "qx_numberOfShare"})

DispatchProposals ==
  Each({"GQMPROP_SET_PROPOSAL", "CCF_SET_PROPOSAL"},
       Sign(<<>>, {"proposalString", "force"}))
  @@ Each({"GQMPROP_CLEAR_PROPOSAL", "CCF_CLEAR_PROPOSAL"},
       Sign(<<>>, {}))
  @@ Each({"GQMPROP_GET_PROPOSALS", "GQMPROP_GET_VOTING_RESULTS", "CCF_GET_PROPOSALS",
             "CCF_GET_VOTING_RESULTS"},
       Ask(<<>>, {"proposalString"}))
  @@ Each({"GQMPROP_VOTE", "CCF_VOTE"},
       Sign(<<>>, {"proposalString", "voteValueString", "force"}))
  @@ Each({"GQMPROP_GET_VOTE", "CCF_GET_VOTE"},
       GetVote(<<>>, {"requestedIdentity", "proposalString"}))
  @@ Each({"GQMPROP_GET_REV_DONATION", "CCF_GET_LATEST_TRANSFERS",
             "CCF_GET_REGULAR_PAYMENTS"},
       Ask(<<>>, {}))
  @@ "CCF_GET_SUBSCRIPTION" :> Ask(<<>>, {"ccf_subscriptionDestination"})

DispatchQearnQvault ==
  "QEARN_LOCK" :> Sign(<<>>, {"qearn_lockAmount"})
  @@ "QEARN_UNLOCK" :> Sign(<<>>, {"qearn_unlockAmount", "qearn_lockedEpoch"})
  @@ Each({"QEARN_GET_INFO_PER_EPOCH", "QEARN_GET_STATE_OF_ROUND"},
       Ask(<<>>, {"qearn_getInfoEpoch"}))
  @@ "QEARN_GET_USER_LOCKED_INFO" :> Ask(<<>>, {"requestedIdentity", "qearn_getInfoEpoch"})
  @@ Each({"QEARN_GET_USER_LOCK_STATUS", "QEARN_GET_UNLOCKING_STATUS"},
       Ask(<<>>, {"requestedIdentity"}))
  @@ Each({"QEARN_GET_STATS_PER_EPOCH", "QEARN_GET_BURNED_AND_BOOSTED_STATS_PER_EPOCH"},
       Ask(<<>>, {"qearn_getStatsEpoch"}))
  @@ Each({"QEARN_GET_BURNED_AND_BOOSTED_STATS", "QVAULT_GET_DATA"},
       Ask(<<>>, {}))
  @@ Each({"QVAULT_SUBMIT_AUTH_ADDRESS", "QVAULT_SUBMIT_REINVESTING_ADDRESS",
             "QVAULT_CHANGE_REINVESTING_ADDRESS", "QVAULT_SUBMIT_ADMIN_ADDRESS",
             "QVAULT_CHANGE_ADMIN_ADDRESS", "QVAULT_SUBMIT_BANNED_ADDRESS",
             "QVAULT_SAVE_BANNED_ADDRESS", "QVAULT_SUBMIT_UNBANNED_ADDRESS",
             "QVAULT_SAVE_UNBANNED_ADDRESS"},
       SignUnchecked(<<>>, {"qvault_identity"}))
  @@ "QVAULT_CHANGE_AUTH_ADDRESS" :> SignUnchecked(<<>>, {"qvault_numberOfChangedAddress"})
  @@ Each({"QVAULT_SUBMIT_FEES", "QVAULT_CHANGE_FEES"},
       SignUnchecked(<<>>, {"qvault_newQCAPHolderFee", "qvault_newReinvestingFee",
       "qvault_newDevFee"}))

DispatchMsvault ==
  "MSVAULT_REGISTER_VAULT_CMD" :>
       Sign(<<>>, {"msvault_requiredApprovals", "msvault_vaultName",
       "msvault_ownersCommaSeparated"})
  @@ "MSVAULT_DEPOSIT_CMD" :> Sign(<<>>, {"msvault_id", "txAmount"})
  @@ "MSVAULT_RELEASE_TO_CMD" :>
       Sign(<<Identity("msvault_destination")>>, {"msvault_id", "txAmount",
       "msvault_destination"})
  @@ "MSVAULT_RESET_RELEASE_CMD" :> Sign(<<>>, {"msvault_id"})
  @@ "MSVAULT_GET_VAULTS_CMD" :> Ask(<<Identity("msvault_publicId")>>, {"msvault_publicId"})
  @@ Each({"MSVAULT_GET_RELEASE_STATUS_CMD", "MSVAULT_GET_BALANCE_OF_CMD",
             "MSVAULT_GET_VAULT_NAME_CMD", "MSVAULT_GET_OWNERS_CMD"},
       Ask(<<>>, {"msvault_id"}))
  @@ Each({"MSVAULT_GET_REVENUE_INFO_CMD", "MSVAULT_GET_FEES_CMD",
             "MSVAULT_GET_FEE_VOTES_CMD", "MSVAULT_GET_FEE_VOTES_OWNER_CMD",
             "MSVAULT_GET_FEE_VOTES_SCORE_CMD", "MSVAULT_GET_UNIQUE_FEE_VOTES_CMD",
             "MSVAULT_GET_UNIQUE_FEE_VOTES_RANKING_CMD"},
       Ask(<<>>, {}))
  @@ "MSVAULT_GET_MANAGED_ASSET_BALANCE_CMD" :>
       Ask(<<AssetName("msVaultAssetName"), Identity("msVaultIssuer"),
       Identity("msVaultOwner")>>, {"msVaultAssetName", "msVaultIssuer", "msVaultOwner"})
  @@ "MSVAULT_REVOKE_ASSET_RIGHTS_CMD" :>
       Sign(<<AssetName("msVaultAssetName"), Identity("msVaultIssuer"),
       Amount("txAmount")>>, {"msVaultAssetName", "msVaultIssuer", "txAmount"})
  @@ "MSVAULT_IS_SHAREHOLDER_CMD" :>
       Ask(<<Identity("msVaultCandidateIdentity")>>, {"msVaultCandidateIdentity"})
  @@ "MSVAULT_VOTE_FEE_CHANGE_CMD" :>
       Sign(<<>>, {"msVaultNewRegisteringFee", "msVaultNewReleaseFee",
       "msVaultNewReleaseResetFee", "msVaultNewHoldingFee", "msVaultNewDepositFee"})

DispatchQswap ==
  "PRINT_QSWAP_FEE" :> Ask(<<>>, {})
  @@ "QSWAP_ISSUE_ASSET" :>
       Sign(<<Units("qswap_issueAssetNumberOfUnit"), AssetName("qswap_issueAssetName"),
       String("qswap_issueUnitOfMeasurement"), Decimals("qswap_issueAssetNumDecimal")>>,
       {"qswap_issueAssetName", "qswap_issueUnitOfMeasurement",
       "qswap_issueAssetNumberOfUnit", "qswap_issueAssetNumDecimal"})
  @@ "QSWAP_TRANSFER_ASSET" :>
       Sign(<<Units("qswap_assetTransferAmount"),
       AssetName("qswap_assetTransferAssetName"), String("qswap_assetTransferIssuer"),
       Identity("qswap_assetTransferNewOwnerIdentity")>>, {"qswap_assetTransferAssetName",
       "qswap_assetTransferIssuer", "qswap_assetTransferNewOwnerIdentity",
       "qswap_assetTransferAmount"})
  @@ "QSWAP_TRANSFER_ASSET_RIGHTS" :>
       Sign(<<Units("qswap_assetTransferAmount"),
       AssetName("qswap_assetTransferAssetName"), Identity("qswap_assetTransferIssuer")>>,
       {"qswap_assetTransferAssetName", "qswap_assetTransferIssuer",
       "qswap_newContractIndex", "qswap_assetTransferAmount"})
  @@ "QSWAP_CREATE_POOL" :>
       Sign(<<AssetName("qswap_assetName"), String("qswap_issuer")>>, {"qswap_assetName",
       "qswap_issuer"})
  @@ "QSWAP_ADD_LIQUIDITY" :>
       Sign(<<AssetName("qswap_assetName"), String("qswap_issuer"),
       Units("qswap_addLiquidityQuAmount"), Units("qswap_addLiquidityAssetAmountDesired"),
       Amount("qswap_liquidityAssetAmountMin"), Amount("qswap_liquidityQuAmountMin")>>,
       {"qswap_assetName", "qswap_issuer", "qswap_addLiquidityQuAmount",
       "qswap_addLiquidityAssetAmountDesired", "qswap_liquidityQuAmountMin",
       "qswap_liquidityAssetAmountMin"})
  @@ "QSWAP_REMOVE_LIQUIDITY" :>
       Sign(<<AssetName("qswap_assetName"), String("qswap_issuer"),
       Units("qswap_removeLiquidityBurnLiquidity"),
       Amount("qswap_liquidityAssetAmountMin"), Amount("qswap_liquidityQuAmountMin")>>,
       {"qswap_assetName", "qswap_issuer", "qswap_removeLiquidityBurnLiquidity",
       "qswap_liquidityQuAmountMin", "qswap_liquidityAssetAmountMin"})
  @@ Each({"QSWAP_SWAP_EXACT_QU_FOR_ASSET", "QSWAP_SWAP_EXACT_ASSET_FOR_QU"},
       Sign(<<AssetName("qswap_assetName"), String("qswap_issuer"),
       Amount("qswap_swapAmountIn"), Amount("qswap_swapAmountOutMin")>>,
       {"qswap_assetName", "qswap_issuer", "qswap_swapAmountIn", "qswap_swapAmountOutMin"}))
  @@ Each({"QSWAP_SWAP_QU_FOR_EXACT_ASSET", "QSWAP_SWAP_ASSET_FOR_EXACT_QU"},
       Sign(<<AssetName("qswap_assetName"), String("qswap_issuer"),
       Amount("qswap_swapAmountOut"), Amount("qswap_swapAmountInMax")>>,
       {"qswap_assetName", "qswap_issuer", "qswap_swapAmountInMax", "qswap_swapAmountOut"}))

DispatchQswapQueries ==
  "QSWAP_GET_POOL_BASIC" :>
       Ask(<<AssetName("qswap_assetName"), String("qswap_issuer")>>, {"qswap_assetName",
       "qswap_issuer"})
  @@ "QSWAP_GET_LIQUIDITY_OF" :>
       Ask(<<AssetName("qswap_assetName"), String("qswap_issuer"),
       String("qswap_getLiquidityOfStakerIssuer")>>, {"qswap_assetName", "qswap_issuer",
       "qswap_getLiquidityOfStakerIssuer"})
  @@ "QSWAP_QUOTE" :>
       Ask(<<AssetName("qswap_assetName"), String("qswap_issuer"),
       Units("qswap_quoteAmount"), String("qswap_command1")>>, {"qswap_command1",
       "qswap_assetName", "qswap_issuer", "qswap_quoteAmount"})

DispatchNostromo ==
  Each({"NOSTROMO_REGISTER_IN_TIER", "NOSTROMO_UPGRADE_TIER_LEVEL"},
       Sign(<<>>, {"nost_tierLevel"}))
  @@ "NOSTROMO_LOGOUT_FROM_TIER" :> Sign(<<>>, {})
  @@ "NOSTROMO_CREATE_PROJECT" :>
       Sign(<<AssetName("nost_tokenName")>>, {"nost_tokenName", "nost_supply",
       "nost_startYear", "nost_startMonth", "nost_startDay", "nost_startHour",
       "nost_endYear", "nost_endMonth", "nost_endDay", "nost_endHour"})
  @@ "NOSTROMO_VOTE_IN_PROJECT" :> Sign(<<>>, {"nost_indexOfProject", "nost_decision"})
  @@ "NOSTROMO_CREATE_FUNDRAISING" :> Sign(<<>>, Named(Fundraising))
  @@ "NOSTROMO_INVEST_IN_FUNDRAISING" :> Sign(<<>>, {"nost_indexOfFundraising", "nost_amount"})
  @@ "NOSTROMO_CLAIM_TOKEN" :> Sign(<<>>, {"nost_amount", "nost_indexOfFundraising"})
  @@ "NOSTROMO_TRANSFER_SHARE_MANAGEMENT_RIGHTS" :>
       Sign(<<>>, {"nost_identity", "nost_tokenName", "nost_numberOfShare",
       "nost_newManagementContractIndex"})

DispatchNostromoQueries ==
  "NOSTROMO_GET_STATS" :> Ask(<<>>, {})
  @@ Each({"NOSTROMO_GET_TIER_LEVEL_BY_USER", "NOSTROMO_GET_USER_VOTE_STATUS",
             "NOSTROMO_GET_NUMBER_OF_INVESTED_PROJECTS",
             "NOSTROMO_GET_PROJECT_INDEX_LIST_BY_CREATOR",
       "NOSTROMO_GET_INFO_USER_INVESTED"},
       Ask(<<>>, {"nost_identity"}))
  @@ "NOSTROMO_CHECK_TOKEN_CREATABILITY" :> Ask(<<>>, {"nost_tokenName"})
  @@ "NOSTROMO_GET_PROJECT_BY_INDEX" :> Ask(<<>>, {"nost_indexOfProject"})
  @@ "NOSTROMO_GET_FUNDRAISING_BY_INDEX" :> Ask(<<>>, {"nost_indexOfFundraising"})
  @@ "NOSTROMO_GET_MAX_CLAIM_AMOUNT" :> Ask(<<>>, {"nost_identity", "nost_indexOfFundraising"})

DispatchMsvaultAssets ==
  "MSVAULT_DEPOSIT_ASSET_CMD" :>
       Sign(<<AssetName("msVaultAssetName"), Identity("msVaultIssuer"),
       Amount("txAmount")>>, {"msvault_id", "msVaultAssetName", "msVaultIssuer",
       "txAmount"})
  @@ "MSVAULT_RELEASE_ASSET_TO_CMD" :>
       Sign(<<AssetName("msVaultAssetName"), Identity("msVaultIssuer"), Amount("txAmount"),
       Identity("msvault_destination")>>, {"msvault_id", "msVaultAssetName",
       "msVaultIssuer", "txAmount", "msvault_destination"})
  @@ "MSVAULT_RESET_ASSET_RELEASE_CMD" :> Sign(<<>>, {"msvault_id"})
  @@ Each({"MSVAULT_GET_ASSET_BALANCES_CMD", "MSVAULT_GET_ASSET_RELEASE_STATUS_CMD"},
       Ask(<<>>, {"msvault_id"}))

DispatchQbond ==
  "QBOND_STAKE_CMD" :> Sign(<<>>, {"qbond_millionsOfQu"})
  @@ "QBOND_TRANSFER_CMD" :>
       Sign(<<>>, {"qbond_targetIdentity", "qbond_epoch", "qbond_mbondsAmount"})
  @@ Each({"QBOND_ADD_ASK_ORDER_CMD", "QBOND_REMOVE_ASK_ORDER_CMD",
             "QBOND_ADD_BID_ORDER_CMD", "QBOND_REMOVE_BID_ORDER_CMD"},
       Sign(<<>>, {"qbond_epoch", "qbond_mbondPrice", "qbond_mbondsAmount"}))
  @@ "QBOND_BURN_QU_CMD" :> Sign(<<>>, {"qbond_burnAmount"})
  @@ "QBOND_UPDATE_CFA_CMD" :> Sign(<<>>, {"qbond_targetIdentity", "qbond_updateCFAOperation"})
  @@ Each({"QBOND_GET_FEES_CMD", "QBOND_GET_EARNED_FEES_CMD", "QBOND_GET_TABLE_CMD",
             "QBOND_GET_CFA_CMD"},
       Ask(<<>>, {}))
  @@ "QBOND_GET_EPOCH_INFO_CMD" :> Ask(<<>>, {"qbond_epoch"})
  @@ "QBOND_GET_ORDERS_CMD" :>
       Ask(<<>>, {"qbond_epoch", "qbond_asksOffset", "qbond_bidsOffset"})
  @@ "QBOND_GET_USER_ORDERS_CMD" :>
       Ask(<<>>, {"qbond_owner", "qbond_asksOffset", "qbond_bidsOffset"})
  @@ "QBOND_GET_USER_MBONDS_CMD" :> Ask(<<>>, {"qbond_owner"})

DispatchEscrow ==
  "ESCROW_CREATE_DEAL_CMD" :>
       Sign(<<>>, {"escrowAcceptorId", "escrow_offeredAssetsCommaSeparated",
       "escrow_requestedAssetsCommaSeparated"})
  @@ "ESCROW_GET_DEALS_CMD" :> Sign(<<>>, {"escrow_proposedOffset", "escrow_publicOffset"})
  @@ Each({"ESCROW_ACCEPT_DEAL_CMD", "ESCROW_MAKE_DEAL_PUBLIC_CMD",
             "ESCROW_CANCEL_DEAL_CMD"},
       Sign(<<>>, {"escrow_dealIndex"}))
  @@ "ESCROW_TRANSFER_RIGHTS_CMD" :>
       Sign(<<>>, {"escrow_assetName", "escrow_issuer", "contractIndex", "escrow_amount"})
  @@ "ESCROW_GET_FREE_ASSET_CMD" :> Sign(<<>>, {"escrow_assetName", "escrow_issuer"})

DispatchShareholders ==
  "SHAREHOLDER_SET_PROPOSAL" :> Sign(<<>>, {"contractIndex", "proposalString", "force"})
  @@ "SHAREHOLDER_CLEAR_PROPOSAL" :> Sign(<<>>, {"contractIndex"})
  @@ Each({"SHAREHOLDER_GET_PROPOSALS", "SHAREHOLDER_GET_VOTING_RESULTS"},
       Ask(<<>>, {"contractIndex", "proposalString"}))
  @@ "SHAREHOLDER_VOTE" :>
       Sign(<<>>, {"contractIndex", "proposalString", "voteValueString", "force"})
  @@ "SHAREHOLDER_GET_VOTE" :>
       GetVote(<<>>, {"requestedIdentity", "contractIndex", "proposalString"})

DispatchTests ==
  "TEST_QPI_FUNCTIONS_OUTPUT" :> Sign(<<>>, {})
  @@ "TEST_QPI_FUNCTIONS_OUTPUT_PAST" :> Ask(<<>>, {})
  @@ "TEST_GET_INCOMING_TRANSFER_AMOUNTS" :> Ask(<<>>, {"paramString1"})
  @@ "TEST_BID_IN_IPO_THROUGH_CONTRACT" :>
       Sign(<<>>, {"paramString1", "IPOContractIndex", "makeIPOBidPricePerShare",
       "makeIPOBidNumberOfShare"})

Dispatch ==
  DispatchWallet @@ DispatchQueries @@ DispatchQx @@ DispatchFiles
  @@ DispatchQrwa @@ DispatchNode @@ DispatchOracle
  @@ DispatchQutil @@ DispatchQutilQueries
  @@ DispatchProposals @@ DispatchQearnQvault @@ DispatchMsvault @@ DispatchQswap
  @@ DispatchQswapQueries @@ DispatchNostromo @@ DispatchNostromoQueries @@ DispatchMsvaultAssets
  @@ DispatchQbond @@ DispatchEscrow @@ DispatchShareholders @@ DispatchTests
============================================================================
