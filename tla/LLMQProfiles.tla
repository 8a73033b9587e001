---------------------------- MODULE LLMQProfiles ----------------------------
(***************************************************************************)
(* The names src/src/chainparams.cpp uses for networks, quorum types and   *)
(* quorum profiles, and the profile map each network constructor installs. *)
(* A profile is named after the Consensus::LLMQParams constant it is; its  *)
(* contents are defined in llmq/quorums_parameters.h, outside this tree.   *)
(***************************************************************************)

Networks == {"main", "test", "devnet", "regtest"}

LLMQTypes == {"LLMQ_50_60", "LLMQ_400_60", "LLMQ_400_85", "LLMQ_100_67"}

ProfileNames ==
    {"llmq3_60", "llmq5_60", "llmq5_85", "llmq10_60", "llmq20_60",
     "llmq20_85", "llmq40_60", "llmq40_85", "llmq50_60", "llmq200_60",
     "llmq200_85", "llmq400_60", "llmq400_85", "llmq200_2",
     "llmq100_67_mainnet", "llmq100_67_testnet"}

(* The profile maps each network constructor installs ("long living quorum *)
(* params" in CMainParams, CTestNetParams, CDevNetParams, CRegTestParams). *)

\* Mutant: a constructor that forgets the platform quorum entry.
MainLLMQsNoPlatform ==
    [t \in LLMQTypes \ {"LLMQ_100_67"} |->
        CASE t = "LLMQ_50_60"  -> "llmq3_60"
          [] t = "LLMQ_400_60" -> "llmq20_60"
          [] t = "LLMQ_400_85" -> "llmq20_85"]

MainLLMQs ==
    [t \in LLMQTypes |->
        CASE t = "LLMQ_50_60"  -> "llmq3_60"
          [] t = "LLMQ_400_60" -> "llmq20_60"
          [] t = "LLMQ_400_85" -> "llmq20_85"
          [] t = "LLMQ_100_67" -> "llmq100_67_mainnet"]

TestLLMQs == [MainLLMQs EXCEPT !["LLMQ_100_67"] = "llmq100_67_testnet"]

DevNetLLMQs ==
    [t \in LLMQTypes |->
        CASE t = "LLMQ_50_60"  -> "llmq50_60"
          [] t = "LLMQ_400_60" -> "llmq400_60"
          [] t = "LLMQ_400_85" -> "llmq400_85"
          [] t = "LLMQ_100_67" -> "llmq100_67_testnet"]

RegTestLLMQs == DevNetLLMQs

Baseline(net) ==
    CASE net = "main"    -> MainLLMQs
      [] net = "test"    -> TestLLMQs
      [] net = "devnet"  -> DevNetLLMQs
      [] net = "regtest" -> RegTestLLMQs
=============================================================================
