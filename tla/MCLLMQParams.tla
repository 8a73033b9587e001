---------------------------- MODULE MCLLMQParams ----------------------------
(***************************************************************************)
(* A small instance of LLMQParams for TLC.                                 *)
(*                                                                         *)
(* Heights are eight consecutive heights around 24280, the height at which *)
(* the testnet mid floor drops from 4000 to 600 masternodes.  Counts sit   *)
(* on both sides of every floor of every network (5, 80, 100, 600, 4000).  *)
(* The DKG timing gives the general-purpose profiles a window at residue 3 *)
(* of 4, the 60% chain-lock profiles one at residue 5 of 6 and the 85%     *)
(* ones one at residue 7 of 8, so that 24279, 24281 and 24283 are in a     *)
(* mining phase and the others are not.  QUORUMS_200_8 is registered only *)
(* by CTestNetParams; here it becomes ACTIVE at height 24282.              *)
(***************************************************************************)
EXTENDS LLMQParams

MCHeights == 24276..24283

MCMnCounts == {0, 4, 5, 79, 80, 99, 100, 599, 600, 3999, 4000}

GeneralProfiles == {"llmq3_60", "llmq10_60", "llmq50_60", "llmq200_2"}
Size60Profiles == {"llmq5_60", "llmq20_60", "llmq40_60", "llmq200_60", "llmq400_60"}

MCDkgInterval ==
    [p \in ProfileNames |->
        IF p \in GeneralProfiles THEN 4
        ELSE IF p \in Size60Profiles THEN 6
        ELSE IF p \in {"llmq100_67_mainnet", "llmq100_67_testnet"} THEN 12
        ELSE 8]

MCDkgMiningWindowStart == [p \in ProfileNames |-> MCDkgInterval[p] - 1]

MCDkgMiningWindowEnd == [p \in ProfileNames |-> MCDkgInterval[p] - 1]

MCIsQuorums200Active(net, h) == net = "test" /\ h >= 24282
=============================================================================
