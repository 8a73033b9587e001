---------------------------- MODULE LLMQReselect ----------------------------
(***************************************************************************)
(* LLMQParams with SelectParams callable again while the process runs, as *)
(* the test fixtures of the node do and as nothing in SelectParams or      *)
(* CreateChainParams forbids.  SelectParams replaces globalChainParams by *)
(* a freshly constructed CChainParams, whose profile map is the           *)
(* constructor's; the file-scope statics of the hysteresis guard are not  *)
(* part of that object and keep their values.  An unknown chain name      *)
(* throws before globalChainParams is assigned and changes nothing, so it *)
(* is not a step.                                                         *)
(***************************************************************************)
EXTENDS LLMQParams

SelectParams(net) ==
    /\ network' = net
    /\ llmqs' = Baseline(net)
    /\ UNCHANGED <<lastCheckMnCount, lastCheckHeight,
                   lastCheckedLowLLMQParams, census>>

ReselectNext == Next \/ \E net \in Networks : SelectParams(net)

ReselectSpec == Init /\ [][ReselectNext]_vars
=============================================================================
