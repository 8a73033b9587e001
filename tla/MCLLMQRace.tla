----------------------------- MODULE MCLLMQRace -----------------------------
(***************************************************************************)
(* Two threads calling UpdateLLMQParams.  Heights 1..3 with every profile  *)
(* mining at residue 3 of 4, so height 3 is in a mining phase and 1 and 2  *)
(* are not; counts 0 and 100 fall in two different tiers on every network. *)
(* QUORUMS_200_8 plays no part below 600 masternodes.                      *)
(***************************************************************************)
EXTENDS LLMQRace, LLMQProfiles, TLC

CONSTANTS t1, t2

MCThreads == {t1, t2}

MCHeights == 1..3

MCMnCounts == {0, 100}

MCDkgInterval == [p \in ProfileNames |-> 4]

MCDkgMiningWindow == [p \in ProfileNames |-> 3]

MCIsQuorums200Active(net, h) == FALSE

MCSymmetry == Permutations(MCThreads)


=============================================================================
