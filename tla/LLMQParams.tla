----------------------------- MODULE LLMQParams -----------------------------
(***************************************************************************)
(* The adaptive quorum-size selector of src/src/chainparams.cpp:           *)
(* CChainParams::UpdateLLMQParams, the mining-phase test it is guarded by  *)
(* (IsMiningPhase, IsLLMQsMiningPhase) and the three file-scope statics    *)
(* lastCheckMnCount, lastCheckHeight and lastCheckedLowLLMQParams that     *)
(* make up its hysteresis guard.                                           *)
(*                                                                         *)
(* A quorum type (the key of consensus.llmqs) and a quorum profile (the    *)
(* Consensus::LLMQParams value stored under it) are both strings, named as *)
(* in the code.  The DKG timing of a profile (dkgInterval and the mining   *)
(* window) lives in llmq/quorums_parameters.h, which is not part of this   *)
(* source tree, and is therefore a constant.  So is the answer of          *)
(* Updates().IsActive(EUpdate::QUORUMS_200_8, blockIndex), which the       *)
(* deployment engine computes from the chain; the block index passed to    *)
(* UpdateLLMQParams is taken to be the block at the height passed with it. *)
(***************************************************************************)
EXTENDS Integers, LLMQProfiles

CONSTANTS
    Heights,            \* heights a caller may pass to UpdateLLMQParams
    MnCounts,           \* masternode counts a caller may pass
    DkgInterval,        \* profile -> dkgInterval
    DkgMiningWindowStart, \* profile -> dkgMiningWindowStart
    DkgMiningWindowEnd, \* profile -> dkgMiningWindowEnd
    IsQuorums200Active(_, _) \* network, height -> QUORUMS_200_8 is ACTIVE

ASSUME InputsAssumption ==
    /\ Heights \subseteq Nat \ {0}
    /\ MnCounts \subseteq Nat

\* IsMiningPhase computes nHeight % dkgInterval: a zero interval is
\* undefined behaviour, so every profile is assumed to have a positive one.
ASSUME DkgAssumption ==
    /\ DkgInterval \in [ProfileNames -> Nat \ {0}]
    /\ DkgMiningWindowStart \in [ProfileNames -> Nat]
    /\ DkgMiningWindowEnd \in [ProfileNames -> Nat]

ASSUME ActiveAssumption ==
    \A n \in Networks, h \in Heights : IsQuorums200Active(n, h) \in BOOLEAN

VARIABLES
    network,                  \* strNetworkID of globalChainParams
    llmqs,                    \* consensus.llmqs: quorum type -> profile
    lastCheckMnCount,         \* static size_t lastCheckMnCount
    lastCheckHeight,          \* static int lastCheckHeight
    lastCheckedLowLLMQParams, \* static bool lastCheckedLowLLMQParams
    census                    \* arguments of the latest UpdateLLMQParams call

vars == <<network, llmqs, lastCheckMnCount, lastCheckHeight,
          lastCheckedLowLLMQParams, census>>

Census == [mnCount : MnCounts \cup {0}, height : Heights \cup {0},
           low : BOOLEAN]

-----------------------------------------------------------------------------
(* The mining-phase test.                                                  *)

IsMiningPhase(p, nHeight) ==
    LET phaseIndex == nHeight % DkgInterval[p]
    IN  /\ phaseIndex >= DkgMiningWindowStart[p]
        /\ phaseIndex <= DkgMiningWindowEnd[p]

IsLLMQsMiningPhase(map, nHeight) ==
    \E t \in LLMQTypes : IsMiningPhase(map[t], nHeight)

-----------------------------------------------------------------------------
(* The selection: the profiles written under LLMQ_50_60, LLMQ_400_60 and   *)
(* LLMQ_400_85 for a census, branch by branch as in the code, with the     *)
(* lowLLMQParams override applied last.  LLMQ_100_67 is never written.     *)

IsTestNet(net) == net = "test"

Profiles3(gp, cl60, cl85) ==
    [LLMQ_50_60 |-> gp, LLMQ_400_60 |-> cl60, LLMQ_400_85 |-> cl85]

\* Mutant: the very-small floor compared with <= instead of <.
TierProfilesFloorOffByOne(net, totalMnCount, height) ==
    IF totalMnCount <= 5 THEN
        IF IsTestNet(net) THEN Profiles3("llmq3_60", "llmq5_60", "llmq5_85")
                          ELSE Profiles3("llmq3_60", "llmq20_60", "llmq20_85")
    ELSE IF \/ totalMnCount < 80 /\ IsTestNet(net)
            \/ totalMnCount < 100 /\ ~IsTestNet(net) THEN
        Profiles3("llmq10_60", "llmq20_60", "llmq20_85")
    ELSE IF \/ /\ \/ height >= 24280 /\ totalMnCount < 600
                  \/ height < 24280 /\ totalMnCount < 4000
               /\ IsTestNet(net)
            \/ totalMnCount < 600 /\ ~IsTestNet(net) THEN
        Profiles3("llmq50_60", "llmq40_60", "llmq40_85")
    ELSE IF IsQuorums200Active(net, height) THEN
        Profiles3("llmq50_60", "llmq200_60", "llmq200_85")
    ELSE
        Profiles3("llmq50_60", "llmq400_60", "llmq400_85")

TierProfiles(net, totalMnCount, height) ==
    IF totalMnCount < 5 THEN
        IF IsTestNet(net) THEN Profiles3("llmq3_60", "llmq5_60", "llmq5_85")
                          ELSE Profiles3("llmq3_60", "llmq20_60", "llmq20_85")
    ELSE IF \/ totalMnCount < 80 /\ IsTestNet(net)
            \/ totalMnCount < 100 /\ ~IsTestNet(net) THEN
        Profiles3("llmq10_60", "llmq20_60", "llmq20_85")
    ELSE IF \/ /\ \/ height >= 24280 /\ totalMnCount < 600
                  \/ height < 24280 /\ totalMnCount < 4000
               /\ IsTestNet(net)
            \/ totalMnCount < 600 /\ ~IsTestNet(net) THEN
        Profiles3("llmq50_60", "llmq40_60", "llmq40_85")
    ELSE IF IsQuorums200Active(net, height) THEN
        Profiles3("llmq50_60", "llmq200_60", "llmq200_85")
    ELSE
        Profiles3("llmq50_60", "llmq400_60", "llmq400_85")

NewProfiles(net, totalMnCount, height, lowLLMQParams) ==
    LET p == TierProfiles(net, totalMnCount, height)
    IN  IF lowLLMQParams THEN [p EXCEPT !.LLMQ_50_60 = "llmq200_2"] ELSE p

ApplyProfiles(map, p) ==
    [map EXCEPT !["LLMQ_50_60"]  = p.LLMQ_50_60,
                !["LLMQ_400_60"] = p.LLMQ_400_60,
                !["LLMQ_400_85"] = p.LLMQ_400_85]

-----------------------------------------------------------------------------
(* The process after SelectParams(net): the constructor's profile map, the *)
(* statics at their zero initialisers, no UpdateLLMQParams call yet.       *)
Init ==
    /\ network \in Networks
    /\ llmqs = Baseline(network)
    /\ lastCheckMnCount = 0
    /\ lastCheckHeight = 0
    /\ lastCheckedLowLLMQParams = FALSE
    /\ census = [mnCount |-> 0, height |-> 0, low |-> FALSE]

\* The condition of the if in UpdateLLMQParams.
ShouldUpdate(totalMnCount, height, lowLLMQParams) ==
    /\ lastCheckHeight < height
    /\ \/ lastCheckMnCount # totalMnCount
       \/ lastCheckedLowLLMQParams # lowLLMQParams
    /\ ~IsLLMQsMiningPhase(llmqs, height)

\* One call UpdateLLMQParams(totalMnCount, height, blockIndex, lowLLMQParams),
\* from block processing outside this file: either the guard holds and the
\* statics and the three profiles are rewritten, or nothing changes.
UpdateLLMQParams(totalMnCount, height, lowLLMQParams) ==
    /\ census' = [mnCount |-> totalMnCount, height |-> height,
                  low |-> lowLLMQParams]
    /\ \/ /\ ShouldUpdate(totalMnCount, height, lowLLMQParams)
          /\ lastCheckMnCount' = totalMnCount
          /\ lastCheckedLowLLMQParams' = lowLLMQParams
          /\ lastCheckHeight' = height
          /\ llmqs' = ApplyProfiles(llmqs,
                          NewProfiles(network, totalMnCount, height,
                                      lowLLMQParams))
       \/ /\ ~ShouldUpdate(totalMnCount, height, lowLLMQParams)
          /\ UNCHANGED <<llmqs, lastCheckMnCount, lastCheckHeight,
                         lastCheckedLowLLMQParams>>
    /\ UNCHANGED network

Next ==
    \E c \in MnCounts, h \in Heights, low \in BOOLEAN :
        UpdateLLMQParams(c, h, low)

Spec == Init /\ [][Next]_vars

-----------------------------------------------------------------------------
(* Properties.                                                             *)

TypeOK ==
    /\ network \in Networks
    /\ llmqs \in [LLMQTypes -> ProfileNames]
    /\ lastCheckMnCount \in MnCounts \cup {0}
    /\ lastCheckHeight \in Heights \cup {0}
    /\ lastCheckedLowLLMQParams \in BOOLEAN
    /\ census \in Census

(* The selection policy of the spec (section 4.5), stated independently of *)
(* the code's if-chain: the tier is the number of network floors the count *)
(* reaches (very small 5; small 80 on test, 100 elsewhere; mid 600, or     *)
(* 4000 on test below height 24280), each tier has one profile per role,   *)
(* the full tier's chain-lock size follows QUORUMS_200_8, and the low      *)
(* override replaces the general-purpose profile whatever the tier.        *)
SpecTier(net, c, h) ==
    LET small == IF net = "test" THEN 80 ELSE 100
        mid   == IF net = "test" /\ h < 24280 THEN 4000 ELSE 600
    IN  (IF c >= 5 THEN 1 ELSE 0) + (IF c >= small THEN 1 ELSE 0)
          + (IF c >= mid THEN 1 ELSE 0)

SpecProfiles(net, c, h, low) ==
    LET t == SpecTier(net, c, h)
        size60 == CASE t = 0 -> IF net = "test" THEN "llmq5_60" ELSE "llmq20_60"
                    [] t = 1 -> "llmq20_60"
                    [] t = 2 -> "llmq40_60"
                    [] t = 3 -> IF IsQuorums200Active(net, h) THEN "llmq200_60"
                                                              ELSE "llmq400_60"
        size85 == CASE t = 0 -> IF net = "test" THEN "llmq5_85" ELSE "llmq20_85"
                    [] t = 1 -> "llmq20_85"
                    [] t = 2 -> "llmq40_85"
                    [] t = 3 -> IF IsQuorums200Active(net, h) THEN "llmq200_85"
                                                              ELSE "llmq400_85"
        general == IF low THEN "llmq200_2"
                   ELSE CASE t = 0  -> "llmq3_60"
                          [] t = 1  -> "llmq10_60"
                          [] t >= 2 -> "llmq50_60"
    IN  [LLMQ_50_60 |-> general, LLMQ_400_60 |-> size60, LLMQ_400_85 |-> size85]

(* The profile map and the hysteresis statics agree: before the first      *)
(* applied UpdateLLMQParams the map is the constructor's, and after it the *)
(* three adaptive profiles are those the spec's policy selects for the     *)
(* census recorded in lastCheckMnCount, lastCheckHeight and                *)
(* lastCheckedLowLLMQParams, while LLMQ_100_67 keeps the constructor's     *)
(* profile.  It fails if the statics and the map are written from          *)
(* different censuses, or if a branch of the selection picks another       *)
(* profile than the policy.                                                *)
ProfilesMatchGuard ==
    \A t \in LLMQTypes :
        llmqs[t] =
            IF lastCheckHeight = 0 \/ t = "LLMQ_100_67"
            THEN Baseline(network)[t]
            ELSE SpecProfiles(network, lastCheckMnCount, lastCheckHeight,
                              lastCheckedLowLLMQParams)[t]

(* The spec (section 4.5) lets guard (b) skip a call only when the count   *)
(* and the override equal those of the last call.  Before any call there  *)
(* is no last call, so the first call made at a height outside every       *)
(* mining window must install the policy's profiles for its census.  The   *)
(* code stands the zero initialisers of its statics (lines 28-30) in for   *)
(* that last call.                                                         *)
FirstCallApplied ==
    [][(/\ lastCheckHeight = 0
        /\ census = [mnCount |-> 0, height |-> 0, low |-> FALSE]
        /\ ~IsLLMQsMiningPhase(llmqs, census'.height))
       => \A t \in LLMQTypes \ {"LLMQ_100_67"} :
              llmqs'[t] = SpecProfiles(network, census'.mnCount,
                                       census'.height, census'.low)[t]]_vars
=============================================================================
