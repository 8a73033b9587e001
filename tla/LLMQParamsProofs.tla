------------------------- MODULE LLMQParamsProofs --------------------------
(***************************************************************************)
(* Proofs about LLMQParams, for every choice of the constants that meets   *)
(* its assumptions.                                                        *)
(***************************************************************************)
EXTENDS LLMQParams, TLAPS

AdaptiveTypes == {"LLMQ_50_60", "LLMQ_400_60", "LLMQ_400_85"}

(* Every network constructor installs a profile for every quorum type.     *)
LEMMA BaselineType ==
    ASSUME NEW net \in Networks
    PROVE  Baseline(net) \in [LLMQTypes -> ProfileNames]
BY DEF Baseline, MainLLMQs, TestLLMQs, DevNetLLMQs, RegTestLLMQs,
       Networks, LLMQTypes, ProfileNames

(* The selection writes a profile to each of the three adaptive types.     *)
LEMMA NewProfilesType ==
    ASSUME NEW net \in Networks, NEW c \in Nat, NEW h \in Heights,
           NEW low \in BOOLEAN
    PROVE  /\ NewProfiles(net, c, h, low).LLMQ_50_60 \in ProfileNames
           /\ NewProfiles(net, c, h, low).LLMQ_400_60 \in ProfileNames
           /\ NewProfiles(net, c, h, low).LLMQ_400_85 \in ProfileNames
<1>1. IsQuorums200Active(net, h) \in BOOLEAN
  BY ActiveAssumption
<1>2. QED
  BY <1>1 DEF NewProfiles, TierProfiles, Profiles3, IsTestNet, ProfileNames

(* The code's if-chain selects, for every census, the profiles that the    *)
(* spec's floor-counting policy selects.                                   *)
LEMMA SelectionMatchesPolicy ==
    ASSUME NEW net \in Networks, NEW c \in Nat, NEW h \in Heights,
           NEW low \in BOOLEAN
    PROVE  \A t \in AdaptiveTypes :
               NewProfiles(net, c, h, low)[t] = SpecProfiles(net, c, h, low)[t]
<1>1. IsQuorums200Active(net, h) \in BOOLEAN
  BY ActiveAssumption
<1>2. h \in Nat
  BY InputsAssumption
<1> DEFINE T == SpecTier(net, c, h)
<1>3. T \in 0..3
  BY <1>2 DEF SpecTier, T
<1>4. CASE c < 5
  <2>1. T = 0
    BY <1>2, <1>4 DEF SpecTier, T
  <2>2. QED
    BY <1>1, <1>4, <2>1 DEF NewProfiles, TierProfiles, Profiles3, IsTestNet,
                            SpecProfiles, AdaptiveTypes, T
<1>5. CASE ~(c < 5) /\ ((c < 80 /\ net = "test") \/ (c < 100 /\ net # "test"))
  <2>1. T = 1
    BY <1>2, <1>5 DEF SpecTier, T
  <2>2. QED
    BY <1>1, <1>5, <2>1 DEF NewProfiles, TierProfiles, Profiles3, IsTestNet,
                            SpecProfiles, AdaptiveTypes, T
<1>6. CASE /\ ~(c < 5) /\ ~((c < 80 /\ net = "test") \/ (c < 100 /\ net # "test"))
           /\ \/ (((h >= 24280 /\ c < 600) \/ (h < 24280 /\ c < 4000)) /\ net = "test")
              \/ (c < 600 /\ net # "test")
  <2>1. T = 2
    <3>1. CASE net = "test" /\ h < 24280
      BY <1>2, <1>6, <3>1 DEF SpecTier, T
    <3>2. CASE net = "test" /\ h >= 24280
      BY <1>2, <1>6, <3>2 DEF SpecTier, T
    <3>3. CASE net # "test"
      BY <1>2, <1>6, <3>3 DEF SpecTier, T
    <3>4. QED
      BY <1>2, <3>1, <3>2, <3>3
  <2>2. QED
    BY <1>1, <1>6, <2>1 DEF NewProfiles, TierProfiles, Profiles3, IsTestNet,
                            SpecProfiles, AdaptiveTypes, T
<1>7. CASE /\ ~(c < 5) /\ ~((c < 80 /\ net = "test") \/ (c < 100 /\ net # "test"))
           /\ ~(\/ (((h >= 24280 /\ c < 600) \/ (h < 24280 /\ c < 4000)) /\ net = "test")
                \/ (c < 600 /\ net # "test"))
  <2>1. T = 3
    <3>1. CASE net = "test" /\ h < 24280
      BY <1>2, <1>7, <3>1 DEF SpecTier, T
    <3>2. CASE net = "test" /\ h >= 24280
      BY <1>2, <1>7, <3>2 DEF SpecTier, T
    <3>3. CASE net # "test"
      BY <1>2, <1>7, <3>3 DEF SpecTier, T
    <3>4. QED
      BY <1>2, <3>1, <3>2, <3>3
  <2>2. QED
    BY <1>1, <1>7, <2>1 DEF NewProfiles, TierProfiles, Profiles3, IsTestNet,
                            SpecProfiles, AdaptiveTypes, T
<1>8. QED
  BY <1>4, <1>5, <1>6, <1>7

(* Type correctness of the selector.                                       *)
THEOREM TypeCorrect == Spec => []TypeOK
<1>1. Init => TypeOK
  <2> SUFFICES ASSUME Init PROVE TypeOK
    OBVIOUS
  <2>1. llmqs \in [LLMQTypes -> ProfileNames]
    BY BaselineType DEF Init
  <2>2. QED
    BY <2>1 DEF Init, TypeOK, Census
<1>2. TypeOK /\ [Next]_vars => TypeOK'
  <2> SUFFICES ASSUME TypeOK, [Next]_vars PROVE TypeOK'
    OBVIOUS
  <2>1. ASSUME NEW c \in MnCounts, NEW h \in Heights, NEW low \in BOOLEAN,
               UpdateLLMQParams(c, h, low)
        PROVE  TypeOK'
    <3>1. census' \in Census
      BY <2>1 DEF UpdateLLMQParams, Census
    <3>2. llmqs' \in [LLMQTypes -> ProfileNames]
      <4>1. c \in Nat
        BY InputsAssumption
      <4>2. CASE ShouldUpdate(c, h, low)
        BY <2>1, <4>1, <4>2, NewProfilesType
        DEF UpdateLLMQParams, ApplyProfiles, TypeOK, LLMQTypes
      <4>3. CASE ~ShouldUpdate(c, h, low)
        BY <2>1, <4>3 DEF UpdateLLMQParams, TypeOK
      <4>4. QED
        BY <4>2, <4>3
    <3>3. QED
      BY <2>1, <3>1, <3>2 DEF UpdateLLMQParams, TypeOK
  <2>2. CASE UNCHANGED vars
    BY <2>2 DEF TypeOK, vars
  <2>3. QED
    BY <2>1, <2>2 DEF Next
<1>3. QED
  BY <1>1, <1>2, PTL DEF Spec

(* The hysteresis statics and the profile map agree in every reachable    *)
(* state: ProfilesMatchGuard is inductive relative to TypeOK.             *)
THEOREM GuardConsistency == Spec => []ProfilesMatchGuard
<1>1. Init => ProfilesMatchGuard
  BY DEF Init, ProfilesMatchGuard
<1>2. TypeOK /\ ProfilesMatchGuard /\ [Next]_vars => ProfilesMatchGuard'
  <2> SUFFICES ASSUME TypeOK, ProfilesMatchGuard, [Next]_vars
               PROVE  ProfilesMatchGuard'
    OBVIOUS
  <2>1. ASSUME NEW c \in MnCounts, NEW h \in Heights, NEW low \in BOOLEAN,
               UpdateLLMQParams(c, h, low)
        PROVE  ProfilesMatchGuard'
    <3>1. CASE ShouldUpdate(c, h, low)
      <4>1. /\ lastCheckHeight' = h
            /\ lastCheckMnCount' = c
            /\ lastCheckedLowLLMQParams' = low
            /\ network' = network
            /\ llmqs' = ApplyProfiles(llmqs, NewProfiles(network, c, h, low))
        BY <2>1, <3>1 DEF UpdateLLMQParams
      <4>2. h # 0 /\ c \in Nat
        BY InputsAssumption
      <4>3. \A t \in AdaptiveTypes :
                NewProfiles(network, c, h, low)[t] = SpecProfiles(network, c, h, low)[t]
        BY <4>2, SelectionMatchesPolicy DEF TypeOK
      <4>4. llmqs'["LLMQ_100_67"] = Baseline(network)["LLMQ_100_67"]
        BY <4>1 DEF ApplyProfiles, ProfilesMatchGuard, TypeOK, LLMQTypes
      <4>5. QED
        BY <4>1, <4>2, <4>3, <4>4
        DEF ProfilesMatchGuard, ApplyProfiles, TypeOK, LLMQTypes, AdaptiveTypes
    <3>2. CASE ~ShouldUpdate(c, h, low)
      BY <2>1, <3>2 DEF UpdateLLMQParams, ProfilesMatchGuard
    <3>3. QED
      BY <3>1, <3>2
  <2>2. CASE UNCHANGED vars
    BY <2>2 DEF ProfilesMatchGuard, vars
  <2>3. QED
    BY <2>1, <2>2 DEF Next
<1>3. QED
  BY <1>1, <1>2, TypeCorrect, PTL DEF Spec
=============================================================================
