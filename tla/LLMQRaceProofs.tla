--------------------------- MODULE LLMQRaceProofs ---------------------------
(***************************************************************************)
(* Proof that serialised callers make the statement-by-statement execution *)
(* of UpdateLLMQParams implement the atomic selector of LLMQParams.        *)
(***************************************************************************)
EXTENDS LLMQRace, TLAPS

AdaptiveTypes == {"LLMQ_50_60", "LLMQ_400_60", "LLMQ_400_85"}

(* Every branch of the selection names a profile for the same three types. *)
LEMMA TierDomain ==
    ASSUME NEW net, NEW c, NEW h
    PROVE  DOMAIN Sel!TierProfiles(net, c, h) = AdaptiveTypes
BY DEF Sel!TierProfiles, Sel!Profiles3, AdaptiveTypes

(* What a call inside the body has written so far: the assignments before  *)
(* its next one, each with the value the call computes.                    *)
Written(t) ==
    /\ pc[t] > 1 => lastCheckMnCount = arg[t].mnCount
    /\ pc[t] > 2 => lastCheckedLowLLMQParams = arg[t].low
    /\ pc[t] > 3 => lastCheckHeight = arg[t].height
    /\ pc[t] > 4 => llmqs["LLMQ_50_60"] = TierOf(t)["LLMQ_50_60"]
    /\ pc[t] > 5 => llmqs["LLMQ_400_60"] = TierOf(t)["LLMQ_400_60"]
    /\ pc[t] > 6 => llmqs["LLMQ_400_85"] = TierOf(t)["LLMQ_400_85"]

(* With serialised callers at most one call is inside the body, and it has *)
(* written exactly the assignments before its next one.                    *)
RaceInv ==
    /\ network \in Sel!Networks
    /\ llmqs = [k \in Sel!LLMQTypes |-> llmqs[k]]
    /\ census \in Sel!Census
    /\ pc \in [Threads -> 0..7]
    /\ arg \in [Threads -> Sel!Census]
    /\ \A t, u \in Threads : InCall(t) /\ InCall(u) => t = u
    /\ \A t \in Threads : InCall(t) => Written(t)

(* The assignments of the body, by index.                                 *)
LEMMA BodyFacts ==
    /\ Len(Body) = 7
    /\ Body[1] = "mnCount" /\ Body[2] = "low" /\ Body[3] = "height"
    /\ Body[4] = "LLMQ_50_60" /\ Body[5] = "LLMQ_400_60"
    /\ Body[6] = "LLMQ_400_85" /\ Body[7] = "override"
BY DEF Body

(* Every constructor map is a function on the four quorum types.         *)
LEMMA BaselineIsFunction ==
    ASSUME NEW net \in Sel!Networks
    PROVE  Sel!Baseline(net) = [k \in Sel!LLMQTypes |-> Sel!Baseline(net)[k]]
BY DEF Sel!Networks, Sel!Baseline, Sel!MainLLMQs, Sel!TestLLMQs, Sel!DevNetLLMQs, Sel!RegTestLLMQs,
       Sel!LLMQTypes

(* The invariant holds when no call has been made.                       *)
LEMMA RaceInit == Init => RaceInv
<1> SUFFICES ASSUME Init PROVE RaceInv
  OBVIOUS
<1>1. network \in Sel!Networks /\ llmqs = Sel!Baseline(network)
  BY DEF Init, Sel!Init
<1>2. census \in Sel!Census /\ arg = [t \in Threads |-> census]
  BY DEF Init, Sel!Init, Sel!Census
<1>3. pc = [t \in Threads |-> 0]
  BY DEF Init
<1>4. QED
  BY <1>1, <1>2, <1>3, BaselineIsFunction DEF RaceInv, InCall

(* A call entering UpdateLLMQParams, with no other call inside the body.  *)
LEMMA RaceCall ==
    ASSUME Serialised, RaceInv, NEW t \in Threads, NEW c \in MnCounts,
           NEW h \in Heights, NEW low \in BOOLEAN, Call(t, c, h, low)
    PROVE  RaceInv'
<1>1. \A u \in Threads : ~InCall(u)
  BY DEF Call
<1>2. QED
  BY <1>1 DEF Call, RaceInv, InCall, Written, Sel!Census

(* One assignment of the only call inside the body.                       *)
LEMMA RaceAssign ==
    ASSUME Serialised, RaceInv, NEW t \in Threads, Assign(t)
    PROVE  RaceInv'
<1>1. InCall(t) /\ \A u \in Threads : InCall(u) => u = t
  BY DEF Assign, RaceInv
<1>2. pc[t] \in 1..7
  BY <1>1 DEF RaceInv, InCall
<1>3. UNCHANGED <<network, census, arg>>
  BY DEF Assign
<1>4. TierOf(t)' = TierOf(t)
  BY <1>3 DEF TierOf
<1>5. llmqs' = [k \in Sel!LLMQTypes |-> llmqs'[k]]
  BY <1>2, BodyFacts DEF Assign, RaceInv, Sel!LLMQTypes
<1>6. pc' = [pc EXCEPT ![t] = NextPc(t)] /\ pc' \in [Threads -> 0..7]
  BY <1>2, BodyFacts DEF Assign, NextPc, RaceInv
<1>7. \A u \in Threads : InCall(u)' => u = t
  BY <1>1, <1>6 DEF InCall
<1>8. InCall(t)' => Written(t)'
  <2> SUFFICES ASSUME InCall(t)' PROVE Written(t)'
    OBVIOUS
  <2>1. Written(t)
    BY <1>1 DEF RaceInv
  <2>2. pc[t] \in 1..6 /\ pc'[t] = pc[t] + 1
    BY <1>2, <1>6, BodyFacts DEF NextPc, InCall, RaceInv
  <2>3. CASE pc[t] \in 1..3
    BY <2>1, <2>2, <2>3, <1>3, <1>4, BodyFacts DEF Assign, Written, RaceInv
  <2>4. CASE pc[t] \in 4..6
    BY <2>1, <2>2, <2>4, <1>3, <1>4, BodyFacts
       DEF Assign, Written, RaceInv, Sel!LLMQTypes
  <2>5. QED
    BY <2>2, <2>3, <2>4
<1>9. QED
  BY <1>3, <1>5, <1>6, <1>7, <1>8 DEF RaceInv

(* Every step of serialised callers keeps the invariant.                 *)
LEMMA RaceNext == Serialised /\ RaceInv /\ [Next]_vars => RaceInv'
<1> SUFFICES ASSUME Serialised, RaceInv, [Next]_vars PROVE RaceInv'
  OBVIOUS
<1>1. CASE UNCHANGED vars
  BY <1>1 DEF vars, RaceInv, InCall, Written, TierOf
<1>2. QED
  BY <1>1, RaceCall, RaceAssign DEF Next

-----------------------------------------------------------------------------
(* The refinement.                                                         *)

\* With no call inside the body, the mapped state is the concrete one.
LEMMA QuiescentMapping ==
    ASSUME Writers = {}
    PROVE  /\ AbsLLMQs = llmqs
           /\ \A f, v : AbsStatic(f, v) = v
BY DEF AbsLLMQs, AbsStatic

\* The two instances of LLMQProfiles define the same constructor maps.
LEMMA SameBaseline ==
    ASSUME NEW net PROVE Atomic!Baseline(net) = Sel!Baseline(net)
BY DEF Atomic!Baseline, Sel!Baseline, Atomic!MainLLMQs, Sel!MainLLMQs,
       Atomic!TestLLMQs, Sel!TestLLMQs, Atomic!DevNetLLMQs, Sel!DevNetLLMQs,
       Atomic!RegTestLLMQs, Sel!RegTestLLMQs, Atomic!LLMQTypes, Sel!LLMQTypes

(* The initial state maps to an initial state of LLMQParams.             *)
LEMMA RefineInit == Init => Atomic!Init
<1> SUFFICES ASSUME Init PROVE Atomic!Init
  OBVIOUS
<1>1. Writers = {}
  BY DEF Init, Writers, InCall
<1>2. QED
  BY <1>1, QuiescentMapping, SameBaseline
     DEF Init, Sel!Init, Atomic!Init, Atomic!Networks, Sel!Networks

(* A call is one UpdateLLMQParams step of LLMQParams at its guard.       *)
LEMMA RefineCall ==
    ASSUME Serialised, RaceInv, NEW t \in Threads, NEW c \in MnCounts,
           NEW h \in Heights, NEW low \in BOOLEAN, Call(t, c, h, low)
    PROVE  Atomic!Next
<1>1. Writers = {}
  BY DEF Call, Writers
<1>2. /\ AbsLLMQs = llmqs
      /\ AbsStatic("mnCount", lastCheckMnCount) = lastCheckMnCount
      /\ AbsStatic("height", lastCheckHeight) = lastCheckHeight
      /\ AbsStatic("low", lastCheckedLowLLMQParams) = lastCheckedLowLLMQParams
  BY <1>1, QuiescentMapping
<1>3. arg'[t] = [mnCount |-> c, height |-> h, low |-> low]
      /\ census' = arg'[t]
  BY DEF Call, RaceInv
<1>4. Atomic!ShouldUpdate(c, h, low) <=> Sel!ShouldUpdate(c, h, low)
  BY <1>2 DEF Atomic!ShouldUpdate, Sel!ShouldUpdate,
              Atomic!IsLLMQsMiningPhase, Sel!IsLLMQsMiningPhase,
              Atomic!LLMQTypes, Sel!LLMQTypes, Atomic!IsMiningPhase,
              Sel!IsMiningPhase
<1>5. CASE Sel!ShouldUpdate(c, h, low)
  <2>1. Writers' = {t}
    BY <1>5 DEF Call, Writers, InCall, RaceInv
  <2>2. Writer' = t
    BY <2>1 DEF Writer
  <2>3. /\ AbsLLMQs' = Sel!ApplyProfiles(llmqs,
                          Sel!NewProfiles(network, c, h, low))
        /\ AbsStatic("mnCount", lastCheckMnCount)' = c
        /\ AbsStatic("height", lastCheckHeight)' = h
        /\ AbsStatic("low", lastCheckedLowLLMQParams)' = low
    BY <2>1, <2>2, <1>3 DEF AbsLLMQs, AbsStatic, Applied, Call
  <2>4. Atomic!UpdateLLMQParams(c, h, low)
    BY <1>2, <1>3, <1>4, <1>5, <2>3
       DEF Atomic!UpdateLLMQParams, Atomic!ApplyProfiles, Sel!ApplyProfiles,
           Atomic!NewProfiles, Sel!NewProfiles, Atomic!TierProfiles,
           Sel!TierProfiles, Atomic!Profiles3, Sel!Profiles3,
           Atomic!IsTestNet, Sel!IsTestNet, Call
  <2>5. QED
    BY <2>4 DEF Atomic!Next
<1>6. CASE ~Sel!ShouldUpdate(c, h, low)
  <2>1. Writers' = {}
    BY <1>6 DEF Call, Writers, InCall, RaceInv
  <2>2. /\ AbsLLMQs' = llmqs
        /\ AbsStatic("mnCount", lastCheckMnCount)' = lastCheckMnCount
        /\ AbsStatic("height", lastCheckHeight)' = lastCheckHeight
        /\ AbsStatic("low", lastCheckedLowLLMQParams)' = lastCheckedLowLLMQParams
    BY <2>1 DEF AbsLLMQs, AbsStatic, Call
  <2>3. Atomic!UpdateLLMQParams(c, h, low)
    BY <1>2, <1>3, <1>4, <1>6, <2>2 DEF Atomic!UpdateLLMQParams, Call
  <2>4. QED
    BY <2>3 DEF Atomic!Next
<1>7. QED
  BY <1>5, <1>6

\* Writing one adaptive type before applying a selection changes nothing.
LEMMA ApplyAbsorbs ==
    ASSUME NEW m, NEW k \in AdaptiveTypes, NEW v, NEW p
    PROVE  Sel!ApplyProfiles([m EXCEPT ![k] = v], p) = Sel!ApplyProfiles(m, p)
BY DEF Sel!ApplyProfiles, AdaptiveTypes

(* The assignments of the body leave the mapped state unchanged.         *)
LEMMA RefineAssign ==
    ASSUME Serialised, RaceInv, NEW t \in Threads, Assign(t)
    PROVE  UNCHANGED Atomic!vars
<1>1. Writers = {t}
  BY DEF Assign, RaceInv, Writers
<1>2. Writer = t
  BY <1>1 DEF Writer
<1>3. UNCHANGED <<network, census, arg>>
  BY DEF Assign
<1>4. pc[t] \in 1..7 /\ Written(t)
  BY DEF Assign, RaceInv, InCall
<1>5. CASE pc[t] \in 1..6
  <2>1. Writers' = {t}
    BY <1>1, <1>5, BodyFacts DEF Assign, NextPc, Writers, InCall, RaceInv
  <2>2. Writer' = t
    BY <2>1 DEF Writer
  <2>3. \/ llmqs' = llmqs
        \/ \E k \in AdaptiveTypes : llmqs' = [llmqs EXCEPT ![k] = TierOf(t)[k]]
    <3>1. CASE pc[t] \in 1..3
      <4>1. Body[pc[t]] \in {"mnCount", "low", "height"}
        BY <3>1, BodyFacts
      <4>2. QED
        BY <4>1 DEF Assign
    <3>2. CASE pc[t] \in 4..6
      <4>1. Body[pc[t]] \in AdaptiveTypes
        BY <3>2, BodyFacts DEF AdaptiveTypes
      <4>2. llmqs' = [llmqs EXCEPT ![Body[pc[t]]] = TierOf(t)[Body[pc[t]]]]
        BY <4>1 DEF Assign, AdaptiveTypes
      <4>3. QED
        BY <4>1, <4>2
    <3>3. QED
      BY <1>5, <3>1, <3>2
  <2>4. Applied(t)' = Applied(t)
    BY <1>3, <2>3, ApplyAbsorbs DEF Applied
  <2>5. QED
    BY <1>1, <1>2, <1>3, <2>1, <2>2, <2>4 DEF Atomic!vars, AbsLLMQs, AbsStatic
<1>6. CASE pc[t] = 7
  <2>1. Writers' = {}
    BY <1>1, <1>6, BodyFacts DEF Assign, NextPc, Writers, InCall, RaceInv
  <2>2. /\ lastCheckMnCount' = arg[t].mnCount
        /\ lastCheckedLowLLMQParams' = arg[t].low
        /\ lastCheckHeight' = arg[t].height
    BY <1>4, <1>6, BodyFacts DEF Assign, Written
  <2>3. llmqs' = Applied(t)
    <3> DEFINE T == TierOf(t)
    <3>1. DOMAIN T = AdaptiveTypes
      BY TierDomain DEF TierOf
    <3>2. arg[t].low \in BOOLEAN /\ llmqs = [k \in Sel!LLMQTypes |-> llmqs[k]]
      BY DEF RaceInv, Sel!Census
    <3>3. /\ llmqs["LLMQ_50_60"] = T["LLMQ_50_60"]
          /\ llmqs["LLMQ_400_60"] = T["LLMQ_400_60"]
          /\ llmqs["LLMQ_400_85"] = T["LLMQ_400_85"]
      BY <1>4, <1>6 DEF Written
    <3>4. llmqs' = IF arg[t].low
                   THEN [llmqs EXCEPT !["LLMQ_50_60"] = "llmq200_2"]
                   ELSE llmqs
      <4>1. Body[pc[t]] = "override"
        BY <1>6, BodyFacts
      <4>2. CASE arg[t].low
        BY <4>1, <4>2 DEF Assign
      <4>3. CASE ~arg[t].low
        BY <4>1, <4>3 DEF Assign
      <4>4. QED
        BY <3>2, <4>2, <4>3
    <3>5. CASE arg[t].low
      <4>1. Sel!NewProfiles(network, arg[t].mnCount, arg[t].height, arg[t].low)
              = [T EXCEPT !.LLMQ_50_60 = "llmq200_2"]
        BY <3>5 DEF Sel!NewProfiles, TierOf
      <4>2. QED
        BY <3>1, <3>2, <3>3, <3>4, <3>5, <4>1
           DEF Applied, Sel!ApplyProfiles, AdaptiveTypes, Sel!LLMQTypes
    <3>6. CASE ~arg[t].low
      <4>1. Sel!NewProfiles(network, arg[t].mnCount, arg[t].height, arg[t].low)
              = T
        BY <3>6 DEF Sel!NewProfiles, TierOf
      <4>2. QED
        BY <3>1, <3>2, <3>3, <3>4, <3>6, <4>1
           DEF Applied, Sel!ApplyProfiles, AdaptiveTypes, Sel!LLMQTypes
    <3>7. QED
      BY <3>5, <3>6
  <2>4. QED
    BY <1>1, <1>2, <1>3, <2>1, <2>2, <2>3 DEF Atomic!vars, AbsLLMQs, AbsStatic
<1>7. QED
  BY <1>4, <1>5, <1>6

(* Every step maps to a step of LLMQParams or to a stutter.              *)
LEMMA RefineNext ==
    Serialised /\ RaceInv /\ [Next]_vars => [Atomic!Next]_Atomic!vars
<1> SUFFICES ASSUME Serialised, RaceInv, [Next]_vars
             PROVE  [Atomic!Next]_Atomic!vars
  OBVIOUS
<1>1. CASE UNCHANGED vars
  BY <1>1 DEF vars, Atomic!vars, AbsLLMQs, AbsStatic, Writers, Writer,
              Applied, InCall
<1>2. QED
  BY <1>1, RefineCall, RefineAssign DEF Next

-----------------------------------------------------------------------------
(* Spec section 5: when every caller serialises its calls of               *)
(* UpdateLLMQParams, its statement-by-statement execution is a correct     *)
(* implementation of the atomic reconciliation LLMQParams specifies, for   *)
(* every number of threads and every choice of the constants.  Without the *)
(* serialisation the llmq_race run shows that it is not.                   *)
THEOREM SerialisedImplementsAtomic == Serialised => (Spec => ImplementsAtomic)
<1> SUFFICES ASSUME Serialised PROVE Spec => ImplementsAtomic
  OBVIOUS
<1>1. Spec => []RaceInv
  BY RaceInit, RaceNext, PTL DEF Spec
<1>2. QED
  BY <1>1, RefineInit, RefineNext, PTL DEF Spec, ImplementsAtomic, Atomic!Spec

(* The two instances of LLMQParams state the same selection policy.      *)
LEMMA SameSpecProfiles ==
    ASSUME NEW net, NEW c, NEW h, NEW low
    PROVE  Atomic!SpecProfiles(net, c, h, low) = Sel!SpecProfiles(net, c, h, low)
BY DEF Atomic!SpecProfiles, Sel!SpecProfiles, Atomic!SpecTier, Sel!SpecTier

(* With serialised callers the refinement image of every reachable state  *)
(* satisfies the guard consistency of LLMQParams, proved there for every   *)
(* instance of its constants.                                              *)
LEMMA AbsGuard == Serialised => (Spec => []Atomic!ProfilesMatchGuard)
<1> SUFFICES ASSUME Serialised PROVE Spec => []Atomic!ProfilesMatchGuard
  OBVIOUS
<1>1. Spec => Atomic!Spec
  BY SerialisedImplementsAtomic DEF ImplementsAtomic
<1>2. Atomic!Spec => []Atomic!ProfilesMatchGuard
  <2>1. /\ Atomic!InputsAssumption /\ Atomic!DkgAssumption
        /\ Atomic!ActiveAssumption
    BY RaceInputsAssumption DEF Atomic!ProfileNames, Sel!ProfileNames,
                                Atomic!Networks, Sel!Networks
  <2>2. QED
    BY <2>1, Atomic!GuardConsistency, PTL
<1>3. QED
  BY <1>1, <1>2, PTL

(* Spec section 5: when the callers serialise their calls, no reconciler   *)
(* ever leaves the profile map behind the hysteresis statics: whenever no  *)
(* call of UpdateLLMQParams is inside its body, the map is the one the     *)
(* policy selects for the census the statics record.  The llmq_race run    *)
(* shows it failing for unserialised callers.                              *)
THEOREM SerialisedQuiescentMatch == Serialised => (Spec => []QuiescentMatchesGuard)
<1> SUFFICES ASSUME Serialised PROVE Spec => []QuiescentMatchesGuard
  OBVIOUS
<1>1. Atomic!ProfilesMatchGuard => QuiescentMatchesGuard
  <2> SUFFICES ASSUME Atomic!ProfilesMatchGuard, Writers = {}
               PROVE  Sel!ProfilesMatchGuard
    BY DEF QuiescentMatchesGuard
  <2>1. /\ AbsLLMQs = llmqs
        /\ AbsStatic("mnCount", lastCheckMnCount) = lastCheckMnCount
        /\ AbsStatic("height", lastCheckHeight) = lastCheckHeight
        /\ AbsStatic("low", lastCheckedLowLLMQParams) = lastCheckedLowLLMQParams
    BY QuiescentMapping
  <2>2. Atomic!LLMQTypes = Sel!LLMQTypes
    BY DEF Atomic!LLMQTypes, Sel!LLMQTypes
  <2>3. QED
    BY <2>1, <2>2, SameBaseline, SameSpecProfiles
       DEF Atomic!ProfilesMatchGuard, Sel!ProfilesMatchGuard
<1>2. QED
  BY <1>1, AbsGuard, PTL

(* Every branch of the selection names a profile for each adaptive type.  *)
LEMMA TierType ==
    ASSUME NEW net, NEW c, NEW h
    PROVE  \A w \in AdaptiveTypes : Sel!TierProfiles(net, c, h)[w] \in Sel!ProfileNames
BY DEF Sel!TierProfiles, Sel!Profiles3, Sel!ProfileNames, AdaptiveTypes

(* Type correctness of the statement-by-statement execution, whether the  *)
(* callers serialise or not: every assignment of the body writes a value  *)
(* of its static's type, or a profile to a key the map already has.        *)
THEOREM RaceTypeCorrect == Spec => []TypeOK
<1>1. Init => TypeOK
  <2> SUFFICES ASSUME Init PROVE TypeOK
    OBVIOUS
  <2>1. llmqs \in [Sel!LLMQTypes -> Sel!ProfileNames]
    BY DEF Init, Sel!Init, Sel!Networks, Sel!Baseline, Sel!MainLLMQs,
           Sel!TestLLMQs, Sel!DevNetLLMQs, Sel!RegTestLLMQs, Sel!LLMQTypes,
           Sel!ProfileNames
  <2>2. Sel!TypeOK
    BY <2>1 DEF Init, Sel!Init, Sel!TypeOK, Sel!Census
  <2>3. QED
    BY <2>2, BodyFacts DEF Init, Sel!Init, TypeOK, Sel!Census
<1>2. TypeOK /\ [Next]_vars => TypeOK'
  <2> SUFFICES ASSUME TypeOK, [Next]_vars PROVE TypeOK'
    OBVIOUS
  <2>1. ASSUME NEW t \in Threads, NEW c \in MnCounts, NEW h \in Heights,
               NEW low \in BOOLEAN, Call(t, c, h, low)
        PROVE  TypeOK'
    <3>1. census' \in Sel!Census
      BY <2>1 DEF Call, Sel!Census
    <3>2. QED
      BY <2>1, <3>1, BodyFacts DEF Call, TypeOK, Sel!TypeOK
  <2>2. ASSUME NEW t \in Threads, Assign(t) PROVE TypeOK'
    <3> DEFINE w == Body[pc[t]]
    <3>1. pc[t] \in 1..7 /\ arg[t] \in Sel!Census
      BY <2>2, BodyFacts DEF Assign, InCall, TypeOK
    <3>2. w \in {"mnCount", "low", "height", "LLMQ_50_60", "LLMQ_400_60",
                 "LLMQ_400_85", "override"}
      BY <3>1, BodyFacts
    <3>3. pc' \in [Threads -> 0..Len(Body)]
      BY <2>2, <3>1, BodyFacts DEF Assign, NextPc, TypeOK
    <3>4. llmqs' \in [Sel!LLMQTypes -> Sel!ProfileNames]
      <4>1. \A k \in AdaptiveTypes : TierOf(t)[k] \in Sel!ProfileNames
        BY TierType DEF TierOf
      <4>2. "llmq200_2" \in Sel!ProfileNames /\ AdaptiveTypes \subseteq Sel!LLMQTypes
        BY DEF Sel!ProfileNames, AdaptiveTypes, Sel!LLMQTypes
      <4>3. QED
        BY <2>2, <3>2, <4>1, <4>2 DEF Assign, TypeOK, Sel!TypeOK, AdaptiveTypes
    <3>5. QED
      BY <2>2, <3>1, <3>3, <3>4 DEF Assign, TypeOK, Sel!TypeOK, Sel!Census
  <2>3. CASE UNCHANGED vars
    BY <2>3 DEF TypeOK, Sel!TypeOK, vars
  <2>4. QED
    BY <2>1, <2>2, <2>3 DEF Next
<1>3. QED
  BY <1>1, <1>2, PTL DEF Spec
=============================================================================
