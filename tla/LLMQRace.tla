------------------------------ MODULE LLMQRace ------------------------------
(***************************************************************************)
(* CChainParams::UpdateLLMQParams called from several threads at once.     *)
(* The function takes no lock of its own: its guard reads the three        *)
(* file-scope statics and the profile map, and the body then writes them   *)
(* one statement at a time.  Each call is a thread here, and each          *)
(* assignment of the body a step of it:                                    *)
(*   1 lastCheckMnCount = totalMnCount                                     *)
(*   2 lastCheckedLowLLMQParams = lowLLMQParams                            *)
(*   3 lastCheckHeight = height                                            *)
(*   4 consensus.llmqs[LLMQ_50_60]  = <tier profile>                       *)
(*   5 consensus.llmqs[LLMQ_400_60] = <tier profile>                       *)
(*   6 consensus.llmqs[LLMQ_400_85] = <tier profile>                       *)
(*   7 if (lowLLMQParams) consensus.llmqs[LLMQ_50_60] = llmq200_2          *)
(* The keys of consensus.llmqs exist from construction on, so each write   *)
(* replaces a value and leaves the tree alone.  The profile a write stores *)
(* is a function of the call's arguments and of the network, both of which *)
(* no other thread changes.                                                *)
(*                                                                         *)
(* Serialised says whether the callers hold one lock around every call, as *)
(* spec section 5 requires of reconcilers; the code does not take one.     *)
(***************************************************************************)
EXTENDS Integers, Sequences

CONSTANTS
    Heights, MnCounts, DkgInterval, DkgMiningWindowStart, DkgMiningWindowEnd,
    IsQuorums200Active(_, _),
    Threads,     \* concurrent callers of UpdateLLMQParams
    Serialised   \* the callers serialise their calls

ASSUME SerialisedAssumption == Serialised \in BOOLEAN

VARIABLES
    network, llmqs, lastCheckMnCount, lastCheckHeight,
    lastCheckedLowLLMQParams, census,
    pc,    \* thread -> index of its next assignment, 0 when not in a call
    arg    \* thread -> the arguments of its call

Sel == INSTANCE LLMQParams

\* The assumptions LLMQParams makes of the constants it shares with this
\* module: positive heights, counts, a positive DKG interval per profile
\* (IsMiningPhase takes nHeight % dkgInterval) and a Boolean deployment test.
ASSUME RaceInputsAssumption ==
    /\ Heights \subseteq Nat \ {0}
    /\ MnCounts \subseteq Nat
    /\ DkgInterval \in [Sel!ProfileNames -> Nat \ {0}]
    /\ DkgMiningWindowStart \in [Sel!ProfileNames -> Nat]
    /\ DkgMiningWindowEnd \in [Sel!ProfileNames -> Nat]
    /\ \A n \in Sel!Networks, h \in Heights : IsQuorums200Active(n, h) \in BOOLEAN

vars == <<network, llmqs, lastCheckMnCount, lastCheckHeight,
          lastCheckedLowLLMQParams, census, pc, arg>>

\* Mutant: the low override assigned before the tier profiles.
BodyOverrideFirst == <<"mnCount", "low", "height", "override", "LLMQ_50_60",
                       "LLMQ_400_60", "LLMQ_400_85">>

\* The assignments of the body, in program order.
Body == <<"mnCount", "low", "height", "LLMQ_50_60", "LLMQ_400_60",
          "LLMQ_400_85", "override">>

InCall(t) == pc[t] # 0

-----------------------------------------------------------------------------
Init ==
    /\ Sel!Init
    /\ pc = [t \in Threads |-> 0]
    /\ arg = [t \in Threads |-> census]

\* Mutant: the mining-phase conjunct of the guard dropped.
CallNoMiningCheck(t, totalMnCount, height, lowLLMQParams) ==
    /\ ~InCall(t)
    /\ Serialised => \A u \in Threads : ~InCall(u)
    /\ census' = [mnCount |-> totalMnCount, height |-> height,
                  low |-> lowLLMQParams]
    /\ arg' = [arg EXCEPT ![t] = census']
    /\ pc' = [pc EXCEPT ![t] =
                 IF /\ lastCheckHeight < height
                    /\ \/ lastCheckMnCount # totalMnCount
                       \/ lastCheckedLowLLMQParams # lowLLMQParams
                 THEN 1 ELSE 0]
    /\ UNCHANGED <<network, llmqs, lastCheckMnCount, lastCheckHeight,
                   lastCheckedLowLLMQParams>>

\* A caller enters UpdateLLMQParams and evaluates the condition of its if
\* on the statics and the map as they are now.  If it fails the call
\* returns at once; otherwise the thread goes on to the body.
Call(t, totalMnCount, height, lowLLMQParams) ==
    /\ ~InCall(t)
    /\ Serialised => \A u \in Threads : ~InCall(u)
    /\ census' = [mnCount |-> totalMnCount, height |-> height,
                  low |-> lowLLMQParams]
    /\ arg' = [arg EXCEPT ![t] = census']
    /\ pc' = [pc EXCEPT ![t] =
                 IF Sel!ShouldUpdate(totalMnCount, height, lowLLMQParams)
                 THEN 1 ELSE 0]
    /\ UNCHANGED <<network, llmqs, lastCheckMnCount, lastCheckHeight,
                   lastCheckedLowLLMQParams>>

\* The tier profiles of a call, before the low override.
TierOf(t) == Sel!TierProfiles(network, arg[t].mnCount, arg[t].height)

\* Mutant: the last assignment does not end the call.
NextPcNoReturn(t) == pc[t] + 1

\* The index after an assignment; after the last one the call returns.
NextPc(t) == IF pc[t] = Len(Body) THEN 0 ELSE pc[t] + 1

\* One assignment of the body of thread t.
Assign(t) ==
    LET w == Body[pc[t]]
    IN  /\ InCall(t)
        /\ pc' = [pc EXCEPT ![t] = NextPc(t)]
        /\ lastCheckMnCount' =
               IF w = "mnCount" THEN arg[t].mnCount ELSE lastCheckMnCount
        /\ lastCheckedLowLLMQParams' =
               IF w = "low" THEN arg[t].low ELSE lastCheckedLowLLMQParams
        /\ lastCheckHeight' =
               IF w = "height" THEN arg[t].height ELSE lastCheckHeight
        /\ llmqs' =
               CASE w \in {"LLMQ_50_60", "LLMQ_400_60", "LLMQ_400_85"} ->
                        [llmqs EXCEPT ![w] = TierOf(t)[w]]
                 [] w = "override" /\ arg[t].low ->
                        [llmqs EXCEPT !["LLMQ_50_60"] = "llmq200_2"]
                 [] OTHER -> llmqs
        /\ UNCHANGED <<network, census, arg>>

Next ==
    \E t \in Threads :
        \/ \E c \in MnCounts, h \in Heights, low \in BOOLEAN : Call(t, c, h, low)
        \/ Assign(t)

Spec == Init /\ [][Next]_vars

-----------------------------------------------------------------------------
TypeOK ==
    /\ Sel!TypeOK
    /\ pc \in [Threads -> 0..Len(Body)]
    /\ arg \in [Threads -> Sel!Census]

(* The state the atomic selector of LLMQParams is in: a call inside its    *)
(* body counts as already applied, with every assignment it has left.     *)
Writers == {t \in Threads : InCall(t)}

Applied(t) ==
    Sel!ApplyProfiles(llmqs, Sel!NewProfiles(network, arg[t].mnCount,
                                             arg[t].height, arg[t].low))

Writer == CHOOSE t \in Writers : TRUE

AbsLLMQs == IF Writers = {} THEN llmqs ELSE Applied(Writer)

AbsStatic(field, static) == IF Writers = {} THEN static ELSE arg[Writer][field]

Atomic == INSTANCE LLMQParamsProofs WITH
    llmqs <- AbsLLMQs,
    lastCheckMnCount <- AbsStatic("mnCount", lastCheckMnCount),
    lastCheckHeight <- AbsStatic("height", lastCheckHeight),
    lastCheckedLowLLMQParams <- AbsStatic("low", lastCheckedLowLLMQParams)

(* Spec section 5: with the calls serialised, the statement-by-statement   *)
(* execution of UpdateLLMQParams implements the atomic reconciliation of   *)
(* LLMQParams: every call is one step of it at the moment its guard is     *)
(* read, and the assignments after it are stutters.                        *)
ImplementsAtomic == Atomic!Spec

(* Spec section 5 asks that two reconcilers never both act on a stale      *)
(* lastCheckHeight: whenever no call is inside the body, the profile map   *)
(* is the one the policy selects for the census the statics record.       *)
QuiescentMatchesGuard == Writers = {} => Sel!ProfilesMatchGuard
=============================================================================
