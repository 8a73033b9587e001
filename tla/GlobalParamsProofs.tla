------------------------- MODULE GlobalParamsProofs -------------------------
(***************************************************************************)
(* Proofs about GlobalParams, under every order of calls: the state stays  *)
(* well typed, and undefined behaviour and a base that disagrees with the  *)
(* installed parameter set arise only from the two misuses the spec       *)
(* forbids, a re-selection and a call before selection.                   *)
(***************************************************************************)
EXTENDS GlobalParams, TLAPS

-----------------------------------------------------------------------------
(* Type correctness, for every protocol.                                   *)

(* The initial state is well typed.                                       *)
LEMMA GlobalTypeInit == Init => TypeOK
<1> SUFFICES ASSUME Init PROVE TypeOK
  OBVIOUS
<1> USE DEF Init, NoObject, Objects
<1>1. chainOf \in [Objects -> Networks \cup {"none"}]
  OBVIOUS
<1>2. held \in [Holders -> Objects \cup {NoObject}]
  OBVIOUS
<1>3. selections \in 0..MaxSelections
  BY GlobalAssumption
<1>4. QED
  BY <1>1, <1>2, <1>3 DEF TypeOK

(* Every step keeps the state well typed.                                  *)
LEMMA GlobalTypeStep == TypeOK /\ [Next]_vars => TypeOK'
<1> SUFFICES ASSUME TypeOK, [Next]_vars PROVE TypeOK'
  OBVIOUS
<1>1. ASSUME NEW network \in Networks, NEW constructed \in BOOLEAN,
             SelectParams(network, constructed)
      PROVE  TypeOK'
  \* The new object's identity is the call's number, within the bound.
  <2>1. selections + 1 \in Objects /\ selections' \in 0..MaxSelections
    BY <1>1, GlobalAssumption DEF SelectParams, TypeOK, Objects
  <2>2. chainOf' \in [Objects -> Networks \cup {"none"}]
    BY <1>1, <2>1 DEF SelectParams, TypeOK
  <2>3. globalChainParams' \in Objects \cup {NoObject} /\ live' \subseteq Objects
    BY <1>1, <2>1 DEF SelectParams, TypeOK
  <2>4. QED
    BY <1>1, <2>1, <2>2, <2>3 DEF SelectParams, TypeOK
<1>2. ASSUME NEW h \in Holders, Params(h) PROVE TypeOK'
  <2>1. held' \in [Holders -> Objects \cup {NoObject}]
    BY <1>2 DEF Params, TypeOK
  <2>2. QED
    BY <1>2, <2>1 DEF Params, TypeOK
<1>3. ASSUME NEW h \in Holders, UseParams(h) PROVE TypeOK'
  <2>1. held' \in [Holders -> Objects \cup {NoObject}]
    BY <1>3 DEF UseParams, TypeOK
  <2>2. QED
    BY <1>3, <2>1 DEF UseParams, TypeOK
<1>4. CASE UpdateLLMQParams
  BY <1>4 DEF UpdateLLMQParams, TypeOK, NoObject
<1>5. CASE UNCHANGED vars
  BY <1>5 DEF vars, TypeOK
<1>6. QED
  BY <1>1, <1>2, <1>3, <1>4, <1>5 DEF Next

(* Whatever order SelectParams, Params(), Updates(), the use of a kept     *)
(* reference and the free UpdateLLMQParams are called in, every variable   *)
(* keeps its type: object identities stay within the SelectParams calls    *)
(* made.                                                                   *)
THEOREM GlobalTypeCorrect == Spec => []TypeOK
BY GlobalTypeInit, GlobalTypeStep, PTL DEF Spec

-----------------------------------------------------------------------------
(* Any order of calls.                                                     *)

(* The inductive invariant for every protocol: the unique_ptr owns the     *)
(* only live object, which some selection built, every reference was      *)
(* handed out by some selection, and before a second selection every       *)
(* reference points into the installed object.                            *)
FreeInv ==
    /\ TypeOK
    /\ started <=> globalChainParams # NoObject
    /\ globalChainParams # NoObject =>
           globalChainParams \in live /\ globalChainParams <= selections
    /\ live \subseteq {globalChainParams}
    /\ \A h \in Holders : held[h] <= selections
    /\ selections <= 1 =>
           \A h \in Holders : held[h] \in {NoObject, globalChainParams}
    /\ MisuseOnly

(* The initial state satisfies FreeInv.                                    *)
LEMMA FreeInit == Init => FreeInv
<1> SUFFICES ASSUME Init PROVE FreeInv
  OBVIOUS
<1>1. TypeOK
  BY GlobalTypeInit
<1>2. QED
  BY <1>1 DEF Init, FreeInv, MisuseOnly, NoObject

(* Every step, under every protocol, preserves FreeInv.                    *)
LEMMA FreeStep == FreeInv /\ [Next]_vars => FreeInv'
<1> SUFFICES ASSUME FreeInv, [Next]_vars PROVE FreeInv'
  OBVIOUS
<1>1. TypeOK'
  BY GlobalTypeStep DEF FreeInv
<1>2. ASSUME NEW network \in Networks, NEW constructed \in BOOLEAN,
             SelectParams(network, constructed)
      PROVE  FreeInv'
  \* Nothing has gone wrong; a reference handed out before this call has
  \* a number no larger than the calls before it.
  <2>1. fault = "none" /\ fault' = "none" /\ selections' = selections + 1
    BY <1>2 DEF SelectParams, Running
  <2>2. selections' <= 1 => \A h \in Holders : held[h] = NoObject
    BY <1>2, <2>1 DEF SelectParams, FreeInv, TypeOK, NoObject, Objects
  <2>3. CASE constructed
    \* The new object replaces the old one, which is destroyed.
    <3>1. /\ globalChainParams' = selections + 1
          /\ live' = {selections + 1} /\ started'
      BY <1>2, <2>3 DEF SelectParams, FreeInv
    \* The base and the new object both name the network selected.
    <3>2. base' = chainOf'[globalChainParams']
      <4>1. selections + 1 \in Objects /\ chainOf \in [Objects -> Networks \cup {"none"}]
        BY <1>2, GlobalAssumption DEF SelectParams, FreeInv, TypeOK, Objects
      <4>2. QED
        BY <1>2, <2>3, <3>1, <4>1 DEF SelectParams
    <3>3. QED
      BY <1>1, <1>2, <2>1, <2>2, <3>1, <3>2
      DEF SelectParams, FreeInv, MisuseOnly, TypeOK, NoObject, Objects
  <2>4. CASE ~constructed
    BY <1>1, <1>2, <2>1, <2>2, <2>4
    DEF SelectParams, FreeInv, MisuseOnly, TypeOK, NoObject, Objects
  <2>5. QED
    BY <2>3, <2>4
<1>3. ASSUME NEW h \in Holders, Params(h) PROVE FreeInv'
  BY <1>1, <1>3 DEF Params, FreeInv, MisuseOnly, TypeOK, Running, NoObject,
                    Objects
<1>4. ASSUME NEW h \in Holders, UseParams(h) PROVE FreeInv'
  \* Before a second selection the reference points into the live object.
  <2>1. selections <= 1 => held[h] \in live
    BY <1>4 DEF UseParams, FreeInv, TypeOK, NoObject
  <2>2. fault' = "dangling" => selections >= 2
    BY <1>4, <2>1 DEF UseParams, FreeInv, TypeOK, Objects
  <2>3. QED
    BY <1>1, <1>4, <2>2 DEF UseParams, FreeInv, MisuseOnly, TypeOK, Running,
                            NoObject, Objects
<1>5. CASE UpdateLLMQParams
  BY <1>1, <1>5 DEF UpdateLLMQParams, FreeInv, MisuseOnly, TypeOK, Running,
                    NoObject, Objects
<1>6. CASE UNCHANGED vars
  BY <1>6 DEF vars, FreeInv, MisuseOnly, TypeOK
<1>7. QED
  BY <1>2, <1>3, <1>4, <1>5, <1>6 DEF Next

(* Whatever order the callers use, for any number of holders and any bound *)
(* on selections: a Params() or Updates() reference is read after its      *)
(* object died, or the base parameters name another network than the      *)
(* installed object, only once SelectParams has been called twice, and the *)
(* free UpdateLLMQParams dereferences a null pointer only before any       *)
(* selection returned.  The global_dangling run shows the first reachable. *)
THEOREM UndefinedOnlyFromMisuse == Spec => []MisuseOnly
<1>1. FreeInv => MisuseOnly
  BY DEF FreeInv
<1>2. QED
  BY <1>1, FreeInit, FreeStep, PTL DEF Spec
=============================================================================
