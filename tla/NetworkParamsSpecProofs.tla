----------------------- MODULE NetworkParamsSpecProofs -----------------------
(***************************************************************************)
(* Proof that construction returns the spec's select result: whenever      *)
(* CreateChainParams returns, the parameter set is SpecParams of the chain *)
(* name and the arguments, and no argument was malformed.  The proof       *)
(* follows the constructor step by step: after k steps the object holds    *)
(* the baseline with the overrides of those k steps applied, and the       *)
(* checks those steps make have passed.                                    *)
(***************************************************************************)
EXTENDS NetworkParamsProofs

\* Every int64_t value of the devnet options fits an int: the case in which
\* the narrowing of finding 3 cannot happen.
IntValuesFit == \A v \in IntValues : FitsInt(v)

\* Every -extcoinindex text is a whole number or no number at all: the case
\* in which the prefix acceptance of std::stoi (finding 7) cannot happen.
ExtCoinWholeText == \A t \in TokenValues : t.kind # "prefix"

\* The quorum block: the network's map and roles.
WithLLMQs(net, c) ==
    [c EXCEPT !.llmqs = Baseline(net),
              !.chainLocks = Roles(net).chainLocks,
              !.instantSend = Roles(net).instantSend,
              !.platform = "LLMQ_100_67"]

\* -extcoinindex as select applies it.
WithExtCoin(net, a, c) ==
    [c EXCEPT !.extCoinType =
        IF a.extcoinindex.set /\ a.extcoinindex.val.kind = "num"
        THEN a.extcoinindex.val.val ELSE ExtCoinDefault(net)]

\* An integer option as select applies it.
OrLo(o, dflt) == IF o.set THEN o.val.lo ELSE dflt

WithSubsidy(a, c) ==
    [c EXCEPT !.minDiff = OrLo(a.minimumdifficultyblocks, c.minDiff),
              !.highBlocks = OrLo(a.highsubsidyblocks, c.highBlocks),
              !.highFactor = OrLo(a.highsubsidyfactor, c.highFactor)]

WithBudget(a, c) ==
    LET v == a.budgetparams.val IN
    IF a.budgetparams.set
    THEN [c EXCEPT !.mnStart = v[1].val, !.budgetStart = v[2].val,
                   !.superblockStart = v[3].val]
    ELSE c

\* A role option as select applies it: the type whose profile has the name.
WithRole(net, o, f, c) ==
    [c EXCEPT ![f] = IF o.set THEN CHOOSE t \in LLMQTypes : Baseline(net)[t] = o.val
                     ELSE c[f]]

\* The object after the first k steps of the constructor of net.
Partial(net, a, k) ==
    LET b == BaselineFields(net)
        s3 == WithLLMQs(net, WithSubsidy(a, b))
        s4 == WithRole(net, a.llmqchainlocks, "chainLocks", s3)
    IN
    IF k = 0 THEN Fields(0, 0, 0, 0, 0)
    ELSE IF k = 1 THEN b
    ELSE IF net \in {"main", "test"}
    THEN IF k = 2 THEN WithExtCoin(net, a, b) ELSE WithLLMQs(net, WithExtCoin(net, a, b))
    ELSE IF net = "regtest"
    THEN IF k = 2 THEN WithBudget(a, b) ELSE WithLLMQs(net, WithBudget(a, b))
    ELSE IF k = 2 THEN WithSubsidy(a, b)
    ELSE IF k = 3 THEN s3
    ELSE IF k = 4 THEN s4
    ELSE WithRole(net, a.llmqinstantsend, "instantSend", s4)

\* A role name that some profile of the network's map has.
NameKnown(net, o) == ~o.set \/ o.val \in {Baseline(net)[t] : t \in LLMQTypes}

\* The checks of the first k steps have passed.
Passed(net, a, k) ==
    /\ (net \in {"main", "test"} /\ k >= 2) =>
           ~(a.extcoinindex.set /\ a.extcoinindex.val.kind # "empty"
             /\ ~ParsesInt32(a.extcoinindex.val))
    /\ (net = "regtest" /\ k >= 2 /\ a.budgetparams.set) =>
           /\ Len(a.budgetparams.val) = 3
           /\ \A i \in 1..3 : ParsesInt32(a.budgetparams.val[i])
    /\ (net = "devnet" /\ k >= 4) => NameKnown(net, a.llmqchainlocks)
    /\ (net = "devnet" /\ k >= 5) => NameKnown(net, a.llmqinstantsend)

\* The number of steps the constructor has completed.
Done == IF status = "building" THEN step - 1 ELSE step

(* Before dispatch the object is the default one; while a constructor    *)
(* runs or after it returned, the object is its first Done steps applied   *)
(* to the baseline, and the checks of those steps have passed; a          *)
(* constructor returns only after its last step.                           *)
MatchInv ==
    /\ NPInv
    /\ status = "dispatch" => cp = Fields(0, 0, 0, 0, 0)
    /\ status \in {"building", "installed"} =>
           /\ cp = Partial(chain, args, Done)
           /\ Passed(chain, args, Done)
    /\ status = "installed" => step = Len(Steps(chain))

-----------------------------------------------------------------------------
(* The baseline object of a constructor has the eleven fields.             *)
LEMMA BaselineDomain ==
    ASSUME NEW net \in Networks PROVE DOMAIN BaselineFields(net) = CpFields
BY DEF BaselineFields, MainFields, TestFields, DevNetFields, RegTestFields,
       Fields, CpFields, Networks

\* A function on exactly the eleven fields.
IsCpRecord(c) == c = [x \in CpFields |-> c[x]]

(* Replacing a field of such a record gives such a record.               *)
LEMMA ExceptRecord ==
    ASSUME NEW c, IsCpRecord(c), NEW k \in CpFields, NEW v
    PROVE  IsCpRecord([c EXCEPT ![k] = v])
BY DEF IsCpRecord

(* The same for three and four fields replaced at once.                  *)
LEMMA ExceptRecord3 ==
    ASSUME NEW c, IsCpRecord(c), NEW k1 \in CpFields, NEW k2 \in CpFields,
           NEW k3 \in CpFields, NEW v1, NEW v2, NEW v3
    PROVE  IsCpRecord([c EXCEPT ![k1] = v1, ![k2] = v2, ![k3] = v3])
<1>1. IsCpRecord([c EXCEPT ![k1] = v1])
  BY ExceptRecord
<1>2. IsCpRecord([[c EXCEPT ![k1] = v1] EXCEPT ![k2] = v2])
  BY <1>1, ExceptRecord
<1>3. QED
  BY <1>2, ExceptRecord

LEMMA ExceptRecord4 ==
    ASSUME NEW c, IsCpRecord(c), NEW k1 \in CpFields, NEW k2 \in CpFields,
           NEW k3 \in CpFields, NEW k4 \in CpFields, NEW v1, NEW v2, NEW v3, NEW v4
    PROVE  IsCpRecord([c EXCEPT ![k1] = v1, ![k2] = v2, ![k3] = v3, ![k4] = v4])
<1>1. IsCpRecord([c EXCEPT ![k1] = v1, ![k2] = v2, ![k3] = v3])
  BY ExceptRecord3
<1>2. QED
  BY <1>1, ExceptRecord

LEMMA ExceptRecord5 ==
    ASSUME NEW c, IsCpRecord(c), NEW k1 \in CpFields, NEW k2 \in CpFields,
           NEW k3 \in CpFields, NEW k4 \in CpFields, NEW k5 \in CpFields,
           NEW v1, NEW v2, NEW v3, NEW v4, NEW v5
    PROVE  IsCpRecord([c EXCEPT ![k1] = v1, ![k2] = v2, ![k3] = v3, ![k4] = v4,
                                ![k5] = v5])
<1>1. IsCpRecord([c EXCEPT ![k1] = v1, ![k2] = v2, ![k3] = v3, ![k4] = v4])
  BY ExceptRecord4
<1>2. QED
  BY <1>1, ExceptRecord

(* Two such records with the same fields are equal.                        *)
LEMMA RecordExt ==
    ASSUME NEW c, NEW d, IsCpRecord(c), IsCpRecord(d),
           \A x \in CpFields : c[x] = d[x]
    PROVE  c = d
BY DEF IsCpRecord

(* Each override applied by select keeps the object such a record.        *)
LEMMA WithRecords ==
    ASSUME NEW c, IsCpRecord(c), NEW net, NEW a, NEW o,
           NEW f \in {"chainLocks", "instantSend"}
    PROVE  /\ IsCpRecord(WithLLMQs(net, c))
           /\ IsCpRecord(WithSubsidy(a, c))
           /\ IsCpRecord(WithExtCoin(net, a, c))
           /\ IsCpRecord(WithBudget(a, c))
           /\ IsCpRecord(WithRole(net, o, f, c))
<1>0. /\ "llmqs" \in CpFields /\ "chainLocks" \in CpFields
      /\ "instantSend" \in CpFields /\ "platform" \in CpFields
      /\ "minDiff" \in CpFields /\ "highBlocks" \in CpFields
      /\ "highFactor" \in CpFields /\ "extCoinType" \in CpFields
      /\ "mnStart" \in CpFields /\ "budgetStart" \in CpFields
      /\ "superblockStart" \in CpFields /\ f \in CpFields
  BY DEF CpFields
<1>1. IsCpRecord(WithLLMQs(net, c))
  BY <1>0, ExceptRecord4 DEF WithLLMQs
<1>2. IsCpRecord(WithSubsidy(a, c))
  BY <1>0, ExceptRecord3 DEF WithSubsidy
<1>3. IsCpRecord(WithExtCoin(net, a, c))
  BY <1>0, ExceptRecord DEF WithExtCoin
<1>4. IsCpRecord(WithBudget(a, c))
  BY <1>0, ExceptRecord3 DEF WithBudget
<1>5. IsCpRecord(WithRole(net, o, f, c))
  BY <1>0, ExceptRecord DEF WithRole
<1>6. QED
  BY <1>1, <1>2, <1>3, <1>4, <1>5

(* The baseline of a constructor is such a record.                         *)
LEMMA BaselineRecord ==
    ASSUME NEW net \in Networks PROVE IsCpRecord(BaselineFields(net))
BY DEF BaselineFields, MainFields, TestFields, DevNetFields, RegTestFields,
       Fields, CpFields, Networks, IsCpRecord

(* After its last step a constructor's object is the one select returns.   *)
LEMMA PartialFinal ==
    ASSUME NEW net \in Networks, NEW a
    PROVE  Partial(net, a, Len(Steps(net))) = SpecParams(net, a)
<1> DEFINE b == BaselineFields(net)
<1>1. DOMAIN b = CpFields
  BY BaselineDomain
<1>2. CASE net \in {"main", "test"}
  <2>1. Len(Steps(net)) = 3
    BY <1>2, StepsFacts
  <2>2. Partial(net, a, 3) = WithLLMQs(net, WithExtCoin(net, a, b))
    BY <1>2 DEF Partial
  <2>3. WithLLMQs(net, WithExtCoin(net, a, b)) = SpecParams(net, a)
    BY <1>1, <1>2 DEF WithLLMQs, WithExtCoin, SpecParams, CpFields
  <2>4. QED
    BY <2>1, <2>2, <2>3
<1>3. CASE net = "regtest"
  <2>1. Len(Steps(net)) = 3
    BY <1>3, StepsFacts
  <2>2. Partial(net, a, 3) = WithLLMQs(net, WithBudget(a, b))
    BY <1>3 DEF Partial
  <2>3. WithLLMQs(net, WithBudget(a, b)) = SpecParams(net, a)
    BY <1>1, <1>3 DEF WithLLMQs, WithBudget, SpecParams, CpFields
  <2>4. QED
    BY <2>1, <2>2, <2>3
<1>4. CASE net = "devnet"
  <2>1. Len(Steps(net)) = 5
    BY <1>4, StepsFacts
  <2>2. Partial(net, a, 5) =
          WithRole(net, a.llmqinstantsend, "instantSend",
            WithRole(net, a.llmqchainlocks, "chainLocks",
              WithLLMQs(net, WithSubsidy(a, b))))
    BY <1>4 DEF Partial
  <2> DEFINE c2 == WithSubsidy(a, b)
             c3 == WithLLMQs(net, c2)
             c4 == WithRole(net, a.llmqchainlocks, "chainLocks", c3)
             c5 == WithRole(net, a.llmqinstantsend, "instantSend", c4)
             RN(o, dflt) == IF o.set THEN CHOOSE t \in LLMQTypes : Baseline(net)[t] = o.val
                            ELSE dflt
             b3 == WithLLMQs(net, b)
             sp == [b3 EXCEPT
                      !.minDiff = OrLo(a.minimumdifficultyblocks, b3.minDiff),
                      !.highBlocks = OrLo(a.highsubsidyblocks, b3.highBlocks),
                      !.highFactor = OrLo(a.highsubsidyfactor, b3.highFactor),
                      !.chainLocks = RN(a.llmqchainlocks, b3.chainLocks),
                      !.instantSend = RN(a.llmqinstantsend, b3.instantSend)]
  <2> HIDE DEF c2, c3, c4, c5, RN, b3, sp
  <2>3. IsCpRecord(b)
    BY BaselineRecord
  <2>4. IsCpRecord(c5)
    <3>1. IsCpRecord(c2) /\ IsCpRecord(b3)
      BY <2>3, WithRecords DEF c2, b3
    <3>2. IsCpRecord(c3)
      BY <3>1, WithRecords DEF c3
    <3>3. IsCpRecord(c4)
      BY <3>2, WithRecords DEF c4
    <3>4. QED
      BY <3>3, WithRecords DEF c5
  <2>5. IsCpRecord(sp)
    <3>1. IsCpRecord(b3)
      BY <2>3, WithRecords DEF b3
    <3>2. /\ "minDiff" \in CpFields /\ "highBlocks" \in CpFields
          /\ "highFactor" \in CpFields /\ "chainLocks" \in CpFields
          /\ "instantSend" \in CpFields
      BY DEF CpFields
    <3>3. QED
      BY <3>1, <3>2, ExceptRecord5 DEF sp
  <2>6. sp = SpecParams(net, a)
    BY <1>4 DEF SpecParams, WithLLMQs, sp, b3, RN, OrLo
  <2>7. \A x \in CpFields : c5[x] = sp[x]
    <3> DEFINE sub == {"minDiff", "highBlocks", "highFactor"}
               llm == {"llmqs", "chainLocks", "instantSend", "platform"}
    <3>1. IsCpRecord(c2) /\ IsCpRecord(c3) /\ IsCpRecord(c4) /\ IsCpRecord(b3)
      BY <2>3, WithRecords DEF c2, c3, c4, b3
    <3>2. /\ c2.minDiff = OrLo(a.minimumdifficultyblocks, b.minDiff)
          /\ c2.highBlocks = OrLo(a.highsubsidyblocks, b.highBlocks)
          /\ c2.highFactor = OrLo(a.highsubsidyfactor, b.highFactor)
          /\ \A x \in CpFields \ sub : c2[x] = b[x]
      BY <1>1 DEF c2, WithSubsidy, CpFields
    <3>3. /\ c3.llmqs = Baseline(net) /\ c3.chainLocks = Roles(net).chainLocks
          /\ c3.instantSend = Roles(net).instantSend /\ c3.platform = "LLMQ_100_67"
          /\ \A x \in CpFields \ llm : c3[x] = c2[x]
      BY <3>1 DEF c3, WithLLMQs, CpFields, IsCpRecord
    <3>4. /\ c4.chainLocks = RN(a.llmqchainlocks, Roles(net).chainLocks)
          /\ \A x \in CpFields \ {"chainLocks"} : c4[x] = c3[x]
      BY <3>1, <3>3 DEF c4, WithRole, RN, CpFields, IsCpRecord
    <3>5. /\ c5.instantSend = RN(a.llmqinstantsend, Roles(net).instantSend)
          /\ \A x \in CpFields \ {"instantSend"} : c5[x] = c4[x]
      BY <3>1, <3>3, <3>4 DEF c5, WithRole, RN, CpFields, IsCpRecord
    <3>6. /\ b3.llmqs = Baseline(net) /\ b3.chainLocks = Roles(net).chainLocks
          /\ b3.instantSend = Roles(net).instantSend /\ b3.platform = "LLMQ_100_67"
          /\ \A x \in CpFields \ llm : b3[x] = b[x]
      BY <1>1 DEF b3, WithLLMQs, CpFields
    <3>7. /\ sp.minDiff = OrLo(a.minimumdifficultyblocks, b.minDiff)
          /\ sp.highBlocks = OrLo(a.highsubsidyblocks, b.highBlocks)
          /\ sp.highFactor = OrLo(a.highsubsidyfactor, b.highFactor)
          /\ sp.chainLocks = RN(a.llmqchainlocks, Roles(net).chainLocks)
          /\ sp.instantSend = RN(a.llmqinstantsend, Roles(net).instantSend)
          /\ \A x \in CpFields \ (sub \cup {"chainLocks", "instantSend"}) : sp[x] = b3[x]
      BY <3>1, <3>6 DEF sp, CpFields, IsCpRecord
    <3>8. QED
      BY <3>2, <3>3, <3>4, <3>5, <3>6, <3>7 DEF CpFields
  <2>8. c5 = sp
    BY <2>4, <2>5, <2>7, RecordExt
  <2>9. QED
    BY <2>1, <2>2, <2>6, <2>8 DEF c2, c3, c4, c5
<1>5. QED
  BY <1>2, <1>3, <1>4 DEF Networks

(* With every option value an int and every check passed, select finds     *)
(* nothing malformed.                                                       *)
LEMMA OffendingEmpty ==
    ASSUME IntValuesFit, NEW net \in Networks, NEW a \in ArgSpace,
           Passed(net, a, Len(Steps(net)))
    PROVE  SpecOffending(net, a) = {}
<1>1. \A e \in {"minimumdifficultyblocks", "highsubsidyblocks", "highsubsidyfactor"} :
          a[e].set => a[e].val \in IntValues
  <2>1. \A e \in {"minimumdifficultyblocks", "highsubsidyblocks", "highsubsidyfactor"} :
            a[e] \in Opt(IntValues, [hi |-> 0, lo |-> 0])
    BY DEF ArgSpace
  <2>2. QED
    BY <2>1, OptVal
<1>2. CASE net \in {"main", "test"}
  BY <1>2, StepsFacts DEF Passed, SpecOffending, Networks
<1>3. CASE net = "regtest"
  <2>1. Len(Steps(net)) = 3
    BY <1>3, StepsFacts
  <2>2. QED
    BY <1>3, <2>1 DEF Passed, SpecOffending, Networks
<1>4. CASE net = "devnet"
  <2>1. Len(Steps(net)) = 5
    BY <1>4, StepsFacts
  <2>2. /\ NameKnown(net, a.llmqchainlocks) /\ NameKnown(net, a.llmqinstantsend)
    <3>1. Len(Steps(net)) >= 4 /\ Len(Steps(net)) >= 5
      BY <2>1
    <3>2. QED
      BY <1>4, <3>1, Zenon DEF Passed
  <2>3. \A e \in {"minimumdifficultyblocks", "highsubsidyblocks", "highsubsidyfactor"} :
          ~(a[e].set /\ ~FitsInt(a[e].val))
    BY <1>1 DEF IntValuesFit
  <2>4. QED
    BY <1>4, <2>2, <2>3 DEF NameKnown, SpecOffending, Networks
<1>5. QED
  BY <1>2, <1>3, <1>4 DEF Networks

(* The object after any number of steps is a record of the eleven fields. *)
LEMMA PartialRecord ==
    ASSUME NEW net \in Networks, NEW a, NEW k
    PROVE  IsCpRecord(Partial(net, a, k))
<1> DEFINE b == BaselineFields(net)
<1>1. IsCpRecord(b)
  BY BaselineRecord
<1>2. IsCpRecord(Fields(0, 0, 0, 0, 0))
  BY DEF Fields, IsCpRecord, CpFields
<1>3. /\ IsCpRecord(WithExtCoin(net, a, b))
      /\ IsCpRecord(WithBudget(a, b))
      /\ IsCpRecord(WithSubsidy(a, b))
  BY <1>1, WithRecords
<1>4. /\ IsCpRecord(WithLLMQs(net, WithExtCoin(net, a, b)))
      /\ IsCpRecord(WithLLMQs(net, WithBudget(a, b)))
      /\ IsCpRecord(WithLLMQs(net, WithSubsidy(a, b)))
  BY <1>3, WithRecords
<1>5. IsCpRecord(WithRole(net, a.llmqchainlocks, "chainLocks",
                          WithLLMQs(net, WithSubsidy(a, b))))
  BY <1>4, WithRecords
<1>6. IsCpRecord(WithRole(net, a.llmqinstantsend, "instantSend",
                 WithRole(net, a.llmqchainlocks, "chainLocks",
                          WithLLMQs(net, WithSubsidy(a, b)))))
  BY <1>5, WithRecords
<1>7. QED
  BY <1>1, <1>2, <1>3, <1>4, <1>5, <1>6 DEF Partial

(* A constructor step that moves on, leaving the object its first `step`   *)
(* steps applied and their checks passed, keeps the invariant.             *)
LEMMA AdvanceMatch ==
    ASSUME MatchInv, NPInv', chain \in Networks, status = "building",
           step \in 1..Len(Steps(chain)), UNCHANGED <<chain, args>>, Advance,
           cp' = Partial(chain, args, step), Passed(chain, args, step)
    PROVE  MatchInv'
<1>1. /\ status' \in {"building", "installed"}
      /\ status' = "building" => step' = step + 1
      /\ status' = "installed" => step' = step /\ step = Len(Steps(chain))
  BY AdvanceFacts DEF Advance
<1>2. Done' = step
  BY <1>1, StepsLength DEF Done
<1>3. QED
  BY <1>1, <1>2 DEF MatchInv

(* A step that throws keeps the invariant: only NPInv speaks of it.       *)
LEMMA ThrowMatch ==
    ASSUME NPInv', status' = "threw" PROVE MatchInv'
BY DEF MatchInv

(* The devnet map gives each quorum type its own profile, so the lookup   *)
(* loop's result, when it finds one, is the type select chooses.           *)
LEMMA DevNetLookup ==
    ASSUME NEW name, LookupType(Baseline("devnet"), name) # NoLLMQ
    PROVE  /\ LookupType(Baseline("devnet"), name) =
                  CHOOSE t \in LLMQTypes : Baseline("devnet")[t] = name
           /\ name \in {Baseline("devnet")[t] : t \in LLMQTypes}
<1> DEFINE m == Baseline("devnet")
           hits == {t \in DOMAIN m : m[t] = name}
           found == LookupType(m, name)
<1>1. m \in [LLMQTypes -> ProfileNames]
  BY BaselineType DEF Networks
<1>2. found \in hits
  BY <1>1, LookupTypeSpec
<1>3. \A t, u \in LLMQTypes : m[t] = m[u] => t = u
  BY DEF Baseline, DevNetLLMQs, LLMQTypes
<1>4. found \in LLMQTypes /\ m[found] = name
  BY <1>1, <1>2
<1>5. \A t \in LLMQTypes : m[t] = name => t = found
  BY <1>3, <1>4
<1>6. (CHOOSE t \in LLMQTypes : m[t] = name) = found
  BY <1>4, <1>5
<1>7. QED
  BY <1>4, <1>6

(* The invariant holds before CreateChainParams runs.                      *)
LEMMA InitMatch == Init => MatchInv
BY InitNPInv DEF Init, MatchInv

(* CreateChainParams starts the constructor with the default object.      *)
LEMMA CreateMatch == MatchInv /\ CreateChainParams => MatchInv'
<1> SUFFICES ASSUME MatchInv, CreateChainParams PROVE MatchInv'
  OBVIOUS
<1>1. NPInv'
  BY CreateNPInv DEF MatchInv
<1>2. CASE chain \in Networks
  <2>1. status' = "building" /\ step' = 1 /\ cp' = cp /\ UNCHANGED <<chain, args>>
    BY <1>2 DEF CreateChainParams
  <2>2. cp = Fields(0, 0, 0, 0, 0)
    BY DEF MatchInv, CreateChainParams
  <2>3. Done' = 0
    BY <2>1 DEF Done
  <2>4. cp' = Partial(chain', args', Done') /\ Passed(chain', args', Done')
    BY <2>1, <2>2, <2>3 DEF Partial, Passed
  <2>5. QED
    BY <1>1, <2>1, <2>4 DEF MatchInv
<1>3. CASE chain \notin Networks
  BY <1>1, <1>3, ThrowMatch DEF CreateChainParams
<1>4. QED
  BY <1>2, <1>3

(* The assignments of the constructor body give the baseline.              *)
LEMMA AssignFieldsMatch == MatchInv /\ AssignFields => MatchInv'
<1> SUFFICES ASSUME MatchInv, AssignFields PROVE MatchInv'
  OBVIOUS
<1>1. NPInv'
  BY AssignFieldsNPInv DEF MatchInv
<1>2. chain \in Networks /\ step = 1 /\ status = "building"
  BY AtFacts DEF AssignFields, At, MatchInv
<1>3. step \in 1..Len(Steps(chain))
  BY <1>2, StepsLength
<1>4. cp' = Partial(chain, args, step) /\ Passed(chain, args, step)
  BY <1>2 DEF AssignFields, Partial, Passed
<1>5. QED
  BY <1>1, <1>2, <1>3, <1>4, AdvanceMatch DEF AssignFields

(* The quorum block applied to the object of the first two steps gives    *)
(* the object of the first three, on every network.                        *)
LEMMA InstallMatch == MatchInv /\ InstallLLMQs => MatchInv'
<1> SUFFICES ASSUME MatchInv, InstallLLMQs PROVE MatchInv'
  OBVIOUS
<1>1. NPInv'
  BY InstallNPInv DEF MatchInv
<1>2. chain \in Networks /\ step = 3 /\ status = "building"
  BY AtFacts DEF InstallLLMQs, At, MatchInv
<1>3. step \in 1..Len(Steps(chain))
  <2>1. Len(Steps(chain)) \in 3..5
    BY <1>2, StepsLength
  <2>2. QED
    BY <1>2, <2>1
<1>4. Done = 2
  BY <1>2 DEF Done
<1>5. cp = Partial(chain, args, 2) /\ Passed(chain, args, 2)
  BY <1>2, <1>4 DEF MatchInv
<1>6. cp' = WithLLMQs(chain, cp)
  BY DEF InstallLLMQs, WithLLMQs
<1>7. WithLLMQs(chain, Partial(chain, args, 2)) = Partial(chain, args, 3)
  BY <1>2 DEF Partial, Networks
<1>8. Passed(chain, args, 3)
  BY <1>5 DEF Passed
<1>9. QED
  BY <1>1, <1>2, <1>3, <1>5, <1>6, <1>7, <1>8, AdvanceMatch DEF InstallLLMQs

(* The extcoin step sets the coin type select sets, unless it throws.      *)
LEMMA ExtCoinMatch ==
    ExtCoinWholeText => (MatchInv /\ ReadExtCoinIndex => MatchInv')
<1> SUFFICES ASSUME ExtCoinWholeText, MatchInv, ReadExtCoinIndex PROVE MatchInv'
  OBVIOUS
<1> DEFINE e == args.extcoinindex
           b == BaselineFields(chain)
<1>1. NPInv'
  BY ExtCoinNPInv DEF MatchInv
<1>2. chain \in {"main", "test"} /\ step = 2 /\ status = "building"
  BY AtFacts DEF ReadExtCoinIndex, At, MatchInv
<1>3. chain \in Networks /\ step \in 1..Len(Steps(chain))
  BY <1>2, StepsFacts DEF Networks
<1>4. cp = b
  BY <1>2 DEF MatchInv, Done, Partial
<1>8. e.set => e.val \in TokenValues /\ e.val \in Tokens
  BY OptVal, ArgsAssumption DEF MatchInv, NPInv, TypeOK, ArgSpace
<1>5. CASE e.set /\ e.val.kind # "empty" /\ ~ParsesInt32(e.val)
  <2>0. ~StoiParses(e.val)
    BY <1>5, <1>8, Zenon DEF ExtCoinWholeText, ParsesInt32, StoiParses
  <2>1. status' = "threw"
    BY <1>5, <2>0 DEF ReadExtCoinIndex, Throw
  <2>2. QED
    BY <1>1, <2>1, ThrowMatch
<1>6. CASE ~(e.set /\ e.val.kind # "empty" /\ ~ParsesInt32(e.val))
  <2>1. /\ cp' = WithExtCoin(chain, args, cp)
        /\ Advance /\ UNCHANGED <<chain, args>>
    <3>2. e.set /\ e.val.kind # "empty" => e.val.kind = "num"
      BY <1>6, <1>8 DEF ExtCoinWholeText, ParsesInt32
    <3>3. QED
      BY <1>6, <3>2 DEF ReadExtCoinIndex, WithExtCoin, StoiParses
  <2>2. Partial(chain, args, 2) = WithExtCoin(chain, args, b)
    BY <1>2 DEF Partial
  <2>3. Passed(chain, args, 2)
    BY <1>2, <1>6 DEF Passed
  <2>4. QED
    BY <1>1, <1>2, <1>3, <1>4, <2>1, <2>2, <2>3, AdvanceMatch
<1>7. QED
  BY <1>5, <1>6

(* The devnet subsidy step: each field through int is the low word select *)
(* keeps, and with no option set the early return leaves what select      *)
(* would have written anyway.                                              *)
LEMMA SubsidyMatch == MatchInv /\ ReadSubsidyArgs => MatchInv'
<1> SUFFICES ASSUME MatchInv, ReadSubsidyArgs PROVE MatchInv'
  OBVIOUS
<1> DEFINE b == BaselineFields(chain)
           md == args.minimumdifficultyblocks
           hb == args.highsubsidyblocks
           hf == args.highsubsidyfactor
<1>1. NPInv'
  BY SubsidyNPInv DEF MatchInv
<1>2. chain = "devnet" /\ step = 2 /\ status = "building"
  BY AtFacts DEF ReadSubsidyArgs, At, MatchInv
<1>3. chain \in Networks /\ step \in 1..Len(Steps(chain))
  BY <1>2, StepsFacts DEF Networks
<1>4. cp = b
  BY <1>2 DEF MatchInv, Done, Partial
<1>5. Partial(chain, args, 2) = WithSubsidy(args, b)
  BY <1>2 DEF Partial
<1>6. Passed(chain, args, 2)
  BY <1>2 DEF Passed
<1>7. Advance /\ UNCHANGED <<chain, args>>
  BY DEF ReadSubsidyArgs
<1>8. CASE ~md.set /\ ~hb.set /\ ~hf.set
  <2>1. cp' = b
    BY <1>4, <1>8 DEF ReadSubsidyArgs
  <2>2. IsCpRecord(b) /\ IsCpRecord(WithSubsidy(args, b))
    BY <1>3, BaselineRecord, WithRecords
  <2>3. \A x \in CpFields : WithSubsidy(args, b)[x] = b[x]
    BY <1>8, <2>2 DEF WithSubsidy, OrLo, CpFields, IsCpRecord
  <2>4. WithSubsidy(args, b) = b
    BY <2>2, <2>3, RecordExt
  <2>5. QED
    BY <1>1, <1>2, <1>3, <1>5, <1>6, <1>7, <2>1, <2>4, AdvanceMatch
<1>9. CASE ~(~md.set /\ ~hb.set /\ ~hf.set)
  <2>1. cp' = WithSubsidy(args, cp)
    BY <1>9 DEF ReadSubsidyArgs, WithSubsidy, OrLo, ToInt, Widen
  <2>2. QED
    BY <1>1, <1>2, <1>3, <1>4, <1>5, <1>6, <1>7, <2>1, AdvanceMatch
<1>10. QED
  BY <1>8, <1>9

(* A CASE some guard of which holds takes one of the arms whose guard     *)
(* holds.                                                                  *)
LEMMA CaseSome6 ==
    ASSUME NEW g1, NEW g2, NEW g3, NEW g4, NEW g5, NEW g6,
           NEW e1, NEW e2, NEW e3, NEW e4, NEW e5, NEW e6,
           g1 \/ g2 \/ g3 \/ g4 \/ g5 \/ g6,
           CASE g1 -> e1 [] g2 -> e2 [] g3 -> e3 [] g4 -> e4 [] g5 -> e5 [] g6 -> e6
    PROVE  (g1 /\ e1) \/ (g2 /\ e2) \/ (g3 /\ e3) \/ (g4 /\ e4) \/ (g5 /\ e5)
           \/ (g6 /\ e6)
OBVIOUS

(* The regtest budget step: with the option unset, or with all three      *)
(* fields parsed, the object is the one select builds; otherwise it throws. *)
LEMMA BudgetMatch == MatchInv /\ ReadBudgetArgs => MatchInv'
<1> SUFFICES ASSUME MatchInv, ReadBudgetArgs PROVE MatchInv'
  OBVIOUS
<1> DEFINE a == args.budgetparams
           v == a.val
           b == BaselineFields(chain)
<1>1. NPInv'
  BY BudgetNPInv DEF MatchInv
<1>2. chain = "regtest" /\ step = 2 /\ status = "building"
  BY AtFacts DEF ReadBudgetArgs, At, MatchInv
<1>3. chain \in Networks /\ step \in 1..Len(Steps(chain))
  BY <1>2, StepsFacts DEF Networks
<1>4. cp = b
  BY <1>2 DEF MatchInv, Done, Partial
<1>5. Partial(chain, args, 2) = WithBudget(args, b)
  BY <1>2 DEF Partial
<1>0. /\ UNCHANGED <<chain, args>>
      /\ CASE ~a.set -> UNCHANGED <<cp, err>> /\ Advance
           [] a.set /\ Len(v) # 3 -> Throw("budgetArity")
           [] a.set /\ Len(v) = 3 /\ ~ParsesInt32(v[1]) -> Throw("smartnodeStart")
           [] a.set /\ Len(v) = 3 /\ ParsesInt32(v[1]) /\ ~ParsesInt32(v[2]) ->
                  Throw("budgetStart")
           [] a.set /\ Len(v) = 3 /\ ParsesInt32(v[1]) /\ ParsesInt32(v[2])
                  /\ ~ParsesInt32(v[3]) -> Throw("superblockStart")
           [] a.set /\ Len(v) = 3 /\ \A i \in 1..3 : ParsesInt32(v[i]) ->
                  /\ cp' = [cp EXCEPT !.mnStart = v[1].val, !.budgetStart = v[2].val,
                                      !.superblockStart = v[3].val]
                  /\ Advance /\ UNCHANGED err
  BY DEF ReadBudgetArgs
<1>6. \/ ~a.set
      \/ a.set /\ Len(v) # 3
      \/ a.set /\ Len(v) = 3 /\ ~ParsesInt32(v[1])
      \/ a.set /\ Len(v) = 3 /\ ParsesInt32(v[1]) /\ ~ParsesInt32(v[2])
      \/ a.set /\ Len(v) = 3 /\ ParsesInt32(v[1]) /\ ParsesInt32(v[2])
            /\ ~ParsesInt32(v[3])
      \/ a.set /\ Len(v) = 3 /\ \A i \in 1..3 : ParsesInt32(v[i])
  <2>1. 1..3 = {1, 2, 3}
    OBVIOUS
  <2>2. QED
    BY <2>1
<1>7. \/ ~a.set /\ UNCHANGED <<cp, err>> /\ Advance
      \/ Throw("budgetArity") \/ Throw("smartnodeStart")
      \/ Throw("budgetStart") \/ Throw("superblockStart")
      \/ /\ a.set /\ Len(v) = 3 /\ \A i \in 1..3 : ParsesInt32(v[i])
         /\ cp' = [cp EXCEPT !.mnStart = v[1].val, !.budgetStart = v[2].val,
                             !.superblockStart = v[3].val]
         /\ Advance
  BY <1>0, <1>6, CaseSome6
<1>8. CASE ~a.set /\ UNCHANGED <<cp, err>> /\ Advance
  <2>1. WithBudget(args, b) = b
    BY <1>8 DEF WithBudget
  <2>2. Passed(chain, args, 2)
    BY <1>2, <1>8 DEF Passed
  <2>3. QED
    BY <1>0, <1>1, <1>2, <1>3, <1>4, <1>5, <1>8, <2>1, <2>2, AdvanceMatch
<1>9. CASE \/ Throw("budgetArity") \/ Throw("smartnodeStart")
           \/ Throw("budgetStart") \/ Throw("superblockStart")
  <2>1. status' = "threw"
    BY <1>9 DEF Throw
  <2>2. QED
    BY <1>1, <2>1, ThrowMatch
<1>10. CASE /\ a.set /\ Len(v) = 3 /\ \A i \in 1..3 : ParsesInt32(v[i])
            /\ cp' = [cp EXCEPT !.mnStart = v[1].val, !.budgetStart = v[2].val,
                                !.superblockStart = v[3].val]
            /\ Advance
  <2>1. cp' = WithBudget(args, b)
    BY <1>4, <1>10 DEF WithBudget
  <2>2. Passed(chain, args, 2)
    BY <1>2, <1>10 DEF Passed
  <2>3. QED
    BY <1>0, <1>1, <1>2, <1>3, <1>5, <1>10, <2>1, <2>2, AdvanceMatch
<1>11. QED
  BY <1>7, <1>8, <1>9, <1>10

(* The devnet role steps: the type the lookup loop finds is the one select *)
(* chooses, an unset option leaves the role as it is, and a name no       *)
(* profile has throws.                                                     *)
LEMMA RoleMatch ==
    ASSUME MatchInv, NEW name, NEW opt, NEW f,
           \/ name = "chainlocks" /\ opt = args.llmqchainlocks /\ f = "chainLocks"
           \/ name = "instantsend" /\ opt = args.llmqinstantsend /\ f = "instantSend",
           ReadRoleArg(name, opt, f)
    PROVE  MatchInv'
<1> DEFINE found == LookupType(cp.llmqs, opt.val)
           pick == CHOOSE t \in LLMQTypes : Baseline("devnet")[t] = opt.val
<1>1. NPInv'
  BY RoleNPInv DEF MatchInv
<1>2. /\ chain = "devnet" /\ status = "building"
      /\ name = "chainlocks" => step = 4
      /\ name = "instantsend" => step = 5
  BY AtFacts DEF ReadRoleArg, At, MatchInv
<1>3. chain \in Networks /\ step \in 1..Len(Steps(chain))
  <2>1. Len(Steps(chain)) = 5
    BY <1>2, StepsFacts
  <2>2. step \in {4, 5}
    BY <1>2
  <2>3. step \in 1..5
    BY <2>2
  <2>4. QED
    BY <1>2, <2>1, <2>3, Zenon DEF Networks
<1>4. UNCHANGED <<chain, args>>
  BY DEF ReadRoleArg
<1>5. /\ cp = Partial(chain, args, step - 1)
      /\ Passed(chain, args, step - 1)
      /\ cp.llmqs = Baseline("devnet")
  BY <1>2 DEF MatchInv, Done, NPInv
<1>6. /\ WithRole(chain, opt, f, cp) = Partial(chain, args, step)
      /\ NameKnown(chain, opt) => Passed(chain, args, step)
  <2>1. CASE name = "chainlocks"
    BY <1>2, <1>5, <2>1 DEF Partial, Passed
  <2>2. CASE name = "instantsend"
    BY <1>2, <1>5, <2>2 DEF Partial, Passed
  <2>3. QED
    BY <2>1, <2>2
<1>7. f \in CpFields
  BY DEF CpFields
<1>8. CASE ~opt.set
  <2>1. UNCHANGED cp /\ Advance
    BY <1>8 DEF ReadRoleArg
  <2>2. IsCpRecord(cp) /\ IsCpRecord(WithRole(chain, opt, f, cp))
    BY <1>3, <1>5, <1>7, PartialRecord, WithRecords
  <2>3. \A x \in CpFields : WithRole(chain, opt, f, cp)[x] = cp[x]
    BY <1>7, <1>8, <2>2 DEF WithRole, IsCpRecord
  <2>4. WithRole(chain, opt, f, cp) = cp
    BY <2>2, <2>3, RecordExt
  <2>5. NameKnown(chain, opt)
    BY <1>8 DEF NameKnown
  <2>6. QED
    BY <1>1, <1>2, <1>3, <1>4, <1>6, <2>1, <2>4, <2>5, AdvanceMatch DEF MatchInv
<1>9. CASE opt.set /\ (cp[f] \notin DOMAIN cp.llmqs \/ found = NoLLMQ)
  <2>1. status' = "threw"
    BY <1>9 DEF ReadRoleArg, Throw
  <2>2. QED
    BY <1>1, <2>1, ThrowMatch
<1>10. CASE opt.set /\ cp[f] \in DOMAIN cp.llmqs /\ found # NoLLMQ
  <2>1. cp' = [cp EXCEPT ![f] = found] /\ Advance
    BY <1>10 DEF ReadRoleArg
  <2>2. found = pick /\ opt.val \in {Baseline("devnet")[t] : t \in LLMQTypes}
    BY <1>5, <1>10, DevNetLookup
  <2>3. cp' = WithRole(chain, opt, f, cp)
    BY <1>2, <1>10, <2>1, <2>2 DEF WithRole
  <2>4. NameKnown(chain, opt)
    BY <1>2, <2>2 DEF NameKnown
  <2>5. QED
    BY <1>1, <1>2, <1>3, <1>4, <1>6, <2>1, <2>3, <2>4, AdvanceMatch DEF MatchInv
<1>11. QED
  BY <1>8, <1>9, <1>10

(* A step that changes nothing keeps the invariant.                        *)
LEMMA StutterMatch == MatchInv /\ UNCHANGED vars => MatchInv'
BY StutterNPInv DEF MatchInv, vars, Done

(* Every step of construction keeps the invariant.                         *)
LEMMA NextMatch == ExtCoinWholeText => (MatchInv /\ [Next]_vars => MatchInv')
<1> SUFFICES ASSUME ExtCoinWholeText, MatchInv, [Next]_vars PROVE MatchInv'
  OBVIOUS
<1>1. CASE ReadChainLocksArg
  BY <1>1, RoleMatch DEF ReadChainLocksArg
<1>2. CASE ReadInstantSendArg
  BY <1>2, RoleMatch DEF ReadInstantSendArg
<1>3. QED
  BY <1>1, <1>2, CreateMatch, AssignFieldsMatch, ExtCoinMatch, SubsidyMatch,
     BudgetMatch, InstallMatch, StutterMatch DEF Next

(* Spec section 4: when every devnet integer option fits an int and every *)
(* -extcoinindex text is a whole number or none, the parameter set        *)
(* CreateChainParams returns, and SelectParams installs, is the one       *)
(* select returns, and no argument the spec calls malformed got through.  *)
(* Without the first hypothesis the int64_t-to-int narrowing of the devnet *)
(* subsidy options breaks it (the narrowing run); without the second,     *)
(* std::stoi installs the leading number of "12abc" (the prefix run).      *)
THEOREM ConstructionCorrect ==
    IntValuesFit /\ ExtCoinWholeText => (Spec => []ConstructionMatchesSpec)
<1> SUFFICES ASSUME IntValuesFit, ExtCoinWholeText
             PROVE  Spec => []ConstructionMatchesSpec
  OBVIOUS
<1>1. MatchInv => ConstructionMatchesSpec
  <2> SUFFICES ASSUME MatchInv, status = "installed"
               PROVE  /\ SpecOffending(chain, args) = {}
                      /\ cp = SpecParams(chain, args)
    BY DEF ConstructionMatchesSpec
  <2>1. chain \in Networks /\ args \in ArgSpace
    BY DEF MatchInv, NPInv, TypeOK
  <2>2. Done = Len(Steps(chain))
    BY DEF MatchInv, Done
  <2>3. cp = Partial(chain, args, Len(Steps(chain)))
        /\ Passed(chain, args, Len(Steps(chain)))
    BY <2>2 DEF MatchInv
  <2>4. QED
    BY <2>1, <2>3, PartialFinal, OffendingEmpty
<1>2. QED
  BY <1>1, InitMatch, NextMatch, PTL DEF Spec
=============================================================================
