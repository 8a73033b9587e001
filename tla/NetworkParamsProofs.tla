------------------------- MODULE NetworkParamsProofs -------------------------
(***************************************************************************)
(* Proofs about NetworkParams, for every set of chain names and argument   *)
(* values that meets its assumption.                                       *)
(***************************************************************************)
EXTENDS NetworkParams, TLAPS

(* What the constructor has established at each step: a constructor runs *)
(* only for a known chain and inside its list of steps; once the devnet    *)
(* constructor has installed its quorum map, the map is the baseline and   *)
(* both roles name a type of it; and whatever was thrown names a field the *)
(* spec calls malformed.                                                   *)
\* The consensus fields the model keeps.
CpFields ==
    {"mnStart", "budgetStart", "superblockStart", "minDiff", "highBlocks",
     "highFactor", "extCoinType", "llmqs", "chainLocks", "instantSend", "platform"}

NPInv ==
    /\ TypeOK
    /\ DOMAIN cp = CpFields
    /\ status \in {"building", "installed"} =>
           chain \in Networks /\ step \in 1..Len(Steps(chain))
    /\ (status = "building" /\ chain = "devnet" /\ step > 3) =>
           /\ cp.llmqs = Baseline("devnet")
           /\ cp.chainLocks \in LLMQTypes
           /\ cp.instantSend \in LLMQTypes
    /\ status = "threw" => err \in SpecOffending(chain, args)

(* The argument-reading steps of each constructor, by index.               *)
LEMMA StepsFacts ==
    /\ Len(Steps("main")) = 3 /\ Len(Steps("test")) = 3
    /\ Len(Steps("devnet")) = 5 /\ Len(Steps("regtest")) = 3
    /\ Steps("main") = <<"fields", "extcoin", "llmqs">>
    /\ Steps("test") = <<"fields", "extcoin", "llmqs">>
    /\ Steps("devnet") = <<"fields", "subsidy", "llmqs", "chainlocks", "instantsend">>
    /\ Steps("regtest") = <<"fields", "budget", "llmqs">>
BY DEF Steps, MainSteps, TestSteps, DevNetSteps, RegTestSteps

(* The lookup loop of the role readers returns a type whose profile has    *)
(* the name when there is one, and LLMQ_NONE only when there is none.      *)
LEMMA LookupTypeSpec ==
    ASSUME NEW map, DOMAIN map \subseteq LLMQTypes, NEW name
    PROVE  LET hits == {t \in DOMAIN map : map[t] = name}
           IN  /\ hits = {} => LookupType(map, name) = NoLLMQ
               /\ hits # {} => LookupType(map, name) \in hits
<1> DEFINE hits == {t \in DOMAIN map : map[t] = name}
<1>1. hits = {} => LookupType(map, name) = NoLLMQ
  BY DEF LookupType
<1>2. ASSUME hits # {}
      PROVE  \E t \in hits : \A u \in hits : TypeOrder[u] <= TypeOrder[t]
  <2>1. \A u \in LLMQTypes : TypeOrder[u] \in 1..4
    BY DEF TypeOrder, LLMQTypes
  <2>2. CASE "LLMQ_100_67" \in hits
    BY <2>1, <2>2 DEF TypeOrder, LLMQTypes
  <2>3. CASE "LLMQ_100_67" \notin hits /\ "LLMQ_400_85" \in hits
    BY <2>3 DEF TypeOrder, LLMQTypes
  <2>4. CASE "LLMQ_100_67" \notin hits /\ "LLMQ_400_85" \notin hits
             /\ "LLMQ_400_60" \in hits
    BY <2>4 DEF TypeOrder, LLMQTypes
  <2>5. CASE "LLMQ_100_67" \notin hits /\ "LLMQ_400_85" \notin hits
             /\ "LLMQ_400_60" \notin hits
    <3>1. hits = {"LLMQ_50_60"}
      BY <1>2, <2>5 DEF LLMQTypes
    <3>2. QED
      BY <3>1 DEF TypeOrder, LLMQTypes
  <2>6. QED
    BY <2>2, <2>3, <2>4, <2>5
<1>3. QED
  BY <1>1, <1>2 DEF LookupType

(* INT_MAX is a natural above every field a constructor assigns.  The     *)
(* proofs use this and never the literal, so that no interval with its     *)
(* bounds is expanded.                                                     *)
LEMMA IntMaxFacts == INT_MAX \in Nat /\ 20000 <= INT_MAX
BY DEF INT_MAX

(* Every constructor's list of steps has at least three.                   *)
LEMMA StepsLength ==
    ASSUME NEW net \in Networks PROVE Len(Steps(net)) \in 3..5
BY StepsFacts DEF Networks

(* The fields a constructor assigns are ints.                              *)
LEMMA BaselineFieldsType ==
    ASSUME NEW net \in Networks
    PROVE  /\ \A f \in {"mnStart", "budgetStart", "superblockStart", "minDiff",
                        "highBlocks", "highFactor", "extCoinType"} :
                  BaselineFields(net)[f] \in Int32
           /\ DOMAIN BaselineFields(net).llmqs = {}
           /\ BaselineFields(net).chainLocks = NoLLMQ
           /\ BaselineFields(net).instantSend = NoLLMQ
           /\ BaselineFields(net).platform = NoLLMQ
<1>1. ParamsDefaults \in [minDiff : Int32, highBlocks : Int32, highFactor : Int32]
  BY ArgsAssumption
<1>2. QED
  BY <1>1, IntMaxFacts DEF BaselineFields, MainFields, TestFields,
     DevNetFields, RegTestFields, Fields, Networks, Int32

(* The invariant holds before CreateChainParams runs.                      *)
LEMMA InitNPInv == Init => NPInv
<1> SUFFICES ASSUME Init PROVE NPInv
  OBVIOUS
<1>1. ParamsDefaults \in [minDiff : Int32, highBlocks : Int32, highFactor : Int32]
  BY ArgsAssumption
<1>2. 0 \in Int32
  BY IntMaxFacts DEF Int32
<1>3. \A net \in Networks : Len(Steps(net)) \in Nat
  BY StepsFacts DEF Networks
<1>4. step \in 0..(IF chain \in Networks THEN Len(Steps(chain)) ELSE 0)
  BY <1>3 DEF Init
<1>5. \A f \in {"mnStart", "budgetStart", "superblockStart", "minDiff",
               "highBlocks", "highFactor", "extCoinType"} : cp[f] \in Int32
  BY <1>1, <1>2 DEF Init, Fields
<1>6. /\ DOMAIN cp.llmqs \subseteq LLMQTypes
      /\ \A t \in DOMAIN cp.llmqs : cp.llmqs[t] \in ProfileNames
      /\ \A f \in {"chainLocks", "instantSend", "platform"} :
             cp[f] \in LLMQTypes \cup {NoLLMQ}
  BY DEF Init, Fields
<1>7. DOMAIN cp = CpFields
  BY DEF Init, Fields, CpFields
<1>8. QED
  BY <1>4, <1>5, <1>6, <1>7 DEF Init, NPInv, TypeOK, Errors

(* Where each step runs: the network and the index of the step.            *)
LEMMA AtFacts ==
    ASSUME NPInv
    PROVE  /\ At("fields") => chain \in Networks /\ step = 1
           /\ At("extcoin") => chain \in {"main", "test"} /\ step = 2
           /\ At("subsidy") => chain = "devnet" /\ step = 2
           /\ At("budget") => chain = "regtest" /\ step = 2
           /\ At("llmqs") => chain \in Networks /\ step = 3
           /\ At("chainlocks") => chain = "devnet" /\ step = 4
           /\ At("instantsend") => chain = "devnet" /\ step = 5
<1>1. At("fields") \/ At("extcoin") \/ At("subsidy") \/ At("budget")
      \/ At("llmqs") \/ At("chainlocks") \/ At("instantsend")
      => /\ chain \in Networks /\ step \in 1..Len(Steps(chain))
         /\ Steps(chain)[step] \in {"fields", "extcoin", "subsidy", "budget",
                                   "llmqs", "chainlocks", "instantsend"}
  BY DEF At, NPInv
<1>2. QED
  BY <1>1, StepsFacts DEF At, Networks

(* Advance moves to the next step of the constructor, or returns it after *)
(* its last.                                                               *)
LEMMA AdvanceFacts ==
    ASSUME NEW net \in Networks, chain = net, status = "building",
           step \in 1..Len(Steps(net)), Advance
    PROVE  /\ status' \in {"building", "installed"}
           /\ step' \in 1..Len(Steps(net))
           /\ status' = "building" => step' = step + 1
           /\ status' = "installed" => step = Len(Steps(net))
BY StepsFacts DEF Advance, Networks

(* Every network constructor installs a profile for every quorum type.     *)
LEMMA BaselineType ==
    ASSUME NEW net \in Networks
    PROVE  /\ Baseline(net) \in [LLMQTypes -> ProfileNames]
           /\ Roles(net).chainLocks \in LLMQTypes
           /\ Roles(net).instantSend \in LLMQTypes
BY DEF Baseline, MainLLMQs, TestLLMQs, DevNetLLMQs, RegTestLLMQs, Roles,
       Networks, LLMQTypes, ProfileNames

(* CreateChainParams: a known name starts its constructor at step 1, and  *)
(* an unknown one throws, which the spec rejects too.                      *)
LEMMA CreateNPInv == NPInv /\ CreateChainParams => NPInv'
<1> SUFFICES ASSUME NPInv, CreateChainParams PROVE NPInv'
  OBVIOUS
<1>1. CASE chain \in Networks
  <2>1. 1 \in 1..Len(Steps(chain))
    BY <1>1, StepsLength
  <2>2. QED
    BY <1>1, <2>1 DEF CreateChainParams, NPInv, TypeOK
<1>2. CASE chain \notin Networks
  <2>1. SpecOffending(chain, args) = {"unknownChain"}
    BY <1>2 DEF SpecOffending, Networks
  <2>2. QED
    BY <1>2, <2>1 DEF CreateChainParams, NPInv, TypeOK, Errors
<1>3. QED
  BY <1>1, <1>2

(* The assignments of the constructor body: the baseline fields, ints,    *)
(* with no quorum map yet.                                                 *)
LEMMA AssignFieldsNPInv == NPInv /\ AssignFields => NPInv'
<1> SUFFICES ASSUME NPInv, AssignFields PROVE NPInv'
  OBVIOUS
<1>1. chain \in Networks /\ step = 1 /\ status = "building"
  BY AtFacts DEF AssignFields, At
<1>2. step \in 1..Len(Steps(chain))
  BY <1>1, StepsLength
<1>3. /\ status' \in {"building", "installed"}
      /\ step' \in 1..Len(Steps(chain))
      /\ status' = "building" => step' = 2
  BY <1>1, <1>2, AdvanceFacts DEF AssignFields
<1>4. /\ \A f \in {"mnStart", "budgetStart", "superblockStart", "minDiff",
                  "highBlocks", "highFactor", "extCoinType"} : cp'[f] \in Int32
      /\ DOMAIN cp'.llmqs = {}
      /\ \A f \in {"chainLocks", "instantSend", "platform"} : cp'[f] = NoLLMQ
  BY <1>1, BaselineFieldsType DEF AssignFields
<1>5. DOMAIN cp' = CpFields
  BY <1>1 DEF AssignFields, BaselineFields, MainFields, TestFields,
     DevNetFields, RegTestFields, Fields, CpFields, Networks
<1>6. QED
  BY <1>1, <1>3, <1>4, <1>5 DEF AssignFields, NPInv, TypeOK

(* The quorum block installs the network's map and roles; on devnet the    *)
(* role readers come after it.                                             *)
LEMMA InstallNPInv == NPInv /\ InstallLLMQs => NPInv'
<1> SUFFICES ASSUME NPInv, InstallLLMQs PROVE NPInv'
  OBVIOUS
<1>1. chain \in Networks /\ step = 3 /\ status = "building"
  BY AtFacts DEF InstallLLMQs, At
<1>2. step \in 1..Len(Steps(chain))
  <2>1. Len(Steps(chain)) \in 3..5
    BY <1>1, StepsLength
  <2>2. QED
    BY <1>1, <2>1
<1>3. /\ status' \in {"building", "installed"}
      /\ step' \in 1..Len(Steps(chain))
      /\ status' = "building" => step' = 4
  BY <1>1, <1>2, AdvanceFacts DEF InstallLLMQs
<1>4. /\ Baseline(chain) \in [LLMQTypes -> ProfileNames]
      /\ Roles(chain).chainLocks \in LLMQTypes
      /\ Roles(chain).instantSend \in LLMQTypes
  BY <1>1, BaselineType
<1>5. /\ cp'.llmqs = Baseline(chain)
      /\ cp'.chainLocks \in LLMQTypes /\ cp'.instantSend \in LLMQTypes
      /\ cp'.platform \in LLMQTypes
      /\ \A f \in {"mnStart", "budgetStart", "superblockStart", "minDiff",
                  "highBlocks", "highFactor", "extCoinType"} : cp'[f] = cp[f]
  BY <1>4 DEF InstallLLMQs, NPInv, TypeOK, LLMQTypes
<1>6. QED
  BY <1>1, <1>3, <1>4, <1>5 DEF InstallLLMQs, NPInv, TypeOK

(* A step that changes nothing.                                            *)
LEMMA StutterNPInv == NPInv /\ UNCHANGED vars => NPInv'
BY DEF NPInv, TypeOK, vars

(* A set optional argument holds a value of its set.                      *)
LEMMA OptVal ==
    ASSUME NEW S, NEW d, NEW o \in Opt(S, d), o.set PROVE o.val \in S
<1>1. o = [set |-> FALSE, val |-> d] \/ o \in [set : {TRUE}, val : S]
  BY DEF Opt
<1>2. o # [set |-> FALSE, val |-> d]
  <2>1. o.set = TRUE
    OBVIOUS
  <2>2. [set |-> FALSE, val |-> d].set = FALSE
    OBVIOUS
  <2>3. QED
    BY <2>1, <2>2
<1>3. QED
  BY <1>1, <1>2

(* What each argument holds when it is set.                               *)
LEMMA ArgsFacts ==
    ASSUME args \in ArgSpace
    PROVE  /\ args.extcoinindex.set => args.extcoinindex.val \in Tokens
           /\ args.budgetparams.set => args.budgetparams.val \in Seq(Tokens)
           /\ args.minimumdifficultyblocks.set =>
                  args.minimumdifficultyblocks.val \in Int64s
           /\ args.highsubsidyblocks.set => args.highsubsidyblocks.val \in Int64s
           /\ args.highsubsidyfactor.set => args.highsubsidyfactor.val \in Int64s
<1>1. /\ args.extcoinindex \in Opt(TokenValues, [kind |-> "empty", val |-> 0])
      /\ args.budgetparams \in Opt(BudgetValues, <<>>)
      /\ args.minimumdifficultyblocks \in Opt(IntValues, [hi |-> 0, lo |-> 0])
      /\ args.highsubsidyblocks \in Opt(IntValues, [hi |-> 0, lo |-> 0])
      /\ args.highsubsidyfactor \in Opt(IntValues, [hi |-> 0, lo |-> 0])
  BY DEF ArgSpace
<1>2. QED
  BY <1>1, OptVal, ArgsAssumption

(* A token that ParseInt32 accepts carries an int.                         *)
LEMMA ParsedToken ==
    ASSUME NEW tok \in Tokens, ParsesInt32(tok) PROVE tok.val \in Int32
BY Zenon DEF Tokens, ParsesInt32

(* A token std::stoi reads a number from carries an int; one it throws on *)
(* is no whole number either.                                             *)
LEMMA StoiToken ==
    ASSUME NEW tok \in Tokens
    PROVE  /\ StoiParses(tok) => tok.val \in Int32
           /\ ~StoiParses(tok) => ~ParsesInt32(tok)
BY Zenon DEF Tokens, StoiParses, ParsesInt32

(* A step of a constructor that sets only int fields and moves on keeps    *)
(* the invariant, as long as it does not move the devnet constructor past  *)
(* its quorum block.                                                       *)
LEMMA IntFieldsStep ==
    ASSUME NPInv, chain \in Networks, status = "building",
           step \in 1..Len(Steps(chain)), chain = "devnet" => step # 3,
           UNCHANGED <<chain, args, err>>, Advance,
           DOMAIN cp' = DOMAIN cp,
           \A f \in {"llmqs", "chainLocks", "instantSend", "platform"} : cp'[f] = cp[f],
           \A f \in {"mnStart", "budgetStart", "superblockStart", "minDiff",
                     "highBlocks", "highFactor", "extCoinType"} : cp'[f] \in Int32
    PROVE  NPInv'
<1>1. /\ status' \in {"building", "installed"}
      /\ step' \in 1..Len(Steps(chain))
      /\ status' = "building" => step' = step + 1
  BY AdvanceFacts
<1>2. step' \in 0..Len(Steps(chain))
  BY <1>1
<1>3. (status' = "building" /\ chain' = "devnet" /\ step' > 3) =>
          (status = "building" /\ chain = "devnet" /\ step > 3)
  BY <1>1
<1>4. TypeOK'
  BY <1>1, <1>2 DEF NPInv, TypeOK
<1>5. QED
  BY <1>1, <1>3, <1>4 DEF NPInv

(* A step that throws leaves the invariant if the exception names a field *)
(* the spec calls malformed.                                               *)
LEMMA ThrowStep ==
    ASSUME NPInv, NEW e \in Errors, e \in SpecOffending(chain, args),
           UNCHANGED <<chain, args>>, Throw(e)
    PROVE  NPInv'
BY DEF NPInv, TypeOK, Throw

(* -extcoinindex on main and test: the default or the parsed int, or the  *)
(* std::stoi exception, which only text the spec calls malformed raises.  *)
LEMMA ExtCoinNPInv == NPInv /\ ReadExtCoinIndex => NPInv'
<1> SUFFICES ASSUME NPInv, ReadExtCoinIndex PROVE NPInv'
  OBVIOUS
<1> DEFINE a == args.extcoinindex
<1>1. chain \in {"main", "test"} /\ step = 2 /\ status = "building"
  BY AtFacts DEF ReadExtCoinIndex, At
<1>2. chain \in Networks /\ step \in 1..Len(Steps(chain))
  BY <1>1, StepsFacts DEF Networks
<1>3. a.set => a.val \in Tokens
  BY ArgsFacts DEF NPInv, TypeOK
<1>4. \A f \in {"mnStart", "budgetStart", "superblockStart", "minDiff",
                "highBlocks", "highFactor"} : cp[f] \in Int32
  BY DEF NPInv, TypeOK
<1>5. CASE ~a.set \/ a.val.kind = "empty"
  <2>1. ExtCoinDefault(chain) \in Int32
    BY IntMaxFacts DEF ExtCoinDefault, Int32
  <2>2. cp' = [cp EXCEPT !.extCoinType = ExtCoinDefault(chain)] /\ Advance
        /\ UNCHANGED <<chain, args, err>>
    BY <1>5 DEF ReadExtCoinIndex
  <2>3. QED
    BY <1>1, <1>2, <1>4, <2>1, <2>2, IntFieldsStep
<1>6. CASE a.set /\ a.val.kind # "empty" /\ StoiParses(a.val)
  <2>1. a.val.val \in Int32
    BY <1>3, <1>6, StoiToken
  <2>2. cp' = [cp EXCEPT !.extCoinType = a.val.val] /\ Advance
        /\ UNCHANGED <<chain, args, err>>
    BY <1>6 DEF ReadExtCoinIndex
  <2>3. QED
    BY <1>1, <1>2, <1>4, <2>1, <2>2, IntFieldsStep
<1>7. CASE a.set /\ a.val.kind # "empty" /\ ~StoiParses(a.val)
  <2>0. ~ParsesInt32(a.val)
    BY <1>3, <1>7, StoiToken
  <2>1. "extcoinindex" \in SpecOffending(chain, args)
    BY <1>1, <1>7, <2>0 DEF SpecOffending, Networks
  <2>2. Throw("extcoinindex") /\ UNCHANGED <<chain, args>>
    BY <1>7 DEF ReadExtCoinIndex
  <2>3. QED
    BY <2>1, <2>2, ThrowStep DEF Errors
<1>8. QED
  BY <1>5, <1>6, <1>7

(* The devnet subsidy and difficulty options: each field keeps the low    *)
(* word of its int64_t, an int, and nothing throws.                        *)
LEMMA SubsidyNPInv == NPInv /\ ReadSubsidyArgs => NPInv'
<1> SUFFICES ASSUME NPInv, ReadSubsidyArgs PROVE NPInv'
  OBVIOUS
<1>1. chain = "devnet" /\ step = 2 /\ status = "building"
  BY AtFacts DEF ReadSubsidyArgs, At
<1>2. chain \in Networks /\ step \in 1..Len(Steps(chain))
  BY <1>1, StepsFacts DEF Networks
<1>3. \A o \in {args.minimumdifficultyblocks, args.highsubsidyblocks,
                args.highsubsidyfactor} : o.set => o.val.lo \in Int32
  BY ArgsFacts DEF NPInv, TypeOK, Int64s
<1>4. \A f \in {"mnStart", "budgetStart", "superblockStart", "minDiff",
                "highBlocks", "highFactor", "extCoinType"} : cp[f] \in Int32
  BY DEF NPInv, TypeOK
<1>5. \A f \in {"mnStart", "budgetStart", "superblockStart", "minDiff",
                "highBlocks", "highFactor", "extCoinType"} : cp'[f] \in Int32
  <2>1. DOMAIN cp = CpFields
    BY DEF NPInv
  <2>2. CASE ~args.minimumdifficultyblocks.set /\ ~args.highsubsidyblocks.set
             /\ ~args.highsubsidyfactor.set
    BY <1>4, <2>2 DEF ReadSubsidyArgs
  <2>3. CASE ~(~args.minimumdifficultyblocks.set /\ ~args.highsubsidyblocks.set
               /\ ~args.highsubsidyfactor.set)
    <3>1. /\ cp'.minDiff \in {args.minimumdifficultyblocks.val.lo, cp.minDiff}
          /\ cp'.highBlocks \in {args.highsubsidyblocks.val.lo, cp.highBlocks}
          /\ cp'.highFactor \in {args.highsubsidyfactor.val.lo, cp.highFactor}
          /\ cp'.minDiff = cp.minDiff \/ args.minimumdifficultyblocks.set
          /\ cp'.highBlocks = cp.highBlocks \/ args.highsubsidyblocks.set
          /\ cp'.highFactor = cp.highFactor \/ args.highsubsidyfactor.set
          /\ \A f \in {"mnStart", "budgetStart", "superblockStart", "extCoinType"} :
                 cp'[f] = cp[f]
      BY <2>1, <2>3 DEF ReadSubsidyArgs, ToInt, Widen, CpFields
    <3>2. QED
      BY <1>3, <1>4, <3>1
  <2>4. QED
    BY <2>2, <2>3
<1>6. /\ DOMAIN cp' = DOMAIN cp
      /\ \A f \in {"llmqs", "chainLocks", "instantSend", "platform"} : cp'[f] = cp[f]
      /\ Advance /\ UNCHANGED <<chain, args, err>>
  BY DEF ReadSubsidyArgs, NPInv, CpFields
<1>7. QED
  BY <1>1, <1>2, <1>5, <1>6, IntFieldsStep

(* A six-way CASE whose guards are exclusive selects the arm whose guard   *)
(* holds.                                                                   *)
LEMMA CaseArm6 ==
    ASSUME NEW g1, NEW g2, NEW g3, NEW g4, NEW g5, NEW g6,
           NEW e1, NEW e2, NEW e3, NEW e4, NEW e5, NEW e6,
           CASE g1 -> e1 [] g2 -> e2 [] g3 -> e3 [] g4 -> e4 [] g5 -> e5 [] g6 -> e6
    PROVE  /\ g1 /\ ~g2 /\ ~g3 /\ ~g4 /\ ~g5 /\ ~g6 => e1
           /\ ~g1 /\ g2 /\ ~g3 /\ ~g4 /\ ~g5 /\ ~g6 => e2
           /\ ~g1 /\ ~g2 /\ g3 /\ ~g4 /\ ~g5 /\ ~g6 => e3
           /\ ~g1 /\ ~g2 /\ ~g3 /\ g4 /\ ~g5 /\ ~g6 => e4
           /\ ~g1 /\ ~g2 /\ ~g3 /\ ~g4 /\ g5 /\ ~g6 => e5
           /\ ~g1 /\ ~g2 /\ ~g3 /\ ~g4 /\ ~g5 /\ g6 => e6
OBVIOUS

(* -budgetparams on regtest: the three fields parsed in turn, the first   *)
(* that fails naming the exception, or all three assigned.                 *)
LEMMA BudgetNPInv == NPInv /\ ReadBudgetArgs => NPInv'
<1> SUFFICES ASSUME NPInv, ReadBudgetArgs PROVE NPInv'
  OBVIOUS
<1> DEFINE a == args.budgetparams
           v == a.val
           names == <<"smartnodeStart", "budgetStart", "superblockStart">>
<1>1. chain = "regtest" /\ step = 2 /\ status = "building"
  BY AtFacts DEF ReadBudgetArgs, At
<1>2. chain \in Networks /\ step \in 1..Len(Steps(chain)) /\ chain # "devnet"
  BY <1>1, StepsFacts DEF Networks
<1>3. a.set => v \in Seq(Tokens)
  BY ArgsFacts DEF NPInv, TypeOK
<1>4. \A f \in {"mnStart", "budgetStart", "superblockStart", "minDiff",
                "highBlocks", "highFactor", "extCoinType"} : cp[f] \in Int32
  BY DEF NPInv, TypeOK
<1>5. /\ ~a.set => SpecOffending(chain, args) = {}
      /\ a.set /\ Len(v) # 3 => SpecOffending(chain, args) = {"budgetArity"}
      /\ a.set /\ Len(v) = 3 =>
            SpecOffending(chain, args) =
                {names[i] : i \in {j \in 1..3 : ~ParsesInt32(v[j])}}
  BY <1>1 DEF SpecOffending, Networks
<1>0. /\ UNCHANGED <<chain, args>>
      /\ CASE ~a.set -> UNCHANGED <<cp, err>> /\ Advance
           [] a.set /\ Len(v) # 3 -> Throw("budgetArity")
           [] a.set /\ Len(v) = 3 /\ ~ParsesInt32(v[1]) -> Throw("smartnodeStart")
           [] a.set /\ Len(v) = 3 /\ ParsesInt32(v[1]) /\ ~ParsesInt32(v[2]) ->
                  Throw("budgetStart")
           [] a.set /\ Len(v) = 3 /\ ParsesInt32(v[1]) /\ ParsesInt32(v[2])
                  /\ ~ParsesInt32(v[3]) -> Throw("superblockStart")
           [] a.set /\ Len(v) = 3 /\ \A i \in 1..3 : ParsesInt32(v[i]) ->
                  /\ cp' = [cp EXCEPT !.mnStart = v[1].val, !.budgetStart = v[2].val,
                                      !.superblockStart = v[3].val]
                  /\ Advance /\ UNCHANGED err
  BY DEF ReadBudgetArgs
<1>6. CASE ~a.set
  <2>1. UNCHANGED <<cp, err>> /\ Advance /\ UNCHANGED <<chain, args>>
    BY <1>0, <1>6, CaseArm6
  <2>2. QED
    BY <1>1, <1>2, <1>4, <2>1, IntFieldsStep
<1>7. CASE a.set /\ Len(v) # 3
  <2>1. Throw("budgetArity") /\ UNCHANGED <<chain, args>>
    BY <1>0, <1>7, CaseArm6
  <2>2. QED
    BY <1>5, <1>7, <2>1, ThrowStep DEF Errors
<1>8. CASE a.set /\ Len(v) = 3 /\ ~ParsesInt32(v[1])
  <2>0. /\ ~(~a.set)
        /\ ~(a.set /\ Len(v) # 3)
        /\ a.set /\ Len(v) = 3 /\ ~ParsesInt32(v[1])
        /\ ~(a.set /\ Len(v) = 3 /\ ParsesInt32(v[1]) /\ ~ParsesInt32(v[2]))
        /\ ~(a.set /\ Len(v) = 3 /\ ParsesInt32(v[1]) /\ ParsesInt32(v[2])
                /\ ~ParsesInt32(v[3]))
        /\ ~(a.set /\ Len(v) = 3 /\ \A i \in 1..3 : ParsesInt32(v[i]))
    BY <1>8
  <2>1. Throw("smartnodeStart") /\ UNCHANGED <<chain, args>>
    BY <1>0, <2>0, CaseArm6
  <2>2. "smartnodeStart" \in SpecOffending(chain, args)
    BY <1>5, <1>8
  <2>3. QED
    BY <2>1, <2>2, ThrowStep DEF Errors
<1>9. CASE a.set /\ Len(v) = 3 /\ ParsesInt32(v[1]) /\ ~ParsesInt32(v[2])
  <2>0. /\ ~(~a.set)
        /\ ~(a.set /\ Len(v) # 3)
        /\ ~(a.set /\ Len(v) = 3 /\ ~ParsesInt32(v[1]))
        /\ a.set /\ Len(v) = 3 /\ ParsesInt32(v[1]) /\ ~ParsesInt32(v[2])
        /\ ~(a.set /\ Len(v) = 3 /\ ParsesInt32(v[1]) /\ ParsesInt32(v[2])
                /\ ~ParsesInt32(v[3]))
        /\ ~(a.set /\ Len(v) = 3 /\ \A i \in 1..3 : ParsesInt32(v[i]))
    BY <1>9
  <2>1. Throw("budgetStart") /\ UNCHANGED <<chain, args>>
    BY <1>0, <2>0, CaseArm6
  <2>2. "budgetStart" \in SpecOffending(chain, args)
    BY <1>5, <1>9
  <2>3. QED
    BY <2>1, <2>2, ThrowStep DEF Errors
<1>10. CASE a.set /\ Len(v) = 3 /\ ParsesInt32(v[1]) /\ ParsesInt32(v[2])
            /\ ~ParsesInt32(v[3])
  <2>0. /\ ~(~a.set)
        /\ ~(a.set /\ Len(v) # 3)
        /\ ~(a.set /\ Len(v) = 3 /\ ~ParsesInt32(v[1]))
        /\ ~(a.set /\ Len(v) = 3 /\ ParsesInt32(v[1]) /\ ~ParsesInt32(v[2]))
        /\ a.set /\ Len(v) = 3 /\ ParsesInt32(v[1]) /\ ParsesInt32(v[2])
                /\ ~ParsesInt32(v[3])
        /\ ~(a.set /\ Len(v) = 3 /\ \A i \in 1..3 : ParsesInt32(v[i]))
    BY <1>10
  <2>1. Throw("superblockStart") /\ UNCHANGED <<chain, args>>
    BY <1>0, <2>0, CaseArm6
  <2>2. "superblockStart" \in SpecOffending(chain, args)
    BY <1>5, <1>10
  <2>3. QED
    BY <2>1, <2>2, ThrowStep DEF Errors
<1>11. CASE a.set /\ Len(v) = 3 /\ ParsesInt32(v[1]) /\ ParsesInt32(v[2])
            /\ ParsesInt32(v[3])
  <2>1. \A i \in 1..3 : ParsesInt32(v[i])
    BY <1>11
  <2>2. /\ cp' = [cp EXCEPT !.mnStart = v[1].val, !.budgetStart = v[2].val,
                            !.superblockStart = v[3].val]
        /\ Advance /\ UNCHANGED <<chain, args, err>>
    BY <1>0, <1>11, <2>1, CaseArm6
  <2>3. \A i \in 1..3 : v[i].val \in Int32
    BY <1>3, <1>11, <2>1, ParsedToken
  <2>4. DOMAIN cp = CpFields
    BY DEF NPInv
  <2>5. /\ DOMAIN cp' = DOMAIN cp
        /\ \A f \in {"llmqs", "chainLocks", "instantSend", "platform"} :
               cp'[f] = cp[f]
        /\ \A f \in {"mnStart", "budgetStart", "superblockStart", "minDiff",
                      "highBlocks", "highFactor", "extCoinType"} : cp'[f] \in Int32
    BY <1>4, <2>2, <2>3, <2>4 DEF CpFields
  <2>6. QED
    BY <1>1, <1>2, <2>2, <2>5, IntFieldsStep
<1>12. QED
  BY <1>6, <1>7, <1>8, <1>9, <1>10, <1>11

(* The devnet role readers: the role's entry exists, since the map was     *)
(* installed the step before, so the at() cannot throw; a name no profile  *)
(* has throws, and any other picks a type of the map.                      *)
LEMMA RoleNPInv ==
    ASSUME NPInv, NEW name, NEW opt, NEW f,
           \/ name = "chainlocks" /\ opt = args.llmqchainlocks /\ f = "chainLocks"
           \/ name = "instantsend" /\ opt = args.llmqinstantsend /\ f = "instantSend",
           ReadRoleArg(name, opt, f)
    PROVE  NPInv'
<1> DEFINE hits == {t \in DOMAIN cp.llmqs : cp.llmqs[t] = opt.val}
           found == LookupType(cp.llmqs, opt.val)
<1>1. /\ chain = "devnet" /\ status = "building"
      /\ name = "chainlocks" => step = 4
      /\ name = "instantsend" => step = 5
      /\ step \in {4, 5}
  BY AtFacts DEF ReadRoleArg, At
<1>2. Len(Steps(chain)) = 5 /\ chain \in Networks
  BY <1>1, StepsFacts DEF Networks
<1>3. /\ cp.llmqs = Baseline("devnet")
      /\ cp.chainLocks \in LLMQTypes /\ cp.instantSend \in LLMQTypes
  BY <1>1 DEF NPInv
<1>4. DOMAIN cp.llmqs = LLMQTypes /\ cp[f] \in LLMQTypes
  BY <1>3, BaselineType DEF Networks
<1>5. ASSUME Advance
      PROVE  /\ status' \in {"building", "installed"}
             /\ step' \in 1..Len(Steps(chain))
             /\ status' = "building" => step' = 5
  <2>1. CASE step = 4
    BY <1>1, <1>2, <1>5, <2>1 DEF Advance
  <2>2. CASE step = 5
    BY <1>2, <1>5, <2>2 DEF Advance
  <2>3. QED
    BY <1>1, <2>1, <2>2
<1>6. /\ hits = {} => found = NoLLMQ
      /\ hits # {} => found \in hits
  BY <1>4, LookupTypeSpec
<1>7. NoLLMQ \notin LLMQTypes
  BY DEF NoLLMQ, LLMQTypes
<1>8. CASE ~opt.set
  <2>1. UNCHANGED <<cp, err, chain, args>> /\ Advance
    BY <1>8 DEF ReadRoleArg
  <2>2. QED
    BY <1>1, <1>2, <1>3, <1>5, <2>1 DEF NPInv, TypeOK
<1>9. CASE opt.set /\ found = NoLLMQ
  <2>1. Throw(name) /\ UNCHANGED <<chain, args>>
    BY <1>4, <1>9 DEF ReadRoleArg
  <2>2. hits = {}
    BY <1>4, <1>6, <1>7, <1>9
  <2>3. opt.val \notin {Baseline("devnet")[t] : t \in LLMQTypes}
    BY <1>3, <1>4, <2>2
  <2>4. name \in SpecOffending(chain, args)
    BY <1>1, <1>9, <2>3 DEF SpecOffending, Networks
  <2>5. name \in Errors
    BY DEF Errors
  <2>6. QED
    BY <2>1, <2>4, <2>5, ThrowStep
<1>10. CASE opt.set /\ found # NoLLMQ
  <2>1. found \in LLMQTypes
    BY <1>4, <1>6, <1>10
  <2>2. /\ cp' = [cp EXCEPT ![f] = found] /\ Advance
        /\ UNCHANGED <<chain, args, err>>
    BY <1>4, <1>10 DEF ReadRoleArg
  <2>3. DOMAIN cp = CpFields /\ f \in CpFields
    BY DEF NPInv, CpFields
  <2>4. /\ DOMAIN cp' = CpFields
        /\ cp'.llmqs = cp.llmqs
        /\ cp'.chainLocks \in LLMQTypes /\ cp'.instantSend \in LLMQTypes
        /\ cp'.platform = cp.platform
        /\ \A g \in {"mnStart", "budgetStart", "superblockStart", "minDiff",
                      "highBlocks", "highFactor", "extCoinType"} : cp'[g] = cp[g]
    BY <1>3, <2>1, <2>2, <2>3
  <2>5. QED
    BY <1>1, <1>2, <1>3, <1>5, <2>2, <2>4 DEF NPInv, TypeOK
<1>11. QED
  BY <1>8, <1>9, <1>10

(* Every step of construction keeps the invariant.                         *)
LEMMA NextNPInv == NPInv /\ [Next]_vars => NPInv'
<1> SUFFICES ASSUME NPInv, [Next]_vars PROVE NPInv'
  OBVIOUS
<1>1. CASE ReadChainLocksArg
  BY <1>1, RoleNPInv DEF ReadChainLocksArg
<1>2. CASE ReadInstantSendArg
  BY <1>2, RoleNPInv DEF ReadInstantSendArg
<1>3. QED
  BY <1>1, <1>2, CreateNPInv, AssignFieldsNPInv, ExtCoinNPInv, SubsidyNPInv,
     BudgetNPInv, InstallNPInv, StutterNPInv DEF Next

(* Type correctness of construction: every consensus field a constructor  *)
(* assigns, from its baseline or from an argument, is an int, and every    *)
(* quorum role names a type of the map or LLMQ_NONE.                       *)
THEOREM NetworkTypeCorrect == Spec => []TypeOK
<1>1. NPInv => TypeOK
  BY DEF NPInv
<1>2. QED
  BY <1>1, InitNPInv, NextNPInv, PTL DEF Spec

(* Spec section 4.3: CreateChainParams throws only on arguments the spec  *)
(* calls malformed, and names one of them; in particular the devnet role   *)
(* readers never hit the std::out_of_range of llmqs.at().                  *)
THEOREM RejectsMalformedOnly == Spec => []RejectsOnlyMalformed
<1>1. NPInv => RejectsOnlyMalformed
  BY DEF NPInv, RejectsOnlyMalformed
<1>2. QED
  BY <1>1, InitNPInv, NextNPInv, PTL DEF Spec
=============================================================================
