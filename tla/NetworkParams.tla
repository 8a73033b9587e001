---------------------------- MODULE NetworkParams ----------------------------
(***************************************************************************)
(* Construction of the selected network's parameter set, src/src/         *)
(* chainparams.cpp: CreateChainParams dispatches on the chain name to one  *)
(* of CMainParams, CTestNetParams, CDevNetParams, CRegTestParams, whose    *)
(* constructor assigns the baseline fields, reads the runtime arguments    *)
(* that network accepts and installs the quorum profile map and roles.     *)
(* Of the consensus fields the model keeps the ones an argument overrides  *)
(* or that the argument readers read; the others are constants assigned   *)
(* once, and the genesis checks that run between these steps are the      *)
(* Genesis module (they read none of the fields kept here).               *)
(*                                                                         *)
(* An argument is a record [set, val]: IsArgSet and what GetArg returns.   *)
(* A string argument split or parsed by the code is a token or a sequence  *)
(* of tokens: [kind |-> "num", val |-> n] for the decimal text of n,      *)
(* [kind |-> "big"] for a number out of int range, [kind |-> "junk"] for  *)
(* text that is not a number, [kind |-> "empty"].  The integer arguments   *)
(* are the int64_t GetArg(name, int64_t) returned, as its two 32-bit       *)
(* halves [hi, lo], hi signed and lo the low word read as a signed int.    *)
(***************************************************************************)
EXTENDS Integers, Sequences, LLMQProfiles

CONSTANTS
    Chains,          \* chain names SelectParams may be given
    BudgetValues,    \* values of -budgetparams, already split at ':'
    IntValues,       \* int64_t values GetArg returns for the devnet options
    NameValues,      \* values of -llmqchainlocks / -llmqinstantsend
    TokenValues,     \* values of -extcoinindex
    ParamsDefaults   \* the Consensus::Params member initialisers

INT_MAX == 2147483647

Int32 == (-INT_MAX - 1)..INT_MAX

Int64s == [hi : Int32, lo : Int32]

\* An argument text by what the parsers make of it: a number in int range
\* ("num"), a number in range preceded by blanks or followed by other text,
\* as in " 12" or "12abc" ("prefix", carrying the number), digits out of
\* int range ("big"), text with no leading number ("junk"), or nothing.
Tokens == [kind : {"num", "prefix"}, val : Int32]
              \cup [kind : {"big", "junk", "empty"}, val : {0}]

ASSUME ArgsAssumption ==
    /\ Networks \subseteq Chains
    /\ BudgetValues \subseteq Seq(Tokens)
    /\ IntValues \subseteq Int64s
    /\ TokenValues \subseteq Tokens
    /\ ParamsDefaults \in [minDiff : Int32, highBlocks : Int32, highFactor : Int32]

\* An argument that may be absent.
Opt(S, unset) == {[set |-> FALSE, val |-> unset]} \cup [set : {TRUE}, val : S]

ArgSpace ==
    [budgetparams : Opt(BudgetValues, <<>>),
     minimumdifficultyblocks : Opt(IntValues, [hi |-> 0, lo |-> 0]),
     highsubsidyblocks : Opt(IntValues, [hi |-> 0, lo |-> 0]),
     highsubsidyfactor : Opt(IntValues, [hi |-> 0, lo |-> 0]),
     llmqchainlocks : Opt(NameValues, ""),
     llmqinstantsend : Opt(NameValues, ""),
     extcoinindex : Opt(TokenValues, [kind |-> "empty", val |-> 0])]

\* ParseInt32 (util/strencodings): the whole text is a number in range.
ParsesInt32(tok) == tok.kind = "num"

\* std::stoi: skips leading blanks, reads the longest number and ignores the
\* rest; it throws only when no number starts the text or it is out of
\* int range.
StoiParses(tok) == tok.kind \in {"num", "prefix"}

\* An int64_t that an int represents.
FitsInt(v) == (v.hi = 0 /\ v.lo >= 0) \/ (v.hi = -1 /\ v.lo < 0)

\* The int64_t of an int.
Widen(n) == [hi |-> IF n < 0 THEN -1 ELSE 0, lo |-> n]

\* `int n = gArgs.GetArg(name, int64_t)`: the conversion to int keeps the
\* low 32 bits, as the supported compilers do.
ToInt(v) == v.lo

NoLLMQ == "LLMQ_NONE"

\* The enumerator order of Consensus::LLMQType, the iteration order of the
\* std::map consensus.llmqs.
TypeOrder == [t \in LLMQTypes |->
                CASE t = "LLMQ_50_60"  -> 1
                  [] t = "LLMQ_400_60" -> 2
                  [] t = "LLMQ_400_85" -> 3
                  [] t = "LLMQ_100_67" -> 4]

VARIABLES
    chain,   \* the string passed to SelectParams / CreateChainParams
    args,    \* gArgs
    status,  \* "dispatch", "building", "installed" or "threw"
    step,    \* index of the constructor step running
    cp,      \* the consensus fields of the object under construction
    err      \* the exception thrown, "none" while none was

vars == <<chain, args, status, step, cp, err>>

-----------------------------------------------------------------------------
(* The fields a constructor assigns before it reads an argument: smartnode *)
(* payment start, budget and superblock start, the three subsidy and       *)
(* difficulty fields (default-initialised but on regtest), nExtCoinType    *)
(* where it is fixed, and no quorum map or roles yet.                      *)
Fields(mn, budget, superblock, minDiff, ext) ==
    [mnStart |-> mn, budgetStart |-> budget, superblockStart |-> superblock,
     minDiff |-> minDiff, highBlocks |-> ParamsDefaults.highBlocks,
     highFactor |-> ParamsDefaults.highFactor, extCoinType |-> ext,
     llmqs |-> [t \in {} |-> "llmq3_60"],
     chainLocks |-> NoLLMQ, instantSend |-> NoLLMQ, platform |-> NoLLMQ]

MainFields == Fields(5761, INT_MAX, INT_MAX, ParamsDefaults.minDiff, 0)

TestFields == Fields(1000, INT_MAX, INT_MAX, ParamsDefaults.minDiff, 0)

DevNetFields == Fields(4010, 4100, 4200, ParamsDefaults.minDiff, 1)

RegTestFields == Fields(240, INT_MAX, INT_MAX, 2000, 1)

BaselineFields(net) ==
    CASE net = "main"    -> MainFields
      [] net = "test"    -> TestFields
      [] net = "devnet"  -> DevNetFields
      [] net = "regtest" -> RegTestFields

\* The default of nExtCoinType when -extcoinindex is empty.
ExtCoinDefault(net) == IF net = "main" THEN 200 ELSE 10227

\* The chain-lock and instant-send roles each constructor installs.
Roles(net) ==
    IF net \in {"main", "test"}
    THEN [chainLocks |-> "LLMQ_400_60", instantSend |-> "LLMQ_50_60"]
    ELSE [chainLocks |-> "LLMQ_50_60", instantSend |-> "LLMQ_50_60"]

\* The order of the argument-reading steps in each constructor.
MainSteps == <<"fields", "extcoin", "llmqs">>

TestSteps == MainSteps

\* Mutant: the role overrides read before the quorum map is installed.
DevNetStepsArgsFirst == <<"fields", "subsidy", "chainlocks", "llmqs", "instantsend">>

DevNetSteps == <<"fields", "subsidy", "llmqs", "chainlocks", "instantsend">>

RegTestSteps == <<"fields", "budget", "llmqs">>

Steps(net) ==
    CASE net = "main"    -> MainSteps
      [] net = "test"    -> TestSteps
      [] net = "devnet"  -> DevNetSteps
      [] net = "regtest" -> RegTestSteps

-----------------------------------------------------------------------------
Init ==
    /\ chain \in Chains
    /\ args \in ArgSpace
    /\ status = "dispatch"
    /\ step = 0
    /\ cp = Fields(0, 0, 0, 0, 0)
    /\ err = "none"

At(name) == status = "building" /\ Steps(chain)[step] = name

\* Mutant: the constructor taken to return one step late.
AdvancePastEnd ==
    IF step = Len(Steps(chain)) + 1
    THEN status' = "installed" /\ UNCHANGED step
    ELSE step' = step + 1 /\ UNCHANGED status

\* The step returns to the constructor, which goes on or returns the object
\* that SelectParams installs as globalChainParams.
Advance ==
    IF step = Len(Steps(chain))
    THEN status' = "installed" /\ UNCHANGED step
    ELSE step' = step + 1 /\ UNCHANGED status

\* The step throws std::runtime_error (or a std::stoi or std::map::at
\* exception); the object is destroyed and nothing is installed.
Throw(e) == status' = "threw" /\ err' = e /\ UNCHANGED <<step, cp>>

\* CreateChainParams: one constructor per known chain name, else throw.
CreateChainParams ==
    /\ status = "dispatch"
    /\ IF chain \in Networks
       THEN status' = "building" /\ step' = 1 /\ UNCHANGED err
       ELSE status' = "threw" /\ err' = "unknownChain" /\ UNCHANGED step
    /\ UNCHANGED <<chain, args, cp>>

\* The assignments of the constructor body.
AssignFields ==
    /\ At("fields")
    /\ cp' = BaselineFields(chain)
    /\ Advance
    /\ UNCHANGED <<chain, args, err>>

\* nExtCoinType = strExtCoinType.empty() ? default : std::stoi(...), where
\* std::stoi throws on text no number starts (std::invalid_argument) or out
\* of int range (std::out_of_range), and installs the leading number of
\* any other text.
ReadExtCoinIndex ==
    /\ At("extcoin")
    /\ LET a == args.extcoinindex IN
       IF ~a.set \/ a.val.kind = "empty"
       THEN cp' = [cp EXCEPT !.extCoinType = ExtCoinDefault(chain)] /\ Advance /\ UNCHANGED err
       ELSE IF StoiParses(a.val)
       THEN cp' = [cp EXCEPT !.extCoinType = a.val.val] /\ Advance /\ UNCHANGED err
       ELSE Throw("extcoinindex")
    /\ UNCHANGED <<chain, args>>

\* Mutant: the early return tests only the first two options.
ReadSubsidyArgsNoFactor ==
    /\ At("subsidy")
    /\ LET a == args
           Get(o, dflt) == IF o.set THEN o.val ELSE Widen(dflt)
       IN IF ~a.minimumdifficultyblocks.set /\ ~a.highsubsidyblocks.set
          THEN UNCHANGED cp
          ELSE cp' = [cp EXCEPT
                        !.minDiff = ToInt(Get(a.minimumdifficultyblocks, cp.minDiff)),
                        !.highBlocks = ToInt(Get(a.highsubsidyblocks, cp.highBlocks)),
                        !.highFactor = ToInt(Get(a.highsubsidyfactor, cp.highFactor))]
    /\ Advance
    /\ UNCHANGED <<chain, args, err>>

\* UpdateDevnetSubsidyAndDiffParametersFromArgs: unless none of the three
\* options is set, each takes its argument or keeps its value, through int.
ReadSubsidyArgs ==
    /\ At("subsidy")
    /\ LET a == args
           Get(o, dflt) == IF o.set THEN o.val ELSE Widen(dflt)
       IN IF ~a.minimumdifficultyblocks.set /\ ~a.highsubsidyblocks.set
                /\ ~a.highsubsidyfactor.set
          THEN UNCHANGED cp
          ELSE cp' = [cp EXCEPT
                        !.minDiff = ToInt(Get(a.minimumdifficultyblocks, cp.minDiff)),
                        !.highBlocks = ToInt(Get(a.highsubsidyblocks, cp.highBlocks)),
                        !.highFactor = ToInt(Get(a.highsubsidyfactor, cp.highFactor))]
    /\ Advance
    /\ UNCHANGED <<chain, args, err>>

\* UpdateBudgetParametersFromArgs: three ':'-separated fields, each parsed by
\* ParseInt32 in turn, and UpdateBudgetParameters only once all three parse.
ReadBudgetArgs ==
    /\ At("budget")
    /\ LET a == args.budgetparams
           v == a.val
       IN CASE ~a.set -> UNCHANGED <<cp, err>> /\ Advance
            [] a.set /\ Len(v) # 3 -> Throw("budgetArity")
            [] a.set /\ Len(v) = 3 /\ ~ParsesInt32(v[1]) -> Throw("smartnodeStart")
            [] a.set /\ Len(v) = 3 /\ ParsesInt32(v[1]) /\ ~ParsesInt32(v[2]) ->
                   Throw("budgetStart")
            [] a.set /\ Len(v) = 3 /\ ParsesInt32(v[1]) /\ ParsesInt32(v[2])
                   /\ ~ParsesInt32(v[3]) -> Throw("superblockStart")
            [] a.set /\ Len(v) = 3 /\ \A i \in 1..3 : ParsesInt32(v[i]) ->
                   /\ cp' = [cp EXCEPT !.mnStart = v[1].val, !.budgetStart = v[2].val,
                                       !.superblockStart = v[3].val]
                   /\ Advance /\ UNCHANGED err
    /\ UNCHANGED <<chain, args>>

\* The "long living quorum params" block: the profile map and the roles.
InstallLLMQs ==
    /\ At("llmqs")
    /\ cp' = [cp EXCEPT !.llmqs = Baseline(chain),
                        !.chainLocks = Roles(chain).chainLocks,
                        !.instantSend = Roles(chain).instantSend,
                        !.platform = "LLMQ_100_67"]
    /\ Advance
    /\ UNCHANGED <<chain, args, err>>

\* The loop over consensus.llmqs keeps the last type whose profile has the
\* name, in enumerator order; LLMQ_NONE if none has.
LookupType(map, name) ==
    LET hits == {t \in DOMAIN map : map[t] = name} IN
    IF hits = {} THEN NoLLMQ
    ELSE CHOOSE t \in hits : \A u \in hits : TypeOrder[u] <= TypeOrder[t]

\* UpdateDevnetLLMQChainLocksFromArgs / ...InstantSendFromArgs for the role
\* field f: the default argument of GetArg, llmqs.at(role).name, is
\* evaluated first and throws std::out_of_range if the role has no entry.
ReadRoleArg(name, opt, f) ==
    /\ At(name)
    /\ IF ~opt.set
       THEN UNCHANGED <<cp, err>> /\ Advance
       ELSE IF cp[f] \notin DOMAIN cp.llmqs
       THEN Throw("outOfRange")
       ELSE IF LookupType(cp.llmqs, opt.val) = NoLLMQ
       THEN Throw(name)
       ELSE cp' = [cp EXCEPT ![f] = LookupType(cp.llmqs, opt.val)] /\ Advance /\ UNCHANGED err
    /\ UNCHANGED <<chain, args>>

ReadChainLocksArg == ReadRoleArg("chainlocks", args.llmqchainlocks, "chainLocks")

ReadInstantSendArg == ReadRoleArg("instantsend", args.llmqinstantsend, "instantSend")

Next ==
    \/ CreateChainParams
    \/ AssignFields
    \/ ReadExtCoinIndex
    \/ ReadSubsidyArgs
    \/ ReadBudgetArgs
    \/ InstallLLMQs
    \/ ReadChainLocksArg
    \/ ReadInstantSendArg

Spec == Init /\ [][Next]_vars

-----------------------------------------------------------------------------
Errors ==
    {"unknownChain", "extcoinindex", "budgetArity", "smartnodeStart",
     "budgetStart", "superblockStart", "chainlocks", "instantsend", "outOfRange"}

TypeOK ==
    /\ chain \in Chains
    /\ args \in ArgSpace
    /\ status \in {"dispatch", "building", "installed", "threw"}
    /\ step \in 0..(IF chain \in Networks THEN Len(Steps(chain)) ELSE 0)
    /\ err \in Errors \cup {"none"}
    /\ \A f \in {"mnStart", "budgetStart", "superblockStart", "minDiff",
                 "highBlocks", "highFactor", "extCoinType"} : cp[f] \in Int32
    /\ DOMAIN cp.llmqs \subseteq LLMQTypes
    /\ \A t \in DOMAIN cp.llmqs : cp.llmqs[t] \in ProfileNames
    /\ \A f \in {"chainLocks", "instantSend", "platform"} :
           cp[f] \in LLMQTypes \cup {NoLLMQ}

(* What spec section 4.3 asks of select(networkId, overrides), stated     *)
(* without the constructor's steps.  The overrides a network accepts are  *)
(* rejected when malformed: wrong arity, a field that is no number, out   *)
(* of range, or a quorum-role name no installed profile has.              *)
SpecOffending(net, a) ==
    LET v == a.budgetparams.val
        BadInt(o) == o.set /\ ~FitsInt(o.val)
        BadName(o) == o.set /\ o.val \notin {Baseline(net)[t] : t \in LLMQTypes}
    IN
    CASE net \notin Networks -> {"unknownChain"}
      [] net \in {"main", "test"} ->
             IF a.extcoinindex.set /\ a.extcoinindex.val.kind # "empty"
                /\ ~ParsesInt32(a.extcoinindex.val)
             THEN {"extcoinindex"} ELSE {}
      [] net = "devnet" ->
             {e \in {"minimumdifficultyblocks", "highsubsidyblocks",
                     "highsubsidyfactor"} : BadInt(a[e])}
             \cup (IF BadName(a.llmqchainlocks) THEN {"chainlocks"} ELSE {})
             \cup (IF BadName(a.llmqinstantsend) THEN {"instantsend"} ELSE {})
      [] net = "regtest" ->
             IF ~a.budgetparams.set THEN {}
             ELSE IF Len(v) # 3 THEN {"budgetArity"}
             ELSE {<<"smartnodeStart", "budgetStart", "superblockStart">>[i] :
                     i \in {j \in 1..3 : ~ParsesInt32(v[j])}}

\* The parameter set select returns: the baseline with its quorum map and
\* roles, each well-formed override replacing its field.
SpecParams(net, a) ==
    LET b == [BaselineFields(net) EXCEPT
                !.llmqs = Baseline(net),
                !.chainLocks = Roles(net).chainLocks,
                !.instantSend = Roles(net).instantSend,
                !.platform = "LLMQ_100_67"]
        Or(o, dflt) == IF o.set THEN o.val.lo ELSE dflt
        RoleNamed(o, dflt) ==
            IF o.set THEN CHOOSE t \in LLMQTypes : Baseline(net)[t] = o.val ELSE dflt
        v == a.budgetparams.val
        ext == a.extcoinindex
    IN
    CASE net \in {"main", "test"} ->
             [b EXCEPT !.extCoinType =
                 IF ext.set /\ ext.val.kind = "num" THEN ext.val.val
                 ELSE ExtCoinDefault(net)]
      [] net = "devnet" ->
             [b EXCEPT !.minDiff = Or(a.minimumdifficultyblocks, b.minDiff),
                       !.highBlocks = Or(a.highsubsidyblocks, b.highBlocks),
                       !.highFactor = Or(a.highsubsidyfactor, b.highFactor),
                       !.chainLocks = RoleNamed(a.llmqchainlocks, b.chainLocks),
                       !.instantSend = RoleNamed(a.llmqinstantsend, b.instantSend)]
      [] net = "regtest" ->
             IF a.budgetparams.set
             THEN [b EXCEPT !.mnStart = v[1].val, !.budgetStart = v[2].val,
                            !.superblockStart = v[3].val]
             ELSE b

(* A parameter set that CreateChainParams returns, and SelectParams        *)
(* installs, is the one the spec's select returns for the chain name and  *)
(* the arguments: no malformed override got through, every accepted one   *)
(* replaced its field exactly, and nothing else moved.                    *)
ConstructionMatchesSpec ==
    status = "installed" =>
        /\ SpecOffending(chain, args) = {}
        /\ cp = SpecParams(chain, args)

(* Construction throws only on input the spec rejects, and the exception  *)
(* names one of the offending fields: no well-formed argument set makes a *)
(* constructor fail (e.g. by reading a quorum role before the map holds it).*)
RejectsOnlyMalformed ==
    status = "threw" => err \in SpecOffending(chain, args)
=============================================================================
