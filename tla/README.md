# TLA+ models of the 405Coin consensus-parameter core

These modules model `src/src/chainparams.cpp`. That file selects a network's parameter set, builds and checks its genesis block, and adapts the quorum sizes to the live masternode count. Each definition is translated from the source, and PROJECT.json's `map` names the lines behind it. Everything here is a TLA+ module, a TLC configuration or this file.

## The system and its parts

Summary of how the parts interact:
- At start-up `SelectParams(chain)` calls `CreateChainParams`, which constructs one of `CMainParams`, `CTestNetParams`, `CDevNetParams` and `CRegTestParams`.
- The result is stored in the process-wide `globalChainParams`.
- Each constructor:
  - assigns its baseline fields;
  - registers its deployments with `updateManager` (a deployment is a voted feature activation);
  - builds its genesis block and checks it with `VerifyGenesisPOW` (devnet also runs `FindDevNetGenesisBlock`);
  - installs the quorum profile map `consensus.llmqs` and the chain-lock and instant-send roles.
- Devnet and regtest read overrides from the command line. Main and test read `-extcoinindex`.
- After start-up, block processing calls `UpdateLLMQParams(count, height, blockIndex, low)`. This may swap the profiles in `consensus.llmqs`.
- The swap is guarded by three file-scope statics (a hysteresis guard) and by a test that no profile is inside its DKG mining window. DKG is the distributed key generation round of a quorum.
- The chain-lock profile of the top tier depends on whether the deployment `QUORUMS_200_8` is active.

| Part (spec name) | Code | Module | Status |
|---|---|---|---|
| QuorumSizeSelector | `CChainParams::UpdateLLMQParams`, `IsMiningPhase`, `IsLLMQsMiningPhase`, the statics at lines 28-30, the free `UpdateLLMQParams` | `LLMQProfiles`, `LLMQParams`, `LLMQReselect`, `LLMQRace`, proofs in `LLMQParamsProofs` | modelled |
| GenesisForge | `VerifyGenesisPOW`, `FindDevNetGenesisBlock` (block assembly abstracted) | `Genesis`, proofs in `GenesisProofs` | partly |
| NetworkParameterSet | `CreateChainParams`, the four constructors, `UpdateBudgetParametersFromArgs`, `UpdateDevnet*FromArgs` | `NetworkParams`, proofs in `NetworkParamsProofs` and `NetworkParamsSpecProofs` | partly |
| Global access | `SelectParams`, `globalChainParams`, `Params()`, `Updates()`, the free `UpdateLLMQParams` | `GlobalParams`, proofs in `GlobalParamsProofs`; `LLMQReselect`, `NetworkParams` | modelled |
| DeploymentVotingEngine | `update/update.h`, not in this tree | none; its answer is the constant `IsQuorums200Active` | not modelled |
| StepFunctionSchedule | `SmartnodeCollaterals`, `FounderPayment`, not in this tree | none | not modelled |
| Splash screen, script ABI header, subsidy test | `qt/`, `script/`, `test/` | none | not modelled |

The last three rows are not modelled for these reasons:
- **Splash screen:** it is UI.
- **Script ABI header:** it holds only declarations.
- **Subsidy test:** it exercises `GetBlockSubsidy` from `validation.cpp`, which is not in this tree.

## Modules

**LLMQProfiles** holds the shared names:
- the networks;
- the four quorum types, which are the keys of `consensus.llmqs`;
- the 16 profile constants;
- the map each constructor installs (`MainLLMQs`, `TestLLMQs`, `DevNetLLMQs`, `RegTestLLMQs`, and `Baseline(net)`).

A profile is a string named after its `Consensus::` constant.

**LLMQParams** models the quorum selector.
- *Variables:*
  - `network` is `strNetworkID`;
  - `llmqs` is `consensus.llmqs`;
  - the three statics are `lastCheckMnCount`, `lastCheckHeight` and `lastCheckedLowLLMQParams`;
  - `census` records the arguments of the latest call, for the properties.
- *The one action:* `UpdateLLMQParams(c, h, low)` models the whole method.
  - Its guard `ShouldUpdate` is the three-part condition at lines 1032-1034.
  - When the guard holds, it writes the statics and applies `NewProfiles`. `NewProfiles` is `TierProfiles`, the IF chain of lines 1040-1067, followed by the override of line 1068.
  - When the guard fails, nothing changes.
- *Constants:*
  - `DkgInterval` and the window bounds per profile, which are defined outside this tree;
  - `IsQuorums200Active(net, h)`, the deployment engine's answer for the block at `h`;
  - the heights and counts callers may pass.

**LLMQReselect** adds `SelectParams(net)` as a further step. It installs a fresh constructor map and leaves the statics alone, as the code does.

**LLMQRace** runs the body of `UpdateLLMQParams` in several threads, one per call, with no lock around it, as in the code.
- *Steps:*
  - `Call(t, c, h, low)` evaluates the guard on the shared statics and map. If the guard fails, the call returns.
  - `Assign(t)` performs the next of the seven assignments of the body, in program order (`Body`). These are the three statics (lines 1036-1038), the three tier profiles (lines 1040-1067) and the low override (line 1068).
  - The `std::map` keys exist from construction on, so each write only replaces a value.
- *`Serialised`:* this constant says whether the callers hold one lock around every call, as spec 5 requires. The callers are outside this tree.
- *Refinement:* `Atomic` instantiates `LLMQParamsProofs`, which extends `LLMQParams`, so its theorems can be cited through the instance. `RaceInputsAssumption` restates for `LLMQRace`'s constants what `LLMQParams` assumes of them. A call inside its body counts as already applied: the mapped map is `ApplyProfiles` of the call's `NewProfiles`, and the mapped statics are the call's arguments. Under this mapping, each `Call` is one atomic `UpdateLLMQParams` step and each `Assign` is a stutter.

**GlobalParams** models process-wide access to the parameter set.
- *Variables:*
  - `base` is the network of `SelectBaseParams`;
  - `globalChainParams` is an object identity, and `NoObject` stands for a null `unique_ptr`;
  - `chainOf` gives each object's network, and `live` the objects not yet destroyed;
  - `held` gives each holder the object its kept `Params()` or `Updates()` reference points into;
  - `selections` counts the calls of `SelectParams`, and `started` says one has returned;
  - `tuned` holds the objects whose quorum map `UpdateLLMQParams` changed;
  - `fault` records an assert abort or undefined behaviour.
- *Actions:*
  - `SelectParams(net, constructed)` switches the base first (line 1005). Then the construction either throws, leaving `globalChainParams` untouched, or it is installed and the old object is destroyed (line 1006). Selection call k builds object k.
  - `Params(h)` covers `Params()` and `Updates()`: the assert, or a kept reference.
  - `UseParams(h)` is a holder reading through its reference. It is the callers' step, outside this tree.
  - `UpdateLLMQParams` is the free function. It dereferences without an assert (line 1010).
- *Callers:* every order of these steps the code admits is allowed: repeated selections, a selection that throws and is retried, reads before the first selection returned.

**Genesis** models the two nonce loops.
- A hash is a function of the nonce alone, so the model keeps only:
  - `powOK`, the nonces whose genesis POW hash meets the target;
  - `devOK`, the nonces whose devnet block hash meets the target.
- Both are arbitrary sets. The nonce ranges over `0..NonceSpace-1` (2^32 values for a `uint32_t`, 4 in the MC instance) and wraps modulo `NonceSpace` as a `uint32_t` does.
- *Actions:*
  - `VerifyHashFound`, which includes the nonce assertion;
  - `VerifyHashMissed`, the `++block.nNonce` that wraps;
  - `DevNetStep`;
  - `DevNetExhausted`, the `error` and `assert(false)` at the end.

**NetworkParams** models construction.
- *Variables:*
  - `chain` is the name passed in;
  - `args` is `gArgs`; each option is a record saying whether it is set and what `GetArg` returns;
  - `status` is dispatch, building, installed or threw;
  - `step` is the position in the constructor;
  - `cp` holds the consensus fields that an argument overrides or that a reader reads;
  - `err` is the exception thrown.
- *Constructor steps:* each constructor is the sequence of its argument-reading steps in code order (`MainSteps` ... `RegTestSteps`).
  - `AssignFields` covers the plain assignments.
  - `InstallLLMQs` installs the quorum map and roles.
  - `ReadExtCoinIndex` covers `std::stoi` and its two exceptions. `std::stoi` skips leading blanks, reads the longest number and ignores the rest: a text such as `12abc` (a `prefix` token) yields 12, and it throws only when no number starts the text (`junk`, `empty`) or the number is out of `int` range (`big`).
  - `ReadSubsidyArgs` covers the early return and the conversion to `int`.
  - `ReadBudgetArgs` covers the arity check and three `ParseInt32` calls, each with its own throw.
  - `ReadChainLocksArg` and `ReadInstantSendArg` cover the `llmqs.at()` default, the lookup loop without `break`, and the `LLMQ_NONE` throw.
- *Argument representation:*
  - String arguments are tokens (number, out-of-range number, junk, empty). `-budgetparams` arrives already split at `:`.
  - A 64-bit integer argument is a pair of 32-bit halves, because TLC's integers are 32-bit. The conversion to `int` keeps the low half, as the compilers do.
- *Genesis checks:* they run between the steps, are modelled in `Genesis`, and read none of the fields kept here.

## Runs

| Run | What it checks | Result |
|---|---|---|
| `llmq_core` (`MCLLMQParams.cfg`) | `TypeOK`; `ProfilesMatchGuard`: the map equals the spec's policy (`SpecProfiles`, written from spec 4.5 as tier counts) for the census in the statics | passes, 58,880 states |
| `llmq_reselect` | `ProfilesMatchGuard` with re-selection allowed | violated (finding) |
| `llmq_first` (`MCLLMQParams_first.cfg`) | `FirstCallApplied`, an action property: the first call outside every mining window installs the policy's profiles for its census | violated (finding) |
| `llmq_serialised` (`MCLLMQRace.cfg`) | two threads with serialised callers: `TypeOK`; `QuiescentMatchesGuard`: with no call inside the body, the map is the policy's for the census in the statics; `ImplementsAtomic`: the statement-level execution implements `LLMQParams!Spec` | passes, 7,332 states |
| `llmq_race` | `QuiescentMatchesGuard` with overlapping calls | violated (finding) |
| `genesis` (`MCGenesis.cfg`) | `TypeOK`; `VerifyAcceptsExactly`: VerifyGenesisPOW returns iff the embedded nonce qualifies; `DevNetNonceMinimal`: the devnet block carries the least qualifying nonce; `Terminates`: both loops end, under weak fairness | passes, 6,144 states |
| `genesis_devnet` | `DevNetAbortsOnlyIfNoNonce`, from spec 4.2 | violated (finding) |
| `netparams` (`MCNetworkParams.cfg`) | `TypeOK`; `ConstructionMatchesSpec`: an installed parameter set is the spec's `select` result (`SpecParams`, `SpecOffending`, written from spec 4.3, 6 and 7); `RejectsOnlyMalformed`: an exception names a field the spec calls malformed. The `-extcoinindex` texts are whole numbers, out-of-range numbers or junk | passes, 128,304 states |
| `netparams_narrow` | `ConstructionMatchesSpec` with 64-bit option values | violated (finding) |
| `netparams_prefix` | `ConstructionMatchesSpec` with an `-extcoinindex` text such as `12abc`, a number followed by other characters | violated (finding) |
| `global_free` (`MCGlobalParams.cfg`) | callers in every order: `MisuseOnly`, which says that a read through a dangling reference and a mismatch between `base` and the installed object need a second `SelectParams`, and that a null dereference by the free `UpdateLLMQParams` happens only before any selection returned | passes, 288,039 states |
| `global_dangling` (`MCGlobalParams_dangling.cfg`) | `NoDanglingUse` with free callers | violated (finding) |

**Why the bounds are enough.**
- *Selector:*
  - The heights are eight consecutive values around 24280, the height where the testnet mid floor changes.
  - The counts sit on both sides of every floor (5, 80, 100, 600, 4000).
  - The DKG timings give mining windows at different residues, so some heights are in a window and some are not.
  - `QUORUMS_200_8` activates inside the range.
  - All four networks and both override values are included.
- *Race:*
  - two threads are enough for two calls to pass the guard on the same statics;
  - heights 1..3, with height 3 in every mining window;
  - counts 0 and 100, which fall in different tiers on every network;
  - threads are symmetric, so `SYMMETRY` on their permutations is sound.
- *Genesis:* a 2-bit nonce and every subset of qualifying nonces for both loops already include:
  - the wrap-around;
  - a start above the only qualifying nonce;
  - UINT32_MAX (here 3) as the only qualifying nonce.
- *Network parameters:* every chain name plus an unknown one, with a budget string of each malformed shape and a well-formed one. The options are:
  - integer options set or unset;
  - a profile name devnet has and one it lacks;
  - `-extcoinindex` text that parses, overflows or is junk, and, in `netparams_prefix`, text that starts with a number and goes on with other characters.
- *Global access:*
  - four holders, so references are taken, kept and used in every order around the other calls;
  - up to three selections, enough for a re-selection after a kept reference and after a failed selection;
  - all four networks, and a construction that returns or throws.

**Deadlock.** `genesis` and `netparams` set `CHECK_DEADLOCK FALSE`, because construction ends. The `GlobalParams` runs set it too: the process stops when an assert fails or a call has undefined behaviour. The quorum selector never deadlocks: a call that fails its guard is a stuttering step.

**Fairness.** `Genesis` assumes `WF_vars(Next)`. The loops run single-threaded during start-up and nothing can interrupt them, as spec 5 states. No other module assumes fairness.

Every property of every passing run has a mutant in PROJECT.json. A mutant is a plausible bug in the mapped code that TLC then catches. Examples:
- a dropped platform entry;
- a floor off by one;
- a missing nonce wrap;
- role readers moved before the map is installed;
- the early return that forgets one option.

## Findings

1. **Re-selection is not rejected (`llmq_reselect`).** Spec 3 says re-selection must be rejected. The code accepts it, resets the map and keeps the statics, so the guard and the map disagree afterwards.
2. **Last devnet nonce never tried (`genesis_devnet`).** `FindDevNetGenesisBlock` never tries nonce UINT32_MAX (line 114).
3. **Out-of-range devnet options narrowed (`netparams_narrow`).** Devnet integer options above the `int` range are silently narrowed, for example 2^32+7 becomes 7. Spec 7 asks for a ConfigError.
4. **No mutual exclusion in the reconciler (`llmq_race`).** `UpdateLLMQParams` takes no lock. The shortest counterexample has 17 states, on main with thread t1 calling with count 100 at height 1 and thread t2 with count 0 at height 1:
   - t1 passes the guard, writes the three statics and the profiles of `LLMQ_50_60` and `LLMQ_400_60`;
   - t2 passes the guard on the statics t1 just wrote (count 0 differs from 100), and runs its whole body;
   - t1 resumes and writes its `LLMQ_400_85` profile and its override.
   In the final state no call is inside the body, the statics hold t2's census and `LLMQ_400_85` holds t1's tier profile, which the policy does not select for count 0. Spec 5 requires reconcilers to be serialised. `llmq_serialised` shows that serialised callers are enough.
5. **The zero initialisers act as a first census (`llmq_first`).** The statics start at count 0, height 0 and no override (lines 28-30). A first call reporting 0 masternodes and no override therefore fails guard (b) and is skipped. On testnet the map keeps `llmq20_60`/`llmq20_85`, where tier 0 selects `llmq5_60`/`llmq5_85`. Spec 4.5 words guard (b) against "the last call" and leaves open what stands for it before the first call.
6. **A kept `Params()` reference dangles after re-selection (`global_dangling`).** `SelectParams` accepts a second call and replaces the `unique_ptr`, destroying the object that an earlier `Params()` or `Updates()` caller still refers to. The holder's next read is a use after free. Spec 3 says the parameter set lives for the whole process after selection and that re-selection must be rejected. `global_free` and `UndefinedOnlyFromMisuse` show that re-selection is the only way to reach such a read.

7. **`-extcoinindex` text with trailing characters is accepted (`netparams_prefix`).** Main and test read the option with `std::stoi` (line 272), which reads the number at the start of the text and ignores the rest. `-extcoinindex=12abc` installs `extCoinType` 12. Spec 4.3 calls a text that is not a whole number malformed, so `select` must fail with a ConfigError.

## Proofs

Six modules hold theorems: `LLMQParamsProofs`, `LLMQRaceProofs`, `GlobalParamsProofs`, `GenesisProofs`, `NetworkParamsProofs` and `NetworkParamsSpecProofs`. tlapm checks every one of them down to every leaf.

### LLMQParamsProofs
- **`TypeCorrect`** states `Spec => []TypeOK`, for all constants satisfying the `ASSUME`s of `LLMQParams`. Those assumptions are: positive heights, natural counts, a positive `dkgInterval` for every profile, and a Boolean deployment answer.
- **`GuardConsistency`** states `Spec => []ProfilesMatchGuard`.
  - `ProfilesMatchGuard` is not inductive alone: a step needs the types of the statics, `network` and `llmqs`. The inductive invariant is therefore `TypeOK /\ ProfilesMatchGuard`.
  - The proof has two steps. `Init` implies it, because `lastCheckHeight = 0` and the map is `Baseline(network)`. The step case splits on whether `ShouldUpdate` held.
  - If it held, the new map is `ApplyProfiles(llmqs, NewProfiles(...))` and the statics now hold the new census. The lemma `SelectionMatchesPolicy` shows that `NewProfiles` equals `SpecProfiles` for every network, count, height and override, by a case split over the four tiers and the testnet height gate. `LLMQ_100_67` is untouched and stays at its baseline.
  - If it did not hold, nothing changed.

### LLMQRaceProofs

**`SerialisedImplementsAtomic`** states `Serialised => (Spec => ImplementsAtomic)`, for any set of threads. It is the refinement that the `llmq_serialised` run checks for two threads.
- *Why an invariant is needed:* the mapping counts a call inside the body as already applied. That is only sound if one call at a time is inside the body, and if what that call has written so far is its own.
- *The invariant `RaceInv`:*
  - at most one thread is inside the body;
  - the assignments before its `pc` hold its values (`Written`);
  - `llmqs` is a function on the four quorum types;
  - the remaining conjuncts are types.
  TLC checks `RaceInv` on the serialised instance before it is proved.
- *The steps:*
  - `RefineCall`: a `Call` is `LLMQParams!UpdateLLMQParams` with the same arguments. Before it no call is inside the body, so the mapped state is the concrete one and the guards agree.
  - `RefineAssign`: an assignment is a stutter.
    - Before the last assignment, writing one of the three adaptive types does not change `ApplyProfiles` of the call's selection (`ApplyAbsorbs`).
    - At the last one, `Written` gives the statics and the three tier profiles, so the concrete map after the override is the mapped map.
  - `TierDomain`: every branch of the if-chain names the same three types. It is all the proof needs of the selection, so the theorem holds whatever the floors and profiles are.

**`RaceTypeCorrect`** states `Spec => []TypeOK` with or without serialised callers. A `Call` records typed arguments. An `Assign` writes a tier profile, which `TierType` shows is a profile name for every branch, or a static from the thread's own arguments.

**`SerialisedQuiescentMatch`** states `Serialised => (Spec => []QuiescentMatchesGuard)`. It is derived rather than proved by a new induction:
- `SerialisedImplementsAtomic` gives `Atomic!Spec`;
- `LLMQParamsProofs!GuardConsistency`, taken through the `Atomic` instance (lemma `AbsGuard`), gives `[]Atomic!ProfilesMatchGuard`;
- `AbsGuard` discharges the instance's assumptions from `RaceInputsAssumption`;
- when no call is inside the body, the refinement mapping is the identity (`QuiescentMapping`), and `Atomic!ProfilesMatchGuard` is then `QuiescentMatchesGuard`;
- `SameSpecProfiles` equates the two instances' `SpecProfiles`.

### GlobalParamsProofs

The theorems hold for every set of holders and every bound on selections, for callers in every order.
- **`GlobalTypeCorrect`** proves `Spec => []TypeOK`. The lemmas are `GlobalTypeInit` and `GlobalTypeStep`. The new object's identity `selections + 1` stays within `Objects` because of the bound.
- **`UndefinedOnlyFromMisuse`** proves `Spec => []MisuseOnly`, the property the `global_free` run checks. `MisuseOnly` says three things:
  - a dangling read happens only after a second `SelectParams`;
  - `base` differs from the installed object's network only after a second `SelectParams`; one selection that throws and another that succeeds leave them equal, because line 1005 runs before the construction;
  - a null dereference happens only before any selection returned.
  So re-selection and reads before start-up are the only ways to undefined behaviour or a mixed parameter state.
  - *Inductive invariant `FreeInv`:* `TypeOK`; `started` iff an object is installed; the installed object is live and at most `selections`; only the installed object is live; kept references are at most `selections`; with at most one selection every kept reference is the installed object or none; and `MisuseOnly` itself.
  - *Why `FreeInv` is needed:* the conjunct on kept references and the base clause of `MisuseOnly` are what make a dangling read and a base mismatch impossible before a re-selection. The live-set conjuncts carry them across `SelectParams`, and the step case of a successful `SelectParams` uses that object `selections + 1` is built for the network just assigned to `base`.
  - TLC checked `FreeInv` on the `global_free` instance (4 holders, 3 selections) before the proof.

### GenesisProofs

The proofs hold for every size `NonceSpace` of the nonce type, so they cover the real `uint32_t`, where `NonceSpace = 2^32`. They also hold for every set of qualifying nonces, which stands for every hash function.
- **Inductive invariant:** the three invariants are not inductive alone, so the proofs rest on `GenesisInv`. `GenesisInv` was first model-checked as an invariant of the `genesis` instance (6,144 states), and only then proved. It adds two loop invariants:
  - while `VerifyGenesisPOW` runs, its counter has risen from `genesis.nNonce` without wrapping, and no nonce it has passed qualifies;
  - while `FindDevNetGenesisBlock` runs, no nonce below its counter qualifies.
- **Steps:** there is one lemma per action (`FoundInv`, `MissedInv`, `DevNetStepInv`, `ExhaustedInv`) and one for stuttering.
  - The miss step splits on whether `nonce + 1` reaches `NonceSpace`. That is the wrap to 0, which ends the loop with `abortSearch`.
  - The found step splits on whether the counter is still `genesis.nNonce`.
- **Theorems:** `GenesisTypeCorrect`, `AcceptsExactly` (`VerifyAcceptsExactly`) and `DevNetMinimal` (`DevNetNonceMinimal`) each follow from `GenesisInv` by PTL. The weak fairness in `Spec` plays no part in them.

### NetworkParamsProofs

The proofs hold for every set of chain names and every set of argument values that meets `ArgsAssumption`: option values are int64 halves, tokens carry ints (`StoiToken` shows that a token `std::stoi` accepts carries an int and that one it rejects is no whole number), and budget values are sequences of tokens.
- **Inductive invariant `NPInv`:** `TypeOK` is not inductive alone. `NPInv` adds four facts:
  - `cp` has exactly the eleven fields the model keeps (`CpFields`);
  - a constructor runs only for a known network, and only inside its list of steps;
  - once the devnet constructor is past its quorum block, the map is the devnet baseline and both roles name a type of it;
  - an exception names a field in `SpecOffending`.
  TLC checked `NPInv` on the `netparams` instance before it was proved.
- **Steps:** there is one lemma per action, and `RoleNPInv` covers both role readers.
  - `AtFacts` gives, for each step name, the networks and the index at which it runs.
  - `IntFieldsStep` covers any step that only writes int fields and moves on. `ThrowStep` covers any step that throws an exception the spec lists.
  - `BudgetNPInv` splits on the six arms of the budget reader's `CASE`, with `CaseArm6` selecting the arm.
  - `RoleNPInv` shows the `at()` cannot throw, because the role was installed one step earlier with the map. It uses `LookupTypeSpec`: the lookup loop returns `LLMQ_NONE` only when no profile has the name, which is the spec's `BadName`.
- **Theorems:** `NetworkTypeCorrect` (`TypeOK`) and `RejectsMalformedOnly` (`RejectsOnlyMalformed`) follow from `NPInv` by PTL.

### NetworkParamsSpecProofs

`ConstructionCorrect` proves `ConstructionMatchesSpec` under two hypotheses. `IntValuesFit` says every devnet integer option fits an int; without it, the `netparams_narrow` run shows the property failing (finding 3). `ExtCoinWholeText` says no `-extcoinindex` text is a number followed by other characters; without it, the `netparams_prefix` run shows the property failing (finding 7). The `netparams` instance meets both. The proof follows the constructor step by step.
- **`Partial(net, a, k)`:** the object after the first `k` steps of the constructor. It is written with the overrides as `select` applies them (`WithExtCoin`, `WithSubsidy`, `WithBudget`, `WithLLMQs`, `WithRole`).
- **`Passed(net, a, k)`:** the checks of those steps have passed. For the role readers, `NameKnown` means the name is a profile of the devnet map.
- **Inductive invariant `MatchInv`:** `NPInv`, plus four facts:
  - before dispatch the object is the default one;
  - while a constructor runs or after it returns, `cp = Partial(chain, args, Done)` and `Passed(chain, args, Done)` hold, where `Done` counts the finished steps;
  - a constructor returns only after its last step.
  TLC checked `MatchInv` on the `netparams` instance and on the narrow one before it was proved.
- **Steps:** there is one lemma per action, and each step applies its override to `Partial` at the previous count.
  - `SubsidyMatch` shows that the early return with no option set leaves the object `select` would build. It also shows that the write through `int` stores the option's low word, which is what `WithSubsidy` and `SpecParams` write. `IntValuesFit` is needed only at the end, to make `SpecOffending` empty.
  - `BudgetMatch` uses `CaseSome6`: some guard of the reader's `CASE` holds, so one guarded arm holds.
  - `RoleMatch` relies on `DevNetLookup`. The devnet map gives each type its own profile, so the type the lookup loop finds is the one `select` chooses.
- **End of the argument:** `PartialFinal` shows `Partial` at the last step equals `SpecParams`. `OffendingEmpty` shows `Passed` at the last step, together with `IntValuesFit`, leaves `SpecOffending` empty.

The following stay with TLC:
- **Liveness:** `Terminates` is liveness, which tlapm cannot prove. Its fairness is weak fairness of the single sequential thread, and it stays with TLC.
- **ENABLED and induction over data:** tlapm cannot reason about either. No theorem here needs them: no model has a recursive definition, and each loop of the code is a sequence of steps whose invariants are proved by the step proofs.
- **Violation runs:** `FirstCallApplied`, `NoDanglingUse`, `DevNetAbortsOnlyIfNoNonce` and `ConstructionMatchesSpec` under the narrow and prefix inputs fail on the code, so they are shown by counterexamples, not proved.

## Not modelled

- **Hashing and merkle roots:** the hash functions and the embedded-hash asserts are out of reach. They would need SHA-256 and X11-style POW hashes.
- **Deployment voting and step-function schedules:** their code is not in this tree.
- **Constant fields:** the constructor fields that no step reads or overrides, such as ports, seeds, base58 prefixes and the many consensus constants, are written once and never change, so no property here depends on them. One of them disagrees with its own comment: `CTestNetParams` sets the budget start and the superblock start both to `INT_MAX` (line 349), although the comment says the superblock start must be greater. That is visible by reading the two assignments and needs no model.
- **`GetArg` parsing:** the conversion of argument text to numbers by `GetArg(name, int64_t)` is `util/system.cpp`. Spec 1 places it at the boundary, so integer arguments arrive as numbers.

## Plan for later work

- A deployment engine modelled from spec 4.4, marked spec_modelled. It would carry activation monotonicity and a refinement to the `IsQuorums200Active` constant.
- A chain environment that feeds increasing heights to the selector, for liveness of re-evaluation.
