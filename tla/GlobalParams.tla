---------------------------- MODULE GlobalParams ----------------------------
(***************************************************************************)
(* Process-wide access to the parameter set in src/src/chainparams.cpp:    *)
(* the static std::unique_ptr globalChainParams, SelectParams, which       *)
(* switches the base parameters and then replaces globalChainParams with a *)
(* freshly constructed object, the accessors Params() and Updates(), which *)
(* assert that an object is installed and hand out a reference into it,    *)
(* and the free UpdateLLMQParams, which dereferences globalChainParams     *)
(* without that assert.                                                    *)
(*                                                                         *)
(* A constructed CChainParams is an object identity: SelectParams call k   *)
(* builds object k, so that a reference taken before a re-selection can be *)
(* told apart from the object installed after it.  What the constructors   *)
(* compute is NetworkParams' concern; here a construction either returns   *)
(* or throws.  The callers are outside this tree: readers take a reference *)
(* with Params() or Updates(), keep it, and use it later.  They may call   *)
(* in every order the code itself admits: the spec's discipline (sections  *)
(* 2, 3 and 6: select once, stop if that throws, read nothing before it    *)
(* returned) is not enforced by this file, so it is not assumed here.      *)
(***************************************************************************)
EXTENDS Naturals, LLMQProfiles

CONSTANTS
    Holders,        \* callers that keep a reference returned by Params()
    MaxSelections   \* bound on the number of SelectParams calls

ASSUME GlobalAssumption == MaxSelections \in Nat \ {0}

VARIABLES
    base,              \* network of the base parameters (SelectBaseParams)
    globalChainParams, \* installed object, NoObject for a null unique_ptr
    chainOf,           \* object -> network it was constructed for
    live,              \* objects constructed and not yet destroyed
    held,              \* holder -> object its reference points into
    selections,        \* SelectParams calls made
    started,           \* a SelectParams call has returned
    tuned,             \* objects whose quorum map UpdateLLMQParams changed
    fault              \* "none", "assert", "nullDeref" or "dangling"

vars == <<base, globalChainParams, chainOf, live, held, selections, started,
          tuned, fault>>

NoObject == 0

Objects == 1..MaxSelections

Running == fault = "none"

-----------------------------------------------------------------------------
(* Before main calls SelectParams: both unique_ptrs null, no reference.    *)
Init ==
    /\ base = "none"
    /\ globalChainParams = NoObject
    /\ chainOf = [o \in Objects |-> "none"]
    /\ live = {}
    /\ held = [h \in Holders |-> NoObject]
    /\ selections = 0
    /\ started = FALSE
    /\ tuned = {}
    /\ fault = "none"

\* Mutant: SelectParams without the call of SelectBaseParams.
SelectParamsNoBase(network, constructed) ==
    /\ Running
    /\ selections < MaxSelections
    /\ selections' = selections + 1
    /\ UNCHANGED base
    /\ IF constructed
       THEN LET o == selections + 1
            IN  /\ globalChainParams' = o
                /\ chainOf' = [chainOf EXCEPT ![o] = network]
                /\ live' = (live \ {globalChainParams}) \cup {o}
                /\ started' = TRUE
       ELSE UNCHANGED <<globalChainParams, chainOf, live, started>>
    /\ UNCHANGED <<held, tuned, fault>>

\* Mutant: the object CreateChainParams returns is not stored.
SelectParamsDiscard(network, constructed) ==
    /\ Running
    /\ selections < MaxSelections
    /\ selections' = selections + 1
    /\ base' = network
    /\ started' = (started \/ constructed)
    /\ UNCHANGED <<globalChainParams, chainOf, live, held, tuned, fault>>

\* SelectParams(network): SelectBaseParams switches the base parameters,
\* then CreateChainParams constructs the object for the network.  If the
\* constructor throws, the exception leaves SelectParams with the base
\* already switched and globalChainParams untouched; otherwise the
\* unique_ptr assignment installs the new object and destroys the old one.
SelectParams(network, constructed) ==
    /\ Running
    /\ selections < MaxSelections
    /\ selections' = selections + 1
    /\ base' = network
    /\ IF constructed
       THEN LET o == selections + 1
            IN  /\ globalChainParams' = o
                /\ chainOf' = [chainOf EXCEPT ![o] = network]
                /\ live' = (live \ {globalChainParams}) \cup {o}
                /\ started' = TRUE
       ELSE UNCHANGED <<globalChainParams, chainOf, live, started>>
    /\ UNCHANGED <<held, tuned, fault>>

\* Params() or Updates() called by holder h: the assert aborts the process
\* when nothing is installed; otherwise h keeps a reference into the
\* installed object (Updates() returns a member of it).
Params(h) ==
    /\ Running
    /\ held[h] = NoObject
    /\ IF globalChainParams = NoObject
       THEN fault' = "assert" /\ UNCHANGED held
       ELSE held' = [held EXCEPT ![h] = globalChainParams] /\ UNCHANGED fault
    /\ UNCHANGED <<base, globalChainParams, chainOf, live, selections,
                   started, tuned>>

\* Holder h reads through the reference it kept and drops it.  If the
\* object was destroyed meanwhile the read is undefined behaviour.
UseParams(h) ==
    /\ Running
    /\ held[h] # NoObject
    /\ held' = [held EXCEPT ![h] = NoObject]
    /\ fault' = IF held[h] \in live THEN "none" ELSE "dangling"
    /\ UNCHANGED <<base, globalChainParams, chainOf, live, selections,
                   started, tuned>>

\* The free UpdateLLMQParams: globalChainParams->UpdateLLMQParams(...),
\* with no assert.  On the installed object the call may change its quorum
\* map (LLMQParams models how); on a null pointer it is undefined.
UpdateLLMQParams ==
    /\ Running
    /\ IF globalChainParams = NoObject
       THEN fault' = "nullDeref" /\ UNCHANGED tuned
       ELSE tuned' = tuned \cup {globalChainParams} /\ UNCHANGED fault
    /\ UNCHANGED <<base, globalChainParams, chainOf, live, held, selections,
                   started>>

Next ==
    \/ \E network \in Networks, constructed \in BOOLEAN :
           SelectParams(network, constructed)
    \/ \E h \in Holders : Params(h) \/ UseParams(h)
    \/ UpdateLLMQParams

Spec == Init /\ [][Next]_vars

-----------------------------------------------------------------------------
(* Properties.                                                             *)

TypeOK ==
    /\ base \in Networks \cup {"none"}
    /\ globalChainParams \in Objects \cup {NoObject}
    /\ chainOf \in [Objects -> Networks \cup {"none"}]
    /\ live \subseteq Objects
    /\ held \in [Holders -> Objects \cup {NoObject}]
    /\ selections \in 0..MaxSelections
    /\ started \in BOOLEAN
    /\ tuned \subseteq Objects
    /\ fault \in {"none", "assert", "nullDeref", "dangling"}

(* Spec 3: the parameter set is active for the lifetime of the process     *)
(* after selection, so a reference returned by Params() or Updates() stays *)
(* valid: no holder ever reads through a reference into a CChainParams     *)
(* that a later SelectParams destroyed.                                    *)
NoDanglingUse == fault # "dangling"

(* Under any order of calls the code admits, what goes wrong needs one of  *)
(* the two misuses spec 3 forbids.  A read through a dangling reference,   *)
(* and base parameters of another network than the installed object (a    *)
(* constructor that threw after SelectBaseParams switched the base), both  *)
(* need a second SelectParams; the null dereference of the free            *)
(* UpdateLLMQParams (line 1010) needs a call before any selection          *)
(* returned, which a first selection that threw also leaves behind.       *)
MisuseOnly ==
    /\ fault = "dangling" => selections >= 2
    /\ (globalChainParams # NoObject /\ base # chainOf[globalChainParams])
           => selections >= 2
    /\ fault = "nullDeref" => ~started
=============================================================================
