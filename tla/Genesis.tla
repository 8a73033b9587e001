------------------------------ MODULE Genesis -------------------------------
(***************************************************************************)
(* The genesis checks a network constructor runs in src/src/chainparams.cpp *)
(* VerifyGenesisPOW on the block CreateGenesisBlock built, then, on devnet, *)
(* FindDevNetGenesisBlock on the block CreateDevNetGenesisBlock chains onto *)
(* it.  Both are loops over the nonce of a block whose other fields are     *)
(* fixed, so a block hash is a function of the nonce alone; the model keeps *)
(* of it only which nonces give a hash <= the target of nBits:             *)
(*   powOK  - nonces n for which genesis.GetPOWHash() <= bnTarget,          *)
(*   devOK  - nonces n for which devnet block.GetHash() <= bnTarget.        *)
(* Both are arbitrary sets, as a hash function gives no other guarantee.    *)
(* The nonce is a uint32_t, of which NonceSpace = 2^32 values exist; here  *)
(* the space is a constant and the nonce wraps modulo it likewise.         *)
(***************************************************************************)
EXTENDS Naturals

CONSTANT NonceSpace   \* the number of values of the nonce type

ASSUME NonceSpaceAssumption == NonceSpace \in Nat \ {0}

Nonces == 0..(NonceSpace - 1)

\* UINT32_MAX for the nonce type.
MaxNonce == NonceSpace - 1

VARIABLES
    powOK,     \* nonces whose genesis POW hash meets the target
    devOK,     \* nonces whose devnet block hash meets the target
    isDevNet,  \* the constructor is CDevNetParams
    start,     \* genesis.nNonce, the nonce the constructor passed
    nonce,     \* block.nNonce of the loop running
    pc,        \* where the constructor is
    devNonce   \* nNonce of the devnet genesis block returned

vars == <<powOK, devOK, isDevNet, start, nonce, pc, devNonce>>

\* "verify"      : inside VerifyGenesisPOW
\* "devnet"      : inside FindDevNetGenesisBlock
\* "done"        : both returned (or VerifyGenesisPOW returned, not devnet)
\* "abortNonce"  : assert(genesis.nNonce == block.nNonce) failed
\* "abortSearch" : VerifyGenesisPOW found no nonce, assert(false)
\* "abortDevNet" : FindDevNetGenesisBlock found no nonce, assert(false)
Pcs == {"verify", "devnet", "done", "abortNonce", "abortSearch", "abortDevNet"}

Terminal == {"done", "abortNonce", "abortSearch", "abortDevNet"}

-----------------------------------------------------------------------------
\* The constructor has built its genesis block with nNonce = start and calls
\* VerifyGenesisPOW(genesis), which copies it into block.
Init ==
    /\ powOK \in SUBSET Nonces
    /\ devOK \in SUBSET Nonces
    /\ isDevNet \in BOOLEAN
    /\ start \in Nonces
    /\ nonce = start
    /\ pc = "verify"
    /\ devNonce = 0

\* Mutant: the devnet search started at nonce 1.
ReturnFromVerifyFromOne ==
    IF isDevNet THEN pc' = "devnet" /\ nonce' = 1
                ELSE pc' = "done" /\ UNCHANGED nonce

\* Where VerifyGenesisPOW returns to: the devnet constructor goes on to
\* FindDevNetGenesisBlock(genesis, ...), which builds the devnet block with
\* nNonce 0; the others are done with the genesis checks.
ReturnFromVerify ==
    IF isDevNet THEN pc' = "devnet" /\ nonce' = 0
                ELSE pc' = "done" /\ UNCHANGED nonce

\* Mutant: any qualifying nonce accepted, the nonce assertion dropped.
VerifyHashFoundAnyNonce ==
    /\ pc = "verify"
    /\ nonce \in powOK
    /\ ReturnFromVerify
    /\ UNCHANGED <<powOK, devOK, isDevNet, start, devNonce>>

\* One pass of the do-while loop of VerifyGenesisPOW: the hash of block
\* meets the target.
VerifyHashFound ==
    /\ pc = "verify"
    /\ nonce \in powOK
    /\ IF start # nonce
       THEN pc' = "abortNonce" /\ UNCHANGED nonce
       ELSE ReturnFromVerify
    /\ UNCHANGED <<powOK, devOK, isDevNet, start, devNonce>>

\* Mutant: the counter is wider than the nonce and never wraps to 0.
VerifyHashMissedNoWrap ==
    /\ pc = "verify"
    /\ nonce \notin powOK
    /\ nonce' = nonce + 1
    /\ pc' = IF nonce' = 0 THEN "abortSearch" ELSE "verify"
    /\ UNCHANGED <<powOK, devOK, isDevNet, start, devNonce>>

\* Mutant: the exit test of the do-while dropped.
VerifyHashMissedNoExit ==
    /\ pc = "verify"
    /\ nonce \notin powOK
    /\ nonce' = (nonce + 1) % NonceSpace
    /\ pc' = "verify"
    /\ UNCHANGED <<powOK, devOK, isDevNet, start, devNonce>>

\* One pass of the loop that misses: ++block.nNonce wraps modulo the nonce
\* space, and the loop ends when it comes back to 0.
VerifyHashMissed ==
    /\ pc = "verify"
    /\ nonce \notin powOK
    /\ nonce' = (nonce + 1) % NonceSpace
    /\ pc' = IF nonce' = 0 THEN "abortSearch" ELSE "verify"
    /\ UNCHANGED <<powOK, devOK, isDevNet, start, devNonce>>

\* One pass of the for loop of FindDevNetGenesisBlock, which runs while
\* nNonce < UINT32_MAX.
DevNetStep ==
    /\ pc = "devnet"
    /\ nonce < MaxNonce
    /\ IF nonce \in devOK
       THEN pc' = "done" /\ devNonce' = nonce /\ UNCHANGED nonce
       ELSE nonce' = nonce + 1 /\ UNCHANGED <<pc, devNonce>>
    /\ UNCHANGED <<powOK, devOK, isDevNet, start>>

\* The loop condition fails: error(...) and assert(false).
DevNetExhausted ==
    /\ pc = "devnet"
    /\ ~(nonce < MaxNonce)
    /\ pc' = "abortDevNet"
    /\ UNCHANGED <<powOK, devOK, isDevNet, start, nonce, devNonce>>

Next == VerifyHashFound \/ VerifyHashMissed \/ DevNetStep \/ DevNetExhausted

\* Construction is single-threaded and nothing interrupts the loops.
Spec == Init /\ [][Next]_vars /\ WF_vars(Next)

-----------------------------------------------------------------------------
TypeOK ==
    /\ powOK \subseteq Nonces
    /\ devOK \subseteq Nonces
    /\ isDevNet \in BOOLEAN
    /\ start \in Nonces
    /\ nonce \in Nonces
    /\ pc \in Pcs
    /\ devNonce \in Nonces

(* VerifyGenesisPOW accepts exactly the blocks whose own nonce meets the   *)
(* target: it returns only if genesis.nNonce does, and it aborts (on the   *)
(* nonce assertion or after the search wraps) only if it does not.         *)
VerifyAcceptsExactly ==
    /\ pc \in {"devnet", "done", "abortDevNet"} => start \in powOK
    /\ pc \in {"abortNonce", "abortSearch"} => start \notin powOK

(* The devnet genesis block FindDevNetGenesisBlock returns carries the     *)
(* smallest nonce whose hash meets the target.                             *)
DevNetNonceMinimal ==
    (pc = "done" /\ isDevNet) =>
        /\ devNonce \in devOK
        /\ \A n \in Nonces : n < devNonce => n \notin devOK

(* The genesis checks of every constructor terminate: the loops are        *)
(* bounded by the nonce space.                                             *)
Terminates == <>(pc \in Terminal)

(* Spec section 4.2: the devnet search runs to the exhaustion of the nonce *)
(* space, so FindDevNetGenesisBlock fails only if no nonce at all gives a  *)
(* hash that meets the target.                                             *)
DevNetAbortsOnlyIfNoNonce ==
    pc = "abortDevNet" => devOK = {}
=============================================================================
