---------------------------- MODULE GenesisProofs ----------------------------
(***************************************************************************)
(* Proofs about Genesis, for every size of the nonce space.                *)
(***************************************************************************)
EXTENDS Genesis, TLAPS

(* What the two loops have established at each point:                      *)
(*  - VerifyGenesisPOW has come up from the embedded nonce without meeting *)
(*    a qualifying one (the counter only wraps to 0 on leaving the loop);  *)
(*  - it returns only when the embedded nonce qualifies, and aborts only   *)
(*    when it does not;                                                    *)
(*  - FindDevNetGenesisBlock has tried every nonce below its counter, and  *)
(*    the one it returns is the first that qualifies.                      *)
GenesisInv ==
    /\ TypeOK
    /\ pc = "verify" =>
           /\ start <= nonce
           /\ \A n \in start..(nonce - 1) : n \notin powOK
    /\ pc \in {"devnet", "done", "abortDevNet"} => start \in powOK
    /\ pc \in {"abortNonce", "abortSearch"} => start \notin powOK
    /\ pc = "devnet" => isDevNet /\ \A n \in 0..(nonce - 1) : n \notin devOK
    /\ (pc = "done" /\ isDevNet) =>
           /\ devNonce \in devOK
           /\ \A n \in 0..(devNonce - 1) : n \notin devOK

(* The invariant holds when VerifyGenesisPOW is entered.                  *)
LEMMA InitInv == Init => GenesisInv
<1> SUFFICES ASSUME Init PROVE GenesisInv
  OBVIOUS
<1>1. NonceSpace \in Nat \ {0}
  BY NonceSpaceAssumption
<1>2. 0 \in Nonces
  BY <1>1 DEF Nonces
<1>3. start \in Nat /\ start..(start - 1) = {}
  BY <1>1 DEF Init, Nonces
<1>4. QED
  BY <1>2, <1>3 DEF Init, GenesisInv, TypeOK, Pcs

(* A pass of VerifyGenesisPOW whose hash meets the target.                 *)
LEMMA FoundInv == GenesisInv /\ VerifyHashFound => GenesisInv'
<1> SUFFICES ASSUME GenesisInv, VerifyHashFound PROVE GenesisInv'
  OBVIOUS
<1>1. NonceSpace \in Nat \ {0}
  BY NonceSpaceAssumption
<1>2. /\ nonce \in Nonces /\ start \in Nonces /\ start <= nonce
      /\ \A n \in start..(nonce - 1) : n \notin powOK
  BY DEF GenesisInv, TypeOK, VerifyHashFound
<1>3. CASE start # nonce
  <2>1. start \in start..(nonce - 1)
    BY <1>1, <1>2, <1>3 DEF Nonces
  <2>2. start \notin powOK
    BY <1>2, <2>1
  <2>3. QED
    BY <1>3, <2>2 DEF GenesisInv, TypeOK, VerifyHashFound, Pcs
<1>4. CASE start = nonce
  <2>1. start \in powOK
    BY <1>4 DEF VerifyHashFound
  <2>2. 0 \in Nonces
    BY <1>1 DEF Nonces
  <2>3. QED
    BY <1>4, <2>1, <2>2 DEF GenesisInv, TypeOK, VerifyHashFound,
                            ReturnFromVerify, Pcs
<1>5. QED
  BY <1>3, <1>4

(* A pass of VerifyGenesisPOW that misses: the counter moves up by one,    *)
(* and the loop is left when it wraps to 0.                                *)
LEMMA MissedInv == GenesisInv /\ VerifyHashMissed => GenesisInv'
<1> SUFFICES ASSUME GenesisInv, VerifyHashMissed PROVE GenesisInv'
  OBVIOUS
<1>1. NonceSpace \in Nat \ {0}
  BY NonceSpaceAssumption
<1>2. /\ nonce \in Nonces /\ start \in Nonces /\ start <= nonce
      /\ \A n \in start..(nonce - 1) : n \notin powOK
      /\ nonce \notin powOK
  BY DEF GenesisInv, TypeOK, VerifyHashMissed
<1>3. \A n \in start..nonce : n \notin powOK
  BY <1>1, <1>2 DEF Nonces
<1>4. nonce' \in Nonces
  BY <1>1, <1>2 DEF VerifyHashMissed, Nonces
<1>5. CASE nonce + 1 < NonceSpace
  <2>1. nonce' = nonce + 1 /\ pc' = "verify"
    BY <1>1, <1>2, <1>5 DEF VerifyHashMissed, Nonces
  <2>2. QED
    BY <1>2, <1>3, <1>4, <2>1 DEF GenesisInv, TypeOK, VerifyHashMissed, Pcs
<1>6. CASE nonce + 1 = NonceSpace
  <2>1. pc' = "abortSearch"
    BY <1>1, <1>6 DEF VerifyHashMissed
  <2>2. start \notin powOK
    BY <1>2, <1>3 DEF Nonces
  <2>3. QED
    BY <1>4, <2>1, <2>2 DEF GenesisInv, TypeOK, VerifyHashMissed, Pcs
<1>7. QED
  BY <1>1, <1>2, <1>5, <1>6 DEF Nonces

(* A pass of the devnet loop: return the nonce, or try the next.           *)
LEMMA DevNetStepInv == GenesisInv /\ DevNetStep => GenesisInv'
<1> SUFFICES ASSUME GenesisInv, DevNetStep PROVE GenesisInv'
  OBVIOUS
<1>1. NonceSpace \in Nat \ {0}
  BY NonceSpaceAssumption
<1>2. /\ nonce \in Nonces /\ nonce < MaxNonce /\ isDevNet /\ start \in powOK
      /\ \A n \in 0..(nonce - 1) : n \notin devOK
  BY DEF GenesisInv, TypeOK, DevNetStep
<1>3. CASE nonce \in devOK
  BY <1>2, <1>3 DEF GenesisInv, TypeOK, DevNetStep, Pcs
<1>4. CASE nonce \notin devOK
  <2>1. nonce' = nonce + 1 /\ nonce + 1 \in Nonces
    BY <1>1, <1>2, <1>4 DEF DevNetStep, Nonces, MaxNonce
  <2>2. \A n \in 0..nonce : n \notin devOK
    BY <1>1, <1>2, <1>4 DEF Nonces
  <2>3. pc' = "devnet" /\ UNCHANGED <<powOK, devOK, isDevNet, start, devNonce>>
    BY <1>4 DEF DevNetStep
  <2>4. \A n \in 0..(nonce' - 1) : n \notin devOK'
    BY <1>1, <1>2, <2>1, <2>2, <2>3 DEF Nonces
  <2>5. QED
    BY <1>2, <2>1, <2>3, <2>4 DEF GenesisInv, TypeOK, Pcs
<1>5. QED
  BY <1>3, <1>4

(* The devnet loop running out of nonces.                                *)
LEMMA ExhaustedInv == GenesisInv /\ DevNetExhausted => GenesisInv'
BY DEF GenesisInv, TypeOK, DevNetExhausted, Pcs

(* A step that changes nothing.                                          *)
LEMMA StutterInv == GenesisInv /\ UNCHANGED vars => GenesisInv'
BY DEF GenesisInv, TypeOK, vars

(* Every step of the genesis checks keeps the invariant.                 *)
LEMMA NextInv == GenesisInv /\ [Next]_vars => GenesisInv'
BY FoundInv, MissedInv, DevNetStepInv, ExhaustedInv, StutterInv DEF Next

(* Type correctness of the genesis checks.                                 *)
THEOREM GenesisTypeCorrect == Spec => []TypeOK
<1>1. GenesisInv => TypeOK
  BY DEF GenesisInv
<1>2. QED
  BY <1>1, InitInv, NextInv, PTL DEF Spec

(* VerifyGenesisPOW returns exactly when the embedded nonce meets the      *)
(* target, whatever the hash function and the size of the nonce type.      *)
THEOREM AcceptsExactly == Spec => []VerifyAcceptsExactly
<1>1. GenesisInv => VerifyAcceptsExactly
  BY DEF GenesisInv, VerifyAcceptsExactly
<1>2. QED
  BY <1>1, InitInv, NextInv, PTL DEF Spec

(* FindDevNetGenesisBlock returns the least nonce that meets the target.   *)
THEOREM DevNetMinimal == Spec => []DevNetNonceMinimal
<1>1. GenesisInv => DevNetNonceMinimal
  <2> SUFFICES ASSUME GenesisInv, pc = "done", isDevNet
               PROVE  /\ devNonce \in devOK
                      /\ \A n \in Nonces : n < devNonce => n \notin devOK
    BY DEF DevNetNonceMinimal
  <2>1. devNonce \in Nonces /\ devNonce \in devOK
        /\ \A n \in 0..(devNonce - 1) : n \notin devOK
    BY DEF GenesisInv, TypeOK
  <2>2. QED
    BY <2>1 DEF Nonces
<1>2. QED
  BY <1>1, InitInv, NextInv, PTL DEF Spec
=============================================================================
