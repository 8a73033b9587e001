------------------------------ MODULE MCGenesis -----------------------------
(* Genesis with a 2-bit nonce: four nonces, every set of qualifying ones,   *)
(* every starting nonce, devnet or not.  The last nonce, UINT32_MAX's      *)
(* counterpart, is among them.                                             *)
EXTENDS Genesis

\* A 2-bit nonce.
MCNonceSpace == 2^2
=============================================================================
