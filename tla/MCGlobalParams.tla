--------------------------- MODULE MCGlobalParams ---------------------------
(***************************************************************************)
(* A small instance of GlobalParams for TLC.  Four holders of a Params()   *)
(* reference, so that references are taken, kept and used in every order  *)
(* around the other calls, and up to three SelectParams calls, enough for  *)
(* a re-selection after a failed one and after a reference was taken.     *)
(***************************************************************************)
EXTENDS GlobalParams

CONSTANTS h1, h2, h3, h4

MCHolders == {h1, h2, h3, h4}

MCMaxSelections == 3
=============================================================================
