--------------------------- MODULE MCLLMQReselect ---------------------------
(* The instance of MCLLMQParams, with SelectParams callable again.         *)
EXTENDS LLMQReselect, MCLLMQParams
=============================================================================
