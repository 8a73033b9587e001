--------------------------- MODULE MCNetworkParams ---------------------------
(* A small instance of NetworkParams: every chain name and an unknown one, *)
(* budget strings of each malformed shape and a well-formed one, integer   *)
(* options in range, a profile name devnet has, one it lacks, and         *)
(* -extcoinindex texts in and out of int range and with no number at all. *)
EXTENDS NetworkParams

Num(n) == [kind |-> "num", val |-> n]

Junk == [kind |-> "junk", val |-> 0]

Big == [kind |-> "big", val |-> 0]

\* A text std::stoi reads a number from, as "12abc".
Prefix(n) == [kind |-> "prefix", val |-> n]

Wide(hi, lo) == [hi |-> hi, lo |-> lo]

MCChains == Networks \cup {"bogus"}

MCBudgetValues ==
    {<<Num(300), Num(310), Num(320)>>,
     <<Num(300), Num(310)>>,
     <<[kind |-> "empty", val |-> 0]>>,
     <<Num(300), Junk, Num(320)>>,
     <<Num(300), Num(310), Big>>}

MCIntValues == {Wide(0, 0), Wide(0, 7)}

MCNameValues == {"llmq400_85", "llmq20_60"}

MCTokenValues == {Num(405), Big, Junk}

MCParamsDefaults == [minDiff |-> 0, highBlocks |-> 0, highFactor |-> 1]

\* 7 and 2^32 + 7: one larger than an int, as GetArg(name, int64_t) may return.
MCWideIntValues == {Wide(0, 7), Wide(1, 7)}

\* -extcoinindex texts that are no whole number but start with one.
MCPrefixTokenValues == {Num(405), Prefix(12)}
=============================================================================
