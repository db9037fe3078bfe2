----------------------------- MODULE MCTokenBudget -----------------------------
(* Values for model-checking TokenBudget: small ceilings that requests can *)
(* meet exactly, pass by one, and meet on one counter while passing        *)
(* another.  The input counter has no ceiling (max_input_tokens None); it  *)
(* stays finite because every reservation asks for output tokens too.      *)
EXTENDS TokenBudget

CONSTANTS w1, w2, w3

MCWorkers == {w1, w2, w3}

Request(i, o, c) ==
    [r \in Resources |-> CASE r = "input" -> i [] r = "output" -> o
                           [] r = "cost" -> c]

MCCeiling == [r \in {"output", "cost"} |-> IF r = "output" THEN 3 ELSE 2]
MCReservations == {Request(1, 1, 1), Request(0, 2, 0)}
\* With Scale 4: three quarters of a micro-USD, a half and one and a half
\* (both to even).
MCChunks == {[tokens |-> 1, parts |-> 3], [tokens |-> 0, parts |-> 2],
             [tokens |-> 0, parts |-> 6]}
=============================================================================
