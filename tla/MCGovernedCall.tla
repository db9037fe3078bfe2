---------------------------- MODULE MCGovernedCall ----------------------------
(* Values for model-checking GovernedCall.  Two calls overlap, one of them *)
(* with a fallback; the breaker trips at the first fault and has one probe *)
(* slot, so every admission decision is met while a call is retrying.      *)
EXTENDS GovernedCall

CONSTANTS c1, c2, k1, k2

MCCalls == {c1, c2}
MCKeys == {k1, k2}
MCKey == [c \in MCCalls |-> IF c = c1 THEN k1 ELSE k2]
MCHasFallback == {c1}
=============================================================================
