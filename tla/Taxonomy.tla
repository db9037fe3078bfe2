-------------------------------- MODULE Taxonomy --------------------------------
(***************************************************************************)
(* The classes and levels of failures (taxonomy/enums.py), the rule that   *)
(* ties them together (taxonomy/envelope.py), and how ExceptionClassifier  *)
(* (taxonomy/classifier.py) finds them for one exception, which is the set *)
(* of the types that isinstance() finds it to be.                          *)
(***************************************************************************)
EXTENDS Naturals, Sequences, FiniteSetsExt

Severity == [EXCEPTION |-> 0, ISSUE |-> 1, HARD_KILL |-> 2]

Permitted == [EXCEPTION |-> {"L0", "L1"}, ISSUE |-> {"L2", "L3"}, HARD_KILL |-> {"L4"}]

As(class, source, level) == [class |-> class, source |-> source, level |-> level]

ControlTypes == {"CancelledError", "KeyboardInterrupt", "SystemExit"}

(* _classify_single: the first rule with one of its types counts.          *)
Rules == <<
    [types |-> {"SecurityViolationError", "StateCorruptionError",
                "CompensationPartialFailureError", "BudgetExhaustedError"},
     as |-> As("HARD_KILL", "ORCHESTRATION", "L4")],
    [types |-> {"BudgetWarningError", "SLAViolationError"},
     as |-> As("ISSUE", "ORCHESTRATION", "L3")],
    [types |-> {"PermissionError", "FileNotFoundError"},
     as |-> As("ISSUE", "DATA_ENV", "L2")],
    [types |-> {"OSError", "CircuitBreakerStateUnavailableError"},
     as |-> As("EXCEPTION", "TOOL", "L0")],
    [types |-> {"ValidationGateError"},
     as |-> As("ISSUE", "MODEL", "L3")] >>

ClassifySingle(types) ==
    LET fitting == {n \in DOMAIN Rules : Rules[n].types \cap types # {}}
    IN  IF fitting # {} THEN Rules[Min(fitting)].as
        ELSE IF types \cap {"ValueError", "TypeError"} # {} /\ "FallbackCapableError" \in types
        THEN As("EXCEPTION", "MODEL", "L1")
        ELSE As("HARD_KILL", "ORCHESTRATION", "L4")
=============================================================================
