--------------------------- MODULE BreakerContract ---------------------------
(***************************************************************************)
(* What a circuit breaker promises its callers, whichever implementation   *)
(* keeps its state: when calls may begin, and which end of a call may move *)
(* the circuit where.  It is stated from the CircuitState enumeration and  *)
(* the "Args" of the breaker classes (circuit_breaker.py), without any of  *)
(* the counters an implementation uses to decide.                          *)
(***************************************************************************)
EXTENDS Naturals

CONSTANTS Calls,     \* activations of call() / async_call()
          Cooldown   \* time units OPEN lasts before a probe may begin

VARIABLES circuit,   \* "closed", "open" or "half_open"
          rest,      \* time since the circuit last became open, up to Cooldown
          live       \* calls whose function is running

contractVars == <<circuit, rest, live>>

Init == /\ circuit = "closed"
        /\ rest = 0
        /\ live = {}

(* A call begins while the circuit passes calls or probes; a call that     *)
(* finds it open begins only once the whole cooldown has gone by, and is   *)
(* then the first probe.                                                   *)
Begin(c) ==
    /\ c \notin live
    /\ live' = live \cup {c}
    /\ rest' = rest
    /\ \/ circuit \in {"closed", "half_open"} /\ circuit' = circuit
       \/ circuit = "open" /\ rest >= Cooldown /\ circuit' = "half_open"

(* The circuit changes only when some call ends: failures open it, probe   *)
(* successes close it, and an open circuit is never closed by a call that  *)
(* was already under way.                                                  *)
End(c) ==
    /\ c \in live
    /\ live' = live \ {c}
    /\ \/ circuit' = circuit /\ rest' = rest
       \/ circuit = "half_open" /\ circuit' = "closed" /\ rest' = rest
       \/ circuit # "open" /\ circuit' = "open" /\ rest' = 0

Elapse ==
    /\ circuit = "open"
    /\ rest < Cooldown
    /\ rest' = rest + 1
    /\ UNCHANGED <<circuit, live>>

Next == Elapse \/ \E c \in Calls : Begin(c) \/ End(c)

Spec == Init /\ [][Next]_contractVars
=============================================================================
