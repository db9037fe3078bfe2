----------------------------- MODULE RedisBreaker -----------------------------
(***************************************************************************)
(* RedisCircuitBreaker of resilience/circuit_breaker.py.  The state of the *)
(* circuit is one hash in Redis.  Each of _before_call, _record_failure    *)
(* and _record_success loads it (hgetall), decides on the copy and saves   *)
(* the result (hset); nothing locks the hash in between, and calls of      *)
(* several hosts share it.                                                 *)
(*                                                                         *)
(* time.monotonic() differs from host to host.  A time is kept as its age  *)
(* on a reference clock that no host's clock is behind, so an opened_at    *)
(* written by a host that is ahead starts with a negative age.             *)
(*                                                                         *)
(* h_inside is history.  A definition whose name has the form Word_Def is  *)
(* a faulty variant of Def and is otherwise unused.                        *)
(***************************************************************************)
EXTENDS Integers

CONSTANTS
    Calls,             \* activations of call() / async_call() on all hosts
    FailureThreshold,  \* failure_threshold
    Cooldown,          \* cooldown_seconds, in units of Tick
    ProbeCount,        \* half_open_probe_count
    MaxAhead,          \* how far two hosts' monotonic clocks are apart
    Ahead,             \* Ahead[c]: the clock of c's host minus the reference
    Unset              \* opened_at is None

ASSUME RedisAssumption ==
    /\ FailureThreshold \in Nat \ {0}
    /\ Cooldown \in Nat
    /\ ProbeCount \in Nat \ {0}
    /\ MaxAhead \in Nat
    /\ Ahead \in [Calls -> 0 .. MaxAhead]
    /\ Unset \notin Int

VARIABLES
    hash,    \* the Redis hash; a missing one is read as Fresh
    phase,   \* where each call is: before, in or after its function
    step,    \* what it does there next: load, decide or save
    copy     \* its local _RedisState, from load to save

VARIABLE
    h_inside  \* calls that were in call(), and still are, when another call
              \* last changed state or opened_at of the hash

vars == <<hash, phase, step, copy, h_inside>>

Times == {Unset} \cup (-MaxAhead) .. Cooldown

States == [state : {"closed", "open", "half_open"},
           failures : 0 .. FailureThreshold - 1,
           probes : 0 .. ProbeCount - 1,
           openedAt : Times]

Redis(state, failures, probes, openedAt) ==
    [state |-> state, failures |-> failures, probes |-> probes,
     openedAt |-> openedAt]

Fresh == Redis("closed", 0, 0, Unset)

TypeOK ==
    /\ hash \in States
    /\ phase \in [Calls -> {"idle", "entering", "running", "failing",
                            "succeeding"}]
    /\ step \in [Calls -> {"load", "decide", "save"}]
    /\ copy \in [Calls -> States]
    /\ h_inside \subseteq {c \in Calls : phase[c] # "idle"}

Init ==
    /\ hash = Fresh
    /\ phase = [c \in Calls |-> "idle"]
    /\ step = [c \in Calls |-> "load"]
    /\ copy = [c \in Calls |-> Fresh]
    /\ h_inside = {}

-----------------------------------------------------------------------------
(* Time passes on every host; past Cooldown no comparison can tell ages    *)
(* apart.                                                                  *)
Older(t) == IF t = Unset \/ t = Cooldown THEN t ELSE t + 1

Aged(r) == [r EXCEPT !.openedAt = Older(@)]

Tick ==
    /\ hash' = Aged(hash)
    /\ copy' = [c \in Calls |-> Aged(copy[c])]
    /\ UNCHANGED <<phase, step, h_inside>>

(* The time.monotonic() of c's host.                                       *)
Now(c) == -Ahead[c]

Elapsed(c, r) == r.openedAt # Unset /\ r.openedAt + Ahead[c] >= Cooldown

(* c goes on to phase p, where it has loaded nothing yet.                  *)
GoesTo(c, p) ==
    /\ phase' = [phase EXCEPT ![c] = p]
    /\ step' = [step EXCEPT ![c] = "load"]
    /\ copy' = [copy EXCEPT ![c] = Fresh]

(* c's call() ends, with a result or an exception.                         *)
Leaves(c) ==
    /\ GoesTo(c, "idle")
    /\ h_inside' = h_inside \ {c}
    /\ UNCHANGED hash

Enter(c) ==
    /\ phase[c] = "idle"
    /\ GoesTo(c, "entering")
    /\ UNCHANGED <<hash, h_inside>>

At(c, s) == phase[c] \notin {"idle", "running"} /\ step[c] = s

Load(c) ==
    /\ At(c, "load")
    /\ copy' = [copy EXCEPT ![c] = hash]
    /\ step' = [step EXCEPT ![c] = "decide"]
    /\ UNCHANGED <<hash, phase, h_inside>>

(* hgetall raised, or the hash cannot be parsed: c ends with               *)
(* CircuitBreakerStateUnavailableError, even after its function returned.  *)
LoadFails(c) == At(c, "load") /\ Leaves(c)

-----------------------------------------------------------------------------
(* _before_call, on the copy.                                              *)
Admit(c) ==
    /\ phase[c] = "entering" /\ step[c] = "decide"
    /\ copy[c].state # "open"
    /\ GoesTo(c, "running")
    /\ UNCHANGED <<hash, h_inside>>

Reject(c) ==
    /\ phase[c] = "entering" /\ step[c] = "decide"
    /\ copy[c].state = "open"
    /\ ~Elapsed(c, copy[c])
    /\ Leaves(c)

Intends(c, r) ==
    /\ copy' = [copy EXCEPT ![c] = r]
    /\ step' = [step EXCEPT ![c] = "save"]
    /\ UNCHANGED <<hash, phase, h_inside>>

Eager_Probe(c) ==
    /\ phase[c] = "entering" /\ step[c] = "decide"
    /\ copy[c].state = "open"
    /\ Intends(c, Redis("half_open", 0, 0, copy[c].openedAt))

Probe(c) ==
    /\ phase[c] = "entering" /\ step[c] = "decide"
    /\ copy[c].state = "open"
    /\ Elapsed(c, copy[c])
    /\ Intends(c, Redis("half_open", 0, 0, copy[c].openedAt))

(* The function ends: it returned, raised an Exception, or raised another  *)
(* BaseException, which records nothing.                                   *)
Return(c) ==
    /\ phase[c] = "running"
    /\ GoesTo(c, "succeeding")
    /\ UNCHANGED <<hash, h_inside>>

Raise(c) ==
    /\ phase[c] = "running"
    /\ GoesTo(c, "failing")
    /\ UNCHANGED <<hash, h_inside>>

Escape(c) == phase[c] = "running" /\ Leaves(c)

Undated_AfterFailure(c, r) ==
    IF r.state = "half_open" \/ r.failures + 1 >= FailureThreshold
    THEN Redis("open", 0, 0, r.openedAt)
    ELSE [r EXCEPT !.failures = @ + 1]

Uncounted_AfterFailure(c, r) ==
    IF r.state = "half_open" \/ r.failures + 1 > FailureThreshold
    THEN Redis("open", 0, 0, Now(c))
    ELSE [r EXCEPT !.failures = @ + 1]

(* What _record_failure saves.  A failure recorded in an OPEN state counts *)
(* like one in a CLOSED state.                                             *)
AfterFailure(c, r) ==
    IF r.state = "half_open" \/ r.failures + 1 >= FailureThreshold
    THEN Redis("open", 0, 0, Now(c))
    ELSE [r EXCEPT !.failures = @ + 1]

(* What _record_success saves.  A success recorded in an OPEN state closes *)
(* the circuit.                                                            *)
AfterSuccess(r) ==
    IF r.state = "half_open" /\ r.probes + 1 < ProbeCount
    THEN Redis("half_open", 0, r.probes + 1, r.openedAt)
    ELSE Fresh

CountFailure(c) ==
    /\ phase[c] = "failing" /\ step[c] = "decide"
    /\ Intends(c, AfterFailure(c, copy[c]))

CountSuccess(c) ==
    /\ phase[c] = "succeeding" /\ step[c] = "decide"
    /\ Intends(c, AfterSuccess(copy[c]))

-----------------------------------------------------------------------------
(* hset takes effect; c stays in call() if and only if it was entering.    *)
Writes(c) ==
    LET turns == \/ copy[c].state # hash.state
                 \/ copy[c].openedAt # hash.openedAt
    IN  /\ hash' = copy[c]
        /\ h_inside' = IF turns THEN {d \in Calls \ {c} : phase[d] # "idle"}
                       ELSE IF phase'[c] = "idle" THEN h_inside \ {c}
                                                  ELSE h_inside

(* hset returned: an admitted call runs its function, any other is done.   *)
Save(c) ==
    /\ At(c, "save")
    /\ GoesTo(c, IF phase[c] = "entering" THEN "running" ELSE "idle")
    /\ Writes(c)

(* hset raised.  Redis may nevertheless have carried it out, as when the   *)
(* answer is lost or late.                                                 *)
SaveFails(c) ==
    /\ At(c, "save")
    /\ \/ Leaves(c)
       \/ GoesTo(c, "idle") /\ Writes(c)

-----------------------------------------------------------------------------
BeforeCall(c) == Admit(c) \/ Reject(c) \/ Probe(c)

Ends(c) == Return(c) \/ Raise(c) \/ Escape(c)

Step(c) ==
    \/ Load(c) \/ LoadFails(c)
    \/ BeforeCall(c) \/ Ends(c)
    \/ CountFailure(c) \/ CountSuccess(c)
    \/ Save(c) \/ SaveFails(c)

Next == Tick \/ \E c \in Calls : Enter(c) \/ Step(c)

Spec == Init /\ [][Next]_vars

(* Clocks advance, and Redis and the functions answer, one way or another. *)
Fairness == WF_vars(Tick) /\ \A c \in Calls : WF_vars(Step(c))

FairSpec == Spec /\ Fairness

-----------------------------------------------------------------------------
(* Every state in Redis, and every copy, that is not CLOSED says when the  *)
(* circuit opened.  Were opened_at missing from an OPEN one, no call would *)
(* ever be admitted again (circuit_breaker.py:592).                        *)
HasTime(r) == r.state # "closed" => r.openedAt # Unset

OpenedAtKnown == HasTime(hash) /\ \A c \in Calls : HasTime(copy[c])

(* A change of the circuit that the contract of a breaker allows c.        *)
LegalMove(c) ==
    \/ hash'.state = hash.state
    \/ phase[c] = "failing" /\ hash'.state = "open"
    \/ phase[c] = "succeeding" /\ hash.state = "half_open"
                               /\ hash'.state = "closed"
    \/ phase[c] = "entering" /\ hash.state = "open" /\ Elapsed(c, hash)
                             /\ hash'.state = "half_open"

(* The circuit leaves its contract only through calls that were already    *)
(* under way when another one moved it: a call that entered since then     *)
(* opens it by a failure, probes it after the cooldown of its own clock,   *)
(* and closes it only from HALF_OPEN, whatever Redis loses meanwhile.      *)
NewcomersKeepContract ==
    [][\A c \in Calls \ h_inside : step[c] # step'[c] => LegalMove(c)]_vars

(* Neither late failures, nor stale saves, nor lost answers of Redis keep  *)
(* the circuit rejecting for ever: on every host a call that looks again   *)
(* and again finds it admitting.                                           *)
AdmitsAgain ==
    []<>(\A c \in Calls : hash.state = "open" => Elapsed(c, hash))

(* OPEN is "Rejecting calls; waiting for cooldown period"                  *)
(* (circuit_breaker.py:48): it is not left before that has gone by on      *)
(* some host.                                                              *)
OpenWaitsForCooldown ==
    [][hash.state = "open" /\ hash'.state # "open"
       => \E c \in Calls : Elapsed(c, hash)]_vars
=============================================================================
