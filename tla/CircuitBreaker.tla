---------------------------- MODULE CircuitBreaker ----------------------------
(***************************************************************************)
(* The in-process circuit breakers of resilience/circuit_breaker.py:       *)
(* InMemoryCircuitBreaker (call and async_call) and                        *)
(* AsyncInMemoryCircuitBreaker.  Each activation of call() is one element  *)
(* of Calls.  It takes the breaker's lock twice, once to be admitted and   *)
(* once when its function ends, so admission and end are one action each   *)
(* and any number of other activations may run between them.               *)
(*                                                                         *)
(* Variables named h_* are history: no action of the code reads them.      *)
(* A definition whose name has the form Word_Def is a faulty variant of    *)
(* Def; it shows which property notices that fault and is otherwise        *)
(* unused.                                                                 *)
(***************************************************************************)
EXTENDS Naturals, FiniteSets

CONSTANTS
    Calls,             \* activations of call() / async_call() that may overlap
    FailureThreshold,  \* failure_threshold
    Cooldown,          \* cooldown_seconds, in units of Tick
    ProbeCount,        \* half_open_probe_count
    BudgetExempt       \* TRUE: InMemoryCircuitBreaker, which has an except
                       \* branch for BudgetExhaustedError; FALSE:
                       \* AsyncInMemoryCircuitBreaker, which has none

(* The constructors check none of their arguments; these are the values    *)
(* for which the words of their docstrings make sense.                     *)
ASSUME BreakerAssumption ==
    /\ FailureThreshold \in Nat \ {0}
    /\ Cooldown \in Nat
    /\ ProbeCount \in Nat \ {0}
    /\ BudgetExempt \in BOOLEAN

VARIABLES
    state,          \* _state
    failureCount,   \* _failure_count
    probeSuccess,   \* _probe_success_count
    probeInFlight,  \* _probe_in_flight_count
    openAge,        \* time.monotonic() - _opened_at, up to Cooldown; it is
                    \* read, and so kept, only while the circuit is open
    running,        \* calls whose fn is running
    probes          \* those of them whose local admitted_probe is True

VARIABLES
    h_openFor,      \* time since state last became "open", up to Cooldown
    h_strikes,      \* faults since the last success that cleared the failure
                    \* counter, up to FailureThreshold
    h_current,      \* running probes admitted in the present half-open window
    h_lost,         \* probes of the window that ended without giving back
                    \* their slot
    h_late,         \* probes of an earlier window that gave one back in this
    h_probeOk       \* probes of the window that succeeded

codeVars == <<state, failureCount, probeSuccess, probeInFlight, openAge,
              running, probes>>
windowVars == <<h_current, h_lost, h_late, h_probeOk>>
vars == <<codeVars, h_openFor, h_strikes, windowVars>>

TypeOK ==
    /\ state \in {"closed", "open", "half_open"}
    /\ failureCount \in 0 .. FailureThreshold - 1
    /\ probeSuccess \in 0 .. ProbeCount - 1
    /\ probeInFlight \in 0 .. ProbeCount
    /\ openAge \in 0 .. Cooldown
    /\ h_openFor \in openAge .. Cooldown
    /\ running \subseteq Calls
    /\ probes \subseteq running
    /\ h_current \subseteq probes
    /\ IsFiniteSet(h_current)
    /\ h_strikes \in 0 .. FailureThreshold
    /\ BudgetExempt => failureCount <= h_strikes
    /\ h_lost \in Nat /\ h_late \in Nat
    /\ h_probeOk \in 0 .. ProbeCount

Init ==
    /\ state = "closed"
    /\ failureCount = 0 /\ probeSuccess = 0 /\ probeInFlight = 0
    /\ openAge = 0 /\ running = {} /\ probes = {}
    /\ h_openFor = 0 /\ h_strikes = 0
    /\ h_current = {} /\ h_lost = 0 /\ h_late = 0 /\ h_probeOk = 0

-----------------------------------------------------------------------------
(* Time passes.                                                            *)
Tick ==
    /\ state = "open"
    /\ openAge < Cooldown
    /\ openAge' = openAge + 1
    /\ h_openFor' = IF h_openFor < Cooldown THEN h_openFor + 1 ELSE h_openFor
    /\ UNCHANGED <<state, failureCount, probeSuccess, probeInFlight, running,
                   probes, h_strikes, windowVars>>

Early_CooldownElapsed == openAge + 1 >= Cooldown
CooldownElapsed == openAge >= Cooldown

Loose_HasFreeSlot == probeInFlight <= ProbeCount
HasFreeSlot == probeInFlight < ProbeCount

(* The calls the first critical section lets through.                      *)
CanAdmit ==
    \/ state = "closed"
    \/ state = "open" /\ CooldownElapsed
    \/ state = "half_open" /\ HasFreeSlot

Admit(c) ==
    /\ c \notin running
    /\ state = "closed"
    /\ running' = running \cup {c}
    /\ UNCHANGED <<state, failureCount, probeSuccess, probeInFlight, openAge,
                   probes, h_openFor, h_strikes, windowVars>>

StartProbe(c) ==
    /\ running' = running \cup {c}
    /\ probes' = probes \cup {c}

(* The first call after the cooldown opens a half-open window, with both   *)
(* probe counters reset, and is its first probe.  Slots still held by      *)
(* probes of an earlier window are forgotten.                              *)
AdmitFirstProbe(c) ==
    /\ c \notin running
    /\ state = "open" /\ CooldownElapsed
    /\ state' = "half_open"
    /\ probeSuccess' = 0
    /\ probeInFlight' = 1
    /\ StartProbe(c)
    /\ h_current' = {c} /\ h_lost' = 0 /\ h_late' = 0 /\ h_probeOk' = 0
    /\ UNCHANGED <<failureCount, openAge, h_openFor, h_strikes>>

AdmitProbe(c) ==
    /\ c \notin running
    /\ state = "half_open" /\ HasFreeSlot
    /\ probeInFlight' = probeInFlight + 1
    /\ StartProbe(c)
    /\ h_current' = h_current \cup {c}
    /\ UNCHANGED <<state, failureCount, probeSuccess, openAge, h_openFor,
                   h_strikes, h_lost, h_late, h_probeOk>>

(* CircuitBreakerStateUnavailableError, with nothing changed.              *)
Reject(c) ==
    /\ c \notin running
    /\ ~CanAdmit
    /\ UNCHANGED vars

-----------------------------------------------------------------------------
Leave(c) ==
    /\ running' = running \ {c}
    /\ probes' = probes \ {c}

Unclamped_Released(c) ==
    IF c \in probes THEN probeInFlight - 1 ELSE probeInFlight
Missing_Released(c) == probeInFlight

(* max(0, _probe_in_flight_count - 1), for a call that holds a slot.       *)
Released(c) ==
    IF c \in probes /\ probeInFlight > 0 THEN probeInFlight - 1
                                         ELSE probeInFlight

(* c gives its slot back while the window stays open.                      *)
RecordRelease(c) ==
    /\ h_current' = h_current \ {c}
    /\ h_late' = IF state = "half_open" /\ c \in probes \ h_current
                 THEN h_late + 1 ELSE h_late
    /\ UNCHANGED h_lost

CloseWindow == h_current' = {} /\ h_lost' = 0 /\ h_late' = 0

(* fn returned in a half-open window: the success is counted whether or    *)
(* not c is one of its probes, and enough of them close the circuit.       *)
SucceedHalfOpen(c) ==
    /\ c \in running
    /\ state = "half_open"
    /\ Leave(c)
    /\ h_probeOk' = IF c \in h_current THEN h_probeOk + 1 ELSE h_probeOk
    /\ \/ /\ probeSuccess + 1 >= ProbeCount
          /\ state' = "closed"
          /\ failureCount' = 0 /\ probeSuccess' = 0 /\ probeInFlight' = 0
          /\ h_strikes' = 0
          /\ CloseWindow
       \/ /\ probeSuccess + 1 < ProbeCount
          /\ probeSuccess' = probeSuccess + 1
          /\ probeInFlight' = Released(c)
          /\ RecordRelease(c)
          /\ UNCHANGED <<state, failureCount, h_strikes>>
    /\ UNCHANGED <<openAge, h_openFor>>

(* fn returned with the circuit closed or open: the failure counter is     *)
(* reset, and a slot c holds is not given back.                            *)
Succeed(c) ==
    /\ c \in running
    /\ state # "half_open"
    /\ Leave(c)
    /\ failureCount' = 0
    /\ h_strikes' = 0
    /\ UNCHANGED <<state, probeSuccess, probeInFlight, openAge, h_openFor,
                   windowVars>>

(* The except Exception branch.  A half-open circuit opens again whichever *)
(* call failed; only a call that holds no slot then counts as a failure,   *)
(* and FailureThreshold of those open the circuit (again).                 *)
CountedFailures(c) ==
    (IF state = "half_open" THEN 0 ELSE failureCount)
    + (IF c \in probes THEN 0 ELSE 1)

Fault(c) ==
    LET reopens == state = "half_open"
        trips == c \notin probes /\ CountedFailures(c) >= FailureThreshold
        opens == reopens \/ trips
    IN  /\ Leave(c)
        /\ state' = IF opens THEN "open" ELSE state
        /\ openAge' = IF opens THEN 0 ELSE openAge
        /\ failureCount' = IF trips THEN 0 ELSE CountedFailures(c)
        /\ probeSuccess' = IF reopens THEN 0 ELSE probeSuccess
        /\ probeInFlight' = Released(c)
        /\ h_openFor' = IF opens /\ state # "open" THEN 0 ELSE h_openFor
        /\ IF reopens THEN CloseWindow /\ h_probeOk' = 0
                      ELSE UNCHANGED windowVars

Fail(c) ==
    /\ c \in running
    /\ Fault(c)
    /\ h_strikes' = IF h_strikes < FailureThreshold THEN h_strikes + 1
                                                    ELSE h_strikes

Counting_Exhaust(c) == c \in running /\ Fault(c) /\ UNCHANGED h_strikes

(* fn raised BudgetExhaustedError.                                         *)
Exhaust(c) ==
    /\ c \in running
    /\ \/ /\ BudgetExempt
          /\ Leave(c)
          /\ probeInFlight' = Released(c)
          /\ RecordRelease(c)
          /\ UNCHANGED <<state, failureCount, probeSuccess, openAge,
                         h_openFor, h_probeOk>>
       \/ /\ ~BudgetExempt
          /\ Fault(c)
    /\ UNCHANGED h_strikes

(* fn raised a BaseException that is not an Exception - asyncio's          *)
(* CancelledError, AgentHardKillError, SecurityViolationError and the      *)
(* other errors of taxonomy/errors.py: no branch of call() runs, and the   *)
(* slot c holds is never given back.                                       *)
Escape(c) ==
    /\ c \in running
    /\ Leave(c)
    /\ h_current' = h_current \ {c}
    /\ h_lost' = IF c \in h_current THEN h_lost + 1 ELSE h_lost
    /\ UNCHANGED <<state, failureCount, probeSuccess, probeInFlight, openAge,
                   h_openFor, h_strikes, h_late, h_probeOk>>

-----------------------------------------------------------------------------
Enter(c) == Admit(c) \/ AdmitFirstProbe(c) \/ AdmitProbe(c) \/ Reject(c)

Finish(c) ==
    SucceedHalfOpen(c) \/ Succeed(c) \/ Fail(c) \/ Exhaust(c) \/ Escape(c)

Next == Tick \/ \E c \in Calls : Enter(c) \/ Finish(c)

Spec == Init /\ [][Next]_vars

(* Clocks advance and every function that was started ends, one way or     *)
(* another.  Nothing obliges anybody to make another call.                 *)
Fairness == WF_vars(Tick) /\ \A c \in Calls : WF_vars(Finish(c))

FairSpec == Spec /\ Fairness

-----------------------------------------------------------------------------
(* In a half-open window the in-flight counter is never above the number   *)
(* of the window's probes that still run or were lost, and below it only   *)
(* by the slots that probes of an earlier window gave back in this one     *)
(* (their local admitted_probe does not say which window it is from).      *)
SlotAccounting ==
    /\ state # "half_open" => h_current = {} /\ h_lost = 0 /\ h_late = 0
    /\ state = "half_open" =>
        /\ probeInFlight <= Cardinality(h_current) + h_lost
        /\ Cardinality(h_current) + h_lost <= probeInFlight + h_late
        /\ h_probeOk <= probeSuccess

(* At most half_open_probe_count probes of a window run at once or are     *)
(* lost, one more for each late end of an earlier window's probe.          *)
ProbeLimit == Cardinality(h_current) + h_lost <= ProbeCount + h_late

(* A closed circuit opens only when failure_threshold calls have failed    *)
(* with an error of the function since the failure counter was last        *)
(* cleared: running out of budget is not a fault of the tool.              *)
TripsOnFaults ==
    [][state = "closed" /\ state' = "open"
       => h_strikes' = FailureThreshold]_vars

(* The breaker keeps the contract, with the true time since the circuit    *)
(* opened as its rest: _opened_at can only be later than that.             *)
Contract == INSTANCE BreakerContract
            WITH circuit <- state, rest <- h_openFor, live <- running
ImplementsContract == Contract!Spec

(* As long as no probe ends without giving back its slot, the breaker      *)
(* always comes to a state in which it lets a call through: late failures  *)
(* cannot prolong OPEN, nor running probes fill HALF_OPEN, for ever.       *)
AdmitsAgain == []<>(CanAdmit \/ h_lost > 0)

(* HALF_OPEN is for "allowing probe calls to test if the service has       *)
(* recovered" (circuit_breaker.py:51): a breaker does not reject every     *)
(* call from some point on.                                                *)
NeverRejectsForEver == []<>CanAdmit

(* half_open_probe_count is "Successful probes needed to transition back   *)
(* to CLOSED" (circuit_breaker.py:136).                                    *)
ClosesOnProbeSuccesses ==
    [][state = "half_open" /\ state' = "closed"
       => h_probeOk' >= ProbeCount]_vars
=============================================================================
