----------------------------- MODULE GovernedCall -----------------------------
(***************************************************************************)
(* resilient() and async_resilient() of resilience/wrap.py: one bundle     *)
(* whose circuit breaker, call and failure budget, retry tracker and dead- *)
(* letter queue are shared by overlapping governed calls.  A call passes   *)
(*                                                                         *)
(*   guard rails, budget -> breaker ( retry loop ( fn ) ) -> output gate   *)
(*                                                                         *)
(* and, when any of these raises, reports an envelope and then takes the   *)
(* terminal action of its tier.  The breaker is module CircuitBreaker: its *)
(* first critical section is entered at "admission", its second when the   *)
(* retry loop has ended ("leaving", or Returns).                           *)
(*                                                                         *)
(* The sync and the async pipeline run the same steps; Cancel and          *)
(* Interrupted are a cancellation delivered at an await of the async one,  *)
(* or an exception that the "_safe_*" wrappers let through.  Variables     *)
(* named h_* are history, and a definition named Word_Def is a faulty      *)
(* variant of Def.                                                         *)
(***************************************************************************)
EXTENDS Naturals, FiniteSets

CONSTANTS
    Calls,              \* governed calls that may overlap
    Keys,               \* correlation ids
    Key,                \* Key[c]: the correlation id c is configured with
    MaxAttempts,        \* ExponentialBackoffRetry.max_attempts; 1: NoOpRetry
    MaxToolCalls,       \* AgentBudget.max_tool_calls
    FailureBudget,      \* AgentBudget.failure_budget
    HasFallback         \* calls configured with a fallback_value

CONSTANTS FailureThreshold, Cooldown, ProbeCount, BudgetExempt

ASSUME CallAssumption ==
    /\ Key \in [Calls -> Keys]
    /\ MaxAttempts \in Nat \ {0}
    /\ MaxToolCalls \in Nat
    /\ FailureBudget \in Nat
    /\ HasFallback \subseteq Calls
    /\ FailureThreshold \in Nat \ {0}
    /\ Cooldown \in Nat
    /\ ProbeCount \in Nat \ {0}
    /\ BudgetExempt \in BOOLEAN

VARIABLES
    pc,         \* where each call is
    attempt,    \* attempts of fn its retry loop has begun
    error,      \* what was raised last in it
    verdict,    \* exception_class of its envelope
    outcome     \* how its last invocation ended

VARIABLES
    callCount,  \* _call_count, up to MaxToolCalls + 1
    failures,   \* _failure_count, up to FailureBudget + 1
    tracker,    \* keys of InMemoryRetryInFlightTracker._entries
    dlq         \* calls whose present envelope was offered to the DLQ

VARIABLES
    h_ran,      \* invocations that got past the call budget
    h_overtime, \* attempts its loop began with the failure budget spent
    h_failed    \* calls that failed for good since a call last succeeded and
                \* the circuit was closed, up to FailureThreshold

VARIABLES state, failureCount, probeSuccess, probeInFlight, openAge, running,
          probes, h_openFor, h_strikes, h_current, h_lost, h_late, h_probeOk

breakerVars == <<state, failureCount, probeSuccess, probeInFlight, openAge,
                 running, probes, h_openFor, h_strikes, h_current, h_lost,
                 h_late, h_probeOk>>

Breaker == INSTANCE CircuitBreaker

callVars == <<pc, attempt, error, verdict, outcome>>
sharedVars == <<callCount, failures, tracker, dlq, h_ran, h_overtime,
                h_failed>>
vars == <<callVars, sharedVars, breakerVars>>

(* What fn may raise.  Exceptions are counted as failed attempts:          *)
(* "transient" is retryable (TimeoutError, ConnectionError, OSError),      *)
(* "issue" is not, "unknown" has no classification, "exhausted" is         *)
(* BudgetExhaustedError.  The others are BaseExceptions: "security" for    *)
(* the SDK's own, "kill" for the AgentHardKillError of a nested governed   *)
(* call, "cancelled" for CancelledError, KeyboardInterrupt, SystemExit,    *)
(* and "mixed" for a group with a "cancelled" and an "issue" branch.       *)
Exceptions == {"transient", "issue", "unknown", "exhausted"}
BaseExceptions == {"security", "kill", "cancelled", "mixed"}

SdkErrors == {"security", "exhausted"}    \* handled by a branch of their own
Unhandled == {"cancelled", "kill"}        \* pass through every except clause

(* AgentExceptionClassifier.classify; EXCEPTION and ISSUE are handled by   *)
(* the same code and called "recoverable".                                 *)
Classify(e) == IF e \in SdkErrors \cup {"unknown"} THEN "hard_kill"
                                                   ELSE "recoverable"

InLoop == {"attempt", "backoff"}
Places == InLoop \cup {"idle", "admission", "leaving", "report", "tier", "kill"}
Outcomes == {"none", "value", "raised", "killed", "passed", "interrupted"}

TypeOK ==
    /\ pc \in [Calls -> Places]
    /\ attempt \in [Calls -> 0 .. MaxAttempts]
    /\ error \in [Calls -> Exceptions \cup BaseExceptions \cup {"none"}]
    /\ verdict \in [Calls -> {"none", "recoverable", "hard_kill"}]
    /\ outcome \in [Calls -> Outcomes]
    /\ callCount \in 0 .. MaxToolCalls + 1
    /\ failures \in 0 .. FailureBudget + 1
    /\ tracker \subseteq Keys
    /\ dlq \subseteq Calls
    /\ h_ran \in Nat
    /\ h_overtime \in [Calls -> Nat]
    /\ h_failed \in 0 .. FailureThreshold

Init ==
    /\ pc = [c \in Calls |-> "idle"]
    /\ attempt = [c \in Calls |-> 0]
    /\ error = [c \in Calls |-> "none"]
    /\ verdict = [c \in Calls |-> "none"]
    /\ outcome = [c \in Calls |-> "none"]
    /\ callCount = 0 /\ failures = 0
    /\ tracker = {} /\ dlq = {}
    /\ h_ran = 0
    /\ h_overtime = [c \in Calls |-> 0]
    /\ h_failed = 0
    /\ Breaker!Init

-----------------------------------------------------------------------------
Goto(c, place) == pc' = [pc EXCEPT ![c] = place]

(* The call ends, its caller sees outcome o.                               *)
End(c, o) ==
    /\ Goto(c, "idle")
    /\ outcome' = [outcome EXCEPT ![c] = o]

(* An except clause catches e, classifies it and builds the envelope.      *)
Catch(c, e) ==
    /\ Goto(c, "report")
    /\ error' = [error EXCEPT ![c] = e]
    /\ verdict' = [verdict EXCEPT ![c] = Classify(e)]

UpTo(bound, n) == IF n < bound THEN n ELSE bound

Late_CallsExceeded(count) == count > MaxToolCalls + 1
CallsExceeded(count) == count > MaxToolCalls

(* A new invocation: guard_rails.check, then consume_call.                 *)
Invoke(c) ==
    LET counted == UpTo(MaxToolCalls + 1, callCount + 1)
    IN  /\ pc[c] = "idle"
        /\ outcome' = [outcome EXCEPT ![c] = "none"]
        /\ dlq' = dlq \ {c}
        /\ UNCHANGED <<attempt, failures, tracker, h_overtime, h_failed,
                       breakerVars>>
        /\ \/ /\ Catch(c, "security")
              /\ UNCHANGED <<callCount, h_ran>>
           \/ /\ CallsExceeded(callCount + 1)
              /\ callCount' = counted
              /\ Catch(c, "exhausted")
              /\ UNCHANGED h_ran
           \/ /\ ~CallsExceeded(callCount + 1)
              /\ callCount' = counted
              /\ h_ran' = h_ran + 1
              /\ Goto(c, "admission")
              /\ error' = [error EXCEPT ![c] = "none"]
              /\ verdict' = [verdict EXCEPT ![c] = "none"]

FailureBudgetSpent == failures >= FailureBudget

BeginAttempt(c) ==
    /\ Goto(c, "attempt")
    /\ attempt' = [attempt EXCEPT ![c] = @ + 1]
    /\ h_overtime' = [h_overtime EXCEPT ![c] =
                        IF FailureBudgetSpent THEN @ + 1 ELSE @]

Admitted(c) ==
    /\ pc[c] = "admission"
    /\ \/ Breaker!Admit(c)
       \/ Breaker!AdmitFirstProbe(c)
       \/ Breaker!AdmitProbe(c)
    /\ BeginAttempt(c)
    /\ UNCHANGED <<error, verdict, outcome, callCount, failures, tracker, dlq,
                   h_ran, h_failed>>

Waiting_Rejected(c) == FALSE

(* CircuitBreakerStateUnavailableError is classified as transient.         *)
Rejected(c) ==
    /\ pc[c] = "admission"
    /\ Breaker!Reject(c)
    /\ Catch(c, "transient")
    /\ UNCHANGED <<attempt, outcome, sharedVars>>

-----------------------------------------------------------------------------
(* The retry policy's finally clause.                                      *)
Missing_Complete(c) == UNCHANGED tracker
Complete(c) == tracker' = tracker \ {Key[c]}

(* The loop's locals are gone.                                             *)
Forget(c) ==
    /\ attempt' = [attempt EXCEPT ![c] = 0]
    /\ h_overtime' = [h_overtime EXCEPT ![c] = 0]

(* fn returns, the loop and the breaker's call end, and the output gate    *)
(* accepts the result or raises ValidationGateError.                       *)
Returns(c) ==
    /\ pc[c] = "attempt"
    /\ Breaker!SucceedHalfOpen(c) \/ Breaker!Succeed(c)
    /\ Complete(c)
    /\ Forget(c)
    /\ h_failed' = IF state' = "closed" THEN 0 ELSE h_failed
    /\ \/ End(c, "value") /\ UNCHANGED <<error, verdict>>
       \/ Catch(c, "issue") /\ UNCHANGED outcome
    /\ UNCHANGED <<callCount, failures, dlq, h_ran>>

(* e ends the retry loop.                                                  *)
LeaveLoop(c, e) ==
    /\ Goto(c, "leaving")
    /\ error' = [error EXCEPT ![c] = e]
    /\ Complete(c)
    /\ Forget(c)

Equal_Refused(count) == count = FailureBudget
Refused(count) == count >= FailureBudget

(* What leaves _call_fn when fn raised e: record_failure may raise too.    *)
Raised(e) == IF Refused(failures + 1) THEN "exhausted" ELSE e

AttemptsLeft(c) == attempt[c] < MaxAttempts

(* fn raises an Exception.  A transient one is retried while attempts are  *)
(* left and, in a policy with a watchdog, the time budget covers the sleep.*)
Fails(c) ==
    /\ pc[c] = "attempt"
    /\ failures' = UpTo(FailureBudget + 1, failures + 1)
    /\ \E e \in Exceptions :
        LET mayRetry == Raised(e) = "transient" /\ AttemptsLeft(c)
        IN  \/ ~mayRetry /\ LeaveLoop(c, Raised(e))
            \/ mayRetry /\ LeaveLoop(c, "exhausted")
            \/ /\ mayRetry
               /\ Goto(c, "backoff")
               /\ tracker' = tracker \cup {Key[c]}
               /\ UNCHANGED <<error, attempt, h_overtime>>
    /\ UNCHANGED <<verdict, outcome, callCount, dlq, h_ran, h_failed,
                   breakerVars>>

(* fn raises a BaseException: not counted, not retried.                    *)
Breaks(c) ==
    /\ pc[c] = "attempt"
    /\ \E e \in BaseExceptions : LeaveLoop(c, e)
    /\ UNCHANGED <<verdict, outcome, callCount, failures, dlq, h_ran, h_failed,
                   breakerVars>>

PerAttempt_Resume(c) ==
    /\ pc[c] = "backoff"
    /\ Breaker!Fail(c)
    /\ Goto(c, "admission")
    /\ UNCHANGED <<attempt, error, verdict, outcome, sharedVars>>

Resume(c) ==
    /\ pc[c] = "backoff"
    /\ BeginAttempt(c)
    /\ UNCHANGED <<error, verdict, outcome, callCount, failures, tracker, dlq,
                   h_ran, h_failed, breakerVars>>

(* The breaker's second critical section, then the except clauses.         *)
Leaves(c) ==
    /\ pc[c] = "leaving"
    /\ CASE error[c] = "exhausted" -> Breaker!Exhaust(c)
         [] error[c] \in BaseExceptions -> Breaker!Escape(c)
         [] OTHER -> Breaker!Fail(c)
    /\ h_failed' = IF error[c] \in BaseExceptions THEN h_failed
                   ELSE UpTo(FailureThreshold, h_failed + 1)
    /\ IF error[c] \in Unhandled
       THEN End(c, "passed") /\ UNCHANGED <<error, verdict>>
       ELSE Catch(c, error[c]) /\ UNCHANGED outcome
    /\ UNCHANGED <<attempt, callCount, failures, tracker, dlq, h_ran,
                   h_overtime>>

(* CancelledError while the call waits for the breaker's asyncio.Lock or   *)
(* sleeps between two attempts.                                            *)
Cancel(c) ==
    /\ \/ /\ pc[c] = "admission"
          /\ End(c, "passed")
          /\ error' = [error EXCEPT ![c] = "cancelled"]
          /\ UNCHANGED <<tracker, attempt, h_overtime>>
       \/ /\ pc[c] = "backoff"
          /\ LeaveLoop(c, "cancelled")
          /\ UNCHANGED outcome
    /\ UNCHANGED <<verdict, callCount, failures, dlq, h_ran, h_failed,
                   breakerVars>>

-----------------------------------------------------------------------------
handlerSkips == <<attempt, error, callCount, failures, tracker, h_ran,
                  h_overtime, h_failed, breakerVars>>

(* Sink and bus; then the SDK's own errors go straight to their terminal   *)
(* action and everything else to _handle_tier.                             *)
Report(c) ==
    /\ pc[c] = "report"
    /\ Goto(c, IF error[c] \in SdkErrors THEN "kill" ELSE "tier")
    /\ UNCHANGED <<verdict, outcome, dlq, handlerSkips>>

(* The recovery policy or the router's directive supplies a state.         *)
Recover(c) ==
    /\ pc[c] = "tier" /\ verdict[c] = "recoverable"
    /\ End(c, "value")
    /\ UNCHANGED <<verdict, dlq, handlerSkips>>

(* The router's directive is "abort": _promote_to_hard_kill.               *)
Abort(c) ==
    /\ pc[c] = "tier" /\ verdict[c] = "recoverable"
    /\ verdict' = [verdict EXCEPT ![c] = "hard_kill"]
    /\ Goto(c, "kill")
    /\ UNCHANGED <<outcome, dlq, handlerSkips>>

Eager_FallBack(c) ==
    /\ pc[c] = "tier"
    /\ End(c, IF c \in HasFallback THEN "value" ELSE "raised")
    /\ UNCHANGED <<verdict, dlq, handlerSkips>>

(* No directive applies: the fallback value, or the original error.        *)
FallBack(c) ==
    /\ pc[c] = "tier" /\ verdict[c] = "recoverable"
    /\ End(c, IF c \in HasFallback THEN "value" ELSE "raised")
    /\ UNCHANGED <<verdict, dlq, handlerSkips>>

(* The HARD_KILL handler is told; what it answers is ignored.              *)
RouteHardKill(c) ==
    /\ pc[c] = "tier" /\ verdict[c] = "hard_kill"
    /\ Goto(c, "kill")
    /\ UNCHANGED <<verdict, outcome, dlq, handlerSkips>>

Kill(c) ==
    /\ pc[c] = "kill"
    /\ dlq' = dlq \cup {c}
    /\ End(c, "killed")
    /\ UNCHANGED <<verdict, handlerSkips>>

(* A BaseException out of sink, bus, handler, DLQ or metrics, a            *)
(* cancellation while bus or DLQ is awaited, or any exception of the       *)
(* recovery policy, ends the call on the spot; in the terminal action      *)
(* this may come after the DLQ has the envelope.                           *)
Interrupted(c) ==
    /\ \/ pc[c] \in {"report", "tier", "kill"} /\ UNCHANGED dlq
       \/ pc[c] = "kill" /\ dlq' = dlq \cup {c}
    /\ End(c, "interrupted")
    /\ UNCHANGED <<verdict, handlerSkips>>

-----------------------------------------------------------------------------
Handle(c) ==
    Report(c) \/ Recover(c) \/ Abort(c) \/ FallBack(c) \/ RouteHardKill(c)
    \/ Kill(c)

(* The steps a started call takes by itself.                               *)
Advance(c) ==
    \/ Admitted(c) \/ Rejected(c)
    \/ Returns(c) \/ Fails(c) \/ Breaks(c) \/ Resume(c) \/ Leaves(c)
    \/ Handle(c)

ClockTick == Breaker!Tick /\ UNCHANGED <<callVars, sharedVars>>

Next ==
    \/ ClockTick
    \/ \E c \in Calls :
        Invoke(c) \/ Advance(c) \/ Cancel(c) \/ Interrupted(c)

Spec == Init /\ [][Next]_vars

(* Functions end, sleeps end and no handler runs for ever; neither a new   *)
(* invocation nor a cancellation ever has to come.                         *)
Fairness == WF_vars(ClockTick) /\ \A c \in Calls : WF_vars(Advance(c))

FairSpec == Spec /\ Fairness

-----------------------------------------------------------------------------
(* A call whose envelope is HARD_KILL never gives its caller a value or an *)
(* ordinary exception, and AgentHardKillError is raised only for an        *)
(* envelope that was offered to the DLQ; no other envelope goes there.     *)
HardKillIsFinal ==
    \A c \in Calls :
        /\ verdict[c] = "hard_kill" /\ pc[c] = "idle"
            => outcome[c] \in {"killed", "interrupted"}
        /\ outcome[c] = "killed" => c \in dlq
        /\ c \in dlq => verdict[c] = "hard_kill"

(* However the calls overlap, no more than max_tool_calls of them ever get *)
(* past the budget to the breaker and the tool.                            *)
CallCeiling == h_ran <= MaxToolCalls

(* Once the failure budget of all calls is spent, each retry loop begins   *)
(* at most one more attempt: the one a call is about to begin, being in    *)
(* its backoff or on its way through the breaker; that attempt is its      *)
(* loop's last, whatever max_attempts allows.                              *)
NoRetryPastBudget == \A c \in Calls : h_overtime[c] <= 1

(* The tracker shows a call whose correlation id is its own from its first *)
(* backoff until its retry loop ends, and never longer - whichever way the *)
(* loop ends.                                                              *)
TrackerFollowsRetries ==
    \A c \in Calls :
        (\A d \in Calls \ {c} : Key[d] # Key[c])
        => (Key[c] \in tracker
            <=> \/ pc[c] = "backoff"
                \/ pc[c] = "attempt" /\ attempt[c] > 1)

(* The breaker is around the retry loop, not inside it: a call is in the   *)
(* breaker through all its attempts and the backoffs between them, and     *)
(* counts there as one fault when it has failed for good, however many     *)
(* attempts that took - so the circuit leaves CLOSED only when             *)
(* failure_threshold calls have failed since one last succeeded.           *)
BreakerCountsCalls ==
    /\ running = {c \in Calls : pc[c] \in InLoop \cup {"leaving"}}
    /\ failureCount <= h_failed
    /\ state # "closed" => h_failed = FailureThreshold

(* Every governed call ends: it neither retries for ever nor waits for a   *)
(* breaker that will not admit it, nor hangs between two handlers.         *)
EveryCallEnds == \A c \in Calls : pc[c] # "idle" ~> pc[c] = "idle"
=============================================================================
