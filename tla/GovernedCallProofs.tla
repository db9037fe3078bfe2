-------------------------- MODULE GovernedCallProofs --------------------------
(***************************************************************************)
(* Theorems about GovernedCall, for any number of overlapping calls, any   *)
(* budgets and any breaker.  The breaker decides when a call may begin and *)
(* learns how it ended.  Only the last invariant, which ties the breaker's *)
(* counters to the calls that failed, has the breaker's variables in it,   *)
(* and it is inductive together with the others' count of h_failed.        *)
(***************************************************************************)
EXTENDS GovernedCall, TLAPS

(* The invocations granted are among those counted.                        *)
GrantsCounted == h_ran <= callCount /\ CallCeiling

(* An attempt begun with the failure budget spent is the last of its loop: *)
(* a call that has yet an attempt to begin has begun none of that kind.    *)
LastAttempt ==
    \A c \in Calls :
        /\ h_overtime[c] <= 1
        /\ h_overtime[c] = 1 => FailureBudgetSpent
        /\ pc[c] # "attempt" => h_overtime[c] = 0

(* Until an envelope exists a call has no verdict, until it ends it has no *)
(* outcome and nothing in the DLQ, and what it carries from its envelope   *)
(* to its end is the verdict on its error, or a promotion of it.           *)
Lifecycle ==
    \A c \in Calls :
        /\ pc[c] \in {"admission", "attempt", "backoff", "leaving"}
            => verdict[c] = "none"
        /\ pc[c] # "idle" => outcome[c] = "none" /\ c \notin dlq
        /\ pc[c] = "report" => verdict[c] = Classify(error[c])
        /\ pc[c] = "kill" => verdict[c] = "hard_kill"

(* The loop counts its attempts from the first.                            *)
AttemptsCounted ==
    \A c \in Calls :
        /\ pc[c] \notin InLoop => attempt[c] = 0
        /\ pc[c] \in InLoop => attempt[c] >= 1
        /\ pc[c] = "backoff" => attempt[c] < MaxAttempts

IInv ==
    /\ TypeOK /\ GrantsCounted /\ LastAttempt /\ Lifecycle /\ AttemptsCounted
    /\ HardKillIsFinal /\ TrackerFollowsRetries

(* What the breaker must keep for its faults to be calls.                  *)
BInv == BreakerCountsCalls /\ failureCount \in Nat

(* The words the invariant is written in.                                  *)
USE DEF GrantsCounted, CallCeiling, LastAttempt, Lifecycle, AttemptsCounted,
        HardKillIsFinal, TrackerFollowsRetries, TypeOK, Places, InLoop,
        Outcomes, Classify, SdkErrors, Exceptions, BaseExceptions,
        FailureBudgetSpent, Goto, End, Catch, callVars, sharedVars

(* A bundle that has governed no call yet satisfies the invariant.         *)
LEMMA InitIInv == Init => IInv
BY CallAssumption DEF Init, IInv

(* A new invocation preserves the invariant: here the call ceiling counts. *)
LEMMA InvokeIInv == ASSUME NEW c \in Calls, IInv, Invoke(c) PROVE IInv'
<1> USE CallAssumption DEF IInv
<1>1. UpTo(MaxToolCalls + 1, callCount + 1) \in 0 .. MaxToolCalls + 1
  BY DEF UpTo
<1>2. TypeOK'
  BY <1>1 DEF Invoke
<1>3. GrantsCounted'
  BY <1>1 DEF Invoke, CallsExceeded, UpTo
<1>4. LastAttempt' /\ AttemptsCounted'
  BY DEF Invoke
<1>5. Lifecycle' /\ HardKillIsFinal'
  BY DEF Invoke
<1>6. TrackerFollowsRetries'
  BY DEF Invoke
<1> QED
  BY <1>2, <1>3, <1>4, <1>5, <1>6

(* The breaker's decision preserves the invariant.                         *)
LEMMA AdmissionIInv ==
    ASSUME NEW c \in Calls, IInv, Admitted(c) \/ Rejected(c) PROVE IInv'
<1> USE CallAssumption DEF IInv
<1>1. CASE Admitted(c)
  BY <1>1 DEF Admitted, BeginAttempt
<1>2. CASE Rejected(c)
  BY <1>2 DEF Rejected
<1> QED
  BY <1>1, <1>2

(* The end of the retry loop preserves the invariant.                      *)
LEMMA LoopEndIInv ==
    ASSUME NEW c \in Calls, IInv, Returns(c) \/ Breaks(c) \/ Cancel(c)
    PROVE  IInv'
<1> USE CallAssumption DEF IInv, Complete, LeaveLoop, Forget
<1>1. CASE Returns(c)
  BY <1>1 DEF Returns
<1>2. CASE Breaks(c)
  BY <1>2 DEF Breaks
<1>3. CASE Cancel(c)
  BY <1>3 DEF Cancel
<1> QED
  BY <1>1, <1>2, <1>3

(* A failed attempt preserves the invariant: a call goes on to its backoff *)
(* only while the failure budget is not spent.                             *)
LEMMA FailsIInv == ASSUME NEW c \in Calls, IInv, Fails(c) PROVE IInv'
<1> USE CallAssumption DEF IInv
<1>1. /\ failures' \in 0 .. FailureBudget + 1
      /\ FailureBudgetSpent => FailureBudgetSpent'
      /\ pc[c] = "attempt"
      /\ UNCHANGED <<verdict, outcome, callCount, dlq, h_ran, h_failed>>
  BY DEF Fails, UpTo
<1>2. PICK e \in Exceptions :
        LET mayRetry == Raised(e) = "transient" /\ AttemptsLeft(c)
        IN  \/ ~mayRetry /\ LeaveLoop(c, Raised(e))
            \/ mayRetry /\ LeaveLoop(c, "exhausted")
            \/ /\ mayRetry
               /\ Goto(c, "backoff")
               /\ tracker' = tracker \cup {Key[c]}
               /\ UNCHANGED <<error, attempt, h_overtime>>
  BY DEF Fails
<1>3. Raised(e) \in Exceptions
  BY DEF Raised
<1>4. CASE \E f \in Exceptions : LeaveLoop(c, f)
  BY <1>1, <1>4 DEF LeaveLoop, Complete, Forget
<1>5. CASE /\ Raised(e) = "transient" /\ AttemptsLeft(c)
           /\ Goto(c, "backoff")
           /\ tracker' = tracker \cup {Key[c]}
           /\ UNCHANGED <<error, attempt, h_overtime>>
  <2>1. ~FailureBudgetSpent /\ attempt[c] < MaxAttempts
    BY <1>5 DEF Raised, Refused, AttemptsLeft
  <2> QED
    BY <1>1, <1>5, <2>1
<1> QED
  BY <1>2, <1>3, <1>4, <1>5

(* The next attempt and the way out through the except clauses preserve    *)
(* the invariant.                                                          *)
LEMMA ResumeIInv ==
    ASSUME NEW c \in Calls, IInv, Resume(c) \/ Leaves(c) PROVE IInv'
<1> USE CallAssumption DEF IInv
<1>1. CASE Resume(c)
  BY <1>1 DEF Resume, BeginAttempt
<1>2. CASE Leaves(c)
  <2>1. h_failed' \in 0 .. FailureThreshold
    BY <1>2 DEF Leaves, UpTo
  <2> QED
    BY <1>2, <2>1 DEF Leaves, Unhandled
<1> QED
  BY <1>1, <1>2

(* Reporting and the terminal actions preserve the invariant.              *)
LEMMA HandleIInv ==
    ASSUME NEW c \in Calls, IInv, Handle(c) \/ Interrupted(c) PROVE IInv'
<1> USE CallAssumption DEF IInv, handlerSkips
<1>1. CASE Report(c)
  BY <1>1 DEF Report
<1>2. CASE Recover(c)
  BY <1>2 DEF Recover
<1>3. CASE Abort(c)
  BY <1>3 DEF Abort
<1>4. CASE FallBack(c)
  BY <1>4 DEF FallBack
<1>5. CASE RouteHardKill(c)
  BY <1>5 DEF RouteHardKill
<1>6. CASE Kill(c)
  BY <1>6 DEF Kill
<1>7. CASE Interrupted(c)
  BY <1>7 DEF Interrupted
<1> QED
  BY <1>1, <1>2, <1>3, <1>4, <1>5, <1>6, <1>7 DEF Handle

(* Every step preserves the invariant.                                     *)
LEMMA NextIInv == IInv /\ [Next]_vars => IInv'
<1> SUFFICES ASSUME IInv, [Next]_vars PROVE IInv'
  OBVIOUS
<1>1. CASE UNCHANGED <<callVars, sharedVars>>
  BY <1>1 DEF IInv
<1>2. ASSUME NEW c \in Calls,
             Invoke(c) \/ Advance(c) \/ Cancel(c) \/ Interrupted(c)
      PROVE  IInv'
  BY <1>2, InvokeIInv, AdmissionIInv, LoopEndIInv, FailsIInv, ResumeIInv,
     HandleIInv DEF Advance
<1> QED
  BY <1>1, <1>2 DEF Next, ClockTick, vars

-----------------------------------------------------------------------------
(* A bundle that has governed no call yet has counted no failure.          *)
LEMMA InitBInv == Init => BInv
BY CallAssumption DEF Init, BInv, BreakerCountsCalls, Breaker!Init

(* The steps of a call that do not touch the breaker keep it in or out of  *)
(* the breaker: a retry is one of them.                                    *)
LEMMA OutsideBInv ==
    ASSUME NEW c \in Calls, IInv, BInv,
           \/ Invoke(c) \/ Fails(c) \/ Breaks(c) \/ Resume(c)
           \/ Cancel(c) \/ Handle(c) \/ Interrupted(c)
    PROVE  BInv'
<1> USE DEF IInv, BInv, BreakerCountsCalls
<1>1. UNCHANGED <<state, failureCount, running, h_failed>>
  BY DEF Invoke, Fails, Breaks, Resume, Cancel, Handle, Interrupted, Report,
     Recover, Abort, FallBack, RouteHardKill, Kill, handlerSkips, breakerVars
<1>2. \E p \in Places :
        /\ Goto(c, p)
        /\ p \in InLoop \cup {"leaving"}
            <=> pc[c] \in InLoop \cup {"leaving"}
  <2>1. CASE Invoke(c)
    BY <2>1 DEF Invoke
  <2>2. CASE Fails(c)
    BY <2>2 DEF Fails, LeaveLoop
  <2>3. CASE Breaks(c) \/ Cancel(c) \/ Interrupted(c)
    BY <2>3 DEF Breaks, Cancel, Interrupted, LeaveLoop
  <2>4. CASE Resume(c)
    BY <2>4 DEF Resume, BeginAttempt
  <2>5. CASE Handle(c)
    BY <2>5 DEF Handle, Report, Recover, Abort, FallBack, RouteHardKill, Kill
  <2> QED
    BY <2>1, <2>2, <2>3, <2>4, <2>5
<1> QED
  BY <1>1, <1>2

(* A call that is let in is in the breaker, with its first attempt; a      *)
(* circuit that lets a probe in was not closed before.                     *)
LEMMA AdmissionBInv ==
    ASSUME NEW c \in Calls, IInv, BInv, Admitted(c) \/ Rejected(c) PROVE BInv'
<1> USE DEF IInv, BInv, BreakerCountsCalls
<1>1. CASE Admitted(c)
  <2>1. /\ running' = running \cup {c}
        /\ state' = state \/ state # "closed"
        /\ UNCHANGED failureCount
    BY <1>1 DEF Admitted, Breaker!Admit, Breaker!AdmitFirstProbe,
       Breaker!AdmitProbe, Breaker!StartProbe
  <2> QED
    BY <1>1, <2>1 DEF Admitted, BeginAttempt
<1>2. CASE Rejected(c)
  BY <1>2 DEF Rejected, Breaker!Reject, Breaker!vars, Breaker!codeVars
<1> QED
  BY <1>1, <1>2

(* A call that returns or has failed for good leaves the breaker.  Only    *)
(* the latter counts there, once, as it does in h_failed.                  *)
LEMMA LeaveBInv ==
    ASSUME NEW c \in Calls, IInv, BInv, Returns(c) \/ Leaves(c) PROVE BInv'
<1> USE CallAssumption DEF IInv, BInv, BreakerCountsCalls
<1>1. CASE Returns(c)
  <2>1. /\ running' = running \ {c}
        /\ \/ failureCount' = 0
           \/ failureCount' = failureCount /\ state' # "closed"
        /\ state' = state \/ state' = "closed"
    BY <1>1 DEF Returns, Breaker!SucceedHalfOpen, Breaker!Succeed,
       Breaker!Leave
  <2> QED
    BY <1>1, <2>1 DEF Returns
<1>2. CASE Leaves(c)
  <2>1. CASE error[c] \in BaseExceptions
    <3>1. Breaker!Escape(c)
      BY <1>2, <2>1 DEF Leaves
    <3> QED
      BY <1>2, <2>1, <3>1 DEF Leaves, Unhandled, Breaker!Escape, Breaker!Leave
  <2>2. CASE error[c] \notin BaseExceptions
    <3>1. h_failed' = UpTo(FailureThreshold, h_failed + 1)
      BY <1>2, <2>2 DEF Leaves
    <3>2. Breaker!Exhaust(c) \/ Breaker!Fail(c)
      BY <1>2, <2>2 DEF Leaves
    <3>3. /\ running' = running \ {c}
          /\ failureCount' \in Nat /\ failureCount' <= failureCount + 1
          /\ failureCount' <= FailureThreshold
          /\ \/ state' = state \/ state # "closed"
             \/ failureCount + 1 >= FailureThreshold
      BY <3>2 DEF Breaker!Exhaust, Breaker!Fail, Breaker!Fault, Breaker!Leave,
         Breaker!CountedFailures
    <3> QED
      BY <1>2, <3>1, <3>3 DEF Leaves, UpTo, Unhandled
  <2> QED
    BY <2>1, <2>2
<1> QED
  BY <1>1, <1>2

(* Every step of a bundle keeps the breaker's counters to its calls.       *)
LEMMA NextBInv == IInv /\ BInv /\ [Next]_vars => BInv'
<1> SUFFICES ASSUME IInv, BInv, [Next]_vars PROVE BInv'
  OBVIOUS
<1>1. CASE ClockTick
  BY <1>1 DEF ClockTick, Breaker!Tick, BInv, BreakerCountsCalls
<1>2. CASE UNCHANGED vars
  BY <1>2 DEF vars, breakerVars, BInv, BreakerCountsCalls
<1>3. ASSUME NEW c \in Calls,
             Invoke(c) \/ Advance(c) \/ Cancel(c) \/ Interrupted(c)
      PROVE  BInv'
  BY <1>3, OutsideBInv, AdmissionBInv, LeaveBInv DEF Advance
<1> QED
  BY <1>1, <1>2, <1>3 DEF Next

(* The invariant holds in every reachable state.                           *)
THEOREM InductiveInvariant == Spec => []IInv
BY InitIInv, NextIInv, PTL DEF Spec

(* Every variable keeps its type.                                          *)
THEOREM TypeCorrect == Spec => []TypeOK
<1>1. IInv => TypeOK
  BY DEF IInv
<1> QED
  BY <1>1, InductiveInvariant, PTL

(* A HARD_KILL verdict is never turned into a value or an ordinary         *)
(* exception, and AgentHardKillError has its envelope offered to the DLQ.  *)
THEOREM HardKillsAreFinal == Spec => []HardKillIsFinal
<1>1. IInv => HardKillIsFinal
  BY DEF IInv
<1> QED
  BY <1>1, InductiveInvariant, PTL

(* At most max_tool_calls invocations get past the call budget.            *)
THEOREM CallsLimited == Spec => []CallCeiling
<1>1. IInv => CallCeiling
  BY DEF IInv
<1> QED
  BY <1>1, InductiveInvariant, PTL

(* The failure budget of all calls stops the retry loop of each.           *)
THEOREM RetriesStop == Spec => []NoRetryPastBudget
<1>1. IInv => NoRetryPastBudget
  BY DEF IInv, NoRetryPastBudget
<1> QED
  BY <1>1, InductiveInvariant, PTL

(* The tracker lists a call exactly while it is retrying.                  *)
THEOREM TrackerIsExact == Spec => []TrackerFollowsRetries
<1>1. IInv => TrackerFollowsRetries
  BY DEF IInv
<1> QED
  BY <1>1, InductiveInvariant, PTL

(* The breaker sees calls and not attempts: a call holds its admission     *)
(* through every retry and backoff, counts as one fault, and the circuit   *)
(* leaves CLOSED only when failure_threshold calls have failed for good.   *)
THEOREM BreakerSeesCalls == Spec => []BreakerCountsCalls
<1>1. Init => BInv
  BY InitBInv
<1>2. IInv /\ BInv /\ [Next]_vars => BInv'
  BY NextBInv
<1>3. BInv => BreakerCountsCalls
  BY DEF BInv
<1> QED
  BY <1>1, <1>2, <1>3, InductiveInvariant, PTL DEF Spec

-----------------------------------------------------------------------------
(* Each step of the module is one of CircuitBreaker's on the breaker's     *)
(* variables or leaves them alone, so whatever holds of CircuitBreaker     *)
(* holds of the breaker of a bundle.                                       *)
LEMMA ComposesBreaker == Spec => Breaker!Spec
<1>1. Init => Breaker!Init
  BY DEF Init
<1>2. [Next]_vars => [Breaker!Next]_(Breaker!vars)
  <2> SUFFICES ASSUME [Next]_vars PROVE [Breaker!Next]_(Breaker!vars)
    OBVIOUS
  <2> USE DEF breakerVars, Breaker!vars, Breaker!codeVars, Breaker!windowVars
  <2>1. CASE UNCHANGED breakerVars
    BY <2>1
  <2>2. CASE ClockTick
    BY <2>2 DEF ClockTick, Breaker!Next
  <2>3. ASSUME NEW c \in Calls, Admitted(c) \/ Rejected(c)
        PROVE  Breaker!Next
    BY <2>3 DEF Admitted, Rejected, Breaker!Next, Breaker!Enter
  <2>4. ASSUME NEW c \in Calls, Returns(c) PROVE Breaker!Next
    BY <2>4 DEF Returns, Breaker!Next, Breaker!Finish
  <2>5. ASSUME NEW c \in Calls, Leaves(c) PROVE Breaker!Next
    <3>1. Breaker!Exhaust(c) \/ Breaker!Escape(c) \/ Breaker!Fail(c)
      BY <2>5, Zenon DEF Leaves
    <3> QED
      BY <3>1 DEF Breaker!Next, Breaker!Finish
  <2>6. ASSUME NEW c \in Calls,
               \/ Invoke(c) \/ Fails(c) \/ Breaks(c) \/ Resume(c)
               \/ Cancel(c) \/ Handle(c) \/ Interrupted(c)
        PROVE  UNCHANGED breakerVars
    BY <2>6 DEF Invoke, Fails, Breaks, Resume, Cancel, Handle, Interrupted,
       Report, Recover, Abort, FallBack, RouteHardKill, Kill, handlerSkips
  <2> QED
    BY <2>1, <2>2, <2>3, <2>4, <2>5, <2>6 DEF Next, Advance, vars
<1> QED
  BY <1>1, <1>2, PTL DEF Spec, Breaker!Spec

BreakerFacts == INSTANCE CircuitBreakerProofs

(* In particular the half-open slots of a bundle's breaker are accounted   *)
(* for, however its calls retry, fail or are cancelled.                    *)
THEOREM BundleSlotsAccountedFor == Spec => []Breaker!SlotAccounting
<1>1. Breaker!Init => BreakerFacts!Init
  BY DEF Breaker!Init, BreakerFacts!Init
<1>2. [Breaker!Next]_(Breaker!vars) => [BreakerFacts!Next]_(BreakerFacts!vars)
  BY DEF Breaker!Next, BreakerFacts!Next, Breaker!vars, BreakerFacts!vars,
     Breaker!codeVars, BreakerFacts!codeVars, Breaker!windowVars,
     BreakerFacts!windowVars, Breaker!Tick, BreakerFacts!Tick,
     Breaker!Enter, BreakerFacts!Enter, Breaker!Finish, BreakerFacts!Finish,
     Breaker!Admit, BreakerFacts!Admit,
     Breaker!AdmitFirstProbe, BreakerFacts!AdmitFirstProbe,
     Breaker!AdmitProbe, BreakerFacts!AdmitProbe,
     Breaker!Reject, BreakerFacts!Reject,
     Breaker!CanAdmit, BreakerFacts!CanAdmit,
     Breaker!HasFreeSlot, BreakerFacts!HasFreeSlot,
     Breaker!CooldownElapsed, BreakerFacts!CooldownElapsed,
     Breaker!StartProbe, BreakerFacts!StartProbe,
     Breaker!SucceedHalfOpen, BreakerFacts!SucceedHalfOpen,
     Breaker!Succeed, BreakerFacts!Succeed, Breaker!Fail, BreakerFacts!Fail,
     Breaker!Exhaust, BreakerFacts!Exhaust,
     Breaker!Escape, BreakerFacts!Escape, Breaker!Fault, BreakerFacts!Fault,
     Breaker!Leave, BreakerFacts!Leave,
     Breaker!Released, BreakerFacts!Released,
     Breaker!RecordRelease, BreakerFacts!RecordRelease,
     Breaker!CloseWindow, BreakerFacts!CloseWindow,
     Breaker!CountedFailures, BreakerFacts!CountedFailures
<1>3. BreakerFacts!Spec => []BreakerFacts!SlotAccounting
  BY CallAssumption, BreakerFacts!SlotsAccountedFor
     DEF BreakerFacts!BreakerAssumption
<1>4. BreakerFacts!SlotAccounting => Breaker!SlotAccounting
  BY DEF Breaker!SlotAccounting, BreakerFacts!SlotAccounting,
     Breaker!Cardinality, BreakerFacts!Cardinality
<1> QED
  BY <1>1, <1>2, <1>3, <1>4, ComposesBreaker, PTL
     DEF Breaker!Spec, BreakerFacts!Spec
=============================================================================
