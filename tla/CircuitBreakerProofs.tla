------------------------- MODULE CircuitBreakerProofs -------------------------
(***************************************************************************)
(* Theorems about CircuitBreaker, for any set of overlapping calls and any *)
(* threshold, cooldown and probe count.  The inductive invariant joins the *)
(* types with the slot accounting: neither is inductive without the other, *)
(* as the bound on h_probeOk comes from the accounting and the accounting  *)
(* needs h_current to be finite.                                           *)
(***************************************************************************)
EXTENDS CircuitBreaker, FiniteSetTheorems, TLAPS

IInv == TypeOK /\ SlotAccounting

(* How admitting or releasing one probe changes the number of the window's *)
(* probes.                                                                 *)
LEMMA CurrentCardinality ==
    ASSUME IsFiniteSet(h_current), NEW c
    PROVE  /\ Cardinality(h_current) \in Nat
           /\ IsFiniteSet(h_current \cup {c})
           /\ Cardinality(h_current \cup {c}) =
                IF c \in h_current THEN Cardinality(h_current)
                                   ELSE Cardinality(h_current) + 1
           /\ IsFiniteSet(h_current \ {c})
           /\ Cardinality(h_current \ {c}) =
                IF c \in h_current THEN Cardinality(h_current) - 1
                                   ELSE Cardinality(h_current)
BY FS_CardinalityType, FS_AddElement, FS_RemoveElement

(* A new breaker satisfies the inductive invariant.                        *)
LEMMA InitIInv == Init => IInv
BY BreakerAssumption, FS_EmptySet DEF Init, IInv, TypeOK, SlotAccounting

(* The passing of time preserves the inductive invariant.                  *)
LEMMA TickIInv == IInv /\ Tick => IInv'
BY BreakerAssumption DEF IInv, TypeOK, SlotAccounting, Tick, windowVars

(* Admissions preserve the inductive invariant.                            *)
LEMMA EnterIInv == ASSUME NEW c \in Calls, IInv, Enter(c) PROVE IInv'
<1> USE BreakerAssumption DEF IInv, TypeOK, SlotAccounting
<1>1. CASE Admit(c)
  BY <1>1 DEF Admit, windowVars
<1>2. CASE AdmitFirstProbe(c)
  <2>1. IsFiniteSet({c}) /\ Cardinality({c}) = 1
    BY FS_Singleton
  <2>2. TypeOK'
    BY <1>2, <2>1 DEF AdmitFirstProbe, StartProbe
  <2>3. SlotAccounting'
    BY <1>2, <2>1 DEF AdmitFirstProbe
  <2> QED
    BY <2>2, <2>3
<1>3. CASE AdmitProbe(c)
  <2>1. c \notin h_current
    BY <1>3 DEF AdmitProbe
  <2>2. /\ IsFiniteSet(h_current \cup {c})
        /\ Cardinality(h_current) \in Nat
        /\ Cardinality(h_current \cup {c}) = Cardinality(h_current) + 1
    BY <2>1, CurrentCardinality
  <2>3. TypeOK'
    BY <1>3, <2>2 DEF AdmitProbe, StartProbe, HasFreeSlot
  <2>4. SlotAccounting'
    BY <1>3, <2>2 DEF AdmitProbe
  <2> QED
    BY <2>3, <2>4
<1>4. CASE Reject(c)
  BY <1>4 DEF Reject, vars, codeVars, windowVars
<1> QED
  BY <1>1, <1>2, <1>3, <1>4 DEF Enter

(* The except branch preserves the types, whichever error ran into it; the *)
(* history of strikes is left to the two actions that use it.              *)
LEMMA FaultIInv ==
    ASSUME NEW c \in Calls, IInv, c \in running, Fault(c),
           h_strikes' \in 0 .. FailureThreshold,
           BudgetExempt => h_strikes' >= CountedFailures(c)
                           \/ h_strikes' = FailureThreshold
    PROVE  IInv'
<1> USE BreakerAssumption DEF IInv, TypeOK, SlotAccounting
<1>1. CountedFailures(c) \in 0 .. FailureThreshold
  BY DEF CountedFailures
<1>2. c \in probes => CountedFailures(c) < FailureThreshold
  BY DEF CountedFailures
<1>3. failureCount' \in 0 .. FailureThreshold - 1
  BY <1>1, <1>2 DEF Fault
<1>4. Released(c) \in 0 .. ProbeCount
  BY DEF Released
<1>5. CASE state = "half_open"
  BY <1>1, <1>3, <1>4, <1>5, FS_EmptySet DEF Fault, Leave, CloseWindow
<1>6. CASE state # "half_open"
  <2>1. state' # "half_open" /\ UNCHANGED windowVars
    BY <1>6 DEF Fault
  <2>2. h_current = {} /\ h_lost = 0 /\ h_late = 0
    BY <1>6
  <2>3. probeSuccess' = probeSuccess
    BY <1>6 DEF Fault
  <2> QED
    BY <1>1, <1>3, <1>4, <1>6, <2>1, <2>2, <2>3
       DEF Fault, Leave, windowVars
<1> QED
  BY <1>5, <1>6

(* Every end of a call preserves the inductive invariant.                  *)
LEMMA FinishIInv == ASSUME NEW c \in Calls, IInv, Finish(c) PROVE IInv'
<1> USE BreakerAssumption DEF IInv, TypeOK, SlotAccounting
<1>0. Released(c) \in 0 .. ProbeCount
  BY DEF Released
<1>c. /\ IsFiniteSet(h_current \ {c})
      /\ Cardinality(h_current) \in Nat
      /\ Cardinality(h_current \ {c}) =
           IF c \in h_current THEN Cardinality(h_current) - 1
                              ELSE Cardinality(h_current)
  BY CurrentCardinality
<1>r. ASSUME RecordRelease(c), probeInFlight' = Released(c),
             state' = state, h_probeOk' <= probeSuccess' \/ state # "half_open"
      PROVE  SlotAccounting'
  <2>1. CASE c \in h_current
    <3>1. /\ h_current' = h_current \ {c}
          /\ Cardinality(h_current') = Cardinality(h_current) - 1
      BY <1>c, <1>r, <2>1 DEF RecordRelease
    <3>2. h_lost' = h_lost /\ h_late' = h_late
      BY <1>r, <2>1 DEF RecordRelease
    <3>3. probeInFlight' = IF probeInFlight > 0 THEN probeInFlight - 1
                                                ELSE probeInFlight
      BY <1>r, <2>1 DEF Released
    <3>4. /\ state = "half_open" /\ state' = "half_open"
          /\ Cardinality(h_current) \in Nat
          /\ h_probeOk' <= probeSuccess'
      BY <1>c, <1>r, <2>1
    <3>5. /\ probeInFlight <= Cardinality(h_current) + h_lost
          /\ Cardinality(h_current) + h_lost <= probeInFlight + h_late
          /\ Cardinality(h_current) > 0
      <4>1. Cardinality(h_current) # 0
        BY <2>1, FS_EmptySet
      <4> QED
        BY <3>4, <4>1
    <3> QED
      BY <3>1, <3>2, <3>3, <3>4, <3>5
  <2>2. CASE c \in probes \ h_current
    <3>1. h_current' = h_current \ {c} /\ h_lost' = h_lost
      BY <1>r DEF RecordRelease
    <3>2. h_current' = h_current
      BY <2>2, <3>1
    <3>3. probeInFlight' = IF probeInFlight > 0 THEN probeInFlight - 1
                                                ELSE probeInFlight
      BY <1>r, <2>2 DEF Released
    <3>4. h_late' = IF state = "half_open" THEN h_late + 1 ELSE h_late
      BY <1>r, <2>2 DEF RecordRelease
    <3> QED
      BY <1>c, <1>r, <3>1, <3>2, <3>3, <3>4
  <2>3. CASE c \notin probes
    BY <1>c, <1>r, <2>3 DEF RecordRelease, Released
  <2> QED
    BY <2>1, <2>2, <2>3
<1>1. CASE SucceedHalfOpen(c)
  <2>1. CASE state' = "closed"
    BY <1>1, <2>1, FS_EmptySet DEF SucceedHalfOpen, Leave, CloseWindow
  <2>2. CASE state' # "closed"
    <3>1. /\ probeSuccess' = probeSuccess + 1 /\ probeSuccess + 1 < ProbeCount
          /\ probeInFlight' = Released(c)
          /\ RecordRelease(c)
          /\ UNCHANGED <<state, failureCount, h_strikes, openAge, h_openFor>>
      BY <1>1, <2>2 DEF SucceedHalfOpen
    <3>2. TypeOK'
      BY <1>0, <1>1, <3>1, <1>c
         DEF SucceedHalfOpen, Leave, RecordRelease
    <3>3. SlotAccounting'
      <4>1. h_probeOk' <= probeSuccess'
        BY <1>1, <3>1 DEF SucceedHalfOpen
      <4> QED
        BY <1>r, <3>1, <4>1
    <3> QED
      BY <3>2, <3>3
  <2> QED
    BY <2>1, <2>2
<1>2. CASE Succeed(c)
  BY <1>2 DEF Succeed, Leave, windowVars
<1>3. CASE Fail(c)
  <2>1. h_strikes' \in 0 .. FailureThreshold
    BY <1>3 DEF Fail
  <2>2. BudgetExempt => \/ h_strikes' >= CountedFailures(c)
                        \/ h_strikes' = FailureThreshold
    BY <1>3 DEF Fail, CountedFailures
  <2> QED
    BY <1>3, <2>1, <2>2, FaultIInv DEF Fail
<1>4. CASE Exhaust(c)
  <2>1. CASE BudgetExempt
    <3>1. /\ Leave(c) /\ RecordRelease(c)
          /\ probeInFlight' = Released(c)
          /\ UNCHANGED <<state, failureCount, probeSuccess, openAge,
                         h_openFor, h_probeOk, h_strikes>>
      BY <1>4, <2>1 DEF Exhaust
    <3>2. TypeOK'
      BY <1>0, <3>1, <1>c DEF Leave, RecordRelease
    <3>3. SlotAccounting'
      BY <1>r, <3>1
    <3> QED
      BY <3>2, <3>3
  <2>2. CASE ~BudgetExempt
    <3>1. c \in running /\ Fault(c) /\ h_strikes' = h_strikes
      BY <1>4, <2>2 DEF Exhaust
    <3> QED
      BY <2>2, <3>1, FaultIInv
  <2> QED
    BY <2>1, <2>2
<1>5. CASE Escape(c)
  <2>1. TypeOK'
    BY <1>5, <1>c DEF Escape, Leave
  <2>2. SlotAccounting'
    BY <1>5, <1>c DEF Escape
  <2> QED
    BY <2>1, <2>2
<1> QED
  BY <1>1, <1>2, <1>3, <1>4, <1>5 DEF Finish

(* Every step preserves the inductive invariant.                           *)
LEMMA NextIInv == IInv /\ [Next]_vars => IInv'
<1> SUFFICES ASSUME IInv, [Next]_vars PROVE IInv'
  OBVIOUS
<1>1. CASE UNCHANGED vars
  BY <1>1 DEF IInv, TypeOK, SlotAccounting, vars, codeVars, windowVars
<1>2. CASE Tick
  BY <1>2, TickIInv
<1>3. ASSUME NEW c \in Calls, Enter(c) \/ Finish(c) PROVE IInv'
  BY <1>3, EnterIInv, FinishIInv
<1> QED
  BY <1>1, <1>2, <1>3 DEF Next

(* The inductive invariant holds in every reachable state.                 *)
THEOREM InductiveInvariant == Spec => []IInv
BY InitIInv, NextIInv, PTL DEF Spec

-----------------------------------------------------------------------------
(* Every counter of the breaker stays in its range: the failure counter    *)
(* below the threshold, the in-flight counter between 0 and the number of  *)
(* probes allowed.                                                         *)
THEOREM TypeCorrect == Spec => []TypeOK
BY InductiveInvariant, PTL DEF IInv

(* The in-flight counter agrees with the probes that really run, up to the *)
(* slots that were lost and those given back late.                         *)
THEOREM SlotsAccountedFor == Spec => []SlotAccounting
BY InductiveInvariant, PTL DEF IInv

(* Never more concurrent probes than half_open_probe_count and one for     *)
(* each late end of an earlier probe.                                      *)
THEOREM ProbesLimited == Spec => []ProbeLimit
<1>1. IInv => ProbeLimit
  BY BreakerAssumption, FS_EmptySet, FS_CardinalityType
     DEF IInv, TypeOK, SlotAccounting, ProbeLimit
<1> QED
  BY <1>1, InductiveInvariant, PTL

(* A breaker that exempts BudgetExhaustedError opens only on               *)
(* failure_threshold faults.  It follows from h_strikes never being below  *)
(* the failure counter.                                                    *)
THEOREM FaultsTrip == ASSUME BudgetExempt PROVE Spec => TripsOnFaults
<1>1. ASSUME IInv, [Next]_vars, state = "closed", state' = "open"
      PROVE  h_strikes' = FailureThreshold
  <2>1. PICK c \in Calls : Fail(c)
    BY <1>1 DEF Next, Tick, Enter, Admit, AdmitFirstProbe, AdmitProbe, Reject,
                Finish, SucceedHalfOpen, Succeed, Exhaust, Escape, vars, codeVars
  <2>2. failureCount + 1 >= FailureThreshold
    BY <1>1, <2>1, BreakerAssumption
       DEF Fail, Fault, CountedFailures, IInv, TypeOK
  <2> QED
    BY <1>1, <2>1, <2>2, BreakerAssumption DEF Fail, IInv, TypeOK
<1>2. IInv /\ [Next]_vars
      => [state = "closed" /\ state' = "open"
          => h_strikes' = FailureThreshold]_vars
  BY <1>1
<1> QED
  BY <1>2, InductiveInvariant, PTL DEF Spec, TripsOnFaults

(* The breaker implements the contract: a call begins in OPEN only when    *)
(* the cooldown is over, and the circuit moves only at the end of a call,  *)
(* never from OPEN to CLOSED.                                              *)
THEOREM KeepsContract == Spec => ImplementsContract
<1> USE DEF Contract!contractVars
<1>1. Init => Contract!Init
  BY DEF Init, Contract!Init
<1>2. ASSUME IInv, [Next]_vars
      PROVE  [Contract!Next]_(Contract!contractVars)
  <2> USE BreakerAssumption DEF Contract!Next
  <2>1. CASE UNCHANGED vars
    BY <2>1 DEF vars, codeVars
  <2>2. CASE Tick
    BY <1>2, <2>2 DEF Tick, IInv, TypeOK, Contract!Elapse
  <2>3. ASSUME NEW c \in Calls, Enter(c)
        PROVE  Contract!Begin(c) \/ UNCHANGED Contract!contractVars
    BY <1>2, <2>3 DEF Enter, Admit, AdmitFirstProbe, AdmitProbe, Reject,
                      StartProbe, CooldownElapsed, IInv, TypeOK,
                      vars, codeVars, Contract!Begin
  <2>4. ASSUME NEW c \in Calls, Finish(c)
        PROVE  Contract!End(c)
    <3>1. CASE SucceedHalfOpen(c) \/ Succeed(c) \/ Escape(c)
      BY <3>1 DEF SucceedHalfOpen, Succeed, Escape, Leave, Contract!End
    <3>2. CASE c \in running /\ Fault(c)
      BY <1>2, <3>2 DEF Fault, Leave, IInv, TypeOK, Contract!End
    <3> QED
      BY <2>4, <3>1, <3>2 DEF Finish, Fail, Exhaust, Leave, Contract!End
  <2> QED
    BY <1>2, <2>1, <2>2, <2>3, <2>4 DEF Next
<1>3. IInv /\ [Next]_vars => [Contract!Next]_(Contract!contractVars)
  BY <1>2
<1> QED
  BY <1>1, <1>3, InductiveInvariant, PTL
     DEF Spec, ImplementsContract, Contract!Spec
=============================================================================
