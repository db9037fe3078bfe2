-------------------------------- MODULE Rollback --------------------------------
(***************************************************************************)
(* CompensatingTransactionRegistry (resilience/compensating.py): threads   *)
(* register the undo of their steps, roll a run back and clear it, all on  *)
(* one registry.  register and clear are single steps under the lock;      *)
(* compensate copies the list under the lock and then calls one            *)
(* compensator after the other without it, so that other threads, and the  *)
(* compensators themselves, may use the registry in between.               *)
(*                                                                         *)
(* A compensator succeeds, raises an Exception, or raises something that   *)
(* is a BaseException only: AgentHardKillError, or the                     *)
(* CompensationPartialFailureError of a rollback inside the compensator.   *)
(***************************************************************************)
EXTENDS Naturals, Sequences

CONSTANTS
    Threads,
    Runs,       \* correlation ids
    MaxSteps    \* bound of the model on what is registered

ASSUME RollbackAssumption == MaxSteps \in Nat

VARIABLES
    registry,   \* _registry: the steps of each run, in order
    pc,         \* is the thread in compensate()?
    run,        \* compensate's argument, now or last
    steps,      \* compensate's local copy of the list
    left,       \* how many of them are still to be called
    failed,     \* failed_step_ids
    verdict     \* how the thread's last compensate() ended

VARIABLES
    h_run,      \* the run of each step registered so far
    h_cleared,  \* steps that clear() took away
    h_due,      \* the steps that were to be undone when compensate began
    h_tried,    \* compensators it called, in order
    h_faulty,   \* those that raised an Exception
    h_mark      \* how many steps there were when it began

registryVars == <<registry, h_run, h_cleared>>
rollbackVars == <<pc, run, steps, left, failed, verdict, h_due, h_tried, h_faulty,
                  h_mark>>
vars == <<registryVars, rollbackVars>>

(* Steps are numbered as they are registered.                              *)
Steps == 1 .. MaxSteps
Entries(s) == {s[i] : i \in 1 .. Len(s)}
Verdicts == {"none", "returned", "partial", "escaped"}

TypeOK ==
    /\ registry \in [Runs -> Seq(Steps)]
    /\ pc \in [Threads -> {"idle", "undoing"}]
    /\ run \in [Threads -> Runs]
    /\ steps \in [Threads -> Seq(Steps)]
    /\ left \in [Threads -> Nat]
    /\ failed \in [Threads -> Seq(Steps)]
    /\ \A t \in Threads : Len(failed[t]) + left[t] <= Len(steps[t])
    /\ verdict \in [Threads -> Verdicts]
    /\ h_run \in Seq(Runs) /\ Len(h_run) <= MaxSteps
    /\ h_cleared \subseteq Steps
    /\ h_due \in [Threads -> SUBSET Steps]
    /\ h_tried \in [Threads -> Seq(Steps)]
    /\ h_faulty \in [Threads -> SUBSET Steps]
    /\ h_mark \in [Threads -> Nat]

Init ==
    /\ registry = [r \in Runs |-> <<>>]
    /\ pc = [t \in Threads |-> "idle"]
    /\ run \in [Threads -> Runs]
    /\ steps = [t \in Threads |-> <<>>]
    /\ left = [t \in Threads |-> 0]
    /\ failed = [t \in Threads |-> <<>>]
    /\ verdict = [t \in Threads |-> "none"]
    /\ h_run = <<>> /\ h_cleared = {}
    /\ h_due = [t \in Threads |-> {}]
    /\ h_tried = [t \in Threads |-> <<>>]
    /\ h_faulty = [t \in Threads |-> {}]
    /\ h_mark = [t \in Threads |-> 0]

-----------------------------------------------------------------------------
(* By a thread, or by a compensator: neither waits for a compensate().     *)
Register(r) ==
    /\ Len(h_run) < MaxSteps
    /\ registry' = [registry EXCEPT ![r] = Append(@, Len(h_run) + 1)]
    /\ h_run' = Append(h_run, r)
    /\ UNCHANGED <<rollbackVars, h_cleared>>

Clear(r) ==
    /\ registry' = [registry EXCEPT ![r] = <<>>]
    /\ h_cleared' = h_cleared \cup Entries(registry[r])
    /\ UNCHANGED <<rollbackVars, h_run>>

(* The registered steps of r that no clear() has taken away.               *)
Outstanding(r) == {s \in 1 .. Len(h_run) : h_run[s] = r /\ s \notin h_cleared}

(* list(self._registry.get(correlation_id, []))                            *)
Short_Copied(r) == IF registry[r] = <<>> THEN <<>> ELSE Tail(registry[r])
Copied(r) == registry[r]

Compensate(t, r) ==
    /\ pc[t] = "idle"
    /\ pc' = [pc EXCEPT ![t] = "undoing"]
    /\ run' = [run EXCEPT ![t] = r]
    /\ steps' = [steps EXCEPT ![t] = Copied(r)]
    /\ left' = [left EXCEPT ![t] = Len(Copied(r))]
    /\ failed' = [failed EXCEPT ![t] = <<>>]
    /\ verdict' = [verdict EXCEPT ![t] = "none"]
    /\ h_due' = [h_due EXCEPT ![t] = Outstanding(r)]
    /\ h_tried' = [h_tried EXCEPT ![t] = <<>>]
    /\ h_faulty' = [h_faulty EXCEPT ![t] = {}]
    /\ h_mark' = [h_mark EXCEPT ![t] = Len(h_run)]
    /\ UNCHANGED registryVars

(* The next one in reversed(steps).                                        *)
Forward_Current(t) == steps[t][Len(steps[t]) + 1 - left[t]]
Current(t) == steps[t][left[t]]

Trying(t) ==
    /\ pc[t] = "undoing" /\ left[t] > 0
    /\ h_tried' = [h_tried EXCEPT ![t] = Append(@, Current(t))]

Undo(t) ==
    /\ Trying(t)
    /\ left' = [left EXCEPT ![t] = @ - 1]
    /\ UNCHANGED <<registryVars, pc, run, steps, failed, verdict, h_due, h_faulty,
                   h_mark>>

(* A variant that gives up at the first failure, and one that starts again *)
(* after a failure.                                                        *)
Breaking_FailToUndo(t) ==
    /\ Trying(t)
    /\ left' = [left EXCEPT ![t] = 0]
    /\ failed' = [failed EXCEPT ![t] = Append(@, Current(t))]
    /\ h_faulty' = [h_faulty EXCEPT ![t] = @ \cup {Current(t)}]
    /\ UNCHANGED <<registryVars, pc, run, steps, verdict, h_due, h_mark>>

Restarting_FailToUndo(t) ==
    /\ pc[t] = "undoing" /\ left[t] > 0
    /\ left' = [left EXCEPT ![t] = Len(steps[t])]
    /\ h_tried' = [h_tried EXCEPT ![t] = <<>>]
    /\ UNCHANGED <<registryVars, pc, run, steps, failed, verdict, h_due, h_faulty,
                   h_mark>>

(* except Exception: failed_step_ids.append(step_id)                       *)
FailToUndo(t) ==
    /\ Trying(t)
    /\ left' = [left EXCEPT ![t] = @ - 1]
    /\ failed' = [failed EXCEPT ![t] = Append(@, Current(t))]
    /\ h_faulty' = [h_faulty EXCEPT ![t] = @ \cup {Current(t)}]
    /\ UNCHANGED <<registryVars, pc, run, steps, verdict, h_due, h_mark>>

(* A BaseException leaves compensate(): what is left is not called, and    *)
(* what failed so far is not reported.                                     *)
Escape(t) ==
    /\ Trying(t)
    /\ pc' = [pc EXCEPT ![t] = "idle"]
    /\ verdict' = [verdict EXCEPT ![t] = "escaped"]
    /\ UNCHANGED <<registryVars, run, steps, left, failed, h_due, h_faulty, h_mark>>

(* The loop is over: return, or raise CompensationPartialFailureError.     *)
Finish(t) ==
    /\ pc[t] = "undoing" /\ left[t] = 0
    /\ pc' = [pc EXCEPT ![t] = "idle"]
    /\ verdict' = [verdict EXCEPT ![t] =
                      IF failed[t] # <<>> THEN "partial" ELSE "returned"]
    /\ UNCHANGED <<registryVars, run, steps, left, failed, h_due, h_tried, h_faulty,
                   h_mark>>

-----------------------------------------------------------------------------
GoOn(t) == Undo(t) \/ FailToUndo(t) \/ Escape(t) \/ Finish(t)

Next ==
    \/ \E r \in Runs : Register(r) \/ Clear(r)
    \/ \E t \in Threads : GoOn(t) \/ \E r \in Runs : Compensate(t, r)

Spec == Init /\ [][Next]_vars

(* Compensators come back.                                                 *)
FairSpec == Spec /\ \A t \in Threads : WF_vars(GoOn(t))

-----------------------------------------------------------------------------
(* A rollback calls no compensator twice, and none before that of a step   *)
(* registered later, whatever others register and clear meanwhile.         *)
UndoneInReverse ==
    \A t \in Threads : \A i, j \in 1 .. Len(h_tried[t]) :
        i < j => h_tried[t][i] > h_tried[t][j]

(* Unless a compensator's BaseException stopped it, a rollback that ended  *)
(* has tried every step that was outstanding when it began, and no other;  *)
(* it raised exactly if some of them failed, and named just these.         *)
OutcomeIsExact ==
    \A t \in Threads : verdict[t] \in {"returned", "partial"} =>
        /\ Entries(h_tried[t]) = h_due[t]
        /\ Entries(failed[t]) = h_faulty[t]
        /\ verdict[t] = "partial" <=> h_faulty[t] # {}

(* The usual rollback, compensate() and then clear() if it returned,       *)
(* forgets a step without having undone it only if the step was            *)
(* registered after compensate() had copied the list.                      *)
ForgetsOnlyLateSteps ==
    [][\A t \in Threads :
          verdict[t] = "returned" /\ pc[t] = "idle" /\ Clear(run[t])
          => \A s \in Entries(registry[run[t]]) :
                s \in Entries(h_tried[t]) \ h_faulty[t] \/ s > h_mark[t]]_vars

(* A rollback ends, also when the registry keeps changing under it.        *)
EveryRollbackEnds == \A t \in Threads : pc[t] = "undoing" ~> pc[t] = "idle"
=============================================================================
