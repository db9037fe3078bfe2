----------------------------- MODULE ParallelCalls -----------------------------
(***************************************************************************)
(* call_parallel() of multi_agent/parallel.py: one governed call per task  *)
(* of an asyncio.TaskGroup.  The pipeline of a sync call runs in a thread  *)
(* of the loop's executor (asyncio.to_thread); with a timeout each attempt *)
(* is a job of the shared pool of resilience/wrap.py, and a job that is    *)
(* given up stays queued or keeps running.  The pipeline of an async call  *)
(* runs in the task.                                                       *)
(*                                                                         *)
(* GovernedCall has the pipeline in detail; here an attempt returns, fails *)
(* in a way that is retried ("transient"), fails in another way ("fault")  *)
(* or must stop the agent ("kill"), and a failed call falls back to        *)
(* _FAILED_CALL, or its recovery directive resumes or aborts it.  The      *)
(* TaskGroup is modelled as CPython 3.11 has it: the first task that       *)
(* raises has the others cancelled, and all are waited for.                *)
(***************************************************************************)
EXTENDS Naturals, Sequences, FiniteSets

CONSTANTS
    NCalls,         \* length of calls
    MaxAttempts,    \* attempts the retry policy allows
    PoolWorkers,    \* workers of _SYNC_TIMEOUT_EXECUTOR
    LoopThreads     \* workers of the loop's default executor

ASSUME ParallelAssumption ==
    /\ NCalls \in Nat
    /\ MaxAttempts \in Nat \ {0}
    /\ PoolWorkers \in Nat \ {0}
    /\ LoopThreads \in Nat \ {0}

VARIABLES
    kind,       \* sync and async calls
    timed,      \* is there a timeout_seconds?
    group,      \* call_parallel, in its TaskGroup and after it
    stopped,    \* was call_parallel itself cancelled?
    task,       \* the task of each call
    cancelling, \* was cancel() called on it?
    errors,     \* the TaskGroup's _errors, as calls
    results,
    outcomes,
    report      \* the FanOutOutcomeEnvelope

VARIABLES
    pipe,       \* the pipeline of each call
    attempt,    \* attempts it has begun
    fate,       \* how it ended
    captured,   \* the class of the envelope its _EnvelopeCaptureBus got
    job,        \* the attempts in the pool
    poolQueue,  \* those no worker has taken yet
    h_gaveUp    \* attempts given up at their timeout (history)

kindVars == <<kind, timed>>
groupVars == <<group, stopped, errors, report>>
taskVars == <<task, cancelling, results, outcomes>>
pipeVars == <<pipe, attempt, fate, captured>>
poolVars == <<job, poolQueue, h_gaveUp>>
parallelVars == <<kindVars, groupVars, taskVars, pipeVars, poolVars>>

Calls == 1 .. NCalls
Attempts == 1 .. MaxAttempts

(* results[i] is None, the value of an attempt, or a resume_state.         *)
NoResult == 0
ResumeState == MaxAttempts + 1

Severity == [EXCEPTION |-> 0, ISSUE |-> 1, HARD_KILL |-> 2]
Classes == DOMAIN Severity
NoOutcome == [status |-> "none", class |-> "none"]
Outcome(status, class) == [status |-> status, class |-> class]

NoReport == [outcomes |-> <<>>, aggregate |-> "none", successes |-> 0,
             failures |-> 0, summary |-> [c \in Classes |-> 0]]

Over == {"done", "killed", "cancelled"}
Ended == {"value", "transient", "fault", "kill"}

ParallelTypeOK ==
    /\ kind \in [Calls -> {"sync", "async"}] /\ timed \in BOOLEAN
    /\ group \in {"idle", "open", "aborting", "returned", "raised", "cancelled"}
    /\ stopped \in BOOLEAN
    /\ task \in [Calls -> {"none", "new", "running"} \cup Over]
    /\ cancelling \in [Calls -> BOOLEAN]
    /\ errors \in Seq(Calls)
    /\ results \in [Calls -> 0 .. ResumeState]
    /\ outcomes \in [Calls -> [status : {"none", "success", "exception"},
                               class : Classes \cup {"none"}]]
    /\ report.outcomes \in Seq([status : {"success", "exception"},
                                class : Classes \cup {"none"}])
    /\ report.aggregate \in Classes \cup {"none"}
    /\ report.successes \in Nat /\ report.failures \in Nat
    /\ report.summary \in [Classes -> Nat]
    /\ pipe \in [Calls -> {"none", "queued", "calling", "waiting", "ended"}]
    /\ attempt \in [Calls -> 0 .. MaxAttempts]
    /\ fate \in [Calls -> {"none", "value", "resumed", "failed", "killed", "cancelled"}]
    /\ captured \in [Calls -> Classes \cup {"none"}]
    /\ job \in [Calls \X Attempts -> {"none", "queued", "running"} \cup Ended]
    /\ poolQueue \in Seq(Calls \X Attempts)
    /\ h_gaveUp \subseteq Calls \X Attempts
    /\ Cardinality({j \in Calls \X Attempts : job[j] = "running"}) <= PoolWorkers

ParallelInit ==
    /\ kind = [i \in Calls |-> "sync"] /\ timed = FALSE
    /\ group = "idle" /\ stopped = FALSE
    /\ task = [i \in Calls |-> "none"]
    /\ cancelling = [i \in Calls |-> FALSE]
    /\ errors = <<>> /\ report = NoReport
    /\ results = [i \in Calls |-> NoResult]
    /\ outcomes = [i \in Calls |-> NoOutcome]
    /\ pipe = [i \in Calls |-> "none"]
    /\ attempt = [i \in Calls |-> 0]
    /\ fate = [i \in Calls |-> "none"]
    /\ captured = [i \in Calls |-> "none"]
    /\ job = [j \in Calls \X Attempts |-> "none"]
    /\ poolQueue = <<>> /\ h_gaveUp = {}

-----------------------------------------------------------------------------
(* call_parallel creates the tasks.                                        *)
CallParallel ==
    /\ group = "idle"
    /\ kind' \in [Calls -> {"sync", "async"}] /\ timed' \in BOOLEAN
    /\ group' = "open"
    /\ task' = [i \in Calls |-> "new"]
    /\ UNCHANGED <<stopped, errors, report, cancelling, results, outcomes, pipeVars,
                   poolVars>>

(* The first step of _run_one, up to its await.                            *)
StartCall(i) ==
    /\ task[i] = "new" /\ ~cancelling[i]
    /\ task' = [task EXCEPT ![i] = "running"]
    /\ pipe' = [pipe EXCEPT ![i] = IF kind[i] = "sync" THEN "queued" ELSE "calling"]
    /\ attempt' = [attempt EXCEPT ![i] = IF kind[i] = "sync" THEN 0 ELSE 1]
    /\ UNCHANGED <<kindVars, groupVars, cancelling, results, outcomes, fate,
                   captured, poolVars>>

(* A thread of the loop's executor takes the sync pipeline.                *)
TakeThread(i) ==
    /\ pipe[i] = "queued"
    /\ Cardinality({k \in Calls : kind[k] = "sync" /\ pipe[k] \in {"calling", "waiting"}})
         < LoopThreads
    /\ pipe' = [pipe EXCEPT ![i] = "calling"]
    /\ attempt' = [attempt EXCEPT ![i] = 1]
    /\ UNCHANGED <<kindVars, groupVars, taskVars, fate, captured, poolVars>>

InPool(i) == kind[i] = "sync" /\ timed

(* _run_with_timeout: submit, and wait for the future.                     *)
Submit(i) ==
    /\ InPool(i) /\ pipe[i] = "calling"
    /\ pipe' = [pipe EXCEPT ![i] = "waiting"]
    /\ job' = [job EXCEPT ![<<i, attempt[i]>>] = "queued"]
    /\ poolQueue' = Append(poolQueue, <<i, attempt[i]>>)
    /\ UNCHANGED <<kindVars, groupVars, taskVars, attempt, fate, captured, h_gaveUp>>

StartJob ==
    /\ poolQueue # <<>>
    /\ Cardinality({j \in Calls \X Attempts : job[j] = "running"}) < PoolWorkers
    /\ job' = [job EXCEPT ![Head(poolQueue)] = "running"]
    /\ poolQueue' = Tail(poolQueue)
    /\ UNCHANGED <<kindVars, groupVars, taskVars, pipeVars, h_gaveUp>>

(* Nobody sees what a job returns that was given up: one outcome stands    *)
(* for all.                                                                *)
EndJob(j, o) ==
    /\ job[j] = "running"
    /\ j \in h_gaveUp => o = "value"
    /\ job' = [job EXCEPT ![j] = o]
    /\ UNCHANGED <<kindVars, groupVars, taskVars, pipeVars, poolQueue, h_gaveUp>>

-----------------------------------------------------------------------------
EndPipe(i, f, c) ==
    /\ pipe' = [pipe EXCEPT ![i] = "ended"]
    /\ fate' = [fate EXCEPT ![i] = f]
    /\ captured' = [captured EXCEPT ![i] = c]
    /\ attempt' = attempt

Retry(i) ==
    /\ attempt[i] < MaxAttempts
    /\ attempt' = [attempt EXCEPT ![i] = @ + 1]
    /\ pipe' = [pipe EXCEPT ![i] = "calling"]
    /\ UNCHANGED <<fate, captured>>

(* What the pipeline makes of the outcome o of an attempt.  Recovery       *)
(* policy and escalation router may resume or abort a failed call.         *)
After(i, o) ==
    \/ o = "value" /\ EndPipe(i, "value", "none")
    \/ o = "transient" /\ Retry(i)
    \/ /\ o = "transient" /\ attempt[i] = MaxAttempts
       /\ \E f \in {"failed", "resumed", "killed"} : EndPipe(i, f, "EXCEPTION")
    \/ o = "fault" /\ \E f \in {"failed", "resumed", "killed"} : EndPipe(i, f, "ISSUE")
    \/ o = "kill" /\ EndPipe(i, "killed", "HARD_KILL")

(* future.result(timeout): the future of this attempt.                     *)
Any_Answers(i) == {job[<<i, a>>] : a \in 1 .. attempt[i]} \cap Ended
Answers(i) == {job[<<i, attempt[i]>>]} \cap Ended

GetResult(i) ==
    /\ pipe[i] = "waiting"
    /\ \E o \in Answers(i) : After(i, o)
    /\ UNCHANGED <<kindVars, groupVars, taskVars, poolVars>>

(* Its TimeoutError is retried.  The timeout counts from submit.           *)
Running_TimeOut(i) ==
    /\ pipe[i] = "waiting" /\ job[<<i, attempt[i]>>] = "running"
    /\ h_gaveUp' = h_gaveUp \cup {<<i, attempt[i]>>}
    /\ After(i, "transient")
    /\ UNCHANGED <<kindVars, groupVars, taskVars, job, poolQueue>>

TimeOut(i) ==
    /\ pipe[i] = "waiting" /\ Answers(i) = {}
    /\ h_gaveUp' = h_gaveUp \cup {<<i, attempt[i]>>}
    /\ After(i, "transient")
    /\ UNCHANGED <<kindVars, groupVars, taskVars, job, poolQueue>>

(* An attempt of an async call or of a call without timeout, which the     *)
(* pipeline makes itself.  It may outlast the cancellation of its task.    *)
EndAttempt(i, o) ==
    /\ pipe[i] = "calling" /\ ~InPool(i)
    /\ After(i, o)
    /\ UNCHANGED <<kindVars, groupVars, taskVars, poolVars>>

(* resilient() raises before there is a pipeline (a bad identifier): there *)
(* is no envelope.                                                         *)
Misuse(i) ==
    /\ pipe[i] = "calling" /\ attempt[i] = 1
    /\ EndPipe(i, "failed", "none")
    /\ UNCHANGED <<kindVars, groupVars, taskVars, poolVars>>

(* The callee of an async call raises a CancelledError of its own.         *)
CancelItself(i) ==
    /\ pipe[i] = "calling" /\ kind[i] = "async"
    /\ EndPipe(i, "cancelled", "none")
    /\ UNCHANGED <<kindVars, groupVars, taskVars, poolVars>>

-----------------------------------------------------------------------------
(* TaskGroup._abort.                                                       *)
AbortAllBut(i) ==
    cancelling' = [k \in Calls |-> cancelling[k] \/ (k # i /\ task[k] \notin Over)]

(* The task takes the pipeline's end, unless its await is cancelled: that  *)
(* of an async call may ignore it.                                         *)
Resumes(i) == task[i] = "running" /\ pipe[i] = "ended"
              /\ (cancelling[i] => kind[i] = "async")

RunOneEnds(i, state) == task' = [task EXCEPT ![i] = state]

Succeed(i) ==
    /\ Resumes(i) /\ fate[i] \in {"value", "resumed"}
    /\ RunOneEnds(i, "done")
    /\ results' = [results EXCEPT ![i] =
                      IF fate[i] = "value" THEN attempt[i] ELSE ResumeState]
    /\ outcomes' = [outcomes EXCEPT ![i] = Outcome("success", "none")]
    /\ UNCHANGED <<kindVars, groupVars, cancelling, pipeVars, poolVars>>

Fail(i) ==
    /\ Resumes(i) /\ fate[i] = "failed"
    /\ RunOneEnds(i, "done")
    /\ outcomes' = [outcomes EXCEPT ![i] = Outcome("exception", captured[i])]
    /\ UNCHANGED <<kindVars, groupVars, cancelling, results, pipeVars, poolVars>>

(* A variant that takes AgentHardKillError for another failure.            *)
Swallowed_Kill(i) ==
    /\ Resumes(i) /\ fate[i] = "killed"
    /\ RunOneEnds(i, "done")
    /\ outcomes' = [outcomes EXCEPT ![i] = Outcome("exception", captured[i])]
    /\ UNCHANGED <<kindVars, groupVars, cancelling, results, pipeVars, poolVars>>

Kill(i) ==
    /\ Resumes(i) /\ fate[i] = "killed"
    /\ RunOneEnds(i, "killed")
    /\ errors' = Append(errors, i)
    /\ group' = "aborting"
    /\ IF group = "open" THEN AbortAllBut(i) ELSE cancelling' = cancelling
    /\ UNCHANGED <<kindVars, stopped, report, results, outcomes, pipeVars, poolVars>>

(* CancelledError ends the task.  A pipeline that waits for a thread is    *)
(* withdrawn; one that has a thread goes on, unless threads could be       *)
(* interrupted as in the variant.                                          *)
Interrupting_Cancelled(i) ==
    /\ \/ cancelling[i] /\ task[i] \in {"new", "running"}
       \/ Resumes(i) /\ fate[i] = "cancelled"
    /\ RunOneEnds(i, "cancelled")
    /\ pipe' = [pipe EXCEPT ![i] = "none"]
    /\ UNCHANGED <<kindVars, groupVars, cancelling, results, outcomes, attempt, fate,
                   captured, poolVars>>

Cancelled(i) ==
    /\ \/ cancelling[i] /\ task[i] \in {"new", "running"}
       \/ Resumes(i) /\ fate[i] = "cancelled"
    /\ RunOneEnds(i, "cancelled")
    /\ pipe' = [pipe EXCEPT ![i] =
                   IF kind[i] = "async" \/ pipe[i] = "queued" THEN "none" ELSE pipe[i]]
    /\ UNCHANGED <<kindVars, groupVars, cancelling, results, outcomes, attempt, fate,
                   captured, poolVars>>

(* The task of call_parallel is cancelled while it waits for the group.    *)
CancelGroup ==
    /\ group = "open"
    /\ group' = "aborting" /\ stopped' = TRUE
    /\ AbortAllBut(0)
    /\ UNCHANGED <<kindVars, errors, report, task, results, outcomes, pipeVars, poolVars>>

-----------------------------------------------------------------------------
(* [outcome for outcome in outcomes if outcome is not None]: First[n] is   *)
(* what the first n contribute.                                            *)
CompletedOf(o) ==
    LET First[n \in 0 .. Len(o)] ==
            IF n = 0 THEN <<>>
            ELSE IF o[n] = NoOutcome THEN First[n - 1]
            ELSE Append(First[n - 1], o[n])
    IN  First[Len(o)]

(* max(classes, key=_SEVERITY)                                             *)
First_AggregateClass(s) ==
    IF \A k \in 1 .. Len(s) : s[k].class = "none" THEN "none"
    ELSE s[CHOOSE k \in 1 .. Len(s) :
              /\ s[k].class # "none"
              /\ \A m \in 1 .. k - 1 : s[m].class = "none"].class
AggregateClass(s) ==
    LET found == {s[k].class : k \in 1 .. Len(s)} \ {"none"}
    IN  IF found = {} THEN "none"
        ELSE CHOOSE c \in found : \A d \in found : Severity[d] <= Severity[c]

CountOf(s, Test(_)) == Cardinality({k \in 1 .. Len(s) : Test(s[k])})

Report(s) ==
    [outcomes |-> s,
     aggregate |-> AggregateClass(s),
     successes |-> CountOf(s, LAMBDA o : o.status = "success"),
     failures |-> Len(s) - CountOf(s, LAMBDA o : o.status = "success"),
     summary |-> [c \in Classes |-> CountOf(s, LAMBDA o : o.class = c)]]

Gathered == \A i \in Calls : task[i] \in Over

Return ==
    /\ group = "open" /\ Gathered
    /\ group' = "returned"
    /\ report' = Report(CompletedOf([i \in Calls |-> outcomes[i]]))
    /\ UNCHANGED <<kindVars, stopped, errors, taskVars, pipeVars, poolVars>>

(* raise group.exceptions[0], or the cancellation of call_parallel.        *)
Raise ==
    /\ group = "aborting" /\ Gathered
    /\ group' = IF errors # <<>> THEN "raised" ELSE "cancelled"
    /\ UNCHANGED <<kindVars, stopped, errors, report, taskVars, pipeVars, poolVars>>

-----------------------------------------------------------------------------
Pipeline(i) ==
    \/ TakeThread(i) \/ Submit(i) \/ GetResult(i) \/ TimeOut(i)
    \/ Misuse(i) \/ CancelItself(i)
    \/ \E o \in Ended : EndAttempt(i, o)

Task(i) == StartCall(i) \/ Succeed(i) \/ Fail(i) \/ Kill(i) \/ Cancelled(i)

Pool == StartJob \/ \E j \in Calls \X Attempts, o \in Ended : EndJob(j, o)

ParallelNext ==
    \/ CallParallel \/ CancelGroup \/ Return \/ Raise
    \/ \E i \in Calls : Pipeline(i) \/ Task(i)
    \/ Pool

ParallelSpec == ParallelInit /\ [][ParallelNext]_parallelVars

(* The loop and the threads run; functions without a timeout come back,    *)
(* those with one need not.                                                *)
ParallelFairness ==
    /\ \A i \in Calls : WF_parallelVars(Task(i)) /\ WF_parallelVars(Pipeline(i))
    /\ WF_parallelVars(Return \/ Raise)

-----------------------------------------------------------------------------
(* What call_parallel returns is what the pipelines did: one outcome for   *)
(* every call that did not cancel itself, in the order of the calls, a     *)
(* result exactly for the successes, and the most severe class of all      *)
(* failures.                                                               *)
ReportIsFaithful == group = "returned" =>
    LET Reported == {i \in Calls : fate[i] # "cancelled"}
        Before(i) == Cardinality({k \in Reported : k <= i})
    IN  /\ Len(report.outcomes) = Cardinality(Reported)
        /\ \A i \in Reported :
              LET o == report.outcomes[Before(i)]
              IN  IF fate[i] = "failed"
                  THEN o = Outcome("exception", captured[i]) /\ results[i] = NoResult
                  ELSE o = Outcome("success", "none") /\ results[i] # NoResult
        /\ \A i \in Calls : fate[i] = "failed" /\ captured[i] # "none" =>
              /\ report.aggregate # "none"
              /\ Severity[captured[i]] <= Severity[report.aggregate]
              /\ report.summary[captured[i]] > 0
        /\ report.aggregate # "none" =>
              \E i \in Calls : fate[i] = "failed" /\ captured[i] = report.aggregate
        /\ report.successes + report.failures = Cardinality(Reported)

(* If call_parallel returns, no call ended with AgentHardKillError, and    *)
(* none is still at work that could; if it raises one, a call did.         *)
HardKillSurfaces ==
    /\ group = "returned" =>
          \A i \in Calls : /\ fate[i] # "killed" /\ captured[i] # "HARD_KILL"
                          /\ pipe[i] \in {"none", "ended"}
    /\ group = "raised" => fate[errors[1]] = "killed"

(* The value of a timed sync call is that of its last attempt, also when   *)
(* an attempt it had given up returned in the meantime.                    *)
AnswerIsNotStale ==
    \A i \in Calls : InPool(i) /\ fate[i] = "value" => job[<<i, attempt[i]>>] = "value"

(* Whatever of a call is still in the pool was given up, except what the   *)
(* pipeline is waiting for: an attempt overlaps only with such ghosts.     *)
OnlyGhostsLinger ==
    \A i \in Calls, a \in Attempts :
        job[<<i, a>>] \in {"queued", "running"} =>
            <<i, a>> \in h_gaveUp \/ (pipe[i] = "waiting" /\ a = attempt[i])

(* call_parallel comes back, even if no timed function ever does.          *)
GroupEnds ==
    group \in {"open", "aborting"} ~> group \in {"returned", "raised", "cancelled"}
=============================================================================
