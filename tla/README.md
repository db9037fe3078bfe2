# TLA+ models of agentic-exception-sdk

The SDK wraps the tool calls of an agent: it decides whether a call may run,
retries it, and when it fails classifies the failure, records it, and either
recovers, re-raises or kills the agent. This directory holds TLA+ models of the
parts that decide, TLC configurations that check them on small instances, and
proofs, checked by TLAPS, of what matters most for every size.

All source paths below are under `src/src/agentic_exception_sdk/`.

## Inventory

| Component | State | Operations | What is hard | What makes it correct |
|---|---|---|---|---|
| In-process circuit breakers, `resilience/circuit_breaker.py` | `_state`, three counters, `_opened_at`, a lock; the local `admitted_probe` of each call | `call`, `async_call` | the lock is released while the function runs, so a call ends in a state other than the one it was admitted in; functions may end with a BaseException | slots are given back; the circuit opens on faults only, closes on probes only, and always admits again |
| Redis circuit breaker, same file | a hash in Redis | `call`, `async_call`: load, decide, save | nothing is atomic; saving may fail after the function succeeded; clocks of several hosts | calls that nobody overtook keep the contract; it always admits again |
| Budget watchdog, `budget/watchdog.py` | five counters under a lock | `consume_call`, `record_failure`, `reserve_tokens`, `account_stream_delta`, `snapshot` | check and charge of several counters by many threads | no ceiling is passed, a charge is all or nothing |
| Streaming guard, `budget/streaming.py` | a watchdog | `record_chunk` | float costs rounded to micro-USD, chunk by chunk | the ledger follows the true cost |
| Governed call, `resilience/wrap.py` | the position of each call; the bundle's parts are shared | `resilient`, `async_resilient` | five layers in a fixed order, exceptions and BaseExceptions of every layer, cancellation at each await | verdicts are final, HARD_KILL reaches the DLQ, budgets hold across calls, every call ends |
| Retry policy and tracker, `resilience/retry.py` | the attempt number; the tracker's dictionary | `execute`, `async_execute`, `record_attempt`, `complete` | the loop ends in six ways; keys may be shared | at most `max_attempts`, none after a spent budget, no stale entry |
| Timed sync calls, `resilience/wrap.py` | a bounded thread pool | `submit`, `result(timeout)` | a timed-out function runs on and occupies its worker, beside its retry | answers are of the present attempt, callers come back |
| Classifier, `taxonomy/classifier.py` | none | `classify` | nested groups, mixed with control flow | the worst failure at any depth wins |
| Compensation, `resilience/compensating.py` | steps per correlation id | `register`, `compensate`, `clear` | one step of several fails; registration during compensation | all are attempted, last first |
| Buses and dead-letter queues, `propagation/` | bounded lists under locks, thread locks or asyncio's | `publish`, `drain`, `peek` | the limit, concurrent drains, an asyncio.Lock used from several loops | newest kept, drops counted, operations atomic, callers come back; of several loops that share an async queue, none of it |
| Parallel calls, fan-out, orchestrator router, SLA, `multi_agent/` | result slots, a task group, a capture bus per call | `call_parallel`, `fan_out`, `route` | siblings cancelled while their threads run, deadlines | one outcome per call in input order, kills surface |
| Consensus gate, `multi_agent/consensus.py` | votes per id | `vote`, `reached`, `reset` | votes, not voters, are counted | threshold of agreeing agents |
| Escalation router, checkpoint store, `escalation/` | handler table; a dictionary | `route`, `save`, `restore` | handlers may raise | every class and level has its handler |
| Envelope, enums, errors, OWASP map, `taxonomy/` | immutable data | validation, `extend_lineage` | class and level must agree; the lineage has a limit | only legal pairs, no softening on the way |
| Trust boundary, guard rails, gates, `validation/` | none | canonicalise, redact, sanitise | depth and size limits, a time budget that ends midway, cycles of exceptions | bounded, redacted output that loses no more than it must |
| Persistence, `persistence/` | a list of leaves | `persist`, Merkle root | odd numbers of leaves | root determined by the leaves |
| Observability; bundle, config, no-op parts; examples | counters, spans; none | | I/O | not read by any decision |

How they interact: a `ResilienceBundle` holds one of each part and any number
of governed calls share it, from threads or from asyncio tasks. A call passes
guard rails and the call budget, then `breaker(retry(fn))`, then the output
gate. `fn` may itself charge tokens through the streaming guard, whose
`BudgetExhaustedError` travels out through the retry loop (which counts it as a
failure and does not retry it) and the breaker (which must not count it) to the
except clauses. These build an envelope (classifier, message, snapshot) and call
the sink, the bus, the recovery policy, the router and the DLQ. `call_parallel`
runs one such pipeline per task, in a thread if the function is synchronous,
and an orchestrator hands envelopes to its workers with `route`.

## Modules

| Module | Models | Rests on |
|---|---|---|
| `BreakerContract` | what a breaker promises: when calls begin, which end moves the circuit where, how long OPEN lasts | |
| `CircuitBreaker` | `InMemoryCircuitBreaker` and `AsyncInMemoryCircuitBreaker` | refines `BreakerContract` |
| `CircuitBreakerProofs` | theorems about it | `CircuitBreaker` |
| `RedisBreaker` | `RedisCircuitBreaker`: calls of several hosts on one hash | |
| `RedisBreakerProofs` | theorems about it | `RedisBreaker` |
| `TokenBank` | an atomic, bounded ledger with atomic reports | |
| `TokenBudget` | the token and cost part of `BudgetWatchdog`, and `StreamingBudgetGuard` | refines `TokenBank` |
| `TokenBudgetProofs` | theorems about it | `TokenBudget` |
| `GovernedCall` | `resilient`, `async_resilient`, the retry loop, its tracker, the call and failure budgets, the DLQ | contains `CircuitBreaker` by INSTANCE |
| `GovernedCallProofs` | theorems about it | `GovernedCall`, `CircuitBreakerProofs` |
| `BoundedLog` | a bounded log whose operations are single steps | |
| `EnvelopeQueue` | `InMemoryDLQ` and `InMemoryBus`, used by several threads | refines `BoundedLog` |
| `LoopQueue` | `AsyncInMemoryDLQ` and `AsyncInMemoryBus`, shared by several event loops | |
| `EnvelopeQueueProofs` | theorems about it | `EnvelopeQueue` |
| `Rollback` | `CompensatingTransactionRegistry` | |
| `RollbackProofs` | theorems about it | `Rollback` |
| `ParallelCalls` | `call_parallel` and the thread pool of timed sync calls | |
| `FanOut` | `fan_out`, `OrchestratorExceptionRouter`, `ConsensusGate` | |
| `MultiAgent` | an orchestrator that uses both | `ParallelCalls`, `FanOut` |
| `MultiAgentProofs` | theorems about it | `MultiAgent` |
| `Taxonomy` | classes, levels, and the classification of one exception | |
| `ExceptionChain` | the two walks behind `safe_exception_message` over causes and contexts | |
| `ExceptionGroups` | the calls of `classify` for nested groups | `Taxonomy` |
| `Lineage` | an envelope from agent to agent, and the choice of an escalation handler | `Taxonomy` |
| `SnapshotWalk` | `sanitize_context_snapshot` and the envelope's own check | |
| `Backoff` | the sleeps of the retry loop, with Retry-After headers | |
| `FailedCall` | a failed call from its retries to its envelope and on from agent to agent | the five above |
| `FailureProofs` | theorems about these | `FailedCall` |
| `MC*` | values of the constants for TLC | |

**CircuitBreaker.** One element of `Calls` is one activation of `call()`. The
code takes its lock twice, so there are two actions for each activation: the
admission (`Admit`, `AdmitFirstProbe`, `AdmitProbe`, `Reject`) and the end
(`SucceedHalfOpen`, `Succeed`, `Fail`, `Exhaust`, `Escape`), with anything in
between. `running` and `probes` are the activations whose function runs and
their local `admitted_probe`. The clock is the age of `_opened_at`, counted up
to the cooldown by `Tick`. `BudgetExempt` is TRUE for the class with an
`except BudgetExhaustedError` branch and FALSE for the asyncio class, which has
none; nothing else differs. `state_transition_total` is left out: nothing reads
it. History variables follow what the code forgets: the true time since the
circuit opened (`h_openFor`), faults since the last success that counted
(`h_strikes`), and, for the present half-open window, the probes that belong to
it, those lost, the slots given back by strangers and the successes of its own
probes.

**RedisBreaker.** Each call runs three routines in turn, `_before_call`, its
function, and `_record_failure` or `_record_success`; each routine loads the
hash (`Load`), decides on its `copy` (`Admit`, `Reject`, `Probe`, `CountFailure`,
`CountSuccess`) and saves (`Save`). These are separate steps because in the code
nothing holds the hash between them: the time a request to Redis takes, the
threads `async_call` hands the routines to, and other hosts all come in between.
Every load may fail, and every save too, with or without effect. There are no
probe slots here: HALF_OPEN admits every call. A time is kept as its age on a
reference clock, and `Ahead[c]` is how far the clock of c's host is ahead of it.
`h_inside` is history: the calls that were inside `call()` when another call last
changed `state` or `opened_at`. A missing hash reads as CLOSED, which is `Init`; a
hash evicted or edited from outside is not modelled. `_state_unavailable_count`
and the tier it gives are left out: they word a message.

**TokenBudget.** `reserve_tokens`, `async_reserve_tokens` and
`account_stream_delta` have the same locked body: three checks, three additions.
Each addition is an action of its own (`ChargeTokens`, `ChargeCost`), as are the
acquisition of the lock and the check, so that the lock has something to do:
with `LockIsFree` always TRUE the ceilings are passed. The three checks only
read and only the lock holder writes, so they are one action. A chunk's float
cost is a number of parts, `Scale` of which make a micro-USD, and
`RoundToMicros` is Python's `round`, half to even.

**GovernedCall.** The position of a call (`pc`) is one of: `idle`; `admission`,
past the budget and before the breaker; `attempt`, in `fn`; `backoff`, asleep
between two attempts; `leaving`, out of the loop and not yet through the
breaker's second critical section; `report`, before sink and bus; `tier`, in
`_handle_tier`; `kill`, before DLQ and raise. What `fn` can raise is one of eight
kinds, chosen so that no two are treated alike everywhere: by `except Exception`
in `_call_fn`, by the retryable tuple, by the breaker's branches, by the order
of the wrapper's except clauses, and by the classifier. EXCEPTION and ISSUE run
the same code in `_handle_tier` and are one verdict, `recoverable`. The recovery
policy's, the router's and the time budget's answers are free choices. The
breaker's steps are those of `CircuitBreaker`, taken where the code enters and leaves
`bundle.circuit_breaker.call`: once around the whole retry loop. `h_failed` counts the calls
that failed for good, and `BreakerCountsCalls` says that the breaker's own counter is never
ahead of it.

Left out of GovernedCall, because nothing it decides depends on it: envelope
contents, metrics, latency, telemetry flush, log lines, the length of a delay,
`idempotency_key_fn` (not configured), the re-entrancy flag of nested side
effects (no handler calls `resilient()` again here; such a nested call's
AgentHardKillError is the kind `kill`), and the fallback envelope for an invalid
`agent_id`, which a validated configuration cannot have. The DLQ is the set of
calls whose present envelope was offered to it: `_safe_publish_dlq` hides whether
the queue took it. The thread pool behind `timeout_seconds` on sync calls is not
here: a timeout is a `transient` error; `ParallelCalls` has it.

**EnvelopeQueue.** One module for two classes that differ in what a full queue does:
the dead-letter queue drops its oldest entry, the bus refuses the new one
(`dropOldest`). Every access to the list is a step, so that the `threading.RLock` has
something to do; `ImplementsBoundedLog` then says that nobody sees the steps. `MaxSize`
is at least 1; with `max_size=0` `publish` of a dead-letter queue raises IndexError on its
empty list. The asyncio classes on one event loop need no model: nothing is awaited under
their lock, so an operation is one step of the loop.

**LoopQueue.** Bundles are shared with sync pipelines, which drive each publish to an
asyncio queue by `asyncio.run` on a new loop, in their own thread (`_drain_coroutine`).
Then nothing keeps two operations apart. `_get_lock` creates the lock at first use with a
check and an assignment of which another thread may come in between (`SeeNoLock`,
`CreateLock`, `GetLock`), so threads may hold different locks. `asyncio.Lock` is not
thread-safe, so its checks, its assignment and its release are steps of their own too
(`CheckLocked`, `CheckWaiters`, `Take`, `CheckRelease`, `Release`), and two threads may take
one lock. Contended, it is bound to the loop of its first waiter (`Enqueue`); later waiters
on other loops get RuntimeError (`WrongLoop`), and the wakeup of a waiter is a `call_soon`
from another thread, which does not interrupt a loop asleep in `select()` (`Sleep`).
Of the entries only their number is kept, and the drop counter is left out: neither decides
how an operation ends. That two threads may each create the deque of waiters is left out.

**Rollback.** `register` and `clear` are single locked steps. `compensate` copies the
list under the lock and then runs one compensator after the other without it:
each is a step, which succeeds, fails (`FailToUndo`) or raises a BaseException
that leaves the loop (`Escape`). Compensators may use the registry themselves, as
`Register` and `Clear` are enabled throughout. Steps are numbered as they are
registered, over all runs; history variables keep what was due when a rollback
began, and what it tried.

**ParallelCalls.** A call is a task (`task`), a pipeline (`pipe`) and, if it is sync with
a timeout, jobs in the pool (`job`, one for each attempt). A sync pipeline waits
for a thread of the loop's executor (`TakeThread`) and cannot be cancelled once it
has one; an async pipeline runs in the task and ends with it, but may choose to
ignore its cancellation. `TimeOut` abandons a job, which stays queued or keeps
its worker, and counts from `Submit`, so a job may time out before it starts.
What the pipeline makes of an attempt is the least that `call_parallel` can tell
apart: `GovernedCall` has it in full, and the two are not composed, as their
product is beyond TLC. The task group is modelled as CPython 3.11 has it.

**FanOut.** Handlers are tasks that vote on a `ConsensusGate` while they run, each as often as
it likes: `vote` counts calls and asks for no voter. A round of the
orchestrator is `reset`, `route`, `require_consensus`; it may be repeated. A handler
returns, raises an Exception (counted as None), raises a BaseException (the group
aborts, and `route` raises a group), or is cancelled. With
`fan_out_timeout_seconds` the deadline may come at any time, also when all handlers
have just ended.

**ExceptionChain.** The code walks over the graph of causes and contexts twice, with a
stack and a set of seen ids: first for parse errors, then for texts. Each turn of
a loop is a step: `Skip` for an exception that was seen, `Find` or `Found` and `Read` for a
new one. `Visit` is what the two loops share, and `Pushed` puts the cause above
the context. What is pushed may be anything, the exception itself included.
`chars` is the length of the joined texts, which the second loop's guard reads.
`Answer` may find the redaction budget exceeded. `h_pops` is history.

**ExceptionGroups.** A group is a tree whose exceptions and groups are numbered in
the order in which they are met; what the group n holds are the numbers up to
`last[n]`. `calls` is Python's call stack: `Enter` is the call for a group,
`Classify` the one for an exception, and both return to `max()` of the innermost
call under way, which keeps the first of the most severe (`Worse`). The split that
`resilient()` makes before is part of the walk: an exception that is control flow,
and a group that has nothing else, gives its caller nothing. An exception is
the set of types `isinstance` finds.

**Lineage.** `Build` is an envelope at the agent that failed, with any class and a level
that the validator accepts for it; `Hop` is `extend_lineage` on the way to the
next agent. The walked path and the first class are history.

**SnapshotWalk.** Host state is a list of values in the order of the walk, each with
its depth, the kind of key it has, its place among its siblings and what it is: one of five kinds of
scalar, a dict or a list. `at` is where the walk is. A value that is cut (`Cut`: beyond the
first keys, under a sensitive key, or too deep) leaves out all that is in it,
which are the deeper values right after it; `cut` is that depth. `out` has what stands for
each value. When the redaction budget ends is a free choice at every string
(`spent`), and a pattern may fail at any. `Check` is `SafeContextSnapshot`, which accepts
what came out or leaves the empty snapshot in its place. Keys are of four kinds:
plain, sensitive, with a secret in their own text, and without any text because `str(k)`
raises. The last kind ends the walk with the empty snapshot (`Raise`); the text of the others
goes into the snapshot as it is (`keys`), as the code scans values only. The keys of a dict are
taken to be distinct as strings: in the code `1` and `"1"` would become one key.

**Backoff.** The retry loop of one call with nothing but its times: `Sleep` computes
a delay for the exception's Retry-After header and sleeps, `Abandon` is a delay
that overflows or that the budget refuses. Times are in a unit small enough for
the jitter to be whole. `GovernedCall` has the loop's other steps.

**FailedCall.** These five in the order in which `resilient()` and `_build_envelope` run them: the
retry loop raises, the failure is classified, then its message taken, then the
context copied, then the envelope built with the class and level found, and sent on. The parts
share nothing but that order, except that what was classified decides the envelope. A `failure` is
everything the environment gives: the exception as a group and as a chain, the
context, the agent, the headers and the agents that come after. If the retry loop
raises something in place of the exception (an OverflowError, a spent budget), that is
another failure, with another tree. An exception that is only control flow gets no
envelope.

Definitions named `Word_Def` beside `Def` are faulty variants: with `Def` replaced
by one of them, some property listed in `PROJECT.json` fails. They show that the
properties speak about the code, and are otherwise unused.

## Runs

| Run | Question | Bounds |
|---|---|---|
| `breaker` | Are the slots accounted for, do only faults trip it, does it keep the contract, does it always admit again unless a probe was lost? | 3 calls, threshold 2, cooldown 2, 2 probes: about 4 300 states |
| `breaker_lost_slot` | Can it reject for ever? Yes | same |
| `breaker_stray_success` | Can it close with fewer probe successes than configured? Yes | same |
| `redis_breaker` | Which promises survive races, failures of Redis and clocks apart? Does it always admit again? | 3 calls on 2 hosts one unit apart, threshold 2, cooldown 1, 2 probes: about 618 000 states, 90 s |
| `redis_breaker_stale` | Can OPEN be left before its cooldown? Yes | same, cooldown 2 |
| `token_budget` | Are charges atomic and within the ceilings, is the ledger near the truth? | 3 workers, ceilings 3 and 2, 5 chunks: about 4 700 states |
| `governed_call` | Are verdicts final, do the budgets hold, does the breaker count calls rather than attempts, is the tracker exact, does every call end? | 2 calls, 2 attempts, 3 invocations past the budget, failure budget 3, a breaker with threshold, cooldown and probe count 1: about 145 000 states |
| `envelope_queue` | Are all envelopes accounted for, are operations atomic, do they return? | 2 publishers, 2 readers, one thread being both, size 2, 3 envelopes, both classes: about 6 600 states |
| `loop_queue` | Can an operation on an async queue used from several loops hang? Yes | 2 publishers, one of which also drains or peeks, size 1 |
| `rollback` | Is the order kept, the report exact, nothing forgotten but late steps; does it end? | 2 threads, 2 runs, 3 steps: about 132 000 states, 25 s |
| `multi_agent` | Do kills surface, are reports and answers true, are votes of one round, do both end? | 2 calls, 2 attempts, 1 pool worker, 2 loop threads; 3 handlers, 2 directives, 2 votes for consensus, at most 3 in each of 2 rounds: about 151 000 states, 40 s |
| `failed_call` | Is no sleep too short or too long; is a group classified as its worst failure; is every parse error found and every text read once, in order, by walks that end; do secrets in values stay behind, with nothing lost that need not be; is the envelope never softened, forgetful or without a handler? | failures that are plain but for one part, which takes all its values: headers at and around limits of 8 and 16 over 6 attempts; all nestings of up to 5 exceptions and groups; all graphs of causes and contexts of 3 exceptions; all host states of 3 values, and of 5 with strings only; 2 agents, a cap of 3, 5 hops: about 1 450 000 states, 80 s |

Why these bounds are enough. *Breaker:* the three kinds of running call that
interfere are a probe of the present window, a probe of an earlier one and a
call admitted while closed; three activations, each reusable, can be one of
each. Counters of 2 tell first from last. *Redis breaker:* an overtaken save needs two
calls, the call that relies on what it left behind is a third; two hosts, one
unit apart, see the end of a cooldown of one at different times. *Tokens:* a race needs two workers, a
third takes snapshots; requests meet a ceiling exactly, pass it by one, and meet
one while passing another. *Governed call:* two calls suffice for one to spend
the failure budget while the other sleeps, and to hold the only probe slot
through a backoff; three admitted invocations trip the breaker, lose its probe
and have a third rejected. In this run `BudgetExempt` is FALSE (the asyncio
breaker), in `breaker` TRUE, so both variants are exercised. *Queue:* two
publishers on a queue that is full with two entries, while the third thread
drains or peeks. *Async queue:* a holder and a waiter. *Rollback:* two rollbacks of one run or of two, with a step before, during
and after the copy. *Multi-agent:* two calls on one worker, so that a job
given up blocks its own retry and the other call; a kill with one sibling at any
point of its life; three handlers and three votes, so that a
consensus may come from two handlers or from one that votes twice, and a second round after a timeout. *Chain:* three exceptions have every cycle of length one to three, two
ways to reach the third, and a message that is full after two texts. *Groups:* five nodes give
a group in a group in a group, and failures on both sides of one. *Lineage, snapshot,
retries:* every limit is met, missed by one and passed by one.

Bounds that belong to the models and not to the code: `MaxChunks`; the clocks stop
at `Cooldown`, `callCount` at one above `MaxToolCalls`, `failures` at one above
`FailureBudget`, and `h_strikes` and `h_failed` at `FailureThreshold`, where no comparison in
the code can tell larger values apart. `max_tool_calls` and `failure_budget` are set
(not None). In the queue, publishes stop after `MaxEnvelopes`, in
the registry registrations after `MaxSteps`, in fan-out rounds after `MaxRounds` and votes of a round after `MaxVotes`; a lineage stops
at `MaxHops`. `FloatExponent` stands for 1024.
Deadlock is checked in every run but two, where the system is done at some
point: `multi_agent`, when calls and rounds are over, and `failed_call`, when the call returned or
its envelope has gone all its hops.
In `failed_call` one part varies at a time because the parts share no state: each step is one
part's, and leaves the variables of the others alone (lemma `ComposesParts`).

Fairness. `AdmitsAgain` assumes that clocks advance and that every function that
was started ends (`WF` of `Finish(c)`): the breaker cannot be blamed for a
function that hangs. In `RedisBreaker` each step of a call is taken if it can be,
where an error of Redis is such a step too. `EveryCallEnds` assumes weak fairness of each call's own
steps, that is, that functions, sleeps and handlers end and the scheduler runs
every thread or task that can run. `EveryThreadReturns` needs strong fairness of `Acquire`,
since a thread lock is free again and again but a contender may be overtaken
each time; operating systems do not starve a thread for ever, though CPython
promises no order. `EveryRollbackEnds` assumes that compensators come back. `GroupEnds` assumes
that pipelines and tasks go on and that timeouts fire, but not that the pool
ever runs a job: a timed function may hang, and one without a timeout may not.
`RouteEnds` assumes that the deadline passes and that a handler ends once cancelled,
nothing else of handlers. Nothing obliges anybody to make a call, and
no cancellation is ever assumed to come or not to come.

## What the runs show

* A half-open breaker lets through more than `half_open_probe_count` concurrent
  probes only by the number of probes of an earlier window that end late
  (`ProbeLimit`); the accounting behind it is exact (`SlotAccounting`).
* `_opened_at` may be refreshed while the circuit is OPEN by calls that were
  already running, so OPEN may last longer than the cooldown, but never shorter
  (`ImplementsContract`) and not for ever (`AdmitsAgain`).
* The Redis breaker does not keep `BreakerContract`: with one call overtaken by
  another between load and save, or merely still running, OPEN closes at once
  (`OpenWaitsForCooldown`), and a save of an old copy may bring back an earlier
  `opened_at`, so that a cooldown counts from a former opening. What survives is
  `NewcomersKeepContract`: a call that entered since the circuit last moved keeps
  the contract, measured by the `opened_at` it finds and the clock of its host. And
  the circuit never rejects for ever (`AdmitsAgain`), as no interleaving loses
  `opened_at` (`OpenedAtKnown`).
* `InMemoryDLQ` and `InMemoryBus` keep every promise under their thread lock. The asyncio
  queues keep theirs on one loop only: driven from several, with a lock that may be several
  locks and that is not thread-safe, they guarantee none of what is shown of the others. An
  operation may hang for ever (`EveryOperationEnds`), others fail with the envelope lost.
* Retries run inside one admission (`BreakerCountsCalls`): `failure_threshold` counts calls
  that failed for good, not attempts, and a probe keeps its slot while it sleeps.
* `compensate()` followed by `clear()` loses a step registered in between, and no other
  (`ForgetsOnlyLateSteps`).
* A timed-out function overlaps its own retries, but only as a ghost: its answer
  is never taken for that of a later attempt (`AnswerIsNotStale`, `OnlyGhostsLinger`). With
  all workers taken by ghosts, callers still come back, by their timeouts
  (`GroupEnds`).
* No report is returned after a hard kill, whichever order calls end in
  (`HardKillSurfaces`).
* Four places where the code and its documentation part are in `PROJECT.json`
  under `findings`, each with the run that shows it: lost probe slots, stray
  successes, the Redis circuit that closes early, and async queues on several
  loops.
* In a governed call the envelope of a HARD_KILL may miss the DLQ: not when
  AgentHardKillError comes out (`HardKillIsFinal`), but when a handler raises a
  BaseException, or a cancellation arrives, before the publish (outcome
  `interrupted`).

Differences from the documentation that the models describe and no run is kept for:

* `AsyncInMemoryCircuitBreaker` has no `except BudgetExhaustedError`, so budget
  exhaustion trips it (`circuit_breaker.py:402`), unlike its docstring ("the same state
  machine") and the comment at `circuit_breaker.py:207`. With `BudgetExempt = FALSE`, TLC
  refutes `TripsOnFaults`.
* Each chunk's cost is rounded by itself, so chunks of half a micro-USD and less
  cost nothing (`streaming.py:144`); `CostDrift` is the bound that remains.
* The control branch of a mixed exception group is dropped when the failure
  branch is recovered or killed (`wrap.py:567` and 580), though `classifier.py:62` says it "is
  re-raised after routing".
* A compensator that raises a BaseException ends the rollback, with the rest not
  attempted and earlier failures not reported; the docstring at `compensating.py:61` speaks of
  all remaining steps.
* A context nested deeper than `SAFE_CONTEXT_MAX_DEPTH` is not cut off there, as the docstring
  at `trust_boundary.py:335` says: the placeholder sits one level too deep for
  `_check_node`, and the whole snapshot becomes `{}`. A Mapping that is no dict gives `{}`
  too.
* A lineage "capped at 64 hops" (`wrap.py:1044`) has 65 entries from then on and one more
  with every later hop.
* `_compute_delay` raises OverflowError from attempt 1025 on, and for a Retry-After number too
  large for a float, which the docstring at `retry.py:205` would clamp or cap.
* A handler's BaseException leaves `fan_out` in a BaseExceptionGroup
  (`router.py:41` says it "never re-raises secondary handler exceptions"); a fan-out that
  times out loses the directives already given.
* A callee that raises CancelledError itself is missing from the outcomes of
  `call_parallel`; if `call_parallel` is cancelled, a hard kill of a pipeline that still has its
  thread is seen by nobody.
* `ConsensusGate` counts votes, not agents: one agent that votes twice reaches a threshold of
  two (`consensus.py:54`, as `tests/unit/test_multiagent.py:69` expects), where `consensus.py:3` speaks of
  "K-of-N agents".
* The keys of host state enter a snapshot unscanned and of any length (`trust_boundary.py:383` to
  387), so a secret in a key stays, and a key whose `str()` raises empties the whole snapshot.
  `trust_boundary.py:144` says that no host string enters an envelope without passing the validator, and
  `trust_boundary.py:3` speaks of all host strings.

## Proofs

All theorems hold for any constants that satisfy the modules' assumptions
(`BreakerAssumption`, `RedisAssumption`, `TokenAssumption`, `CallAssumption`, `QueueAssumption`,
`RollbackAssumption`, `ParallelAssumption`, `FanOutAssumption`, `ChainAssumption`,
`GroupsAssumption`, `LineageAssumption`, `SnapshotAssumption`, `BackoffAssumption`, `FailedCallAssumption`), which TLC evaluates on every
run. The assumptions on `Chains`, `Trees` and `Contexts` say only what every Python exception, group or
state has: any number of exceptions with any links, trees and nestings of any size.

*CircuitBreaker.* `IInv` is `TypeOK` with `SlotAccounting`. Neither is inductive
alone: that the circuit's successes stay below the probe count comes from the
accounting, and the accounting, a statement about cardinalities, needs the
window's probes to be a finite set. `Released` never goes below zero, a success in
the window is counted in `probeSuccess` if it is in `h_probeOk`, and a first probe
resets both sides. From it follow `TypeCorrect`, `SlotsAccountedFor`,
`ProbesLimited`; `FaultsTrip` (assuming `BudgetExempt`, and false without it) uses the conjunct that the failure counter never
exceeds the strikes; `KeepsContract` uses the conjunct `openAge <= h_openFor`.

*RedisBreaker.* `NewcomersKeepContract` speaks of a save and depends on a load two
steps earlier. `View` carries it across: for a call outside `h_inside`, how its
copy relates to the hash at each of its steps (`Sees`). It is inductive because a
write that changes `state` or `opened_at` puts everyone else inside into
`h_inside`, and any other write leaves alone what `Sees` reads. The lemmas `Quiet`
(steps that leave the hash alone) and `Writing` (saves) hold that argument once;
every action is one or the other.

*TokenBudget.* `WithinCeilings` is not inductive: between the check and the last
addition it needs `Promise`, that what the holder of the lock has still to add
fits, and `Exclusion`, that only the holder is under way. `CostDrift` needs
`ChunkNeed`, that a chunk's request is its rounded cost, and the lemma `Rounding`.
`ImplementsBank` maps the ledger to `Committed`, the counters without the charge
under way: all steps but the last addition leave it alone, and the last is a
`Grant`.

*GovernedCall.* `IInv` adds to the checked invariants `Lifecycle` (no verdict
before an envelope, no outcome before the end, what `kill` delivers is a
HARD_KILL), `LastAttempt` (only a call inside an attempt has begun one with the
budget spent), `AttemptsCounted` and `GrantsCounted`. None of it depends on what
the breaker decides. `BreakerSeesCalls` does: with `IInv`, `BreakerCountsCalls` is inductive,
as `failureCount` grows by at most one when a call leaves the breaker, which is when it has
failed for good, and a call's retries leave the breaker alone. As every step on the breaker's
variables is one of `CircuitBreaker` (lemma `ComposesBreaker`), theorems about that module hold
inside a bundle; `BundleSlotsAccountedFor` is one carried over.

*EnvelopeQueue.* All of it is about the queues with a thread lock. `EnvelopesAccountedFor` is not inductive: a `Store` keeps the places apart
only because two publishers never hold the same envelope, and a `Clear` returns
what it removes only because the copy is still the list. `Locking` says that
only the holder of the lock is inside, and `Seen` what the holder may rely on at each of its steps;
together with `Written`, the accounting spelled out place by place, they are `IInv`.
`ImplementsLog` maps the list to `Visible`, which still has the entry popped to make
room: then the pop changes nothing, the append is a `Replace`, and `Clear` is a
`Drain`.

*Rollback.* `RegistryInv` says that each run's list holds exactly its outstanding steps,
in the order of registration; `ListInv` that a rollback's copy holds what was due when it
began, and that an outstanding step of its run is due or later than `h_mark`; `LoopInv` that what
was tried is the end of the copy, reversed. `ReverseOrder` and `ExactOutcome` are read off
the last two, `OnlyLateStepsForgotten` off all three.

*MultiAgent.* `CallInv` ties a call's task to its pipeline, `JobInv` and `QueueInv` its attempts to the jobs in
the pool, and `GroupInv` says that while the group is open nobody was cancelled from
outside or killed. That last part carries `KillsSurface`: a task that is over in an
open group has seen its pipeline's end, so the group cannot return past a kill.
`AnswersAreCurrent` and `GhostsOnly` are inductive with `JobInv`. `FanOutInv` adds to the two fan-out
properties that the slots are what the handlers gave. Each half's steps leave
the other half's variables alone.

`ReportsAreFaithful` is about the report that `Return` makes of the outcomes. `OutcomeInv` says
that a call's outcome and result are written together when its task ends, and
`ReportInv` adds the property itself. The rest is about `CompletedOf`, the loop that drops
missing outcomes: `LoopExists` and `CompletedFacts` show that its n-th step has the outcomes kept of the first n, each
at its `Rank`, the number of those kept up to it. That is the `Before` of the property. Sums over
calls (successes and failures) are cardinalities of disjoint sets. Induction on the
number of calls is by `SetInduction`, which takes a set and not a predicate: the least number
outside the set (`LeastNatural`) would be the successor of one inside.

*ExceptionChain.* `Behind` is defined without a walk, as what lies in every set closed
under links. `WalkInv` says that what a walk has met, seen or on the stack, is behind the raised
exception, and that links of what it has seen lead to what it has met; with an
empty stack what it has seen is closed, and therefore `Behind` (`AllSeen`). So a walk that
ends without a parse error has looked at all, for any cycles (`ParseErrorsAlwaysHide`).
`PartsInv` says that the texts are those of what was seen, each once; `OrderInv` that the cause
is on top of the stack until it is seen, so that it comes second; together they give
`ChainsAreRead`. `PopsInv`, that pops and stack are at most one more than twice what was seen,
is inductive as a visit adds at most two, and bounds every walk (`WalksEnd`). `MessageIsRight` is these three.

*ExceptionGroups.* `GroupsInv` says of each call under way, for the group n and with the
results of what comes after n so far, that its result is the first of the worst failures
in that range of numbers (`IsWorst`), and that ranges of calls lie in one
another. The lemma `WorstOfBoth` joins two ranges as `max` joins two results. When the
last call returns, the range is the whole tree (`GroupsAreTheirWorst`).

*Lineage.* `LineageInv` adds to `TierSurvivesHops` that class and level go together,
without which no handler need be registered for the pair (`TiersSurviveHops`).

*SnapshotWalk.* `CutInv` ties the one number `cut` to the shape of the state: it is the depth of the
outermost value that is cut and that the walk is still in, so that `LeftOut` says of the next value
that it is in something that is cut (`LeavesOutWhatIsCut`). With it, `OutInv` says what stands for each value passed
(`Fits`). `SecretsAlwaysStay` is read off these; it is about values, and `SnapshotsSurvive` has that keys are kept as they are. `SnapshotsSurvive` needs in both directions what makes
`_check_node` refuse: if anything that is kept lies too deep, the first such value in
the order of the walk is in nothing else that is too deep, and has its placeholder
one level too deep (`TooDeepIsRefused`); and if there is none, all that came out is accepted
(`OthersAreAccepted`).

*Backoff.* `BackoffInv` is `SleepIsBounded` with the types. That a later backoff is no shorter
than an earlier one needs that powers of two grow, which is `PowersGrow`: 2^n as the number of
subsets of a set, as the provers know no other fact about powers. `DelayFacts` has the bounds of one
sleep with its jitter, `SumsStayBounded` adds it to those before.

*FailedCall.* Each step is one of a part's (lemma `ComposesParts`), so that all theorems about the parts
hold of a failed call (`PartsAreSound`). `WorstFailuresTravel` needs all of classification, order
and lineage: `EnvelopeInv` says that each stage of `_build_envelope` begins when the one
before is over, that a verdict is final by then (`VerdictIsFinal`), and that the envelope has the
verdict's class and level until its lineage is too long; `GroupsAreTheirWorst` and `LineageInv`
then give that it is no milder than any failure of the group, wherever it is. `EnvelopeStaysTrue` is
this with `TierSurvivesHops`.

Only model-checked: `AdmitsAgain` (of both breakers), `EveryCallEnds`, `EveryThreadReturns`,
`EveryRollbackEnds`, `GroupEnds` and `RouteEnds`, as liveness under fairness is out of the prover's
reach; and the four violations, which a single behaviour shows. Every other property that a
run checks is a theorem.

## Not modelled

* Text: which strings the redaction patterns match, the stripping of characters,
  tool-name normalisation. It has no state, and its properties are about strings.
* Output gates and envelope serialisation: calls of pydantic and hashlib.
* Persistence and attestation: a list and a hash over it that nothing calls.
* The checkpoint store and the SLA clock: a dictionary under one lock, a comparison.
* Fallback chain and `SuggestedRecoveryPolicy`: the first success of a sequence, a
  table; what they may answer is a free choice where they are asked.
* Observability, bundle construction, examples: no decision reads their state.
* Registration of handlers during a `route()`, and `clear()` of the gate, which is `reset()` of
  every id.
* `GovernedCall` inside `ParallelCalls`: the product of the two state spaces is beyond TLC;
  `ParallelCalls` has the pipeline's ends, and retries, only.
