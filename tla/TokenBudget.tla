------------------------------ MODULE TokenBudget ------------------------------
(***************************************************************************)
(* The token and cost ceilings of BudgetWatchdog (budget/watchdog.py) and  *)
(* the streams that StreamingBudgetGuard (budget/streaming.py) charges to  *)
(* them.  reserve_tokens, async_reserve_tokens and account_stream_delta    *)
(* share one body: under the watchdog's lock, check the three ceilings and *)
(* then add to three counters, one after the other.  The steps of that     *)
(* body are separate actions here, so that what the lock is for shows.     *)
(*                                                                         *)
(* Costs are counted in parts, Scale of them to the integer micro-USD of   *)
(* the watchdog, to follow the float cost of a chunk through _cost_to_     *)
(* micros.  Variables named h_* are history.  A definition whose name has  *)
(* the form Word_Def is a faulty variant of Def, used to show which        *)
(* property notices that fault.                                            *)
(***************************************************************************)
EXTENDS Integers

CONSTANTS
    Workers,        \* threads and tasks that share the watchdog
    NoWorker,       \* the lock's holder when it has none
    Ceiling,        \* ceilings of AgentBudget that are not None: a function
                    \* on a subset of Resources
    Reservations,   \* amounts asked of reserve_tokens: [Resources -> Nat]
    Chunks,         \* streamed chunks: [tokens : Nat, parts : Nat]
    Scale,          \* parts of one micro-USD
    MaxChunks       \* bound of the model: chunks charged

Resources == {"input", "output", "cost"}

ASSUME TokenAssumption ==
    /\ NoWorker \notin Workers
    /\ DOMAIN Ceiling \subseteq Resources
    /\ \A r \in DOMAIN Ceiling : Ceiling[r] \in Nat
    /\ Reservations \subseteq [Resources -> Nat]
    /\ Chunks \subseteq [tokens : Nat, parts : Nat]
    /\ Scale \in Nat \ {0}
    /\ MaxChunks \in Nat

Truncating_RoundToMicros(parts) == parts \div Scale

(* round(cost_delta * 1_000_000): to the nearest integer, and from half    *)
(* way to the even one.                                                    *)
RoundToMicros(parts) ==
    LET below == parts \div Scale
        excess == 2 * (parts % Scale)
    IN  IF excess < Scale \/ (excess = Scale /\ below % 2 = 0)
        THEN below ELSE below + 1

(* What record_chunk asks account_stream_delta for.                        *)
ChunkRequest(chunk) ==
    [r \in Resources |-> CASE r = "input" -> 0
                           [] r = "output" -> chunk.tokens
                           [] r = "cost" -> RoundToMicros(chunk.parts)]

Requests == Reservations \cup {ChunkRequest(chunk) : chunk \in Chunks}

VARIABLES
    used,       \* _input_tokens_used, _output_tokens_used, _cost_micros_used
    lock,       \* holder of _lock
    pc,         \* what each worker does next: nothing ("idle"), check the
                \* ceilings, or add to the counter of that name
    need,       \* the request each worker is making
    chunk,      \* parts of the streamed chunk it charges, or -1 when it
                \* makes a reservation
    seen        \* the counters in the last snapshot()

VARIABLES
    h_parts,    \* exact cost of everything charged
    h_chunks    \* chunks charged

vars == <<used, lock, pc, need, chunk, seen, h_parts, h_chunks>>

Nothing == [r \in Resources |-> 0]

TypeOK ==
    /\ used \in [Resources -> Nat]
    /\ lock \in Workers \cup {NoWorker}
    /\ pc \in [Workers -> {"idle", "check"} \cup Resources]
    /\ need \in [Workers -> Requests \cup {Nothing}]
    /\ chunk \in [Workers -> Nat \cup {-1}]
    /\ seen \in [Resources -> Nat]
    /\ h_parts \in Nat
    /\ h_chunks \in Nat

Init ==
    /\ used = Nothing
    /\ lock = NoWorker
    /\ pc = [w \in Workers |-> "idle"]
    /\ need = [w \in Workers |-> Nothing]
    /\ chunk = [w \in Workers |-> -1]
    /\ seen = Nothing
    /\ h_parts = 0 /\ h_chunks = 0

-----------------------------------------------------------------------------
Ignored_LockIsFree == TRUE
LockIsFree == lock = NoWorker

(* with self._lock: ...                                                    *)
Acquire(w, request, parts) ==
    /\ pc[w] = "idle"
    /\ LockIsFree
    /\ lock' = w
    /\ pc' = [pc EXCEPT ![w] = "check"]
    /\ need' = [need EXCEPT ![w] = request]
    /\ chunk' = [chunk EXCEPT ![w] = parts]
    /\ UNCHANGED <<used, seen, h_parts, h_chunks>>

Reserve(w) == \E request \in Reservations : Acquire(w, request, -1)

RecordChunk(w) ==
    /\ h_chunks < MaxChunks
    /\ \E c \in Chunks : Acquire(w, ChunkRequest(c), c.parts)

Boundary_Exceeds(request) ==
    \E r \in DOMAIN Ceiling : used[r] >= Ceiling[r] /\ request[r] > 0

(* _check_token_ceilings.                                                  *)
Exceeds(request) ==
    \E r \in DOMAIN Ceiling : used[r] + request[r] > Ceiling[r]

Release(w) ==
    /\ lock' = NoWorker
    /\ need' = [need EXCEPT ![w] = Nothing]
    /\ chunk' = [chunk EXCEPT ![w] = -1]

(* BudgetExhaustedError: nothing has been charged; a stream ends here.     *)
Refuse(w) ==
    /\ pc[w] = "check"
    /\ Exceeds(need[w])
    /\ pc' = [pc EXCEPT ![w] = "idle"]
    /\ Release(w)
    /\ UNCHANGED <<used, seen, h_parts, h_chunks>>

Approve(w) ==
    /\ pc[w] = "check"
    /\ ~Exceeds(need[w])
    /\ pc' = [pc EXCEPT ![w] = "input"]
    /\ UNCHANGED <<used, lock, need, chunk, seen, h_parts, h_chunks>>

Add(w, r) == used' = [used EXCEPT ![r] = @ + need[w][r]]

ChargeTokens(w) ==
    /\ \/ /\ pc[w] = "input"
          /\ Add(w, "input")
          /\ pc' = [pc EXCEPT ![w] = "output"]
       \/ /\ pc[w] = "output"
          /\ Add(w, "output")
          /\ pc' = [pc EXCEPT ![w] = "cost"]
    /\ UNCHANGED <<lock, need, chunk, seen, h_parts, h_chunks>>

(* The last counter; the lock is released and the call returns.            *)
ChargeCost(w) ==
    /\ pc[w] = "cost"
    /\ Add(w, "cost")
    /\ pc' = [pc EXCEPT ![w] = "idle"]
    /\ Release(w)
    /\ h_parts' = h_parts + (IF chunk[w] = -1 THEN Scale * need[w]["cost"]
                                              ELSE chunk[w])
    /\ h_chunks' = IF chunk[w] = -1 THEN h_chunks ELSE h_chunks + 1
    /\ UNCHANGED seen

Unlocked_Snapshot(w) ==
    /\ pc[w] = "idle"
    /\ seen' = used
    /\ UNCHANGED <<used, lock, pc, need, chunk, h_parts, h_chunks>>

(* snapshot() reads all the counters in one hold of the lock.              *)
Snapshot(w) ==
    /\ pc[w] = "idle"
    /\ LockIsFree
    /\ seen' = used
    /\ UNCHANGED <<used, lock, pc, need, chunk, h_parts, h_chunks>>

Next ==
    \E w \in Workers :
        \/ Reserve(w) \/ RecordChunk(w)
        \/ Refuse(w) \/ Approve(w) \/ ChargeTokens(w) \/ ChargeCost(w)
        \/ Snapshot(w)

Spec == Init /\ [][Next]_vars

-----------------------------------------------------------------------------
(* No counter is ever above its ceiling, whoever else is asking and in the *)
(* middle of a charge too: the check made before the first counter is      *)
(* touched still holds when the last one is.                               *)
WithinCeilings == \A r \in DOMAIN Ceiling : used[r] <= Ceiling[r]

(* The counters a request has been added to before it reaches the last.    *)
Charged(p) == CASE p = "output" -> {"input"}
                [] p = "cost" -> {"input", "output"}
                [] OTHER -> {}

(* Spending as of the last finished charge.                                *)
Committed ==
    [r \in Resources |->
        IF lock \in Workers /\ r \in Charged(pc[lock])
        THEN used[r] - need[lock][r] ELSE used[r]]

(* The three checks and three additions are one atomic grant, and a        *)
(* snapshot falls between two grants.                                      *)
Bank == INSTANCE TokenBank WITH spent <- Committed, report <- seen
ImplementsTokenBank == Bank!Spec

(* The integer ledger and the true cost differ by half a micro-USD for     *)
(* every streamed chunk at most, in either direction.                      *)
CostDrift ==
    /\ 2 * (h_parts - Scale * used["cost"]) <= Scale * h_chunks
    /\ 2 * (Scale * used["cost"] - h_parts) <= Scale * h_chunks
=============================================================================
