------------------------------- MODULE LoopQueue -------------------------------
(***************************************************************************)
(* AsyncInMemoryDLQ and AsyncInMemoryBus shared by sync pipelines: every   *)
(* operation runs in a loop of its own, which _drain_coroutine starts with *)
(* asyncio.run(), in the thread of its caller.  Nothing here keeps two     *)
(* threads apart: _get_lock may make several locks, and asyncio.Lock is    *)
(* not thread-safe, so its checks and its assignments are separate steps.  *)
(* An asyncio.Lock is bound for good to the loop of its first waiter,      *)
(* others that would wait get a RuntimeError, and a release in another     *)
(* thread schedules the waiter's wakeup without interrupting the select()  *)
(* its loop may be in.  Entries are not told apart and the counter is left *)
(* out, as no operation reads it.  That two threads may each make the      *)
(* lock's deque of waiters is left out too.                                *)
(***************************************************************************)
EXTENDS Naturals

CONSTANTS
    Publishers,     \* threads of governed calls
    Readers,        \* threads that inspect or drain the queue
    None,           \* no thread, no lock
    MaxSize         \* max_size

VARIABLES
    dropOldest, \* is the queue a dead-letter queue, or a bus?
    size,       \* the length of _items
    lock        \* _lock: None, or the asyncio.Lock some thread made, which
                \* bears the thread's name, as none makes two

VARIABLES       \* of every asyncio.Lock:
    locked,     \* _locked
    waiter,     \* the thread whose future is in _waiters: only one can be,
                \* as all loops differ
    bound       \* is it bound to a loop?

VARIABLES
    pc,         \* where each thread is
    op,         \* the operation it is in
    mine        \* the lock that _get_lock returned to it

lockVars == <<lock, locked, waiter, bound>>
vars == <<dropOldest, size, lockVars, pc, op, mine>>

Threads == Publishers \cup Readers

Init ==
    /\ dropOldest \in BOOLEAN
    /\ size = 0 /\ lock = None
    /\ locked = [l \in Threads |-> FALSE]
    /\ waiter = [l \in Threads |-> None]
    /\ bound = [l \in Threads |-> FALSE]
    /\ pc = [t \in Threads |-> "idle"]
    /\ op = [t \in Threads |-> "none"]
    /\ mine = [t \in Threads |-> None]

-----------------------------------------------------------------------------
Goto(t, place) == pc' = [pc EXCEPT ![t] = place]

(* Returning or raising, t's operation ends with its local variables.      *)
End(t) ==
    /\ Goto(t, "idle")
    /\ op' = [op EXCEPT ![t] = "none"]
    /\ mine' = [mine EXCEPT ![t] = None]

Operations(t) ==
    (IF t \in Publishers THEN {"publish"} ELSE {})
    \cup (IF t \in Readers THEN {"drain"} \cup (IF dropOldest THEN {"peek"} ELSE {})
                           ELSE {})

Call(t) ==
    /\ pc[t] = "idle"
    /\ \E o \in Operations(t) : op' = [op EXCEPT ![t] = o]
    /\ Goto(t, "calling")
    /\ UNCHANGED <<dropOldest, size, lockVars, mine>>

(* _get_lock: seeing no lock, a thread makes one, whatever others have     *)
(* made since, and then takes what _lock holds.                            *)
SeeNoLock(t) ==
    /\ pc[t] = "calling" /\ lock = None
    /\ Goto(t, "creating")
    /\ UNCHANGED <<dropOldest, size, lockVars, op, mine>>

CreateLock(t) ==
    /\ pc[t] = "creating"
    /\ lock' = t
    /\ Goto(t, "calling")
    /\ UNCHANGED <<dropOldest, size, locked, waiter, bound, op, mine>>

GetLock(t) ==
    /\ pc[t] = "calling" /\ lock # None
    /\ mine' = [mine EXCEPT ![t] = lock]
    /\ Goto(t, "acquiring")
    /\ UNCHANGED <<dropOldest, size, lockVars, op>>

-----------------------------------------------------------------------------
(* asyncio.Lock.acquire: the lock is not taken if it is locked or somebody *)
(* waits for it ...                                                        *)
CheckLocked(t) ==
    /\ pc[t] = "acquiring"
    /\ Goto(t, IF locked[mine[t]] THEN "contended" ELSE "unlocked")
    /\ UNCHANGED <<dropOldest, size, lockVars, op, mine>>

CheckWaiters(t) ==
    /\ pc[t] = "unlocked"
    /\ Goto(t, IF waiter[mine[t]] = None THEN "taking" ELSE "contended")
    /\ UNCHANGED <<dropOldest, size, lockVars, op, mine>>

Take(t) ==
    /\ pc[t] = "taking"
    /\ locked' = [locked EXCEPT ![mine[t]] = TRUE]
    /\ Goto(t, "inside")
    /\ UNCHANGED <<dropOldest, size, lock, waiter, bound, op, mine>>

(* ... the first to wait binds the lock to its loop ...                    *)
Enqueue(t) ==
    /\ pc[t] = "contended" /\ ~bound[mine[t]]
    /\ bound' = [bound EXCEPT ![mine[t]] = TRUE]
    /\ waiter' = [waiter EXCEPT ![mine[t]] = t]
    /\ Goto(t, "queued")
    /\ UNCHANGED <<dropOldest, size, lock, locked, op, mine>>

(* ... and the others, on other loops, get a RuntimeError: no operation.   *)
WrongLoop(t) ==
    /\ pc[t] = "contended" /\ bound[mine[t]]
    /\ End(t)
    /\ UNCHANGED <<dropOldest, size, lockVars>>

(* Nothing is ready in the waiter's loop: it blocks in select().           *)
Sleep(t) ==
    /\ pc[t] = "queued"
    /\ Goto(t, "asleep")
    /\ UNCHANGED <<dropOldest, size, lockVars, op, mine>>

Resume(t) ==
    /\ pc[t] = "woken"
    /\ waiter' = [waiter EXCEPT ![mine[t]] = None]
    /\ Goto(t, "taking")
    /\ UNCHANGED <<dropOldest, size, lock, locked, bound, op, mine>>

(* asyncio.Lock.release: a RuntimeError if another thread has unlocked the *)
(* same lock; else the waiter's future is resolved, and it goes on if its  *)
(* loop is not asleep.                                                     *)
CheckRelease(t) ==
    /\ pc[t] = "leaving"
    /\ IF locked[mine[t]] THEN Goto(t, "releasing") /\ UNCHANGED <<op, mine>>
                          ELSE End(t)
    /\ UNCHANGED <<dropOldest, size, lockVars>>

Release(t) ==
    LET w == waiter[mine[t]]
    IN  /\ pc[t] = "releasing"
        /\ locked' = [locked EXCEPT ![mine[t]] = FALSE]
        /\ pc' = [u \in Threads |-> IF u = t THEN "idle"
                                    ELSE IF u = w /\ pc[u] = "queued" THEN "woken"
                                    ELSE pc[u]]
        /\ op' = [op EXCEPT ![t] = "none"]
        /\ mine' = [mine EXCEPT ![t] = None]
        /\ UNCHANGED <<dropOldest, size, lock, waiter, bound>>

-----------------------------------------------------------------------------
(* publish: a full bus raises, a full dead-letter queue pops an entry.     *)
CheckFull(t) ==
    /\ pc[t] = "inside" /\ op[t] = "publish"
    /\ Goto(t, IF size < MaxSize THEN "storing"
               ELSE IF dropOldest THEN "evicting" ELSE "leaving")
    /\ UNCHANGED <<dropOldest, size, lockVars, op, mine>>

(* self._items.pop(0): an IndexError if a drain has emptied the list.      *)
Evict(t) ==
    /\ pc[t] = "evicting"
    /\ IF size = 0 THEN Goto(t, "leaving") /\ UNCHANGED size
                   ELSE Goto(t, "storing") /\ size' = size - 1
    /\ UNCHANGED <<dropOldest, lockVars, op, mine>>

Store(t) ==
    /\ pc[t] = "storing"
    /\ size' = size + 1
    /\ Goto(t, "leaving")
    /\ UNCHANGED <<dropOldest, lockVars, op, mine>>

(* drain clears the list, with what was added since its copy; peek copies. *)
Read(t) ==
    /\ pc[t] = "inside" /\ op[t] \in {"drain", "peek"}
    /\ size' = IF op[t] = "drain" THEN 0 ELSE size
    /\ Goto(t, "leaving")
    /\ UNCHANGED <<dropOldest, lockVars, op, mine>>

-----------------------------------------------------------------------------
Acquire(t) ==
    \/ SeeNoLock(t) \/ CreateLock(t) \/ GetLock(t)
    \/ CheckLocked(t) \/ CheckWaiters(t) \/ Take(t)
    \/ Enqueue(t) \/ WrongLoop(t) \/ Sleep(t) \/ Resume(t)
Operate(t) == CheckFull(t) \/ Evict(t) \/ Store(t) \/ Read(t)
Leave(t) == CheckRelease(t) \/ Release(t)

Next == \E t \in Threads : Call(t) \/ Acquire(t) \/ Operate(t) \/ Leave(t)

(* Threads run.                                                            *)
Fairness == \A t \in Threads : WF_vars(Acquire(t) \/ Operate(t) \/ Leave(t))

Spec == Init /\ [][Next]_vars /\ Fairness

(* An operation on any queue comes back: "Never rejects a new envelope"    *)
(* and "drive an async publish coroutine to completion".                   *)
EveryOperationEnds == \A t \in Threads : pc[t] = "calling" ~> pc[t] = "idle"
=============================================================================
