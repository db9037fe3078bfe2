----------------------------- MODULE EnvelopeQueue -----------------------------
(***************************************************************************)
(* The in-memory queues of propagation/: InMemoryDLQ (drops its oldest     *)
(* entry when full) and InMemoryBus (refuses the new one), used by several *)
(* threads.  Each operation runs under the queue's threading.RLock, one    *)
(* action for each access to the list.  AsyncInMemoryDLQ and               *)
(* AsyncInMemoryBus do the same on a single event loop, but await nothing  *)
(* under their lock, so there operations cannot overlap; LoopQueue has     *)
(* what becomes of them when several loops share one.  Variables named h_* *)
(* are history, and a definition named Word_Def is a faulty variant of Def.*)
(***************************************************************************)
EXTENDS Naturals, Sequences, FiniteSets

CONSTANTS
    Publishers,     \* threads of governed calls
    Readers,        \* threads that inspect or drain the queue
    None,           \* no thread
    MaxSize,        \* max_size
    PeekSizes,      \* values of n given to peek(n)
    MaxEnvelopes    \* bound of the model on what is published

ASSUME QueueAssumption ==
    /\ None \notin Publishers \cup Readers
    /\ MaxSize \in Nat \ {0}
    /\ PeekSizes \subseteq Nat
    /\ MaxEnvelopes \in Nat

VARIABLES
    dropOldest, \* is the queue a dead-letter queue, or a bus?
    items,      \* _items
    counter,    \* dlq_dropped_oldest_total, or bus_publish_failures_total
    holder      \* the thread that has _lock

VARIABLES
    pc,         \* where each thread is
    op,         \* the operation it is in
    arg,        \* the envelope it publishes
    copy,       \* drain's local variable items; in publish, the entry
                \* that was popped to make room
    answer      \* what the last drain or peek returned

VARIABLES
    h_published,    \* envelopes numbered so far
    h_drained,      \* envelopes some drain returned
    h_dropped,      \* envelopes dropped as the oldest
    h_refused       \* envelopes a publish raised for

queueVars == <<items, counter>>
callVars == <<pc, op, arg, copy, answer>>
history == <<h_published, h_drained, h_dropped, h_refused>>
vars == <<dropOldest, queueVars, holder, callVars, history>>

Threads == Publishers \cup Readers
Envelopes == 1 .. MaxEnvelopes
Entries(s) == {s[i] : i \in 1 .. Len(s)}

(* Where a thread is that has the lock.                                    *)
Inside == {"inside", "room", "copied"}

TypeOK ==
    /\ dropOldest \in BOOLEAN
    /\ items \in Seq(Envelopes) /\ Len(items) <= MaxSize
    /\ counter \in Nat
    /\ holder \in Threads \cup {None}
    /\ pc \in [Threads -> {"idle", "calling"} \cup Inside]
    /\ op \in [Threads -> {"none", "publish", "drain", "peek"}]
    /\ arg \in [Threads -> Envelopes \cup {0}]
    /\ copy \in [Threads -> Seq(Envelopes)]
    /\ answer \in Seq(Envelopes)
    /\ h_published \in 0 .. MaxEnvelopes
    /\ h_drained \subseteq Envelopes
    /\ h_dropped \subseteq Envelopes
    /\ h_refused \subseteq Envelopes

Init ==
    /\ dropOldest \in BOOLEAN
    /\ items = <<>> /\ counter = 0
    /\ holder = None
    /\ pc = [t \in Threads |-> "idle"]
    /\ op = [t \in Threads |-> "none"]
    /\ arg = [t \in Threads |-> 0]
    /\ copy = [t \in Threads |-> <<>>]
    /\ answer = <<>>
    /\ h_published = 0
    /\ h_drained = {} /\ h_dropped = {} /\ h_refused = {}

-----------------------------------------------------------------------------
Goto(t, place) == pc' = [pc EXCEPT ![t] = place]

(* t's local variables end with its operation.                             *)
Forget(t) ==
    /\ op' = [op EXCEPT ![t] = "none"]
    /\ arg' = [arg EXCEPT ![t] = 0]
    /\ copy' = [copy EXCEPT ![t] = <<>>]

CallPublish(t) ==
    /\ t \in Publishers /\ pc[t] = "idle" /\ h_published < MaxEnvelopes
    /\ h_published' = h_published + 1
    /\ arg' = [arg EXCEPT ![t] = h_published + 1]
    /\ op' = [op EXCEPT ![t] = "publish"]
    /\ Goto(t, "calling")
    /\ UNCHANGED <<dropOldest, queueVars, holder, copy, answer, h_drained, h_dropped,
                   h_refused>>

CallRead(t, o) ==
    /\ t \in Readers /\ pc[t] = "idle" /\ (o = "peek" => dropOldest)
    /\ op' = [op EXCEPT ![t] = o]
    /\ Goto(t, "calling")
    /\ UNCHANGED <<dropOldest, queueVars, holder, arg, copy, answer, history>>

(* with self._lock                                                         *)
Ignored_LockIsFree == TRUE
LockIsFree == holder = None

Acquire(t) ==
    /\ pc[t] = "calling" /\ LockIsFree
    /\ holder' = t
    /\ Goto(t, "inside")
    /\ UNCHANGED <<dropOldest, queueVars, op, arg, copy, answer, history>>

(* Leaving the with block: the operation returns, or raises.               *)
Release(t) ==
    /\ holder' = None
    /\ Goto(t, "idle")
    /\ Forget(t)

-----------------------------------------------------------------------------
Full == Len(items) >= MaxSize

Newest_Evict(t) ==
    /\ pc[t] = "inside" /\ op[t] = "publish" /\ dropOldest /\ Full
    /\ items' = SubSeq(items, 1, Len(items) - 1)
    /\ copy' = [copy EXCEPT ![t] = <<Head(items)>>]
    /\ counter' = counter + 1
    /\ h_dropped' = h_dropped \cup {items[Len(items)]}
    /\ Goto(t, "room")
    /\ UNCHANGED <<dropOldest, holder, op, arg, answer, h_published,
                   h_drained, h_refused>>

(* self._items.pop(0)                                                      *)
Evict(t) ==
    /\ pc[t] = "inside" /\ op[t] = "publish" /\ dropOldest /\ Full
    /\ items' = Tail(items)
    /\ copy' = [copy EXCEPT ![t] = <<Head(items)>>]
    /\ counter' = counter + 1
    /\ h_dropped' = h_dropped \cup {Head(items)}
    /\ Goto(t, "room")
    /\ UNCHANGED <<dropOldest, holder, op, arg, answer, h_published,
                   h_drained, h_refused>>

Leaking_Refuse(t) ==
    /\ pc[t] = "inside" /\ op[t] = "publish" /\ ~dropOldest /\ Full
    /\ counter' = counter + 1
    /\ h_refused' = h_refused \cup {arg[t]}
    /\ Goto(t, "idle") /\ Forget(t)
    /\ UNCHANGED <<dropOldest, items, holder, answer, h_published,
                   h_drained, h_dropped>>

(* raise PropagationBufferFullError                                        *)
Refuse(t) ==
    /\ pc[t] = "inside" /\ op[t] = "publish" /\ ~dropOldest /\ Full
    /\ counter' = counter + 1
    /\ h_refused' = h_refused \cup {arg[t]}
    /\ Release(t)
    /\ UNCHANGED <<dropOldest, items, answer, h_published, h_drained,
                   h_dropped>>

Store(t) ==
    /\ op[t] = "publish"
    /\ pc[t] = "room" \/ (pc[t] = "inside" /\ ~Full)
    /\ items' = Append(items, arg[t])
    /\ Release(t)
    /\ UNCHANGED <<dropOldest, counter, answer, history>>

(* drain: list(self._items), and then self._items.clear().                 *)
Copy(t) ==
    /\ pc[t] = "inside" /\ op[t] = "drain"
    /\ copy' = [copy EXCEPT ![t] = items]
    /\ Goto(t, "copied")
    /\ UNCHANGED <<dropOldest, queueVars, holder, op, arg, answer, history>>

Clear(t) ==
    /\ pc[t] = "copied"
    /\ items' = <<>>
    /\ answer' = copy[t]
    /\ h_drained' = h_drained \cup Entries(copy[t])
    /\ Release(t)
    /\ UNCHANGED <<dropOldest, counter, h_published, h_dropped, h_refused>>

(* reversed(self._items[-n:]), where a slice from -0 would be the whole    *)
(* list.                                                                   *)
Slice(s, n) == SubSeq(s, IF n < Len(s) THEN Len(s) - n + 1 ELSE 1, Len(s))
Reversed(s) == [i \in 1 .. Len(s) |-> s[Len(s) + 1 - i]]
Newest(n) == IF n = 0 THEN <<>> ELSE Reversed(Slice(items, n))

Peek(t) ==
    /\ pc[t] = "inside" /\ op[t] = "peek"
    /\ answer' \in {items} \cup {Newest(n) : n \in PeekSizes}
    /\ Release(t)
    /\ UNCHANGED <<dropOldest, queueVars, history>>

-----------------------------------------------------------------------------
Call(t) == CallPublish(t) \/ \E o \in {"drain", "peek"} : CallRead(t, o)
Operate(t) == Evict(t) \/ Refuse(t) \/ Store(t) \/ Copy(t) \/ Clear(t) \/ Peek(t)

Next == \E t \in Threads : Call(t) \/ Acquire(t) \/ Operate(t)

Spec == Init /\ [][Next]_vars

(* Threads run; a lock that keeps becoming free is eventually given to a   *)
(* thread that waits for it.                                               *)
Fairness == \A t \in Threads :
    WF_vars(Operate(t)) /\ SF_vars(Acquire(t))

FairSpec == Spec /\ Fairness

-----------------------------------------------------------------------------
(* Where an envelope may be: with a publish that has not stored it yet,    *)
(* queued, returned by a drain, dropped as the oldest, or refused.         *)
Publishing == {t \in Publishers : op[t] = "publish"}
Place == [hand |-> {arg[t] : t \in Publishing}, queued |-> Entries(items),
          drained |-> h_drained, dropped |-> h_dropped, refused |-> h_refused]

(* Every envelope that was published is in one place, and only one: no     *)
(* overlap of publishes and drains loses an envelope or returns it twice.  *)
(* The counter says how many were lost, and a dead-letter queue refuses    *)
(* none.                                                                   *)
EnvelopesAccountedFor ==
    /\ 1 .. h_published = UNION {Place[p] : p \in DOMAIN Place}
    /\ \A p, q \in DOMAIN Place : p # q => Place[p] \cap Place[q] = {}
    /\ \A i, j \in 1 .. Len(items) : items[i] = items[j] => i = j
    /\ IF dropOldest THEN counter = Cardinality(h_dropped) /\ h_refused = {}
                     ELSE counter = Cardinality(h_refused)

(* The queue as others can see it: an entry popped to make room is there   *)
(* until the new one is.                                                   *)
MakingRoom == {t \in Threads : pc[t] = "room"}
Visible == IF MakingRoom = {} THEN items
           ELSE copy[CHOOSE t \in MakingRoom : TRUE] \o items
Counted == IF MakingRoom = {} THEN counter ELSE counter - 1

Log == INSTANCE BoundedLog WITH log <- Visible, lost <- Counted

(* Under its lock the queue behaves as if every operation were one step:   *)
(* a dead-letter queue keeps the newest MaxSize envelopes, a bus those     *)
(* that came first, drains take all there is, and peeks see one moment.    *)
ImplementsBoundedLog == Log!Spec

(* A thread's operation always comes back, however often others take the   *)
(* lock before it.                                                         *)
EveryThreadReturns == \A t \in Threads : pc[t] = "calling" ~> pc[t] = "idle"
=============================================================================
