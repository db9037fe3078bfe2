------------------------------ MODULE BoundedLog ------------------------------
(***************************************************************************)
(* What a bounded in-memory queue of propagation/ promises, as if each of  *)
(* its operations happened at one instant.  A queue that drops its oldest  *)
(* entry (a dead-letter queue) always takes the new envelope; one that     *)
(* does not (a propagation bus) refuses it when full.  Readers get the     *)
(* log of one instant.                                                     *)
(***************************************************************************)
EXTENDS Naturals, Sequences

CONSTANTS
    Envelopes,  \* what may be published
    MaxSize,    \* entries it may hold
    PeekSizes   \* how many entries a peek may ask for

VARIABLES
    dropOldest, \* a dead-letter queue, or a bus
    log,        \* its entries, oldest first
    lost,       \* entries dropped, or envelopes refused
    answer      \* what the last drain or peek returned

vars == <<dropOldest, log, lost, answer>>

Init ==
    /\ dropOldest \in BOOLEAN
    /\ log = <<>> /\ lost = 0
    /\ answer = <<>>

Publish(e) ==
    /\ Len(log) < MaxSize
    /\ log' = Append(log, e)
    /\ UNCHANGED <<dropOldest, lost, answer>>

(* Full: the newest envelope takes the place of the oldest.                *)
Replace(e) ==
    /\ dropOldest /\ Len(log) >= MaxSize
    /\ log' = Append(Tail(log), e)
    /\ lost' = lost + 1
    /\ UNCHANGED <<dropOldest, answer>>

Refuse ==
    /\ ~dropOldest /\ Len(log) >= MaxSize
    /\ lost' = lost + 1
    /\ UNCHANGED <<dropOldest, log, answer>>

Drain ==
    /\ answer' = log
    /\ log' = <<>>
    /\ UNCHANGED <<dropOldest, lost>>

(* The n newest entries, newest first; fewer if there are not so many.     *)
NewestFirst(s, n) ==
    [i \in 1 .. (IF n < Len(s) THEN n ELSE Len(s)) |-> s[Len(s) + 1 - i]]

Peek ==
    /\ answer' \in {log} \cup {NewestFirst(log, n) : n \in PeekSizes}
    /\ UNCHANGED <<dropOldest, log, lost>>

Next ==
    \/ \E e \in Envelopes : Publish(e) \/ Replace(e)
    \/ Refuse \/ Drain \/ Peek

Spec == Init /\ [][Next]_vars
=============================================================================
