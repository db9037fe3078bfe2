----------------------------- MODULE ExceptionGroups -----------------------------
(***************************************************************************)
(* classify() of taxonomy/classifier.py for an exception or a group of     *)
(* exceptions: one call for each group in the group, and for each of its   *)
(* exceptions.  resilient() has split control flow from the group before,  *)
(* and with it the groups that leaves empty: here neither of them gives a  *)
(* classification.                                                         *)
(*                                                                         *)
(* A tree has the exceptions and groups numbered in the order in which     *)
(* they are met, the root first: what is in the group n are the numbers    *)
(* after n up to last[n].                                                  *)
(***************************************************************************)
EXTENDS Taxonomy

CONSTANT Trees

WellFormed(t) ==
    /\ t.size \in Nat \ {0}
    /\ t.last \in [1 .. t.size -> 1 .. t.size] /\ t.last[1] = t.size
    /\ \A n \in 1 .. t.size :
          /\ n <= t.last[n] /\ (~t.group[n] => t.last[n] = n)
          /\ \A m \in n .. t.last[n] : t.last[m] <= t.last[n]

ASSUME GroupsAssumption == \A t \in Trees : WellFormed(t)

VARIABLES
    tree,
    next,       \* the number of what is met next
    calls,      \* the calls for groups that are under way, innermost first
    verdict     \* the result of the outermost call

groupsVars == <<tree, next, calls, verdict>>

(* The classification of an exception is known by its number.              *)
NoFailure == 0
ClassOf(n) == ClassifySingle(tree.types[n])
Rank(n) == Severity[ClassOf(n).class]

(* The call for the group n, and what max() of its results is so far.      *)
Call(n, worst) == [of |-> n, worst |-> worst]

GroupsTypeOK ==
    /\ next \in 1 .. tree.size + 1
    /\ calls \in Seq([of : 1 .. tree.size, worst : 0 .. tree.size])
    /\ verdict \in 0 .. tree.size

GroupsStart == next = 1 /\ calls = <<>> /\ verdict = NoFailure
GroupsInit == tree \in Trees /\ GroupsStart

(* max(classifications, key=severity) keeps the first of the most severe.  *)
Last_Worse(a, b) ==
    IF b # NoFailure /\ (a = NoFailure \/ Rank(b) >= Rank(a)) THEN b ELSE a
Worse(a, b) ==
    IF b # NoFailure /\ (a = NoFailure \/ Rank(b) > Rank(a)) THEN b ELSE a

(* A call returns n to the calls that wait for it.                         *)
Return(n, waiting) ==
    IF waiting = <<>> THEN verdict' = n /\ calls' = <<>>
    ELSE /\ calls' = <<Call(Head(waiting).of, Worse(Head(waiting).worst, n))>> \o Tail(waiting)
         /\ verdict' = verdict

Meet ==
    /\ next <= IF calls = <<>> THEN tree.size ELSE tree.last[Head(calls).of]
    /\ next' = next + 1
    /\ UNCHANGED tree

Enter ==
    /\ Meet /\ tree.group[next]
    /\ calls' = <<Call(next, NoFailure)>> \o calls
    /\ verdict' = verdict

Classify ==
    /\ Meet /\ ~tree.group[next]
    /\ Return(IF tree.types[next] \cap ControlTypes = {} THEN next ELSE NoFailure, calls)

Leave ==
    /\ calls # <<>> /\ next > tree.last[Head(calls).of]
    /\ Return(Head(calls).worst, Tail(calls))
    /\ UNCHANGED <<tree, next>>

GroupsNext == Enter \/ Classify \/ Leave

GroupsSpec == GroupsInit /\ [][GroupsNext]_groupsVars

-----------------------------------------------------------------------------
Failed == {n \in 1 .. tree.size : ~tree.group[n] /\ tree.types[n] \cap ControlTypes = {}}

(* However exceptions are nested in groups, the failure is classified as   *)
(* the first of the most severe among those that are not control flow, and *)
(* the envelope accepts the level that goes with it.                       *)
GroupIsItsWorst == calls = <<>> /\ next > tree.size =>
    IF verdict = NoFailure THEN Failed = {}
    ELSE /\ verdict \in Failed
         /\ \A n \in Failed : /\ Rank(n) <= Rank(verdict)
                              /\ n < verdict => Rank(n) < Rank(verdict)
         /\ ClassOf(verdict).level \in Permitted[ClassOf(verdict).class]
=============================================================================
