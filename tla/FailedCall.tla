------------------------------- MODULE FailedCall -------------------------------
(***************************************************************************)
(* What resilient() makes of one failed call, from its retries to the      *)
(* envelope, and what other agents make of that: the retry loop raises;    *)
(* _build_envelope (resilience/wrap.py) has the exception classified, its  *)
(* message taken and the context copied, in this order; the envelope then  *)
(* travels.                                                                *)
(*                                                                         *)
(* A failure is the exception, as the tree of a group and as the chain     *)
(* behind it, the context of the call, the agent that made it, the headers *)
(* of exceptions that are retried, and the agents the envelope may go to.  *)
(* What the retry loop raises in place of the exception is another failure.*)
(***************************************************************************)
EXTENDS Backoff, ExceptionGroups, ExceptionChain, SnapshotWalk, Lineage

CONSTANT Failures

ASSUME FailedCallAssumption ==
    /\ {f.tree : f \in Failures} \subseteq Trees
    /\ {f.chain : f \in Failures} \subseteq Chains
    /\ {f.context : f \in Failures} \subseteq Contexts
    /\ \A f \in Failures : /\ f.headers \subseteq Headers
                           /\ f.agent \in Agents /\ f.next_agents \subseteq Agents

VARIABLE failure

vars == <<failure, backoffVars, groupsVars, chainVars, snapshotVars, lineageVars>>

Init ==
    /\ failure \in Failures
    /\ tree = failure.tree /\ chain = failure.chain /\ context = failure.context
    /\ BackoffInit /\ GroupsStart /\ ChainInit /\ SnapshotStart /\ LineageInit

Retry ==
    /\ Finish \/ \E h \in failure.headers : Sleep(h) \/ Abandon(h)
    /\ UNCHANGED <<failure, groupsVars, chainVars, snapshotVars, lineageVars>>

Classified == calls = <<>> /\ next > tree.size
Worded == walk \in {"redacted", "answered", "over budget"}

ClassifyFailure ==
    /\ outcome = "raised"
    /\ GroupsNext
    /\ UNCHANGED <<failure, backoffVars, chainVars, snapshotVars, lineageVars>>

(* Control flow and nothing else is raised again, without an envelope.     *)
TakeMessage ==
    /\ Classified /\ verdict # NoFailure
    /\ ChainNext
    /\ UNCHANGED <<failure, backoffVars, groupsVars, snapshotVars, lineageVars>>

CopyContext ==
    /\ Worded
    /\ SnapshotNext
    /\ UNCHANGED <<failure, backoffVars, groupsVars, chainVars, lineageVars>>

BuildEnvelope ==
    /\ snapshot # "walking"
    /\ Build(failure.agent)
    /\ envelope'.class = ClassOf(verdict).class
    /\ envelope'.level = ClassOf(verdict).level
    /\ UNCHANGED <<failure, backoffVars, groupsVars, chainVars, snapshotVars>>

Travel ==
    /\ \E a \in failure.next_agents : Hop(a)
    /\ UNCHANGED <<failure, backoffVars, groupsVars, chainVars, snapshotVars>>

Next == Retry \/ ClassifyFailure \/ TakeMessage \/ CopyContext \/ BuildEnvelope \/ Travel

Spec == Init /\ [][Next]_vars

-----------------------------------------------------------------------------
(* Wherever the envelope is, its class is no milder than any failure in    *)
(* the group it was built for, however deep; and unless its lineage is too *)
(* long, it is not harsher than the worst of them, with that one's level.  *)
WorstFailureTravels == envelope # NoEnvelope =>
    /\ \A n \in Failed : Rank(n) <= Severity[envelope.class]
    /\ Len(envelope.lineage) <= LineageCap =>
          \E n \in Failed :
             envelope.class = ClassOf(n).class /\ envelope.level = ClassOf(n).level

(* The envelope is true to its failure, and to its way through the agents, *)
(* from its construction to its last hop.                                  *)
EnvelopeStaysTrue == TierSurvivesHops /\ WorstFailureTravels
=============================================================================
