--------------------------------- MODULE Lineage ---------------------------------
(***************************************************************************)
(* An envelope on its way from agent to agent: extend_lineage of           *)
(* resilience/wrap.py before each hop, and the handler that                *)
(* EscalationRouter (escalation/router.py) asks at each.  Of an envelope   *)
(* there are its class, its level and its lineage.                         *)
(***************************************************************************)
EXTENDS Taxonomy

CONSTANTS
    Agents,
    LineageCap,
    MaxHops     \* bound of the model on the length of a lineage

ASSUME LineageAssumption == LineageCap \in Nat \ {0} /\ MaxHops \in Nat

VARIABLES
    envelope,
    h_path,     \* the agents the envelope has been at
    h_born      \* the class it was built with

lineageVars == <<envelope, h_path, h_born>>

Envelope(class, level, lineage) == [class |-> class, level |-> level, lineage |-> lineage]

NoEnvelope == Envelope("none", "none", <<>>)

LineageInit == envelope = NoEnvelope /\ h_path = <<>> /\ h_born = "none"

(* The envelope of a failure, at the agent that failed.  Its validator     *)
(* refuses levels that do not go with the class.                           *)
Build(a) ==
    /\ envelope = NoEnvelope
    /\ \E class \in DOMAIN Severity : \E level \in Permitted[class] :
          /\ envelope' = Envelope(class, level, <<a>>)
          /\ h_born' = class
    /\ h_path' = <<a>>

Restarting_ExtendLineage(e, agent) ==
    IF Len(e.lineage) >= LineageCap
    THEN Envelope("HARD_KILL", "L4", <<agent>>)
    ELSE [e EXCEPT !.lineage = Append(@, agent)]

ExtendLineage(e, agent) ==
    IF Len(e.lineage) >= LineageCap
    THEN Envelope("HARD_KILL", "L4", Append(e.lineage, agent))
    ELSE [e EXCEPT !.lineage = Append(@, agent)]

Hop(a) ==
    /\ envelope # NoEnvelope /\ Len(h_path) < MaxHops
    /\ envelope' = ExtendLineage(envelope, a)
    /\ h_path' = Append(h_path, a)
    /\ UNCHANGED h_born

LineageNext == \E a \in Agents : Build(a) \/ Hop(a)

LineageSpec == LineageInit /\ [][LineageNext]_lineageVars

(* EscalationRouter.route: which handler is asked.  Those of EXCEPTION and *)
(* ISSUE are registered by level, HARD_KILL has one.                       *)
RouteOf(e) ==
    IF e.class \in {"EXCEPTION", "ISSUE"} THEN <<e.class, e.level>> ELSE <<"HARD_KILL">>

-----------------------------------------------------------------------------
(* An envelope is never softened on its way, knows all the agents it was   *)
(* at, is a HARD_KILL after too many, and always has a handler to go to,   *)
(* in a router with one for each level of each class.                      *)
TierSurvivesHops == envelope # NoEnvelope =>
    /\ envelope.lineage = h_path
    /\ Severity[envelope.class] >= Severity[h_born]
    /\ Len(h_path) > LineageCap => envelope.class = "HARD_KILL"
    /\ RouteOf(envelope) \in
          {<<"HARD_KILL">>}
          \cup UNION {{<<c, l>> : l \in Permitted[c]} : c \in {"EXCEPTION", "ISSUE"}}
=============================================================================
