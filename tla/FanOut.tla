--------------------------------- MODULE FanOut ---------------------------------
(***************************************************************************)
(* OrchestratorExceptionRouter.route() and fan_out() of                    *)
(* multi_agent/router.py, with a ConsensusGate (multi_agent/consensus.py)  *)
(* that the handlers vote on: the orchestrator resets the gate, routes an  *)
(* envelope to all handlers and asks for consensus, and does so again if   *)
(* there is none.  Handlers are tasks of an asyncio.TaskGroup; they vote   *)
(* from these tasks, as often as they like.                                *)
(***************************************************************************)
EXTENDS Naturals, FiniteSets

CONSTANTS
    NHandlers,  \* registered handlers
    NoDirective,
    Directives, \* what a handler may return besides None
    Threshold,  \* votes that make a consensus
    MaxRounds,  \* bound of the model on route() calls
    MaxVotes    \* bound of the model on votes in a round

ASSUME FanOutAssumption ==
    /\ NHandlers \in Nat /\ Threshold \in Nat \ {0}
    /\ MaxRounds \in Nat /\ MaxVotes \in Nat
    /\ NoDirective \notin Directives

VARIABLES
    limited,    \* is there a fan_out_timeout_seconds?
    round,      \* calls of route() so far
    phase,      \* where the orchestrator is
    handler,    \* the task of each handler
    slot,       \* fan_out's results
    directive,  \* what route() returned
    votes,      \* the gate's count for the correlation id
    agreed,     \* did require_consensus() find enough?
    h_gave      \* what each handler returned in this round

handlerVars == <<handler, slot, h_gave>>
fanOutVars == <<limited, round, phase, directive, agreed, handlerVars, votes>>

Handlers == 1 .. NHandlers
HandlerOver == {"done", "cancelled", "broken"}

FanOutTypeOK ==
    /\ limited \in BOOLEAN
    /\ round \in 0 .. MaxRounds
    /\ phase \in {"idle", "gathering", "timeout", "abort",
                  "returned", "timed out", "raised"}
    /\ handler \in [Handlers -> {"none", "new", "running"} \cup HandlerOver]
    /\ slot \in [Handlers -> Directives \cup {NoDirective}]
    /\ directive \in Directives \cup {NoDirective}
    /\ votes \in 0 .. MaxVotes
    /\ agreed \in BOOLEAN
    /\ h_gave \in [Handlers -> Directives \cup {NoDirective}]

FanOutInit ==
    /\ limited = FALSE
    /\ round = 0 /\ phase = "idle"
    /\ handler = [k \in Handlers |-> "none"]
    /\ slot = [k \in Handlers |-> NoDirective]
    /\ directive = NoDirective
    /\ votes = 0 /\ agreed = FALSE
    /\ h_gave = [k \in Handlers |-> NoDirective]

-----------------------------------------------------------------------------
Routing == phase \in {"gathering", "timeout", "abort"}
Routed == phase \in {"returned", "timed out", "raised"}

(* gate.reset() and route(): the tasks of fan_out are created.             *)
BeginRound ==
    /\ ~Routing /\ phase # "raised" /\ ~agreed /\ round < MaxRounds
    /\ limited' \in IF round = 0 THEN BOOLEAN ELSE {limited}
    /\ round' = round + 1
    /\ phase' = "gathering"
    /\ handler' = [k \in Handlers |-> "new"]
    /\ slot' = [k \in Handlers |-> NoDirective]
    /\ directive' = NoDirective
    /\ votes' = 0
    /\ h_gave' = [k \in Handlers |-> NoDirective]
    /\ UNCHANGED agreed

StartHandler(k) ==
    /\ handler[k] = "new" /\ phase = "gathering"
    /\ handler' = [handler EXCEPT ![k] = "running"]
    /\ UNCHANGED <<limited, round, phase, directive, agreed, slot, h_gave, votes>>

(* ConsensusGate.vote counts calls, and does not ask whose they are.       *)
Vote(k) ==
    /\ handler[k] = "running" /\ votes < MaxVotes
    /\ votes' = votes + 1
    /\ UNCHANGED <<limited, round, phase, directive, agreed, handlerVars>>

(* results[index] = await handler(envelope).  In the variant the first     *)
(* answer counts.                                                          *)
Late_HandlerReturns(k, d) ==
    /\ handler[k] = "running"
    /\ handler' = [handler EXCEPT ![k] = "done"]
    /\ slot' = IF \E j \in Handlers : slot[j] # NoDirective THEN slot
               ELSE [slot EXCEPT ![k] = d]
    /\ h_gave' = [h_gave EXCEPT ![k] = d]
    /\ UNCHANGED <<limited, round, phase, directive, agreed, votes>>

HandlerReturns(k, d) ==
    /\ handler[k] = "running"
    /\ handler' = [handler EXCEPT ![k] = "done"]
    /\ slot' = [slot EXCEPT ![k] = d]
    /\ h_gave' = [h_gave EXCEPT ![k] = d]
    /\ UNCHANGED <<limited, round, phase, directive, agreed, votes>>

(* An Exception of a handler counts as None.                               *)
HandlerRaises(k) ==
    /\ handler[k] = "running"
    /\ handler' = [handler EXCEPT ![k] = "done"]
    /\ slot' = [slot EXCEPT ![k] = NoDirective]
    /\ UNCHANGED <<limited, round, phase, directive, agreed, h_gave, votes>>

(* A BaseException, as the AgentHardKillError of a governed handler, is    *)
(* not caught: the TaskGroup aborts, and raises it in a group of its own.  *)
HandlerBreaks(k) ==
    /\ handler[k] = "running"
    /\ handler' = [handler EXCEPT ![k] = "broken"]
    /\ phase' = IF phase = "gathering" THEN "abort" ELSE phase
    /\ UNCHANGED <<limited, round, directive, agreed, slot, h_gave, votes>>

(* A handler's task ends with CancelledError: its own, or because the      *)
(* group is being cancelled.                                               *)
HandlerCancelled(k) ==
    /\ \/ handler[k] = "running"
       \/ handler[k] = "new" /\ phase \in {"timeout", "abort"}
    /\ handler' = [handler EXCEPT ![k] = "cancelled"]
    /\ UNCHANGED <<limited, round, phase, directive, agreed, slot, h_gave, votes>>

(* asyncio.timeout() around the group; it may also hit a group that has    *)
(* just finished.                                                          *)
Lenient_TimeOutFanOut ==
    /\ limited /\ phase = "gathering"
    /\ \A k \in Handlers : handler[k] # "done"
    /\ phase' = "timeout"
    /\ UNCHANGED <<limited, round, directive, agreed, handlerVars, votes>>

TimeOutFanOut ==
    /\ limited /\ phase = "gathering"
    /\ phase' = "timeout"
    /\ UNCHANGED <<limited, round, directive, agreed, handlerVars, votes>>

-----------------------------------------------------------------------------
(* for directive in directives: if directive is not None: return it        *)
FirstDirective ==
    LET given == {k \in Handlers : slot[k] # NoDirective}
    IN  IF given = {} THEN NoDirective
        ELSE slot[CHOOSE k \in given : \A j \in given : k <= j]

(* The group waits for all, also for those it has cancelled.               *)
Hasty_AllOver == phase = "timeout" \/ \A k \in Handlers : handler[k] \in HandlerOver
AllOver == \A k \in Handlers : handler[k] \in HandlerOver

(* The group is done: route() returns, raises TimeoutError or the broken   *)
(* handlers' group.  Unless it is that, the orchestrator goes on to        *)
(* require_consensus().                                                    *)
EndRound ==
    /\ Routing /\ AllOver
    /\ phase' = IF \E k \in Handlers : handler[k] = "broken" THEN "raised"
                ELSE IF phase = "timeout" THEN "timed out"
                ELSE "returned"
    /\ directive' = IF phase' = "returned" THEN FirstDirective ELSE NoDirective
    /\ agreed' = (phase' # "raised" /\ votes >= Threshold)
    /\ UNCHANGED <<limited, round, handlerVars, votes>>

Handle(k) ==
    \/ StartHandler(k) \/ Vote(k) \/ HandlerRaises(k) \/ HandlerBreaks(k)
    \/ HandlerCancelled(k)
    \/ \E d \in Directives \cup {NoDirective} : HandlerReturns(k, d)

FanOutNext ==
    \/ BeginRound \/ TimeOutFanOut \/ EndRound
    \/ \E k \in Handlers : Handle(k)

FanOutSpec == FanOutInit /\ [][FanOutNext]_fanOutVars

(* Handlers may hang, but not once they are cancelled; timeouts fire.      *)
FanOutFairness ==
    /\ WF_fanOutVars(TimeOutFanOut) /\ WF_fanOutVars(EndRound)
    /\ \A k \in Handlers :
          WF_fanOutVars(phase \in {"timeout", "abort"} /\ HandlerCancelled(k))

-----------------------------------------------------------------------------
(* Consensus is decided on the final count of its round: no handler, timed *)
(* out or not, is still there to vote once route() has ended, so the count *)
(* never parts from the decision, and no vote of one round is left for the *)
(* next.  It is a count of votes: one agent that votes Threshold times     *)
(* makes a consensus.                                                      *)
VotesAreOfThisRound ==
    /\ ~Routing => \A k \in Handlers : handler[k] \in {"none"} \cup HandlerOver
    /\ phase \in {"returned", "timed out"} => (agreed <=> votes >= Threshold)

(* What route() returns is the directive of the first registered handler   *)
(* that gave one, in whatever order the answers came; it is None only if   *)
(* nobody gave one.                                                        *)
RouteFollowsRegistration == phase = "returned" =>
    \/ \E k \in Handlers : /\ directive = h_gave[k] /\ directive # NoDirective
                           /\ \A j \in 1 .. k - 1 : h_gave[j] = NoDirective
    \/ directive = NoDirective /\ \A k \in Handlers : h_gave[k] = NoDirective

(* route() with a timeout comes back, whatever its handlers do.            *)
RouteEnds == Routing /\ limited ~> Routed
=============================================================================
