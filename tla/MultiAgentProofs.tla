---------------------------- MODULE MultiAgentProofs ----------------------------
(***************************************************************************)
(* Theorems about MultiAgent: first about FanOut, for any handlers,        *)
(* directives and threshold, and then about ParallelCalls, for any calls,  *)
(* attempts and pool sizes.                                                *)
(***************************************************************************)
EXTENDS MultiAgent, SequenceTheorems, FiniteSetTheorems, TLAPS

(* A set of natural numbers has a least element.                           *)
LEMMA LeastNatural ==
    ASSUME NEW T \in SUBSET Nat, T # {} PROVE \E m \in T : \A k \in T : m <= k
<1>1. PICK m \in T : \A k \in T : ~(<<k, m>> \in OpToRel(<, Nat))
  BY WFMin, NatLessThanWellFounded
<1>2. \A k \in T : ~(k < m)
  BY <1>1 DEF OpToRel
<1>3. \A k \in T : m <= k
  <2> TAKE k \in T
  <2>1. k \in Nat /\ m \in Nat /\ ~(k < m)
    BY <1>2
  <2> QED
    BY ONLY <2>1
<1> QED
  BY <1>3

(* The results of fan_out are what the handlers gave; there are none of    *)
(* handlers under way.                                                     *)
SlotInv ==
    /\ slot = h_gave
    /\ \A k \in Handlers :
          handler[k] \in {"none", "new", "running"} => slot[k] = NoDirective
    /\ agreed => ~Routing

FanOutInv == FanOutTypeOK /\ VotesAreOfThisRound /\ RouteFollowsRegistration /\ SlotInv

(* FirstDirective is the directive of a handler before which none gave     *)
(* one, or there is none.                                                  *)
LEMMA FirstDirectiveFacts ==
    ASSUME slot \in [Handlers -> Directives \cup {NoDirective}]
    PROVE  \/ \E k \in Handlers : /\ FirstDirective = slot[k] /\ FirstDirective # NoDirective
                                  /\ \A j \in 1 .. k - 1 : slot[j] = NoDirective
           \/ FirstDirective = NoDirective /\ \A k \in Handlers : slot[k] = NoDirective
<1> USE FanOutAssumption
<1> DEFINE given == {k \in Handlers : slot[k] # NoDirective}
<1>1. CASE given = {}
  BY <1>1 DEF FirstDirective
<1>2. CASE given # {}
  <2>1. given \in SUBSET Nat /\ given # {}
    BY <1>2 DEF Handlers
  <2>2. \E k \in given : \A j \in given : k <= j
    BY <2>1, LeastNatural
  <2> QED
    <3> DEFINE k == CHOOSE n \in given : \A j \in given : n <= j
    <3>1. k \in given /\ \A j \in given : k <= j
      BY <2>2
    <3>2. FirstDirective = slot[k]
      BY <1>2 DEF FirstDirective
    <3>3. \A j \in 1 .. k - 1 : j \in Handlers /\ ~(k <= j)
      BY <3>1 DEF Handlers
    <3> HIDE DEF k
    <3> QED
      BY <3>1, <3>2, <3>3
<1> QED
  BY <1>1, <1>2

(* Before the first round all is quiet.                                    *)
LEMMA FanOutInitInv == FanOutInit => FanOutInv
<1> SUFFICES ASSUME FanOutInit PROVE FanOutInv
  OBVIOUS
<1> USE FanOutAssumption DEF FanOutInit
<1>1. FanOutTypeOK
  <2>1. 0 \in 0 .. MaxRounds /\ 0 \in 0 .. MaxVotes
    OBVIOUS
  <2> QED
    BY <2>1 DEF FanOutTypeOK
<1>2. VotesAreOfThisRound
  BY DEF VotesAreOfThisRound, Routing
<1>3. SlotInv /\ RouteFollowsRegistration
  BY DEF SlotInv, RouteFollowsRegistration
<1> QED
  BY <1>1, <1>2, <1>3 DEF FanOutInv

(* A round begins with nothing of the one before.                          *)
LEMMA BeginRoundInv == FanOutInv /\ BeginRound => FanOutInv'
<1> SUFFICES ASSUME FanOutInv, BeginRound PROVE FanOutInv'
  OBVIOUS
<1> USE FanOutAssumption DEF BeginRound, FanOutInv
<1>1. FanOutTypeOK'
  <2>1. 0 \in 0 .. MaxVotes /\ round + 1 \in 0 .. MaxRounds
    <3>1. round \in 0 .. MaxRounds /\ round < MaxRounds
      BY DEF FanOutTypeOK
    <3> QED
      BY <3>1
  <2>2. limited' \in BOOLEAN
    <3>1. limited' \in IF round = 0 THEN BOOLEAN ELSE {limited}
      OBVIOUS
    <3>2. limited \in BOOLEAN
      BY DEF FanOutTypeOK
    <3> QED
      BY ONLY <3>1, <3>2, Zenon
  <2> QED
    BY <2>1, <2>2 DEF FanOutTypeOK
<1>2. VotesAreOfThisRound'
  BY DEF VotesAreOfThisRound, Routing
<1>3. SlotInv' /\ RouteFollowsRegistration'
  BY DEF SlotInv, FanOutTypeOK, RouteFollowsRegistration
<1> QED
  BY <1>1, <1>2, <1>3

(* Handlers vote while the orchestrator is in route(), before it decides.  *)
LEMMA VoteInv == ASSUME NEW k \in Handlers, FanOutInv, Vote(k) PROVE FanOutInv'
<1> USE FanOutAssumption DEF Vote, FanOutInv, handlerVars
<1>1. votes' \in 0 .. MaxVotes
  <2>1. votes \in 0 .. MaxVotes /\ votes < MaxVotes /\ votes' = votes + 1
    BY DEF FanOutTypeOK
  <2> QED
    BY ONLY <2>1, FanOutAssumption
<1>2. Routing
  BY DEF VotesAreOfThisRound, FanOutTypeOK, HandlerOver
<1>3. VotesAreOfThisRound'
  BY <1>2 DEF VotesAreOfThisRound, Routing
<1>4. FanOutTypeOK'
  BY <1>1 DEF FanOutTypeOK
<1>5. SlotInv' /\ RouteFollowsRegistration'
  BY <1>2 DEF SlotInv, Routing, RouteFollowsRegistration
<1> QED
  BY <1>3, <1>4, <1>5

(* What a handler's task does leaves votes alone; its result is what it    *)
(* returned, if anything.                                                  *)
LEMMA HandlerStepInv ==
    ASSUME NEW k \in Handlers, FanOutInv,
           \/ StartHandler(k) \/ HandlerRaises(k) \/ HandlerBreaks(k) \/ HandlerCancelled(k)
           \/ \E d \in Directives \cup {NoDirective} : HandlerReturns(k, d)
    PROVE  FanOutInv'
<1> USE DEF FanOutInv
<1> DEFINE Steps == Directives \cup {NoDirective}
<1>1. /\ Routing /\ Routing'
      /\ UNCHANGED <<limited, round, directive, agreed, votes>>
      /\ phase' # "returned"
      /\ handler[k] \in {"new", "running"}
  BY DEF StartHandler, HandlerRaises, HandlerBreaks, HandlerCancelled, HandlerReturns,
         Routing, handlerVars, VotesAreOfThisRound, HandlerOver
<1>2. slot[k] = NoDirective
  BY <1>1 DEF SlotInv
<1>3. \E s \in {"running", "done", "broken", "cancelled"} :
          handler' = [handler EXCEPT ![k] = s]
  BY DEF StartHandler, HandlerRaises, HandlerBreaks, HandlerCancelled, HandlerReturns
<1>4. \/ UNCHANGED <<slot, h_gave>>
      \/ /\ handler'[k] = "done"
         /\ \E d \in Steps : /\ slot' = [slot EXCEPT ![k] = d]
                            /\ h_gave' = [h_gave EXCEPT ![k] = d]
  <2>1. CASE HandlerRaises(k)
    <3>1. slot' = slot
      BY <1>2, <2>1 DEF HandlerRaises, FanOutTypeOK
    <3> QED
      BY <2>1, <3>1 DEF HandlerRaises
  <2>2. ASSUME NEW d \in Steps, HandlerReturns(k, d)
        PROVE  /\ handler'[k] = "done"
               /\ slot' = [slot EXCEPT ![k] = d] /\ h_gave' = [h_gave EXCEPT ![k] = d]
    BY <2>2 DEF HandlerReturns, FanOutTypeOK
  <2> QED
    BY <2>1, <2>2 DEF StartHandler, HandlerBreaks, HandlerCancelled
<1>5. FanOutTypeOK'
  <2>1. phase' \in {"gathering", "timeout", "abort"}
    BY <1>1 DEF Routing
  <2>2. slot' \in [Handlers -> Steps] /\ h_gave' \in [Handlers -> Steps]
    BY <1>4 DEF FanOutTypeOK
  <2>3. handler' \in [Handlers -> {"none", "new", "running"} \cup HandlerOver]
    BY <1>3 DEF FanOutTypeOK, HandlerOver
  <2> QED
    BY <1>1, <2>1, <2>2, <2>3 DEF FanOutTypeOK
<1>6. VotesAreOfThisRound'
  BY <1>1 DEF VotesAreOfThisRound, Routing
<1>7. SlotInv'
  <2>1. slot' = h_gave'
    BY <1>4 DEF SlotInv
  <2>2. ASSUME NEW j \in Handlers, handler'[j] \in {"none", "new", "running"}
        PROVE  slot'[j] = NoDirective
    <3>1. CASE j = k
      BY <1>2, <1>4, <2>2, <3>1 DEF FanOutTypeOK
    <3>2. CASE j # k
      <4>1. handler'[j] = handler[j] /\ slot'[j] = slot[j]
        BY <1>3, <1>4, <3>2 DEF FanOutTypeOK
      <4> QED
        BY <2>2, <4>1 DEF SlotInv
    <3> QED
      BY <3>1, <3>2
  <2> QED
    BY <1>1, <2>1, <2>2 DEF SlotInv
<1>8. RouteFollowsRegistration'
  BY <1>1 DEF RouteFollowsRegistration
<1> QED
  BY <1>5, <1>6, <1>7, <1>8

(* A timeout touches nothing but the phase.                                *)
LEMMA TimeOutFanOutInv == FanOutInv /\ TimeOutFanOut => FanOutInv'
BY DEF FanOutInv, TimeOutFanOut, FanOutTypeOK, VotesAreOfThisRound, SlotInv, Routing,
       RouteFollowsRegistration, handlerVars

(* The end of a round: route() takes the first directive.                  *)
LEMMA EndRoundInv == FanOutInv /\ EndRound => FanOutInv'
<1> SUFFICES ASSUME FanOutInv, EndRound PROVE FanOutInv'
  OBVIOUS
<1> USE FanOutAssumption DEF EndRound, FanOutInv, handlerVars
<1>1. phase' \in {"raised", "timed out", "returned"} /\ ~Routing'
  BY DEF Routing
<1>2. FirstDirective \in Directives \cup {NoDirective}
  BY FirstDirectiveFacts DEF FanOutTypeOK
<1>3. FanOutTypeOK'
  BY <1>1, <1>2 DEF FanOutTypeOK
<1>4. VotesAreOfThisRound'
  BY <1>1 DEF VotesAreOfThisRound, AllOver, Routing
<1>5. SlotInv'
  BY <1>1 DEF SlotInv
<1>6. RouteFollowsRegistration'
  <2>1. phase' = "returned" => directive' = FirstDirective
    OBVIOUS
  <2>2. h_gave' = slot /\ slot \in [Handlers -> Directives \cup {NoDirective}]
    BY DEF SlotInv, FanOutTypeOK
  <2> QED
    BY <2>1, <2>2, FirstDirectiveFacts DEF RouteFollowsRegistration
<1> QED
  BY <1>3, <1>4, <1>5, <1>6

(* What fan_out does keeps its invariant.                                  *)
LEMMA FanOutStepInv == FanOutInv /\ [FanOutNext]_fanOutVars => FanOutInv'
<1> SUFFICES ASSUME FanOutInv, [FanOutNext]_fanOutVars PROVE FanOutInv'
  OBVIOUS
<1>1. CASE BeginRound
  BY <1>1, BeginRoundInv
<1>2. CASE TimeOutFanOut
  BY <1>2, TimeOutFanOutInv
<1>3. CASE EndRound
  BY <1>3, EndRoundInv
<1>4. ASSUME NEW k \in Handlers, Handle(k) PROVE FanOutInv'
  BY <1>4, VoteInv, HandlerStepInv DEF Handle
<1>5. CASE UNCHANGED fanOutVars
  BY <1>5 DEF FanOutInv, FanOutTypeOK, VotesAreOfThisRound, RouteFollowsRegistration,
              SlotInv, Routing, fanOutVars, handlerVars
<1> QED
  BY <1>1, <1>2, <1>3, <1>4, <1>5 DEF FanOutNext

-----------------------------------------------------------------------------
(* The types of what the invariants of call_parallel are about.            *)
CallTypes ==
    /\ kind \in [Calls -> {"sync", "async"}]
    /\ task \in [Calls -> {"none", "new", "running"} \cup Over]
    /\ errors \in Seq(Calls)
    /\ pipe \in [Calls -> {"none", "queued", "calling", "waiting", "ended"}]
    /\ attempt \in [Calls -> 0 .. MaxAttempts]
    /\ fate \in [Calls -> {"none", "value", "resumed", "failed", "killed", "cancelled"}]
    /\ captured \in [Calls -> Classes \cup {"none"}]
    /\ job \in [Calls \X Attempts -> {"none", "queued", "running"} \cup Ended]
    /\ poolQueue \in Seq(Calls \X Attempts)

(* A call whose pipeline has ended does no more; its task ends with it.    *)
CallInv == \A i \in Calls :
    /\ fate[i] # "none" => pipe[i] \in {"none", "ended"} /\ task[i] \notin {"none", "new"}
    /\ pipe[i] \in {"calling", "waiting"} => attempt[i] \in Attempts
    /\ pipe[i] = "waiting" => InPool(i)
    /\ task[i] \in {"none", "new"} => pipe[i] = "none"
    /\ task[i] = "done" => pipe[i] = "ended" /\ fate[i] \in {"value", "resumed", "failed"}
    /\ captured[i] = "HARD_KILL" => fate[i] = "killed"

(* There are jobs of attempts that were begun only.                        *)
JobInv == \A i \in Calls, a \in Attempts : job[<<i, a>>] # "none" =>
    /\ task[i] \notin {"none", "new"} /\ pipe[i] # "queued"
    /\ a <= attempt[i]
    /\ pipe[i] = "calling" => a # attempt[i]

(* What no worker has taken is queued, once.                               *)
QueueInv ==
    /\ \A n \in 1 .. Len(poolQueue) : job[poolQueue[n]] = "queued"
    /\ \A m, n \in 1 .. Len(poolQueue) : poolQueue[m] = poolQueue[n] => m = n

(* While nothing was killed or cancelled from outside, no task was either. *)
GroupInv ==
    /\ group = "idle" => \A i \in Calls : task[i] = "none"
    /\ group \in {"idle", "open", "returned"} => \A i \in Calls :
          /\ ~cancelling[i] /\ task[i] # "killed"
          /\ task[i] = "cancelled" => fate[i] = "cancelled"
    /\ group = "returned" => \A i \in Calls : task[i] \in {"done", "cancelled"}
    /\ \A n \in 1 .. Len(errors) : fate[errors[n]] = "killed"
    /\ group = "raised" => errors # <<>>

ParallelInv ==
    /\ CallTypes /\ CallInv /\ JobInv /\ QueueInv /\ GroupInv
    /\ AnswerIsNotStale /\ OnlyGhostsLinger

(* Before call_parallel there is nothing.                                  *)
LEMMA ParallelInitInv == ParallelInit => ParallelInv
<1> SUFFICES ASSUME ParallelInit PROVE ParallelInv
  OBVIOUS
<1> USE ParallelAssumption DEF ParallelInit
<1>1. CallTypes
  BY DEF CallTypes, Over, Ended
<1>2. \A i \in Calls, a \in Attempts : job[<<i, a>>] = "none"
  OBVIOUS
<1> QED
  BY <1>1, <1>2 DEF ParallelInv, CallInv, JobInv, QueueInv, GroupInv, AnswerIsNotStale,
     OnlyGhostsLinger

(* HardKillSurfaces follows.                                               *)
LEMMA SurfacesFromInv == ParallelInv => HardKillSurfaces
<1> SUFFICES ASSUME ParallelInv PROVE HardKillSurfaces
  OBVIOUS
<1>1. ASSUME group = "raised" PROVE fate[errors[1]] = "killed"
  <2>1. errors \in Seq(Calls) /\ errors # <<>>
    BY <1>1 DEF ParallelInv, CallTypes, GroupInv
  <2>2. 1 \in 1 .. Len(errors)
    BY <2>1
  <2> QED
    BY <2>2 DEF ParallelInv, GroupInv
<1>2. ASSUME NEW i \in Calls, group = "returned"
      PROVE  fate[i] # "killed" /\ captured[i] # "HARD_KILL" /\ pipe[i] \in {"none", "ended"}
  BY <1>2 DEF ParallelInv, GroupInv, CallInv
<1> QED
  BY <1>1, <1>2 DEF HardKillSurfaces

(* An update of a function keeps its type.                                 *)
LEMMA UpdatedType ==
    ASSUME NEW S, NEW T, NEW f \in [S -> T], NEW j, NEW v \in T
    PROVE  [f EXCEPT ![j] = v] \in [S -> T]
OBVIOUS

(* The pipeline of a call ends, or begins another attempt.                 *)
LEMMA PipelineGoesOn ==
    ASSUME ParallelInv, NEW i \in Calls, pipe[i] \in {"calling", "waiting"},
           UNCHANGED <<kindVars, groupVars, taskVars, job, poolQueue>>,
           h_gaveUp \subseteq h_gaveUp',
           pipe[i] = "waiting" =>
               job[<<i, attempt[i]>>] \in Ended \/ <<i, attempt[i]>> \in h_gaveUp',
           \/ Retry(i)
           \/ \E f \in {"value", "resumed", "failed", "killed", "cancelled"},
                 c \in Classes \cup {"none"} :
                 /\ EndPipe(i, f, c)
                 /\ f = "value" /\ InPool(i) => job[<<i, attempt[i]>>] = "value"
                 /\ c = "HARD_KILL" => f = "killed"
    PROVE  ParallelInv'
<1> USE ParallelAssumption DEF ParallelInv, kindVars, groupVars, taskVars
<1>1. fate[i] = "none" /\ task[i] \notin {"none", "new", "done"} /\ attempt[i] \in Attempts
  BY DEF CallInv
<1>2. /\ pipe'[i] \in {"calling", "ended"} /\ pipe' = [pipe EXCEPT ![i] = pipe'[i]]
      /\ attempt'[i] \in {attempt[i], attempt[i] + 1} \cap Attempts
      /\ attempt' = [attempt EXCEPT ![i] = attempt'[i]]
      /\ \/ /\ pipe'[i] = "calling" /\ attempt'[i] = attempt[i] + 1
            /\ UNCHANGED <<fate, captured>>
         \/ /\ pipe'[i] = "ended" /\ attempt' = attempt
            /\ fate'[i] \in {"value", "resumed", "failed", "killed", "cancelled"}
            /\ fate' = [fate EXCEPT ![i] = fate'[i]]
            /\ captured'[i] \in Classes \cup {"none"}
            /\ captured' = [captured EXCEPT ![i] = captured'[i]]
            /\ fate'[i] = "value" /\ InPool(i) => job[<<i, attempt[i]>>] = "value"
            /\ captured'[i] = "HARD_KILL" => fate'[i] = "killed"
  <2>1. CASE Retry(i)
    BY <1>1, <2>1 DEF Retry, CallTypes, Attempts
  <2>2. CASE ~Retry(i)
    BY ZenonT(40), <1>1, <2>2 DEF EndPipe, CallTypes
  <2> QED
    BY <2>1, <2>2
<1>3. CallTypes'
  <2>1. pipe' \in [Calls -> {"none", "queued", "calling", "waiting", "ended"}]
    <3>1. pipe'[i] \in {"none", "queued", "calling", "waiting", "ended"}
      BY <1>2
    <3> QED
      BY ZenonT(40), <1>2, <3>1, UpdatedType DEF CallTypes
  <2>2. attempt' \in [Calls -> 0 .. MaxAttempts]
    <3>1. attempt'[i] \in 0 .. MaxAttempts
      BY <1>2 DEF Attempts
    <3> QED
      BY <1>2, <3>1 DEF CallTypes
  <2>3. /\ fate' \in [Calls -> {"none", "value", "resumed", "failed", "killed", "cancelled"}]
        /\ captured' \in [Calls -> Classes \cup {"none"}]
    <3>1. CASE pipe'[i] = "calling"
      BY <1>2, <3>1 DEF CallTypes
    <3>2. CASE pipe'[i] = "ended"
      <4>1. /\ fate' = [fate EXCEPT ![i] = fate'[i]]
            /\ captured' = [captured EXCEPT ![i] = captured'[i]]
            /\ fate'[i] \in {"value", "resumed", "failed", "killed", "cancelled"}
            /\ captured'[i] \in Classes \cup {"none"}
        BY <1>2, <3>2
      <4>2. /\ fate \in [Calls -> {"none", "value", "resumed", "failed", "killed", "cancelled"}]
            /\ captured \in [Calls -> Classes \cup {"none"}]
        BY DEF CallTypes
      <4>3. fate'[i] \in {"none", "value", "resumed", "failed", "killed", "cancelled"}
        BY <4>1
      <4>4. fate' \in [Calls -> {"none", "value", "resumed", "failed", "killed", "cancelled"}]
        BY ONLY <4>1, <4>2, <4>3, UpdatedType
      <4>5. captured' \in [Calls -> Classes \cup {"none"}]
        BY ONLY <4>1, <4>2, UpdatedType
      <4> QED
        BY <4>4, <4>5
    <3> QED
      BY <1>2, <3>1, <3>2
  <2> QED
    BY <2>1, <2>2, <2>3 DEF CallTypes
<1>4. InPool(i)' = InPool(i) /\ \A k \in Calls : InPool(k)' = InPool(k)
  BY DEF InPool
<1>5. CallInv'
  BY <1>1, <1>2, <1>4 DEF CallInv, CallTypes
<1>6. JobInv'
  <2> SUFFICES ASSUME NEW k \in Calls, NEW a \in Attempts, job[<<k, a>>] # "none"
               PROVE  /\ task[k] \notin {"none", "new"} /\ pipe'[k] # "queued"
                      /\ a <= attempt'[k]
                      /\ pipe'[k] = "calling" => a # attempt'[k]
    BY DEF JobInv
  <2>1. /\ task[k] \notin {"none", "new"} /\ pipe[k] # "queued" /\ a <= attempt[k]
        /\ pipe[k] = "calling" => a # attempt[k]
    BY DEF JobInv
  <2>2. CASE k # i
    BY <1>2, <2>1, <2>2 DEF CallTypes
  <2>3. CASE k = i
    <3>1. attempt[i] \in Nat /\ a \in Nat
      BY <1>1 DEF Attempts
    <3> QED
      BY <1>2, <2>1, <2>3, <3>1
  <2> QED
    BY <2>2, <2>3
<1>7. QueueInv'
  BY DEF QueueInv
<1>8. GroupInv'
  <2>1. \A n \in 1 .. Len(errors) : errors[n] \in Calls /\ errors[n] # i
    BY <1>1 DEF GroupInv, CallTypes
  <2>2. \A k \in Calls \ {i} : fate'[k] = fate[k]
    BY <1>2 DEF CallTypes
  <2>3. \A n \in 1 .. Len(errors) : fate'[errors[n]] = "killed"
    BY <2>1, <2>2 DEF GroupInv
  <2>4. group \in {"idle", "open", "returned"} => task[i] # "cancelled"
    BY <1>1 DEF GroupInv
  <2> QED
    BY <2>2, <2>3, <2>4 DEF GroupInv
<1>9. AnswerIsNotStale'
  <2> SUFFICES ASSUME NEW k \in Calls, InPool(k), fate'[k] = "value"
               PROVE  job[<<k, attempt'[k]>>] = "value"
    BY <1>4 DEF AnswerIsNotStale
  <2>1. CASE k # i
    <3>1. fate'[k] = fate[k] /\ attempt'[k] = attempt[k]
      BY <1>2, <2>1 DEF CallTypes
    <3> QED
      BY <3>1 DEF AnswerIsNotStale
  <2>2. CASE k = i
    BY <1>1, <1>2, <2>2
  <2> QED
    BY <2>1, <2>2
<1>10. OnlyGhostsLinger'
  <2> SUFFICES ASSUME NEW k \in Calls, NEW a \in Attempts,
                      job[<<k, a>>] \in {"queued", "running"}, <<k, a>> \notin h_gaveUp'
               PROVE  pipe'[k] = "waiting" /\ a = attempt'[k]
    BY DEF OnlyGhostsLinger
  <2>1. pipe[k] = "waiting" /\ a = attempt[k]
    BY DEF OnlyGhostsLinger
  <2>2. k # i
    BY <2>1 DEF Ended
  <2> QED
    BY <1>2, <2>1, <2>2 DEF CallTypes
<1> QED
  BY <1>3, <1>5, <1>6, <1>7, <1>8, <1>9, <1>10

(* What the pipeline of a call does keeps the invariant.                   *)
LEMMA PipelineInv == ASSUME ParallelInv, NEW i \in Calls, Pipeline(i) PROVE ParallelInv'
<1> USE ParallelAssumption
<1>1. CASE TakeThread(i)
  <2> USE <1>1 DEF TakeThread, ParallelInv, kindVars, groupVars, taskVars, poolVars
  <2>1. fate[i] = "none" /\ task[i] \notin {"none", "new"} /\ InPool(i)' = InPool(i)
    BY DEF CallInv, InPool
  <2>2. \A a \in Attempts : job[<<i, a>>] = "none"
    BY DEF JobInv
  <2>3. /\ \A k \in Calls \ {i} : pipe'[k] = pipe[k] /\ attempt'[k] = attempt[k]
        /\ pipe'[i] = "calling" /\ attempt'[i] = 1 /\ 1 \in Attempts /\ 1 \in 0 .. MaxAttempts
    BY DEF CallTypes, Attempts
  <2>4. CallTypes'
    BY <2>3 DEF CallTypes
  <2>5. CallInv'
    BY <2>1, <2>3 DEF CallInv, InPool, CallTypes
  <2>6. JobInv' /\ OnlyGhostsLinger'
    BY <2>2, <2>3 DEF JobInv, OnlyGhostsLinger
  <2>7. QueueInv' /\ GroupInv'
    BY DEF QueueInv, GroupInv
  <2>8. AnswerIsNotStale'
    BY <2>1, <2>3 DEF AnswerIsNotStale, InPool
  <2> QED
    BY <2>4, <2>5, <2>6, <2>7, <2>8
<1>2. CASE Submit(i)
  <2> USE <1>2 DEF Submit, ParallelInv, kindVars, groupVars, taskVars
  <2> DEFINE j == <<i, attempt[i]>>
  <2>1. /\ fate[i] = "none" /\ task[i] \notin {"none", "new", "done"} /\ attempt[i] \in Attempts
        /\ \A k \in Calls : InPool(k)' = InPool(k)
    BY DEF CallInv, InPool
  <2>2. j \in Calls \X Attempts /\ job[j] = "none"
    BY <2>1 DEF JobInv
  <2>3. /\ \A k \in Calls \ {i} : pipe'[k] = pipe[k]
        /\ pipe'[i] = "waiting" /\ job'[j] = "queued"
        /\ \A x \in (Calls \X Attempts) \ {j} : job'[x] = job[x]
    BY <2>2 DEF CallTypes
  <2>4. CallTypes'
    <3>1. poolQueue' \in Seq(Calls \X Attempts)
      BY <2>2 DEF CallTypes
    <3> QED
      BY <3>1 DEF CallTypes
  <2>5. CallInv'
    BY <2>1, <2>3 DEF CallInv
  <2>6. JobInv'
    BY <2>1, <2>2, <2>3 DEF JobInv, CallTypes, Attempts
  <2>7. OnlyGhostsLinger'
    BY <2>1, <2>2, <2>3 DEF OnlyGhostsLinger
  <2>8. QueueInv'
    <3> HIDE DEF j
    <3>1. /\ poolQueue \in Seq(Calls \X Attempts) /\ poolQueue' = Append(poolQueue, j)
          /\ Len(poolQueue) \in Nat
      BY DEF CallTypes, j
    <3>2. \A n \in 1 .. Len(poolQueue) : poolQueue[n] \in Calls \X Attempts /\ poolQueue[n] # j
      BY <2>2, <3>1 DEF QueueInv
    <3>3. /\ Len(poolQueue') = Len(poolQueue) + 1 /\ poolQueue'[Len(poolQueue) + 1] = j
          /\ \A n \in 1 .. Len(poolQueue) : poolQueue'[n] = poolQueue[n]
      BY <2>2, <3>1
    <3>4. \A n \in 1 .. Len(poolQueue') : n \in 1 .. Len(poolQueue) \/ n = Len(poolQueue) + 1
      BY <3>1, <3>3
    <3>5. \A n \in 1 .. Len(poolQueue') : job'[poolQueue'[n]] = "queued"
      <4>1. \A n \in 1 .. Len(poolQueue) : job'[poolQueue[n]] = "queued"
        BY <2>3, <3>2 DEF QueueInv
      <4> QED
        BY <2>3, <3>3, <3>4, <4>1
    <3>6. \A m, n \in 1 .. Len(poolQueue') : poolQueue'[m] = poolQueue'[n] => m = n
      BY SMTT(30), <3>2, <3>3, <3>4 DEF QueueInv
    <3> QED
      BY <3>5, <3>6 DEF QueueInv
  <2>9. GroupInv'
    BY DEF GroupInv
  <2>10. AnswerIsNotStale'
    <3> SUFFICES ASSUME NEW k \in Calls, InPool(k), fate[k] = "value"
                 PROVE  job'[<<k, attempt[k]>>] = "value"
      BY <2>1 DEF AnswerIsNotStale
    <3>1. k # i /\ job[<<k, attempt[k]>>] = "value"
      BY <2>1 DEF AnswerIsNotStale
    <3> QED
      BY <3>1 DEF CallTypes
  <2> QED
    BY <2>4, <2>5, <2>6, <2>7, <2>8, <2>9, <2>10
<1>3. CASE GetResult(i)
  <2> USE <1>3 DEF GetResult
  <2>1. PICK o \in Answers(i) : After(i, o)
    OBVIOUS
  <2>2. o = job[<<i, attempt[i]>>] /\ o \in Ended
    BY <2>1 DEF Answers
  <2>3. "none" \in Classes \cup {"none"} /\ {"EXCEPTION", "ISSUE", "HARD_KILL"} \subseteq Classes
    BY DEF Classes, Severity
  <2> QED
    BY <2>1, <2>2, <2>3, PipelineGoesOn DEF After, poolVars, Ended
<1>4. CASE TimeOut(i)
  <2> USE <1>4 DEF TimeOut
  <2>1. {"EXCEPTION", "ISSUE", "HARD_KILL"} \subseteq Classes
    BY DEF Classes, Severity
  <2>2. \/ Retry(i)
        \/ \E f \in {"value", "resumed", "failed", "killed", "cancelled"},
                 c \in Classes \cup {"none"} :
              /\ EndPipe(i, f, c)
              /\ f = "value" /\ InPool(i) => job[<<i, attempt[i]>>] = "value"
              /\ c = "HARD_KILL" => f = "killed"
    BY <2>1 DEF After
  <2>3. h_gaveUp \subseteq h_gaveUp' /\ <<i, attempt[i]>> \in h_gaveUp'
    OBVIOUS
  <2> QED
    BY <2>2, <2>3, PipelineGoesOn
<1>5. ASSUME NEW o \in Ended, EndAttempt(i, o) PROVE ParallelInv'
  <2> USE <1>5 DEF EndAttempt
  <2>1. {"EXCEPTION", "ISSUE", "HARD_KILL"} \subseteq Classes
    BY DEF Classes, Severity
  <2>2. \/ Retry(i)
        \/ \E f \in {"value", "resumed", "failed", "killed", "cancelled"},
                 c \in Classes \cup {"none"} :
              /\ EndPipe(i, f, c)
              /\ f = "value" /\ InPool(i) => job[<<i, attempt[i]>>] = "value"
              /\ c = "HARD_KILL" => f = "killed"
    BY <2>1 DEF After
  <2> QED
    BY <2>2, PipelineGoesOn DEF poolVars
<1>6. CASE Misuse(i)
  <2>1. EndPipe(i, "failed", "none") /\ pipe[i] = "calling"
    BY <1>6 DEF Misuse
  <2>2. \E f \in {"value", "resumed", "failed", "killed", "cancelled"},
            c \in Classes \cup {"none"} :
         /\ EndPipe(i, f, c)
         /\ f = "value" /\ InPool(i) => job[<<i, attempt[i]>>] = "value"
         /\ c = "HARD_KILL" => f = "killed"
    BY ONLY <2>1
  <2>3. /\ UNCHANGED <<kindVars, groupVars, taskVars, job, poolQueue>>
        /\ h_gaveUp \subseteq h_gaveUp'
    BY <1>6 DEF Misuse, poolVars
  <2> QED
    BY <2>1, <2>2, <2>3, PipelineGoesOn
<1>7. CASE CancelItself(i)
  <2>1. EndPipe(i, "cancelled", "none") /\ pipe[i] = "calling"
    BY <1>7 DEF CancelItself
  <2>2. \E f \in {"value", "resumed", "failed", "killed", "cancelled"},
            c \in Classes \cup {"none"} :
         /\ EndPipe(i, f, c)
         /\ f = "value" /\ InPool(i) => job[<<i, attempt[i]>>] = "value"
         /\ c = "HARD_KILL" => f = "killed"
    BY ONLY <2>1
  <2>3. /\ UNCHANGED <<kindVars, groupVars, taskVars, job, poolQueue>>
        /\ h_gaveUp \subseteq h_gaveUp'
    BY <1>7 DEF CancelItself, poolVars
  <2> QED
    BY <2>1, <2>2, <2>3, PipelineGoesOn
<1> QED
  BY <1>1, <1>2, <1>3, <1>4, <1>5, <1>6, <1>7 DEF Pipeline

(* What the task of a call does keeps the invariant.                       *)
LEMMA TaskInv == ASSUME ParallelInv, NEW i \in Calls, Task(i) PROVE ParallelInv'
<1> USE ParallelAssumption DEF ParallelInv
<1>1. CASE StartCall(i)
  <2> USE <1>1 DEF StartCall, kindVars, groupVars, poolVars
  <2>1. /\ fate[i] = "none" /\ pipe[i] = "none" /\ group # "idle"
        /\ \A a \in Attempts : job[<<i, a>>] = "none"
        /\ \A k \in Calls : InPool(k)' = InPool(k)
    BY DEF CallInv, JobInv, GroupInv, InPool
  <2>2. /\ \A k \in Calls \ {i} : /\ pipe'[k] = pipe[k] /\ attempt'[k] = attempt[k]
                                 /\ task'[k] = task[k]
        /\ task'[i] = "running" /\ pipe'[i] \in {"queued", "calling"}
        /\ pipe'[i] = "calling" => attempt'[i] = 1
        /\ attempt'[i] \in 0 .. MaxAttempts /\ 1 \in Attempts
    BY DEF CallTypes, Attempts
  <2>3. CallTypes'
    <3>1. /\ pipe' \in [Calls -> {"none", "queued", "calling", "waiting", "ended"}]
          /\ task' \in [Calls -> {"none", "new", "running"} \cup Over]
      BY DEF CallTypes
    <3>2. 0 \in 0 .. MaxAttempts /\ 1 \in 0 .. MaxAttempts
      OBVIOUS
    <3>3. attempt' \in [Calls -> 0 .. MaxAttempts]
      BY <3>2 DEF CallTypes
    <3> QED
      BY <3>1, <3>3 DEF CallTypes
  <2>4. CallInv'
    BY <2>1, <2>2 DEF CallInv
  <2>5. JobInv' /\ QueueInv' /\ OnlyGhostsLinger'
    BY <2>1, <2>2 DEF JobInv, QueueInv, OnlyGhostsLinger
  <2>6. GroupInv'
    BY <2>1, <2>2 DEF GroupInv
  <2>7. AnswerIsNotStale'
    BY <2>1, <2>2 DEF AnswerIsNotStale
  <2> QED
    BY <2>3, <2>4, <2>5, <2>6, <2>7
<1>2. ASSUME Resumes(i), NEW s \in {"done", "killed"}, RunOneEnds(i, s),
             UNCHANGED <<kindVars, pipeVars, poolVars>>,
             s = "done" => /\ fate[i] \in {"value", "resumed", "failed"}
                           /\ UNCHANGED <<groupVars, cancelling>>,
             s = "killed" => /\ fate[i] = "killed" /\ group' = "aborting"
                             /\ errors' = Append(errors, i)
      PROVE  ParallelInv'
  <2> USE <1>2 DEF Resumes, RunOneEnds, kindVars, pipeVars, poolVars, groupVars
  <2>1. /\ \A k \in Calls : InPool(k)' = InPool(k)
        /\ \A k \in Calls \ {i} : task'[k] = task[k]
        /\ task'[i] = s
    BY DEF InPool, CallTypes
  <2>2. CallTypes'
    <3>1. task' \in [Calls -> {"none", "new", "running"} \cup Over]
      BY DEF CallTypes, Over
    <3>2. errors' \in Seq(Calls)
      <4>1. errors' = errors \/ errors' = Append(errors, i)
        OBVIOUS
      <4>2. errors \in Seq(Calls)
        BY DEF CallTypes
      <4> QED
        BY ONLY <4>1, <4>2, i \in Calls
    <3> QED
      BY <3>1, <3>2 DEF CallTypes
  <2>3. CallInv'
    BY <2>1 DEF CallInv
  <2>4. JobInv' /\ QueueInv' /\ OnlyGhostsLinger' /\ AnswerIsNotStale'
    BY <2>1 DEF JobInv, QueueInv, OnlyGhostsLinger, AnswerIsNotStale
  <2>5. GroupInv'
    <3>1. CASE s = "done"
      BY <2>1, <3>1 DEF GroupInv
    <3>2. CASE s = "killed"
      <4>1. \A n \in 1 .. Len(errors') :
                \/ n \in 1 .. Len(errors) /\ errors'[n] = errors[n]
                \/ errors'[n] = i
        BY SMTT(30), <3>2 DEF CallTypes
      <4> QED
        BY <3>2, <4>1 DEF GroupInv
    <3> QED
      BY <3>1, <3>2
  <2> QED
    BY <2>2, <2>3, <2>4, <2>5
<1>3. CASE Succeed(i)
  BY <1>2, <1>3 DEF Succeed
<1>4. CASE Fail(i)
  BY <1>2, <1>4 DEF Fail
<1>5. CASE Kill(i)
  BY <1>2, <1>5 DEF Kill
<1>6. CASE Cancelled(i)
  <2> USE <1>6 DEF Cancelled, RunOneEnds, kindVars, groupVars, poolVars
  <2>1. /\ \A k \in Calls : InPool(k)' = InPool(k)
        /\ \A k \in Calls \ {i} : task'[k] = task[k] /\ pipe'[k] = pipe[k]
        /\ task'[i] = "cancelled" /\ task[i] \in {"new", "running"}
        /\ pipe'[i] = "none" \/ (pipe'[i] = pipe[i] /\ pipe[i] # "queued")
    <3>1. \A k \in Calls : InPool(k)' = InPool(k)
      BY DEF InPool
    <3>2. /\ \A k \in Calls \ {i} : task'[k] = task[k] /\ pipe'[k] = pipe[k]
          /\ task'[i] = "cancelled"
          /\ pipe'[i] = "none" \/ (pipe'[i] = pipe[i] /\ pipe[i] # "queued")
      <4> DEFINE p == IF kind[i] = "async" \/ pipe[i] = "queued" THEN "none" ELSE pipe[i]
      <4>1. /\ pipe' = [pipe EXCEPT ![i] = p] /\ task' = [task EXCEPT ![i] = "cancelled"]
            /\ p = "none" \/ (p = pipe[i] /\ pipe[i] # "queued")
        OBVIOUS
      <4>2. DOMAIN pipe = Calls /\ DOMAIN task = Calls
        BY DEF CallTypes
      <4> HIDE DEF p
      <4> QED
        BY ONLY <4>1, <4>2, i \in Calls
    <3>3. task[i] \in {"new", "running"}
      BY DEF Resumes
    <3> QED
      BY <3>1, <3>2, <3>3
  <2>2. CallTypes'
    BY DEF CallTypes, Over
  <2>3. CallInv'
    BY <2>1 DEF CallInv
  <2>4. JobInv' /\ QueueInv' /\ AnswerIsNotStale'
    BY <2>1 DEF JobInv, QueueInv, AnswerIsNotStale, CallInv
  <2>5. OnlyGhostsLinger'
    <3>1. pipe[i] = "waiting" => pipe'[i] = "waiting"
      BY DEF CallInv, InPool, CallTypes
    <3> QED
      BY <2>1, <3>1 DEF OnlyGhostsLinger
  <2>6. GroupInv'
    <3>1. group \in {"idle", "open", "returned"} => fate[i] = "cancelled" /\ group = "open"
      BY <2>1 DEF GroupInv, Resumes
    <3> QED
      BY <2>1, <3>1 DEF GroupInv
  <2> QED
    BY <2>2, <2>3, <2>4, <2>5, <2>6
<1> QED
  BY <1>1, <1>3, <1>4, <1>5, <1>6 DEF Task

(* What the workers of the pool do keeps the invariant.                    *)
LEMMA PoolInv == ParallelInv /\ Pool => ParallelInv'
<1> SUFFICES ASSUME ParallelInv, Pool PROVE ParallelInv'
  OBVIOUS
<1> USE DEF ParallelInv, kindVars, groupVars, taskVars, pipeVars
<1>1. CASE StartJob
  <2> USE <1>1 DEF StartJob
  <2> DEFINE h == Head(poolQueue)
  <2>1. /\ poolQueue \in Seq(Calls \X Attempts) /\ poolQueue # <<>>
        /\ h = poolQueue[1] /\ 1 \in 1 .. Len(poolQueue)
        /\ poolQueue' = Tail(poolQueue)
    BY DEF CallTypes
  <2>2. h \in Calls \X Attempts /\ job[h] = "queued" /\ job' = [job EXCEPT ![h] = "running"]
    BY <2>1 DEF QueueInv
  <2> HIDE DEF h
  <2>3. /\ \A x \in Calls \X Attempts : job'[x] = IF x = h THEN "running" ELSE job[x]
        /\ job' \in [Calls \X Attempts -> {"none", "queued", "running"} \cup Ended]
    BY <2>2 DEF CallTypes
  <2>4. /\ Len(poolQueue') = Len(poolQueue) - 1 /\ poolQueue' \in Seq(Calls \X Attempts)
        /\ \A n \in 1 .. Len(poolQueue') :
              poolQueue'[n] = poolQueue[n + 1] /\ n + 1 \in 1 .. Len(poolQueue)
    BY <2>1
  <2>5. QueueInv'
    <3>1. ASSUME NEW n \in 1 .. Len(poolQueue') PROVE job'[poolQueue'[n]] = "queued"
      <4>1. n + 1 # 1 /\ n + 1 \in 1 .. Len(poolQueue)
        BY <2>4
      <4>2. /\ poolQueue[n + 1] # h /\ poolQueue[n + 1] \in Calls \X Attempts
            /\ job[poolQueue[n + 1]] = "queued"
        BY <2>1, <4>1 DEF QueueInv
      <4> QED
        BY <2>3, <2>4, <4>2
    <3>2. ASSUME NEW m \in 1 .. Len(poolQueue'), NEW n \in 1 .. Len(poolQueue'),
                 poolQueue'[m] = poolQueue'[n]
          PROVE  m = n
      <4>1. m + 1 = n + 1
        BY <2>4, <3>2 DEF QueueInv
      <4> QED
        BY <4>1
    <3> QED
      BY <3>1, <3>2 DEF QueueInv
  <2>6. CallTypes' /\ CallInv' /\ GroupInv'
    BY <2>3, <2>4 DEF CallTypes, CallInv, GroupInv, InPool
  <2>7. JobInv' /\ OnlyGhostsLinger'
    BY SMTT(30), <2>2, <2>3 DEF JobInv, OnlyGhostsLinger
  <2>8. AnswerIsNotStale'
    BY SMTT(30), <2>2, <2>3 DEF AnswerIsNotStale, InPool, CallTypes
  <2> QED
    BY <2>5, <2>6, <2>7, <2>8
<1>2. ASSUME NEW j \in Calls \X Attempts, NEW o \in Ended, EndJob(j, o) PROVE ParallelInv'
  <2> USE <1>2 DEF EndJob
  <2>1. /\ \A x \in Calls \X Attempts : job'[x] = IF x = j THEN o ELSE job[x]
        /\ job' \in [Calls \X Attempts -> {"none", "queued", "running"} \cup Ended]
    BY DEF CallTypes
  <2>2. job[j] = "running"
    OBVIOUS
  <2>3. CallTypes' /\ CallInv' /\ GroupInv'
    BY <2>1 DEF CallTypes, CallInv, GroupInv, InPool
  <2>4. JobInv'
    BY <2>1, <2>2 DEF JobInv
  <2>5. OnlyGhostsLinger'
    BY <2>1, <2>2 DEF OnlyGhostsLinger, Ended
  <2>6. AnswerIsNotStale'
    <3> SUFFICES ASSUME NEW k \in Calls, InPool(k), fate[k] = "value"
                 PROVE  job'[<<k, attempt[k]>>] = "value"
      BY DEF AnswerIsNotStale, InPool
    <3>1. job[<<k, attempt[k]>>] = "value" /\ <<k, attempt[k]>> # j
      BY <2>2 DEF AnswerIsNotStale
    <3> QED
      BY <3>1 DEF CallTypes
  <2>7. QueueInv'
    <3>1. \A n \in 1 .. Len(poolQueue) : poolQueue[n] \in Calls \X Attempts /\ poolQueue[n] # j
      BY <2>2 DEF QueueInv, CallTypes
    <3> QED
      BY <2>1, <3>1 DEF QueueInv
  <2> QED
    BY <2>3, <2>4, <2>5, <2>6, <2>7
<1> QED
  BY <1>1, <1>2 DEF Pool

(* What call_parallel itself does keeps the invariant.                     *)
LEMMA GroupStepInv ==
    ASSUME ParallelInv, CallParallel \/ CancelGroup \/ Return \/ Raise PROVE ParallelInv'
<1> USE DEF ParallelInv, pipeVars, poolVars
<1>1. CASE CallParallel
  <2> USE <1>1 DEF CallParallel
  <2>1. \A i \in Calls : task[i] = "none" /\ fate[i] = "none" /\ pipe[i] = "none"
    BY DEF GroupInv, CallInv
  <2>2. \A i \in Calls, a \in Attempts : job[<<i, a>>] = "none"
    BY <2>1 DEF JobInv
  <2>3. \A i \in Calls : task'[i] = "new"
    OBVIOUS
  <2>4. CallTypes' /\ CallInv'
    BY <2>1, <2>3 DEF CallTypes, CallInv
  <2>5. JobInv' /\ QueueInv' /\ OnlyGhostsLinger' /\ AnswerIsNotStale'
    BY <2>1, <2>2 DEF JobInv, QueueInv, OnlyGhostsLinger, AnswerIsNotStale
  <2>6. GroupInv'
    BY <2>3 DEF GroupInv
  <2> QED
    BY <2>4, <2>5, <2>6
<1>2. CASE CancelGroup
  BY <1>2 DEF CancelGroup, kindVars, CallTypes, CallInv, JobInv, QueueInv, GroupInv, InPool,
              OnlyGhostsLinger, AnswerIsNotStale
<1>3. CASE Return
  <2> USE <1>3 DEF Return, kindVars, taskVars
  <2>1. \A i \in Calls : task[i] \in {"done", "cancelled"}
    BY DEF Gathered, Over, GroupInv
  <2> QED
    BY <2>1 DEF CallTypes, CallInv, JobInv, QueueInv, GroupInv, InPool,
              OnlyGhostsLinger, AnswerIsNotStale
<1>4. CASE Raise
  BY <1>4 DEF Raise, kindVars, taskVars, CallTypes, CallInv, JobInv, QueueInv, GroupInv,
              InPool, OnlyGhostsLinger, AnswerIsNotStale
<1> QED
  BY <1>1, <1>2, <1>3, <1>4

(* So does every step of call_parallel.                                    *)
LEMMA ParallelStepInv == ParallelInv /\ [ParallelNext]_parallelVars => ParallelInv'
<1> SUFFICES ASSUME ParallelInv, [ParallelNext]_parallelVars PROVE ParallelInv'
  OBVIOUS
<1>1. CASE UNCHANGED parallelVars
  BY <1>1 DEF ParallelInv, CallTypes, CallInv, JobInv, QueueInv, GroupInv, InPool,
              OnlyGhostsLinger, AnswerIsNotStale, parallelVars, kindVars, groupVars,
              taskVars, pipeVars, poolVars
<1>2. CASE ParallelNext
  BY <1>2, PipelineInv, TaskInv, PoolInv, GroupStepInv DEF ParallelNext
<1> QED
  BY <1>1, <1>2

-----------------------------------------------------------------------------
(* Induction over the natural numbers, as a fact about sets: one whose      *)
(* least element outside it cannot exist.                                  *)
LEMMA SetInduction ==
    ASSUME NEW S, 0 \in S, \A n \in Nat : n \in S => n + 1 \in S
    PROVE  \A n \in Nat : n \in S
<1> DEFINE T == Nat \ S
<1>1. CASE T = {}
  BY <1>1
<1>2. CASE T # {}
  <2>1. PICK m \in T : \A k \in T : m <= k
    BY <1>2, LeastNatural
  <2>2. m # 0 /\ m \in Nat
    OBVIOUS
  <2>3. m - 1 \in Nat /\ ~(m <= m - 1) /\ m - 1 + 1 = m
    BY <2>2
  <2>4. m - 1 \in S
    BY <2>1, <2>3
  <2> QED
    BY <2>3, <2>4
<1> QED
  BY <1>1, <1>2

(* F has what the loop over the outcomes o has collected after each of its *)
(* first m steps.                                                          *)
Loop(F, o, m) ==
    F = [n \in 0 .. m |-> IF n = 0 THEN <<>>
                          ELSE IF o[n] = NoOutcome THEN F[n - 1] ELSE Append(F[n - 1], o[n])]

(* The recursion of CompletedOf defines a function.                        *)
LEMMA LoopExists ==
    ASSUME NEW o PROVE \A m \in Nat : \E F : Loop(F, o, m)
<1> DEFINE S == {m \in Nat : \E F : Loop(F, o, m)}
<1>1. 0 \in S
  <2>1. Loop([n \in 0 .. 0 |-> <<>>], o, 0)
    BY DEF Loop
  <2> QED
    BY <2>1
<1>2. ASSUME NEW m \in Nat, m \in S PROVE m + 1 \in S
  <2>1. PICK F : Loop(F, o, m)
    BY <1>2
  <2> DEFINE v == IF o[m + 1] = NoOutcome THEN F[m] ELSE Append(F[m], o[m + 1])
             G == [n \in 0 .. m + 1 |-> IF n = m + 1 THEN v ELSE F[n]]
  <2>2. ASSUME NEW n \in 0 .. m + 1
        PROVE  G[n] = IF n = 0 THEN <<>>
                      ELSE IF o[n] = NoOutcome THEN G[n - 1] ELSE Append(G[n - 1], o[n])
    <3>1. CASE n = m + 1
      <4>1. G[m + 1] = v /\ G[m] = F[m] /\ m + 1 # 0 /\ n - 1 = m
        BY <3>1
      <4> QED
        BY <3>1, <4>1
    <3>2. CASE n # m + 1
      <4>1. n \in 0 .. m /\ n - 1 # m + 1 /\ (n # 0 => n - 1 \in 0 .. m + 1)
        BY <3>2
      <4>2. G[n] = F[n] /\ (n # 0 => G[n - 1] = F[n - 1])
        BY <3>2, <4>1
      <4>3. F[n] = IF n = 0 THEN <<>>
                   ELSE IF o[n] = NoOutcome THEN F[n - 1] ELSE Append(F[n - 1], o[n])
        BY <2>1, <4>1 DEF Loop
      <4> QED
        BY <4>2, <4>3
    <3> QED
      BY <3>1, <3>2
  <2>3. Loop(G, o, m + 1)
    <3>1. G = [n \in 0 .. m + 1 |-> G[n]]
      OBVIOUS
    <3> HIDE DEF G
    <3> QED
      BY <2>2, <3>1 DEF Loop
  <2> QED
    BY <2>3
<1> HIDE DEF S
<1>3. \A m \in Nat : m \in S
  BY <1>1, <1>2, SetInduction
<1> QED
  BY <1>3 DEF S

(* The outcomes that are kept of the first n, and how many that are.       *)
Kept(o, n) == {k \in 1 .. n : o[k] # NoOutcome}
Rank(o, i) == Cardinality(Kept(o, i))

(* Ranks count the outcomes kept, one by one.                              *)
LEMMA KeptFacts ==
  ASSUME NEW o, NEW n \in Nat
  PROVE /\ IsFiniteSet(Kept(o, n)) /\ Rank(o, n) \in Nat
        /\ \A i \in Kept(o, n) : i \in Nat /\ Rank(o, i) \in 1 .. Rank(o, n)
        /\ Kept(o, n + 1) = IF o[n + 1] = NoOutcome THEN Kept(o, n) ELSE Kept(o, n) \cup {n + 1}
        /\ Rank(o, n + 1) = IF o[n + 1] = NoOutcome THEN Rank(o, n) ELSE Rank(o, n) + 1
<1>1. ASSUME NEW m \in Nat PROVE IsFiniteSet(Kept(o, m)) /\ Rank(o, m) \in Nat
  <2>1. IsFiniteSet(1 .. m) /\ Kept(o, m) \in SUBSET (1 .. m)
    BY FS_Interval DEF Kept
  <2>2. IsFiniteSet(Kept(o, m))
    BY <2>1, FS_Subset
  <2> QED
    BY <2>2, FS_CardinalityType DEF Rank
<1>2. ASSUME NEW i \in Kept(o, n) PROVE i \in Nat /\ Rank(o, i) \in 1 .. Rank(o, n)
  <2>1. i \in Nat /\ Kept(o, i) \in SUBSET Kept(o, n) /\ i \in Kept(o, i)
    BY DEF Kept
  <2>2. Rank(o, i) <= Rank(o, n)
    BY <1>1, <2>1, FS_Subset DEF Rank
  <2>3. Rank(o, i) # 0
    BY <1>1, <2>1, FS_EmptySet DEF Rank
  <2> QED
    BY <1>1, <2>1, <2>2, <2>3
<1>3. Kept(o, n + 1) = IF o[n + 1] = NoOutcome THEN Kept(o, n) ELSE Kept(o, n) \cup {n + 1}
  BY DEF Kept
<1>4. n + 1 \notin Kept(o, n)
  BY DEF Kept
<1>5. Rank(o, n + 1) = IF o[n + 1] = NoOutcome THEN Rank(o, n) ELSE Rank(o, n) + 1
  BY <1>1, <1>3, <1>4, FS_AddElement DEF Rank
<1> QED
  BY <1>1, <1>2, <1>3, <1>5

(* CompletedOf has the outcomes that are kept, each at its rank.           *)
LEMMA CompletedFacts ==
  ASSUME NEW X, NEW o \in Seq(X)
  PROVE  LET c == CompletedOf(o) N == Len(o)
         IN  /\ c \in Seq(X) /\ Len(c) = Rank(o, N)
             /\ \A i \in Kept(o, N) : c[Rank(o, i)] = o[i]
             /\ \A j \in 1 .. Len(c) : \E i \in Kept(o, N) : j = Rank(o, i)
<1> DEFINE N == Len(o)
<1>1. N \in Nat /\ \A n \in 1 .. N : o[n] \in X
  OBVIOUS
<1>2. PICK F : Loop(F, o, N) /\ CompletedOf(o) = F[N]
  <2> DEFINE G == CHOOSE G : Loop(G, o, N)
  <2>1. Loop(G, o, N)
    BY <1>1, LoopExists
  <2>2. CompletedOf(o) = G[N]
    BY DEF CompletedOf, Loop
  <2> HIDE DEF G
  <2> QED
    BY <2>1, <2>2
<1>3. /\ F[0] = <<>>
      /\ \A n \in Nat : n < N => F[n + 1] = IF o[n + 1] = NoOutcome THEN F[n] ELSE Append(F[n], o[n + 1])
  <2>1. F = [n \in 0 .. N |-> IF n = 0 THEN <<>>
                ELSE IF o[n] = NoOutcome THEN F[n - 1] ELSE Append(F[n - 1], o[n])]
    BY <1>2 DEF Loop
  <2> HIDE DEF N
  <2>4. ASSUME NEW k \in 0 .. N
        PROVE  F[k] = IF k = 0 THEN <<>>
                      ELSE IF o[k] = NoOutcome THEN F[k - 1] ELSE Append(F[k - 1], o[k])
    BY <2>1
  <2>2. F[0] = <<>>
    BY <1>1, <2>1
  <2>3. ASSUME NEW n \in Nat, n < N
        PROVE  F[n + 1] = IF o[n + 1] = NoOutcome THEN F[n] ELSE Append(F[n], o[n + 1])
    <3>1. n + 1 \in 0 .. N /\ n + 1 # 0 /\ n + 1 - 1 = n
      BY <1>1, <2>3
    <3>2. F[n + 1] = IF n + 1 = 0 THEN <<>>
                     ELSE IF o[n + 1] = NoOutcome THEN F[n + 1 - 1]
                     ELSE Append(F[n + 1 - 1], o[n + 1])
      BY <2>4, <3>1
    <3> QED
      BY <3>1, <3>2
  <2> QED
    BY <2>2, <2>3
<1> HIDE DEF N
<1> DEFINE P(n) == /\ F[n] \in Seq(X) /\ Len(F[n]) = Rank(o, n)
                   /\ \A i \in Kept(o, n) : F[n][Rank(o, i)] = o[i]
                   /\ \A j \in 1 .. Len(F[n]) : \E i \in Kept(o, n) : j = Rank(o, i)
           S == {n \in Nat : n <= N => P(n)}
<1>4. 0 \in S
  <2>1. Kept(o, 0) = {} /\ Rank(o, 0) = 0
    BY FS_EmptySet DEF Kept, Rank
  <2>2. Len(F[0]) = 0 /\ F[0] \in Seq(X)
    BY <1>3
  <2> QED
    BY <2>1, <2>2
<1>5. ASSUME NEW n \in Nat, n \in S PROVE n + 1 \in S
  <2> SUFFICES ASSUME n + 1 <= N PROVE P(n + 1)
    OBVIOUS
  <2>1. P(n) /\ n < N /\ o[n + 1] \in X
    BY <1>1, <1>5 
  <2>2. CASE o[n + 1] = NoOutcome
    <3>1. F[n + 1] = F[n] /\ Kept(o, n + 1) = Kept(o, n) /\ Rank(o, n + 1) = Rank(o, n)
      BY <1>3, <2>1, <2>2, KeptFacts
    <3> QED
      BY <2>1, <3>1
  <2>3. CASE o[n + 1] # NoOutcome
    <3>1. /\ F[n + 1] = Append(F[n], o[n + 1]) /\ Kept(o, n + 1) = Kept(o, n) \cup {n + 1}
          /\ Rank(o, n + 1) = Rank(o, n) + 1 /\ Rank(o, n) \in Nat
          /\ \A i \in Kept(o, n) : Rank(o, i) \in 1 .. Rank(o, n)
      BY <1>3, <2>1, <2>3, KeptFacts
    <3>2. /\ F[n + 1] \in Seq(X) /\ Len(F[n + 1]) = Rank(o, n + 1)
          /\ F[n + 1][Rank(o, n + 1)] = o[n + 1]
          /\ \A j \in 1 .. Rank(o, n) : F[n + 1][j] = F[n][j]
      BY <2>1, <3>1, AppendProperties
    <3>3. \A i \in Kept(o, n + 1) : F[n + 1][Rank(o, i)] = o[i]
      BY <2>1, <3>1, <3>2
    <3>4. \A j \in 1 .. Len(F[n + 1]) : \E i \in Kept(o, n + 1) : j = Rank(o, i)
      <4> TAKE j \in 1 .. Len(F[n + 1])
      <4>1. j \in 1 .. Len(F[n]) \/ j = Rank(o, n + 1)
        BY <2>1, <3>1, <3>2
      <4> QED
        BY <2>1, <3>1, <4>1
    <3> QED
      BY <3>2, <3>3, <3>4
  <2> QED
    BY <2>2, <2>3
<1> HIDE DEF S
<1>6. \A n \in Nat : n \in S
  BY <1>4, <1>5, SetInduction
<1>7. P(N)
  <2>1. N \in S
    BY <1>1, <1>6
  <2> QED
    BY <1>1, <2>1 DEF S
<1> QED
  BY <1>2, <1>7 DEF N

(* Outcome and result of a call are written when its task ends, and say    *)
(* how its pipeline did.                                                   *)
Outcomes == [status : {"none", "success", "exception"}, class : Classes \cup {"none"}]

OutcomeInv ==
    /\ outcomes \in [Calls -> Outcomes]
    /\ \A i \in Calls :
          /\ fate[i] # "none" => attempt[i] \in Attempts
          /\ task[i] # "done" => outcomes[i] = NoOutcome /\ results[i] = NoResult
          /\ task[i] = "done" =>
                IF fate[i] = "failed"
                THEN outcomes[i] = Outcome("exception", captured[i]) /\ results[i] = NoResult
                ELSE outcomes[i] = Outcome("success", "none") /\ results[i] # NoResult

ReportInv ==
    /\ results \in [Calls -> Nat] /\ OutcomeInv /\ ReportIsFaithful

(* Only Return ends the group with a report; after it a call does nothing. *)
LEMMA ReturnedIsFinal ==
    ASSUME ParallelInv, ParallelNext, group' = "returned", ~Return
    PROVE  UNCHANGED <<group, fate, captured, results, report>>
<1>1. group = "returned"
  BY DEF ParallelNext, Pipeline, Task, Pool, CallParallel, CancelGroup, Raise,
         TakeThread, Submit, GetResult, TimeOut, Misuse, CancelItself, EndAttempt,
         StartCall, Succeed, Fail, Kill, Cancelled, StartJob, EndJob, groupVars
<1>2. ASSUME NEW i \in Calls
      PROVE  task[i] \in {"done", "cancelled"} /\ pipe[i] \in {"none", "ended"}
  BY <1>1, SurfacesFromInv DEF ParallelInv, GroupInv, HardKillSurfaces
<1>3. ASSUME NEW i \in Calls PROVE ~Pipeline(i)
  BY <1>2 DEF Pipeline, TakeThread, Submit, GetResult, TimeOut, Misuse, CancelItself,
              EndAttempt
<1>4. ASSUME NEW i \in Calls PROVE ~Task(i)
  BY <1>2 DEF Task, StartCall, Succeed, Fail, Kill, Cancelled, Resumes
<1>5. CASE Pool
  BY <1>5 DEF Pool, StartJob, EndJob, groupVars, taskVars, pipeVars
<1> QED
  BY <1>1, <1>3, <1>4, <1>5 DEF ParallelNext, CallParallel, CancelGroup, Raise

(* The worst of the classes found is as bad as any.                        *)
LEMMA AggregateFacts ==
    ASSUME NEW s \in Seq(Outcomes)
    PROVE  /\ \A k \in 1 .. Len(s) : s[k].class # "none" =>
                 /\ AggregateClass(s) # "none"
                 /\ Severity[s[k].class] <= Severity[AggregateClass(s)]
           /\ AggregateClass(s) # "none" =>
                 \E k \in 1 .. Len(s) : s[k].class = AggregateClass(s)
<1> DEFINE found == {s[k].class : k \in 1 .. Len(s)} \ {"none"}
<1>1. Classes = {"EXCEPTION", "ISSUE", "HARD_KILL"}
  BY DEF Classes, Severity
<1>2. found \subseteq {"EXCEPTION", "ISSUE", "HARD_KILL"}
  <2>1. \A k \in 1 .. Len(s) : s[k].class \in {"EXCEPTION", "ISSUE", "HARD_KILL", "none"}
    <3> TAKE k \in 1 .. Len(s)
    <3>1. s[k] \in Outcomes
      OBVIOUS
    <3> QED
      BY <1>1, <3>1 DEF Outcomes
  <2> QED
    BY <2>1
<1>3. Severity["EXCEPTION"] = 0 /\ Severity["ISSUE"] = 1 /\ Severity["HARD_KILL"] = 2
  BY DEF Severity
<1>4. CASE found = {}
  BY <1>4 DEF AggregateClass
<1>5. CASE found # {}
  <2>1. \E c \in found : \A d \in found : Severity[d] <= Severity[c]
    <3> HIDE DEF found
    <3>1. CASE "HARD_KILL" \in found
      BY <1>2, <1>3, <3>1
    <3>2. CASE "HARD_KILL" \notin found /\ "ISSUE" \in found
      BY <1>2, <1>3, <3>2
    <3>3. CASE found = {"EXCEPTION"}
      BY <1>3, <3>3
    <3> QED
      BY <1>2, <1>5, <3>1, <3>2, <3>3
  <2> DEFINE c == CHOOSE c \in found : \A d \in found : Severity[d] <= Severity[c]
  <2>2. c \in found /\ \A d \in found : Severity[d] <= Severity[c]
    BY <2>1
  <2>3. AggregateClass(s) = c
    BY <1>5 DEF AggregateClass
  <2> HIDE DEF c
  <2>4. \A k \in 1 .. Len(s) : s[k].class # "none" => s[k].class \in found
    OBVIOUS
  <2>5. c # "none" /\ \E k \in 1 .. Len(s) : s[k].class = c
    BY <2>2
  <2> QED
    BY <2>2, <2>3, <2>4, <2>5
<1> QED
  BY <1>4, <1>5

(* The outcomes of a report that are successes or of a class, and their    *)
(* numbers.                                                                *)
Passed(s) == {k \in 1 .. Len(s) : s[k].status = "success"}
Classed(s, c) == {k \in 1 .. Len(s) : s[k].class = c}

LEMMA CountFacts ==
    ASSUME NEW s \in Seq(Outcomes)
    PROVE  /\ Report(s) = [outcomes |-> s, aggregate |-> AggregateClass(s),
                           successes |-> Cardinality(Passed(s)),
                           failures |-> Len(s) - Cardinality(Passed(s)),
                           summary |-> [c \in Classes |-> Cardinality(Classed(s, c))]]
           /\ Cardinality(Passed(s)) \in Nat
           /\ \A c : \A k \in 1 .. Len(s) : s[k].class = c => Cardinality(Classed(s, c)) > 0
<1>1. IsFiniteSet(1 .. Len(s))
  BY LenProperties, FS_Interval
<1>2. ASSUME NEW S \in SUBSET (1 .. Len(s))
      PROVE  Cardinality(S) \in Nat /\ (S # {} => Cardinality(S) > 0)
  <2>1. IsFiniteSet(S)
    BY <1>1, FS_Subset
  <2>2. Cardinality(S) \in Nat /\ (S # {} => Cardinality(S) # 0)
    BY <2>1, FS_CardinalityType, FS_EmptySet
  <2> QED
    BY <2>2
<1>3. Passed(s) \in SUBSET (1 .. Len(s)) /\ \A c : Classed(s, c) \in SUBSET (1 .. Len(s))
  BY DEF Passed, Classed
<1>4. ASSUME NEW k \in 1 .. Len(s) PROVE k \in Classed(s, s[k].class)
  BY DEF Classed
<1>5. Report(s) = [outcomes |-> s, aggregate |-> AggregateClass(s),
                   successes |-> Cardinality(Passed(s)),
                   failures |-> Len(s) - Cardinality(Passed(s)),
                   summary |-> [c \in Classes |-> Cardinality(Classed(s, c))]]
  BY Zenon DEF Report, CountOf, Passed, Classed
<1> QED
  BY <1>2, <1>3, <1>4, <1>5

(* The report has what the calls did.                                      *)
LEMMA ReturnReports == ParallelInv /\ ReportInv /\ Return => ReportIsFaithful'
<1> SUFFICES ASSUME ParallelInv, ReportInv, Return PROVE ReportIsFaithful'
  OBVIOUS
<1> USE ParallelAssumption
<1> DEFINE c == CompletedOf(outcomes)
<1>1. outcomes \in Seq(Outcomes) /\ Len(outcomes) = NCalls
  BY DEF ReportInv, OutcomeInv, Calls
<1>2. report' = Report(c)
  <2>1. outcomes = [i \in Calls |-> outcomes[i]]
    BY DEF ReportInv, OutcomeInv
  <2> QED
    BY <2>1 DEF Return
<1>3. UNCHANGED <<fate, captured, results>>
  BY DEF Return, taskVars, pipeVars
<1> DEFINE Reported == {i \in Calls : fate[i] # "cancelled"}
<1>4. ASSUME NEW i \in Calls
      PROVE  /\ outcomes[i] # NoOutcome <=> i \in Reported
             /\ i \in Reported => task[i] = "done"
  <2>1. \/ task[i] = "done" /\ fate[i] \in {"value", "resumed", "failed"}
        \/ task[i] = "cancelled" /\ fate[i] = "cancelled"
    BY DEF Return, Gathered, Over, ParallelInv, GroupInv, CallInv
  <2> QED
    BY <2>1 DEF ReportInv, OutcomeInv, NoOutcome, Outcome
<1>5. Reported = Kept(outcomes, NCalls)
  BY <1>4 DEF Kept, Calls
<1>6. ASSUME NEW i \in Calls PROVE Cardinality({k \in Reported : k <= i}) = Rank(outcomes, i)
  <2>1. {k \in Reported : k <= i} = Kept(outcomes, i)
    BY <1>4 DEF Kept, Calls
  <2> QED
    BY <2>1 DEF Rank
<1>7. /\ c \in Seq(Outcomes) /\ Len(c) = Cardinality(Reported)
      /\ \A i \in Reported : c[Cardinality({k \in Reported : k <= i})] = outcomes[i]
      /\ \A j \in 1 .. Len(c) : \E i \in Reported : c[j] = outcomes[i]
      /\ \A i \in Reported : \E j \in 1 .. Len(c) : c[j] = outcomes[i]
  <2> HIDE DEF c
  <2>1. /\ c \in Seq(Outcomes) /\ Len(c) = Rank(outcomes, NCalls)
        /\ \A i \in Kept(outcomes, NCalls) : c[Rank(outcomes, i)] = outcomes[i]
        /\ \A j \in 1 .. Len(c) : \E i \in Kept(outcomes, NCalls) : j = Rank(outcomes, i)
    BY <1>1, CompletedFacts DEF c
  <2>2. \A i \in Kept(outcomes, NCalls) : Rank(outcomes, i) \in 1 .. Rank(outcomes, NCalls)
    BY KeptFacts
  <2> HIDE DEF Reported
  <2>3. \A i \in Reported : i \in Calls
    BY DEF Reported
  <2> QED
    BY <1>5, <1>6, <2>1, <2>2, <2>3 DEF Rank
<1>8. ASSUME NEW i \in Reported
      PROVE  IF fate[i] = "failed"
             THEN outcomes[i] = Outcome("exception", captured[i]) /\ results[i] = NoResult
             ELSE outcomes[i] = Outcome("success", "none") /\ results[i] # NoResult
  BY <1>4 DEF ReportInv, OutcomeInv
<1>9. /\ report'.outcomes = c /\ report'.aggregate = AggregateClass(c)
      /\ \A x \in Classes : report'.summary[x] = Cardinality(Classed(c, x))
      /\ report'.successes + report'.failures = Len(c)
  <2> HIDE DEF c
  <2> DEFINE passed == Cardinality(Passed(c))
             counts == [x \in Classes |-> Cardinality(Classed(c, x))]
  <2>1. report' = [outcomes |-> c, aggregate |-> AggregateClass(c), successes |-> passed,
                   failures |-> Len(c) - passed, summary |-> counts]
    BY <1>2, <1>7, CountFacts
  <2>2. passed \in Nat /\ Len(c) \in Nat
    BY <1>7, CountFacts, LenProperties
  <2> HIDE DEF passed
  <2> QED
    BY <2>1, <2>2
<1> HIDE DEF c
<1>10. ASSUME NEW i \in Calls, fate[i] = "failed", captured[i] # "none"
       PROVE  /\ report'.aggregate # "none"
              /\ Severity[captured[i]] <= Severity[report'.aggregate]
              /\ report'.summary[captured[i]] > 0
  <2>1. i \in Reported /\ captured[i] \in Classes
    BY <1>10 DEF ParallelInv, CallTypes
  <2>2. outcomes[i].class = captured[i]
    <3>1. outcomes[i] = Outcome("exception", captured[i])
      BY <1>8, <1>10, <2>1
    <3> QED
      BY ONLY <3>1 DEF Outcome
  <2>3. PICK j \in 1 .. Len(c) : c[j].class = captured[i]
    BY <1>7, <2>1, <2>2
  <2> QED
    <3>1. c \in Seq(Outcomes) /\ j \in 1 .. Len(c) /\ captured[i] # "none"
      BY <1>7, <1>10
    <3>2. /\ AggregateClass(c) # "none"
          /\ Severity[captured[i]] <= Severity[AggregateClass(c)]
          /\ Cardinality(Classed(c, captured[i])) > 0
      BY ONLY <2>3, <3>1, AggregateFacts, CountFacts
    <3> QED
      BY <1>9, <2>1, <3>2
<1>11. ASSUME report'.aggregate # "none"
       PROVE  \E i \in Calls : fate[i] = "failed" /\ captured[i] = report'.aggregate
  <2>1. c \in Seq(Outcomes) /\ AggregateClass(c) # "none" /\ report'.aggregate = AggregateClass(c)
    BY <1>7, <1>9, <1>11
  <2>2. PICK j \in 1 .. Len(c) : c[j].class = AggregateClass(c)
    BY <2>1, AggregateFacts
  <2>3. PICK i \in Reported : c[j] = outcomes[i]
    BY <1>7
  <2>4. outcomes[i].class # "none"
    BY <2>1, <2>2, <2>3
  <2>5. fate[i] = "failed" /\ outcomes[i].class = captured[i]
    <3>1. CASE fate[i] = "failed"
      <4>1. outcomes[i] = Outcome("exception", captured[i])
        BY <1>8, <3>1
      <4> QED
        BY ONLY <3>1, <4>1 DEF Outcome
    <3>2. CASE fate[i] # "failed"
      <4>1. outcomes[i] = Outcome("success", "none")
        BY <1>8, <3>2
      <4> QED
        BY ONLY <2>4, <4>1 DEF Outcome
    <3> QED
      BY <3>1, <3>2
  <2> QED
    BY <2>1, <2>2, <2>3, <2>5
<1> DEFINE Before(i) == Cardinality({k \in Reported : k <= i})
<1>12. /\ Len(report'.outcomes) = Cardinality(Reported)
       /\ \A i \in Reported :
              LET o == report'.outcomes[Before(i)]
              IN  IF fate[i] = "failed"
                  THEN o = Outcome("exception", captured[i]) /\ results[i] = NoResult
                  ELSE o = Outcome("success", "none") /\ results[i] # NoResult
       /\ report'.successes + report'.failures = Cardinality(Reported)
  <2>1. \A i \in Reported : report'.outcomes[Before(i)] = outcomes[i]
    BY <1>7, <1>9
  <2>2. Len(report'.outcomes) = Cardinality(Reported)
        /\ report'.successes + report'.failures = Cardinality(Reported)
    BY <1>7, <1>9
  <2> HIDE DEF Reported, Before
  <2> QED
    BY <1>8, <2>1, <2>2
<1> QED
  BY <1>3, <1>10, <1>11, <1>12 DEF ReportIsFaithful

(* Until its task ends nothing is written of a call; a pipeline that ends  *)
(* has made an attempt.                                                    *)
LEMMA PipelineOutcomes ==
    ASSUME ParallelInv, OutcomeInv, NEW i \in Calls, Pipeline(i) PROVE OutcomeInv'
<1> USE ParallelAssumption
<1>1. /\ pipe[i] \in {"queued", "calling", "waiting"}
      /\ UNCHANGED <<task, results, outcomes>>
  BY DEF Pipeline, TakeThread, Submit, GetResult, TimeOut, Misuse, CancelItself, EndAttempt,
         taskVars
<1>2. task[i] # "done" /\ fate[i] = "none"
  BY <1>1 DEF ParallelInv, CallInv, CallTypes
<1>3. /\ attempt' = attempt \/ \E a : attempt' = [attempt EXCEPT ![i] = a]
      /\ \/ UNCHANGED <<fate, captured>>
         \/ /\ pipe[i] \in {"calling", "waiting"} /\ attempt' = attempt
            /\ \E f, c : /\ fate' = [fate EXCEPT ![i] = f]
                         /\ captured' = [captured EXCEPT ![i] = c]
  BY Zenon, <1>1 DEF Pipeline, TakeThread, Submit, GetResult, TimeOut, Misuse, CancelItself,
     EndAttempt, After, EndPipe, Retry
<1>4. ASSUME NEW k \in Calls, k # i
      PROVE  attempt'[k] = attempt[k] /\ fate'[k] = fate[k] /\ captured'[k] = captured[k]
  BY <1>3, <1>4 DEF ParallelInv, CallTypes
<1>5. fate'[i] # "none" => attempt'[i] \in Attempts
  BY <1>2, <1>3 DEF ParallelInv, CallInv
<1> QED
  BY <1>1, <1>2, <1>4, <1>5 DEF OutcomeInv

(* A task writes outcome and result when its pipeline has ended.           *)
LEMMA TaskOutcomes ==
    ASSUME ParallelInv, ReportInv, NEW i \in Calls, Task(i)
    PROVE  OutcomeInv' /\ results' \in [Calls -> Nat]
<1> USE ParallelAssumption DEF ReportInv
<1>1. UNCHANGED <<fate, captured>> /\ task[i] # "done"
  BY DEF Task, StartCall, Succeed, Fail, Kill, Cancelled, Resumes, pipeVars
<1>2. ASSUME NEW k \in Calls, k # i
      PROVE  /\ attempt'[k] = attempt[k] /\ task'[k] = task[k]
             /\ outcomes'[k] = outcomes[k] /\ results'[k] = results[k]
  BY <1>2 DEF Task, StartCall, Succeed, Fail, Kill, Cancelled, RunOneEnds, pipeVars,
     ParallelInv, CallTypes, OutcomeInv
<1>3. outcomes[i] = NoOutcome /\ results[i] = NoResult
      /\ (fate[i] # "none" => attempt[i] \in Attempts)
  BY <1>1 DEF OutcomeInv
<1>4. /\ fate'[i] # "none" => attempt'[i] \in Attempts
      /\ outcomes' \in [Calls -> Outcomes] /\ results' \in [Calls -> Nat]
      /\ task'[i] # "done" => outcomes'[i] = NoOutcome /\ results'[i] = NoResult
      /\ task'[i] = "done" =>
            IF fate'[i] = "failed"
            THEN outcomes'[i] = Outcome("exception", captured'[i]) /\ results'[i] = NoResult
            ELSE outcomes'[i] = Outcome("success", "none") /\ results'[i] # NoResult
  <2>1. CASE StartCall(i)
    <3>1. fate[i] = "none"
      BY <2>1 DEF StartCall, ParallelInv, CallInv
    <3> QED
      BY <1>1, <1>3, <2>1, <3>1 DEF StartCall, ParallelInv, CallTypes, OutcomeInv
  <2>2. CASE Succeed(i)
    <3> DEFINE v == IF fate[i] = "value" THEN attempt[i] ELSE ResumeState
    <3>1. v \in Nat /\ v # NoResult
      BY <1>3, <2>2 DEF Succeed, Attempts, ResumeState, NoResult
    <3>2. results' = [results EXCEPT ![i] = v]
      BY <2>2 DEF Succeed
    <3> HIDE DEF v
    <3>3. results' \in [Calls -> Nat] /\ results'[i] # NoResult
      BY <3>1, <3>2
    <3>4. Outcome("success", "none") \in Outcomes
      BY DEF Outcomes, Outcome
    <3>5. /\ outcomes' \in [Calls -> Outcomes]
          /\ outcomes'[i] = Outcome("success", "none")
      BY <2>2, <3>4 DEF Succeed, OutcomeInv
    <3>6. fate'[i] # "failed" /\ task'[i] = "done" /\ attempt' = attempt
      BY <1>1, <2>2 DEF Succeed, RunOneEnds, pipeVars, ParallelInv, CallTypes
    <3> QED
      BY <1>1, <1>3, <3>3, <3>5, <3>6
  <2>3. CASE Fail(i)
    <3>1. Outcome("exception", captured[i]) \in Outcomes
      BY DEF Outcomes, Outcome, ParallelInv, CallTypes
    <3>2. /\ outcomes' \in [Calls -> Outcomes]
          /\ outcomes'[i] = Outcome("exception", captured[i])
      BY <2>3, <3>1 DEF Fail, OutcomeInv
    <3>3. /\ fate[i] = "failed" /\ task'[i] = "done"
          /\ attempt' = attempt /\ results' = results
      BY <2>3 DEF Fail, RunOneEnds, pipeVars, ParallelInv, CallTypes
    <3> QED
      BY <1>1, <1>3, <3>2, <3>3
  <2>4. CASE Kill(i) \/ Cancelled(i)
    <3>1. task'[i] # "done" /\ UNCHANGED <<results, outcomes, attempt>>
      BY <2>4 DEF Kill, Cancelled, RunOneEnds, pipeVars, ParallelInv, CallTypes
    <3> QED
      BY <1>1, <1>3, <3>1 DEF OutcomeInv
  <2> QED
    BY <2>1, <2>2, <2>3, <2>4 DEF Task
<1> QED
  BY <1>1, <1>2, <1>4 DEF OutcomeInv

(* Before call_parallel nothing is written.                                *)
LEMMA ReportInitInv == ParallelInit => ReportInv
<1> SUFFICES ASSUME ParallelInit PROVE ReportInv
  OBVIOUS
<1> USE DEF ParallelInit
<1>1. NoOutcome \in Outcomes /\ NoResult \in Nat
  BY DEF NoOutcome, NoResult, Outcomes
<1> QED
  BY <1>1 DEF ReportInv, OutcomeInv, ReportIsFaithful

(* What is reported stays true: every step keeps ReportInv.                *)
LEMMA ReportStepInv == ParallelInv /\ ReportInv /\ [ParallelNext]_parallelVars => ReportInv'
<1> SUFFICES ASSUME ParallelInv, ReportInv, [ParallelNext]_parallelVars PROVE ReportInv'
  OBVIOUS
<1>1. OutcomeInv' /\ results' \in [Calls -> Nat]
  <2>1. ASSUME NEW i \in Calls, Pipeline(i) PROVE OutcomeInv' /\ results' = results
    BY <2>1, PipelineOutcomes DEF ReportInv, Pipeline, TakeThread, Submit, GetResult,
       TimeOut, Misuse, CancelItself, EndAttempt, taskVars
  <2>2. CASE CallParallel
    <3>1. \A i \in Calls : task[i] # "done" /\ task'[i] # "done"
      BY <2>2 DEF CallParallel, ParallelInv, GroupInv
    <3> QED
      BY <2>2, <3>1 DEF CallParallel, pipeVars, ReportInv, OutcomeInv
  <2>3. CASE CancelGroup \/ Return \/ Raise \/ Pool \/ UNCHANGED parallelVars
    <3>1. UNCHANGED <<task, results, outcomes, attempt, fate, captured>>
      BY <2>3 DEF CancelGroup, Return, Raise, Pool, StartJob, EndJob, parallelVars, taskVars,
         pipeVars
    <3> QED
      BY <3>1 DEF ReportInv, OutcomeInv
  <2> QED
    BY <2>1, <2>2, <2>3, TaskOutcomes DEF ParallelNext, ReportInv
<1>2. ReportIsFaithful'
  <2>1. CASE Return
    BY <2>1, ReturnReports
  <2>2. CASE group' # "returned"
    BY <2>2 DEF ReportIsFaithful
  <2>3. CASE group' = "returned" /\ ~Return
    <3>1. UNCHANGED <<group, fate, captured, results, report>>
      BY <2>3, ReturnedIsFinal DEF parallelVars, groupVars, taskVars, pipeVars
    <3> QED
      BY <3>1 DEF ReportInv, ReportIsFaithful
  <2> QED
    BY <2>1, <2>2, <2>3
<1> QED
  BY <1>1, <1>2 DEF ReportInv

-----------------------------------------------------------------------------
(* The inductive invariants of both parts.                                 *)
IInv == ParallelInv /\ ReportInv /\ FanOutInv

(* IInv is an invariant: a step of one part leaves the other one alone.    *)
THEOREM InductiveInvariant == Spec => []IInv
<1>1. Init => IInv
  BY ParallelInitInv, ReportInitInv, FanOutInitInv DEF Init, IInv
<1>2. IInv /\ [Next]_<<parallelVars, fanOutVars>> => IInv'
  <2> SUFFICES ASSUME IInv, [Next]_<<parallelVars, fanOutVars>> PROVE IInv'
    OBVIOUS
  <2>1. [ParallelNext]_parallelVars /\ [FanOutNext]_fanOutVars
    BY DEF Next
  <2> QED
    BY <2>1, ParallelStepInv, ReportStepInv, FanOutStepInv DEF IInv
<1> QED
  BY <1>1, <1>2, PTL DEF Spec

(* call_parallel of any length, on any pools, never hides a call that had  *)
(* to stop the agent, and does not return before its calls are over.       *)
THEOREM KillsSurface == Spec => []HardKillSurfaces
<1>1. IInv => HardKillSurfaces
  BY SurfacesFromInv DEF IInv
<1> QED
  BY <1>1, InductiveInvariant, PTL

(* What call_parallel of any length returns is what its calls did.         *)
THEOREM ReportsAreFaithful == Spec => []ReportIsFaithful
<1>1. IInv => ReportIsFaithful
  BY DEF IInv, ReportInv
<1> QED
  BY <1>1, InductiveInvariant, PTL

(* No retried call takes the answer of an attempt it had given up.         *)
THEOREM AnswersAreCurrent == Spec => []AnswerIsNotStale
<1>1. IInv => AnswerIsNotStale
  BY DEF IInv, ParallelInv
<1> QED
  BY <1>1, InductiveInvariant, PTL

(* Only attempts that were given up overlap with a call's present one.     *)
THEOREM GhostsOnly == Spec => []OnlyGhostsLinger
<1>1. IInv => OnlyGhostsLinger
  BY DEF IInv, ParallelInv
<1> QED
  BY <1>1, InductiveInvariant, PTL

(* The decision of a round agrees with its count of votes, for any number  *)
(* of handlers and of votes: nobody votes after it.                        *)
THEOREM VotesAreFresh == Spec => []VotesAreOfThisRound
<1>1. IInv => VotesAreOfThisRound
  BY DEF IInv, FanOutInv
<1> QED
  BY <1>1, InductiveInvariant, PTL

(* route() prefers handlers in the order of their registration.            *)
THEOREM FirstRegisteredWins == Spec => []RouteFollowsRegistration
<1>1. IInv => RouteFollowsRegistration
  BY DEF IInv, FanOutInv
<1> QED
  BY <1>1, InductiveInvariant, PTL
=============================================================================
