-------------------------- MODULE RedisBreakerProofs --------------------------
(***************************************************************************)
(* Theorems about RedisBreaker, for any number of calls and hosts, any     *)
(* clocks and any failures of Redis.  NewcomersKeepContract relates a save *)
(* to what its call loaded two steps before; View says what such a call    *)
(* may still rely on as long as nobody moved the circuit since it entered. *)
(***************************************************************************)
EXTENDS RedisBreaker, TLAPS

(* What a call knows that has seen no move of the circuit by another: at   *)
(* each step, how its copy relates to the hash as it is now.               *)
Sees(c) ==
    /\ phase[c] = "entering" /\ step[c] = "decide" =>
        copy[c].state = hash.state /\ copy[c].openedAt = hash.openedAt
    /\ phase[c] = "entering" /\ step[c] = "save" =>
        /\ hash.state = "open" /\ Elapsed(c, hash)
        /\ copy[c].state = "half_open"
    /\ phase[c] \in {"running", "failing", "succeeding"} =>
        hash.state # "open"
    /\ phase[c] \in {"failing", "succeeding"} /\ step[c] = "decide" =>
        copy[c].state = hash.state
    /\ phase[c] = "failing" /\ step[c] = "save" =>
        copy[c].state \in {"open", hash.state}
    /\ phase[c] = "succeeding" /\ step[c] = "save" =>
        \/ copy[c].state = hash.state
        \/ copy[c].state = "closed" /\ hash.state = "half_open"

(* A call that runs its function, or is not in call(), is about to load;   *)
(* all that _before_call ever saves is HALF_OPEN.                          *)
Ordered(c) ==
    /\ phase[c] \in {"idle", "running"} => step[c] = "load"
    /\ phase[c] = "entering" /\ step[c] = "save" => copy[c].state = "half_open"

StepsInOrder == \A c \in Calls : Ordered(c)

View == \A c \in Calls \ h_inside : Sees(c)

IInv == TypeOK /\ OpenedAtKnown /\ StepsInOrder /\ View

-----------------------------------------------------------------------------
(* Ages stay in their range, and a state keeps its type as it ages.        *)
LEMMA Ageing ==
    ASSUME NEW r \in States
    PROVE  /\ Aged(r) \in States
           /\ Aged(r).state = r.state
           /\ Aged(r).failures = r.failures
           /\ Aged(r).probes = r.probes
           /\ Aged(r).openedAt = Older(r.openedAt)
           /\ HasTime(r) => HasTime(Aged(r))
           /\ \A c \in Calls : Elapsed(c, r) => Elapsed(c, Aged(r))
<1>1. Older(r.openedAt) \in Times
  BY RedisAssumption DEF States, Times, Older
<1>2. r.openedAt # Unset => Older(r.openedAt) # Unset
                            /\ Older(r.openedAt) >= r.openedAt
  BY RedisAssumption DEF States, Times, Older
<1>3. /\ Aged(r) \in States
      /\ Aged(r).state = r.state
      /\ Aged(r).failures = r.failures
      /\ Aged(r).probes = r.probes
      /\ Aged(r).openedAt = Older(r.openedAt)
  BY <1>1 DEF Aged, States
<1>4. \A c \in Calls : Elapsed(c, r) => Elapsed(c, Aged(r))
  BY <1>1, <1>2, <1>3, RedisAssumption DEF Elapsed, Times, States
<1> QED
  BY <1>2, <1>3, <1>4 DEF HasTime

(* The constant states are states, and the clock of a host is a time.      *)
LEMMA Constants ==
    /\ Fresh \in States /\ Fresh.state = "closed"
    /\ HasTime(Fresh)
    /\ \A c \in Calls : Now(c) \in Times /\ Now(c) # Unset
BY RedisAssumption DEF Fresh, Redis, States, Times, HasTime, Now

(* What _record_failure saves: a state of its type that says when it       *)
(* opened, and that is OPEN or as it was.                                  *)
LEMMA FailureResult ==
    ASSUME NEW c \in Calls, NEW r \in States, HasTime(r)
    PROVE  /\ AfterFailure(c, r) \in States
           /\ HasTime(AfterFailure(c, r))
           /\ AfterFailure(c, r).state \in {"open", r.state}
BY Constants, RedisAssumption DEF AfterFailure, Redis, States, HasTime

(* What _record_success saves: CLOSED, or HALF_OPEN if it was.             *)
LEMMA SuccessResult ==
    ASSUME NEW r \in States, HasTime(r)
    PROVE  /\ AfterSuccess(r) \in States
           /\ HasTime(AfterSuccess(r))
           /\ \/ AfterSuccess(r).state = "closed"
              \/ r.state = "half_open" /\ AfterSuccess(r).state = "half_open"
BY Constants, RedisAssumption DEF AfterSuccess, Redis, States, HasTime

-----------------------------------------------------------------------------
Phases == {"idle", "entering", "running", "failing", "succeeding"}
Steps == {"load", "decide", "save"}

(* c has moved to phase p and step s with copy r.                          *)
Moved(c, p, s, r) ==
    /\ phase' = [phase EXCEPT ![c] = p]
    /\ step' = [step EXCEPT ![c] = s]
    /\ copy' = [copy EXCEPT ![c] = r]

(* A step of c that leaves the hash alone preserves the invariant if c     *)
(* itself comes to see what it should.                                     *)
LEMMA Quiet ==
    ASSUME NEW c \in Calls, NEW p \in Phases, NEW s \in Steps, NEW r \in States,
           IInv, HasTime(r), Moved(c, p, s, r), hash' = hash,
           h_inside' = IF p = "idle" THEN h_inside \ {c} ELSE h_inside,
           phase[c] # "idle" \/ p = "idle" \/ c \notin h_inside,
           Ordered(c)',
           c \notin h_inside' => Sees(c)'
    PROVE  IInv'
<1> USE DEF IInv, Moved, Phases, Steps
<1>1. TypeOK'
  BY DEF TypeOK
<1>2. OpenedAtKnown'
  BY DEF TypeOK, OpenedAtKnown
<1>3. \A d \in Calls \ {c} : phase'[d] = phase[d] /\ step'[d] = step[d]
                            /\ copy'[d] = copy[d]
  BY DEF TypeOK
<1>4. StepsInOrder'
  BY <1>3 DEF StepsInOrder, Ordered
<1>5. ASSUME NEW d \in Calls \ {c}, d \notin h_inside' PROVE Sees(d)'
  BY <1>3, <1>5 DEF View, Sees, Elapsed
<1>6. View'
  BY <1>5 DEF View
<1> QED
  BY <1>1, <1>2, <1>4, <1>6

(* A call that goes on without a copy preserves the invariant, unless it   *)
(* begins its function in an OPEN circuit.                                 *)
LEMMA GoingOn ==
    ASSUME NEW c \in Calls, NEW p \in Phases, IInv, GoesTo(c, p), hash' = hash,
           h_inside' = IF p = "idle" THEN h_inside \ {c} ELSE h_inside,
           phase[c] # "idle" \/ p = "idle" \/ c \notin h_inside,
           c \notin h_inside /\ p \in {"running", "failing", "succeeding"}
             => hash.state # "open"
    PROVE  IInv'
<1>1. Moved(c, p, "load", Fresh)
  BY DEF GoesTo, Moved
<1>2. phase'[c] = p /\ step'[c] = "load"
  BY <1>1 DEF Moved, IInv, TypeOK
<1>3. Ordered(c)'
  BY <1>2 DEF Ordered, Phases
<1>4. c \notin h_inside' => Sees(c)'
  BY <1>2 DEF Sees, Phases
<1> QED
  BY <1>1, <1>3, <1>4, Constants, Quiet DEF Steps

(* A call that has decided what to save preserves the invariant.           *)
LEMMA Deciding ==
    ASSUME NEW c \in Calls, NEW r \in States, IInv, Intends(c, r), HasTime(r),
           phase[c] \in {"entering", "failing", "succeeding"},
           phase[c] = "entering" => r.state = "half_open",
           c \notin h_inside /\ phase[c] = "entering" =>
             hash.state = "open" /\ Elapsed(c, hash),
           c \notin h_inside /\ phase[c] = "failing" =>
             r.state \in {"open", hash.state},
           c \notin h_inside /\ phase[c] = "succeeding" =>
             \/ r.state = hash.state
             \/ r.state = "closed" /\ hash.state = "half_open"
    PROVE  IInv'
<1>1. Moved(c, phase[c], "save", r)
  BY DEF Intends, Moved, IInv, TypeOK
<1>2. phase'[c] = phase[c] /\ step'[c] = "save" /\ copy'[c] = r
      /\ hash' = hash /\ h_inside' = h_inside
  BY DEF Intends, IInv, TypeOK
<1>3. Ordered(c)'
  BY <1>2 DEF Ordered
<1>4. c \notin h_inside => hash.state # "open" \/ phase[c] = "entering"
  BY DEF IInv, View, Sees
<1>5. c \notin h_inside' => Sees(c)'
  BY <1>2, <1>4 DEF Sees, Elapsed
<1> QED
  BY <1>1, <1>2, <1>3, <1>5, Quiet DEF Steps, Phases

(* A save that takes effect preserves the invariant: whoever was inside    *)
(* when it moved the circuit is in h_inside from then on.                  *)
LEMMA Writing ==
    ASSUME NEW c \in Calls, NEW p \in {"idle", "running"}, IInv, At(c, "save"),
           GoesTo(c, p), Writes(c), p = "running" => phase[c] = "entering"
    PROVE  IInv'
<1> DEFINE turns == copy[c].state # hash.state
                    \/ copy[c].openedAt # hash.openedAt
<1>1. /\ phase'[c] = p /\ step'[c] = "load" /\ copy'[c] = Fresh
      /\ hash' = copy[c] /\ copy[c] \in States
      /\ \A d \in Calls \ {c} : /\ phase'[d] = phase[d] /\ step'[d] = step[d]
                               /\ copy'[d] = copy[d]
  BY DEF GoesTo, Writes, IInv, TypeOK
<1>2. h_inside' = IF turns THEN {d \in Calls \ {c} : phase[d] # "idle"}
                  ELSE IF p = "idle" THEN h_inside \ {c} ELSE h_inside
  BY <1>1 DEF Writes
<1>3. TypeOK'
  BY <1>1, <1>2, Constants DEF GoesTo, IInv, TypeOK, Phases, At
<1>4. OpenedAtKnown'
  BY <1>1, Constants DEF OpenedAtKnown, IInv
<1>5. StepsInOrder'
  BY <1>1 DEF StepsInOrder, Ordered, IInv, Phases
<1>6. p = "running" => copy[c].state = "half_open"
  BY DEF IInv, StepsInOrder, Ordered, At
<1>7. Sees(c)'
  BY <1>1, <1>6 DEF Sees, Phases
<1>8. ASSUME NEW d \in Calls \ {c}, d \notin h_inside' PROVE Sees(d)'
  <2>1. CASE turns
    BY <1>1, <1>2, <1>8, <2>1 DEF Sees
  <2>2. CASE ~turns
    <3>1. hash'.state = hash.state /\ hash'.openedAt = hash.openedAt
      BY <1>1, <2>2
    <3>2. Elapsed(d, hash) <=> Elapsed(d, hash')
      BY <3>1 DEF Elapsed
    <3>3. Sees(d)
      BY <1>2, <1>8, <2>2 DEF IInv, View
    <3> QED
      BY <1>1, <3>1, <3>2, <3>3 DEF Sees, Elapsed
  <2> QED
    BY <2>1, <2>2
<1> QED
  BY <1>3, <1>4, <1>5, <1>7, <1>8 DEF IInv, View

-----------------------------------------------------------------------------
(* A breaker without a hash satisfies the invariant.                       *)
LEMMA InitIInv == Init => IInv
<1> SUFFICES ASSUME Init PROVE IInv
  OBVIOUS
<1>1. TypeOK /\ OpenedAtKnown
  BY Constants DEF Init, TypeOK, OpenedAtKnown
<1>2. StepsInOrder /\ View
  BY DEF Init, StepsInOrder, Ordered, View, Sees
<1> QED
  BY <1>1, <1>2 DEF IInv

(* The passing of time preserves the invariant: hash and copies age alike. *)
LEMMA TickIInv == IInv /\ Tick => IInv'
<1> SUFFICES ASSUME IInv, Tick PROVE IInv'
  OBVIOUS
<1>1. /\ hash \in States /\ hash' = Aged(hash)
      /\ \A c \in Calls : copy[c] \in States /\ copy'[c] = Aged(copy[c])
      /\ UNCHANGED <<phase, step, h_inside>>
  BY DEF IInv, TypeOK, Tick
<1>2. TypeOK' /\ OpenedAtKnown'
  BY <1>1, Ageing DEF IInv, TypeOK, OpenedAtKnown, Tick
<1>3. StepsInOrder'
  BY <1>1, Ageing DEF IInv, StepsInOrder, Ordered
<1>4. ASSUME NEW c \in Calls \ h_inside PROVE Sees(c)'
  <2>1. /\ hash'.state = hash.state /\ hash'.openedAt = Older(hash.openedAt)
        /\ Elapsed(c, hash) => Elapsed(c, hash')
    BY <1>1, Ageing
  <2>2. /\ copy'[c].state = copy[c].state
        /\ copy'[c].openedAt = Older(copy[c].openedAt)
    BY <1>1, Ageing
  <2>3. Sees(c)
    BY DEF IInv, View
  <2> QED
    BY <1>1, <2>1, <2>2, <2>3 DEF Sees, Elapsed
<1> QED
  BY <1>1, <1>2, <1>3, <1>4 DEF IInv, View

(* Every step of a call preserves the invariant.                           *)
LEMMA CallIInv == ASSUME NEW c \in Calls, IInv, Enter(c) \/ Step(c) PROVE IInv'
<1>1. /\ phase[c] \in Phases /\ copy[c] \in States /\ HasTime(copy[c])
      /\ hash \in States /\ HasTime(hash)
      /\ phase[c] = "idle" => c \notin h_inside
  BY DEF IInv, TypeOK, OpenedAtKnown, Phases
<1>2. c \notin h_inside => Sees(c)
  BY DEF IInv, View
<1>3. CASE Enter(c)
  BY <1>1, <1>3, GoingOn DEF Enter, Phases
<1>4. CASE Load(c)
  <2>1. Moved(c, phase[c], "decide", hash)
    BY <1>4 DEF Load, Moved, IInv, TypeOK
  <2>2. phase'[c] = phase[c] /\ step'[c] = "decide" /\ copy'[c] = hash
        /\ hash' = hash /\ h_inside' = h_inside
        /\ phase[c] \notin {"idle", "running"}
    BY <1>4 DEF Load, At, IInv, TypeOK
  <2>3. Ordered(c)' /\ (c \notin h_inside' => Sees(c)')
    BY <1>2, <2>2 DEF Ordered, Sees
  <2> QED
    BY <1>1, <2>1, <2>2, <2>3, Quiet DEF Steps
<1>5. CASE LoadFails(c) \/ Reject(c) \/ Escape(c)
  BY <1>5, GoingOn DEF LoadFails, Reject, Escape, Leaves, Phases
<1>6. CASE Admit(c)
  BY <1>2, <1>6, GoingOn DEF Admit, Sees, Phases
<1>7. CASE Return(c) \/ Raise(c)
  BY <1>2, <1>7, GoingOn DEF Return, Raise, Sees, Phases
<1>8. CASE Probe(c)
  <2> DEFINE r == Redis("half_open", 0, 0, copy[c].openedAt)
  <2>1. r \in States /\ HasTime(r) /\ r.state = "half_open"
    BY <1>1, <1>8, RedisAssumption DEF Probe, Redis, States, HasTime
  <2>2. c \notin h_inside => hash.state = "open" /\ Elapsed(c, hash)
    BY <1>2, <1>8 DEF Probe, Sees, Elapsed
  <2> QED
    BY <1>8, <2>1, <2>2, Deciding DEF Probe
<1>9. CASE CountFailure(c)
  BY <1>1, <1>2, <1>9, FailureResult, Deciding DEF CountFailure, Sees
<1>10. CASE CountSuccess(c)
  <2>1. c \notin h_inside => copy[c].state = hash.state /\ hash.state # "open"
    BY <1>2, <1>10 DEF CountSuccess, Sees
  <2>2. hash.state \in {"closed", "open", "half_open"}
    BY <1>1 DEF States
  <2> QED
    BY <1>1, <1>10, <2>1, <2>2, SuccessResult, Deciding DEF CountSuccess
<1>11. CASE Save(c)
  <2>1. CASE phase[c] = "entering"
    BY <1>11, <2>1, Writing DEF Save
  <2>2. CASE phase[c] # "entering"
    BY <1>11, <2>2, Writing DEF Save
  <2> QED
    BY <2>1, <2>2
<1>12. CASE SaveFails(c)
  <2>1. phase[c] # "idle"
    BY <1>12 DEF SaveFails, At
  <2>2. CASE Leaves(c)
    BY <2>1, <2>2, GoingOn DEF Leaves, Phases
  <2>3. CASE GoesTo(c, "idle") /\ Writes(c)
    BY <1>12, <2>3, Writing DEF SaveFails
  <2> QED
    BY <1>12, <2>2, <2>3 DEF SaveFails
<1> QED
  BY <1>3, <1>4, <1>5, <1>6, <1>7, <1>8, <1>9, <1>10, <1>11, <1>12
     DEF Step, BeforeCall, Ends

(* The inductive invariant holds in every reachable state.                 *)
THEOREM Inductive == Spec => []IInv
<1>1. IInv /\ [Next]_vars => IInv'
  <2> SUFFICES ASSUME IInv, [Next]_vars PROVE IInv'
    OBVIOUS
  <2>1. CASE UNCHANGED vars
    BY <2>1 DEF vars, IInv, TypeOK, OpenedAtKnown, StepsInOrder, Ordered,
                View, Sees, Elapsed
  <2>2. CASE Tick
    BY <2>2, TickIInv
  <2>3. CASE \E c \in Calls : Enter(c) \/ Step(c)
    BY <2>3, CallIInv
  <2> QED
    BY <2>1, <2>2, <2>3 DEF Next
<1> QED
  BY <1>1, InitIInv, PTL DEF Spec

(* Hash and copies keep their ranges: failure_count stays below the        *)
(* threshold however many saves overwrite one another.                     *)
THEOREM TypeCorrect == Spec => []TypeOK
BY Inductive, PTL DEF IInv

(* A circuit that is not CLOSED always says when it opened, so that the    *)
(* cooldown can elapse.                                                    *)
THEOREM AlwaysDated == Spec => []OpenedAtKnown
BY Inductive, PTL DEF IInv

(* A call that entered since the circuit last moved moves it only as the   *)
(* contract of a breaker allows.                                           *)
THEOREM NewcomersAreSound == Spec => NewcomersKeepContract
<1>1. ASSUME IInv, [Next]_vars, NEW c \in Calls \ h_inside, step[c] # step'[c]
      PROVE  LegalMove(c)
  <2>1. CASE hash'.state = hash.state
    BY <2>1 DEF LegalMove
  <2>2. CASE hash'.state # hash.state
    <3>1. PICK d \in Calls : Save(d) \/ SaveFails(d)
      <4>1. ~Tick
        BY <1>1, <2>2, Ageing DEF Tick, IInv, TypeOK
      <4>2. ~UNCHANGED vars
        BY <2>2 DEF vars
      <4>3. PICK d \in Calls : Enter(d) \/ Step(d)
        BY <1>1, <4>1, <4>2 DEF Next
      <4> QED
        BY <2>2, <4>3 DEF Enter, Step, Load, LoadFails, BeforeCall, Ends,
             Admit, Reject, Probe, Return, Raise, Escape, CountFailure,
             CountSuccess, Intends, Leaves
    <3>2. d = c
      BY <1>1, <3>1 DEF Save, SaveFails, Leaves, GoesTo, IInv, TypeOK
    <3>3. hash' = copy[c] /\ At(c, "save")
      BY <2>2, <3>1, <3>2 DEF Save, SaveFails, Leaves, Writes
    <3>4. Sees(c)
      BY <1>1 DEF IInv, View
    <3>5. phase[c] \in {"entering", "failing", "succeeding"}
      BY <1>1, <3>3 DEF At, IInv, TypeOK
    <3> QED
      BY <2>2, <3>3, <3>4, <3>5 DEF At, Sees, LegalMove
  <2> QED
    BY <2>1, <2>2
<1>2. IInv /\ [Next]_vars =>
        [\A c \in Calls \ h_inside : step[c] # step'[c] => LegalMove(c)]_vars
  BY <1>1
<1> QED
  BY <1>2, Inductive, PTL DEF Spec, NewcomersKeepContract
=============================================================================
