--------------------------- MODULE TokenBudgetProofs ---------------------------
(***************************************************************************)
(* Theorems about TokenBudget, for any number of workers, any ceilings and *)
(* any requests.                                                           *)
(***************************************************************************)
EXTENDS TokenBudget, TLAPS

(* Rounding moves a cost by half a micro-USD at most.                      *)
LEMMA Rounding ==
    ASSUME NEW p \in Nat
    PROVE  /\ RoundToMicros(p) \in Nat
           /\ 2 * (p - Scale * RoundToMicros(p)) <= Scale
           /\ 2 * (Scale * RoundToMicros(p) - p) <= Scale
<1> DEFINE q == p \div Scale
           e == p % Scale
<1>1. /\ Scale \in Nat /\ Scale > 0
      /\ q \in Nat /\ e \in Nat /\ e < Scale
  BY TokenAssumption
<1>2. p = Scale * q + e
  BY TokenAssumption
<1>3. Scale * (q + 1) = Scale * q + Scale
  BY <1>1
<1>4. Scale * q \in Nat
  BY <1>1
<1> HIDE DEF q, e
<1>5. CASE RoundToMicros(p) = q
  <2>1. 2 * e <= Scale
    BY <1>1, <1>3, <1>5 DEF RoundToMicros, q, e
  <2> QED
    BY <1>1, <1>2, <1>4, <1>5, <2>1
<1>6. CASE RoundToMicros(p) = q + 1
  <2>1. 2 * e >= Scale
    BY <1>1, <1>6 DEF RoundToMicros, q, e
  <2> QED
    BY <1>1, <1>2, <1>3, <1>4, <1>6, <2>1
<1> QED
  BY <1>5, <1>6 DEF RoundToMicros, q, e

(* Whatever is asked for is an amount of every resource.                   *)
LEMMA RequestType == Requests \cup {Nothing} \subseteq [Resources -> Nat]
<1>1. ASSUME NEW c \in Chunks PROVE ChunkRequest(c) \in [Resources -> Nat]
  <2>1. c.tokens \in Nat /\ c.parts \in Nat
    BY TokenAssumption
  <2>2. RoundToMicros(c.parts) \in Nat
    BY <2>1, Rounding
  <2> QED
    BY <2>1, <2>2 DEF ChunkRequest, Resources
<1> QED
  BY <1>1, TokenAssumption DEF Requests, Nothing, Resources

-----------------------------------------------------------------------------
(* Only the holder of the lock is inside the body of a charge.             *)
Exclusion == \A w \in Workers : pc[w] # "idle" => lock = w

(* The counters a request is still to be added to.                         *)
Left(p) == CASE p = "input" -> Resources
             [] p = "output" -> {"output", "cost"}
             [] p = "cost" -> {"cost"}
             [] OTHER -> {}

(* What the check found keeps holding for those counters: nobody else adds *)
(* to them while the lock is held.                                         *)
Promise ==
    \A w \in Workers : \A r \in Left(pc[w]) \cap DOMAIN Ceiling :
        used[r] + need[w][r] <= Ceiling[r]

(* A worker in the body makes a request, for a chunk of its rounded cost.  *)
ChunkNeed ==
    \A w \in Workers :
        pc[w] # "idle"
        => /\ need[w] \in Requests
           /\ chunk[w] # -1 => need[w]["cost"] = RoundToMicros(chunk[w])

IInv == /\ TypeOK /\ WithinCeilings /\ CostDrift
        /\ Exclusion /\ Promise /\ ChunkNeed

(* A new watchdog satisfies the inductive invariant.                       *)
LEMMA InitIInv == Init => IInv
BY TokenAssumption
   DEF Init, IInv, TypeOK, WithinCeilings, CostDrift, Exclusion, Promise,
       ChunkNeed, Left, Nothing, Resources

(* Taking the lock preserves the invariant: only its holder is under way.  *)
LEMMA AcquireIInv ==
    ASSUME NEW w \in Workers, NEW request \in Requests,
           NEW parts \in Nat \cup {-1}, IInv, Acquire(w, request, parts),
           parts # -1 => request["cost"] = RoundToMicros(parts)
    PROVE  IInv'
<1> USE TokenAssumption DEF IInv
<1>1. \A v \in Workers : pc[v] = "idle"
  BY DEF Acquire, LockIsFree, Exclusion
<1>2. TypeOK'
  BY DEF Acquire, TypeOK
<1>3. WithinCeilings' /\ CostDrift'
  BY DEF Acquire, WithinCeilings, CostDrift
<1>4. Exclusion' /\ Promise'
  BY <1>1 DEF Acquire, TypeOK, Exclusion, Promise, Left
<1>5. ChunkNeed'
  BY <1>1 DEF Acquire, TypeOK, ChunkNeed
<1> QED
  BY <1>2, <1>3, <1>4, <1>5

(* A refusal preserves the invariant: nothing was charged.                 *)
LEMMA RefuseIInv == ASSUME NEW w \in Workers, IInv, Refuse(w) PROVE IInv'
BY TokenAssumption
   DEF IInv, Refuse, Release, TypeOK, WithinCeilings, CostDrift, Exclusion,
       Promise, ChunkNeed, Left

(* Passing the three checks establishes that the request still fits.       *)
LEMMA ApproveIInv == ASSUME NEW w \in Workers, IInv, Approve(w) PROVE IInv'
<1> USE TokenAssumption DEF IInv
<1>1. TypeOK' /\ WithinCeilings' /\ CostDrift' /\ Exclusion' /\ ChunkNeed'
  BY DEF Approve, TypeOK, WithinCeilings, CostDrift, Exclusion, ChunkNeed,
         Resources
<1>2. ASSUME NEW v \in Workers, NEW r \in Left(pc'[v]) \cap DOMAIN Ceiling
      PROVE  used'[r] + need'[v][r] <= Ceiling[r]
  <2>1. used' = used /\ need' = need /\ r \in Resources
    BY <1>2 DEF Approve
  <2>2. used[r] \in Nat /\ need[v][r] \in Nat /\ Ceiling[r] \in Nat
    BY <2>1, RequestType DEF TypeOK
  <2>3. CASE v = w
    BY <1>2, <2>1, <2>2, <2>3 DEF Approve, Exceeds
  <2>4. CASE v # w
    BY <1>2, <2>1, <2>4 DEF Approve, TypeOK, Promise
  <2> QED
    BY <2>3, <2>4
<1>3. Promise'
  BY <1>2 DEF Promise
<1> QED
  BY <1>1, <1>3

(* Adding to the counter r of the holder keeps every ceiling, and the      *)
(* promise for the counters left.                                          *)
LEMMA AddCeilings ==
    ASSUME NEW w \in Workers, NEW r \in Resources, IInv,
           r \in Left(pc[w]), Add(w, r), pc[w] # "idle"
    PROVE  /\ used' \in [Resources -> Nat]
           /\ used'[r] = used[r] + need[w][r]
           /\ \A q \in Resources \ {r} : used'[q] = used[q]
           /\ WithinCeilings'
<1> USE TokenAssumption DEF IInv
<1>1. need[w] \in [Resources -> Nat]
  BY RequestType DEF TypeOK
<1>2. /\ used' \in [Resources -> Nat]
      /\ used'[r] = used[r] + need[w][r]
      /\ \A q \in Resources \ {r} : used'[q] = used[q]
  BY <1>1 DEF Add, TypeOK
<1>3. r \in DOMAIN Ceiling => used[r] + need[w][r] <= Ceiling[r]
  BY DEF Promise
<1>4. WithinCeilings'
  BY <1>2, <1>3 DEF WithinCeilings
<1> QED
  BY <1>2, <1>4

(* Adding to a token counter preserves the invariant: what is left of the  *)
(* request still fits the counters it has not reached.                     *)
LEMMA ChargeTokensIInv ==
    ASSUME NEW w \in Workers, IInv, ChargeTokens(w) PROVE IInv'
<1> USE TokenAssumption DEF IInv
<1>1. \A v \in Workers \ {w} : pc[v] = "idle" /\ pc'[v] = "idle"
  BY DEF ChargeTokens, Exclusion, TypeOK, Resources
<1>2. UNCHANGED <<lock, need, chunk, seen, h_parts, h_chunks>>
  BY DEF ChargeTokens
<1>3. PICK r \in {"input", "output"} :
        /\ pc[w] = r /\ Add(w, r)
        /\ pc' = [pc EXCEPT ![w] = IF r = "input" THEN "output" ELSE "cost"]
  BY DEF ChargeTokens
<1>4. /\ used' \in [Resources -> Nat]
      /\ \A q \in Resources \ {r} : used'[q] = used[q]
      /\ WithinCeilings'
  BY <1>3, AddCeilings DEF Left, Resources
<1>5. TypeOK' /\ Exclusion' /\ ChunkNeed'
  BY <1>2, <1>3, <1>4 DEF TypeOK, Exclusion, ChunkNeed, Resources
<1>6. CostDrift'
  BY <1>2, <1>3, <1>4 DEF CostDrift, Resources
<1>7. Left(pc'[w]) \subseteq Left(pc[w]) \ {r}
  BY <1>3 DEF TypeOK, Left, Resources
<1>8. Promise'
  <2>1. ASSUME NEW v \in Workers, NEW q \in Left(pc'[v]) \cap DOMAIN Ceiling
        PROVE  used'[q] + need'[v][q] <= Ceiling[q]
    <3>1. v = w
      BY <1>1, <2>1 DEF Left
    <3>2. q \in Left(pc[w]) /\ q # r /\ q \in Resources
      BY <1>7, <2>1, <3>1
    <3>3. used'[q] = used[q]
      BY <1>4, <3>2
    <3> QED
      BY <1>2, <2>1, <3>1, <3>2, <3>3 DEF Promise
  <2> QED
    BY <2>1 DEF Promise
<1> QED
  BY <1>4, <1>5, <1>6, <1>8

(* Adding to the cost counter and releasing the lock preserves it; a chunk *)
(* moves the ledger away from the true cost by half a unit at most.        *)
LEMMA ChargeCostIInv ==
    ASSUME NEW w \in Workers, IInv, ChargeCost(w) PROVE IInv'
<1> USE TokenAssumption DEF IInv
<1>1. \A v \in Workers : pc'[v] = "idle"
  BY DEF ChargeCost, Exclusion, TypeOK
<1>2. /\ used' \in [Resources -> Nat]
      /\ used'["cost"] = used["cost"] + need[w]["cost"]
      /\ WithinCeilings'
  BY AddCeilings DEF ChargeCost, Left, Resources
<1>3. /\ need[w]["cost"] \in Nat /\ used["cost"] \in Nat
      /\ h_parts \in Nat /\ h_chunks \in Nat /\ Scale \in Nat
  BY RequestType DEF TypeOK, Resources
<1>4. Scale * (used["cost"] + need[w]["cost"])
      = Scale * used["cost"] + Scale * need[w]["cost"]
  BY <1>3
<1>5. /\ Scale * used["cost"] \in Nat /\ Scale * need[w]["cost"] \in Nat
      /\ Scale * h_chunks \in Nat
      /\ Scale * (h_chunks + 1) = Scale * h_chunks + Scale
  BY <1>3
<1>6. h_parts' \in Nat /\ h_chunks' \in Nat /\ CostDrift'
  <2>1. CASE chunk[w] = -1
    <3>1. h_parts' = h_parts + Scale * need[w]["cost"] /\ h_chunks' = h_chunks
      BY <2>1 DEF ChargeCost
    <3> QED
      BY <1>2, <1>3, <1>4, <1>5, <3>1 DEF CostDrift
  <2>2. CASE chunk[w] # -1
    <3>1. chunk[w] \in Nat /\ need[w]["cost"] = RoundToMicros(chunk[w])
      BY <2>2 DEF ChargeCost, ChunkNeed, TypeOK
    <3>2. /\ 2 * (chunk[w] - Scale * need[w]["cost"]) <= Scale
          /\ 2 * (Scale * need[w]["cost"] - chunk[w]) <= Scale
      BY <3>1, Rounding
    <3>3. h_parts' = h_parts + chunk[w] /\ h_chunks' = h_chunks + 1
      BY <2>2 DEF ChargeCost
    <3> QED
      BY <1>2, <1>3, <1>4, <1>5, <3>1, <3>2, <3>3 DEF CostDrift
  <2> QED
    BY <2>1, <2>2
<1>7. TypeOK'
  BY <1>2, <1>6 DEF ChargeCost, Release, TypeOK
<1>8. Exclusion' /\ Promise' /\ ChunkNeed'
  BY <1>1 DEF Exclusion, Promise, ChunkNeed, Left
<1> QED
  BY <1>2, <1>6, <1>7, <1>8

(* A snapshot preserves the invariant: it only reads.                      *)
LEMMA SnapshotIInv == ASSUME NEW w \in Workers, IInv, Snapshot(w) PROVE IInv'
BY DEF Snapshot, IInv, TypeOK, WithinCeilings, CostDrift, Exclusion, Promise,
       ChunkNeed

(* Every step preserves the inductive invariant.                           *)
LEMMA NextIInv == IInv /\ [Next]_vars => IInv'
<1> SUFFICES ASSUME IInv, [Next]_vars PROVE IInv'
  OBVIOUS
<1>1. CASE UNCHANGED vars
  BY <1>1 DEF vars, IInv, TypeOK, WithinCeilings, CostDrift, Exclusion,
              Promise, ChunkNeed
<1>2. ASSUME NEW w \in Workers, Reserve(w) PROVE IInv'
  BY <1>2, AcquireIInv DEF Reserve, Requests
<1>3. ASSUME NEW w \in Workers, RecordChunk(w) PROVE IInv'
  <2>1. PICK c \in Chunks : Acquire(w, ChunkRequest(c), c.parts)
    BY <1>3 DEF RecordChunk
  <2>2. ChunkRequest(c) \in Requests /\ c.parts \in Nat
    BY TokenAssumption DEF Requests
  <2>3. ChunkRequest(c)["cost"] = RoundToMicros(c.parts)
    BY DEF ChunkRequest, Resources
  <2> QED
    BY <2>1, <2>2, <2>3, AcquireIInv
<1>4. ASSUME NEW w \in Workers,
             \/ Refuse(w) \/ Approve(w) \/ ChargeTokens(w) \/ ChargeCost(w)
             \/ Snapshot(w)
      PROVE  IInv'
  BY <1>4, RefuseIInv, ApproveIInv, ChargeTokensIInv, ChargeCostIInv,
     SnapshotIInv
<1> QED
  BY <1>1, <1>2, <1>3, <1>4 DEF Next

(* The inductive invariant holds in every reachable state.                 *)
THEOREM InductiveInvariant == Spec => []IInv
BY InitIInv, NextIInv, PTL DEF Spec

-----------------------------------------------------------------------------
(* The counters, the lock and the requests have the types the code gives   *)
(* them.                                                                   *)
THEOREM TypeCorrect == Spec => []TypeOK
BY InductiveInvariant, PTL DEF IInv

(* No interleaving of reservations and streamed chunks overspends.         *)
THEOREM NoOverspend == Spec => []WithinCeilings
BY InductiveInvariant, PTL DEF IInv

(* The integer ledger drifts from the true cost by half a micro-USD for    *)
(* each streamed chunk at most.                                            *)
THEOREM DriftBounded == Spec => []CostDrift
BY InductiveInvariant, PTL DEF IInv

-----------------------------------------------------------------------------
(* Each step is a step of the bank or changes nothing it can see.          *)
LEMMA StepRefines ==
    ASSUME IInv, [Next]_vars PROVE [Bank!Next]_(Bank!bankVars)
<1> USE TokenAssumption DEF IInv, Bank!bankVars
<1>1. CASE UNCHANGED vars
  BY <1>1 DEF vars, Committed
<1>2. ASSUME NEW w \in Workers,
             (\E request \in Requests, parts \in Nat \cup {-1} :
                  Acquire(w, request, parts))
             \/ Refuse(w) \/ Approve(w)
      PROVE  UNCHANGED Bank!bankVars
  <2>1. /\ used' = used /\ seen' = seen
        /\ lock \in Workers => Charged(pc[lock]) = {}
        /\ lock' \in Workers => Charged(pc'[lock']) = {}
    BY <1>2 DEF Acquire, LockIsFree, Refuse, Release, Approve, TypeOK,
                Exclusion, Charged
  <2> QED
    BY <2>1 DEF Committed
<1>3. ASSUME NEW w \in Workers, ChargeTokens(w)
      PROVE  UNCHANGED Bank!bankVars
  <2>1. lock = w /\ lock' = w /\ need' = need /\ seen' = seen
    BY <1>3 DEF ChargeTokens, Exclusion
  <2>2. need[w] \in [Resources -> Nat] /\ used \in [Resources -> Nat]
    BY RequestType DEF TypeOK
  <2>3. PICK r \in {"input", "output"} :
          /\ pc[w] = r /\ used' = [used EXCEPT ![r] = @ + need[w][r]]
          /\ pc'[w] = IF r = "input" THEN "output" ELSE "cost"
    BY <1>3 DEF ChargeTokens, Add, TypeOK
  <2>4. Charged(pc'[w]) = Charged(pc[w]) \cup {r} /\ r \notin Charged(pc[w])
    BY <2>3 DEF Charged
  <2>5. ASSUME NEW q \in Resources
        PROVE  (IF q \in Charged(pc'[w]) THEN used'[q] - need[w][q] ELSE used'[q])
               = (IF q \in Charged(pc[w]) THEN used[q] - need[w][q] ELSE used[q])
    BY <2>2, <2>3, <2>4, <2>5 DEF Resources
  <2>6. Committed' = Committed
    BY <2>1, <2>5 DEF Committed
  <2> QED
    BY <2>1, <2>6
<1>4. ASSUME NEW w \in Workers, ChargeCost(w)
      PROVE  Bank!Grant(need[w]) /\ need[w] \in Requests
  <2>1. /\ lock = w /\ pc[w] = "cost" /\ lock' = NoWorker /\ seen' = seen
        /\ need[w] \in Requests
    BY <1>4 DEF ChargeCost, Release, Exclusion, ChunkNeed
  <2>2. need[w] \in [Resources -> Nat] /\ used \in [Resources -> Nat]
    BY RequestType DEF TypeOK
  <2>3. used' = [used EXCEPT !["cost"] = @ + need[w]["cost"]]
    BY <1>4 DEF ChargeCost, Add
  <2>4. Committed' = [r \in Resources |-> used'[r]]
    BY <2>1 DEF Committed
  <2>5. /\ Committed["cost"] = used["cost"]
        /\ Committed["input"] = used["input"] - need[w]["input"]
        /\ Committed["output"] = used["output"] - need[w]["output"]
    BY <2>1 DEF Committed, Charged, Resources
  <2>6. \A r \in Resources : used'[r] = Committed[r] + need[w][r]
    BY <2>2, <2>3, <2>5 DEF Resources
  <2>7. Committed' = [r \in Resources |-> Committed[r] + need[w][r]]
    BY <2>4, <2>6
  <2>8. WithinCeilings'
    BY <1>4, ChargeCostIInv
  <2>9. Bank!Fits(need[w])
    BY <2>6, <2>8 DEF Bank!Fits, WithinCeilings
  <2> QED
    BY <2>1, <2>7, <2>9 DEF Bank!Grant
<1>5. ASSUME NEW w \in Workers, Snapshot(w) PROVE Bank!Report
  <2>1. Committed = used
    BY <1>5 DEF Snapshot, LockIsFree, Committed, TypeOK
  <2>2. Committed' = Committed
    BY <1>5 DEF Snapshot, Committed
  <2> QED
    BY <1>5, <2>1, <2>2 DEF Snapshot, Bank!Report
<1>6. ASSUME NEW w \in Workers, Reserve(w) \/ RecordChunk(w)
      PROVE  \E request \in Requests, parts \in Nat \cup {-1} :
                 Acquire(w, request, parts)
  BY <1>6 DEF Reserve, RecordChunk, Requests
<1> QED
  BY <1>1, <1>2, <1>3, <1>4, <1>5, <1>6 DEF Next, Bank!Next

(* The watchdog implements the bank: a request is granted whole and in one *)
(* step, within the ceilings, and a snapshot never shows half of one.      *)
THEOREM ImplementsBank == Spec => ImplementsTokenBank
<1>1. Init => Bank!Init
  BY TokenAssumption DEF Init, Bank!Init, Committed, Nothing, Bank!Nothing
<1>2. IInv /\ [Next]_vars => [Bank!Next]_(Bank!bankVars)
  BY StepRefines
<1> QED
  BY <1>1, <1>2, InductiveInvariant, PTL
     DEF Spec, ImplementsTokenBank, Bank!Spec
=============================================================================
