----------------------------- MODULE RollbackProofs -----------------------------
(***************************************************************************)
(* Theorems about Rollback, for any threads, runs and number of steps.     *)
(***************************************************************************)
EXTENDS Rollback, SequenceTheorems, TLAPS

Increasing(s) == \A i, j \in 1 .. Len(s) : i < j => s[i] < s[j]

(* The registry holds what is outstanding, in the order of registration.   *)
RegistryInv ==
    /\ h_cleared \subseteq 1 .. Len(h_run)
    /\ \A r \in Runs : /\ Increasing(registry[r])
                       /\ Entries(registry[r]) = Outstanding(r)

(* A rollback has called the last compensators of its list, in reverse,    *)
(* and the list is what was outstanding when it began.                     *)
ListInv(t) ==
    /\ Increasing(steps[t])
    /\ Entries(steps[t]) = h_due[t]
    /\ h_mark[t] <= Len(h_run)
    /\ \A s \in Outstanding(run[t]) : s <= h_mark[t] => s \in h_due[t]

LoopInv(t) ==
    /\ Len(h_tried[t]) <= Len(steps[t])
    /\ \A k \in 1 .. Len(h_tried[t]) :
          h_tried[t][k] = steps[t][Len(steps[t]) + 1 - k]
    /\ verdict[t] # "escaped" => Len(h_tried[t]) + left[t] = Len(steps[t])
    /\ pc[t] = "undoing" => verdict[t] = "none"
    /\ verdict[t] \in {"returned", "partial"} => left[t] = 0
    /\ verdict[t] = "returned" => failed[t] = <<>>
    /\ verdict[t] = "partial" => failed[t] # <<>>
    /\ Entries(failed[t]) = h_faulty[t]

IInv == TypeOK /\ RegistryInv /\ \A t \in Threads : ListInv(t) /\ LoopInv(t)

-----------------------------------------------------------------------------
(* Appending a larger number to an increasing sequence.                    *)
LEMMA AppendLarger ==
    ASSUME NEW s \in Seq(Steps), NEW e \in Steps
    PROVE  /\ Append(s, e) \in Seq(Steps) /\ Len(Append(s, e)) = Len(s) + 1
           /\ Entries(Append(s, e)) = Entries(s) \cup {e}
           /\ \A i \in 1 .. Len(s) : Append(s, e)[i] = s[i]
           /\ Append(s, e)[Len(s) + 1] = e
           /\ (Increasing(s) /\ \A x \in Entries(s) : x < e)
              => Increasing(Append(s, e))
<1>1. /\ Append(s, e) \in Seq(Steps) /\ Len(Append(s, e)) = Len(s) + 1
      /\ \A i \in 1 .. Len(s) : Append(s, e)[i] = s[i]
      /\ Append(s, e)[Len(s) + 1] = e
  BY AppendProperties
<1>2. Len(s) \in Nat
  BY LenProperties
<1>3. Entries(Append(s, e)) = Entries(s) \cup {e}
  <2>1. 1 .. Len(Append(s, e)) = (1 .. Len(s)) \cup {Len(s) + 1}
    BY <1>1, <1>2
  <2> QED
    BY <1>1, <1>2, <2>1 DEF Entries
<1>4. ASSUME Increasing(s), \A x \in Entries(s) : x < e,
             NEW i \in 1 .. Len(Append(s, e)), NEW j \in 1 .. Len(Append(s, e)), i < j
      PROVE  Append(s, e)[i] < Append(s, e)[j]
  <2>1. i \in 1 .. Len(s) /\ (j \in 1 .. Len(s) \/ j = Len(s) + 1)
    BY <1>1, <1>2, <1>4
  <2>2. s[i] \in Entries(s)
    BY <2>1 DEF Entries
  <2> QED
    BY <1>1, <1>4, <2>1, <2>2 DEF Increasing
<1> QED
  BY <1>1, <1>3, <1>4 DEF Increasing

(* The registry's part depends on nothing else.                            *)
LEMMA RegistryQuiet ==
    ASSUME RegistryInv, UNCHANGED registryVars PROVE RegistryInv'
BY DEF RegistryInv, registryVars, Increasing, Entries, Outstanding

(* Nothing of a rollback depends on what others do to the registry.        *)
LEMMA LoopQuiet ==
    ASSUME NEW t \in Threads, LoopInv(t),
           /\ pc'[t] = pc[t] /\ steps'[t] = steps[t] /\ left'[t] = left[t]
           /\ failed'[t] = failed[t] /\ verdict'[t] = verdict[t]
           /\ h_tried'[t] = h_tried[t] /\ h_faulty'[t] = h_faulty[t]
    PROVE  LoopInv(t)'
<1>1. Entries(failed[t])' = Entries(failed[t])
  BY DEF Entries
<1> QED
  BY <1>1 DEF LoopInv

-----------------------------------------------------------------------------
(* An empty registry satisfies the inductive invariant.                    *)
LEMMA InitIInv == Init => IInv
<1> SUFFICES ASSUME Init PROVE IInv
  OBVIOUS
<1> USE RollbackAssumption DEF Init
<1>1. <<>> \in Seq(Steps) /\ <<>> \in Seq(Runs) /\ Len(<<>>) = 0
  OBVIOUS
<1>2. TypeOK
  BY <1>1 DEF TypeOK, Verdicts
<1>3. RegistryInv
  BY <1>1 DEF RegistryInv, Increasing, Entries, Outstanding
<1>4. ASSUME NEW t \in Threads PROVE ListInv(t) /\ LoopInv(t)
  BY <1>1 DEF ListInv, LoopInv, Increasing, Entries, Outstanding
<1> QED
  BY <1>2, <1>3, <1>4 DEF IInv

(* A new step is outstanding, and comes last.                              *)
LEMMA RegisterIInv == ASSUME NEW r \in Runs, IInv, Register(r) PROVE IInv'
<1> USE RollbackAssumption DEF IInv
<1> DEFINE n == Len(h_run)
<1>1. /\ n < MaxSteps /\ n \in Nat /\ n + 1 \in Steps /\ h_run \in Seq(Runs)
      /\ registry[r] \in Seq(Steps)
  BY LenProperties DEF Register, TypeOK, Steps
<1>2. /\ registry' = [registry EXCEPT ![r] = Append(registry[r], n + 1)]
      /\ h_run' = Append(h_run, r)
      /\ UNCHANGED <<rollbackVars, h_cleared>>
  BY DEF Register
<1>3. /\ h_run' \in Seq(Runs) /\ Len(h_run') = n + 1
      /\ \A i \in 1 .. n : h_run'[i] = h_run[i]
      /\ h_run'[n + 1] = r
  BY <1>1, <1>2, AppendProperties
<1> HIDE DEF n
<1>4. /\ Append(registry[r], n + 1) \in Seq(Steps)
      /\ Entries(Append(registry[r], n + 1)) = Entries(registry[r]) \cup {n + 1}
      /\ Increasing(Append(registry[r], n + 1))
  <2>1. \A x \in Entries(registry[r]) : x < n + 1
    BY SMTT(30), <1>1 DEF RegistryInv, Outstanding, n
  <2>2. Increasing(registry[r])
    BY DEF RegistryInv
  <2> QED
    BY <1>1, <2>1, <2>2, AppendLarger
<1>5. TypeOK'
  BY <1>1, <1>2, <1>3, <1>4 DEF TypeOK, rollbackVars
<1>6. n + 1 \notin h_cleared
  BY <1>1 DEF RegistryInv, n
<1>7. \A q \in Runs : Outstanding(q)' = Outstanding(q)
                        \cup (IF q = r THEN {n + 1} ELSE {})
  <2>1. 1 .. n + 1 = (1 .. n) \cup {n + 1}
    BY <1>1
  <2> QED
    BY <1>1, <1>2, <1>3, <1>6, <2>1 DEF Outstanding, n
<1>8. RegistryInv'
  <2>1. \A q \in Runs : q # r => registry'[q] = registry[q]
    BY <1>2 DEF TypeOK
  <2>2. registry'[r] = Append(registry[r], n + 1)
    BY <1>2 DEF TypeOK
  <2>3. h_cleared' \subseteq 1 .. Len(h_run')
    BY <1>1, <1>2, <1>3 DEF RegistryInv, n
  <2>4. ASSUME NEW q \in Runs
        PROVE  Increasing(registry'[q]) /\ Entries(registry'[q]) = Outstanding(q)'
    BY <1>4, <1>7, <2>1, <2>2 DEF RegistryInv
  <2> QED
    BY <2>3, <2>4 DEF RegistryInv, Increasing, Entries
<1>9. ASSUME NEW t \in Threads PROVE ListInv(t)' /\ LoopInv(t)'
  <2>1. h_mark[t] <= n /\ h_mark[t] \in Nat /\ run[t] \in Runs
    BY DEF ListInv, TypeOK, n
  <2>2. \A s \in Outstanding(run[t])' : s <= h_mark[t] => s \in h_due[t]
    <3>1. PICK q \in Runs : run[t] = q /\ run'[t] = q
      BY <1>2, <2>1 DEF rollbackVars
    <3>2. Outstanding(run[t])' = Outstanding(q)'
      BY <3>1 DEF Outstanding
    <3>3. Outstanding(q)' \subseteq Outstanding(run[t]) \cup {n + 1}
      BY <1>7, <3>1
    <3> QED
      BY <1>1, <2>1, <3>2, <3>3 DEF ListInv
  <2>3. Increasing(steps'[t]) /\ Entries(steps'[t]) = h_due'[t]
    BY <1>2 DEF ListInv, rollbackVars
  <2>4. h_mark'[t] <= Len(h_run') /\ h_mark'[t] = h_mark[t] /\ h_due'[t] = h_due[t]
    BY <1>1, <1>2, <1>3, <2>1 DEF rollbackVars, n
  <2>5. ListInv(t)'
    BY <2>2, <2>3, <2>4 DEF ListInv, Increasing, Entries
  <2> QED
    BY <1>2, <2>5, LoopQuiet DEF rollbackVars
<1> QED
  BY <1>5, <1>8, <1>9

(* Clearing a run leaves nothing of it outstanding.                        *)
LEMMA ClearIInv == ASSUME NEW r \in Runs, IInv, Clear(r) PROVE IInv'
<1> USE RollbackAssumption DEF IInv
<1>1. /\ registry' = [registry EXCEPT ![r] = <<>>]
      /\ h_cleared' = h_cleared \cup Outstanding(r)
      /\ UNCHANGED <<rollbackVars, h_run>>
  BY DEF Clear, RegistryInv
<1>2. <<>> \in Seq(Steps) /\ Len(<<>>) = 0 /\ Outstanding(r) \subseteq 1 .. Len(h_run)
  BY DEF Outstanding
<1>3. 1 .. Len(h_run) \subseteq Steps
  BY LenProperties DEF TypeOK, Steps
<1>4. TypeOK'
  BY <1>1, <1>2, <1>3 DEF TypeOK, rollbackVars
<1>5. /\ Outstanding(r)' = {}
      /\ \A q \in Runs \ {r} : Outstanding(q)' = Outstanding(q)
  BY <1>1 DEF Outstanding
<1>6. RegistryInv'
  <2>1. \A q \in Runs : registry'[q] = IF q = r THEN <<>> ELSE registry[q]
    BY <1>1 DEF TypeOK
  <2>2. Increasing(<<>>) /\ Entries(<<>>) = {}
    BY <1>2 DEF Increasing, Entries
  <2>3. \A q \in Runs : Increasing(registry'[q]) /\ Entries(registry'[q]) = Outstanding(q)'
    BY <1>5, <2>1, <2>2 DEF RegistryInv
  <2> QED
    BY <1>1, <1>2, <2>3 DEF RegistryInv, Increasing, Entries
<1>7. ASSUME NEW t \in Threads PROVE ListInv(t)' /\ LoopInv(t)'
  <2>1. Outstanding(run[t])' \subseteq Outstanding(run[t])
    BY <1>1 DEF Outstanding, rollbackVars
  <2>2. ListInv(t)'
    BY <1>1, <2>1 DEF ListInv, rollbackVars, Increasing, Entries
  <2> QED
    BY <1>1, <2>2, LoopQuiet DEF rollbackVars
<1> QED
  BY <1>4, <1>6, <1>7

-----------------------------------------------------------------------------
(* Steps of t's rollback that leave the registry and the list alone.       *)
LEMMA RollbackStep ==
    ASSUME NEW t \in Threads, IInv, UNCHANGED registryVars, TypeOK', LoopInv(t)',
           UNCHANGED <<run, steps, h_due, h_mark>>,
           \A u \in Threads \ {t} :
              /\ pc'[u] = pc[u] /\ left'[u] = left[u] /\ failed'[u] = failed[u]
              /\ verdict'[u] = verdict[u] /\ h_tried'[u] = h_tried[u]
              /\ h_faulty'[u] = h_faulty[u]
    PROVE  IInv'
<1>1. RegistryInv'
  BY DEF IInv, RegistryInv, registryVars, Increasing, Entries, Outstanding
<1>2. ASSUME NEW u \in Threads PROVE ListInv(u)'
  BY DEF IInv, ListInv, registryVars, Increasing, Entries, Outstanding
<1>3. ASSUME NEW u \in Threads \ {t} PROVE LoopInv(u)'
  BY LoopQuiet DEF IInv
<1> QED
  BY <1>1, <1>2, <1>3 DEF IInv

(* A rollback begins with all that is outstanding in its run.              *)
LEMMA CompensateIInv ==
    ASSUME NEW t \in Threads, NEW r \in Runs, IInv, Compensate(t, r) PROVE IInv'
<1> USE RollbackAssumption DEF IInv
<1>1. registry[r] \in Seq(Steps) /\ Len(registry[r]) \in Nat /\ Len(h_run) \in Nat
  BY LenProperties DEF TypeOK
<1>2. Outstanding(r) \subseteq 1 .. Len(h_run) /\ Outstanding(r) \subseteq Steps
  BY <1>1 DEF Outstanding, TypeOK, Steps
<1>3. <<>> \in Seq(Steps) /\ Len(<<>>) = 0
  OBVIOUS
<1>4. /\ pc' = [pc EXCEPT ![t] = "undoing"]
      /\ run' = [run EXCEPT ![t] = r]
      /\ steps' = [steps EXCEPT ![t] = registry[r]]
      /\ left' = [left EXCEPT ![t] = Len(registry[r])]
      /\ failed' = [failed EXCEPT ![t] = <<>>]
      /\ verdict' = [verdict EXCEPT ![t] = "none"]
      /\ h_due' = [h_due EXCEPT ![t] = Outstanding(r)]
      /\ h_tried' = [h_tried EXCEPT ![t] = <<>>]
      /\ h_faulty' = [h_faulty EXCEPT ![t] = {}]
      /\ h_mark' = [h_mark EXCEPT ![t] = Len(h_run)]
      /\ UNCHANGED registryVars
  BY DEF Compensate, Copied
<1>5. TypeOK'
  BY <1>1, <1>2, <1>3, <1>4 DEF TypeOK, Verdicts, registryVars
<1>6. RegistryInv'
  BY <1>4, RegistryQuiet
<1>7. ListInv(t)' /\ LoopInv(t)'
  <2>1. /\ pc'[t] = "undoing" /\ run'[t] = r /\ steps'[t] = registry[r]
        /\ left'[t] = Len(registry[r]) /\ failed'[t] = <<>> /\ verdict'[t] = "none"
        /\ h_due'[t] = Outstanding(r) /\ h_tried'[t] = <<>> /\ h_faulty'[t] = {}
        /\ h_mark'[t] = Len(h_run)
    BY <1>4 DEF TypeOK
  <2>2. Outstanding(r)' = Outstanding(r) /\ h_run' = h_run
    BY <1>4 DEF Outstanding, registryVars
  <2>3. Increasing(registry[r]) /\ Entries(registry[r]) = Outstanding(r)
    BY DEF RegistryInv
  <2>4. ListInv(t)'
    BY <1>1, <2>1, <2>2, <2>3 DEF ListInv, Increasing, Entries
  <2>5. LoopInv(t)'
    BY <1>1, <1>3, <2>1 DEF LoopInv, Entries
  <2> QED
    BY <2>4, <2>5
<1>8. ASSUME NEW u \in Threads \ {t} PROVE ListInv(u)' /\ LoopInv(u)'
  <2>1. /\ pc'[u] = pc[u] /\ run'[u] = run[u] /\ steps'[u] = steps[u]
        /\ left'[u] = left[u] /\ failed'[u] = failed[u] /\ verdict'[u] = verdict[u]
        /\ h_due'[u] = h_due[u] /\ h_tried'[u] = h_tried[u]
        /\ h_faulty'[u] = h_faulty[u] /\ h_mark'[u] = h_mark[u]
    BY <1>4 DEF TypeOK
  <2>2. Outstanding(run[u])' = Outstanding(run[u]) /\ h_run' = h_run
    BY <1>4, <2>1 DEF Outstanding, registryVars
  <2>3. ListInv(u)'
    BY <2>1, <2>2 DEF ListInv, Increasing, Entries
  <2>4. LoopInv(u)'
    BY <2>1, LoopQuiet
  <2> QED
    BY <2>3, <2>4
<1> QED
  BY <1>5, <1>6, <1>7, <1>8

(* What calling the next compensator does to the list of those called.     *)
LEMMA TryNext ==
    ASSUME NEW t \in Threads, IInv, Trying(t)
    PROVE  /\ Current(t) \in Steps /\ left[t] \in Nat /\ left[t] > 0
           /\ Len(h_tried[t]) \in Nat /\ Len(steps[t]) \in Nat
           /\ Len(h_tried[t]) + left[t] = Len(steps[t]) /\ verdict[t] = "none"
           /\ h_tried' \in [Threads -> Seq(Steps)]
           /\ Len(h_tried'[t]) = Len(h_tried[t]) + 1
           /\ \A k \in 1 .. Len(h_tried[t]) + 1 :
                 h_tried'[t][k] = steps[t][Len(steps[t]) + 1 - k]
           /\ \A u \in Threads \ {t} : h_tried'[u] = h_tried[u]
<1> USE DEF IInv
<1>1. /\ pc[t] = "undoing" /\ left[t] > 0 /\ left[t] \in Nat
      /\ h_tried' = [h_tried EXCEPT ![t] = Append(h_tried[t], Current(t))]
  BY DEF Trying, TypeOK
<1>2. /\ steps[t] \in Seq(Steps) /\ h_tried[t] \in Seq(Steps)
      /\ Len(steps[t]) \in Nat /\ Len(h_tried[t]) \in Nat
  BY LenProperties DEF TypeOK
<1>3. verdict[t] = "none" /\ Len(h_tried[t]) + left[t] = Len(steps[t])
  BY <1>1 DEF LoopInv
<1>4. left[t] \in 1 .. Len(steps[t])
  BY <1>1, <1>2, <1>3
<1>5. Current(t) \in Steps
  BY <1>2, <1>4, ElementOfSeq DEF Current
<1>6. /\ Append(h_tried[t], Current(t)) \in Seq(Steps)
      /\ Len(Append(h_tried[t], Current(t))) = Len(h_tried[t]) + 1
      /\ \A i \in 1 .. Len(h_tried[t]) : Append(h_tried[t], Current(t))[i] = h_tried[t][i]
      /\ Append(h_tried[t], Current(t))[Len(h_tried[t]) + 1] = Current(t)
  BY <1>2, <1>5, AppendLarger
<1>7. /\ h_tried'[t] = Append(h_tried[t], Current(t))
      /\ h_tried' \in [Threads -> Seq(Steps)]
      /\ \A u \in Threads \ {t} : h_tried'[u] = h_tried[u]
  BY <1>1, <1>6 DEF TypeOK
<1>8. ASSUME NEW k \in 1 .. Len(h_tried[t]) + 1
      PROVE  h_tried'[t][k] = steps[t][Len(steps[t]) + 1 - k]
  <2>1. CASE k \in 1 .. Len(h_tried[t])
    BY <1>6, <1>7, <2>1 DEF LoopInv
  <2>2. CASE k = Len(h_tried[t]) + 1
    <3>1. Len(steps[t]) + 1 - k = left[t]
      <4> DEFINE L == Len(steps[t])
                 T == Len(h_tried[t])
      <4>1. L \in Nat /\ T \in Nat /\ left[t] \in Nat /\ T + left[t] = L /\ k = T + 1
        BY <1>1, <1>2, <1>3, <2>2
      <4> HIDE DEF L, T
      <4>2. L + 1 - k = left[t]
        BY <4>1
      <4> QED
        BY <4>2 DEF L
    <3> QED
      BY <1>6, <1>7, <2>2, <3>1 DEF Current
  <2> QED
    BY <1>2, <2>1, <2>2
<1> QED
  BY <1>1, <1>2, <1>3, <1>5, <1>6, <1>7, <1>8

(* A compensator succeeds.                                                 *)
LEMMA UndoIInv == ASSUME NEW t \in Threads, IInv, Undo(t) PROVE IInv'
<1>1. /\ left' = [left EXCEPT ![t] = left[t] - 1]
      /\ UNCHANGED <<registryVars, pc, run, steps, failed, verdict, h_due, h_faulty,
                     h_mark>>
      /\ Trying(t)
  BY DEF Undo
<1>2. /\ left[t] \in Nat /\ left[t] > 0
      /\ Len(h_tried[t]) \in Nat /\ Len(steps[t]) \in Nat
      /\ Len(h_tried[t]) + left[t] = Len(steps[t]) /\ verdict[t] = "none"
      /\ h_tried' \in [Threads -> Seq(Steps)]
      /\ Len(h_tried'[t]) = Len(h_tried[t]) + 1
      /\ \A k \in 1 .. Len(h_tried[t]) + 1 :
            h_tried'[t][k] = steps[t][Len(steps[t]) + 1 - k]
      /\ \A u \in Threads \ {t} : h_tried'[u] = h_tried[u]
  BY <1>1, TryNext
<1>3. /\ left'[t] = left[t] - 1 /\ left' \in [Threads -> Nat]
      /\ \A u \in Threads \ {t} : left'[u] = left[u]
  BY <1>1, <1>2 DEF IInv, TypeOK
<1>4. TypeOK'
  <2>1. ASSUME NEW u \in Threads PROVE Len(failed'[u]) + left'[u] <= Len(steps'[u])
    <3>1. failed[u] \in Seq(Steps) /\ Len(failed[u]) \in Nat /\ left[u] \in Nat
      BY LenProperties DEF IInv, TypeOK
    <3>2. Len(failed[u]) + left[u] <= Len(steps[u]) /\ Len(steps[u]) \in Nat
      BY LenProperties DEF IInv, TypeOK
    <3> QED
      BY SMTT(30), <1>1, <1>2, <1>3, <3>1, <3>2
  <2> QED
    BY <1>1, <1>2, <1>3, <2>1 DEF IInv, TypeOK, registryVars
<1>5. LoopInv(t)'
  BY <1>1, <1>2, <1>3 DEF IInv, LoopInv, Entries
<1> QED
  BY <1>1, <1>2, <1>3, <1>4, <1>5, RollbackStep

(* A compensator fails, and is noted.                                      *)
LEMMA FailIInv == ASSUME NEW t \in Threads, IInv, FailToUndo(t) PROVE IInv'
<1>1. /\ left' = [left EXCEPT ![t] = left[t] - 1]
      /\ failed' = [failed EXCEPT ![t] = Append(failed[t], Current(t))]
      /\ h_faulty' = [h_faulty EXCEPT ![t] = h_faulty[t] \cup {Current(t)}]
      /\ UNCHANGED <<registryVars, pc, run, steps, verdict, h_due, h_mark>>
      /\ Trying(t)
  BY DEF FailToUndo
<1>2. /\ Current(t) \in Steps /\ left[t] \in Nat /\ left[t] > 0
      /\ Len(h_tried[t]) \in Nat /\ Len(steps[t]) \in Nat
      /\ Len(h_tried[t]) + left[t] = Len(steps[t]) /\ verdict[t] = "none"
      /\ h_tried' \in [Threads -> Seq(Steps)]
      /\ Len(h_tried'[t]) = Len(h_tried[t]) + 1
      /\ \A k \in 1 .. Len(h_tried[t]) + 1 :
            h_tried'[t][k] = steps[t][Len(steps[t]) + 1 - k]
      /\ \A u \in Threads \ {t} : h_tried'[u] = h_tried[u]
  BY <1>1, TryNext
<1>3. /\ left'[t] = left[t] - 1 /\ left' \in [Threads -> Nat]
      /\ \A u \in Threads \ {t} : left'[u] = left[u]
  BY <1>1, <1>2 DEF IInv, TypeOK
<1>4. failed[t] \in Seq(Steps)
  BY DEF IInv, TypeOK
<1>5. /\ Append(failed[t], Current(t)) \in Seq(Steps)
      /\ Len(Append(failed[t], Current(t))) = Len(failed[t]) + 1
      /\ Entries(Append(failed[t], Current(t))) = Entries(failed[t]) \cup {Current(t)}
  BY <1>2, <1>4, AppendLarger
<1>6. /\ failed'[t] = Append(failed[t], Current(t))
      /\ failed' \in [Threads -> Seq(Steps)]
      /\ h_faulty'[t] = h_faulty[t] \cup {Current(t)}
      /\ h_faulty' \in [Threads -> SUBSET Steps]
      /\ \A u \in Threads \ {t} : failed'[u] = failed[u] /\ h_faulty'[u] = h_faulty[u]
  BY <1>1, <1>2, <1>5 DEF IInv, TypeOK
<1>7. TypeOK'
  <2>1. ASSUME NEW u \in Threads PROVE Len(failed'[u]) + left'[u] <= Len(steps'[u])
    <3>1. failed[u] \in Seq(Steps) /\ Len(failed[u]) \in Nat /\ left[u] \in Nat
      BY LenProperties DEF IInv, TypeOK
    <3>2. Len(failed[u]) + left[u] <= Len(steps[u]) /\ Len(steps[u]) \in Nat
      BY LenProperties DEF IInv, TypeOK
    <3> QED
      BY SMTT(30), <1>1, <1>2, <1>3, <1>5, <1>6, <3>1, <3>2
  <2> QED
    BY <1>1, <1>2, <1>3, <1>6, <2>1 DEF IInv, TypeOK, registryVars
<1>8. LoopInv(t)'
  BY <1>1, <1>2, <1>3, <1>5, <1>6 DEF IInv, LoopInv, Entries
<1> QED
  BY <1>1, <1>2, <1>3, <1>6, <1>7, <1>8, RollbackStep

(* A compensator's BaseException ends the rollback.                        *)
LEMMA EscapeIInv == ASSUME NEW t \in Threads, IInv, Escape(t) PROVE IInv'
<1>1. /\ pc' = [pc EXCEPT ![t] = "idle"]
      /\ verdict' = [verdict EXCEPT ![t] = "escaped"]
      /\ UNCHANGED <<registryVars, run, steps, left, failed, h_due, h_faulty, h_mark>>
      /\ Trying(t)
  BY DEF Escape
<1>2. /\ left[t] \in Nat /\ left[t] > 0
      /\ Len(h_tried[t]) \in Nat /\ Len(steps[t]) \in Nat
      /\ Len(h_tried[t]) + left[t] = Len(steps[t])
      /\ h_tried' \in [Threads -> Seq(Steps)]
      /\ Len(h_tried'[t]) = Len(h_tried[t]) + 1
      /\ \A k \in 1 .. Len(h_tried[t]) + 1 :
            h_tried'[t][k] = steps[t][Len(steps[t]) + 1 - k]
      /\ \A u \in Threads \ {t} : h_tried'[u] = h_tried[u]
  BY <1>1, TryNext
<1>3. /\ pc'[t] = "idle" /\ verdict'[t] = "escaped"
      /\ \A u \in Threads \ {t} : pc'[u] = pc[u] /\ verdict'[u] = verdict[u]
  BY <1>1 DEF IInv, TypeOK
<1>4. TypeOK'
  BY <1>1, <1>2 DEF IInv, TypeOK, Verdicts, registryVars
<1>5. LoopInv(t)'
  BY <1>1, <1>2, <1>3 DEF IInv, LoopInv, Entries
<1> QED
  BY <1>1, <1>2, <1>3, <1>4, <1>5, RollbackStep

(* The loop ends.                                                          *)
LEMMA FinishIInv == ASSUME NEW t \in Threads, IInv, Finish(t) PROVE IInv'
<1>1. /\ pc[t] = "undoing" /\ left[t] = 0
      /\ pc' = [pc EXCEPT ![t] = "idle"]
      /\ verdict' = [verdict EXCEPT ![t] =
                        IF failed[t] # <<>> THEN "partial" ELSE "returned"]
      /\ UNCHANGED <<registryVars, run, steps, left, failed, h_due, h_tried, h_faulty,
                     h_mark>>
  BY DEF Finish
<1>2. /\ pc'[t] = "idle"
      /\ verdict'[t] = IF failed[t] # <<>> THEN "partial" ELSE "returned"
      /\ \A u \in Threads \ {t} : pc'[u] = pc[u] /\ verdict'[u] = verdict[u]
  BY <1>1 DEF IInv, TypeOK
<1>3. TypeOK'
  BY <1>1 DEF IInv, TypeOK, Verdicts, registryVars
<1>4. LoopInv(t)'
  BY SMTT(30), <1>1, <1>2 DEF IInv, LoopInv, Entries
<1> QED
  BY <1>1, <1>2, <1>3, <1>4, RollbackStep

(* Every step keeps the inductive invariant.                               *)
LEMMA NextIInv == IInv /\ [Next]_vars => IInv'
<1> SUFFICES ASSUME IInv, [Next]_vars PROVE IInv'
  OBVIOUS
<1>1. ASSUME NEW r \in Runs, Register(r) \/ Clear(r) PROVE IInv'
  BY <1>1, RegisterIInv, ClearIInv
<1>2. ASSUME NEW t \in Threads, NEW r \in Runs, Compensate(t, r) PROVE IInv'
  BY <1>2, CompensateIInv
<1>3. ASSUME NEW t \in Threads, GoOn(t) PROVE IInv'
  BY <1>3, UndoIInv, FailIInv, EscapeIInv, FinishIInv DEF GoOn
<1>4. CASE UNCHANGED vars
  <2>1. UNCHANGED <<registry, h_run, h_cleared, pc, run, steps, left, failed, verdict,
                    h_due, h_tried, h_faulty, h_mark>>
    BY <1>4 DEF vars, registryVars, rollbackVars
  <2>2. TypeOK' /\ RegistryInv'
    BY <2>1, RegistryQuiet DEF IInv, TypeOK, registryVars
  <2>3. ASSUME NEW t \in Threads PROVE ListInv(t)' /\ LoopInv(t)'
    BY <2>1, LoopQuiet DEF IInv, ListInv, Increasing, Entries, Outstanding
  <2> QED
    BY <2>2, <2>3 DEF IInv
<1> QED
  BY <1>1, <1>2, <1>3, <1>4 DEF Next

-----------------------------------------------------------------------------
(* The inductive invariant holds in every reachable state.                 *)
THEOREM InductiveInvariant == Spec => []IInv
<1>1. Init => IInv
  BY InitIInv
<1>2. IInv /\ [Next]_vars => IInv'
  BY NextIInv
<1> QED
  BY <1>1, <1>2, PTL DEF Spec

(* The registry and its rollbacks are type-correct.                        *)
THEOREM TypeCorrect == Spec => []TypeOK
<1>1. IInv => TypeOK
  BY DEF IInv
<1> QED
  BY <1>1, InductiveInvariant, PTL

(* Compensators are called in the reverse order of registration.           *)
THEOREM ReverseOrder == Spec => []UndoneInReverse
<1>1. IInv => UndoneInReverse
  <2> SUFFICES ASSUME IInv, NEW t \in Threads,
                      NEW i \in 1 .. Len(h_tried[t]), NEW j \in 1 .. Len(h_tried[t]),
                      i < j
               PROVE  h_tried[t][i] > h_tried[t][j]
    BY DEF UndoneInReverse
  <2> DEFINE L == Len(steps[t])
  <2>1. L \in Nat /\ Len(h_tried[t]) \in Nat /\ Len(h_tried[t]) <= L
    BY LenProperties DEF IInv, TypeOK, LoopInv
  <2>2. h_tried[t][i] = steps[t][L + 1 - i] /\ h_tried[t][j] = steps[t][L + 1 - j]
    BY DEF IInv, LoopInv
  <2>3. L + 1 - i \in 1 .. L /\ L + 1 - j \in 1 .. L /\ L + 1 - j < L + 1 - i
    BY <2>1
  <2>4. steps[t][L + 1 - j] < steps[t][L + 1 - i]
    BY <2>3 DEF IInv, ListInv, Increasing
  <2>5. steps[t][L + 1 - j] \in Nat /\ steps[t][L + 1 - i] \in Nat
    <3>1. steps[t] \in Seq(Steps)
      BY DEF IInv, TypeOK
    <3>2. \A k \in 1 .. L : steps[t][k] \in Steps
      BY <3>1, ElementOfSeq
    <3>3. \A x \in Steps : x \in Nat
      BY RollbackAssumption DEF Steps
    <3> QED
      BY <2>3, <3>2, <3>3
  <2> QED
    BY <2>2, <2>4, <2>5
<1> QED
  BY <1>1, InductiveInvariant, PTL

(* A finished rollback has tried what was outstanding when it began.       *)
LEMMA AllTried ==
    ASSUME IInv, NEW t \in Threads, verdict[t] \in {"returned", "partial"}
    PROVE  Entries(h_tried[t]) = h_due[t]
<1> DEFINE L == Len(steps[t])
<1>1. L \in Nat /\ Len(h_tried[t]) = L
  BY LenProperties DEF IInv, TypeOK, LoopInv
<1>2. \A k \in 1 .. L : h_tried[t][k] = steps[t][L + 1 - k]
  BY <1>1 DEF IInv, LoopInv
<1>3. Entries(h_tried[t]) \subseteq Entries(steps[t])
  <2>1. \A k \in 1 .. L : L + 1 - k \in 1 .. L
    BY <1>1
  <2> QED
    BY ZenonT(40), <1>1, <1>2, <2>1 DEF Entries
<1>4. ASSUME NEW i \in 1 .. L PROVE steps[t][i] \in Entries(h_tried[t])
  <2>1. L + 1 - i \in 1 .. L /\ h_tried[t][L + 1 - i] = steps[t][L + 1 - (L + 1 - i)]
    BY <1>1, <1>2
  <2>2. L + 1 - (L + 1 - i) = i
    BY <1>1
  <2> QED
    BY <1>1, <2>1, <2>2 DEF Entries
<1>5. Entries(steps[t]) \subseteq Entries(h_tried[t])
  BY <1>4 DEF Entries
<1> QED
  BY <1>3, <1>5 DEF IInv, ListInv

(* A rollback tries all that was outstanding, whatever fails, and reports  *)
(* exactly what failed.                                                    *)
THEOREM ExactOutcome == Spec => []OutcomeIsExact
<1>1. IInv => OutcomeIsExact
  <2> SUFFICES ASSUME IInv, NEW t \in Threads,
                      verdict[t] \in {"returned", "partial"}
               PROVE  /\ Entries(h_tried[t]) = h_due[t]
                      /\ Entries(failed[t]) = h_faulty[t]
                      /\ verdict[t] = "partial" <=> h_faulty[t] # {}
    BY DEF OutcomeIsExact
  <2>1. Entries(failed[t]) = h_faulty[t]
    BY DEF IInv, LoopInv
  <2>2. failed[t] \in Seq(Steps)
    BY DEF IInv, TypeOK
  <2>3. failed[t] = <<>> <=> Entries(failed[t]) = {}
    <3>1. Len(failed[t]) \in Nat /\ (failed[t] = <<>> <=> Len(failed[t]) = 0)
      BY <2>2, EmptySeq, LenProperties
    <3>2. Len(failed[t]) # 0 => Entries(failed[t]) # {}
      <4>1. Len(failed[t]) # 0 => 1 \in 1 .. Len(failed[t])
        BY <3>1
      <4> QED
        BY <4>1 DEF Entries
    <3>3. Len(failed[t]) = 0 => Entries(failed[t]) = {}
      BY DEF Entries
    <3> QED
      BY <3>1, <3>2, <3>3
  <2> QED
    BY <2>1, <2>3, AllTried DEF IInv, LoopInv
<1> QED
  BY <1>1, InductiveInvariant, PTL

(* Clearing after a rollback that returned forgets, without having undone  *)
(* them, only steps registered after the rollback began.                   *)
THEOREM OnlyLateStepsForgotten == Spec => ForgetsOnlyLateSteps
<1>1. ASSUME IInv, NEW t \in Threads, verdict[t] = "returned",
             NEW s \in Entries(registry[run[t]])
      PROVE  s \in Entries(h_tried[t]) \ h_faulty[t] \/ s > h_mark[t]
  <2>1. run[t] \in Runs /\ h_mark[t] \in Nat
    BY <1>1 DEF IInv, TypeOK
  <2>2. s \in Outstanding(run[t]) /\ s \in Nat
    BY <1>1, <2>1 DEF IInv, RegistryInv, Outstanding
  <2>3. s <= h_mark[t] => s \in h_due[t]
    BY <1>1, <2>2 DEF IInv, ListInv
  <2>4. h_due[t] = Entries(h_tried[t])
    BY <1>1, AllTried
  <2>5. h_faulty[t] = {}
    BY <1>1 DEF IInv, LoopInv, Entries
  <2> QED
    BY <2>1, <2>2, <2>3, <2>4, <2>5
<1>2. IInv /\ [Next]_vars =>
      [\A t \in Threads :
          verdict[t] = "returned" /\ pc[t] = "idle" /\ Clear(run[t])
          => \A s \in Entries(registry[run[t]]) :
                s \in Entries(h_tried[t]) \ h_faulty[t] \/ s > h_mark[t]]_vars
  BY <1>1
<1> QED
  BY <1>2, InductiveInvariant, PTL DEF Spec, ForgetsOnlyLateSteps
=============================================================================
