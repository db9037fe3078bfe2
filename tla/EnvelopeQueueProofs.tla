-------------------------- MODULE EnvelopeQueueProofs --------------------------
(***************************************************************************)
(* Theorems about EnvelopeQueue, for any number of threads, any limit and  *)
(* both kinds of queue.                                                    *)
(***************************************************************************)
EXTENDS EnvelopeQueue, SequenceTheorems, FiniteSetTheorems, TLAPS

(* Five sets share out the first n envelopes.                              *)
Shared(n, H, Q, D, X, R) ==
    /\ 1 .. n = H \cup Q \cup D \cup X \cup R
    /\ H \cap Q = {} /\ H \cap D = {} /\ H \cap X = {} /\ H \cap R = {}
    /\ Q \cap D = {} /\ Q \cap X = {} /\ Q \cap R = {}
    /\ D \cap X = {} /\ D \cap R = {} /\ X \cap R = {}

(* EnvelopesAccountedFor with the quantification over places written out.  *)
Written ==
    /\ Shared(h_published, {arg[t] : t \in Publishing}, Entries(items),
              h_drained, h_dropped, h_refused)
    /\ \A i, j \in 1 .. Len(items) : items[i] = items[j] => i = j
    /\ IF dropOldest THEN counter = Cardinality(h_dropped) /\ h_refused = {}
                     ELSE counter = Cardinality(h_refused)

(* The two say the same.                                                   *)
LEMMA PlacesShared ==
    ASSUME NEW n, NEW H, NEW Q, NEW D, NEW X, NEW R, NEW P,
           P = [hand |-> H, queued |-> Q, drained |-> D, dropped |-> X,
                refused |-> R]
    PROVE  Shared(n, H, Q, D, X, R)
           <=> /\ 1 .. n = UNION {P[p] : p \in DOMAIN P}
               /\ \A p, q \in DOMAIN P : p # q => P[p] \cap P[q] = {}
<1> DEFINE names == {"hand", "queued", "drained", "dropped", "refused"}
<1>1. /\ DOMAIN P = names
      /\ P["hand"] = H /\ P["queued"] = Q /\ P["drained"] = D
      /\ P["dropped"] = X /\ P["refused"] = R
  OBVIOUS
<1> HIDE DEF names
<1>2. UNION {P[p] : p \in names} = H \cup Q \cup D \cup X \cup R
  <2>1. \A p \in names : p = "hand" \/ p = "queued" \/ p = "drained"
                         \/ p = "dropped" \/ p = "refused"
    BY DEF names
  <2>2. {"hand", "queued", "drained", "dropped", "refused"} \subseteq names
    BY DEF names
  <2> QED
    BY <1>1, <2>1, <2>2
<1>3. (\A p, q \in names : p # q => P[p] \cap P[q] = {})
      <=> /\ H \cap Q = {} /\ H \cap D = {} /\ H \cap X = {} /\ H \cap R = {}
          /\ Q \cap D = {} /\ Q \cap X = {} /\ Q \cap R = {}
          /\ D \cap X = {} /\ D \cap R = {} /\ X \cap R = {}
  BY <1>1 DEF names
<1> QED
  BY <1>1, <1>2, <1>3 DEF Shared

(* So EnvelopesAccountedFor is Written, now and after a step.              *)
LEMMA AccountedIsWritten ==
    /\ EnvelopesAccountedFor <=> Written
    /\ EnvelopesAccountedFor' <=> Written'
<1> DEFINE H == {arg[t] : t \in Publishing}
<1>1. Place = [hand |-> H, queued |-> Entries(items), drained |-> h_drained,
               dropped |-> h_dropped, refused |-> h_refused]
  BY DEF Place
<1>2. Place' = [hand |-> H', queued |-> Entries(items)', drained |-> h_drained',
                dropped |-> h_dropped', refused |-> h_refused']
  BY DEF Place
<1> HIDE DEF H
<1>3. Shared(h_published, H, Entries(items), h_drained, h_dropped, h_refused)
      <=> /\ 1 .. h_published = UNION {Place[p] : p \in DOMAIN Place}
          /\ \A p, q \in DOMAIN Place : p # q => Place[p] \cap Place[q] = {}
  BY <1>1, PlacesShared
<1>4. Shared(h_published', H', Entries(items)', h_drained', h_dropped', h_refused')
      <=> /\ 1 .. h_published' = UNION {Place'[p] : p \in DOMAIN Place'}
          /\ \A p, q \in DOMAIN Place' : p # q => Place'[p] \cap Place'[q] = {}
  BY <1>2, PlacesShared
<1> QED
  BY <1>3, <1>4 DEF EnvelopesAccountedFor, Written, Shared, H

-----------------------------------------------------------------------------
(* What a step does to a list without duplicates.                          *)
LEMMA PopEntry ==
    ASSUME NEW s \in Seq(Envelopes), s # <<>>,
           \A i, j \in 1 .. Len(s) : s[i] = s[j] => i = j
    PROVE  /\ Tail(s) \in Seq(Envelopes) /\ Len(Tail(s)) = Len(s) - 1
           /\ Head(s) \in Entries(s)
           /\ Entries(Tail(s)) = Entries(s) \ {Head(s)}
           /\ \A i, j \in 1 .. Len(Tail(s)) : Tail(s)[i] = Tail(s)[j] => i = j
           /\ s = <<Head(s)>> \o Tail(s)
<1>1. /\ Tail(s) \in Seq(Envelopes) /\ Len(Tail(s)) = Len(s) - 1
      /\ \A i \in 1 .. Len(Tail(s)) : Tail(s)[i] = s[i + 1]
      /\ Head(s) \in Envelopes
  BY HeadTailProperties
<1>2. Len(s) \in Nat /\ Len(s) > 0 /\ Head(s) = s[1]
  BY EmptySeq, LenProperties
<1>3. Head(s) \in Entries(s)
  BY <1>2 DEF Entries
<1>4. Entries(Tail(s)) \subseteq Entries(s) \ {Head(s)}
  BY <1>1, <1>2 DEF Entries
<1>5. ASSUME NEW e \in Entries(s) \ {Head(s)} PROVE e \in Entries(Tail(s))
  <2>1. PICK i \in 1 .. Len(s) : e = s[i]
    BY DEF Entries
  <2>2. i - 1 \in 1 .. Len(Tail(s)) /\ Tail(s)[i - 1] = e
    BY <1>1, <1>2, <1>5, <2>1
  <2> QED
    BY <2>2 DEF Entries
<1>6. \A i, j \in 1 .. Len(Tail(s)) : Tail(s)[i] = Tail(s)[j] => i = j
  BY <1>1, <1>2
<1>7. s = <<Head(s)>> \o Tail(s)
  <2>1. <<Head(s)>> \in Seq(Envelopes) /\ Len(<<Head(s)>>) = 1
    BY <1>1
  <2>2. /\ <<Head(s)>> \o Tail(s) \in Seq(Envelopes)
        /\ Len(<<Head(s)>> \o Tail(s)) = Len(s)
        /\ \A i \in 1 .. Len(s) : (<<Head(s)>> \o Tail(s))[i] =
               IF i <= 1 THEN <<Head(s)>>[i] ELSE Tail(s)[i - 1]
    BY <1>1, <1>2, <2>1, ConcatProperties
  <2>3. \A i \in 1 .. Len(s) : s[i] = (<<Head(s)>> \o Tail(s))[i]
    BY <1>1, <1>2, <2>2
  <2> QED
    BY <2>2, <2>3, SeqEqual
<1> QED
  BY <1>1, <1>3, <1>4, <1>5, <1>6, <1>7

(* Appending an envelope that is not in the list.                          *)
LEMMA StoreEntry ==
    ASSUME NEW s \in Seq(Envelopes), NEW e \in Envelopes
    PROVE  /\ Append(s, e) \in Seq(Envelopes) /\ Len(Append(s, e)) = Len(s) + 1
           /\ Entries(Append(s, e)) = Entries(s) \cup {e}
           /\ (/\ e \notin Entries(s)
               /\ \A i, j \in 1 .. Len(s) : s[i] = s[j] => i = j)
              => \A i, j \in 1 .. Len(Append(s, e)) :
                     Append(s, e)[i] = Append(s, e)[j] => i = j
<1>1. /\ Append(s, e) \in Seq(Envelopes) /\ Len(Append(s, e)) = Len(s) + 1
      /\ \A i \in 1 .. Len(s) : Append(s, e)[i] = s[i]
      /\ Append(s, e)[Len(s) + 1] = e
  BY AppendProperties
<1>2. Len(s) \in Nat
  BY LenProperties
<1>3. Entries(Append(s, e)) = Entries(s) \cup {e}
  <2>1. 1 .. Len(Append(s, e)) = (1 .. Len(s)) \cup {Len(s) + 1}
    BY <1>1, <1>2
  <2> QED
    BY <1>1, <1>2, <2>1 DEF Entries
<1>4. ASSUME e \notin Entries(s),
             \A i, j \in 1 .. Len(s) : s[i] = s[j] => i = j,
             NEW i \in 1 .. Len(Append(s, e)), NEW j \in 1 .. Len(Append(s, e)),
             Append(s, e)[i] = Append(s, e)[j]
      PROVE  i = j
  <2>1. \A k \in 1 .. Len(s) : s[k] # e
    BY <1>4 DEF Entries
  <2> QED
    BY <1>1, <1>2, <1>4, <2>1
<1> QED
  BY <1>1, <1>3, <1>4

-----------------------------------------------------------------------------
(* Who may be where: only the holder of the lock is inside, and inside it  *)
(* knows what it has seen.                                                 *)
Locking ==
    /\ \A t \in Threads : pc[t] \in Inside => holder = t
    /\ \A t \in Threads : pc[t] = "idle" <=> op[t] = "none"
    /\ \A t \in Threads :
          op[t] = "publish" => t \in Publishers /\ arg[t] \in 1 .. h_published
    /\ \A t, u \in Publishing : arg[t] = arg[u] => t = u

(* What a thread inside may rely on, as only it can change the queue.      *)
Seen ==
    /\ \A t \in Threads :
          pc[t] = "room" => /\ op[t] = "publish" /\ dropOldest
                            /\ Len(items) = MaxSize - 1
                            /\ Len(copy[t]) = 1
    /\ \A t \in Threads :
          pc[t] = "copied" => op[t] = "drain" /\ copy[t] = items

IInv == TypeOK /\ Locking /\ Seen /\ Written

(* A new queue satisfies the inductive invariant.                          *)
LEMMA InitIInv == Init => IInv
<1> SUFFICES ASSUME Init PROVE IInv
  OBVIOUS
<1>1. TypeOK
  <2>1. <<>> \in Seq(Envelopes) /\ Len(<<>>) = 0
    BY EmptySeq
  <2>2. [t \in Threads |-> <<>>] \in [Threads -> Seq(Envelopes)]
    BY <2>1
  <2>3. 0 \in 0 .. MaxEnvelopes /\ 0 <= MaxSize
    BY QueueAssumption
  <2> QED
    BY <2>1, <2>2, <2>3 DEF Init, TypeOK
<1>2. Locking /\ Seen
  BY QueueAssumption DEF Init, Locking, Seen, Inside, Publishing, Threads
<1>3. Shared(h_published, {arg[t] : t \in Publishing}, Entries(items),
             h_drained, h_dropped, h_refused)
  <2>1. Entries(items) = {} /\ {arg[t] : t \in Publishing} = {}
    BY DEF Init, Entries, Publishing, Threads
  <2>2. 1 .. 0 = {}
    OBVIOUS
  <2> QED
    BY <2>1, <2>2 DEF Init, Shared
<1>4. Written
  BY <1>3, FS_EmptySet DEF Init, Written
<1> QED
  BY <1>1, <1>2, <1>4 DEF IInv

-----------------------------------------------------------------------------
(* Steps that leave the queue, the envelopes under way and what has become *)
(* of the others alone.                                                    *)
LEMMA QuietWritten ==
    ASSUME IInv,
           UNCHANGED <<dropOldest, queueVars, history>>,
           {arg'[t] : t \in Publishing'} = {arg[t] : t \in Publishing}
    PROVE  Written'
<1>1. Entries(items)' = Entries(items)
  BY DEF Entries, queueVars
<1> QED
  BY <1>1 DEF IInv, Written, queueVars, history

(* A new publish takes the next envelope in hand.                          *)
LEMMA CallPublishIInv ==
    ASSUME NEW t \in Threads, IInv, CallPublish(t) PROVE IInv'
<1> USE QueueAssumption DEF IInv
<1> DEFINE H == {arg[u] : u \in Publishing}
           n == h_published
<1>1. TypeOK'
  BY DEF CallPublish, Goto, TypeOK, Envelopes, Threads, Inside,
         queueVars
<1>2. Publishing' = Publishing \cup {t} /\ t \notin Publishing
  BY DEF CallPublish, Publishing, Threads, TypeOK, Locking
<1>3. H' = H \cup {n + 1} /\ n \in Nat /\ n + 1 \notin 1 .. n
  BY <1>2 DEF CallPublish, Publishing, TypeOK, Threads
<1>4. Locking'
  <2>1. \A u, v \in Publishing' : arg'[u] = arg'[v] => u = v
    BY <1>2, <1>3 DEF CallPublish, Publishing, TypeOK, Locking, Threads
  <2> QED
    BY <2>1 DEF CallPublish, Goto, TypeOK, Locking, Threads, Inside,
         queueVars
<1>5. Seen'
  BY DEF CallPublish, Goto, TypeOK, Seen, Threads, queueVars
<1>6. 1 .. n + 1 = (1 .. n) \cup {n + 1}
  BY <1>3
<1>7. Shared(n + 1, H \cup {n + 1}, Entries(items), h_drained, h_dropped, h_refused)
  BY <1>3, <1>6 DEF Written, Shared
<1>8. /\ UNCHANGED <<dropOldest, items, counter, h_drained, h_dropped,
                     h_refused>>
      /\ h_published' = n + 1
  BY DEF CallPublish, queueVars
<1>9. Entries(items)' = Entries(items)
  BY <1>8 DEF Entries
<1> HIDE DEF H
<1>10. Shared(h_published, H, Entries(items), h_drained, h_dropped, h_refused)'
  BY <1>3, <1>7, <1>8, <1>9 DEF Shared
<1>11. Written'
  BY <1>8, <1>10 DEF Written, H
<1> QED
  BY <1>1, <1>4, <1>5, <1>11

(* Steps towards the lock: calls of readers, and acquiring it.             *)
LEMMA ApproachIInv ==
    ASSUME NEW t \in Threads, IInv,
           (\E o \in {"drain", "peek"} : CallRead(t, o)) \/ Acquire(t)
    PROVE  IInv'
<1> USE QueueAssumption DEF IInv
<1>1. UNCHANGED <<dropOldest, queueVars, history, arg, copy, answer>>
  BY DEF CallRead, Acquire
<1>2. Publishing' = Publishing
  BY DEF CallRead, Acquire, Publishing, TypeOK, Threads,
         Locking
<1>3. TypeOK'
  BY ZenonT(40), <1>1 DEF CallRead, Acquire, Goto, TypeOK,
              Inside, queueVars, history
<1>4. Locking'
  <2> USE <1>1, <1>2 DEF Goto, TypeOK, Locking, Inside, Threads, history
  <2>1. ASSUME NEW o \in {"drain", "peek"}, CallRead(t, o) PROVE Locking'
    BY <2>1 DEF CallRead
  <2>2. CASE Acquire(t)
    BY <2>2 DEF Acquire, LockIsFree
  <2> QED
    BY <2>1, <2>2
<1>5. Seen'
  BY <1>1 DEF CallRead, Acquire, Goto, TypeOK, Seen,
              Threads, queueVars
<1>6. Written'
  BY <1>1, <1>2, QuietWritten
<1> QED
  BY <1>3, <1>4, <1>5, <1>6

-----------------------------------------------------------------------------
(* Leaving the lock: t's local variables are gone.  What remains to be     *)
(* shown is what happened to the queue.                                    *)
LEMMA LeaveLocking ==
    ASSUME NEW t \in Threads, IInv, pc[t] \in Inside, Release(t),
           h_published' = h_published
    PROVE  /\ Locking'
           /\ Publishing' = Publishing \ {t}
           /\ \A u \in Threads : pc'[u] \notin Inside
           /\ holder' \in Threads \cup {None} /\ pc' \in [Threads -> {"idle", "calling"} \cup Inside]
           /\ op' \in [Threads -> {"none", "publish", "drain", "peek"}]
           /\ arg' \in [Threads -> Envelopes \cup {0}]
           /\ copy' \in [Threads -> Seq(Envelopes)]
<1> USE QueueAssumption DEF IInv
<1>1. \A u \in Threads : u # t => pc[u] \notin Inside
  BY DEF TypeOK, Locking
<1>2. /\ pc' \in [Threads -> {"idle", "calling"} \cup Inside]
      /\ holder' = None
      /\ pc'[t] = "idle"
      /\ \A u \in Threads : u # t => pc'[u] = pc[u]
  BY DEF Release, Goto, TypeOK, Inside
<1>3. /\ op' = [op EXCEPT ![t] = "none"]
      /\ arg' = [arg EXCEPT ![t] = 0]
      /\ copy' = [copy EXCEPT ![t] = <<>>]
  BY DEF Release, Forget
<1>4. <<>> \in Seq(Envelopes)
  BY EmptySeq
<1>5. Publishing' = Publishing \ {t}
  BY <1>3 DEF Publishing, TypeOK, Threads
<1>6. \A u \in Threads : pc'[u] \notin Inside
  BY <1>1, <1>2 DEF Inside
<1>7. Locking'
  <2>1. \A u \in Threads : u # t => op'[u] = op[u] /\ arg'[u] = arg[u]
    BY <1>3 DEF TypeOK
  <2>2. op'[t] = "none"
    BY <1>3 DEF TypeOK
  <2>4. \A u \in Threads : pc'[u] = "idle" <=> op'[u] = "none"
    BY <1>2, <2>1, <2>2 DEF Locking
  <2>5. \A u, v \in Publishing' : arg'[u] = arg'[v] => u = v
    BY <1>5, <2>1 DEF Locking, Publishing, Threads
  <2> QED
    BY <1>2, <1>6, <2>1, <2>2, <2>4, <2>5 DEF Locking
<1> QED
  BY <1>2, <1>3, <1>4, <1>5, <1>6, <1>7 DEF TypeOK

(* There are finitely many envelopes, and so of every kind.                *)
LEMMA FinitelyMany ==
    ASSUME NEW S, S \subseteq Envelopes PROVE IsFiniteSet(S)
<1>1. IsFiniteSet(1 .. MaxEnvelopes)
  <2>1. 1 \in Int /\ MaxEnvelopes \in Int
    BY QueueAssumption
  <2> QED
    BY <2>1, FS_Interval
<1> QED
  BY <1>1, FS_Subset DEF Envelopes

(* Popping the oldest entry: it is dropped, and counted.                   *)
LEMMA EvictIInv == ASSUME NEW t \in Threads, IInv, Evict(t) PROVE IInv'
<1> USE QueueAssumption DEF IInv
<1> DEFINE H == {arg[u] : u \in Publishing}
<1>1. items # <<>> /\ Len(items) = MaxSize /\ items \in Seq(Envelopes)
  BY EmptySeq DEF Evict, Full, TypeOK
<1>2. /\ Tail(items) \in Seq(Envelopes) /\ Len(Tail(items)) = MaxSize - 1
      /\ Head(items) \in Entries(items)
      /\ Entries(Tail(items)) = Entries(items) \ {Head(items)}
      /\ \A i, j \in 1 .. Len(Tail(items)) :
            Tail(items)[i] = Tail(items)[j] => i = j
  BY <1>1, PopEntry DEF Written
<1>3. Head(items) \in Envelopes
  BY <1>1, HeadTailProperties
<1>4. <<Head(items)>> \in Seq(Envelopes) /\ Len(<<Head(items)>>) = 1
  BY <1>3
<1>5. pc' = [pc EXCEPT ![t] = "room"] /\ pc[t] \in Inside /\ op[t] = "publish"
  BY DEF Evict, Goto, Inside
<1>6. UNCHANGED <<dropOldest, holder, op, arg, answer, h_published, h_drained, h_refused>>
  BY DEF Evict
<1>7. /\ items' = Tail(items) /\ counter' = counter + 1
      /\ copy' = [copy EXCEPT ![t] = <<Head(items)>>]
      /\ h_dropped' = h_dropped \cup {Head(items)} /\ dropOldest
  BY DEF Evict
<1>8. TypeOK'
  BY <1>2, <1>3, <1>4, <1>5, <1>6, <1>7
     DEF TypeOK, Inside
<1>9. Locking'
  BY <1>5, <1>6 DEF TypeOK, Locking, Inside, Publishing
<1>10. Seen'
  BY <1>2, <1>4, <1>5, <1>6, <1>7 DEF TypeOK, Seen, Locking, Inside
<1>11. Written'
  <2>1. H' = H
    BY <1>6 DEF Publishing
  <2>2. Entries(items)' = Entries(items) \ {Head(items)}
    BY ZenonT(40), <1>2, <1>7 DEF Entries
  <2> HIDE DEF H
  <2>3. Shared(h_published, H, Entries(items), h_drained, h_dropped, h_refused)
    BY DEF Written, H
  <2>4. Shared(h_published, H, Entries(items), h_drained, h_dropped, h_refused)'
    BY <1>2, <1>6, <1>7, <2>1, <2>2, <2>3 DEF Shared
  <2>5. counter' = Cardinality(h_dropped')
    <3>1. IsFiniteSet(h_dropped)
      BY FinitelyMany DEF TypeOK
    <3>2. Head(items) \notin h_dropped
      BY <1>2, <2>3 DEF Shared
    <3>3. counter = Cardinality(h_dropped)
      BY <1>7 DEF Written
    <3> QED
      BY <1>7, <3>1, <3>2, <3>3, FS_AddElement
  <2> QED
    BY <1>2, <1>6, <1>7, <2>4, <2>5 DEF Written, H
<1> QED
  BY <1>8, <1>9, <1>10, <1>11

(* A full bus refuses the envelope in hand.                                *)
LEMMA RefusalWritten ==
    ASSUME NEW t \in Threads, IInv, op[t] = "publish",
           Publishing' = Publishing \ {t},
           \A u \in Threads : u # t => arg'[u] = arg[u],
           h_refused' = h_refused \cup {arg[t]},
           UNCHANGED <<dropOldest, items, h_published, h_drained, h_dropped>>,
           ~dropOldest, counter' = counter + 1
    PROVE  Written'
<1> USE DEF IInv
<1> DEFINE H == {arg[u] : u \in Publishing}
<1>1. /\ t \in Publishing
      /\ \A u \in Publishing \ {t} : arg[u] # arg[t]
  BY DEF Publishing, Locking, Threads
<1>2. H' = H \ {arg[t]} /\ arg[t] \in H
  BY <1>1 DEF Publishing, Threads
<1>3. Entries(items)' = Entries(items)
  BY DEF Entries
<1>4. Shared(h_published, H, Entries(items), h_drained, h_dropped, h_refused)
  BY DEF Written
<1> HIDE DEF H
<1>5. Shared(h_published, H, Entries(items), h_drained, h_dropped, h_refused)'
  BY <1>2, <1>3, <1>4 DEF Shared
<1>6. counter' = Cardinality(h_refused')
  <2>1. arg[t] \notin h_refused
    BY <1>2, <1>4 DEF Shared
  <2>2. IsFiniteSet(h_refused)
    BY FinitelyMany DEF TypeOK
  <2>3. counter = Cardinality(h_refused)
    BY DEF Written
  <2> QED
    BY ZenonT(40), <2>1, <2>2, <2>3, FS_AddElement
<1> QED
  BY <1>5, <1>6 DEF Written, H

(* So a refusal keeps the invariant.                                       *)
LEMMA RefuseIInv == ASSUME NEW t \in Threads, IInv, Refuse(t) PROVE IInv'
<1> USE DEF IInv
<1>1. /\ pc[t] \in Inside /\ op[t] = "publish" /\ Release(t) /\ ~dropOldest
      /\ counter' = counter + 1 /\ h_refused' = h_refused \cup {arg[t]}
      /\ UNCHANGED <<dropOldest, items, answer, h_published, h_drained, h_dropped>>
  BY DEF Refuse, Inside
<1>2. arg[t] \in Envelopes
  BY <1>1 DEF Locking, Envelopes, TypeOK
<1>3. TypeOK' /\ Locking' /\ Publishing' = Publishing \ {t}
  <2>1. h_published' = h_published /\ Release(t) /\ pc[t] \in Inside
    BY <1>1
  <2>2. /\ Locking' /\ Publishing' = Publishing \ {t}
        /\ holder' \in Threads \cup {None} /\ pc' \in [Threads -> {"idle", "calling"} \cup Inside]
        /\ op' \in [Threads -> {"none", "publish", "drain", "peek"}]
        /\ arg' \in [Threads -> Envelopes \cup {0}]
        /\ copy' \in [Threads -> Seq(Envelopes)]
    BY <2>1, LeaveLocking
  <2>3. /\ UNCHANGED <<dropOldest, items, answer, h_published,
                       h_drained, h_dropped>>
        /\ counter' \in Nat /\ h_refused' \subseteq Envelopes
    BY <1>1, <1>2 DEF TypeOK
  <2> QED
    BY <2>2, <2>3 DEF TypeOK
<1>4. Seen'
  BY <1>1, LeaveLocking DEF Seen, Inside
<1>5. \A u \in Threads : u # t => arg'[u] = arg[u]
  BY <1>1 DEF Release, Forget, TypeOK
<1>6. Written'
  BY <1>1, <1>3, <1>5, RefusalWritten
<1> QED
  BY <1>3, <1>4, <1>6

(* Storing an envelope: it goes from its publish to the end of the list.   *)
LEMMA StoreIInv == ASSUME NEW t \in Threads, IInv, Store(t) PROVE IInv'
<1> USE QueueAssumption DEF IInv
<1> DEFINE H == {arg[u] : u \in Publishing}
<1>1. /\ pc[t] \in Inside /\ op[t] = "publish" /\ Release(t)
      /\ items' = Append(items, arg[t])
      /\ UNCHANGED <<dropOldest, counter, answer, h_published, h_drained,
                     h_dropped, h_refused>>
  BY DEF Store, Inside, history
<1>2. arg[t] \in Envelopes /\ items \in Seq(Envelopes)
  BY <1>1 DEF Locking, Envelopes, TypeOK
<1>3. Len(items) < MaxSize
  BY <1>2, LenProperties DEF Store, Seen, Full, TypeOK
<1>4. t \in Publishing /\ \A u \in Publishing \ {t} : arg[u] # arg[t]
  BY <1>1 DEF Publishing, Locking, Threads
<1>5. /\ Locking' /\ Publishing' = Publishing \ {t}
      /\ \A u \in Threads : pc'[u] \notin Inside
      /\ holder' \in Threads \cup {None} /\ pc' \in [Threads -> {"idle", "calling"} \cup Inside]
      /\ op' \in [Threads -> {"none", "publish", "drain", "peek"}]
      /\ arg' \in [Threads -> Envelopes \cup {0}]
      /\ copy' \in [Threads -> Seq(Envelopes)]
  BY <1>1, LeaveLocking
<1>6. H' = H \ {arg[t]} /\ arg[t] \in H
  <2>1. \A u \in Threads : u # t => arg'[u] = arg[u]
    BY <1>1 DEF Release, Forget, TypeOK
  <2>2. \A u \in Publishing' : arg'[u] = arg[u]
    BY <1>5, <2>1 DEF Publishing, Threads
  <2>3. H' = {arg[u] : u \in Publishing \ {t}}
    <3>1. Publishing' = Publishing \ {t}
      BY <1>5
    <3> QED
      BY Zenon, <2>2, <3>1
  <2> QED
    BY <1>4, <2>3
<1>7. Shared(h_published, H, Entries(items), h_drained, h_dropped, h_refused)
  BY DEF Written
<1> HIDE DEF H
<1>8. arg[t] \notin Entries(items)
  BY <1>6, <1>7 DEF Shared
<1>9. /\ items' \in Seq(Envelopes) /\ Len(items') = Len(items) + 1
      /\ Entries(items)' = Entries(items) \cup {arg[t]}
      /\ \A i, j \in 1 .. Len(items') : items'[i] = items'[j] => i = j
  <2>1. \A i, j \in 1 .. Len(items) : items[i] = items[j] => i = j
    BY DEF Written
  <2> QED
    BY <1>1, <1>2, <1>8, <2>1, StoreEntry DEF Entries
<1>10. TypeOK'
  <2>1. Len(items') <= MaxSize
    BY <1>2, <1>3, <1>9, LenProperties
  <2> QED
    BY <1>1, <1>5, <1>9, <2>1 DEF TypeOK
<1>11. Seen'
  BY <1>5 DEF Seen, Inside
<1>12. Shared(h_published, H, Entries(items), h_drained, h_dropped, h_refused)'
  BY <1>1, <1>6, <1>7, <1>9 DEF Shared
<1>13. Written'
  BY <1>1, <1>9, <1>12 DEF Written, H
<1> QED
  BY <1>5, <1>10, <1>11, <1>13

(* A drain's copy: the holder of the lock sees the whole list.             *)
LEMMA CopyIInv == ASSUME NEW t \in Threads, IInv, Copy(t) PROVE IInv'
<1> USE QueueAssumption DEF IInv
<1>1. /\ pc[t] = "inside" /\ op[t] = "drain" /\ holder = t
      /\ pc' = [pc EXCEPT ![t] = "copied"]
      /\ copy' = [copy EXCEPT ![t] = items]
      /\ UNCHANGED <<dropOldest, queueVars, holder, op, arg, answer, history>>
  BY DEF Copy, Goto, Locking, Inside
<1>2. TypeOK'
  BY <1>1 DEF TypeOK, Inside, queueVars, history
<1>3. Publishing' = Publishing
  BY <1>1 DEF Publishing
<1>4. Locking'
  BY <1>1, <1>3 DEF TypeOK, Locking, Inside, Publishing, history
<1>5. Seen'
  BY <1>1 DEF TypeOK, Seen, queueVars
<1>6. Written'
  BY <1>1, <1>3, QuietWritten
<1> QED
  BY <1>2, <1>4, <1>5, <1>6

(* A drain's clear: what it copied is what it removes.                     *)
LEMMA ClearIInv == ASSUME NEW t \in Threads, IInv, Clear(t) PROVE IInv'
<1> USE QueueAssumption DEF IInv
<1> DEFINE H == {arg[u] : u \in Publishing}
<1>1. /\ pc[t] \in Inside /\ op[t] = "drain" /\ Release(t) /\ copy[t] = items
      /\ items' = <<>> /\ answer' = items
      /\ h_drained' = h_drained \cup Entries(items)
      /\ UNCHANGED <<dropOldest, counter, h_published, h_dropped, h_refused>>
  BY DEF Clear, Inside, Seen
<1>2. /\ Locking' /\ Publishing' = Publishing \ {t}
      /\ \A u \in Threads : pc'[u] \notin Inside
      /\ holder' \in Threads \cup {None} /\ pc' \in [Threads -> {"idle", "calling"} \cup Inside]
      /\ op' \in [Threads -> {"none", "publish", "drain", "peek"}]
      /\ arg' \in [Threads -> Envelopes \cup {0}]
      /\ copy' \in [Threads -> Seq(Envelopes)]
  BY <1>1, LeaveLocking
<1>3. Entries(items) \subseteq Envelopes
  BY DEF Entries, TypeOK
<1>4. TypeOK'
  <2>1. <<>> \in Seq(Envelopes) /\ Len(<<>>) = 0
    BY EmptySeq
  <2> QED
    BY <1>1, <1>2, <1>3, <2>1 DEF TypeOK
<1>5. Seen'
  BY <1>2 DEF Seen, Inside
<1>6. H' = H
  <2>1. \A u \in Threads : u # t => arg'[u] = arg[u]
    BY <1>1 DEF Release, Forget, TypeOK
  <2>2. Publishing' = Publishing /\ t \notin Publishing
    BY <1>1, <1>2 DEF Publishing
  <2>3. \A u \in Publishing : arg'[u] = arg[u]
    BY <2>1, <2>2 DEF Publishing, Threads
  <2> QED
    BY <2>2, <2>3
<1>7. Entries(items)' = {}
  BY <1>1 DEF Entries
<1>8. Shared(h_published, H, Entries(items), h_drained, h_dropped, h_refused)
  BY DEF Written
<1> HIDE DEF H
<1>9. Shared(h_published, H, Entries(items), h_drained, h_dropped, h_refused)'
  BY <1>1, <1>6, <1>7, <1>8 DEF Shared
<1>10. Len(items') = 0
  BY <1>1, EmptySeq
<1>11. Written'
  BY <1>1, <1>9, <1>10 DEF Written, H
<1> QED
  BY <1>2, <1>4, <1>5, <1>11

(* What a peek returns is a sequence of envelopes.                         *)
LEMMA PeekType ==
    ASSUME NEW n \in Nat, items \in Seq(Envelopes)
    PROVE  Newest(n) \in Seq(Envelopes)
<1> DEFINE from == IF n < Len(items) THEN Len(items) - n + 1 ELSE 1
<1>1. Len(items) \in Nat /\ \A i \in 1 .. Len(items) : items[i] \in Envelopes
  BY LenProperties, ElementOfSeq
<1>2. from \in Int /\ from >= 1
  BY <1>1
<1> HIDE DEF from
<1>3. /\ Slice(items, n) \in Seq(Envelopes)
  BY <1>1, <1>2, SubSeqProperties DEF Slice, from
<1>4. ASSUME NEW s \in Seq(Envelopes) PROVE Reversed(s) \in Seq(Envelopes)
  <2>1. Len(s) \in Nat /\ \A i \in 1 .. Len(s) : s[i] \in Envelopes
    BY LenProperties, ElementOfSeq
  <2>2. \A i \in 1 .. Len(s) : s[Len(s) + 1 - i] \in Envelopes
    BY <2>1
  <2> QED
    BY <2>1, <2>2, IsASeq DEF Reversed
<1>5. <<>> \in Seq(Envelopes)
  BY EmptySeq
<1> QED
  BY <1>3, <1>4, <1>5 DEF Newest

(* A peek changes nothing but the answer.                                  *)
LEMMA PeekIInv == ASSUME NEW t \in Threads, IInv, Peek(t) PROVE IInv'
<1> USE QueueAssumption DEF IInv
<1>1. /\ pc[t] \in Inside /\ op[t] = "peek" /\ Release(t)
      /\ answer' \in {items} \cup {Newest(n) : n \in PeekSizes}
      /\ UNCHANGED <<dropOldest, queueVars, history>>
  BY DEF Peek, Inside
<1>2. answer' \in Seq(Envelopes)
  BY <1>1, PeekType DEF TypeOK
<1>3. /\ Locking' /\ Publishing' = Publishing \ {t}
      /\ \A u \in Threads : pc'[u] \notin Inside
      /\ holder' \in Threads \cup {None} /\ pc' \in [Threads -> {"idle", "calling"} \cup Inside]
      /\ op' \in [Threads -> {"none", "publish", "drain", "peek"}]
      /\ arg' \in [Threads -> Envelopes \cup {0}]
      /\ copy' \in [Threads -> Seq(Envelopes)]
  BY <1>1, LeaveLocking DEF history
<1>4. TypeOK'
  BY <1>1, <1>2, <1>3 DEF TypeOK, queueVars, history
<1>5. Seen'
  BY <1>3 DEF Seen, Inside
<1>6. Written'
  <2>1. \A u \in Threads : u # t => arg'[u] = arg[u]
    BY <1>1 DEF Release, Forget, TypeOK
  <2>2. {arg'[u] : u \in Publishing'} = {arg[u] : u \in Publishing}
    <3>1. Publishing' = Publishing /\ t \notin Publishing
      BY <1>1, <1>3 DEF Publishing
    <3>2. \A u \in Publishing : arg'[u] = arg[u]
      BY <2>1, <3>1 DEF Publishing, Threads
    <3> QED
      BY <3>1, <3>2
  <2> QED
    BY <1>1, <2>2, QuietWritten
<1> QED
  BY <1>3, <1>4, <1>5, <1>6

(* Every step keeps the inductive invariant.                               *)
LEMMA NextIInv == IInv /\ [Next]_vars => IInv'
<1> SUFFICES ASSUME IInv, [Next]_vars PROVE IInv'
  OBVIOUS
<1>1. ASSUME NEW t \in Threads, Call(t) PROVE IInv'
  BY <1>1, CallPublishIInv, ApproachIInv DEF Call
<1>2. ASSUME NEW t \in Threads, Acquire(t) PROVE IInv'
  BY <1>2, ApproachIInv
<1>3. ASSUME NEW t \in Threads, Operate(t) PROVE IInv'
  BY <1>3, EvictIInv, RefuseIInv, StoreIInv, CopyIInv, ClearIInv, PeekIInv
     DEF Operate
<1>4. CASE UNCHANGED vars
  <2>1. UNCHANGED <<dropOldest, queueVars, history, pc, op, arg, copy, answer, holder>>
    BY <1>4 DEF vars, callVars
  <2>2. Publishing' = Publishing
    BY <2>1 DEF Publishing
  <2>3. Written'
    BY <2>1, <2>2, QuietWritten
  <2>4. TypeOK' /\ Locking' /\ Seen'
    BY <2>1, <2>2 DEF IInv, TypeOK, Locking, Seen, queueVars, history
  <2> QED
    BY <2>3, <2>4 DEF IInv
<1> QED
  BY <1>1, <1>2, <1>3, <1>4 DEF Next

(* The inductive invariant holds in every reachable state.                 *)
THEOREM InductiveInvariant == Spec => []IInv
<1>1. Init => IInv
  BY InitIInv
<1>2. IInv /\ [Next]_vars => IInv'
  BY NextIInv
<1> QED
  BY <1>1, <1>2, PTL DEF Spec

(* The queues are type-correct; they never hold more than max_size.        *)
THEOREM TypeCorrect == Spec => []TypeOK
<1>1. IInv => TypeOK
  BY DEF IInv
<1> QED
  BY <1>1, InductiveInvariant, PTL

(* No overlap of publishes and drains loses an envelope or returns it      *)
(* twice, and the counter says how many were dropped or refused.           *)
THEOREM AccountedFor == Spec => []EnvelopesAccountedFor
<1>1. IInv => EnvelopesAccountedFor
  BY AccountedIsWritten DEF IInv
<1> QED
  BY <1>1, InductiveInvariant, PTL

-----------------------------------------------------------------------------
(* What others can see while t makes room, and when nobody does.           *)
LEMMA SeenFromOutside ==
    ASSUME TypeOK, Locking
    PROVE  /\ (\A u \in Threads : pc[u] # "room")
              => Visible = items /\ Counted = counter
           /\ \A t \in Threads :
                 pc[t] = "room" => /\ Visible = copy[t] \o items
                                   /\ Counted = counter - 1
<1>1. ASSUME NEW t \in Threads, pc[t] = "room" PROVE MakingRoom = {t}
  BY <1>1 DEF MakingRoom, Locking, Inside
<1>2. ASSUME \A u \in Threads : pc[u] # "room" PROVE MakingRoom = {}
  BY <1>2 DEF MakingRoom
<1>3. ASSUME NEW t PROVE (CHOOSE u \in {t} : TRUE) = t
  OBVIOUS
<1> QED
  BY <1>1, <1>2, <1>3 DEF Visible, Counted

(* The same after a step.                                                  *)
LEMMA SeenFromOutsideNext ==
    ASSUME TypeOK', Locking'
    PROVE  /\ (\A u \in Threads : pc'[u] # "room")
              => Visible' = items' /\ Counted' = counter'
           /\ \A t \in Threads :
                 pc'[t] = "room" => /\ Visible' = copy'[t] \o items'
                                    /\ Counted' = counter' - 1
<1>1. ASSUME NEW t \in Threads, pc'[t] = "room" PROVE MakingRoom' = {t}
  BY <1>1 DEF MakingRoom, Locking, Inside
<1>2. ASSUME \A u \in Threads : pc'[u] # "room" PROVE MakingRoom' = {}
  BY <1>2 DEF MakingRoom
<1>3. ASSUME NEW t PROVE (CHOOSE u \in {t} : TRUE) = t
  OBVIOUS
<1> QED
  BY <1>1, <1>2, <1>3 DEF Visible, Counted

(* Outside the lock nothing of the queue changes for an observer.          *)
LEMMA QuietStep ==
    ASSUME IInv, IInv', UNCHANGED <<dropOldest, queueVars, answer>>,
           \A u \in Threads : pc'[u] = "room" <=> pc[u] = "room",
           \A u \in Threads : pc[u] = "room" => copy'[u] = copy[u]
    PROVE  UNCHANGED <<dropOldest, Visible, Counted, answer>>
BY SeenFromOutside, SeenFromOutsideNext DEF IInv, queueVars

(* Popping the oldest entry is not seen from outside.                      *)
LEMMA EvictRefines ==
    ASSUME NEW t \in Threads, IInv, IInv', Evict(t)
    PROVE  UNCHANGED <<dropOldest, Visible, Counted, answer>>
<1> USE QueueAssumption
<1>1. /\ pc[t] = "inside" /\ items' = Tail(items) /\ counter' = counter + 1
      /\ copy' = [copy EXCEPT ![t] = <<Head(items)>>]
      /\ pc' = [pc EXCEPT ![t] = "room"]
      /\ UNCHANGED <<dropOldest, answer>>
  BY DEF Evict, Goto
<1>2. items \in Seq(Envelopes) /\ items # <<>>
  BY EmptySeq DEF IInv, TypeOK, Evict, Full
<1>3. items = <<Head(items)>> \o Tail(items)
  BY <1>2, PopEntry DEF IInv, Written
<1>4. \A u \in Threads : pc[u] # "room"
  BY <1>1 DEF IInv, Locking, Inside
<1>5. Visible = items /\ Counted = counter
  BY <1>4, SeenFromOutside DEF IInv
<1>6. pc'[t] = "room" /\ copy'[t] = <<Head(items)>>
  BY <1>1 DEF IInv, TypeOK
<1>7. Visible' = copy'[t] \o items' /\ Counted' = counter' - 1
  BY <1>6, SeenFromOutsideNext DEF IInv
<1>8. counter \in Nat
  BY DEF IInv, TypeOK
<1> QED
  BY <1>1, <1>3, <1>5, <1>6, <1>7, <1>8

(* Storing into the room made replaces the oldest entry; without that it   *)
(* is a plain publish.                                                     *)
LEMMA StoreRefines ==
    ASSUME NEW t \in Threads, IInv, IInv', Store(t)
    PROVE  \E e \in Envelopes : Log!Publish(e) \/ Log!Replace(e)
<1> USE QueueAssumption
<1>1. /\ pc[t] \in Inside /\ Release(t) /\ op[t] = "publish"
      /\ items' = Append(items, arg[t])
      /\ UNCHANGED <<dropOldest, counter, answer, h_published>>
  BY DEF Store, Inside, history
<1>2. arg[t] \in Envelopes /\ items \in Seq(Envelopes) /\ counter \in Nat
  BY <1>1 DEF IInv, Locking, Envelopes, TypeOK
<1>3. Visible' = Append(items, arg[t]) /\ Counted' = counter
  <2>1. \A u \in Threads : pc'[u] # "room"
    BY <1>1, LeaveLocking DEF Inside
  <2> QED
    BY <1>1, <2>1, SeenFromOutsideNext DEF IInv
<1>4. CASE pc[t] = "room"
  <2>1. /\ Visible = copy[t] \o items /\ Counted = counter - 1 /\ dropOldest
        /\ Len(items) = MaxSize - 1 /\ Len(copy[t]) = 1
        /\ copy[t] \in Seq(Envelopes)
    BY <1>4, SeenFromOutside DEF IInv, Seen, TypeOK
  <2>2. /\ Visible \in Seq(Envelopes) /\ Len(Visible) = MaxSize
        /\ \A i \in 1 .. MaxSize :
              Visible[i] = IF i <= 1 THEN copy[t][i] ELSE items[i - 1]
    <3> DEFINE C == copy[t]
    <3>1. MaxSize \in Nat /\ Len(C) + Len(items) = MaxSize
      BY <2>1
    <3> HIDE DEF C
    <3>2. /\ C \o items \in Seq(Envelopes) /\ Len(C \o items) = Len(C) + Len(items)
          /\ \A i \in 1 .. Len(C) + Len(items) :
                (C \o items)[i] = IF i <= Len(C) THEN C[i] ELSE items[i - Len(C)]
      BY ZenonT(40), <1>2, <2>1, ConcatProperties DEF C
    <3>3. Visible = C \o items /\ Len(C) = 1
      BY <2>1 DEF C
    <3>4. /\ Visible \in Seq(Envelopes) /\ Len(Visible) = MaxSize
          /\ \A i \in 1 .. MaxSize :
                Visible[i] = IF i <= 1 THEN C[i] ELSE items[i - 1]
      BY <3>1, <3>2, <3>3
    <3> QED
      BY <3>4 DEF C
  <2>3. Visible # <<>>
    BY <2>2, EmptySeq
  <2>4. /\ Tail(Visible) \in Seq(Envelopes) /\ Len(Tail(Visible)) = MaxSize - 1
        /\ \A i \in 1 .. MaxSize - 1 : Tail(Visible)[i] = Visible[i + 1]
    BY <2>2, <2>3, HeadTailProperties
  <2>5. \A i \in 1 .. MaxSize - 1 : Tail(Visible)[i] = items[i]
    BY <2>2, <2>4
  <2>6. Tail(Visible) = items
    BY <1>2, <2>1, <2>4, <2>5, SeqEqual
  <2>7. Log!Replace(arg[t])
    BY <1>1, <1>2, <1>3, <2>1, <2>2, <2>6 DEF Log!Replace
  <2> QED
    BY <1>2, <2>7
<1>5. CASE pc[t] # "room"
  <2>1. pc[t] = "inside" /\ Len(items) < MaxSize
    BY <1>2, <1>5, LenProperties DEF Store, Full
  <2>2. \A u \in Threads : pc[u] # "room"
    BY <1>1, <1>5 DEF IInv, Locking, Inside
  <2>3. Visible = items /\ Counted = counter
    BY <2>2, SeenFromOutside DEF IInv
  <2>4. Log!Publish(arg[t])
    BY <1>1, <1>3, <2>1, <2>3 DEF Log!Publish
  <2> QED
    BY <1>2, <2>4
<1> QED
  BY <1>4, <1>5

(* What a peek takes are the newest entries, newest first.                 *)
LEMMA NewestIsNewestFirst ==
    ASSUME NEW n \in Nat, items \in Seq(Envelopes)
    PROVE  Newest(n) = Log!NewestFirst(items, n)
<1> DEFINE L == Len(items)
           from == IF n < L THEN L - n + 1 ELSE 1
           m == IF n < L THEN n ELSE L
<1>1. L \in Nat
  BY LenProperties
<1>2. CASE n = 0
  <2>1. Log!NewestFirst(items, n) = <<>>
    BY <1>1, <1>2 DEF Log!NewestFirst
  <2> QED
    BY <1>2, <2>1 DEF Newest
<1>3. CASE n # 0
  <2>1. from \in 1 .. L + 1 /\ L - from + 1 = m /\ m \in Nat /\ from \in Int
    BY <1>1, <1>3
  <2>2. Slice(items, n) = SubSeq(items, from, L)
    BY DEF Slice
  <2> HIDE DEF from, m
  <2>3. /\ Len(SubSeq(items, from, L)) = m
        /\ \A i \in 1 .. m : SubSeq(items, from, L)[i] = items[from + i - 1]
    <3> DEFINE S == SubSeq(items, from, L)
    <3>1. /\ Len(S) = IF from <= L THEN L - from + 1 ELSE 0
          /\ \A i \in 1 .. L - from + 1 : S[i] = items[from + i - 1]
      BY <1>1, <2>1, SubSeqProperties
    <3> QED
      BY <1>1, <2>1, <3>1
  <2> DEFINE S == SubSeq(items, from, L)
  <2>4. Newest(n) = [i \in 1 .. m |-> S[m + 1 - i]]
    BY <1>3, <2>2, <2>3 DEF Newest, Reversed
  <2>5. \A i \in 1 .. m : S[m + 1 - i] = items[L + 1 - i]
    <3> SUFFICES ASSUME NEW i \in 1 .. m PROVE S[m + 1 - i] = items[L + 1 - i]
      OBVIOUS
    <3>1. m + 1 - i \in 1 .. m /\ from + (m + 1 - i) - 1 = L + 1 - i
      BY <1>1, <2>1
    <3> QED
      BY <2>3, <3>1
  <2>6. Log!NewestFirst(items, n) = [i \in 1 .. m |-> items[L + 1 - i]]
    BY DEF Log!NewestFirst, m
  <2> QED
    BY <2>4, <2>5, <2>6
<1> QED
  BY <1>2, <1>3

(* Refusing, clearing and peeking are steps of the abstract log.           *)
LEMMA ReleaseRefines ==
    ASSUME NEW t \in Threads, IInv, IInv', Refuse(t) \/ Clear(t) \/ Peek(t)
    PROVE  Log!Refuse \/ Log!Drain \/ Log!Peek
<1> USE QueueAssumption
<1>1. /\ pc[t] \in {"inside", "copied"} /\ Release(t) /\ h_published' = h_published
      /\ dropOldest' = dropOldest
  BY DEF Refuse, Clear, Peek, history
<1>2. Visible = items /\ Counted = counter
  <2>1. \A u \in Threads : pc[u] # "room"
    BY <1>1 DEF IInv, Locking, Inside
  <2> QED
    BY <2>1, SeenFromOutside DEF IInv
<1>3. Visible' = items' /\ Counted' = counter'
  <2>1. \A u \in Threads : pc'[u] # "room"
    BY <1>1, LeaveLocking DEF Inside
  <2> QED
    BY <2>1, SeenFromOutsideNext DEF IInv
<1>4. CASE Refuse(t)
  BY <1>1, <1>2, <1>3, <1>4 DEF Refuse, Full, Log!Refuse
<1>5. CASE Clear(t)
  BY <1>1, <1>2, <1>3, <1>5 DEF Clear, IInv, Seen, Log!Drain
<1>6. CASE Peek(t)
  <2>1. \A n \in PeekSizes : Newest(n) = Log!NewestFirst(items, n)
    BY NewestIsNewestFirst DEF IInv, TypeOK
  <2>2. answer' \in {items} \cup {Log!NewestFirst(items, n) : n \in PeekSizes}
    BY <1>6, <2>1 DEF Peek
  <2> QED
    BY <1>1, <1>2, <1>3, <1>6, <2>2 DEF Peek, queueVars, Log!Peek
<1> QED
  BY <1>4, <1>5, <1>6

(* Every step of the queue is one of the abstract log, or not seen.        *)
LEMMA NextRefines == IInv /\ IInv' /\ [Next]_vars => [Log!Next]_(Log!vars)
<1> SUFFICES ASSUME IInv, IInv', [Next]_vars
             PROVE  Log!Next \/ UNCHANGED <<dropOldest, Visible, Counted, answer>>
  BY DEF Log!vars
<1>1. ASSUME NEW t \in Threads, Call(t) \/ Acquire(t) \/ Copy(t)
      PROVE  UNCHANGED <<dropOldest, Visible, Counted, answer>>
  <2>1. UNCHANGED <<dropOldest, queueVars, answer>>
    BY <1>1 DEF Call, CallPublish, CallRead, Acquire, Copy
  <2>2. \A u \in Threads : pc'[u] = "room" <=> pc[u] = "room"
    BY <1>1 DEF Call, CallPublish, CallRead, Acquire, Copy, Goto, IInv, TypeOK
  <2>3. \A u \in Threads : pc[u] = "room" => copy'[u] = copy[u]
    BY <1>1 DEF Call, CallPublish, CallRead, Acquire, Copy, Forget, IInv, TypeOK
  <2> QED
    BY <2>1, <2>2, <2>3, QuietStep
<1>2. ASSUME NEW t \in Threads, Operate(t)
      PROVE  Log!Next \/ UNCHANGED <<dropOldest, Visible, Counted, answer>>
  BY <1>1, <1>2, EvictRefines, StoreRefines, ReleaseRefines DEF Operate, Log!Next
<1>3. CASE UNCHANGED vars
  BY <1>3, QuietStep DEF vars, callVars
<1> QED
  BY <1>1, <1>2, <1>3 DEF Next

(* The queue, with one action for every access to its list, implements the *)
(* log whose operations are single steps.                                  *)
THEOREM ImplementsLog == Spec => ImplementsBoundedLog
<1>1. Init => Log!Init
  <2> SUFFICES ASSUME Init PROVE Log!Init
    OBVIOUS
  <2>1. MakingRoom = {}
    BY DEF Init, MakingRoom
  <2> QED
    BY <2>1 DEF Init, Visible, Counted, Log!Init
<1>2. IInv /\ IInv' /\ [Next]_vars => [Log!Next]_(Log!vars)
  BY NextRefines
<1> QED
  BY <1>1, <1>2, InductiveInvariant, PTL DEF Spec, ImplementsBoundedLog, Log!Spec
=============================================================================
