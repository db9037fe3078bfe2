------------------------------ MODULE FailureProofs ------------------------------
(***************************************************************************)
(* Theorems about what the SDK makes of a failure, for inputs of any size: *)
(* ExceptionChain, ExceptionGroups, Lineage, SnapshotWalk and Backoff, and *)
(* FailedCall, which is composed of them.                                  *)
(***************************************************************************)
EXTENDS FailedCall, SequenceTheorems, FiniteSetTheorems, TLAPS

(* A set of natural numbers has a least element.                           *)
LEMMA LeastNatural ==
    ASSUME NEW T \in SUBSET Nat, T # {} PROVE \E m \in T : \A k \in T : m <= k
<1>1. PICK m \in T : \A k \in T : ~(<<k, m>> \in OpToRel(<, Nat))
  BY WFMin, NatLessThanWellFounded
<1>2. \A k \in T : ~(k < m)
  BY <1>1 DEF OpToRel
<1>3. \A k \in T : m <= k
  <2> TAKE k \in T
  <2>1. k \in Nat /\ m \in Nat /\ ~(k < m)
    BY <1>2
  <2> QED
    BY ONLY <2>1
<1> QED
  BY <1>3

-----------------------------------------------------------------------------
Elements(s) == {s[n] : n \in 1 .. Len(s)}

(* Whom a walk has met: what it has seen and what is on its stack.         *)
Met == seen \cup Elements(stack)

(* A walk has met the raised exception and all that those it has seen are  *)
(* linked to.                                                              *)
WalkInv ==
    /\ Met \subseteq Behind /\ chain.raised \in Met
    /\ walk # "redacted" => \A e \in seen, f \in Exceptions : Linked(e, f) => f \in Met
    /\ walk = "finding" => parts = <<>> /\ chars = 0 /\ \A e \in seen : ~chain.parse[e]
    /\ walk = "answered" => stack = <<>> \/ chars >= SAFE_MESSAGE_MAX_CHARS

Texts(S) == {e \in S : chain.length[e] > 0}

(* What the second walk has collected, and in which order.                 *)
PartsInv == walk \in {"reading", "answered", "over budget"} =>
    /\ Elements(parts) = Texts(seen)
    /\ \A m, n \in 1 .. Len(parts) : parts[m] = parts[n] => m = n
    /\ seen = {} => stack = <<chain.raised>> /\ parts = <<>> /\ chars = 0
    /\ seen # {} => chain.raised \in seen
    /\ chain.raised \in Texts(seen) => Len(parts) >= 1 /\ parts[1] = chain.raised

(* The cause of the raised exception is seen second.                       *)
OrderInv ==
    LET first == chain.raised
        second == chain.cause[first]
    IN  walk \in {"reading", "answered", "over budget"} /\ second \in Exceptions \ {first} =>
          /\ seen = {first} => stack # <<>> /\ Head(stack) = second
          /\ seen # {} /\ seen # {first} => second \in seen
          /\ first \in Texts(seen) /\ second \in Texts(seen) =>
                Len(parts) >= 2 /\ parts[2] = second

(* Every visit adds at most two to the stack.                              *)
PopsInv == IsFiniteSet(seen) /\ h_pops + Len(stack) <= 1 + 2 * Cardinality(seen)

ChainInv == ChainTypeOK /\ ParseErrorsHide /\ WalkInv /\ PartsInv /\ OrderInv /\ PopsInv

(* Sequences as the stack and the parts are used.                          *)
LEMMA SequenceFacts ==
    ASSUME NEW X, NEW s \in Seq(X)
    PROVE  /\ \A t \in Seq(X) : Elements(s \o t) = Elements(s) \cup Elements(t)
           /\ \A x \in X : Elements(Append(s, x)) = Elements(s) \cup {x}
           /\ s # <<>> => Elements(s) = {Head(s)} \cup Elements(Tail(s))
           /\ \A x : Elements(<<x>>) = {x}
           /\ Elements(<<>>) = {}
<1>1. ASSUME NEW t \in Seq(X) PROVE Elements(s \o t) = Elements(s) \cup Elements(t)
  <2>1. /\ s \o t \in Seq(X) /\ Len(s \o t) = Len(s) + Len(t)
        /\ Len(s) \in Nat /\ Len(t) \in Nat
        /\ \A n \in 1 .. Len(s) + Len(t) : (s \o t)[n] = IF n <= Len(s) THEN s[n] ELSE t[n - Len(s)]
    BY ConcatProperties, LenProperties
  <2>2. ASSUME NEW n \in 1 .. Len(t)
        PROVE  n + Len(s) \in 1 .. Len(s) + Len(t) /\ (s \o t)[n + Len(s)] = t[n]
    BY <2>1
  <2>3. ASSUME NEW n \in 1 .. Len(s) PROVE n \in 1 .. Len(s) + Len(t) /\ (s \o t)[n] = s[n]
    BY <2>1
  <2>4. ASSUME NEW n \in 1 .. Len(s) + Len(t), ~(n <= Len(s))
        PROVE  n - Len(s) \in 1 .. Len(t) /\ (s \o t)[n] = t[n - Len(s)]
    BY <2>1, <2>4
  <2>5. Elements(s) \subseteq Elements(s \o t) /\ Elements(t) \subseteq Elements(s \o t)
    <3>1. ASSUME NEW n \in 1 .. Len(s)
          PROVE  \E k \in 1 .. Len(s \o t) : (s \o t)[k] = s[n]
      BY <2>1, <2>3
    <3>2. ASSUME NEW n \in 1 .. Len(t)
          PROVE  \E k \in 1 .. Len(s \o t) : (s \o t)[k] = t[n]
      BY <2>1, <2>2
    <3>3. Elements(s) \subseteq Elements(s \o t)
      BY <3>1 DEF Elements
    <3>4. Elements(t) \subseteq Elements(s \o t)
      BY <3>2 DEF Elements
    <3> QED BY <3>3, <3>4
  <2>6. ASSUME NEW n \in 1 .. Len(s) + Len(t) PROVE (s \o t)[n] \in Elements(s) \cup Elements(t)
    <3>1. CASE n <= Len(s)
      BY <2>1, <2>3, <3>1 DEF Elements
    <3>2. CASE ~(n <= Len(s))
      BY <2>4, <3>2 DEF Elements
    <3> QED
      BY <3>1, <3>2
  <2> QED
    BY <2>1, <2>5, <2>6 DEF Elements
<1>2. ASSUME NEW x \in X PROVE Elements(Append(s, x)) = Elements(s) \cup {x}
  <2>1. /\ Len(s) \in Nat /\ Len(Append(s, x)) = Len(s) + 1
        /\ \A n \in 1 .. Len(s) : Append(s, x)[n] = s[n]
        /\ Append(s, x)[Len(s) + 1] = x
    BY AppendProperties, LenProperties
  <2>2. 1 .. Len(s) + 1 = (1 .. Len(s)) \cup {Len(s) + 1}
    BY <2>1
  <2> QED
    BY <2>1, <2>2 DEF Elements
<1>3. ASSUME s # <<>> PROVE Elements(s) = {Head(s)} \cup Elements(Tail(s))
  <2>1. /\ Len(s) \in Nat \ {0} /\ Head(s) = s[1] /\ Len(Tail(s)) = Len(s) - 1
        /\ \A n \in 1 .. Len(s) - 1 : Tail(s)[n] = s[n + 1]
    BY <1>3, HeadTailProperties, EmptySeq, LenProperties
  <2>2. \A n \in 1 .. Len(s) : n = 1 \/ (n - 1 \in 1 .. Len(s) - 1 /\ n - 1 + 1 = n)
    BY <2>1
  <2>3. \A n \in 1 .. Len(s) - 1 : n + 1 \in 1 .. Len(s)
    BY <2>1
  <2>4. \A n \in 1 .. Len(s) : s[n] \in {Head(s)} \cup Elements(Tail(s))
    <3> TAKE n \in 1 .. Len(s)
    <3>1. CASE n = 1
      BY <2>1, <3>1
    <3>2. CASE n # 1
      <4>1. n - 1 \in 1 .. Len(Tail(s)) /\ Tail(s)[n - 1] = s[n]
        BY <2>1, <2>2, <3>2
      <4> QED
        BY <4>1 DEF Elements
    <3> QED
      BY <3>1, <3>2
  <2>5. Elements(Tail(s)) \subseteq Elements(s) /\ Head(s) \in Elements(s)
    BY <2>1, <2>3 DEF Elements
  <2> QED
    BY <2>4, <2>5 DEF Elements
<1>4. (\A x : Elements(<<x>>) = {x}) /\ Elements(<<>>) = {}
  BY DEF Elements
<1> QED
  BY <1>1, <1>2, <1>3, <1>4

(* What is behind the raised exception is closed, and in all closed sets.  *)
LEMMA BehindFacts ==
    ASSUME ChainTypeOK
    PROVE  /\ chain.raised \in Behind /\ Behind \subseteq Exceptions
           /\ \A e \in Behind, f \in Exceptions : Linked(e, f) => f \in Behind
           /\ \A S \in SUBSET Exceptions : Closed(S) => Behind \subseteq S
<1>1. chain.raised \in Exceptions
  BY ChainAssumption DEF ChainTypeOK, ChainsOf
<1>2. Behind \subseteq Exceptions /\ \A S \in SUBSET Exceptions : Closed(S) => Behind \subseteq S
  BY DEF Behind
<1>3. chain.raised \in Behind
  BY <1>1 DEF Behind, Closed
<1>4. ASSUME NEW e \in Behind, NEW f \in Exceptions, Linked(e, f) PROVE f \in Behind
  BY <1>4 DEF Behind, Closed
<1> QED
  BY <1>2, <1>3, <1>4

(* What is pushed is what the top is linked to, its cause on top.          *)
LEMMA PushedFacts ==
    ASSUME ChainTypeOK, stack # <<>>
    PROVE  LET top == Head(stack)
           IN  /\ top \in Exceptions /\ Tail(stack) \in Seq(Exceptions)
               /\ Pushed \in Seq(Exceptions) /\ Len(Pushed) \in 0 .. 2
               /\ Elements(Pushed) = {f \in Exceptions : Linked(top, f)}
               /\ chain.cause[top] \in Exceptions =>
                     Pushed \o Tail(stack) # <<>> /\ Head(Pushed \o Tail(stack)) = chain.cause[top]
<1> DEFINE top == Head(stack)
           over == IF Cause # NoException THEN <<Cause>> ELSE <<>>
           under == IF Context # NoException /\ ~chain.suppress[Head(stack)] THEN <<Context>> ELSE <<>>
<1>1. top \in Exceptions /\ Tail(stack) \in Seq(Exceptions)
  <2>1. stack \in Seq(Exceptions) /\ stack # <<>>
    BY DEF ChainTypeOK
  <2> QED
    BY ONLY <2>1, HeadTailProperties
<1>2. /\ chain.cause \in [Exceptions -> Exceptions \cup {NoException}]
      /\ chain.context \in [Exceptions -> Exceptions \cup {NoException}]
  BY ChainAssumption DEF ChainTypeOK, ChainsOf
<1>3. Cause \in Exceptions \cup {NoException} /\ Context \in Exceptions \cup {NoException}
  BY <1>1, <1>2 DEF Cause, Context
<1>4. over \in Seq(Exceptions) /\ under \in Seq(Exceptions) /\ Len(over) \in 0 .. 1 /\ Len(under) \in 0 .. 1
  BY <1>3
<1>5. Pushed = over \o under
  BY DEF Pushed
<1>6. Elements(over) = {f \in Exceptions : f = Cause}
  BY <1>3, ChainAssumption DEF Elements
<1>7. Elements(under) = {f \in Exceptions : f = Context /\ ~chain.suppress[top]}
  BY <1>3, ChainAssumption DEF Elements
<1>8. Cause \in Exceptions => over = <<Cause>>
  BY ChainAssumption
<1> HIDE DEF over, under
<1>9. Pushed \in Seq(Exceptions) /\ Len(Pushed) \in 0 .. 2
  BY <1>4, <1>5
<1>10. Elements(Pushed) = {f \in Exceptions : Linked(top, f)}
  <2>1. Elements(over \o under) = Elements(over) \cup Elements(under)
    BY ONLY <1>1, <1>4, SequenceFacts
  <2> QED
    BY <1>5, <1>6, <1>7, <2>1 DEF Linked, Cause, Context
<1>11. ASSUME Cause \in Exceptions
       PROVE  Pushed \o Tail(stack) # <<>> /\ Head(Pushed \o Tail(stack)) = Cause
  <2>1. <<Cause>> \in Seq(Exceptions) /\ Len(<<Cause>>) = 1 /\ <<Cause>>[1] = Cause
    BY <1>11
  <2>2. Pushed = <<Cause>> \o under
    BY <1>5, <1>8, <1>11
  <2>3. Len(Pushed) = 1 + Len(under) /\ Pushed[1] = Cause
    BY <1>4, <2>1, <2>2, ConcatProperties
  <2> DEFINE all == Pushed \o Tail(stack)
  <2>4. /\ all \in Seq(Exceptions) /\ all[1] = Cause
        /\ Len(all) \in Nat /\ Len(all) >= 1
    BY <1>1, <1>4, <1>9, <2>3, ConcatProperties, LenProperties
  <2>5. all # <<>> /\ Head(all) = Cause
    <3> HIDE DEF all
    <3> QED
      BY <2>4, HeadTailProperties
  <2> QED
    BY <2>5
<1> QED
  BY <1>1, <1>9, <1>10, <1>11 DEF Cause

(* What is collected stays while nothing new is seen.                      *)
LEMMA PartsKept ==
    ASSUME PartsInv, OrderInv, UNCHANGED <<chain, seen, parts, chars>>,
           stack' = stack \/ Head(stack) \in seen,
           walk' # walk => walk \in {"reading", "answered", "over budget"}
    PROVE  PartsInv' /\ OrderInv'
<1> DEFINE Reads == {"reading", "answered", "over budget"}
<1>1. Texts(seen)' = Texts(seen) /\ (walk' \in Reads => walk \in Reads)
  BY DEF Texts
<1>2. PartsInv'
  <2> SUFFICES ASSUME walk' \in Reads PROVE PartsInv'
    BY DEF PartsInv
  <2>1. /\ Elements(parts) = Texts(seen)
        /\ \A m, n \in 1 .. Len(parts) : parts[m] = parts[n] => m = n
        /\ seen = {} => stack = <<chain.raised>> /\ parts = <<>> /\ chars = 0
        /\ seen # {} => chain.raised \in seen
        /\ chain.raised \in Texts(seen) => Len(parts) >= 1 /\ parts[1] = chain.raised
    BY <1>1 DEF PartsInv
  <2>2. seen = {} => stack' = stack
    OBVIOUS
  <2>3. chain' = chain /\ seen' = seen /\ parts' = parts /\ chars' = chars
    OBVIOUS
  <2> QED
    BY <1>1, <2>1, <2>2, <2>3 DEF PartsInv
<1>3. OrderInv'
  BY <1>1 DEF OrderInv
<1> QED
  BY <1>2, <1>3

(* Both walks begin with the raised exception.                             *)
LEMMA ChainInitInv == ChainInit => ChainInv
<1> SUFFICES ASSUME ChainInit PROVE ChainInv
  OBVIOUS
<1> USE DEF ChainInit
<1>1. chain \in Chains /\ chain.raised \in Exceptions
  BY ChainAssumption DEF ChainsOf
<1>2. ChainTypeOK
  BY <1>1 DEF ChainTypeOK
<1>3. WalkInv
  <2>1. Elements(stack) = {chain.raised}
    BY DEF Elements
  <2> QED
    BY <1>2, <2>1, BehindFacts DEF WalkInv, Met
<1>4. PopsInv
  <2>1. Cardinality(seen) = 0 /\ IsFiniteSet(seen) /\ h_pops = 0 /\ Len(stack) = 1
    BY FS_EmptySet
  <2> QED
    BY ONLY <2>1 DEF PopsInv
<1> QED
  BY <1>2, <1>3, <1>4 DEF ChainInv, ParseErrorsHide, PartsInv, OrderInv

(* At most two are pushed for the one that is popped.                      *)
LEMMA LengthsAdd ==
    ASSUME NEW p \in 0 .. 2, NEW n \in Nat, NEW r, r = n - 1, NEW l, l = p + r, n >= 1
    PROVE  l \in Nat /\ l <= n + 1
OBVIOUS

(* What a visit makes of the stack.                                        *)
LEMMA StackFacts ==
    ASSUME ChainTypeOK, stack # <<>>, stack' = Pushed \o Tail(stack)
    PROVE  /\ Elements(stack') = Elements(Pushed) \cup Elements(Tail(stack))
           /\ chain.cause[Head(stack)] \in Exceptions =>
                 stack' # <<>> /\ Head(stack') = chain.cause[Head(stack)]
           /\ stack' \in Seq(Exceptions) /\ Len(stack') \in Nat /\ Len(stack') <= Len(stack) + 1
<1>1. /\ Tail(stack) \in Seq(Exceptions) /\ Pushed \in Seq(Exceptions)
      /\ Len(Pushed) \in 0 .. 2
      /\ chain.cause[Head(stack)] \in Exceptions =>
            stack' # <<>> /\ Head(stack') = chain.cause[Head(stack)]
  BY PushedFacts
<1>2. Len(stack) \in Nat /\ Len(Tail(stack)) = Len(stack) - 1
  BY HeadTailProperties, LenProperties DEF ChainTypeOK
<1> DEFINE rest == Tail(stack)
<1> HIDE DEF rest
<1>3. rest \in Seq(Exceptions) /\ Len(rest) = Len(stack) - 1 /\ stack' = Pushed \o rest
  BY <1>1, <1>2 DEF rest
<1>4. /\ Elements(Pushed \o rest) = Elements(Pushed) \cup Elements(rest)
      /\ Len(Pushed \o rest) = Len(Pushed) + Len(rest)
      /\ Pushed \o rest \in Seq(Exceptions)
  BY <1>1, <1>3, SequenceFacts, ConcatProperties
<1>5. Len(stack') \in Nat /\ Len(stack') <= Len(stack) + 1
  <2>1. Len(stack') = Len(Pushed) + Len(rest)
    BY <1>3, <1>4
  <2>2. /\ Len(Pushed) \in 0 .. 2 /\ Len(stack) \in Nat /\ Len(rest) = Len(stack) - 1
        /\ Len(stack) >= 1
    BY <1>1, <1>2, <1>3, LenProperties
  <2> QED
    BY <2>1, <2>2, LengthsAdd
<1> QED
  BY <1>1, <1>3, <1>4, <1>5 DEF rest

(* A visit has met what it has met before, and what the top is linked to.  *)
LEMMA VisitFacts ==
    ASSUME ChainInv, Visit, walk \in {"finding", "reading"}, walk' = walk, parts' \in Seq(Exceptions),
           chars' \in Nat
    PROVE  LET top == Head(stack)
           IN  /\ top \in Exceptions /\ top \notin seen /\ top \in Elements(stack)
               /\ seen' = seen \cup {top} /\ chain' = chain
               /\ chain'.cause[top] \in Exceptions =>
                     stack' # <<>> /\ Head(stack') = chain'.cause[top]
               /\ ChainTypeOK' /\ PopsInv'
               /\ Met' \subseteq Behind' /\ chain'.raised \in Met'
               /\ \A e \in seen', f \in Exceptions : Linked(e, f)' => f \in Met'
<1> USE DEF ChainInv
<1> DEFINE top == Head(stack)
<1>1. stack \in Seq(Exceptions) /\ stack # <<>>
  BY DEF Visit, Pops, ChainTypeOK
<1>2. top \in Exceptions /\ Elements(Pushed) = {f \in Exceptions : Linked(top, f)}
  BY <1>1, PushedFacts
<1>3. Elements(stack) = {top} \cup Elements(Tail(stack))
  BY <1>1, SequenceFacts
<1>4. /\ top \notin seen /\ seen' = seen \cup {top} /\ chain' = chain
      /\ stack' = Pushed \o Tail(stack) /\ h_pops' = h_pops + 1
  BY DEF Visit, Pops
<1>5. /\ Elements(stack') = Elements(Pushed) \cup Elements(Tail(stack))
      /\ chain.cause[top] \in Exceptions => stack' # <<>> /\ Head(stack') = chain.cause[top]
      /\ stack' \in Seq(Exceptions) /\ Len(stack') \in Nat /\ Len(stack') <= Len(stack) + 1
  BY <1>1, <1>4, StackFacts
<1>6. ChainTypeOK'
  <2>1. h_pops + 1 \in Nat
    <3>1. h_pops \in Nat
      BY DEF ChainTypeOK
    <3> QED
      BY ONLY <3>1
  <2>2. seen \cup {top} \subseteq Exceptions /\ chain \in Chains
    BY <1>2 DEF ChainTypeOK
  <2>3. h_pops' \in Nat /\ seen' \subseteq Exceptions /\ chain' \in Chains
    BY ONLY <1>4, <2>1, <2>2
  <2> QED
    BY <1>5, <2>3 DEF ChainTypeOK
<1>7. PopsInv'
  <2>1. /\ IsFiniteSet(seen) /\ Cardinality(seen) \in Nat
        /\ Cardinality(seen \cup {top}) = Cardinality(seen) + 1
    BY <1>4, FS_AddElement, FS_CardinalityType DEF PopsInv
  <2>2. IsFiniteSet(seen')
    BY <1>4, <2>1, FS_AddElement
  <2>3. h_pops + Len(stack) <= 1 + 2 * Cardinality(seen) /\ h_pops \in Nat /\ Len(stack) \in Nat
    BY <1>1, LenProperties DEF PopsInv, ChainTypeOK
  <2>4. h_pops + 1 + Len(stack') <= 1 + 2 * (Cardinality(seen) + 1)
    BY ONLY <1>5, <2>1, <2>3
  <2> QED
    BY <1>4, <2>1, <2>2, <2>4 DEF PopsInv
<1>8. Behind' = Behind /\ \A e, f : Linked(e, f)' <=> Linked(e, f)
  BY <1>4 DEF Behind, Closed, Linked
<1>9. Met \subseteq Met' /\ Met' = Met \cup Elements(Pushed)
  BY <1>3, <1>4, <1>5 DEF Met
<1>10. Elements(Pushed) \subseteq Behind
  BY <1>2, <1>3, BehindFacts DEF WalkInv, Met
<1>11. \A e \in seen', f \in Exceptions : Linked(e, f)' => f \in Met'
  BY <1>2, <1>4, <1>8, <1>9 DEF WalkInv
<1>12. Met' \subseteq Behind' /\ chain'.raised \in Met'
  BY <1>4, <1>8, <1>9, <1>10 DEF WalkInv
<1> QED
  BY <1>2, <1>3, <1>4, <1>5, <1>6, <1>7, <1>11, <1>12

(* The first walk visits one more that is no parse error.                  *)
LEMMA FindInv == ChainInv /\ Find => ChainInv'
<1> SUFFICES ASSUME ChainInv, Find PROVE ChainInv'
  OBVIOUS
<1>1. parts' \in Seq(Exceptions) /\ chars' \in Nat
  BY DEF Find, ChainInv, ChainTypeOK
<1>2. walk = "finding" /\ walk' = "finding" /\ parts' = parts /\ chars' = chars /\ Visit
      /\ ~chain.parse[Head(stack)]
  BY DEF Find
<1>3. ChainTypeOK' /\ PopsInv' /\ WalkInv'
  BY <1>1, <1>2, VisitFacts DEF WalkInv, ChainInv
<1> QED
  BY <1>2, <1>3 DEF ChainInv, ParseErrorsHide, PartsInv, OrderInv

(* A visit of the second walk collects the text of the top.                *)
LEMMA ReadInv == ChainInv /\ Read => ChainInv'
<1> SUFFICES ASSUME ChainInv, Read PROVE ChainInv'
  OBVIOUS
<1> DEFINE top == Head(stack)
           first == chain.raised
           second == chain.cause[first]
<1>1. walk = "reading" /\ walk' = walk /\ Visit
  BY DEF Read
<1>2. /\ parts \in Seq(Exceptions) /\ chars \in Nat /\ stack \in Seq(Exceptions) /\ stack # <<>>
      /\ chain.length \in [Exceptions -> Nat] /\ first \in Exceptions
  BY ChainAssumption DEF Read, Visit, Pops, ChainInv, ChainTypeOK, ChainsOf
<1>3. top \in Exceptions
  BY <1>2, HeadTailProperties
<1>4. /\ chain.length[top] = 0 => parts' = parts /\ chars' = chars
      /\ chain.length[top] > 0 => parts' = Append(parts, top) /\ chars' \in Nat
      /\ chain.length[top] \in Nat
  BY <1>2, <1>3 DEF Read
<1>5. parts' \in Seq(Exceptions) /\ chars' \in Nat
  <2>1. Append(parts, top) \in Seq(Exceptions)
    BY <1>2, <1>3
  <2>2. chain.length[top] = 0 \/ chain.length[top] > 0
    BY <1>4
  <2>3. parts \in Seq(Exceptions) /\ chars \in Nat
    BY <1>2
  <2> QED
    BY ONLY <1>4, <2>1, <2>2, <2>3
<1>6. /\ top \notin seen /\ seen' = seen \cup {top} /\ chain' = chain
      /\ chain.cause[top] \in Exceptions => stack' # <<>> /\ Head(stack') = chain.cause[top]
      /\ ChainTypeOK' /\ PopsInv'
      /\ Met' \subseteq Behind' /\ chain'.raised \in Met'
      /\ \A e \in seen', f \in Exceptions : Linked(e, f)' => f \in Met'
  BY <1>1, <1>5, VisitFacts
<1>7. WalkInv'
  BY <1>1, <1>6 DEF WalkInv
<1>8. ParseErrorsHide'
  <2>1. Behind' = Behind
    BY <1>6 DEF Behind, Closed, Linked
  <2> QED
    BY <1>1, <1>6, <2>1 DEF ParseErrorsHide, ChainInv
<1>9. /\ Elements(parts) = Texts(seen)
      /\ \A m, n \in 1 .. Len(parts) : parts[m] = parts[n] => m = n
      /\ seen = {} => top = first /\ parts = <<>> /\ chars = 0
      /\ seen # {} => first \in seen
      /\ first \in Texts(seen) => Len(parts) >= 1 /\ parts[1] = first
  BY <1>1 DEF ChainInv, PartsInv
<1>10. /\ Texts(seen)' = IF chain.length[top] > 0 THEN Texts(seen) \cup {top} ELSE Texts(seen)
       /\ top \notin Texts(seen)
  BY <1>6 DEF Texts
<1>11. CASE chain.length[top] = 0
  <2>1. parts' = parts /\ chars' = chars /\ Texts(seen)' = Texts(seen)
    BY <1>4, <1>10, <1>11
  <2>2. PartsInv'
    BY <1>6, <1>9, <2>1, <1>1 DEF PartsInv, Elements
  <2>3. OrderInv'
    BY <1>1, <1>6, <1>9, <2>1 DEF OrderInv, ChainInv
  <2> QED
    BY <1>6, <1>7, <1>8, <2>2, <2>3 DEF ChainInv
<1>12. CASE chain.length[top] > 0
  <2>1. /\ Elements(parts') = Elements(parts) \cup {top}
        /\ Len(parts') = Len(parts) + 1 /\ Len(parts) \in Nat
        /\ \A n \in 1 .. Len(parts) : parts'[n] = parts[n]
        /\ parts'[Len(parts) + 1] = top
    <3>1. parts' = Append(parts, top)
      BY <1>4, <1>12
    <3>2. Elements(Append(parts, top)) = Elements(parts) \cup {top}
      BY ONLY <1>2, <1>3, SequenceFacts
    <3>3. /\ Len(Append(parts, top)) = Len(parts) + 1 /\ Len(parts) \in Nat
          /\ \A n \in 1 .. Len(parts) : Append(parts, top)[n] = parts[n]
          /\ Append(parts, top)[Len(parts) + 1] = top
      BY ONLY <1>2, <1>3, AppendProperties, LenProperties
    <3> QED
      BY ONLY <3>1, <3>2, <3>3
  <2>2. \A n \in 1 .. Len(parts) : parts[n] # top
    BY <1>9, <1>10 DEF Elements
  <2>3. \A m, n \in 1 .. Len(parts') : parts'[m] = parts'[n] => m = n
    BY <1>9, <2>1, <2>2
  <2>4. first \in Texts(seen)' => Len(parts') >= 1 /\ parts'[1] = first
    <3>1. CASE seen = {}
      BY <1>9, <2>1, <3>1
    <3>2. CASE seen # {}
      BY <1>6, <1>9, <1>10, <2>1, <3>2
    <3> QED
      BY <3>1, <3>2
  <2>5. PartsInv'
    BY <1>6, <1>9, <1>10, <1>12, <2>1, <2>3, <2>4 DEF PartsInv
  <2>6. OrderInv'
    <3>1. CASE second \notin Exceptions \ {first}
      BY <1>6, <3>1 DEF OrderInv
    <3>2. CASE second \in Exceptions \ {first}
      <4>1. CASE seen = {}
        BY <1>6, <1>9, <3>2, <4>1 DEF OrderInv, Texts
      <4>2. CASE seen = {first}
        <5>1. top = second
          BY <1>1, <3>2, <4>2 DEF OrderInv, ChainInv
        <5>2. seen' = {first, second} /\ second \notin {first}
          BY <1>6, <3>2, <4>2, <5>1
        <5>3. ASSUME first \in Texts(seen)' PROVE Len(parts') >= 2 /\ parts'[2] = second
          <6>1. Texts(seen) = {first} /\ parts[1] = first /\ Len(parts) >= 1
            BY <1>9, <1>10, <4>2, <5>1, <5>2, <5>3 DEF Texts
          <6>2. \A n \in 1 .. Len(parts) : n = 1
            <7> TAKE n \in 1 .. Len(parts)
            <7>1. parts[n] = first
              BY <1>9, <6>1 DEF Elements
            <7>2. 1 \in 1 .. Len(parts)
              BY <2>1, <6>1
            <7> QED
              BY <1>9, <6>1, <7>1, <7>2
          <6>3. Len(parts) = 1
            <7>1. Len(parts) \in 1 .. Len(parts)
              BY <2>1, <6>1
            <7> QED
              BY <6>2, <7>1
          <6> QED
            BY <2>1, <5>1, <6>3
        <5> QED
          BY <1>6, <5>2, <5>3 DEF OrderInv
      <4>3. CASE seen # {} /\ seen # {first}
        <5>1. second \in seen /\ top # second /\ seen' # {first}
          BY <1>1, <1>6, <1>9, <3>2, <4>3 DEF OrderInv, ChainInv
        <5>2. first \in seen
          BY <1>9, <4>3
        <5>3. ASSUME first \in Texts(seen)', second \in Texts(seen)'
              PROVE  Len(parts') >= 2 /\ parts'[2] = second
          <6>1. first \in Texts(seen) /\ second \in Texts(seen)
            BY <1>6, <1>10, <5>1, <5>2, <5>3
          <6>2. Len(parts) >= 2 /\ parts[2] = second
            BY <1>1, <3>2, <6>1 DEF OrderInv, ChainInv
          <6> QED
            BY <2>1, <6>2
        <5> QED
          BY <1>6, <5>1, <5>3 DEF OrderInv
      <4> QED
        BY <4>1, <4>2, <4>3
    <3> QED
      BY <3>1, <3>2
  <2> QED
    BY <1>6, <1>7, <1>8, <2>5, <2>6 DEF ChainInv
<1> QED
  BY <1>4, <1>11, <1>12

(* Whatever leaves seen alone leaves what is collected alone.              *)
LEMMA SkipInv == ChainInv /\ Skip => ChainInv'
<1> SUFFICES ASSUME ChainInv, Skip PROVE ChainInv'
  OBVIOUS
<1> USE DEF ChainInv, Skip, Pops
<1>1. stack \in Seq(Exceptions) /\ stack # <<>> /\ Head(stack) \in seen
  BY DEF ChainTypeOK
<1>2. Elements(stack) = {Head(stack)} \cup Elements(stack') /\ Met' = Met
  BY <1>1, SequenceFacts DEF Met
<1>3. Behind' = Behind /\ \A e, f : Linked(e, f)' <=> Linked(e, f)
  BY DEF Behind, Closed, Linked
<1>4. /\ stack' \in Seq(Exceptions) /\ Len(stack') = Len(stack) - 1
      /\ Len(stack) \in Nat /\ h_pops \in Nat /\ h_pops' = h_pops + 1
  BY <1>1, HeadTailProperties, LenProperties DEF ChainTypeOK
<1>5. ChainTypeOK'
  <2>1. h_pops' \in Nat
    BY ONLY <1>4
  <2> QED
    BY <1>4, <2>1 DEF ChainTypeOK
<1>6. WalkInv' /\ ParseErrorsHide'
  BY <1>2, <1>3 DEF WalkInv, ParseErrorsHide
<1>7. PopsInv'
  <2>1. h_pops' + Len(stack') = h_pops + Len(stack)
    BY ONLY <1>4
  <2> QED
    BY <2>1 DEF PopsInv
<1>8. PartsInv' /\ OrderInv'
  BY <1>1, PartsKept
<1> QED
  BY <1>5, <1>6, <1>7, <1>8

(* It stops at the first parse error.                                      *)
LEMMA FoundInv == ChainInv /\ Found => ChainInv'
<1> SUFFICES ASSUME ChainInv, Found PROVE ChainInv'
  OBVIOUS
<1> USE DEF ChainInv, Found, Pops
<1>1. stack \in Seq(Exceptions) /\ stack # <<>>
  BY DEF ChainTypeOK
<1>2. Elements(stack) = {Head(stack)} \cup Elements(stack') /\ Head(stack) \in Exceptions
  BY <1>1, SequenceFacts, HeadTailProperties
<1>3. Met' = Met /\ Behind' = Behind /\ chain' = chain
  BY <1>2 DEF Met, Behind, Closed, Linked
<1>4. /\ stack' \in Seq(Exceptions) /\ Len(stack') = Len(stack) - 1
      /\ Len(stack) \in Nat
  BY <1>1, HeadTailProperties, LenProperties
<1>5. ChainTypeOK'
  BY <1>2, <1>4 DEF ChainTypeOK
<1>6. WalkInv' /\ ParseErrorsHide'
  BY <1>2, <1>3 DEF WalkInv, ParseErrorsHide, Met
<1>7. PopsInv'
  <2>1. IsFiniteSet(seen) /\ IsFiniteSet(seen')
    BY FS_AddElement DEF PopsInv
  <2>2. Cardinality(seen) <= Cardinality(seen') /\ Cardinality(seen) \in Nat /\ Cardinality(seen') \in Nat
    BY <2>1, FS_Subset, FS_CardinalityType
  <2>3. h_pops' + Len(stack') = h_pops + Len(stack)
    BY <1>4 DEF ChainTypeOK
  <2>4. h_pops + Len(stack) <= 1 + 2 * Cardinality(seen)
    BY DEF PopsInv
  <2>5. h_pops + Len(stack) \in Nat
    BY <1>4 DEF ChainTypeOK
  <2> QED
    BY <2>1, <2>2, <2>3, <2>4, <2>5 DEF PopsInv
<1> QED
  BY <1>5, <1>6, <1>7 DEF PartsInv, OrderInv

(* When the first walk is over it has seen all there is.                   *)
LEMMA AllSeen == ChainInv /\ walk # "redacted" /\ stack = <<>> => seen = Behind
<1> SUFFICES ASSUME ChainInv, walk # "redacted", stack = <<>> PROVE seen = Behind
  OBVIOUS
<1>1. Met = seen
  BY DEF Met, Elements
<1>2. Closed(seen) /\ seen \in SUBSET Exceptions
  BY <1>1 DEF Closed, ChainInv, WalkInv, ChainTypeOK
<1> QED
  BY <1>1, <1>2, BehindFacts DEF ChainInv, WalkInv

(* Without one it has seen all that is behind the raised exception.        *)
LEMMA NoneFoundInv == ChainInv /\ NoneFound => ChainInv'
<1> SUFFICES ASSUME ChainInv, NoneFound PROVE ChainInv'
  OBVIOUS
<1> USE DEF ChainInv, NoneFound
<1>1. chain' = chain /\ Behind' = Behind /\ chain.raised \in Exceptions
  BY ChainAssumption DEF Behind, Closed, Linked, ChainTypeOK, ChainsOf
<1>2. ParseErrorsHide'
  BY <1>1, AllSeen DEF ParseErrorsHide, WalkInv
<1>3. ChainTypeOK'
  BY <1>1 DEF ChainTypeOK
<1>4. WalkInv'
  <2>1. Elements(stack') = {chain.raised}
    BY DEF Elements
  <2> QED
    BY <1>1, <2>1, BehindFacts DEF WalkInv, Met
<1>5. PopsInv'
  <2>1. Cardinality(seen') = 0 /\ IsFiniteSet(seen') /\ h_pops' = 0 /\ Len(stack') = 1
    BY FS_EmptySet
  <2> QED
    BY ONLY <2>1 DEF PopsInv
<1>6. parts' = <<>> /\ chars' = 0 /\ seen' = {} /\ stack' = <<chain'.raised>>
  BY DEF WalkInv
<1>7. PartsInv' /\ OrderInv'
  <2>1. Elements(parts') = {} /\ Texts(seen)' = {} /\ Len(parts') = 0
    BY <1>6 DEF Texts, Elements
  <2>2. 1 .. Len(parts') = {}
    BY <2>1
  <2> QED
    BY <1>6, <2>1, <2>2 DEF PartsInv, OrderInv
<1> QED
  BY <1>2, <1>3, <1>4, <1>5, <1>7

(* The second walk ends when the text is full or all have been seen.       *)
LEMMA AnswerInv == ChainInv /\ Answer => ChainInv'
<1> SUFFICES ASSUME ChainInv, Answer PROVE ChainInv'
  OBVIOUS
<1> USE DEF ChainInv, Answer
<1>1. Met' = Met /\ Behind' = Behind /\ \A e, f : Linked(e, f)' <=> Linked(e, f)
  BY DEF Met, Behind, Closed, Linked
<1>2. walk' # "redacted" /\ walk' # "finding"
  OBVIOUS
<1>3. ChainTypeOK' /\ PopsInv'
  BY DEF ChainTypeOK, PopsInv
<1>4. WalkInv' /\ ParseErrorsHide'
  BY <1>1, <1>2 DEF WalkInv, ParseErrorsHide
<1>5. PartsInv' /\ OrderInv'
  BY PartsKept
<1> QED
  BY <1>3, <1>4, <1>5

(* ChainInv is an invariant of every walk over every chain.                *)
THEOREM ChainInvariant == ChainSpec => []ChainInv
<1>1. ChainInv /\ [ChainNext]_chainVars => ChainInv'
  <2> SUFFICES ASSUME ChainInv, [ChainNext]_chainVars PROVE ChainInv'
    OBVIOUS
  <2>1. CASE UNCHANGED chainVars
    <3>1. Met' = Met /\ Behind' = Behind /\ \A e, f : Linked(e, f)' <=> Linked(e, f)
      BY <2>1 DEF chainVars, Met, Behind, Closed, Linked
    <3>2. ChainTypeOK' /\ ParseErrorsHide' /\ WalkInv' /\ PopsInv'
      BY <2>1, <3>1 DEF chainVars, ChainInv, ChainTypeOK, ParseErrorsHide, WalkInv, PopsInv
    <3>3. PartsInv' /\ OrderInv'
      BY <2>1, PartsKept DEF chainVars, ChainInv
    <3> QED
      BY <3>2, <3>3 DEF ChainInv
  <2> QED
    BY <2>1, SkipInv, FindInv, FoundInv, NoneFoundInv, ReadInv, AnswerInv DEF ChainNext
<1> QED
  BY <1>1, ChainInitInv, PTL DEF ChainSpec

(* The stack, the set of seen exceptions and the parts of a message keep   *)
(* their types: what is pushed is an exception, never a missing link.      *)
THEOREM ChainTypesHold == ChainSpec => []ChainTypeOK
<1>1. ChainInv => ChainTypeOK
  BY DEF ChainInv
<1> QED
  BY <1>1, ChainInvariant, PTL

(* A parse error anywhere behind an exception hides its message.           *)
THEOREM ParseErrorsAlwaysHide == ChainSpec => []ParseErrorsHide
<1>1. ChainInv => ParseErrorsHide
  BY DEF ChainInv
<1> QED
  BY <1>1, ChainInvariant, PTL

(* A message has what is behind the exception, once, whatever the cycles.  *)
THEOREM ChainsAreRead == ChainSpec => []ChainIsRead
<1>1. ChainInv => ChainIsRead
  <2> SUFFICES ASSUME ChainInv, walk = "answered" PROVE ChainIsRead
    BY DEF ChainIsRead
  <2> DEFINE first == chain.raised
             second == chain.cause[first]
             texts == {e \in Behind : chain.length[e] > 0}
  <2>1. /\ Elements(parts) = Texts(seen) /\ seen \subseteq Behind
        /\ \A m, n \in 1 .. Len(parts) : parts[m] = parts[n] => m = n
        /\ stack = <<>> \/ chars >= SAFE_MESSAGE_MAX_CHARS
        /\ seen = {} => stack = <<first>> /\ chars = 0
        /\ seen # {} => first \in seen
        /\ first \in Texts(seen) => Len(parts) >= 1 /\ parts[1] = first
    BY DEF ChainInv, PartsInv, WalkInv, Met
  <2>2. chars < SAFE_MESSAGE_MAX_CHARS => seen = Behind
    <3>1. chars \in Nat /\ SAFE_MESSAGE_MAX_CHARS \in Nat
      BY ChainAssumption DEF ChainInv, ChainTypeOK
    <3> QED
      BY <2>1, <3>1, AllSeen
  <2>3. first \in seen
    BY <2>1, ChainAssumption
  <2>4. \A n \in 1 .. Len(parts) : parts[n] \in texts
    BY <2>1 DEF Elements, Texts
  <2>5. chars < SAFE_MESSAGE_MAX_CHARS => \A e \in texts : \E n \in 1 .. Len(parts) : parts[n] = e
    BY <2>1, <2>2 DEF Elements, Texts
  <2>6. first \in texts => Len(parts) >= 1 /\ parts[1] = first
    BY <2>1, <2>3 DEF Texts
  <2>7. ASSUME first \in texts, second \in texts \ {first}, Len(parts) >= 2
        PROVE  parts[2] = second
    <3>1. second \in Exceptions \ {first} /\ first \in Texts(seen)
      BY <2>3, <2>7 DEF Behind, Texts
    <3>2. 1 \in 1 .. Len(parts) /\ 2 \in 1 .. Len(parts)
      <4>1. Len(parts) \in Nat
        BY LenProperties DEF ChainInv, ChainTypeOK
      <4> QED
        BY <2>7, <4>1
    <3>3. parts[1] # parts[2] /\ parts[1] \in seen /\ parts[2] \in seen
      BY <2>1, <3>2 DEF Elements, Texts
    <3>4. second \in seen
      BY <3>1, <3>3 DEF ChainInv, OrderInv
    <3>5. second \in Texts(seen)
      BY <2>7, <3>4 DEF Texts
    <3> QED
      BY <3>1, <3>5 DEF ChainInv, OrderInv
  <2> QED
    BY <2>1, <2>4, <2>5, <2>6, <2>7 DEF ChainIsRead
<1> QED
  BY <1>1, ChainInvariant, PTL

(* Walks end: they pop no more often than what they have seen allows.      *)
THEOREM WalksEnd == ChainSpec => []WalksAreShort
<1>1. ChainInv => WalksAreShort
  <2> SUFFICES ASSUME ChainInv PROVE WalksAreShort
    OBVIOUS
  <2>1. /\ h_pops \in Nat /\ Len(stack) \in Nat /\ Cardinality(seen) \in Nat
        /\ h_pops + Len(stack) <= 1 + 2 * Cardinality(seen)
    BY LenProperties, FS_CardinalityType DEF ChainInv, ChainTypeOK, PopsInv
  <2> QED
    BY ONLY <2>1 DEF WalksAreShort
<1> QED
  BY <1>1, ChainInvariant, PTL

(* Messages are right for any graph of causes and contexts and any texts.  *)
THEOREM MessagesAreRight == ChainSpec => []MessageIsRight
<1>1. ParseErrorsHide /\ ChainIsRead /\ WalksAreShort => MessageIsRight
  BY DEF MessageIsRight
<1> QED
  BY <1>1, ParseErrorsAlwaysHide, ChainsAreRead, WalksEnd, PTL

-----------------------------------------------------------------------------
Numbers == 1 .. tree.size

(* r is the first of the most severe failures from a to b.                 *)
IsWorst(a, b, r) ==
    IF r = NoFailure THEN \A n \in Failed : ~(a <= n /\ n <= b)
    ELSE /\ r \in Failed /\ a <= r /\ r <= b
         /\ \A n \in Failed : a <= n /\ n <= b =>
               Rank(n) <= Rank(r) /\ (n < r => Rank(n) < Rank(r))

(* How far the call s[k] has come, when n is what is met next.             *)
Until(s, n, k) == IF k = 1 THEN n - 1 ELSE s[k - 1].of - 1

(* Calls that are under way are for groups in each other.                  *)
CallsInv(s, n) ==
    /\ \A k \in 1 .. Len(s) :
          /\ tree.group[s[k].of]
          /\ s[k].of <= Until(s, n, k) /\ Until(s, n, k) <= tree.last[s[k].of]
          /\ k > 1 => tree.last[s[k - 1].of] <= tree.last[s[k].of]
          /\ IsWorst(s[k].of + 1, Until(s, n, k), s[k].worst)
    /\ s # <<>> => s[Len(s)].of = 1

Calls == [of : Numbers, worst : Numbers \cup {NoFailure}]

GroupsInv ==
    /\ tree \in Trees /\ next \in 1 .. tree.size + 1
    /\ calls \in Seq(Calls) /\ CallsInv(calls, next)
    /\ calls = <<>> =>
          \/ next = 1
          \/ next = tree.size + 1 /\ IsWorst(1, tree.size, verdict)

(* Levels go with their classes, whatever is classified.                   *)
LEMMA RulesFit ==
    ASSUME NEW types
    PROVE  /\ ClassifySingle(types).class \in DOMAIN Severity
           /\ ClassifySingle(types).level \in Permitted[ClassifySingle(types).class]
<1> DEFINE fitting == {n \in DOMAIN Rules : Rules[n].types \cap types # {}}
<1>1. DOMAIN Rules = 1 .. 5
  BY DEF Rules
<1>2. \A n \in 1 .. 5 :
         /\ Rules[n].as.class \in DOMAIN Severity
         /\ Rules[n].as.level \in Permitted[Rules[n].as.class]
  BY DEF Rules, As, Severity, Permitted
<1>3. CASE fitting # {}
  <2>1. PICK m \in fitting : \A n \in fitting : m <= n
    BY <1>1, <1>3, LeastNatural
  <2>2. Min(fitting) \in fitting
    BY <2>1 DEF Min
  <2> QED BY <2>2, <1>1, <1>2, <1>3 DEF ClassifySingle
<1>4. CASE fitting = {}
  BY <1>4 DEF ClassifySingle, As, Severity, Permitted
<1> QED BY <1>3, <1>4

(* Every exception has a severity.                                         *)
LEMMA RankIsNatural == ASSUME NEW n PROVE Rank(n) \in Nat
BY RulesFit DEF Rank, ClassOf, Severity

(* What GroupsAssumption says of the tree that is classified.              *)
LEMMA TreeFacts ==
    ASSUME tree \in Trees
    PROVE  /\ tree.size \in Nat \ {0} /\ tree.last[1] = tree.size
           /\ \A n \in Numbers :
                 /\ n \in Nat /\ tree.last[n] \in Numbers /\ n <= tree.last[n]
                 /\ ~tree.group[n] => tree.last[n] = n
                 /\ \A m \in Numbers : n <= m /\ m <= tree.last[n] => tree.last[m] <= tree.last[n]
           /\ Failed \subseteq Numbers
<1>1. WellFormed(tree)
  BY GroupsAssumption
<1>2. tree.size \in Nat \ {0} /\ tree.last[1] = tree.size /\ Failed \subseteq Numbers
  BY <1>1 DEF WellFormed, Failed, Numbers
<1>3. ASSUME NEW n \in Numbers
      PROVE  /\ n \in Nat /\ tree.last[n] \in Numbers /\ n <= tree.last[n]
             /\ ~tree.group[n] => tree.last[n] = n
             /\ \A m \in Numbers : n <= m /\ m <= tree.last[n] => tree.last[m] <= tree.last[n]
  BY <1>1, <1>2 DEF WellFormed, Numbers
<1> QED BY <1>2, <1>3

(* What max() keeps is the worst of both ranges.                           *)
LEMMA WorstOfBoth ==
    ASSUME tree \in Trees, NEW a \in Nat, NEW b \in Nat, NEW c \in Nat, a <= b + 1, b <= c,
           NEW r, NEW s, IsWorst(a, b, r), IsWorst(b + 1, c, s)
    PROVE  IsWorst(a, c, Worse(r, s))
<1>1. Failed \subseteq Nat /\ NoFailure \notin Failed
  BY TreeFacts DEF Numbers, NoFailure
<1>2. \A n \in Failed : a <= n /\ n <= c => (a <= n /\ n <= b) \/ (b + 1 <= n /\ n <= c)
  BY <1>1
<1>3. CASE s = NoFailure
  <2>1. Worse(r, s) = r
    BY <1>3 DEF Worse
  <2>2. \A n \in Failed : ~(b + 1 <= n /\ n <= c)
    BY <1>3 DEF IsWorst
  <2>3. \A n \in Failed : a <= n /\ n <= c => a <= n /\ n <= b
    BY <1>2, <2>2
  <2>4. r # NoFailure => r \in Failed /\ r <= b /\ r \in Nat
    BY <1>1 DEF IsWorst
  <2>5. r # NoFailure => r <= c
    BY <2>4
  <2> QED BY <2>1, <2>3, <2>5 DEF IsWorst
<1>4. CASE s # NoFailure /\ r = NoFailure
  <2>1. Worse(r, s) = s
    BY <1>4 DEF Worse
  <2>2. \A n \in Failed : ~(a <= n /\ n <= b)
    BY <1>4 DEF IsWorst
  <2>3. \A n \in Failed : a <= n /\ n <= c => b + 1 <= n /\ n <= c
    BY <1>2, <2>2
  <2>4. s \in Failed /\ b + 1 <= s /\ s <= c /\ s \in Nat
    BY <1>1, <1>4 DEF IsWorst
  <2>5. a <= s
    BY <2>4
  <2> QED BY <2>1, <2>3, <2>4, <2>5, <1>4 DEF IsWorst
<1>5. CASE s # NoFailure /\ r # NoFailure
  <2>1. /\ r \in Failed /\ s \in Failed /\ a <= r /\ r <= b /\ b + 1 <= s /\ s <= c
        /\ \A n \in Failed : a <= n /\ n <= b =>
              Rank(n) <= Rank(r) /\ (n < r => Rank(n) < Rank(r))
        /\ \A n \in Failed : b + 1 <= n /\ n <= c =>
              Rank(n) <= Rank(s) /\ (n < s => Rank(n) < Rank(s))
    BY <1>5 DEF IsWorst
  <2>2. \A n : Rank(n) \in Nat
    BY RankIsNatural
  <2>3. CASE Rank(s) > Rank(r)
    <3>1. Worse(r, s) = s
      BY <1>5, <2>3 DEF Worse
    <3>2. a <= s
      BY <2>1, <1>1
    <3>3. ASSUME NEW n \in Failed, a <= n, n <= c
          PROVE  Rank(n) <= Rank(s) /\ (n < s => Rank(n) < Rank(s))
      <4>1. CASE n <= b
        BY <4>1, <3>3, <2>1, <2>2, <2>3
      <4>2. CASE b + 1 <= n
        BY <4>2, <3>3, <2>1
      <4> QED BY <4>1, <4>2, <1>2, <3>3
    <3> QED BY <3>1, <3>2, <3>3, <2>1, <1>5 DEF IsWorst
  <2>4. CASE ~(Rank(s) > Rank(r))
    <3>1. Worse(r, s) = r
      BY <1>5, <2>4 DEF Worse
    <3>2. r <= c /\ r \in Nat /\ r < b + 1
      BY <2>1, <1>1
    <3>3. ASSUME NEW n \in Failed, a <= n, n <= c
          PROVE  Rank(n) <= Rank(r) /\ (n < r => Rank(n) < Rank(r))
      <4>1. CASE n <= b
        BY <4>1, <3>3, <2>1
      <4>2. CASE b + 1 <= n
        <5>1. Rank(n) <= Rank(s)
          BY <4>2, <3>3, <2>1
        <5>2. ~(n < r)
          BY <4>2, <3>2, <1>1
        <5> QED BY <5>1, <5>2, <2>2, <2>4
      <4> QED BY <4>1, <4>2, <1>2, <3>3
    <3> QED BY <3>1, <3>2, <3>3, <2>1, <1>5 DEF IsWorst
  <2> QED BY <2>3, <2>4
<1> QED BY <1>3, <1>4, <1>5

(* The stack of calls with its top replaced, and with one more on it.      *)
LEMMA CallStackFacts ==
    ASSUME NEW R, NEW s \in Seq(R), NEW c \in R
    PROVE  /\ <<c>> \o s \in Seq(R) /\ Len(<<c>> \o s) = Len(s) + 1
           /\ (<<c>> \o s)[1] = c
           /\ \A k \in 1 .. Len(s) : (<<c>> \o s)[k + 1] = s[k]
           /\ s # <<>> =>
                 /\ Head(s) = s[1] /\ Len(s) >= 1
                 /\ Tail(s) \in Seq(R) /\ Len(Tail(s)) = Len(s) - 1
                 /\ \A k \in 1 .. Len(s) - 1 : Tail(s)[k] = s[k + 1]
                 /\ <<c>> \o Tail(s) \in Seq(R) /\ Len(<<c>> \o Tail(s)) = Len(s)
                 /\ (<<c>> \o Tail(s))[1] = c
                 /\ \A k \in 2 .. Len(s) : (<<c>> \o Tail(s))[k] = s[k]
<1>1. /\ <<c>> \o s \in Seq(R) /\ Len(<<c>> \o s) = Len(s) + 1
      /\ (<<c>> \o s)[1] = c
      /\ \A k \in 1 .. Len(s) : (<<c>> \o s)[k + 1] = s[k]
  OBVIOUS
<1>2. ASSUME s # <<>>
      PROVE  /\ Head(s) = s[1] /\ Len(s) >= 1
             /\ Tail(s) \in Seq(R) /\ Len(Tail(s)) = Len(s) - 1
             /\ \A k \in 1 .. Len(s) - 1 : Tail(s)[k] = s[k + 1]
  BY <1>2
<1>3. ASSUME s # <<>>
      PROVE  /\ <<c>> \o Tail(s) \in Seq(R) /\ Len(<<c>> \o Tail(s)) = Len(s)
             /\ (<<c>> \o Tail(s))[1] = c
             /\ \A k \in 2 .. Len(s) : (<<c>> \o Tail(s))[k] = s[k]
  <2> DEFINE t == Tail(s)
  <2>1. t \in Seq(R) /\ Len(t) = Len(s) - 1 /\ \A k \in 1 .. Len(s) - 1 : t[k] = s[k + 1]
    BY <1>2, <1>3
  <2> HIDE DEF t
  <2>2. /\ <<c>> \o t \in Seq(R) /\ Len(<<c>> \o t) = Len(t) + 1
        /\ (<<c>> \o t)[1] = c
        /\ \A k \in 2 .. Len(t) + 1 : (<<c>> \o t)[k] = t[k - 1]
    BY <2>1
  <2>3. ASSUME NEW k \in 2 .. Len(s) PROVE (<<c>> \o t)[k] = s[k]
    <3>1. t[k - 1] = s[(k - 1) + 1] /\ (k - 1) + 1 = k /\ k \in 2 .. Len(t) + 1
      BY <2>1
    <3> QED BY <3>1, <2>2
  <2>4. Len(<<c>> \o t) = Len(s)
    BY <2>1, <2>2
  <2> QED BY <2>2, <2>3, <2>4 DEF t
<1> QED BY <1>1, <1>2, <1>3

(* The types of a call's fields.                                           *)
LEMMA CallFacts ==
    ASSUME tree \in Trees, NEW s \in Seq(Calls), NEW k \in 1 .. Len(s)
    PROVE  /\ s[k].of \in Numbers /\ s[k].of \in Nat /\ s[k].worst \in Numbers \cup {NoFailure}
           /\ tree.last[s[k].of] \in Nat
<1>1. s[k] \in Calls
  OBVIOUS
<1> QED BY <1>1, TreeFacts DEF Calls, Numbers

(* A result for the range from a to b brings the calls that wait for it    *)
(* to b + 1.                                                               *)
LEMMA ReturnKeepsCalls ==
    ASSUME tree \in Trees, NEW w \in Seq(Calls), w # <<>>, NEW a \in Nat, NEW b \in Nat, a <= b + 1,
           CallsInv(w, a), NEW r \in Numbers \cup {NoFailure}, IsWorst(a, b, r),
           a <= b, b <= tree.last[w[1].of]
    PROVE  LET s == <<Call(Head(w).of, Worse(Head(w).worst, r))>> \o Tail(w)
           IN  s \in Seq(Calls) /\ CallsInv(s, b + 1)
<1> DEFINE c == Call(Head(w).of, Worse(Head(w).worst, r))
           s == <<c>> \o Tail(w)
<1>1. Len(w) \in Nat /\ Len(w) >= 1 /\ Head(w) = w[1] /\ 1 \in 1 .. Len(w)
  OBVIOUS
<1>2. w[1].of \in Nat /\ w[1].of \in Numbers /\ w[1].worst \in Numbers \cup {NoFailure}
  BY <1>1, CallFacts
<1>3. c \in Calls /\ c.of = w[1].of /\ c.worst = Worse(w[1].worst, r)
  BY <1>1, <1>2 DEF Call, Calls, Worse
<1>4. /\ s \in Seq(Calls) /\ Len(s) = Len(w) /\ s[1] = c
      /\ \A k \in 2 .. Len(w) : s[k] = w[k]
  BY <1>3, CallStackFacts
<1>5. \A k \in 1 .. Len(w) : s[k].of = w[k].of
  BY <1>1, <1>3, <1>4
<1> HIDE DEF c, s
<1>6. /\ tree.group[w[1].of] /\ w[1].of <= a - 1
      /\ IsWorst(w[1].of + 1, a - 1, w[1].worst)
  BY <1>1 DEF CallsInv, Until
<1>7. IsWorst(w[1].of + 1, b, c.worst)
  <2>1. IsWorst((a - 1) + 1, b, r)
    OBVIOUS
  <2>2. w[1].of + 1 \in Nat /\ a - 1 \in Nat /\ w[1].of + 1 <= (a - 1) + 1 /\ a - 1 <= b
    BY <1>2, <1>6
  <2> QED BY <2>1, <2>2, <1>3, <1>6, WorstOfBoth
<1>8. ASSUME NEW k \in 1 .. Len(s)
      PROVE  /\ tree.group[s[k].of]
             /\ s[k].of <= Until(s, b + 1, k) /\ Until(s, b + 1, k) <= tree.last[s[k].of]
             /\ k > 1 => tree.last[s[k - 1].of] <= tree.last[s[k].of]
             /\ IsWorst(s[k].of + 1, Until(s, b + 1, k), s[k].worst)
  <2>1. CASE k = 1
    <3>1. s[k].of = w[1].of /\ s[k].worst = c.worst /\ Until(s, b + 1, k) = b
      BY <2>1, <1>3, <1>4 DEF Until
    <3> QED BY <3>1, <2>1, <1>2, <1>6, <1>7
  <2>2. CASE k # 1
    <3>1. /\ k \in 2 .. Len(w) /\ k - 1 \in 1 .. Len(w) /\ k \in 1 .. Len(w)
      BY <2>2, <1>4, <1>1
    <3>2. s[k] = w[k] /\ s[k - 1].of = w[k - 1].of
      BY <3>1, <1>4, <1>5
    <3>3. Until(s, b + 1, k) = Until(w, a, k)
      BY <3>2, <2>2 DEF Until
    <3> QED BY <3>1, <3>2, <3>3 DEF CallsInv
  <2> QED BY <2>1, <2>2
<1>9. s[Len(s)].of = 1
  BY <1>1, <1>4, <1>5 DEF CallsInv
<1>10. CallsInv(s, b + 1)
  BY <1>8, <1>9 DEF CallsInv
<1> QED BY <1>4, <1>10 DEF s, c

(* A call for a group that is met has nothing to compare yet.              *)
LEMMA EnterKeepsCalls ==
    ASSUME tree \in Trees, NEW s \in Seq(Calls), NEW n \in Numbers, CallsInv(s, n),
           tree.group[n], IF s = <<>> THEN n = 1 ELSE n <= tree.last[s[1].of]
    PROVE  <<Call(n, NoFailure)>> \o s \in Seq(Calls) /\ CallsInv(<<Call(n, NoFailure)>> \o s, n + 1)
<1> DEFINE c == Call(n, NoFailure)
           t == <<c>> \o s
<1>1. c \in Calls /\ c.of = n /\ c.worst = NoFailure
  BY DEF Call, Calls
<1>2. /\ t \in Seq(Calls) /\ Len(t) = Len(s) + 1 /\ t[1] = c
      /\ \A k \in 1 .. Len(s) : t[k + 1] = s[k]
  BY <1>1, CallStackFacts
<1>3. n \in Nat /\ n <= tree.last[n] /\ tree.last[n] \in Nat /\ Len(s) \in Nat
  BY TreeFacts DEF Numbers
<1> HIDE DEF c, t
<1>4. ASSUME NEW k \in 1 .. Len(t)
      PROVE  /\ tree.group[t[k].of]
             /\ t[k].of <= Until(t, n + 1, k) /\ Until(t, n + 1, k) <= tree.last[t[k].of]
             /\ k > 1 => tree.last[t[k - 1].of] <= tree.last[t[k].of]
             /\ IsWorst(t[k].of + 1, Until(t, n + 1, k), t[k].worst)
  <2>1. CASE k = 1
    <3>1. t[k].of = n /\ t[k].worst = NoFailure /\ Until(t, n + 1, k) = n
      BY <2>1, <1>1, <1>2, <1>3 DEF Until
    <3>2. IsWorst(n + 1, n, NoFailure)
      <4>1. \A m \in Failed : m \in Nat
        BY TreeFacts DEF Numbers
      <4>2. \A m \in Nat : ~(n + 1 <= m /\ m <= n)
        BY <1>3
      <4> QED BY <4>1, <4>2 DEF IsWorst
    <3> QED BY <3>1, <3>2, <2>1, <1>3
  <2>2. CASE k = 2
    <3>1. /\ 1 \in 1 .. Len(s) /\ t[2] = s[1] /\ t[1].of = n /\ s # <<>>
      <4>1. 1 \in 1 .. Len(s)
        BY <2>2, <1>2, <1>3
      <4>2. t[1 + 1] = s[1] /\ 1 + 1 = 2
        BY <4>1, <1>2
      <4> QED BY <4>1, <4>2, <1>1, <1>2
    <3>2. Until(t, n + 1, k) = n - 1 /\ Until(s, n, 1) = n - 1
      BY <3>1, <2>2 DEF Until
    <3>3. s[1].of \in Numbers /\ s[1].of \in Nat /\ tree.last[s[1].of] \in Nat
      BY <3>1, CallFacts
    <3>4. /\ tree.group[s[1].of] /\ s[1].of <= n - 1 /\ n - 1 <= tree.last[s[1].of]
          /\ IsWorst(s[1].of + 1, n - 1, s[1].worst)
      BY <3>1, <3>2 DEF CallsInv
    <3>5. tree.last[n] <= tree.last[s[1].of]
      BY <3>1, <3>3, <3>4, <1>3, TreeFacts
    <3> QED BY <3>1, <3>2, <3>4, <3>5, <2>2
  <2>3. CASE k > 2
    <3>1. /\ k - 1 \in 1 .. Len(s) /\ k - 2 \in 1 .. Len(s) /\ k - 1 > 1
          /\ (k - 1) + 1 = k /\ (k - 2) + 1 = k - 1 /\ (k - 1) - 1 = k - 2
      BY <2>3, <1>2, <1>3
    <3>2. t[k] = s[k - 1] /\ t[k - 1] = s[k - 2]
      BY <3>1, <1>2
    <3>3. Until(t, n + 1, k) = Until(s, n, k - 1)
      BY <3>1, <3>2, <2>3 DEF Until
    <3>4. /\ tree.group[s[k - 1].of]
          /\ s[k - 1].of <= Until(s, n, k - 1) /\ Until(s, n, k - 1) <= tree.last[s[k - 1].of]
          /\ tree.last[s[k - 2].of] <= tree.last[s[k - 1].of]
          /\ IsWorst(s[k - 1].of + 1, Until(s, n, k - 1), s[k - 1].worst)
      BY <3>1 DEF CallsInv
    <3> QED BY <3>2, <3>3, <3>4
  <2> QED BY <2>1, <2>2, <2>3, <1>2, <1>3
<1>5. t[Len(t)].of = 1
  <2>1. CASE s = <<>>
    BY <2>1, <1>1, <1>2
  <2>2. CASE s # <<>>
    BY <2>2, <1>2, <1>3 DEF CallsInv
  <2> QED BY <2>1, <2>2
<1>6. CallsInv(t, n + 1)
  BY <1>4, <1>5 DEF CallsInv
<1> QED BY <1>2, <1>6 DEF t, c

(* The call on top of the stack is done with the whole of its group.       *)
LEMMA LeaveKeepsCalls ==
    ASSUME tree \in Trees, NEW s \in Seq(Calls), NEW n \in Nat, CallsInv(s, n), s # <<>>,
           n > tree.last[s[1].of]
    PROVE  /\ Head(s) = s[1] /\ s[1] \in Calls /\ n - 1 = tree.last[s[1].of]
           /\ IsWorst(s[1].of, n - 1, s[1].worst)
           /\ Tail(s) \in Seq(Calls)
           /\ Tail(s) = <<>> => s[1].of = 1
           /\ Tail(s) # <<>> =>
                 CallsInv(Tail(s), s[1].of) /\ tree.last[s[1].of] <= tree.last[Tail(s)[1].of]
<1> DEFINE t == Tail(s)
<1>1. Len(s) \in Nat /\ Len(s) >= 1 /\ Head(s) = s[1] /\ 1 \in 1 .. Len(s) /\ s[1] \in Calls
  OBVIOUS
<1>2. t \in Seq(Calls) /\ Len(t) = Len(s) - 1 /\ \A k \in 1 .. Len(t) : t[k] = s[k + 1]
  BY <1>1
<1>3. /\ s[1].of \in Numbers /\ s[1].of \in Nat /\ tree.last[s[1].of] \in Nat
      /\ s[1].worst \in Numbers \cup {NoFailure}
  BY <1>1, CallFacts
<1> HIDE DEF t
<1>4. /\ tree.group[s[1].of] /\ s[1].of <= n - 1 /\ n - 1 <= tree.last[s[1].of]
      /\ IsWorst(s[1].of + 1, n - 1, s[1].worst)
  BY <1>1 DEF CallsInv, Until
<1>5. n - 1 = tree.last[s[1].of]
  BY <1>3, <1>4
<1>6. IsWorst(s[1].of, n - 1, s[1].worst)
  <2>1. s[1].of \notin Failed /\ \A m \in Failed : m \in Nat
    BY <1>4, TreeFacts DEF Failed, Numbers
  <2>2. \A m \in Failed : s[1].of <= m <=> s[1].of + 1 <= m
    BY <2>1, <1>3
  <2> QED BY <2>2, <1>4 DEF IsWorst
<1>7. ASSUME t = <<>> PROVE s[1].of = 1
  <2>1. Len(s) = 1
    BY <1>7, <1>1, <1>2
  <2> QED BY <2>1 DEF CallsInv
<1>8. ASSUME t # <<>>
      PROVE  CallsInv(t, s[1].of) /\ tree.last[s[1].of] <= tree.last[t[1].of]
  <2>1. Len(t) \in Nat /\ Len(t) >= 1
    BY <1>8, <1>2
  <2>2. ASSUME NEW k \in 1 .. Len(t)
        PROVE  /\ tree.group[t[k].of]
               /\ t[k].of <= Until(t, s[1].of, k) /\ Until(t, s[1].of, k) <= tree.last[t[k].of]
               /\ k > 1 => tree.last[t[k - 1].of] <= tree.last[t[k].of]
               /\ IsWorst(t[k].of + 1, Until(t, s[1].of, k), t[k].worst)
    <3>1. k + 1 \in 1 .. Len(s) /\ k + 1 > 1 /\ (k + 1) - 1 = k /\ t[k] = s[k + 1] /\ k \in Nat
      BY <1>2, <2>1
    <3>2. k > 1 => t[k - 1] = s[k]
      <4>1. ASSUME k > 1 PROVE k - 1 \in 1 .. Len(t) /\ (k - 1) + 1 = k
        BY <4>1, <3>1
      <4> QED BY <4>1, <1>2
    <3>3. Until(t, s[1].of, k) = Until(s, n, k + 1)
      BY <3>1, <3>2 DEF Until
    <3>4. /\ tree.group[s[k + 1].of]
          /\ s[k + 1].of <= Until(s, n, k + 1) /\ Until(s, n, k + 1) <= tree.last[s[k + 1].of]
          /\ tree.last[s[k].of] <= tree.last[s[k + 1].of]
          /\ IsWorst(s[k + 1].of + 1, Until(s, n, k + 1), s[k + 1].worst)
      BY <3>1 DEF CallsInv
    <3> QED BY <3>1, <3>2, <3>3, <3>4
  <2>3. t[Len(t)].of = 1
    <3>1. Len(t) \in 1 .. Len(t) /\ Len(t) + 1 = Len(s)
      BY <2>1, <1>2, <1>1
    <3> QED BY <3>1, <1>1, <1>2 DEF CallsInv
  <2>4. tree.last[s[1].of] <= tree.last[t[1].of]
    <3>1. 1 \in 1 .. Len(t) /\ 2 \in 1 .. Len(s) /\ 2 > 1 /\ 2 - 1 = 1 /\ t[1] = s[1 + 1] /\ 1 + 1 = 2
      BY <2>1, <1>2, <1>1
    <3>2. tree.last[s[2 - 1].of] <= tree.last[s[2].of]
      BY <3>1 DEF CallsInv
    <3> QED BY <3>1, <3>2
  <2> QED BY <2>2, <2>3, <2>4 DEF CallsInv
<1> QED BY <1>1, <1>2, <1>5, <1>6, <1>7, <1>8 DEF t

(* What is said of the tree alone stays.                                   *)
LEMMA TreeIsKept ==
    ASSUME UNCHANGED tree
    PROVE  /\ Failed' = Failed /\ Numbers' = Numbers /\ Calls' = Calls
           /\ \A a, b, r : IsWorst(a, b, r)' = IsWorst(a, b, r)
           /\ \A s, n : CallsInv(s, n)' = CallsInv(s, n)
<1>1. Failed' = Failed /\ Numbers' = Numbers /\ Calls' = Calls
  BY DEF Failed, Numbers, Calls
<1>2. ASSUME NEW n PROVE Rank(n)' = Rank(n)
  BY DEF Rank, ClassOf
<1>3. ASSUME NEW a, NEW b, NEW r PROVE IsWorst(a, b, r)' = IsWorst(a, b, r)
  BY <1>1, <1>2 DEF IsWorst
<1>4. ASSUME NEW s, NEW n PROVE CallsInv(s, n)' = CallsInv(s, n)
  BY <1>3 DEF CallsInv, Until
<1> QED BY <1>1, <1>3, <1>4

(* Nothing is met, and so nothing is to be said, at first.                 *)
LEMMA GroupsInitInv == GroupsInit => GroupsInv
<1> SUFFICES ASSUME GroupsInit PROVE GroupsInv
  OBVIOUS
<1>1. tree \in Trees /\ next = 1 /\ calls = <<>>
  BY DEF GroupsInit, GroupsStart
<1>2. next \in 1 .. tree.size + 1
  BY <1>1, TreeFacts
<1>3. calls \in Seq(Calls) /\ CallsInv(calls, next)
  BY <1>1 DEF CallsInv
<1> QED BY <1>1, <1>2, <1>3 DEF GroupsInv

(* What is met next is in the tree, and in the group of the innermost call.*)
LEMMA MeetFacts ==
    ASSUME GroupsInv, Meet
    PROVE  /\ UNCHANGED tree /\ next \in Numbers /\ next' = next + 1
           /\ next' \in 1 .. tree.size + 1
           /\ IF calls = <<>> THEN next = 1 ELSE next <= tree.last[calls[1].of]
<1>1. tree \in Trees /\ calls \in Seq(Calls) /\ next \in 1 .. tree.size + 1
  BY DEF GroupsInv
<1>2. tree.size \in Nat
  BY <1>1, TreeFacts
<1>3. CASE calls = <<>>
  BY <1>1, <1>2, <1>3 DEF GroupsInv, Meet, Numbers
<1>4. CASE calls # <<>>
  <2>1. Head(calls) = calls[1] /\ 1 \in 1 .. Len(calls)
    BY <1>1, <1>4
  <2>2. tree.last[calls[1].of] \in Numbers
    BY <2>1, <1>1, CallFacts, TreeFacts
  <2> QED BY <2>1, <2>2, <1>1, <1>2, <1>4 DEF Meet, Numbers
<1> QED BY <1>3, <1>4

(* Every step of classify() keeps what the calls know.                     *)
LEMMA GroupsStepInv == GroupsInv /\ [GroupsNext]_groupsVars => GroupsInv'
<1> SUFFICES ASSUME GroupsInv, [GroupsNext]_groupsVars PROVE GroupsInv'
  OBVIOUS
<1>1. /\ tree \in Trees /\ next \in 1 .. tree.size + 1 /\ next \in Nat
      /\ calls \in Seq(Calls) /\ CallsInv(calls, next) /\ tree.size \in Nat \ {0}
      /\ tree.last[1] = tree.size
  BY TreeFacts DEF GroupsInv
<1>2. CASE Enter
  <2>1. /\ UNCHANGED <<tree, verdict>> /\ tree.group[next]
        /\ calls' = <<Call(next, NoFailure)>> \o calls
    BY <1>2 DEF Enter, Meet
  <2>2. /\ next \in Numbers /\ next' = next + 1 /\ next' \in 1 .. tree.size + 1
        /\ IF calls = <<>> THEN next = 1 ELSE next <= tree.last[calls[1].of]
    BY <1>2, MeetFacts DEF Enter
  <2>3. calls' \in Seq(Calls) /\ CallsInv(calls', next')
    BY <2>1, <2>2, <1>1, EnterKeepsCalls
  <2>4. calls' # <<>>
    BY <2>1, <1>1
  <2> QED BY <2>1, <2>2, <2>3, <2>4, <1>1, TreeIsKept DEF GroupsInv
<1>3. CASE Classify
  <2> DEFINE r == IF tree.types[next] \cap ControlTypes = {} THEN next ELSE NoFailure
  <2>1. UNCHANGED tree /\ ~tree.group[next] /\ Return(r, calls)
    BY <1>3 DEF Classify, Meet
  <2>2. /\ next \in Numbers /\ next' = next + 1 /\ next' \in 1 .. tree.size + 1
        /\ IF calls = <<>> THEN next = 1 ELSE next <= tree.last[calls[1].of]
    BY <1>3, MeetFacts DEF Classify
  <2>3. IsWorst(next, next, r)
    <3>1. \A n \in Failed : next <= n /\ n <= next => n = next
      BY <1>1, TreeFacts DEF Numbers
    <3>2. next \in Failed <=> tree.types[next] \cap ControlTypes = {}
      BY <2>1, <2>2 DEF Failed, Numbers
    <3>3. next # NoFailure /\ Rank(next) <= Rank(next) /\ ~(next < next) /\ next <= next
      BY <2>2, <1>1, RankIsNatural DEF Numbers, NoFailure
    <3> QED BY <3>1, <3>2, <3>3 DEF IsWorst
  <2>4. r \in Numbers \cup {NoFailure}
    BY <2>2
  <2> HIDE DEF r
  <2>5. CASE calls = <<>>
    <3>1. next = 1 /\ verdict' = r /\ calls' = <<>> /\ tree.last[next] = next
      BY <2>1, <2>2, <2>5, <1>1, TreeFacts DEF Return
    <3>2. tree.size = 1 /\ next' = tree.size + 1
      BY <3>1, <2>2, <1>1
    <3>3. IsWorst(1, tree.size, verdict') /\ CallsInv(calls', next') /\ calls' \in Seq(Calls)
      BY <3>1, <3>2, <2>3 DEF CallsInv
    <3> QED BY <3>1, <3>2, <3>3, <2>1, <2>2, <1>1, TreeIsKept DEF GroupsInv
  <2>6. CASE calls # <<>>
    <3>1. calls' = <<Call(Head(calls).of, Worse(Head(calls).worst, r))>> \o Tail(calls)
      BY <2>1, <2>6 DEF Return
    <3>2. calls' \in Seq(Calls) /\ CallsInv(calls', next + 1)
      <4>1. next <= next + 1 /\ next <= next /\ next <= tree.last[calls[1].of]
        BY <2>2, <2>6, <1>1
      <4> QED BY <4>1, <3>1, <2>3, <2>4, <2>6, <1>1, ReturnKeepsCalls
    <3>3. calls' # <<>>
      BY <3>1, <3>2
    <3> QED BY <3>2, <3>3, <2>1, <2>2, <1>1, TreeIsKept DEF GroupsInv
  <2> QED BY <2>5, <2>6
<1>4. CASE Leave
  <2>1. /\ UNCHANGED <<tree, next>> /\ calls # <<>> /\ next > tree.last[Head(calls).of]
        /\ Return(Head(calls).worst, Tail(calls))
    BY <1>4 DEF Leave
  <2> DEFINE c == calls[1]
             w == Tail(calls)
  <2>2. /\ Head(calls) = c /\ c \in Calls /\ next - 1 = tree.last[c.of]
        /\ IsWorst(c.of, next - 1, c.worst) /\ w \in Seq(Calls)
        /\ w = <<>> => c.of = 1
        /\ w # <<>> => CallsInv(w, c.of) /\ tree.last[c.of] <= tree.last[w[1].of]
    <3>1. calls # <<>> /\ Head(calls) = calls[1]
      BY <2>1, <1>1
    <3>2. next > tree.last[calls[1].of]
      BY <2>1, <3>1
    <3> QED BY <3>1, <3>2, <1>1, LeaveKeepsCalls
  <2>3. c.of \in Nat /\ c.of \in Numbers /\ c.worst \in Numbers \cup {NoFailure} /\ c.of <= next - 1
    BY <2>2, <1>1, TreeFacts DEF Calls
  <2> HIDE DEF c, w
  <2>4. CASE w = <<>>
    <3>1. verdict' = c.worst /\ calls' = <<>> /\ c.of = 1
      BY <2>1, <2>2, <2>4 DEF Return, w
    <3>2. next - 1 = tree.size /\ next = tree.size + 1
      BY <3>1, <2>2, <1>1
    <3>3. IsWorst(1, tree.size, verdict') /\ CallsInv(calls', next') /\ calls' \in Seq(Calls)
      BY <3>1, <3>2, <2>2 DEF CallsInv
    <3> QED BY <3>1, <3>2, <3>3, <2>1, <1>1, TreeIsKept DEF GroupsInv
  <2>5. CASE w # <<>>
    <3>1. calls' = <<Call(Head(w).of, Worse(Head(w).worst, c.worst))>> \o Tail(w)
      BY <2>1, <2>2, <2>5 DEF Return, w
    <3>2. next - 1 \in Nat /\ (next - 1) + 1 = next /\ c.of <= next
          /\ next - 1 <= tree.last[w[1].of]
      BY <2>2, <2>3, <2>5, <1>1
    <3>3. calls' \in Seq(Calls) /\ CallsInv(calls', (next - 1) + 1)
      BY <3>1, <3>2, <2>2, <2>3, <2>5, <1>1, ReturnKeepsCalls
    <3>4. calls' # <<>>
      BY <3>1, <3>3
    <3> QED BY <3>2, <3>3, <3>4, <2>1, <1>1, TreeIsKept DEF GroupsInv
  <2> QED BY <2>4, <2>5
<1>5. CASE UNCHANGED groupsVars
  <2>1. UNCHANGED <<tree, next, calls, verdict>>
    BY <1>5 DEF groupsVars
  <2> QED BY <2>1, TreeIsKept DEF GroupsInv
<1> QED BY <1>2, <1>3, <1>4, <1>5 DEF GroupsNext

(* Each call of classify() under way knows the worst of what it has met.   *)
THEOREM GroupsInvariant == GroupsSpec => []GroupsInv
BY GroupsInitInv, GroupsStepInv, PTL DEF GroupsSpec

(* GroupIsItsWorst holds of groups of any size and depth.                  *)
THEOREM GroupsAreTheirWorst == GroupsSpec => []GroupIsItsWorst
<1>1. ASSUME GroupsInv PROVE GroupIsItsWorst
  <2> SUFFICES ASSUME calls = <<>>, next > tree.size PROVE GroupIsItsWorst
    BY DEF GroupIsItsWorst
  <2>1. /\ IsWorst(1, tree.size, verdict) /\ tree \in Trees
        /\ \A n \in Failed : 1 <= n /\ n <= tree.size
    BY <1>1, TreeFacts DEF GroupsInv, Numbers
  <2>2. ClassOf(verdict).level \in Permitted[ClassOf(verdict).class]
    BY RulesFit DEF ClassOf
  <2> QED BY <2>1, <2>2 DEF IsWorst, GroupIsItsWorst
<1> QED BY <1>1, GroupsInvariant, PTL

-----------------------------------------------------------------------------
LineageInv ==
    \/ envelope = NoEnvelope
    \/ /\ envelope = Envelope(envelope.class, envelope.level, h_path)
       /\ h_path \in Seq(Agents) /\ h_born \in DOMAIN Severity
       /\ envelope.class \in DOMAIN Severity
       /\ envelope.level \in Permitted[envelope.class]
       /\ Severity[envelope.class] >= Severity[h_born]
       /\ Len(h_path) > LineageCap => envelope.class = "HARD_KILL"

(* Neither the envelope's birth nor a hop breaks the rules of the tiers.   *)
LEMMA LineageStepInv == LineageInv /\ [LineageNext]_lineageVars => LineageInv'
<1> SUFFICES ASSUME LineageInv, [LineageNext]_lineageVars PROVE LineageInv'
  OBVIOUS
<1>1. \A c \in DOMAIN Severity : Severity[c] \in 0 .. 2 /\ Severity["HARD_KILL"] >= Severity[c]
  BY DEF Severity
<1>2. ASSUME NEW a \in Agents, Build(a) PROVE LineageInv'
  <2>1. PICK class \in DOMAIN Severity : \E level \in Permitted[class] :
           envelope' = Envelope(class, level, <<a>>) /\ h_born' = class
    BY <1>2 DEF Build
  <2>2. h_path' = <<a>> /\ h_path' \in Seq(Agents) /\ Len(h_path') = 1 /\ ~(1 > LineageCap)
    BY <1>2, LineageAssumption DEF Build
  <2>3. envelope' = Envelope(class, envelope'.level, h_path') /\ envelope'.class = class /\ envelope'.level \in Permitted[class]
    BY <2>1, <2>2 DEF Envelope
  <2> QED BY <2>1, <2>2, <2>3, <1>1 DEF LineageInv
<1>3. ASSUME NEW a \in Agents, Hop(a) PROVE LineageInv'
  <2>1. /\ envelope' = ExtendLineage(envelope, a)
        /\ h_path' = Append(h_path, a) /\ h_born' = h_born
        /\ envelope # NoEnvelope
    BY <1>3 DEF Hop
  <2>2. /\ envelope = Envelope(envelope.class, envelope.level, h_path)
        /\ h_path \in Seq(Agents) /\ h_born \in DOMAIN Severity
        /\ envelope.class \in DOMAIN Severity
        /\ envelope.level \in Permitted[envelope.class]
        /\ Severity[envelope.class] >= Severity[h_born]
    BY <2>1 DEF LineageInv
  <2>3. h_path' \in Seq(Agents) /\ Len(h_path') = Len(h_path) + 1 /\ Len(h_path) \in Nat
    BY <2>1, <2>2
  <2>4. envelope.lineage = h_path
    BY <2>2 DEF Envelope
  <2>5. CASE Len(h_path) >= LineageCap
    <3>1. envelope' = Envelope("HARD_KILL", "L4", h_path')
      BY <2>1, <2>4, <2>5 DEF ExtendLineage
    <3>2. envelope'.class = "HARD_KILL" /\ envelope'.level = "L4"
      BY <3>1 DEF Envelope
    <3>3. "HARD_KILL" \in DOMAIN Severity /\ "L4" \in Permitted["HARD_KILL"]
      BY DEF Severity, Permitted
    <3> QED BY <3>1, <3>2, <3>3, <2>1, <2>2, <2>3, <1>1 DEF LineageInv
  <2>6. CASE ~(Len(h_path) >= LineageCap)
    <3>1. envelope' = [envelope EXCEPT !.lineage = h_path']
      BY <2>1, <2>4, <2>6 DEF ExtendLineage
    <3>2. envelope' = Envelope(envelope.class, envelope.level, h_path')
      BY <3>1, <2>2 DEF Envelope
    <3>3. envelope'.class = envelope.class /\ envelope'.level = envelope.level
      BY <3>2 DEF Envelope
    <3>4. ~(Len(h_path') > LineageCap)
      BY <2>3, <2>6, LineageAssumption
    <3> QED BY <3>2, <3>3, <3>4, <2>1, <2>2, <2>3 DEF LineageInv
  <2> QED BY <2>5, <2>6
<1>4. CASE UNCHANGED lineageVars
  BY <1>4 DEF lineageVars, LineageInv
<1> QED BY <1>2, <1>3, <1>4 DEF LineageNext

(* An envelope keeps to the rules of the tiers wherever it goes.           *)
LEMMA LineageInvariant == LineageSpec => []LineageInv
<1>1. LineageInit => LineageInv
  BY DEF LineageInit, LineageInv
<1> QED BY <1>1, LineageStepInv, PTL DEF LineageSpec

(* TierSurvivesHops holds for any number of agents, hops and any cap.      *)
THEOREM TiersSurviveHops == LineageSpec => []TierSurvivesHops
<1>1. ASSUME LineageInv PROVE TierSurvivesHops
  <2> SUFFICES ASSUME envelope # NoEnvelope PROVE TierSurvivesHops
    BY DEF TierSurvivesHops
  <2>1. envelope.lineage = h_path
    BY <1>1 DEF LineageInv, Envelope
  <2>2. RouteOf(envelope) \in
          {<<"HARD_KILL">>}
          \cup UNION {{<<c, l>> : l \in Permitted[c]} : c \in {"EXCEPTION", "ISSUE"}}
    BY <1>1 DEF LineageInv, RouteOf
  <2> QED BY <1>1, <2>1, <2>2 DEF LineageInv, TierSurvivesHops
<1> QED BY <1>1, LineageInvariant, PTL

-----------------------------------------------------------------------------
Values == 1 .. context.size

(* n is in something that is cut.                                          *)
Covered(n) == \E m \in Values : In(n, m) /\ IsCut(m)

(* cut is the depth of the outermost cut value that the walk is in.        *)
CutAt(c, a) ==
    /\ c > 0 => \E m \in Values :
          /\ m < a /\ IsCut(m) /\ context.depth[m] = c
          /\ \A k \in m + 1 .. a - 1 : context.depth[k] > c
    /\ \A m \in Values :
          m < a /\ IsCut(m) /\ (\A k \in m + 1 .. a - 1 : context.depth[k] > context.depth[m])
             => c > 0 /\ c <= context.depth[m]

CutInv == CutAt(cut, at)

(* What the walk makes of a value.                                         *)
Fits(n, x, blocked) ==
    IF Covered(n) \/ Dropped(n) THEN x = Absent
    ELSE /\ ~Unprintable(n)
         /\ IF Sensitive(n) THEN x = "[REDACTED]"
            ELSE IF BeyondLimit(n) THEN x = "<depth-limit>"
            ELSE /\ x \notin {Absent, "secret", "nan", "object"}
                 /\ context.is[n] \in Containers \cup {"number"} => x = context.is[n]
                 /\ context.is[n] \notin Containers => x \notin Containers
                 /\ context.is[n] = "text" /\ ~blocked => x = "text"
                 /\ context.is[n] = "secret" /\ ~blocked => x = "[REDACTED] in text"

OutInv == \A n \in Values : IF n < at THEN Fits(n, out[n], h_blocked) ELSE out[n] = Absent

(* A key is there when its value is.                                       *)
KeysInv == \A n \in Values : keys[n] = IF out[n] = Absent THEN Absent ELSE context.key[n]

(* The walk is complete, or it ended at a key without text.                *)
Checked == at = context.size + 1 /\ snapshot = IF Accepted THEN "kept" ELSE "empty"
Raised == at \in Values /\ Unprintable(at) /\ ~Covered(at) /\ snapshot = "empty"

EndInv == snapshot # "walking" => Checked \/ Raised

SnapshotInv ==
    SnapshotTypeOK /\ context \in Contexts /\ CutInv /\ OutInv /\ KeysInv /\ EndInv

(* What SnapshotAssumption says of the context; its root is never cut.     *)
LEMMA ContextFacts ==
    ASSUME context \in Contexts
    PROVE  /\ context.size \in Nat \ {0} /\ 1 \in Values
           /\ \A n \in Values : context.depth[n] \in Nat
           /\ context.depth[1] = 0 /\ context.key[1] = "none"
           /\ \A n \in Values : n # 1 => context.depth[n] > 0
           /\ \A n \in Values : context.is[n] \in Containers \cup HostScalars
           /\ \A n \in Values : context.key[n] \in {"none"} \cup Keys
           /\ ~IsCut(1) /\ ~Dropped(1) /\ ~Sensitive(1)
<1>1. HostState(context)
  BY SnapshotAssumption
<1>2. context.size \in Nat \ {0} /\ 1 \in Values
  BY <1>1 DEF HostState, Values
<1>3. /\ \A n \in Values : context.depth[n] \in Nat
      /\ context.depth[1] = 0 /\ context.key[1] = "none"
      /\ \A n \in Values : context.is[n] \in Containers \cup HostScalars
      /\ \A n \in Values : context.key[n] \in {"none"} \cup Keys
  BY <1>1 DEF HostState, Values
<1>4. ASSUME NEW n \in Values, n # 1 PROVE context.depth[n] > 0
  <2>1. n \in 2 .. context.size
    BY <1>2, <1>4 DEF Values
  <2>2. context.depth[n] \in 1 .. context.depth[n - 1] + 1
    BY <2>1, <1>1 DEF HostState
  <2>3. context.depth[n - 1] \in Nat
    BY <2>1, <1>2, <1>3 DEF Values
  <2> QED BY <2>2, <2>3
<1>5. ~IsCut(1) /\ ~Dropped(1) /\ ~Sensitive(1)
  BY <1>3, SnapshotAssumption DEF IsCut, Dropped, Sensitive, BeyondLimit
<1> QED BY <1>2, <1>3, <1>4, <1>5

(* What In is good for: to be in something is transitive.                  *)
LEMMA InIsTransitive ==
    ASSUME context \in Contexts, NEW l \in Values, NEW m \in Values, NEW n \in Values,
           In(m, l), In(n, m)
    PROVE  In(n, l)
<1>1. l \in Nat /\ m \in Nat /\ n \in Nat /\ l < m /\ m < n
  BY ContextFacts DEF Values, In
<1>2. ASSUME NEW k \in l + 1 .. n PROVE context.depth[k] > context.depth[l]
  <2>1. CASE k <= m
    BY <2>1, <1>1 DEF In
  <2>2. CASE k > m
    <3>1. context.depth[k] > context.depth[m]
      BY <2>2, <1>1 DEF In
    <3>2. context.depth[m] > context.depth[l]
      BY <1>1 DEF In
    <3>3. k \in Values
      BY <1>1, ContextFacts DEF Values
    <3>4. /\ context.depth[k] \in Nat /\ context.depth[m] \in Nat /\ context.depth[l] \in Nat
      BY <3>3, ContextFacts
    <3> QED BY <3>1, <3>2, <3>4
  <2> QED BY <2>1, <2>2, <1>1
<1> QED BY <1>1, <1>2 DEF In

(* What is in something that is gone is gone.                              *)
LEMMA GoneIsInherited ==
    ASSUME context \in Contexts, NEW m \in Values, NEW n \in Values, In(n, m), Gone(m)
    PROVE  Gone(n)
<1>1. CASE Dropped(m)
  BY <1>1 DEF Gone, Values
<1>2. CASE ~Dropped(m)
  <2>1. PICK l \in Values : In(m, l) /\ (Dropped(l) \/ Sensitive(l))
    BY <1>2 DEF Gone, Values
  <2> QED BY <2>1, InIsTransitive DEF Gone, Values
<1> QED BY <1>1, <1>2

(* A walk leaves out exactly what is in something that is cut.             *)
LEMMA LeavesOutWhatIsCut ==
    ASSUME SnapshotTypeOK, context \in Contexts, CutInv, at \in Values
    PROVE  LeftOut(at) <=> Covered(at)
<1>1. at \in Nat /\ cut \in Nat /\ \A m \in Values : m \in Nat /\ context.depth[m] \in Nat
  BY ContextFacts DEF Values, SnapshotTypeOK
<1>2. ASSUME LeftOut(at) PROVE Covered(at)
  <2>1. cut > 0 /\ context.depth[at] > cut
    BY <1>2 DEF LeftOut
  <2>2. PICK m \in Values : /\ m < at /\ IsCut(m) /\ context.depth[m] = cut
                            /\ \A k \in m + 1 .. at - 1 : context.depth[k] > cut
    BY <2>1 DEF CutInv, CutAt
  <2>3. In(at, m)
    BY <2>1, <2>2, <1>1 DEF In
  <2> QED BY <2>2, <2>3 DEF Covered
<1>3. ASSUME Covered(at) PROVE LeftOut(at)
  <2>1. PICK m \in Values : In(at, m) /\ IsCut(m)
    BY <1>3 DEF Covered
  <2>2. m < at /\ context.depth[at] > context.depth[m]
        /\ \A k \in m + 1 .. at - 1 : context.depth[k] > context.depth[m]
    <3>1. at \in m + 1 .. at /\ m \in Nat
      <4>1. m < at
        BY <2>1 DEF In
      <4>2. m \in Nat /\ at \in Nat
        BY <1>1
      <4> QED BY <4>1, <4>2
    <3>2. m < at /\ \A k \in m + 1 .. at : context.depth[k] > context.depth[m]
      BY <2>1 DEF In
    <3>3. \A k \in m + 1 .. at - 1 : k \in m + 1 .. at
      BY <3>1, <1>1
    <3> QED BY <3>1, <3>2, <3>3
  <2>3. cut > 0 /\ cut <= context.depth[m]
    BY <2>1, <2>2 DEF CutInv, CutAt
  <2>4. context.depth[at] \in Nat /\ context.depth[m] \in Nat /\ cut \in Nat
    BY <1>1
  <2>5. context.depth[at] > cut
    BY <2>2, <2>3, <2>4
  <2> QED BY <2>3, <2>5 DEF LeftOut
<1> QED BY <1>2, <1>3

(* Before the walk nothing is cut and nothing is out.                      *)
LEMMA SnapshotInitInv == SnapshotInit => SnapshotInv
<1> SUFFICES ASSUME SnapshotInit PROVE SnapshotInv
  OBVIOUS
<1>1. context \in Contexts /\ context.size \in Nat \ {0}
  BY ContextFacts DEF SnapshotInit, SnapshotStart
<1>2. SnapshotTypeOK
  <2>1. out \in [1 .. context.size -> {Absent} \cup Containers \cup HostScalars \cup Markers]
    BY DEF SnapshotInit, SnapshotStart
  <2>2. at \in 1 .. context.size + 1
    BY <1>1 DEF SnapshotInit, SnapshotStart
  <2> QED BY <2>1, <2>2 DEF SnapshotInit, SnapshotStart, SnapshotTypeOK
<1>3. CutInv /\ OutInv /\ KeysInv /\ EndInv
  BY <1>1 DEF SnapshotInit, SnapshotStart, CutInv, CutAt, OutInv, KeysInv, EndInv,
              Values
<1> QED BY <1>1, <1>2, <1>3 DEF SnapshotInv

(* A step of the walk leaves the context as it is, and all that is said of *)
(* it alone.                                                               *)
LEMMA ContextIsKept ==
    ASSUME UNCHANGED context
    PROVE  /\ Values' = Values
           /\ \A n : /\ IsCut(n)' = IsCut(n) /\ Dropped(n)' = Dropped(n)
                     /\ Sensitive(n)' = Sensitive(n) /\ BeyondLimit(n)' = BeyondLimit(n)
                     /\ TooDeep(n)' = TooDeep(n) /\ Unprintable(n)' = Unprintable(n)
           /\ \A n, m : In(n, m)' = In(n, m)
BY DEF Values, IsCut, Dropped, Sensitive, Unprintable, BeyondLimit, TooDeep, In

(* The same holds of being covered,                                        *)
LEMMA CoveredIsKept ==
    ASSUME UNCHANGED context, NEW n
    PROVE  Covered(n)' = Covered(n)
BY ContextIsKept DEF Covered

(* of the depth of the cut,                                                *)
LEMMA CutAtIsKept ==
    ASSUME UNCHANGED context, CutAt(cut', at')
    PROVE  CutInv'
BY ContextIsKept DEF CutInv, CutAt

(* and of what fits a value.                                               *)
LEMMA FitsIsKept ==
    ASSUME UNCHANGED context, NEW n, NEW x, NEW b
    PROVE  Fits(n, x, b)' = Fits(n, x, b)
BY ContextIsKept, CoveredIsKept DEF Fits

(* The walk knows after each value what it is in.                          *)
LEMMA StepKeepsCut ==
    ASSUME SnapshotInv, PassOver \/ Cut \/ Sanitize
    PROVE  CutInv'
<1>1. /\ context \in Contexts /\ at \in Values /\ UNCHANGED context /\ at' = at + 1
      /\ SnapshotTypeOK /\ CutInv
  BY DEF SnapshotInv, SnapshotTypeOK, Values, PassOver, Cut, Sanitize, Proceed
<1>2. at \in Nat /\ cut \in Nat /\ \A m \in Values : m \in Nat /\ context.depth[m] \in Nat
  BY <1>1, ContextFacts DEF Values, SnapshotTypeOK
<1>3. LeftOut(at) <=> Covered(at)
  BY <1>1, LeavesOutWhatIsCut
<1>4. ASSUME ~LeftOut(at), NEW m \in Values, m < at, IsCut(m),
             \A k \in m + 1 .. at : context.depth[k] > context.depth[m]
      PROVE  FALSE
  <2>1. In(at, m)
    BY <1>4 DEF In
  <2> QED BY <2>1, <1>3, <1>4 DEF Covered
<1>5. ASSUME PassOver PROVE CutAt(cut', at')
  <2>1. cut' = cut /\ cut > 0 /\ context.depth[at] > cut
    BY <1>5 DEF PassOver, LeftOut
  <2>2. PICK m \in Values : /\ m < at /\ IsCut(m) /\ context.depth[m] = cut
                            /\ \A k \in m + 1 .. at - 1 : context.depth[k] > cut
    BY <1>1, <2>1 DEF CutInv, CutAt
  <2>3. /\ m < at' /\ \A k \in m + 1 .. at' - 1 : context.depth[k] > cut
    BY <2>1, <2>2, <1>1, <1>2
  <2>4. ASSUME NEW l \in Values, l < at + 1, IsCut(l),
               \A k \in l + 1 .. at : context.depth[k] > context.depth[l]
        PROVE  cut > 0 /\ cut <= context.depth[l]
    <3>1. CASE l = at
      BY <3>1, <2>1, <1>2
    <3>2. CASE l # at
      <4>1. l < at /\ \A k \in l + 1 .. at - 1 : context.depth[k] > context.depth[l]
        BY <3>2, <2>4, <1>2
      <4> QED BY <4>1, <2>4, <1>1 DEF CutInv, CutAt
    <3> QED BY <3>1, <3>2
  <2>5. at' - 1 = at
    BY <1>1, <1>2
  <2> QED BY <2>1, <2>2, <2>3, <2>4, <2>5, <1>1 DEF CutAt
<1>6. ASSUME Cut PROVE CutAt(cut', at')
  <2>1. ~LeftOut(at) /\ IsCut(at) /\ cut' = context.depth[at]
    BY <1>6 DEF Cut
  <2>2. context.depth[at] > 0
    BY <2>1, <1>1, ContextFacts
  <2>3. ASSUME NEW l \in Values, l < at + 1, IsCut(l),
               \A k \in l + 1 .. at : context.depth[k] > context.depth[l]
        PROVE  l = at
    BY <2>1, <2>3, <1>4, <1>2
  <2>4. at' - 1 = at
    BY <1>1, <1>2
  <2>5. at < at' /\ \A k \in at + 1 .. at' - 1 : context.depth[k] > cut'
    BY <1>1, <1>2
  <2> QED BY <2>1, <2>2, <2>3, <2>4, <2>5, <1>1, <1>2 DEF CutAt
<1>7. ASSUME Sanitize PROVE CutAt(cut', at')
  <2>1. ~LeftOut(at) /\ ~IsCut(at) /\ cut' = 0
    BY <1>7 DEF Sanitize
  <2>3. ASSUME NEW l \in Values, l < at + 1, IsCut(l),
               \A k \in l + 1 .. at : context.depth[k] > context.depth[l]
        PROVE  FALSE
    BY <2>1, <2>3, <1>4, <1>2
  <2>4. at' - 1 = at
    BY <1>1, <1>2
  <2> QED BY <2>1, <2>3, <2>4, <1>1 DEF CutAt
<1> QED BY <1>1, <1>5, <1>6, <1>7, CutAtIsKept

(* The walk puts what fits for each value.                                 *)
LEMMA StepKeepsOut ==
    ASSUME SnapshotInv, PassOver \/ Cut \/ Sanitize
    PROVE  OutInv' /\ KeysInv' /\ SnapshotTypeOK'
<1>1. /\ context \in Contexts /\ at \in Values /\ UNCHANGED context /\ at' = at + 1
      /\ SnapshotTypeOK /\ CutInv /\ OutInv /\ KeysInv /\ UNCHANGED snapshot
  BY DEF SnapshotInv, SnapshotTypeOK, Values, PassOver, Cut, Sanitize, Proceed
<1>2. at \in Nat /\ cut \in Nat /\ \A m \in Values : m \in Nat /\ context.depth[m] \in Nat
  BY <1>1, ContextFacts DEF Values, SnapshotTypeOK
<1>3. LeftOut(at) <=> Covered(at)
  BY <1>1, LeavesOutWhatIsCut
<1>4. /\ context.is[at] \in Containers \cup HostScalars /\ out[at] = Absent
      /\ out \in [Values -> {Absent} \cup Containers \cup HostScalars \cup Markers]
  BY <1>1, <1>2, ContextFacts DEF OutInv, SnapshotTypeOK, Values
<1>5. ASSUME PassOver
      PROVE  /\ UNCHANGED <<cut, out, keys, spent, h_blocked>>
             /\ Fits(at, out'[at], h_blocked')
  BY <1>5, <1>3, <1>4 DEF PassOver, Fits
<1>6. ASSUME Cut
      PROVE  /\ out' \in [Values -> {Absent} \cup Containers \cup HostScalars \cup Markers]
             /\ \A n \in Values : n # at => out'[n] = out[n]
             /\ \/ UNCHANGED <<out, keys>>
                \/ out'[at] # Absent /\ keys' = [keys EXCEPT ![at] = context.key[at]]
             /\ cut' \in Nat /\ UNCHANGED <<spent, h_blocked>>
             /\ Fits(at, out'[at], h_blocked')
  <2>1. /\ ~Covered(at) /\ IsCut(at) /\ ~Unprintable(at)
        /\ UNCHANGED <<spent, h_blocked>> /\ cut' = context.depth[at]
    BY <1>6, <1>3 DEF Cut
  <2>2. CASE Dropped(at)
    BY <2>1, <2>2, <1>6, <1>1, <1>2, <1>4 DEF Cut, Fits
  <2>3. CASE ~Dropped(at)
    <3>1. /\ out' = [out EXCEPT ![at] = IF Sensitive(at) THEN "[REDACTED]" ELSE "<depth-limit>"]
          /\ keys' = [keys EXCEPT ![at] = context.key[at]]
      BY <1>6, <2>3 DEF Cut, Put
    <3>2. Fits(at, out'[at], h_blocked')
      BY <3>1, <2>1, <2>3, <1>1, <1>4 DEF Fits, IsCut
    <3> QED BY <3>1, <3>2, <2>1, <1>1, <1>2, <1>4 DEF Markers, Absent
  <2> QED BY <2>2, <2>3
<1>7. ASSUME Sanitize
      PROVE  /\ out' \in [Values -> {Absent} \cup Containers \cup HostScalars \cup Markers]
             /\ \A n \in Values : n # at => out'[n] = out[n]
             /\ out'[at] # Absent /\ keys' = [keys EXCEPT ![at] = context.key[at]]
             /\ cut' \in Nat /\ spent' \in BOOLEAN /\ h_blocked' \in BOOLEAN
             /\ h_blocked => h_blocked'
             /\ Fits(at, out'[at], h_blocked')
  <2>1. /\ ~Covered(at) /\ ~IsCut(at) /\ ~Unprintable(at) /\ cut' = 0 /\ SanitizeValue(context.is[at])
        /\ spent \in BOOLEAN /\ h_blocked \in BOOLEAN
    BY <1>7, <1>3, <1>1 DEF Sanitize, SnapshotTypeOK
  <2>2. ~Dropped(at) /\ ~Sensitive(at) /\ ~BeyondLimit(at)
    BY <2>1 DEF IsCut
  <2>3. CASE context.is[at] \in {"text", "secret"}
    <3>1. \/ /\ out' = [out EXCEPT ![at] = IF context.is[at] = "secret" THEN "[REDACTED] in text"
                                           ELSE context.is[at]]
             /\ UNCHANGED <<spent, h_blocked>>
          \/ /\ out' = [out EXCEPT ![at] = "[REDACTED:budget_exceeded]"]
             /\ h_blocked' = TRUE /\ spent' \in BOOLEAN
      BY <2>1, <2>3 DEF SanitizeValue, ScanString, Put
    <3>2. keys' = [keys EXCEPT ![at] = context.key[at]]
      BY <2>1, <2>3 DEF SanitizeValue, ScanString, Put
    <3> QED BY <3>1, <3>2, <2>1, <2>2, <2>3, <1>1, <1>4 DEF Fits, Markers, Containers, Absent
  <2>4. CASE context.is[at] \notin {"text", "secret"}
    <3>1. /\ out' = [out EXCEPT ![at] = CASE context.is[at] = "nan" -> "<non-finite-float>"
                                          [] context.is[at] = "object" -> "<class name>"
                                          [] OTHER -> context.is[at]]
          /\ keys' = [keys EXCEPT ![at] = context.key[at]]
          /\ UNCHANGED <<spent, h_blocked>>
      BY <2>1, <2>4 DEF SanitizeValue, Put
    <3>2. context.is[at] \in {"dict", "list", "number", "nan", "object"}
      BY <2>4, <1>4 DEF Containers, HostScalars
    <3>3. out' \in [Values -> {Absent} \cup Containers \cup HostScalars \cup Markers]
      BY <3>1, <3>2, <1>1, <1>4 DEF Markers, Containers, HostScalars
    <3> QED BY <3>1, <3>2, <3>3, <2>1, <2>2, <1>1, <1>4 DEF Fits, Containers, Absent
  <2> QED BY <2>3, <2>4
<1>8. /\ out' \in [Values -> {Absent} \cup Containers \cup HostScalars \cup Markers]
      /\ \A n \in Values : n # at => out'[n] = out[n]
      /\ \/ UNCHANGED <<out, keys>>
         \/ out'[at] # Absent /\ keys' = [keys EXCEPT ![at] = context.key[at]]
      /\ cut' \in Nat /\ spent' \in BOOLEAN /\ h_blocked' \in BOOLEAN
      /\ h_blocked => h_blocked'
      /\ Fits(at, out'[at], h_blocked')
  BY <1>5, <1>6, <1>7, <1>1, <1>4 DEF SnapshotTypeOK
<1>9. SnapshotTypeOK'
  <2>1. at' \in 1 .. context'.size + 1
    BY <1>1, <1>2, ContextFacts DEF Values
  <2>2. out' \in [1 .. context'.size -> {Absent} \cup Containers \cup HostScalars \cup Markers]
    BY <1>1, <1>8 DEF Values
  <2>3. keys' \in [1 .. context'.size -> {Absent, "none"} \cup Keys]
    <3>1. /\ keys \in [Values -> {Absent, "none"} \cup Keys]
          /\ context.key[at] \in {"none"} \cup Keys
      BY <1>1, ContextFacts DEF SnapshotTypeOK, Values
    <3> QED BY <3>1, <1>1, <1>8 DEF Values
  <2> QED BY <2>1, <2>2, <2>3, <1>1, <1>8 DEF SnapshotTypeOK
<1>10. ASSUME NEW n \in Values
       PROVE  IF n < at + 1 THEN Fits(n, out'[n], h_blocked') ELSE out'[n] = Absent
  <2>1. CASE n = at
    BY <2>1, <1>8, <1>2
  <2>2. CASE n # at /\ n < at
    <3>1. Fits(n, out[n], h_blocked)
      BY <2>2, <1>1 DEF OutInv
    <3>2. Fits(n, out[n], h_blocked')
      BY <3>1, <1>8 DEF Fits
    <3>3. out'[n] = out[n] /\ n < at + 1
      BY <2>2, <1>2, <1>8
    <3> QED BY <3>2, <3>3
  <2>3. CASE n > at
    <3>1. out'[n] = out[n] /\ ~(n < at + 1) /\ ~(n < at)
      BY <2>3, <1>2, <1>8
    <3> QED BY <3>1, <1>1 DEF OutInv
  <2> QED BY <2>1, <2>2, <2>3, <1>2
<1>11. OutInv'
  BY <1>10, <1>1, FitsIsKept DEF OutInv, Values
<1>12. KeysInv'
  <2>1. DOMAIN keys = Values
    BY <1>1 DEF SnapshotTypeOK, Values
  <2> QED BY <2>1, <1>1, <1>8 DEF KeysInv, Values
<1> QED BY <1>9, <1>11, <1>12

(* No step of the walk, nor the check after it, breaks the invariant.      *)
LEMMA SnapshotStepInv == SnapshotInv /\ [SnapshotNext]_snapshotVars => SnapshotInv'
<1> SUFFICES ASSUME SnapshotInv, [SnapshotNext]_snapshotVars PROVE SnapshotInv'
  OBVIOUS
<1>1. CASE PassOver \/ Cut \/ Sanitize
  <2>1. UNCHANGED <<context, snapshot>> /\ snapshot = "walking"
    BY <1>1 DEF PassOver, Cut, Sanitize, Proceed
  <2>2. EndInv' /\ (context \in Contexts)'
    BY <2>1 DEF EndInv, SnapshotInv
  <2> QED BY <1>1, <2>2, StepKeepsCut, StepKeepsOut DEF SnapshotInv
<1>2. CASE Check
  <2>1. /\ UNCHANGED <<context, at, cut, out, keys, spent, h_blocked>> /\ at > context.size
        /\ snapshot' = IF Accepted THEN "kept" ELSE "empty"
    BY <1>2 DEF Check
  <2>2. at = context.size + 1 /\ context \in Contexts /\ CutAt(cut', at')
    BY <2>1, ContextFacts DEF SnapshotInv, SnapshotTypeOK, CutInv
  <2>3. Accepted' = Accepted
    BY <2>1 DEF Accepted, TooDeep, Dropped
  <2>4. EndInv'
    BY <2>1, <2>2, <2>3 DEF EndInv, Checked
  <2>5. SnapshotTypeOK'
    BY <2>1 DEF SnapshotInv, SnapshotTypeOK
  <2>6. OutInv' /\ KeysInv'
    BY <2>1, FitsIsKept DEF SnapshotInv, OutInv, KeysInv, Values
  <2> QED BY <2>1, <2>2, <2>4, <2>5, <2>6, CutAtIsKept DEF SnapshotInv
<1>3. CASE Raise
  <2>1. /\ UNCHANGED <<context, at, cut, out, keys, spent, h_blocked>> /\ at <= context.size
        /\ snapshot' = "empty" /\ ~LeftOut(at) /\ Unprintable(at)
    BY <1>3 DEF Raise
  <2>2. at \in Values /\ context \in Contexts /\ CutAt(cut', at')
    BY <2>1, ContextFacts DEF SnapshotInv, SnapshotTypeOK, CutInv, Values
  <2>3. ~Covered(at)
    BY <2>1, <2>2, LeavesOutWhatIsCut DEF SnapshotInv
  <2>4. EndInv'
    BY <2>1, <2>2, <2>3, ContextIsKept, CoveredIsKept DEF EndInv, Raised
  <2>5. SnapshotTypeOK'
    BY <2>1 DEF SnapshotInv, SnapshotTypeOK
  <2>6. OutInv' /\ KeysInv'
    BY <2>1, FitsIsKept DEF SnapshotInv, OutInv, KeysInv, Values
  <2> QED BY <2>1, <2>2, <2>4, <2>5, <2>6, CutAtIsKept DEF SnapshotInv
<1>4. CASE UNCHANGED snapshotVars
  <2>1. UNCHANGED <<context, at, cut, out, keys, spent, snapshot, h_blocked>>
    BY <1>4 DEF snapshotVars
  <2>2. Accepted' = Accepted
    BY <2>1 DEF Accepted, TooDeep, Dropped
  <2>3. CutAt(cut', at')
    BY <2>1 DEF SnapshotInv, CutInv
  <2>4. OutInv' /\ KeysInv'
    BY <2>1, FitsIsKept DEF SnapshotInv, OutInv, KeysInv, Values
  <2>5. EndInv'
    BY <2>1, <2>2, ContextIsKept, CoveredIsKept DEF SnapshotInv, EndInv, Checked, Raised
  <2> QED BY <2>1, <2>3, <2>4, <2>5, CutAtIsKept DEF SnapshotInv, SnapshotTypeOK
<1> QED BY <1>1, <1>2, <1>3, <1>4 DEF SnapshotNext

(* The walk makes of each value what fits its place, and ends once.        *)
THEOREM SnapshotInvariant == SnapshotSpec => []SnapshotInv
BY SnapshotInitInv, SnapshotStepInv, PTL DEF SnapshotSpec

(* What is gone is not in the snapshot,                                    *)
LEMMA GoneIsAbsent ==
    ASSUME SnapshotInv, Checked, NEW n \in Values, Gone(n)
    PROVE  out[n] = Absent /\ keys[n] = Absent
<1>1. Fits(n, out[n], h_blocked)
  BY ContextFacts DEF SnapshotInv, Checked, OutInv, Values
<1>2. Covered(n) \/ Dropped(n)
  BY DEF Gone, Covered, IsCut, Values
<1> QED BY <1>1, <1>2 DEF Fits, SnapshotInv, KeysInv

(* and nor is a value that is a secret, wherever it was.                   *)
LEMMA NoSecretIsOut ==
    ASSUME SnapshotInv, Checked, NEW n \in Values
    PROVE  /\ out[n] \notin {"secret", "nan", "object"}
           /\ Sensitive(n) => out[n] \in {"[REDACTED]", Absent}
<1>1. Fits(n, out[n], h_blocked)
  BY ContextFacts DEF SnapshotInv, Checked, OutInv, Values
<1> QED BY <1>1 DEF Fits, Absent

(* Something too deep that belongs in a snapshot leaves its mark, or what  *)
(* it is in does: the envelope refuses both.                               *)
LEMMA TooDeepIsRefused ==
    ASSUME SnapshotInv, Checked, NEW n \in Values, TooDeep(n), ~Gone(n)
    PROVE  ~Accepted
<1> DEFINE Deep == {m \in Values : TooDeep(m) /\ ~Gone(m)}
<1>1. context \in Contexts /\ Deep \subseteq Nat /\ Deep # {}
  BY DEF SnapshotInv, Values
<1>2. PICK m \in Deep : \A l \in Deep : m <= l
  BY <1>1, LeastNatural
<1>3. Fits(m, out[m], h_blocked)
  BY <1>1, <1>2, ContextFacts DEF SnapshotInv, Checked, OutInv, Values
<1>4. ASSUME Covered(m) PROVE FALSE
  <2>1. PICK l \in Values : In(m, l) /\ IsCut(l)
    BY <1>4 DEF Covered
  <2>2. ~Dropped(l) /\ ~Sensitive(l) /\ ~Gone(l)
    BY <2>1, <1>1, <1>2, GoneIsInherited DEF Gone, Values
  <2>3. l \in Deep
    BY <2>1, <2>2 DEF IsCut, BeyondLimit, TooDeep
  <2>4. l < m /\ l \in Nat /\ m \in Nat
    BY <2>1, <1>1, <1>2 DEF In, Values
  <2> QED BY <2>3, <2>4, <1>2
<1>5. ~Dropped(m) /\ m \in 1 .. context.size /\ TooDeep(m)
  BY <1>2 DEF Gone, Values
<1>6. out[m] # Absent
  BY <1>3, <1>4, <1>5 DEF Fits, Absent
<1> QED BY <1>5, <1>6 DEF Accepted

(* Without it, all is accepted.                                   *)
LEMMA OthersAreAccepted ==
    ASSUME SnapshotInv, Checked, context.is[1] = "dict",
           \A n \in Values : TooDeep(n) => Gone(n)
    PROVE  Accepted
<1>1. context \in Contexts /\ \A n \in Values : Fits(n, out[n], h_blocked)
  BY ContextFacts DEF SnapshotInv, Checked, OutInv, Values
<1>2. out[1] = "dict"
  <2>1. ~Covered(1)
    BY <1>1, ContextFacts DEF Covered, In, Values
  <2> QED BY <2>1, <1>1, ContextFacts DEF Fits, IsCut, Containers
<1>3. ASSUME NEW n \in Values, out[n] # Absent
      PROVE  ~TooDeep(n) /\ ~Dropped(n) /\ out[n] \notin {"nan", "object"}
  <2>1. ~Gone(n)
    BY <1>3, GoneIsAbsent
  <2> QED BY <2>1, <1>1, <1>3, NoSecretIsOut DEF Gone
<1> QED BY <1>2, <1>3 DEF Accepted, Values

(* SecretsStay holds of every context, however large.                      *)
THEOREM SecretsAlwaysStay == SnapshotSpec => []SecretsStay
<1>1. ASSUME SnapshotInv PROVE SecretsStay
  <2> SUFFICES ASSUME snapshot = "kept" PROVE SecretsStay
    BY DEF SecretsStay
  <2>1. Checked
    BY <1>1 DEF SnapshotInv, EndInv, Raised
  <2> QED BY <1>1, <2>1, GoneIsAbsent, NoSecretIsOut DEF SecretsStay, Values
<1> QED BY <1>1, SnapshotInvariant, PTL

(* SnapshotSurvives holds of every context, however large.                 *)
THEOREM SnapshotsSurvive == SnapshotSpec => []SnapshotSurvives
<1>1. ASSUME SnapshotInv PROVE SnapshotSurvives
  <2> SUFFICES ASSUME snapshot # "walking" PROVE SnapshotSurvives
    BY DEF SnapshotSurvives
  <2> DEFINE Fatal(n) == (TooDeep(n) \/ Unprintable(n)) /\ ~Gone(n)
  <2>1. context \in Contexts /\ KeysInv
    BY <1>1 DEF SnapshotInv
  <2>2. CASE Raised
    <3>1. at \in Values /\ Unprintable(at) /\ ~Gone(at) /\ snapshot = "empty"
      BY <2>2 DEF Raised, Unprintable, Gone, Covered, IsCut, Values
    <3> QED BY <3>1 DEF SnapshotSurvives, Values
  <2>3. CASE Checked
    <3>1. /\ \A n \in Values : Fits(n, out[n], h_blocked)
          /\ snapshot = IF Accepted THEN "kept" ELSE "empty"
      BY <1>1, <2>3, ContextFacts DEF SnapshotInv, Checked, OutInv, Values
    <3>2. ASSUME NEW n \in Values, ~Gone(n), \A m \in Values : TooDeep(m) => Gone(m)
          PROVE  ~Covered(n) /\ ~Dropped(n) /\ ~BeyondLimit(n)
      <4>1. ~Dropped(n) /\ ~TooDeep(n)
        BY <3>2 DEF Gone
      <4>2. ASSUME Covered(n) PROVE FALSE
        <5>1. PICK m \in Values : In(n, m) /\ IsCut(m)
          BY <4>2 DEF Covered
        <5>2. ~Dropped(m) /\ ~Sensitive(m) /\ ~Gone(m)
          BY <5>1, <2>1, <3>2, GoneIsInherited DEF Gone, Values
        <5> QED BY <5>1, <5>2, <3>2 DEF IsCut, BeyondLimit, TooDeep
      <4> QED BY <4>1, <4>2 DEF BeyondLimit, TooDeep
    <3>3. CASE \E n \in Values : TooDeep(n) /\ ~Gone(n)
      BY <3>1, <3>3, <1>1, <2>3, TooDeepIsRefused DEF SnapshotSurvives, Values
    <3>4. CASE context.is[1] # "dict"
      <4>1. out[1] # "dict"
        BY <2>1, <3>1, <3>4, ContextFacts DEF Fits, Containers, HostScalars, Absent
      <4> QED BY <4>1, <3>1, <3>4 DEF Accepted, SnapshotSurvives
    <3>5. CASE context.is[1] = "dict" /\ \A n \in Values : TooDeep(n) => Gone(n)
      <4>1. snapshot = "kept"
        BY <3>1, <3>5, <1>1, <2>3, OthersAreAccepted
      <4>2. ASSUME NEW n \in Values, ~Gone(n)
            PROVE  /\ ~Unprintable(n) /\ out[n] # Absent /\ keys[n] = context.key[n]
                   /\ ~Sensitive(n) =>
                        /\ context.is[n] \in Containers \cup {"number"} => out[n] = context.is[n]
                        /\ context.is[n] = "text" /\ ~h_blocked => out[n] = "text"
                        /\ context.is[n] = "secret" /\ ~h_blocked => out[n] = "[REDACTED] in text"
        <5>1. ~Covered(n) /\ ~Dropped(n) /\ ~BeyondLimit(n)
          BY <4>2, <3>2, <3>5
        <5>2. Fits(n, out[n], h_blocked)
          BY <3>1
        <5>3. out[n] # Absent
          BY <5>1, <5>2 DEF Fits, Absent
        <5> QED BY <5>1, <5>2, <5>3, <2>1 DEF Fits, KeysInv
      <4>3. ~ \E n \in Values : Fatal(n)
        BY <4>2, <3>5
      <4> QED BY <4>1, <4>2, <4>3, <3>5 DEF SnapshotSurvives, Values
    <3> QED BY <3>3, <3>4, <3>5
  <2> QED BY <1>1, <2>2, <2>3 DEF SnapshotInv, EndInv
<1> QED BY <1>1, SnapshotInvariant, PTL

-----------------------------------------------------------------------------
(* The powers of two are the numbers of subsets, and so they grow.         *)
LEMMA PowersGrow ==
    ASSUME NEW k \in Nat, NEW n \in Nat, k <= n
    PROVE  2 ^ k \in Nat /\ 2 ^ n \in Nat /\ 2 ^ k <= 2 ^ n
<1>1. ASSUME NEW m \in Nat
      PROVE  IsFiniteSet(SUBSET (1 .. m)) /\ Cardinality(SUBSET (1 .. m)) = 2 ^ m
             /\ 2 ^ m \in Nat
  <2>1. IsFiniteSet(1 .. m) /\ Cardinality(1 .. m) = m
    BY FS_Interval
  <2>2. IsFiniteSet(SUBSET (1 .. m)) /\ Cardinality(SUBSET (1 .. m)) = 2 ^ m
    BY <2>1, FS_SUBSET
  <2> QED BY <2>2, FS_CardinalityType
<1>2. SUBSET (1 .. k) \subseteq SUBSET (1 .. n)
  <2>1. 1 .. k \subseteq 1 .. n
    OBVIOUS
  <2> QED BY <2>1
<1>3. Cardinality(SUBSET (1 .. k)) <= Cardinality(SUBSET (1 .. n))
  BY <1>1, <1>2, FS_Subset
<1> QED BY <1>1, <1>3

(* Products with a natural number keep the order.                          *)
LEMMA ProductsGrow ==
    ASSUME NEW a \in Nat, NEW x \in Nat, NEW y \in Nat, x <= y
    PROVE  a * x \in Nat /\ a * y \in Nat /\ a * x <= a * y
OBVIOUS

(* Delays grow with the attempts, up to their limit.                       *)
LEMMA ExponentialsGrow ==
    ASSUME NEW k \in Nat \ {0}, NEW n \in Nat \ {0}, k <= n
    PROVE  /\ Exponential(k) \in Nat /\ Exponential(n) \in Nat
           /\ Exponential(k) <= Exponential(n) /\ Exponential(n) <= max_delay_seconds
<1>1. k - 1 \in Nat /\ n - 1 \in Nat /\ k - 1 <= n - 1
  OBVIOUS
<1>2. 2 ^ (k - 1) \in Nat /\ 2 ^ (n - 1) \in Nat /\ 2 ^ (k - 1) <= 2 ^ (n - 1)
  BY <1>1, PowersGrow
<1>3. /\ base_delay_seconds * 2 ^ (k - 1) \in Nat /\ base_delay_seconds * 2 ^ (n - 1) \in Nat
      /\ base_delay_seconds * 2 ^ (k - 1) <= base_delay_seconds * 2 ^ (n - 1)
  BY <1>2, ProductsGrow, BackoffAssumption
<1> QED BY <1>3, BackoffAssumption DEF Exponential, Lesser

(* What the server asks for is within its limit.                           *)
LEMMA RetryAfterFacts ==
    ASSUME NEW h \in Headers
    PROVE  /\ ParseRetryAfter(h) \in Nat /\ ParseRetryAfter(h) <= max_retry_after_seconds
           /\ h.form \in {"seconds", "date"} =>
                 /\ h.seconds \in Int
                 /\ ParseRetryAfter(h) >= h.seconds \/ ParseRetryAfter(h) >= max_retry_after_seconds
<1>1. CASE h \in {NoHeader, BadHeader}
  BY <1>1, BackoffAssumption DEF NoHeader, BadHeader, ParseRetryAfter
<1>2. CASE h.form \in {"seconds", "date"} /\ h.seconds \in Int
  BY <1>2, BackoffAssumption DEF ParseRetryAfter, Lesser
<1> QED BY <1>1, <1>2, BackoffAssumption

Longest == Greater(max_delay_seconds, max_retry_after_seconds)

(* What _compute_delay returns lies between what is asked and the limits.  *)
LEMMA DelayFacts ==
    ASSUME NEW n \in Nat \ {0}, NEW h \in Headers, NEW d \in ComputeDelay(n, h)
    PROVE  /\ d \in Nat /\ d >= Exponential(n) /\ d >= ParseRetryAfter(h)
           /\ 2 * d <= 3 * Longest /\ Longest \in Nat
<1>1. /\ Exponential(n) \in Nat /\ Exponential(n) <= max_delay_seconds
      /\ ParseRetryAfter(h) \in Nat /\ ParseRetryAfter(h) <= max_retry_after_seconds
  BY ExponentialsGrow, RetryAfterFacts
<1> DEFINE e == WithoutJitter(n, h)
<1>2. e \in Nat /\ e >= Exponential(n) /\ e >= ParseRetryAfter(h) /\ e <= Longest /\ Longest \in Nat
  BY <1>1, BackoffAssumption DEF WithoutJitter, Greater, Longest
<1>3. d \in e .. e + e \div 2
  BY DEF ComputeDelay
<1> HIDE DEF e
<1>4. e \div 2 \in Nat /\ 2 * (e \div 2) <= e
  BY <1>2
<1>5. d \in Nat /\ d >= e /\ d <= e + e \div 2
  BY <1>2, <1>3, <1>4
<1> QED BY <1>1, <1>2, <1>4, <1>5

(* A bound on each sleep is one on their sum.                              *)
LEMMA SumsStayBounded ==
    ASSUME NEW a \in Nat, NEW b \in Nat
    PROVE  /\ a + b \in Nat
           /\ \A c, d \in Nat : 2 * a <= 3 * c /\ 2 * b <= 3 * d => 2 * (a + b) <= 3 * (c + d)
OBVIOUS

BackoffInv ==
    /\ attempt \in Nat \ {0} /\ delay \in Nat /\ h_slept \in Nat
    /\ SleepIsBounded

(* Every sleep keeps to the bounds.                                        *)
LEMMA BackoffStepInv == BackoffInv /\ [BackoffNext]_backoffVars => BackoffInv'
<1> SUFFICES ASSUME BackoffInv, [BackoffNext]_backoffVars PROVE BackoffInv'
  OBVIOUS
<1>1. ASSUME NEW h \in Headers, Sleep(h) PROVE BackoffInv'
  <2>1. /\ delay' \in ComputeDelay(attempt, h) /\ header' = h
        /\ h_slept' = h_slept + delay' /\ attempt' = attempt + 1
        /\ attempt \in Nat \ {0} /\ h_slept \in Nat
    BY <1>1 DEF Sleep, BackoffInv
  <2>2. /\ delay' \in Nat /\ delay' >= Exponential(attempt) /\ delay' >= ParseRetryAfter(h)
        /\ 2 * delay' <= 3 * Longest /\ Longest \in Nat
    BY <2>1, DelayFacts
  <2>3. h.form \in {"seconds", "date"} =>
            delay' >= h.seconds \/ delay' >= max_retry_after_seconds
    BY <2>2, RetryAfterFacts, BackoffAssumption
  <2>4. ASSUME NEW n \in 1 .. attempt PROVE delay' >= Exponential(n)
    <3>1. n \in Nat \ {0} /\ n <= attempt
      BY <2>1
    <3>2. Exponential(n) \in Nat /\ Exponential(attempt) \in Nat /\ Exponential(n) <= Exponential(attempt)
      BY <2>1, <3>1, ExponentialsGrow
    <3> QED BY <3>2, <2>2
  <2>5. 2 * h_slept' <= 3 * ((attempt' - 1) * Longest)
    <3>1. 2 * h_slept <= 3 * ((attempt - 1) * Longest)
      BY DEF BackoffInv, SleepIsBounded, Longest
    <3>2. (attempt' - 1) * Longest = (attempt - 1) * Longest + Longest
      BY <2>1, <2>2
    <3> DEFINE before == (attempt - 1) * Longest
    <3>3. before \in Nat
      BY <2>1, <2>2, ProductsGrow
    <3>4. 2 * h_slept <= 3 * before /\ (attempt' - 1) * Longest = before + Longest
      BY <3>1, <3>2
    <3> HIDE DEF before
    <3>5. 2 * (h_slept + delay') <= 3 * (before + Longest)
      <4>1. /\ before \in Nat /\ h_slept \in Nat /\ delay' \in Nat /\ Longest \in Nat
            /\ 2 * h_slept <= 3 * before /\ 2 * delay' <= 3 * Longest
        BY <3>3, <3>4, <2>1, <2>2
      <4> QED BY <4>1, SumsStayBounded
    <3> QED BY <3>4, <3>5, <2>1
  <2>6. attempt' - 1 = attempt /\ attempt' \in Nat \ {0} /\ h_slept' \in Nat
    <3>1. attempt' - 1 = attempt /\ attempt' \in Nat \ {0}
      BY <2>1
    <3>2. h_slept' \in Nat
      <4>1. h_slept \in Nat /\ delay' \in Nat /\ h_slept' = h_slept + delay'
        BY <2>1, <2>2
      <4> QED BY <4>1, SumsStayBounded
    <3> QED BY <3>1, <3>2
  <2>7. SleepIsBounded'
    BY <2>1, <2>2, <2>3, <2>4, <2>5, <2>6 DEF SleepIsBounded, Longest, Exponential
  <2> QED BY <2>2, <2>6, <2>7 DEF BackoffInv
<1>2. ASSUME UNCHANGED <<attempt, header, delay, h_slept>> PROVE BackoffInv'
  BY <1>2 DEF BackoffInv, SleepIsBounded
<1> QED BY <1>1, <1>2 DEF BackoffNext, Finish, Abandon, backoffVars

(* SleepIsBounded holds for any number of attempts, delays and limits.     *)
THEOREM SleepsAreBounded == BackoffSpec => []SleepIsBounded
<1>1. BackoffInit => BackoffInv
  <2> SUFFICES ASSUME BackoffInit PROVE BackoffInv
    OBVIOUS
  <2>1. attempt = 1 /\ delay = 0 /\ h_slept = 0
    BY DEF BackoffInit
  <2>2. Longest \in Nat
    BY BackoffAssumption DEF Longest, Greater
  <2>3. 2 * h_slept <= 3 * ((attempt - 1) * Longest)
    <3>1. (attempt - 1) * Longest \in Nat
      BY <2>1, <2>2, ProductsGrow
    <3> QED BY <3>1, <2>1
  <2> QED BY <2>1, <2>3 DEF BackoffInv, SleepIsBounded, Longest
<1>2. BackoffInv => SleepIsBounded
  BY DEF BackoffInv
<1> QED BY <1>1, <1>2, BackoffStepInv, PTL DEF BackoffSpec

-----------------------------------------------------------------------------
(* A failure is given once and for all.                                    *)
LEMMA FailureIsGiven == Spec => [](failure \in Failures)
<1>1. Init => failure \in Failures
  BY DEF Init
<1>2. failure \in Failures /\ [Next]_vars => (failure \in Failures)'
  BY DEF Next, vars, Retry, ClassifyFailure, TakeMessage, CopyContext, BuildEnvelope, Travel
<1> QED BY <1>1, <1>2, PTL DEF Spec

(* Each step of a failed call is a step of one of its parts.               *)
LEMMA StepsOfParts ==
    ASSUME failure \in Failures, [Next]_vars
    PROVE  /\ [BackoffNext]_backoffVars /\ [GroupsNext]_groupsVars
           /\ [ChainNext]_chainVars /\ [SnapshotNext]_snapshotVars
           /\ [LineageNext]_lineageVars
<1>1. /\ failure.headers \subseteq Headers
      /\ failure.agent \in Agents /\ failure.next_agents \subseteq Agents
  BY FailedCallAssumption
<1>2. CASE UNCHANGED vars
  BY <1>2 DEF vars
<1>3. CASE Retry
  BY <1>1, <1>3 DEF Retry, BackoffNext
<1>4. CASE ClassifyFailure
  BY <1>4 DEF ClassifyFailure
<1>5. CASE TakeMessage
  BY <1>5 DEF TakeMessage
<1>6. CASE CopyContext
  BY <1>6 DEF CopyContext
<1>7. CASE BuildEnvelope
  BY <1>1, <1>7 DEF BuildEnvelope, LineageNext
<1>8. CASE Travel
  BY <1>1, <1>8 DEF Travel, LineageNext
<1> QED
  BY <1>2, <1>3, <1>4, <1>5, <1>6, <1>7, <1>8 DEF Next

(* A failed call takes the steps of its parts and no others: what holds of *)
(* each of them by itself holds of it inside a call.                       *)
LEMMA ComposesParts ==
    Spec => BackoffSpec /\ GroupsSpec /\ ChainSpec /\ SnapshotSpec /\ LineageSpec
<1>1. Init => BackoffInit /\ GroupsInit /\ ChainInit /\ SnapshotInit /\ LineageInit
  <2> SUFFICES ASSUME Init PROVE GroupsInit /\ SnapshotInit
    BY DEF Init
  <2>1. failure.tree \in Trees /\ failure.context \in Contexts
    BY FailedCallAssumption DEF Init
  <2> QED
    BY <2>1 DEF Init, GroupsInit, SnapshotInit
<1>2. failure \in Failures /\ [Next]_vars =>
          /\ [BackoffNext]_backoffVars /\ [GroupsNext]_groupsVars
          /\ [ChainNext]_chainVars /\ [SnapshotNext]_snapshotVars
          /\ [LineageNext]_lineageVars
  BY StepsOfParts
<1> QED
  BY <1>1, <1>2, FailureIsGiven, PTL
  DEF Spec, BackoffSpec, GroupsSpec, ChainSpec, SnapshotSpec, LineageSpec

(* All that was proved of the parts, of a failed call as a whole.          *)
THEOREM PartsAreSound ==
    Spec => /\ []SleepIsBounded /\ []GroupIsItsWorst
            /\ []ChainTypeOK /\ []MessageIsRight
            /\ []SecretsStay /\ []SnapshotSurvives /\ []TierSurvivesHops
BY ComposesParts, SleepsAreBounded, GroupsAreTheirWorst, ChainTypesHold, MessagesAreRight,
   SecretsAlwaysStay, SnapshotsSurvive, TiersSurviveHops, PTL

-----------------------------------------------------------------------------
(* _build_envelope takes its steps in order, and the envelope is that of   *)
(* the verdict until its lineage is too long.                              *)
EnvelopeInv ==
    /\ Worded => Classified /\ verdict # NoFailure
    /\ snapshot # "walking" => Worded
    /\ envelope # NoEnvelope =>
          /\ snapshot # "walking"
          /\ h_born = ClassOf(verdict).class
          /\ Len(envelope.lineage) <= LineageCap =>
                envelope.class = ClassOf(verdict).class /\ envelope.level = ClassOf(verdict).level

(* Nothing is classified again.                                            *)
LEMMA VerdictIsFinal ==
    ASSUME GroupsInv, Classified PROVE ~GroupsNext
<1>1. next \in Nat /\ tree.size \in Nat /\ calls = <<>> /\ next > tree.size
  BY TreeFacts DEF GroupsInv, Classified
<1>2. ~Meet /\ ~Leave
  <2>1. ~(next <= tree.size)
    BY ONLY <1>1
  <2> QED BY <1>1, <2>1 DEF Meet, Leave
<1> QED BY <1>2 DEF GroupsNext, Enter, Classify

(* No step of a failed call breaks EnvelopeInv.                            *)
LEMMA EnvelopeStepInv ==
    ASSUME EnvelopeInv, GroupsInv, LineageInv, [Next]_vars PROVE EnvelopeInv'
<1>1. CASE UNCHANGED vars
  <2>1. UNCHANGED <<walk, calls, next, tree, verdict, snapshot, envelope, h_born>>
    BY <1>1 DEF vars, chainVars, groupsVars, snapshotVars, lineageVars
  <2> QED BY <2>1 DEF EnvelopeInv, Worded, Classified, ClassOf
<1>2. CASE Retry
  <2>1. UNCHANGED <<walk, calls, next, tree, verdict, snapshot, envelope, h_born>>
    BY <1>2 DEF Retry, chainVars, groupsVars, snapshotVars, lineageVars
  <2> QED BY <2>1 DEF EnvelopeInv, Worded, Classified, ClassOf
<1>3. CASE ClassifyFailure
  <2>1. ~Classified
    BY <1>3, VerdictIsFinal DEF ClassifyFailure
  <2>2. ~Worded /\ snapshot = "walking" /\ envelope = NoEnvelope
    BY <2>1 DEF EnvelopeInv
  <2>3. UNCHANGED <<walk, snapshot, envelope>>
    BY <1>3 DEF ClassifyFailure, chainVars, snapshotVars, lineageVars
  <2> QED BY <2>2, <2>3 DEF EnvelopeInv, Worded
<1>4. CASE TakeMessage
  <2>1. /\ Classified /\ verdict # NoFailure
        /\ UNCHANGED <<calls, next, tree, verdict, snapshot, envelope, h_born>>
    BY <1>4 DEF TakeMessage, groupsVars, snapshotVars, lineageVars
  <2>2. Worded => Worded'
    BY <1>4 DEF TakeMessage, ChainNext, Skip, Find, Found, NoneFound, Read, Answer, Worded
  <2> QED BY <2>1, <2>2 DEF EnvelopeInv, Classified, ClassOf
<1>5. CASE CopyContext
  <2>1. /\ Worded
        /\ UNCHANGED <<walk, calls, next, tree, verdict, envelope, h_born>>
    BY <1>5 DEF CopyContext, groupsVars, chainVars, lineageVars
  <2>2. snapshot # "walking" => snapshot' # "walking"
    BY <1>5 DEF CopyContext, SnapshotNext, PassOver, Raise, Cut, Sanitize, Proceed, Check
  <2> QED BY <2>1, <2>2 DEF EnvelopeInv, Worded, Classified, ClassOf
<1>6. CASE BuildEnvelope
  <2>1. /\ snapshot # "walking"
        /\ UNCHANGED <<walk, calls, next, tree, verdict, snapshot>>
        /\ envelope'.class = ClassOf(verdict).class
        /\ envelope'.level = ClassOf(verdict).level
    BY <1>6 DEF BuildEnvelope, groupsVars, chainVars, snapshotVars
  <2>2. h_born' = envelope'.class
    BY <1>6 DEF BuildEnvelope, Build, Envelope
  <2> QED BY <2>1, <2>2 DEF EnvelopeInv, Worded, Classified, ClassOf
<1>7. CASE Travel
  <2>1. /\ UNCHANGED <<walk, calls, next, tree, verdict, snapshot, h_born>>
        /\ envelope # NoEnvelope
    BY <1>7 DEF Travel, Hop, groupsVars, chainVars, snapshotVars
  <2>2. PICK a \in failure.next_agents : envelope' = ExtendLineage(envelope, a)
    BY <1>7 DEF Travel, Hop
  <2>3. envelope = Envelope(envelope.class, envelope.level, h_path) /\ h_path \in Seq(Agents)
    BY <2>1 DEF LineageInv
  <2>4. envelope.lineage = h_path /\ Len(h_path) \in Nat
    BY <2>3 DEF Envelope
  <2>5. CASE Len(h_path) >= LineageCap
    <3>1. envelope'.lineage = Append(h_path, a)
      BY <2>2, <2>4, <2>5 DEF ExtendLineage, Envelope
    <3>2. Len(envelope'.lineage) = Len(h_path) + 1
      BY <2>3, <3>1
    <3>3. ~(Len(envelope'.lineage) <= LineageCap)
      BY <2>4, <2>5, <3>2, LineageAssumption
    <3> QED BY <2>1, <3>3 DEF EnvelopeInv, Worded, Classified, ClassOf
  <2>6. CASE ~(Len(h_path) >= LineageCap)
    <3>1. envelope' = [envelope EXCEPT !.lineage = Append(h_path, a)]
      BY <2>2, <2>4, <2>6 DEF ExtendLineage
    <3>2. envelope'.class = envelope.class /\ envelope'.level = envelope.level
      BY <3>1, <2>3 DEF Envelope
    <3>3. Len(envelope.lineage) <= LineageCap
      BY <2>4, <2>6, LineageAssumption
    <3> QED BY <2>1, <3>2, <3>3 DEF EnvelopeInv, Worded, Classified, ClassOf
  <2> QED BY <2>5, <2>6
<1> QED
  BY <1>1, <1>2, <1>3, <1>4, <1>5, <1>6, <1>7 DEF Next

(* The class of an envelope is that of the worst failure until its lineage *)
(* is too long, and never a milder one; for groups of any size and depth,  *)
(* and any number of hops.                                                 *)
THEOREM WorstFailuresTravel == Spec => []WorstFailureTravels
<1>1. Init => EnvelopeInv
  BY DEF Init, ChainInit, SnapshotStart, LineageInit, EnvelopeInv, Worded
<1>2. EnvelopeInv /\ GroupsInv /\ LineageInv /\ [Next]_vars => EnvelopeInv'
  BY EnvelopeStepInv
<1>3. ASSUME EnvelopeInv, GroupIsItsWorst, LineageInv PROVE WorstFailureTravels
  <2> SUFFICES ASSUME envelope # NoEnvelope PROVE WorstFailureTravels
    BY DEF WorstFailureTravels
  <2>1. verdict # NoFailure /\ calls = <<>> /\ next > tree.size
    BY <1>3 DEF EnvelopeInv, Classified
  <2>2. verdict \in Failed /\ \A n \in Failed : Rank(n) <= Rank(verdict)
    BY <1>3, <2>1 DEF GroupIsItsWorst
  <2>3. /\ h_born \in DOMAIN Severity /\ envelope.class \in DOMAIN Severity
        /\ Severity[envelope.class] >= Severity[h_born] /\ h_born = ClassOf(verdict).class
    BY <1>3 DEF LineageInv, EnvelopeInv
  <2>4. Rank(verdict) = Severity[h_born]
    BY <2>3 DEF Rank
  <2>5. ASSUME NEW n \in Failed PROVE Rank(n) <= Severity[envelope.class]
    <3>1. Severity[envelope.class] \in Nat /\ Rank(n) \in Nat /\ Rank(verdict) \in Nat
      BY <2>3, RankIsNatural DEF Severity
    <3>2. Rank(n) <= Rank(verdict) /\ Severity[envelope.class] >= Rank(verdict)
      BY <2>2, <2>3, <2>4, <2>5
    <3> QED BY ONLY <3>1, <3>2
  <2> QED BY <1>3, <2>2, <2>5 DEF WorstFailureTravels, EnvelopeInv
<1>4. Spec => []GroupsInv /\ []LineageInv /\ []GroupIsItsWorst
  BY ComposesParts, GroupsInvariant, LineageInvariant, GroupsAreTheirWorst, PTL
<1> QED
  BY <1>1, <1>2, <1>3, <1>4, PTL DEF Spec

(* From its construction to its last hop, every envelope is true to its    *)
(* failure and to its way.                                                 *)
THEOREM EnvelopesStayTrue == Spec => []EnvelopeStaysTrue
<1>1. TierSurvivesHops /\ WorstFailureTravels => EnvelopeStaysTrue
  BY DEF EnvelopeStaysTrue
<1> QED
  BY <1>1, PartsAreSound, WorstFailuresTravel, PTL
=============================================================================
