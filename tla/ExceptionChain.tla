----------------------------- MODULE ExceptionChain -----------------------------
(***************************************************************************)
(* TrustBoundaryValidator.safe_exception_message of                        *)
(* validation/trust_boundary.py: one walk over the exceptions behind the   *)
(* raised one looks for parse errors, a second one collects the texts.     *)
(* Causes and contexts may form cycles.                                    *)
(*                                                                         *)
(* A chain has __cause__, __context__ and __suppress_context__ of each     *)
(* exception, whether it is a JSONDecodeError or a UnicodeDecodeError, and *)
(* how long its text is, 0 if it has none or str() of it raises.           *)
(***************************************************************************)
EXTENDS Naturals, Sequences, FiniteSets

CONSTANTS
    Exceptions,
    NoException,
    Chains,
    SAFE_MESSAGE_MAX_CHARS

ChainsOf(E) == [raised : E, cause : [E -> E \cup {NoException}],
                context : [E -> E \cup {NoException}], suppress : [E -> BOOLEAN],
                parse : [E -> BOOLEAN], length : [E -> Nat]]

ASSUME ChainAssumption ==
    /\ NoException \notin Exceptions
    /\ Chains \subseteq ChainsOf(Exceptions)
    /\ SAFE_MESSAGE_MAX_CHARS \in Nat \ {0}

VARIABLES
    chain,
    walk,       \* which walk, or the end of both
    stack,      \* its top is the head
    seen,
    parts,      \* the exceptions whose texts are collected
    chars,      \* the length of " | ".join(parts)
    h_pops      \* pops of this walk

chainVars == <<chain, walk, stack, seen, parts, chars, h_pops>>

Cause == chain.cause[Head(stack)]
Context == chain.context[Head(stack)]

ChainInit ==
    /\ chain \in Chains
    /\ walk = "finding" /\ stack = <<chain.raised>> /\ seen = {}
    /\ parts = <<>> /\ chars = 0 /\ h_pops = 0

(* What is pushed for the top: the context, and the cause above it.        *)
Unless_Pushed ==
    IF Cause # NoException THEN <<Cause>>
    ELSE IF Context # NoException /\ ~chain.suppress[Head(stack)] THEN <<Context>>
    ELSE <<>>
Pushed ==
    (IF Cause # NoException THEN <<Cause>> ELSE <<>>)
    \o (IF Context # NoException /\ ~chain.suppress[Head(stack)] THEN <<Context>> ELSE <<>>)

Pops ==
    /\ stack # <<>>
    /\ walk = "reading" => chars < SAFE_MESSAGE_MAX_CHARS
    /\ h_pops' = h_pops + 1

Skip ==
    /\ walk \in {"finding", "reading"} /\ Pops
    /\ Head(stack) \in seen
    /\ stack' = Tail(stack)
    /\ UNCHANGED <<chain, walk, seen, parts, chars>>

(* The rest of both loops, once current is new.                            *)
Visit ==
    /\ Pops /\ Head(stack) \notin seen
    /\ seen' = seen \cup {Head(stack)}
    /\ stack' = Pushed \o Tail(stack)
    /\ UNCHANGED chain

(* _chain_contains_parse_error *)
Find ==
    /\ walk = "finding" /\ Visit
    /\ ~chain.parse[Head(stack)]
    /\ UNCHANGED <<walk, parts, chars>>

Found ==
    /\ walk = "finding" /\ Pops
    /\ Head(stack) \notin seen /\ chain.parse[Head(stack)]
    /\ seen' = seen \cup {Head(stack)}
    /\ stack' = Tail(stack)
    /\ walk' = "redacted"
    /\ UNCHANGED <<chain, parts, chars>>

NoneFound ==
    /\ walk = "finding" /\ stack = <<>>
    /\ walk' = "reading"
    /\ stack' = <<chain.raised>> /\ seen' = {} /\ h_pops' = 0
    /\ UNCHANGED <<chain, parts, chars>>

(* _exception_chain_text *)
Read ==
    /\ walk = "reading" /\ Visit
    /\ LET n == chain.length[Head(stack)]
       IN  IF n = 0 THEN UNCHANGED <<parts, chars>>
           ELSE /\ parts' = Append(parts, Head(stack))
                /\ chars' = IF parts = <<>> THEN n ELSE chars + 3 + n
    /\ UNCHANGED walk

(* The text is cut, cleaned and redacted, unless the redaction budget is   *)
(* exceeded.                                                               *)
Answer ==
    /\ walk = "reading"
    /\ stack = <<>> \/ chars >= SAFE_MESSAGE_MAX_CHARS
    /\ walk' \in {"answered", "over budget"}
    /\ UNCHANGED <<chain, stack, seen, parts, chars, h_pops>>

ChainNext == Skip \/ Find \/ Found \/ NoneFound \/ Read \/ Answer

ChainSpec == ChainInit /\ [][ChainNext]_chainVars

-----------------------------------------------------------------------------
(* f is the cause of e, or its context and not suppressed.                 *)
Linked(e, f) == f = chain.cause[e] \/ (f = chain.context[e] /\ ~chain.suppress[e])

(* The exceptions that are reached from the raised one: those that are in  *)
(* every set that has it and what its members are linked to.               *)
Closed(S) ==
    chain.raised \in S /\ \A e \in S, f \in Exceptions : Linked(e, f) => f \in S
Behind == {e \in Exceptions : \A S \in SUBSET Exceptions : Closed(S) => e \in S}

ChainTypeOK ==
    /\ chain \in Chains
    /\ walk \in {"finding", "redacted", "reading", "answered", "over budget"}
    /\ stack \in Seq(Exceptions) /\ seen \subseteq Exceptions
    /\ parts \in Seq(Exceptions) /\ chars \in Nat /\ h_pops \in Nat

(* One parse error anywhere behind an exception hides the whole message,   *)
(* even beyond the text that fits.                                         *)
ParseErrorsHide ==
    /\ walk = "redacted" => \E e \in Behind : chain.parse[e]
    /\ walk \in {"reading", "answered", "over budget"} => \A e \in Behind : ~chain.parse[e]

(* The message has the text of every exception behind the raised one once, *)
(* cycles or not, unless it is full; itself first, and then its cause.     *)
ChainIsRead == walk = "answered" =>
    LET texts == {e \in Behind : chain.length[e] > 0}
        first == chain.raised
        second == chain.cause[first]
    IN  /\ \A m, n \in 1 .. Len(parts) : parts[m] = parts[n] => m = n
        /\ \A n \in 1 .. Len(parts) : parts[n] \in texts
        /\ chars < SAFE_MESSAGE_MAX_CHARS => \A e \in texts : \E n \in 1 .. Len(parts) : parts[n] = e
        /\ first \in texts => Len(parts) >= 1 /\ parts[1] = first
        /\ first \in texts /\ second \in texts \ {first} /\ Len(parts) >= 2 =>
              parts[2] = second

(* No walk pops more than twice for each exception it has seen, and once:  *)
(* it ends on every chain, however the exceptions are linked.              *)
WalksAreShort == h_pops <= 1 + 2 * Cardinality(seen)

(* All that is promised of a message: it is hidden if and only if it must  *)
(* be, complete and in order, and made in a time that the chain bounds.    *)
MessageIsRight == ParseErrorsHide /\ ChainIsRead /\ WalksAreShort
=============================================================================
