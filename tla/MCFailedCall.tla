------------------------------ MODULE MCFailedCall ------------------------------
(* Failures that are plain but for one part, which takes all its values.   *)
EXTENDS FailedCall

-----------------------------------------------------------------------------
(* Retry-After headers that are below, at and above each of the limits.    *)
MCHeaders == {NoHeader, BadHeader}
    \cup {[form |-> f, seconds |-> n] : f \in {"seconds", "date"}, n \in {-1, 0, 1, 3, 7, 8, 9, 16, 17}}

-----------------------------------------------------------------------------
(* Chains of three exceptions, of which the second may have its context    *)
(* suppressed, the last may be a parse error, and one may have no text;    *)
(* two texts are too long together.                                        *)
MCExceptions == 1 .. 3
Links == [MCExceptions -> MCExceptions \cup {NoException}]
Lengths == {n \in [MCExceptions -> {0, 4}] : Cardinality({e \in MCExceptions : n[e] = 0}) <= 1}

MCChains ==
    [raised : {1}, cause : Links, context : Links,
     suppress : {<<FALSE, s, FALSE>> : s \in BOOLEAN},
     parse : {<<FALSE, FALSE, p>> : p \in BOOLEAN}, length : Lengths]

-----------------------------------------------------------------------------
(* Groups of up to five exceptions and groups, with exceptions of every    *)
(* class and control flow.                                                 *)
Kinds == {{"BudgetExhaustedError"}, {"SLAViolationError"}, {"PermissionError", "OSError"},
          {"OSError"}, {"ValueError", "FallbackCapableError"}, {"CancelledError"}}

Shapes == {s \in UNION {[size : {k}, group : [1 .. k -> BOOLEAN], last : [1 .. k -> 1 .. k]] : k \in 1 .. 5} :
              WellFormed(s)}

Leaves(s) == {n \in 1 .. s.size : ~s.group[n]}

MCTrees ==
    UNION {{[size |-> s.size, group |-> s.group, last |-> s.last,
             types |-> [n \in 1 .. s.size |-> IF s.group[n] THEN {} ELSE t[n]]] :
               t \in [Leaves(s) -> Kinds]} : s \in Shapes}

-----------------------------------------------------------------------------
(* Host state of up to five values, with dicts of up to four keys.         *)
Depths(k) == {d \in [1 .. k -> 0 .. k - 1] :
    d[1] = 0 /\ \A n \in 2 .. k : d[n] \in 1 .. d[n - 1] + 1}

Inner(d, n) == n + 1 \in DOMAIN d /\ d[n + 1] > d[n]
Parent(d, n) == Max({m \in 1 .. n - 1 : d[m] < d[n]})

Contents(d, leaves) == {i \in [DOMAIN d -> leaves \cup Containers] :
    \A n \in DOMAIN d : i[n] \in IF Inner(d, n) THEN Containers ELSE leaves}

Keyed(d, i) == {n \in DOMAIN d \ {1} : i[Parent(d, n)] = "dict"}

Place(d, n) == Cardinality({m \in 2 .. n : Parent(d, m) = Parent(d, n)})

StatesOf(d, i, ks) ==
    {[size |-> Len(d), depth |-> d, is |-> i,
      key |-> [n \in DOMAIN d |-> IF n \in Keyed(d, i) THEN k[n] ELSE "none"],
      rank |-> [n \in DOMAIN d |-> IF n = 1 THEN 0 ELSE Place(d, n)]] :
        k \in [Keyed(d, i) -> ks]}

StatesUpTo(k, leaves, ks) ==
    UNION {UNION {UNION {StatesOf(d, i, ks) : i \in Contents(d, leaves)} : d \in Depths(n)} : n \in 1 .. k}

MCContexts ==
    StatesUpTo(3, HostScalars \cup Containers, Keys)
    \cup StatesUpTo(4, {"text", "dict"}, Keys)
    \cup StatesUpTo(5, {"secret", "text"}, {"plain", "sensitive"})

-----------------------------------------------------------------------------
CONSTANTS a, b
MCAgents == {a, b}

OneException(types) ==
    [size |-> 1, group |-> <<FALSE>>, last |-> <<1>>, types |-> <<types>>]

PlainTree == OneException({"OSError"})
PlainChain ==
    [raised |-> 1, cause |-> <<0, 0, 0>>, context |-> <<0, 0, 0>>,
     suppress |-> <<FALSE, FALSE, FALSE>>, parse |-> <<FALSE, FALSE, FALSE>>,
     length |-> <<4, 4, 4>>]
PlainContext ==
    [size |-> 1, depth |-> <<0>>, key |-> <<"none">>, rank |-> <<0>>, is |-> <<"dict">>]

FailuresOf(headers, trees, chains, contexts, next_agents) ==
    [headers : {headers}, tree : trees, chain : chains, context : contexts,
     agent : {a}, next_agents : {next_agents}]

MCFailures == UNION {
    FailuresOf(MCHeaders, {PlainTree}, {PlainChain}, {PlainContext}, {}),
    FailuresOf({}, MCTrees, {PlainChain}, {PlainContext}, {}),
    FailuresOf({}, {PlainTree}, MCChains, {PlainContext}, {}),
    FailuresOf({}, {PlainTree}, {PlainChain}, MCContexts, {}),
    FailuresOf({}, {OneException(k) : k \in Kinds}, {PlainChain}, {PlainContext}, MCAgents)}
=============================================================================
