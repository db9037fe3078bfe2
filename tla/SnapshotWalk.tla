------------------------------ MODULE SnapshotWalk ------------------------------
(***************************************************************************)
(* sanitize_context_snapshot() of validation/trust_boundary.py: the walk   *)
(* of _sanitize_node over host state, and the checks that                  *)
(* SafeContextSnapshot (taxonomy/envelope.py) makes of what comes out.     *)
(*                                                                         *)
(* Host state has its values numbered in the order of the walk, the root   *)
(* first: how deep each one is, whether it is the value of a dict's key,   *)
(* and of what key, the how manieth item it is, and what it is.  "text"    *)
(* has nothing to redact, "secret" matches a redaction pattern, "number"   *)
(* is a finite one, a bool or None, "nan" is not finite, and "object" is   *)
(* of an unsupported type.  Of keys, "sensitive" is one whose value is to  *)
(* be redacted, the text of a "secret" one matches a redaction pattern     *)
(* itself, and str() of an "unprintable" one raises.                       *)
(***************************************************************************)
EXTENDS Naturals

CONSTANTS
    Contexts,
    SAFE_CONTEXT_MAX_DEPTH,
    SAFE_CONTEXT_MAX_KEYS

Containers == {"dict", "list"}
HostScalars == {"text", "secret", "number", "nan", "object"}
Keys == {"plain", "sensitive", "secret", "unprintable"}

HostState(c) ==
    /\ c.size \in Nat \ {0}
    /\ c.depth \in [1 .. c.size -> Nat] /\ c.depth[1] = 0
    /\ \A n \in 2 .. c.size :
          /\ c.depth[n] \in 1 .. c.depth[n - 1] + 1
          /\ c.depth[n] > c.depth[n - 1] => c.is[n - 1] \in Containers
    /\ c.key \in [1 .. c.size -> {"none"} \cup Keys] /\ c.key[1] = "none"
    /\ c.rank \in [1 .. c.size -> Nat]
    /\ c.is \in [1 .. c.size -> Containers \cup HostScalars]

ASSUME SnapshotAssumption ==
    /\ \A c \in Contexts : HostState(c)
    /\ SAFE_CONTEXT_MAX_DEPTH \in Nat
    /\ SAFE_CONTEXT_MAX_KEYS \in Nat \ {0}

VARIABLES
    context,
    at,         \* the value the walk is at
    cut,        \* deeper values are left out with the one they are in, if not 0
    out,        \* what stands for each value that the walk has passed
    keys,       \* and for its key
    spent,      \* is the redaction budget exceeded?
    snapshot,   \* "walking", then what was made of out: "kept" or "empty"
    h_blocked   \* was a string withheld for want of a scan?

snapshotVars == <<context, at, cut, out, keys, spent, snapshot, h_blocked>>

Absent == "absent"
Markers == {"[REDACTED]", "[REDACTED:budget_exceeded]", "[REDACTED] in text",
            "<non-finite-float>", "<class name>", "<depth-limit>"}

SnapshotTypeOK ==
    /\ at \in 1 .. context.size + 1
    /\ cut \in Nat
    /\ out \in [1 .. context.size -> {Absent} \cup Containers \cup HostScalars \cup Markers]
    /\ keys \in [1 .. context.size -> {Absent, "none"} \cup Keys]
    /\ spent \in BOOLEAN /\ h_blocked \in BOOLEAN
    /\ snapshot \in {"walking", "kept", "empty"}

SnapshotStart ==
    /\ at = 1 /\ cut = 0 /\ out = [n \in 1 .. context.size |-> Absent]
    /\ keys = [n \in 1 .. context.size |-> Absent]
    /\ spent = FALSE /\ h_blocked = FALSE /\ snapshot = "walking"

SnapshotInit == context \in Contexts /\ SnapshotStart

-----------------------------------------------------------------------------
(* Only the first keys of a dict are kept.                                 *)
Dropped(n) == context.key[n] # "none" /\ context.rank[n] > SAFE_CONTEXT_MAX_KEYS
TooDeep(n) == context.depth[n] > SAFE_CONTEXT_MAX_DEPTH
Sensitive(n) == context.key[n] = "sensitive"
Unprintable(n) == context.key[n] = "unprintable" /\ ~Dropped(n)

(* The sanitizer has a limit of its own, which is the one of the envelope. *)
Early_BeyondLimit(n) == context.depth[n] >= SAFE_CONTEXT_MAX_DEPTH
BeyondLimit(n) == context.depth[n] > SAFE_CONTEXT_MAX_DEPTH

IsCut(n) == Dropped(n) \/ Sensitive(n) \/ BeyondLimit(n)
LeftOut(n) == cut > 0 /\ context.depth[n] > cut

(* A key goes with what its value becomes, without being scanned.          *)
Put(x) ==
    /\ out' = [out EXCEPT ![at] = x]
    /\ keys' = [keys EXCEPT ![at] = context.key[at]]

Proceed ==
    /\ snapshot = "walking" /\ at <= context.size
    /\ at' = at + 1
    /\ UNCHANGED <<context, snapshot>>

PassOver ==
    /\ Proceed /\ LeftOut(at)
    /\ UNCHANGED <<cut, out, keys, spent, h_blocked>>

(* What str(k) raises ends the walk, and nothing is kept.                  *)
Raise ==
    /\ snapshot = "walking" /\ at <= context.size
    /\ ~LeftOut(at) /\ Unprintable(at)
    /\ snapshot' = "empty"
    /\ UNCHANGED <<context, at, cut, out, keys, spent, h_blocked>>

(* Values that are cut, or replaced with all that is in them: a dict sees  *)
(* to its keys before the recursion sees to the depth.                     *)
Cut ==
    /\ Proceed /\ ~LeftOut(at) /\ IsCut(at) /\ ~Unprintable(at)
    /\ cut' = context.depth[at]
    /\ IF Dropped(at) THEN UNCHANGED <<out, keys>>
       ELSE Put(IF Sensitive(at) THEN "[REDACTED]" ELSE "<depth-limit>")
    /\ UNCHANGED <<spent, h_blocked>>

(* _apply_redaction_patterns: a string is withheld once the budget of the  *)
(* walk is exceeded, and when a pattern fails.                             *)
Open_ScanString(x) ==
    \/ /\ Put(IF x = "secret" /\ ~spent THEN "[REDACTED] in text" ELSE x)
       /\ UNCHANGED <<spent, h_blocked>>
    \/ /\ Put("[REDACTED:budget_exceeded]") /\ h_blocked' = TRUE
       /\ spent' \in {spent, TRUE}
ScanString(x) ==
    \/ /\ ~spent
       /\ Put(IF x = "secret" THEN "[REDACTED] in text" ELSE x)
       /\ UNCHANGED <<spent, h_blocked>>
    \/ /\ Put("[REDACTED:budget_exceeded]") /\ h_blocked' = TRUE
       /\ spent' \in {spent, TRUE}

SanitizeValue(x) ==
    \/ x \in {"text", "secret"} /\ ScanString(x)
    \/ /\ x \notin {"text", "secret"}
       /\ Put(CASE x = "nan" -> "<non-finite-float>" [] x = "object" -> "<class name>" [] OTHER -> x)
       /\ UNCHANGED <<spent, h_blocked>>

Sanitize ==
    /\ Proceed /\ ~LeftOut(at) /\ ~IsCut(at) /\ ~Unprintable(at)
    /\ cut' = 0
    /\ SanitizeValue(context.is[at])

(* What _check_node accepts, for each value; the root must be a dict.      *)
Accepted ==
    /\ out[1] = "dict"
    /\ \A n \in 1 .. context.size : out[n] # Absent =>
          /\ ~TooDeep(n) /\ ~Dropped(n)
          /\ out[n] \notin {"nan", "object"}

(* Whatever is not accepted, SafeContextSnapshot({}) takes its place.      *)
Check ==
    /\ snapshot = "walking" /\ at > context.size
    /\ snapshot' = IF Accepted THEN "kept" ELSE "empty"
    /\ UNCHANGED <<context, at, cut, out, keys, spent, h_blocked>>

SnapshotNext == PassOver \/ Raise \/ Cut \/ Sanitize \/ Check

SnapshotSpec == SnapshotInit /\ [][SnapshotNext]_snapshotVars

-----------------------------------------------------------------------------
(* n is in the container m, or in a container in it.                       *)
In(n, m) == m < n /\ \A k \in m + 1 .. n : context.depth[k] > context.depth[m]

(* Not for a snapshot: keys beyond the first, and what is in them or in    *)
(* the value of a sensitive key.                                           *)
Gone(n) ==
    \/ Dropped(n)
    \/ \E m \in 1 .. context.size : In(n, m) /\ (Dropped(m) \/ Sensitive(m))

(* No text of the host is the value of a key or an item in a snapshot      *)
(* unless it was scanned or is harmless, and nothing is there of what has  *)
(* a sensitive key.  It is not so for keys: their text is never scanned,   *)
(* and a secret in it stays.                                               *)
SecretsStay == snapshot = "kept" => \A n \in 1 .. context.size :
    /\ out[n] \notin {"secret", "nan", "object"}
    /\ Gone(n) => out[n] = Absent /\ keys[n] = Absent
    /\ Sensitive(n) => out[n] \in {"[REDACTED]", Absent}

(* A snapshot has what the context has, in the same places and under the   *)
(* same keys, secret ones too: only secrets, unsupported values and what   *)
(* cannot be scanned are replaced.  But if anything that is kept lies      *)
(* deeper than SAFE_CONTEXT_MAX_DEPTH or has a key without text, or the    *)
(* context is no dict, nothing of it survives.                             *)
SnapshotSurvives == snapshot # "walking" =>
    IF \/ context.is[1] # "dict"
       \/ \E n \in 1 .. context.size : (TooDeep(n) \/ Unprintable(n)) /\ ~Gone(n)
    THEN snapshot = "empty"
    ELSE /\ snapshot = "kept"
         /\ \A n \in 1 .. context.size : ~Gone(n) => keys[n] = context.key[n]
         /\ \A n \in 1 .. context.size : ~Gone(n) /\ ~Sensitive(n) =>
               /\ context.is[n] \in Containers \cup {"number"} => out[n] = context.is[n]
               /\ context.is[n] = "text" /\ ~h_blocked => out[n] = "text"
               /\ context.is[n] = "secret" /\ ~h_blocked => out[n] = "[REDACTED] in text"
               /\ out[n] # Absent
=============================================================================
