------------------------------- MODULE TokenBank -------------------------------
(***************************************************************************)
(* What BudgetWatchdog promises about tokens and cost: capacity is granted *)
(* in one step, all of a request or nothing of it, never beyond a ceiling, *)
(* and a report shows the spending between two grants, never inside one.   *)
(***************************************************************************)
EXTENDS Naturals

CONSTANTS Resources,   \* what is limited
          Ceiling,     \* the ceilings that are set: a function on some of them
          Requests     \* the amounts that may be asked for

VARIABLES spent,       \* granted so far
          report       \* what the last snapshot showed

bankVars == <<spent, report>>

Nothing == [r \in Resources |-> 0]

Init == spent = Nothing /\ report = Nothing

Fits(amount) == \A r \in DOMAIN Ceiling : spent[r] + amount[r] <= Ceiling[r]

Grant(amount) ==
    /\ Fits(amount)
    /\ spent' = [r \in Resources |-> spent[r] + amount[r]]
    /\ UNCHANGED report

Report ==
    /\ report' = spent
    /\ UNCHANGED spent

Next == Report \/ \E amount \in Requests : Grant(amount)

Spec == Init /\ [][Next]_bankVars
=============================================================================
