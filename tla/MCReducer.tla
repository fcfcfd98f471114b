------------------------------ MODULE MCReducer ------------------------------
(***************************************************************************)
(* Instances of Reducer for TLC.  Constants that are functions or          *)
(* sequences are given here; the cfg files pick them.                      *)
(***************************************************************************)
EXTENDS Reducer, TLC

CONSTANTS n1, n2, n3, a1, a2, h1, h2, f1, f2, o1, o2

OneNode == {n1}
ThreeNodes == {n1, n2, n3}
NoDependencies == [n \in {n1} |-> {}]
Join == [n \in {n1, n2, n3} |-> IF n = n3 THEN {n1, n2} ELSE {}]

PushMerge == <<"PUSH", "MERGE">>
PushOnly == <<"PUSH">>
Omitted == <<>>

\* Exactly enough for one implementation, its one correction, a review by one
\* reviewer with its repair, and the delivery.
CorrectionBudget == [t \in BudgetTokens |->
  CASE t = "CHILD_CREATION" -> 2
    [] t \in {"CHILD_START", "VALIDATION_EXECUTION"} -> 3
    [] t \in {"REVIEW_DISPATCH", "REPAIR_DISPATCH", "CLOSURE_DISPATCH",
              "PUSH", "MERGE", "HOSTED_CHECK_WAKEUP"} -> 1
    [] OTHER -> 0]
NoBudget == [t \in BudgetTokens |-> 0]

Symmetry == Permutations({a1, a2}) \cup Permutations({h1, h2})
            \cup Permutations({f1, f2}) \cup Permutations({o1, o2})
SwapNodes == Permutations({n1, n2})
=============================================================================
