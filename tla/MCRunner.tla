------------------------------- MODULE MCRunner -------------------------------
(***************************************************************************)
(* Instances of Runner for TLC.  Long: two reviewers, a rank that pays for *)
(* everything, one fault.  Short: the rank runs out, the deadline may      *)
(* pass, a correction is possible, every outcome occurs.  Pair: two        *)
(* processes drive the same node.  Granted: two processes, and a rank that *)
(* pays for exactly one correction.                                        *)
(***************************************************************************)
EXTENDS Runner, TLC

CONSTANTS p, q

Long == {[runners |-> {p}, cohort |-> 2, rank |-> 22, deadline |-> FALSE,
          correctable |-> FALSE, outcomes |-> {"pass", "block", "unresolved"},
          faults |-> 1, retries |-> 0]}
Short == [runners |-> {p}, cohort |-> 1, rank |-> 10, deadline |-> TRUE,
          correctable |-> TRUE,
          outcomes |-> {"pass", "block", "unresolved", "contradict", "garbled", "failed"},
          faults |-> 1, retries |-> 2]
Pair == [runners |-> {p, q}, cohort |-> 1, rank |-> 12, deadline |-> FALSE,
         correctable |-> FALSE, outcomes |-> {"pass", "block"},
         faults |-> 0, retries |-> 0]
Granted == [runners |-> {p, q}, cohort |-> 1, rank |-> 9, deadline |-> FALSE,
            correctable |-> TRUE, outcomes |-> {"pass"},
            faults |-> 0, retries |-> 1]
Safety == {Short, [Short EXCEPT !.runners = {q}], Pair, Granted}

Symmetric == Permutations(Runners)
===============================================================================
