----------------------------- MODULE MCExactFile -------------------------------
(***************************************************************************)
(* Instances of ExactFile for TLC: two operations in a row on one file, and *)
(* a repetition of the first identity with other bytes.                    *)
(***************************************************************************)
EXTENDS ExactFile

CONSTANTS first, second, a, b, c, d

Chain == {[op |-> first, baseline |-> a, replacement |-> b],
          [op |-> second, baseline |-> b, replacement |-> c]}
Reused == Chain \cup {[op |-> first, baseline |-> a, replacement |-> c]}
=============================================================================
