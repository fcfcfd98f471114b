----------------------------- MODULE AllOrNothing ------------------------------
(***************************************************************************)
(* What a transactional change of a set of files promises to whoever reads *)
(* the files by way of a pointer: the files change only in one step, the   *)
(* step in which the pointer changes.  A transaction may be open before    *)
(* and after that step, end without it, or stay open for ever.             *)
(***************************************************************************)
VARIABLES
  current,  \* the version the pointer names
  image,    \* the files as a reader may rely on them
  open      \* a transaction is unfinished

vars == <<current, image, open>>

Init == open = FALSE
Open == ~open /\ open' = TRUE /\ UNCHANGED <<current, image>>
Commit == open /\ current' # current /\ open' = TRUE
End == open /\ open' = FALSE /\ UNCHANGED <<current, image>>
Next == Open \/ Commit \/ End
Spec == Init /\ [][Next]_vars
=============================================================================
