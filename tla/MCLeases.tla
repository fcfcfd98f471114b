------------------------------- MODULE MCLeases -------------------------------
(***************************************************************************)
(* Instances of Leases for TLC: two campaigns that share a worktree.       *)
(***************************************************************************)
EXTENDS Leases, TLC

CONSTANTS c1, c2, n1, n2, w1, a1, a2, a3

MCCampaignOf == n1 :> c1 @@ n2 :> c2
MCWorktreeOf == [c \in {c1, c2} |-> w1]

\* The actors are interchangeable, and so are the campaigns with their nodes.
Same == c1 :> c1 @@ c2 :> c2 @@ n1 :> n1 @@ n2 :> n2
Swap == c1 :> c2 @@ c2 :> c1 @@ n1 :> n2 @@ n2 :> n1
Symmetry == {p @@ q : p \in Permutations({a1, a2, a3}), q \in {Same, Swap}}
=============================================================================
