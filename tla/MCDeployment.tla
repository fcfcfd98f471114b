---------------------------- MODULE MCDeployment ------------------------------
(***************************************************************************)
(* Instances of Deployment for TLC: one per program, and a small overlay     *)
(* that uses each operation and each anchor once.                           *)
(***************************************************************************)
EXTENDS Deployment, TLC

CONSTANTS p1, p2

Group(id, values) == [id |-> id, values |-> values]
MCReviewed == Policy([limit |-> 1], <<Group(1, <<11, 12>>), Group(2, <<21>>)>>)
\* The update of the base already brings what the overlay would insert.
MCRebased == Policy([limit |-> 1], <<Group(1, <<11, 13, 12>>), Group(2, <<21>>)>>)
MCOverlay ==
    <<[op |-> "set", path |-> "limit", value |-> 2],
      [op |-> "insert_unique", path |-> "groups", select |-> 1, value |-> 13,
       side |-> "before", anchor |-> 12],
      [op |-> "insert_unique", path |-> "groups", select |-> 2, value |-> 22,
       side |-> "end", anchor |-> 0],
      [op |-> "insert_object_unique", path |-> "groups", value |-> Group(3, <<>>),
       side |-> "after", anchor |-> 1]>>

Ask(tx, bundle, expected) == [tx |-> tx, bundle |-> bundle, expected |-> expected]
Budget(edits, drifts, faults, crashes) ==
    [edits |-> edits, drifts |-> drifts, faults |-> faults, crashes |-> crashes]

\* Two files, one of them new; the second bundle shares a file with the first.
Shared2 == {Ask(1, <<2, 3>>, 0), Ask(2, <<2, 4>>, 0)}
\* One identifier used for two bundles.
Reused == {Ask(1, <<2, 3>>, 0), Ask(1, <<2, 4>>, 0)}
OnAuthority(requests, budgets) ==
    [program |-> "authority", files |-> 2, initial |-> <<1, 0>>, parts |-> {"authority"},
     requests |-> requests, budgets |-> budgets]

\* One file; the second transaction starts from the foreign bytes or from the base.
Again(base) == {Ask(1, <<2>>, base), Ask(2, <<2>>, 9), Ask(2, <<2>>, base)}
OnPolicy(base, budgets) ==
    [program |-> "policy", files |-> 1, initial |-> <<base>>, parts |-> {"validator", "base"},
     requests |-> Again(base), budgets |-> budgets]
OnBom(base, budgets) ==
    [program |-> "bom", files |-> 1, initial |-> <<base>>,
     parts |-> {"config", "identity", "closure", "gateway"},
     requests |-> Again(base), budgets |-> budgets]

MCSettings ==
    {OnAuthority(Shared2, Budget(1, 0, 0, 1)), OnAuthority(Shared2, Budget(0, 1, 1, 1)),
     OnAuthority(Reused, Budget(1, 0, 1, 1)),
     OnPolicy(1, Budget(1, 0, 0, 1)), OnPolicy(0, Budget(1, 0, 1, 0)),
     OnPolicy(1, Budget(0, 1, 1, 1)),
     OnBom(0, Budget(1, 1, 0, 1)), OnBom(0, Budget(0, 1, 1, 1)), OnBom(1, Budget(1, 0, 1, 0))}

Perms == Permutations(Procs)
=============================================================================
