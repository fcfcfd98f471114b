------------------------------- MODULE MCInstall -------------------------------
(***************************************************************************)
(* Instances of Install for TLC: a skill, the support tree, hooks.json and *)
(* the policy files; two bundles, the second of which drops the skill.     *)
(***************************************************************************)
EXTENDS Install, TLC

CONSTANTS skill, support, hooks, policy

MCOrder == <<skill, support, hooks, policy>>
MCKind == skill :> "skill" @@ support :> "support" @@ hooks :> "hooks" @@ policy :> "policy"
MCShips == 1 :> {skill} @@ 2 :> {}

\* Every policy mode, and a migration of what is already there.
Several == {[policy |-> "install", migrate |-> TRUE],
            [policy |-> "preserve", migrate |-> FALSE],
            [policy |-> "remove", migrate |-> FALSE]}

Original == [user |-> 0, bundle |-> 0, tx |-> 0]
\* Nothing is installed.
New == {[t \in Targets |-> IF Kind[t] = "policy" THEN Original ELSE Absent]}
\* A v2 installation with its skill.
Legacy == {[t \in Targets |-> IF Kind[t] = "hooks" THEN Absent ELSE Original]}
NewOrLegacy == New \cup Legacy
=============================================================================
