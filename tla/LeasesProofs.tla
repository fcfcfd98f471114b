----------------------------- MODULE LeasesProofs -----------------------------
(***************************************************************************)
(* Proofs about the leases for every number of campaigns, nodes, worktrees *)
(* and actors.                                                             *)
(***************************************************************************)
EXTENDS Leases, TLAPS

USE DEF campaignVars, nodeVars, lockVars, Terminal

\* Fences and epochs only grow, so what a lease was issued with stays at or
\* below what its node, its worktree and its campaign have now.
BoundInv ==
  \A a \in Issued :
    /\ lease[a].authority <= authority[LeaseCampaign(a)]
    /\ lease[a].role = "WRITER" => lease[a].fence <= lockFence[Tree(a)]

\* Two writers of a worktree never got the same fence.
DistinctInv ==
  \A a, b \in Writers : a # b /\ Tree(a) = Tree(b) => lease[a].fence # lease[b].fence

\* The lock of a worktree names its active lease, fence and campaign.
LockInv ==
  /\ LockMatchesLease
  /\ \A a \in Active \cap Writers :
       /\ lockCampaign[Tree(a)] = LeaseCampaign(a)
       /\ lockFence[Tree(a)] = lease[a].fence

LeasesInv ==
  /\ BoundInv
  /\ DistinctInv
  /\ LockInv
  /\ NodeExclusive
  /\ HolderMatchesLease

LEMMA Apart == None \notin Actors /\ None \notin Campaigns /\ None \notin Lease
BY LeasesAssumption

\* What the steps that issue no lease do to the rows: they may bind one or end
\* some, and leave the rest of every row as it is.
RowsKept ==
  /\ lease' \in [Actors -> Lease \cup {None}]
  /\ \A a \in Actors :
       /\ lease'[a] = None <=> lease[a] = None
       /\ lease[a] # None =>
            /\ lease'[a].node = lease[a].node /\ lease'[a].role = lease[a].role
            /\ lease'[a].fence = lease[a].fence
            /\ lease'[a].authority = lease[a].authority
            /\ lease'[a].cancellation = lease[a].cancellation
            /\ lease'[a].state = "ACTIVE" => lease[a].state = "ACTIVE"

LEMMA InvalidateFacts ==
  ASSUME TypeOK, NEW gone, Invalidate(gone)
  PROVE  /\ RowsKept
         /\ Active' = Active \ gone
<1> USE Apart
<1>1. ASSUME NEW a \in Actors, a \in gone \cap Active
      PROVE  /\ lease'[a] \in Lease /\ lease[a] \in Lease
             /\ lease'[a] = [lease[a] EXCEPT !.state = "INVALIDATED"]
  <2>1. lease[a] \in Lease BY <1>1 DEF TypeOK, Active, Issued
  <2>2. lease'[a] = [lease[a] EXCEPT !.state = "INVALIDATED"] BY <1>1 DEF Invalidate
  <2> QED BY <2>1, <2>2 DEF Lease, LeaseStates
<1>2. ASSUME NEW a \in Actors, a \notin gone \cap Active PROVE lease'[a] = lease[a]
  BY <1>2 DEF Invalidate
<1>3. lease' \in [Actors -> Lease \cup {None}]
  <2>1. \A a \in Actors : lease'[a] \in Lease \cup {None} BY <1>1, <1>2 DEF TypeOK
  <2> QED BY <2>1 DEF Invalidate
<1>4. RowsKept BY <1>1, <1>2, <1>3 DEF RowsKept, Lease
<1>5. Active' = Active \ gone BY <1>1, <1>2 DEF Active, Issued, Lease
<1> QED BY <1>4, <1>5

\* A step that issues no lease keeps all that is said of rows alone.
LEMMA KeptInv ==
  ASSUME TypeOK, TypeOK', LeasesInv, RowsKept,
         \A c \in Campaigns : authority[c] <= authority'[c],
         UNCHANGED <<lockFence, lockCampaign>>
  PROVE  /\ Issued' = Issued /\ Writers' = Writers /\ Active' \subseteq Active
         /\ \A a \in Issued : /\ NodeOf(a)' = NodeOf(a) /\ Tree(a)' = Tree(a)
                              /\ LeaseCampaign(a)' = LeaseCampaign(a)
         /\ BoundInv' /\ DistinctInv' /\ NodeExclusive'
         /\ \A a \in Active' \cap Writers' :
              /\ lockCampaign'[Tree(a)'] = LeaseCampaign(a)'
              /\ lockFence'[Tree(a)'] = lease'[a].fence
<1>1. Issued' = Issued BY DEF RowsKept, Issued
<1>2. Writers' = Writers BY <1>1 DEF RowsKept, Writers, Issued
<1>3. Active' \subseteq Active BY DEF RowsKept, Active, Issued
<1>4. \A a \in Issued : /\ NodeOf(a)' = NodeOf(a) /\ Tree(a)' = Tree(a)
                        /\ LeaseCampaign(a)' = LeaseCampaign(a)
  BY DEF RowsKept, Issued, NodeOf, Tree, LeaseCampaign
<1>5. BoundInv'
  <2> SUFFICES ASSUME NEW a \in Issued
      PROVE  /\ lease'[a].authority <= authority'[LeaseCampaign(a)']
             /\ lease'[a].role = "WRITER" => lease'[a].fence <= lockFence'[Tree(a)']
    BY <1>1 DEF BoundInv
  <2>1. /\ lease'[a].authority = lease[a].authority /\ lease'[a].role = lease[a].role
        /\ lease'[a].fence = lease[a].fence /\ lease[a] \in Lease
    BY DEF RowsKept, Issued, TypeOK
  <2>2. LeaseCampaign(a) \in Campaigns
    BY <2>1, LeasesAssumption DEF LeaseCampaign, Lease
  <2>3. /\ lease[a].authority \in Nat /\ authority[LeaseCampaign(a)] \in Nat
        /\ authority'[LeaseCampaign(a)] \in Nat
    BY <2>1, <2>2 DEF TypeOK, Lease
  <2>4. lease[a].authority <= authority[LeaseCampaign(a)] BY DEF LeasesInv, BoundInv
  <2>5. lease[a].role = "WRITER" => lease[a].fence <= lockFence[Tree(a)]
    BY DEF LeasesInv, BoundInv
  <2> QED BY <1>4, <2>1, <2>2, <2>3, <2>4, <2>5
<1>6. DistinctInv'
  BY <1>2, <1>4 DEF LeasesInv, DistinctInv, RowsKept, Writers, Issued
<1>7. NodeExclusive'
  BY <1>3, <1>4 DEF LeasesInv, NodeExclusive, RowsKept, Active, Issued
<1>8. ASSUME NEW a \in Active' \cap Writers'
      PROVE  /\ lockCampaign'[Tree(a)'] = LeaseCampaign(a)'
             /\ lockFence'[Tree(a)'] = lease'[a].fence
  <2>1. a \in Active \cap Writers /\ a \in Issued BY <1>2, <1>3, <1>8 DEF Active
  <2>2. lease'[a].fence = lease[a].fence BY <2>1 DEF RowsKept, Issued
  <2> QED BY <1>4, <2>1, <2>2 DEF LeasesInv, LockInv
<1> QED BY <1>1, <1>2, <1>3, <1>4, <1>5, <1>6, <1>7, <1>8

\* Locks stay in step with the rows when exactly the worktrees of the leases
\* that end are unlocked.
LEMMA UnlockInv ==
  ASSUME TypeOK, TypeOK', LeasesInv, RowsKept, NEW free, Unlock(free),
         \A c \in Campaigns : authority[c] <= authority'[c],
         \A a \in Active \cap Writers : a \in Active' <=> Tree(a) \notin free
  PROVE  BoundInv' /\ DistinctInv' /\ LockInv' /\ NodeExclusive'
<1>1. UNCHANGED <<lockFence, lockCampaign>> BY DEF Unlock
<1>2. ASSUME NEW w \in Worktrees, NEW a \in Actors
      PROVE  lockLease'[w] = a <=> a \in Active' \cap Writers' /\ Tree(a)' = w
  <2>1. lockLease'[w] = a <=> lockLease[w] = a /\ w \notin free BY Apart DEF Unlock
  <2>2. lockLease[w] = a <=> a \in Active \cap Writers /\ Tree(a) = w
    BY DEF LeasesInv, LockInv, LockMatchesLease
  <2>3. /\ Writers' = Writers /\ Active' \subseteq Active
        /\ a \in Issued => Tree(a)' = Tree(a)
    BY <1>1, KeptInv
  <2>4. a \in Active => a \in Issued BY DEF Active
  <2> QED BY <2>1, <2>2, <2>3, <2>4
<1>3. LockMatchesLease' BY <1>2 DEF LockMatchesLease
<1> QED BY <1>1, <1>3, KeptInv DEF LockInv

LEMMA FenceType ==
  ASSUME TypeOK, NEW n \in Nodes, NEW role \in Roles
  PROVE  /\ NextFence(n, role) \in Nat
         /\ CampaignOf[n] \in Campaigns /\ WorktreeOf[CampaignOf[n]] \in Worktrees
<1>1. CampaignOf[n] \in Campaigns /\ WorktreeOf[CampaignOf[n]] \in Worktrees
  BY LeasesAssumption
<1>2. fence[n] \in Nat /\ lockFence[WorktreeOf[CampaignOf[n]]] \in Nat
  BY <1>1 DEF TypeOK
<1>3. CASE role = "READER" BY <1>1, <1>2, <1>3 DEF NextFence
<1>4. CASE role = "VALIDATOR" BY <1>1, <1>2, <1>4 DEF NextFence
<1>5. CASE role = "WRITER" BY <1>1, <1>2, <1>5 DEF NextFence, Larger
<1> QED BY <1>1, <1>3, <1>4, <1>5 DEF Roles

LEMMA UnlockType ==
  ASSUME TypeOK, NEW free, Unlock(free)
  PROVE  /\ lockFence' \in [Worktrees -> Nat]
         /\ lockLease' \in [Worktrees -> Actors \cup {None}]
         /\ lockCampaign' \in [Worktrees -> Campaigns \cup {None}]
BY DEF TypeOK, Unlock

\* The rows of Release and Bind.
LEMMA RowFacts ==
  ASSUME TypeOK, NEW x \in Active, NEW s \in LeaseStates, NEW b \in BOOLEAN,
         \/ lease' = [lease EXCEPT ![x].state = s]
         \/ lease' = [lease EXCEPT ![x].bound = b]
  PROVE  RowsKept
<1> USE Apart
<1>1. x \in Actors /\ lease[x] \in Lease /\ lease[x].state = "ACTIVE"
  BY DEF Active, Issued, TypeOK
<1>2. CASE lease' = [lease EXCEPT ![x].state = s]
  <2>1. lease'[x] = [lease[x] EXCEPT !.state = s] BY <1>1, <1>2 DEF TypeOK
  <2>2. lease'[x] \in Lease BY <1>1, <2>1 DEF Lease
  <2>3. \A a \in Actors \ {x} : lease'[a] = lease[a] BY <1>2 DEF TypeOK
  <2>4. lease' \in [Actors -> Lease \cup {None}] BY <1>2, <2>2, <2>3 DEF TypeOK
  <2> QED BY <1>1, <2>1, <2>2, <2>3, <2>4 DEF RowsKept, Lease
<1>3. CASE lease' = [lease EXCEPT ![x].bound = b]
  <2>1. lease'[x] = [lease[x] EXCEPT !.bound = b] BY <1>1, <1>3 DEF TypeOK
  <2>2. lease'[x] \in Lease BY <1>1, <2>1 DEF Lease
  <2>3. \A a \in Actors \ {x} : lease'[a] = lease[a] BY <1>3 DEF TypeOK
  <2>4. lease' \in [Actors -> Lease \cup {None}] BY <1>3, <2>2, <2>3 DEF TypeOK
  <2> QED BY <1>1, <2>1, <2>2, <2>3, <2>4 DEF RowsKept, Lease
<1> QED BY <1>2, <1>3

LEMMA TypeStep == TypeOK /\ [Next]_vars => TypeOK'
<1> SUFFICES ASSUME TypeOK, [Next]_vars PROVE TypeOK'
  OBVIOUS
<1> USE Apart
<1>1. ASSUME NEW a \in Actors, NEW n \in Nodes, NEW role \in Roles, Acquire(a, n, role)
      PROVE  TypeOK'
  <2> DEFINE c == CampaignOf[n]
             f == NextFence(n, role)
             row == [node |-> n, role |-> role, fence |-> f, authority |-> authority[c],
                     cancellation |-> cancellation[c], state |-> "ACTIVE", bound |-> FALSE]
  <2>1. f \in Nat /\ c \in Campaigns /\ WorktreeOf[c] \in Worktrees BY FenceType
  <2>2. row \in Lease BY <2>1 DEF TypeOK, Lease, LeaseStates
  <2>3. lease' = [lease EXCEPT ![a] = row] BY <1>1 DEF Acquire
  <2>4. lease' \in [Actors -> Lease \cup {None}] BY <2>2, <2>3 DEF TypeOK
  <2> HIDE DEF c, f, row
  <2>5. fence' \in [Nodes -> Nat] /\ holder' \in [Nodes -> Actors \cup {None}]
    BY <1>1, <2>1 DEF TypeOK, Acquire, f
  <2>6. /\ lockFence' \in [Worktrees -> Nat]
        /\ lockLease' \in [Worktrees -> Actors \cup {None}]
        /\ lockCampaign' \in [Worktrees -> Campaigns \cup {None}]
    BY <1>1, <2>1 DEF TypeOK, Acquire, f, c
  <2> QED BY <1>1, <2>4, <2>5, <2>6 DEF TypeOK, Acquire
<1>2. ASSUME NEW a \in Actors, Bind(a) PROVE TypeOK'
  <2>1. lease' \in [Actors -> Lease \cup {None}]
    BY <1>2, RowFacts DEF Bind, RowsKept, LeaseStates
  <2> QED BY <1>2, <2>1 DEF Bind, TypeOK
<1>3. ASSUME NEW a \in Actors, Release(a) PROVE TypeOK'
  <2>1. lease' \in [Actors -> Lease \cup {None}]
    BY <1>3, RowFacts DEF Release, RowsKept, LeaseStates
  <2>2. holder' \in [Nodes -> Actors \cup {None}] BY <1>3 DEF Release, TypeOK
  <2>3. Unlock({w \in Worktrees : lockLease[w] = a}) BY <1>3 DEF Release
  <2> QED BY <1>3, <2>1, <2>2, <2>3, UnlockType DEF Release, TypeOK
<1>4. ASSUME NEW n \in Nodes, FailNode(n) PROVE TypeOK'
  <2>1. CampaignOf[n] \in Campaigns BY LeasesAssumption
  <2>2. lease' \in [Actors -> Lease \cup {None}]
    BY <1>4, InvalidateFacts DEF FailNode, RowsKept
  <2>3. Unlock(LocksOf(CampaignOf[n])) BY <1>4 DEF FailNode
  <2>4. fence' \in [Nodes -> Nat] /\ holder' \in [Nodes -> Actors \cup {None}]
    BY <1>4 DEF FailNode, TypeOK
  <2>5. campaign' \in [Campaigns -> CampaignStates]
    BY <1>4, <2>1 DEF FailNode, TypeOK, CampaignStates
  <2> QED BY <1>4, <2>2, <2>3, <2>4, <2>5, UnlockType DEF FailNode, TypeOK
<1>5. ASSUME NEW c \in Campaigns, Cancel(c) PROVE TypeOK'
  <2>1. lease' \in [Actors -> Lease \cup {None}]
    BY <1>5, InvalidateFacts DEF Cancel, RowsKept
  <2>2. Unlock(LocksOf(c)) BY <1>5 DEF Cancel
  <2>3. /\ campaign' \in [Campaigns -> CampaignStates]
        /\ cancellation' \in [Campaigns -> Nat]
        /\ holder' \in [Nodes -> Actors \cup {None}]
    BY <1>5 DEF Cancel, TypeOK, CampaignStates
  <2> QED BY <1>5, <2>1, <2>2, <2>3, UnlockType DEF Cancel, TypeOK, NodesOf
<1>6. ASSUME NEW n \in Nodes, Finish(n) PROVE TypeOK'
  <2>1. CampaignOf[n] \in Campaigns BY LeasesAssumption
  <2>2. campaign' \in [Campaigns -> CampaignStates]
    BY <1>6, <2>1 DEF Finish, TypeOK, CampaignStates
  <2> QED BY <1>6, <2>2 DEF Finish, TypeOK
<1>7. ASSUME NEW c \in Campaigns, Wait(c) \/ Resume(c) PROVE TypeOK'
  BY <1>7 DEF Wait, Resume, TypeOK, CampaignStates
<1>8. ASSUME NEW c \in Campaigns, AdvanceAuthority(c) PROVE TypeOK'
  <2>1. holder' \in [Nodes -> Actors \cup {None}]
    BY <1>8 DEF AdvanceAuthority, HolderAfterAdvance, TypeOK
  <2> QED BY <1>8, <2>1 DEF AdvanceAuthority, TypeOK
<1>9. ASSUME Recover PROVE TypeOK'
  <2>1. PICK retained \in SUBSET {a \in Active : Retainable(a)} :
          /\ Invalidate(Lost(retained))
          /\ Unlock({w \in Worktrees : lockLease[w] \notin retained})
    BY <1>9 DEF Recover
  <2>2. lease' \in [Actors -> Lease \cup {None}] BY <2>1, InvalidateFacts DEF RowsKept
  <2> QED BY <1>9, <2>1, <2>2, UnlockType DEF Recover, TypeOK
<1>10. CASE UNCHANGED vars BY <1>10 DEF vars, TypeOK
<1> QED BY <1>1, <1>2, <1>3, <1>4, <1>5, <1>6, <1>7, <1>8, <1>9, <1>10 DEF Next, Dispatch

\* The tables and the snapshots of every store keep their types.
THEOREM LeasesTypeCorrect == Spec => []TypeOK
<1>1. Init => TypeOK BY Apart DEF Init, TypeOK, CampaignStates
<1> QED BY <1>1, TypeStep, PTL DEF Spec

-----------------------------------------------------------------------------
(* The inductive invariant, one lemma per kind of step.                    *)

\* A lease is issued beside rows that stay as they are.
LEMMA AcquireInv ==
  ASSUME TypeOK, TypeOK', LeasesInv,
         NEW x \in Actors, NEW n \in Nodes, NEW role \in Roles, Acquire(x, n, role)
  PROVE  LeasesInv'
<1> USE Apart
<1> DEFINE c == CampaignOf[n]
           w == WorktreeOf[c]
           f == NextFence(n, role)
<1>1. f \in Nat /\ c \in Campaigns /\ w \in Worktrees BY FenceType
<1>2. /\ lease'[x] \in Lease /\ lease'[x].node = n /\ lease'[x].role = role
      /\ lease'[x].fence = f /\ lease'[x].authority = authority[c]
      /\ lease'[x].state = "ACTIVE" /\ lease'[x] # None
  <2>1. lease'[x] = [node |-> n, role |-> role, fence |-> f, authority |-> authority[c],
           cancellation |-> cancellation[c], state |-> "ACTIVE", bound |-> FALSE]
    BY DEF Acquire, TypeOK
  <2> HIDE DEF f, c
  <2>2. lease'[x] \in Lease BY <1>1, <2>1 DEF TypeOK, Lease, LeaseStates
  <2>3. lease'[x] # None BY <2>2
  <2> QED BY <2>1, <2>2, <2>3
<1>3. \A a \in Actors \ {x} : lease'[a] = lease[a] BY DEF Acquire, TypeOK
<1>4. lease[x] = None /\ x \notin Issued BY DEF Acquire, Issued
<1>5. Issued' = Issued \cup {x} BY <1>2, <1>3, <1>4 DEF Issued
<1>6. Active' = Active \cup {x} BY <1>2, <1>3, <1>4, <1>5 DEF Active, Issued
<1>7. /\ role = "WRITER" => Writers' = Writers \cup {x}
      /\ role # "WRITER" => Writers' = Writers
  BY <1>2, <1>3, <1>4, <1>5 DEF Writers, Issued
<1>8. \A a \in Issued : /\ a # x /\ lease'[a] = lease[a] /\ lease[a] \in Lease
                        /\ NodeOf(a)' = NodeOf(a) /\ Tree(a)' = Tree(a)
                        /\ LeaseCampaign(a)' = LeaseCampaign(a)
                        /\ Tree(a) \in Worktrees
  BY <1>3, <1>4, LeasesAssumption DEF Issued, TypeOK, NodeOf, Tree, LeaseCampaign, Lease
<1>9. NodeOf(x)' = n /\ LeaseCampaign(x)' = c /\ Tree(x)' = w
  BY <1>2 DEF NodeOf, Tree, LeaseCampaign
<1>10. UNCHANGED <<campaign, authority, cancellation>> BY DEF Acquire
<1>11. /\ role # "WRITER" => UNCHANGED <<lockFence, lockLease, lockCampaign>>
       /\ role = "WRITER" =>
            /\ lockFence' = [lockFence EXCEPT ![w] = f]
            /\ lockLease' = [lockLease EXCEPT ![w] = x]
            /\ lockCampaign' = [lockCampaign EXCEPT ![w] = c]
            /\ f > lockFence[w]
            /\ \A a \in Active \cap Writers : Tree(a) # w
  <2>1. lockFence[w] \in Nat /\ fence[n] \in Nat BY <1>1 DEF TypeOK
  <2>2. role = "WRITER" => f > lockFence[w] BY <2>1 DEF NextFence, Larger
  <2> QED BY <2>2 DEF Acquire, ResourceFree
<1> HIDE DEF f, c, w
<1>12. BoundInv'
  <2>1. ASSUME NEW a \in Issued
        PROVE  /\ lease'[a].authority <= authority'[LeaseCampaign(a)']
               /\ lease'[a].role = "WRITER" => lease'[a].fence <= lockFence'[Tree(a)']
    <3>1. /\ lease[a].authority <= authority[LeaseCampaign(a)]
          /\ lease[a].role = "WRITER" => lease[a].fence <= lockFence[Tree(a)]
      BY DEF LeasesInv, BoundInv
    <3>2. lockFence[Tree(a)] <= lockFence'[Tree(a)]
      BY <1>1, <1>8, <1>11 DEF TypeOK
    <3>3. /\ lease[a].fence \in Nat /\ lockFence[Tree(a)] \in Nat
          /\ lockFence'[Tree(a)] \in Nat
      BY <1>8 DEF TypeOK, Lease
    <3> QED BY <1>8, <1>10, <3>1, <3>2, <3>3
  <2>2. /\ lease'[x].authority <= authority'[LeaseCampaign(x)']
        /\ lease'[x].role = "WRITER" => lease'[x].fence <= lockFence'[Tree(x)']
    BY <1>1, <1>2, <1>9, <1>10, <1>11 DEF TypeOK
  <2> QED BY <1>5, <2>1, <2>2 DEF BoundInv
<1>13. DistinctInv'
  <2>1. ASSUME NEW a \in Writers, role = "WRITER", Tree(a) = w PROVE lease[a].fence < f
    <3>1. a \in Issued /\ lease[a].fence <= lockFence[w]
      BY <2>1 DEF LeasesInv, BoundInv, Writers
    <3>2. lease[a].fence \in Nat /\ lockFence[w] \in Nat
      BY <1>1, <1>8, <3>1 DEF TypeOK, Lease
    <3> QED BY <1>1, <1>11, <2>1, <3>1, <3>2
  <2>2. \A a \in Writers : a \in Issued BY DEF Writers
  <2> SUFFICES ASSUME NEW a \in Writers', NEW b \in Writers', a # b, Tree(a)' = Tree(b)'
      PROVE  lease'[a].fence # lease'[b].fence
    BY DEF DistinctInv
  <2>3. CASE a # x /\ b # x
    <3>1. a \in Writers /\ b \in Writers BY <1>7, <2>3
    <3> QED BY <1>8, <2>2, <3>1 DEF LeasesInv, DistinctInv
  <2>4. CASE a = x
    <3>1. b \in Writers /\ role = "WRITER" BY <1>4, <1>7, <2>2, <2>4
    <3>2. lease[b].fence < f /\ lease[b].fence \in Nat
      BY <1>8, <1>9, <2>1, <2>2, <2>4, <3>1 DEF Lease
    <3> QED BY <1>1, <1>2, <1>8, <2>2, <2>4, <3>1, <3>2
  <2>5. CASE b = x
    <3>1. a \in Writers /\ role = "WRITER" BY <1>4, <1>7, <2>2, <2>5
    <3>2. lease[a].fence < f /\ lease[a].fence \in Nat
      BY <1>8, <1>9, <2>1, <2>2, <2>5, <3>1 DEF Lease
    <3> QED BY <1>1, <1>2, <1>8, <2>2, <2>5, <3>1, <3>2
  <2> QED BY <2>3, <2>4, <2>5
<1>14. LockInv'
  <2>1. ASSUME NEW v \in Worktrees, NEW a \in Actors
        PROVE  lockLease'[v] = a <=> a \in Active' \cap Writers' /\ Tree(a)' = v
    <3>1. lockLease[v] = a <=> a \in Active \cap Writers /\ Tree(a) = v
      BY DEF LeasesInv, LockInv, LockMatchesLease
    <3>2. lockLease[v] # x BY <1>4 DEF LeasesInv, LockInv, LockMatchesLease, Active
    <3>3. a \in Active => a \in Issued BY DEF Active
    <3>4. CASE role = "WRITER"
      BY <1>1, <1>4, <1>6, <1>7, <1>8, <1>9, <1>11, <3>1, <3>2, <3>3, <3>4 DEF TypeOK
    <3>5. CASE role # "WRITER"
      BY <1>4, <1>6, <1>7, <1>8, <1>11, <3>1, <3>2, <3>3, <3>5 DEF Active, Writers
    <3> QED BY <3>4, <3>5
  <2>2. ASSUME NEW a \in Active' \cap Writers'
        PROVE  /\ lockCampaign'[Tree(a)'] = LeaseCampaign(a)'
               /\ lockFence'[Tree(a)'] = lease'[a].fence
    <3>1. CASE a = x
      <4>1. role = "WRITER" BY <1>4, <1>7, <2>2, <3>1 DEF Writers
      <4> QED BY <1>1, <1>2, <1>9, <1>11, <3>1, <4>1 DEF TypeOK
    <3>2. CASE a # x
      <4>1. a \in Active \cap Writers /\ a \in Issued
        BY <1>6, <1>7, <2>2, <3>2 DEF Writers
      <4>2. /\ lockCampaign[Tree(a)] = LeaseCampaign(a)
            /\ lockFence[Tree(a)] = lease[a].fence
        BY <4>1 DEF LeasesInv, LockInv
      <4> QED BY <1>1, <1>8, <1>11, <4>1, <4>2 DEF TypeOK
    <3> QED BY <3>1, <3>2
  <2> QED BY <2>1, <2>2 DEF LockInv, LockMatchesLease
<1>15. NodeExclusive'
  <2>1. \A a \in Active : NodeOf(a) = n => role = "READER" /\ lease[a].role = "READER"
    BY DEF Acquire, NodeFree
  <2>2. \A a \in Active : a \in Issued BY DEF Active
  <2> QED BY <1>2, <1>6, <1>8, <1>9, <2>1, <2>2 DEF LeasesInv, NodeExclusive
<1>16. HolderMatchesLease'
  <2>1. /\ role = "READER" => UNCHANGED <<fence, holder>>
        /\ role # "READER" => /\ fence' = [fence EXCEPT ![n] = f]
                              /\ holder' = [holder EXCEPT ![n] = x]
    BY DEF Acquire, f
  <2>2. ASSUME NEW m \in Nodes, holder'[m] # None
        PROVE  /\ holder'[m] \in Issued' /\ lease'[holder'[m]].node = m
               /\ lease'[holder'[m]].role # "READER"
    <3>1. CASE m = n /\ role # "READER"
      BY <1>2, <1>5, <2>1, <3>1 DEF TypeOK
    <3>2. CASE m # n \/ role = "READER"
      <4>1. holder'[m] = holder[m] BY <2>1, <3>2 DEF TypeOK
      <4>2. /\ holder[m] \in Issued /\ NodeOf(holder[m]) = m
            /\ lease[holder[m]].role # "READER"
        BY <2>2, <4>1 DEF LeasesInv, HolderMatchesLease
      <4> QED BY <1>5, <1>8, <4>1, <4>2 DEF NodeOf
    <3> QED BY <3>1, <3>2
  <2>3. ASSUME NEW a \in Active', lease'[a].role # "READER",
               Accepting(LeaseCampaign(a))', Current(a)'
        PROVE  holder'[NodeOf(a)'] = a /\ fence'[NodeOf(a)'] = lease'[a].fence
    <3>1. CASE a = x
      BY <1>2, <1>9, <2>1, <2>3, <3>1 DEF TypeOK
    <3>2. CASE a # x
      <4>1. a \in Active /\ a \in Issued BY <1>6, <3>2 DEF Active
      <4>2. lease[a].role # "READER" /\ Accepting(LeaseCampaign(a)) /\ Current(a)
        BY <1>8, <1>10, <2>3, <4>1 DEF Accepting, Current, LeaseCampaign
      <4>3. holder[NodeOf(a)] = a /\ fence[NodeOf(a)] = lease[a].fence
        BY <4>1, <4>2 DEF LeasesInv, HolderMatchesLease
      <4>4. NodeOf(a) # n BY <4>1, <4>2 DEF Acquire, NodeFree
      <4>5. NodeOf(a) \in Nodes BY <1>8, <4>1 DEF NodeOf, Lease
      <4> QED BY <1>8, <2>1, <4>1, <4>3, <4>4, <4>5 DEF TypeOK
    <3> QED BY <3>1, <3>2
  <2> QED BY <2>2, <2>3 DEF HolderMatchesLease, NodeOf
<1> QED BY <1>12, <1>13, <1>14, <1>15, <1>16 DEF LeasesInv

\* What the nodes know of their actors stays right when a step only makes them
\* forget leases that end, or whose campaign ends or changes its authority.
LEMMA KeptHolder ==
  ASSUME TypeOK, TypeOK', LeasesInv, RowsKept,
         \A n \in Nodes : holder'[n] \in {holder[n], None},
         \A a \in Active' :
           lease[a].role # "READER" /\ Accepting(LeaseCampaign(a))' /\ Current(a)' =>
             /\ Accepting(LeaseCampaign(a)) /\ Current(a)
             /\ holder'[NodeOf(a)] = holder[NodeOf(a)]
             /\ fence'[NodeOf(a)] = fence[NodeOf(a)]
  PROVE  HolderMatchesLease'
<1>1. Issued' = Issued BY DEF RowsKept, Issued
<1>2. Active' \subseteq Active /\ Active \subseteq Issued BY DEF RowsKept, Active, Issued
<1>3. \A a \in Issued : /\ lease'[a].node = lease[a].node /\ lease'[a].role = lease[a].role
                        /\ lease'[a].fence = lease[a].fence
  BY DEF RowsKept, Issued
<1>4. ASSUME NEW n \in Nodes, holder'[n] # None
      PROVE  /\ holder'[n] \in Issued' /\ lease'[holder'[n]].node = n
             /\ lease'[holder'[n]].role # "READER"
  <2>1. holder'[n] = holder[n] BY <1>4
  <2>2. holder[n] \in Issued /\ NodeOf(holder[n]) = n /\ lease[holder[n]].role # "READER"
    BY <1>4, <2>1 DEF LeasesInv, HolderMatchesLease
  <2> QED BY <1>1, <1>3, <2>1, <2>2 DEF NodeOf
<1>5. ASSUME NEW a \in Active', lease'[a].role # "READER",
             Accepting(LeaseCampaign(a))', Current(a)'
      PROVE  holder'[NodeOf(a)'] = a /\ fence'[NodeOf(a)'] = lease'[a].fence
  <2>1. a \in Active /\ a \in Issued /\ lease[a].role # "READER" BY <1>2, <1>3, <1>5
  <2>2. /\ Accepting(LeaseCampaign(a)) /\ Current(a)
        /\ holder'[NodeOf(a)] = holder[NodeOf(a)] /\ fence'[NodeOf(a)] = fence[NodeOf(a)]
    BY <1>5, <2>1
  <2>3. holder[NodeOf(a)] = a /\ fence[NodeOf(a)] = lease[a].fence
    BY <2>1, <2>2 DEF LeasesInv, HolderMatchesLease
  <2>4. NodeOf(a)' = NodeOf(a) BY <1>3, <2>1 DEF NodeOf
  <2> QED BY <1>3, <2>1, <2>2, <2>3, <2>4
<1> QED BY <1>4, <1>5 DEF HolderMatchesLease, NodeOf

\* The campaign and the node of a row never change.
LEMMA RowPlace ==
  ASSUME TypeOK, RowsKept, NEW a \in Active'
  PROVE  /\ a \in Active /\ a \in Issued /\ a \in Actors
         /\ lease[a] \in Lease
         /\ LeaseCampaign(a)' = LeaseCampaign(a) /\ LeaseCampaign(a) \in Campaigns
         /\ NodeOf(a)' = NodeOf(a) /\ NodeOf(a) \in Nodes
         /\ lease'[a].authority = lease[a].authority
         /\ lease'[a].cancellation = lease[a].cancellation
<1>1. a \in Active /\ a \in Issued /\ a \in Actors BY DEF RowsKept, Active, Issued
<1>2. lease[a] \in Lease BY <1>1 DEF Issued, TypeOK
<1>3. lease'[a].node = lease[a].node BY <1>1 DEF RowsKept, Issued
<1>4. lease[a].node \in Nodes BY <1>2 DEF Lease
<1>5. /\ lease'[a].authority = lease[a].authority
      /\ lease'[a].cancellation = lease[a].cancellation
  BY <1>1 DEF RowsKept, Issued
<1> QED BY <1>1, <1>2, <1>3, <1>4, <1>5, LeasesAssumption DEF LeaseCampaign, NodeOf

\* Steps that end no lease and leave the nodes and the locks alone.
LEMMA QuietInv ==
  ASSUME TypeOK, TypeOK', LeasesInv, RowsKept, Active' = Active,
         UNCHANGED <<authority, cancellation, fence, holder, lockVars>>,
         \A c \in Campaigns : Accepting(c)' => Accepting(c)
  PROVE  LeasesInv'
<1>1. Unlock({}) BY DEF Unlock, TypeOK
<1>2. \A c \in Campaigns : authority[c] <= authority'[c] BY DEF TypeOK
<1>3. BoundInv' /\ DistinctInv' /\ LockInv' /\ NodeExclusive' BY <1>1, <1>2, UnlockInv
<1>4. ASSUME NEW a \in Active', Accepting(LeaseCampaign(a))', Current(a)'
      PROVE  Accepting(LeaseCampaign(a)) /\ Current(a)
  <2>1. Accepting(LeaseCampaign(a)) BY <1>4, RowPlace DEF Accepting
  <2>2. Current(a) BY <1>4, RowPlace DEF Current
  <2> QED BY <2>1, <2>2
<1>5. HolderMatchesLease' BY <1>4, KeptHolder
<1> QED BY <1>3, <1>5 DEF LeasesInv

LEMMA ReleaseInv ==
  ASSUME TypeOK, TypeOK', LeasesInv, NEW x \in Actors, Release(x)
  PROVE  LeasesInv'
<1> USE Apart
<1>1. x \in Active /\ lease' = [lease EXCEPT ![x].state = "RELEASED"] BY DEF Release
<1>2. RowsKept BY <1>1, RowFacts DEF LeaseStates
<1>3. Active' = Active \ {x}
  <2>1. lease[x] \in Lease BY <1>1 DEF Active, Issued, TypeOK
  <2>2. lease'[x].state = "RELEASED" BY <1>1, <2>1 DEF TypeOK, Lease
  <2>3. \A a \in Actors \ {x} : lease'[a] = lease[a] BY <1>1 DEF TypeOK
  <2> QED BY <1>2, <2>2, <2>3 DEF Active, Issued, RowsKept
<1>4. Unlock({w \in Worktrees : lockLease[w] = x}) BY DEF Release
<1>5. ASSUME NEW a \in Active \cap Writers
      PROVE  a \in Active' <=> Tree(a) \notin {w \in Worktrees : lockLease[w] = x}
  <2>1. a \in Actors /\ lease[a] \in Lease BY DEF Active, Issued, TypeOK
  <2>2. Tree(a) \in Worktrees BY <2>1, LeasesAssumption DEF Tree, LeaseCampaign, Lease
  <2>3. lockLease[Tree(a)] = a BY <2>1, <2>2 DEF LeasesInv, LockInv, LockMatchesLease
  <2> QED BY <1>3, <2>2, <2>3
<1>6. UNCHANGED <<campaign, authority, cancellation, fence>> BY DEF Release
<1>7. \A c \in Campaigns : authority[c] <= authority'[c] BY <1>6 DEF TypeOK
<1>8. BoundInv' /\ DistinctInv' /\ LockInv' /\ NodeExclusive'
  BY <1>2, <1>4, <1>5, <1>7, UnlockInv
<1>9. \/ lease[x].role = "READER" /\ UNCHANGED holder
      \/ lease[x].role # "READER" /\ holder' = [holder EXCEPT ![NodeOf(x)] = None]
  BY DEF Release
<1>10. ASSUME NEW a \in Active', lease[a].role # "READER",
              Accepting(LeaseCampaign(a))', Current(a)'
       PROVE  /\ Accepting(LeaseCampaign(a)) /\ Current(a)
              /\ holder'[NodeOf(a)] = holder[NodeOf(a)]
              /\ fence'[NodeOf(a)] = fence[NodeOf(a)]
  <2>1. Accepting(LeaseCampaign(a)) BY <1>2, <1>6, <1>10, RowPlace DEF Accepting
  <2>2. Current(a) BY <1>2, <1>6, <1>10, RowPlace DEF Current
  <2>3. a \in Active /\ a # x /\ NodeOf(a) \in Nodes BY <1>2, <1>3, RowPlace
  <2>4. lease[x].role # "READER" => NodeOf(a) # NodeOf(x)
    BY <1>1, <2>3 DEF LeasesInv, NodeExclusive
  <2>5. holder'[NodeOf(a)] = holder[NodeOf(a)] BY <1>9, <2>3, <2>4 DEF TypeOK
  <2> QED BY <1>6, <2>1, <2>2, <2>5
<1>11. \A n \in Nodes : holder'[n] \in {holder[n], None} BY <1>9 DEF TypeOK
<1>12. HolderMatchesLease' BY <1>2, <1>10, <1>11, KeptHolder
<1> QED BY <1>8, <1>12 DEF LeasesInv

\* Failing a node or cancelling a campaign ends its leases and frees its locks.
LEMMA StopInv ==
  ASSUME TypeOK, TypeOK', LeasesInv, NEW c \in Campaigns,
         Invalidate(Revoked(c)), Unlock(LocksOf(c)),
         UNCHANGED authority, ~Accepting(c)',
         \A d \in Campaigns \ {c} : /\ campaign'[d] = campaign[d]
                                    /\ cancellation'[d] = cancellation[d],
         \A n \in Nodes : /\ holder'[n] \in {holder[n], None}
                          /\ CampaignOf[n] # c => holder'[n] = holder[n] /\ fence'[n] = fence[n]
  PROVE  LeasesInv'
<1>1. RowsKept /\ Active' = Active \ Revoked(c) BY InvalidateFacts
<1>2. \A d \in Campaigns : authority[d] <= authority'[d] BY DEF TypeOK
<1>3. ASSUME NEW a \in Active \cap Writers PROVE a \in Active' <=> Tree(a) \notin LocksOf(c)
  <2>1. lease[a] \in Lease BY DEF Active, Issued, TypeOK
  <2>2. Tree(a) \in Worktrees BY <2>1, LeasesAssumption DEF Tree, LeaseCampaign, Lease
  <2>3. lockCampaign[Tree(a)] = LeaseCampaign(a) BY DEF LeasesInv, LockInv
  <2> QED BY <1>1, <2>2, <2>3 DEF LocksOf, Revoked
<1>4. BoundInv' /\ DistinctInv' /\ LockInv' /\ NodeExclusive'
  BY <1>1, <1>2, <1>3, UnlockInv
<1>5. ASSUME NEW a \in Active', Accepting(LeaseCampaign(a))', Current(a)'
      PROVE  /\ Accepting(LeaseCampaign(a)) /\ Current(a)
             /\ holder'[NodeOf(a)] = holder[NodeOf(a)]
             /\ fence'[NodeOf(a)] = fence[NodeOf(a)]
  <2>1. /\ LeaseCampaign(a) \in Campaigns \ {c} /\ NodeOf(a) \in Nodes
        /\ LeaseCampaign(a)' = LeaseCampaign(a)
    BY <1>1, RowPlace DEF Revoked
  <2>2. Accepting(LeaseCampaign(a)) BY <1>5, <2>1 DEF Accepting
  <2>3. Current(a) BY <1>1, <1>5, <2>1, RowPlace DEF Current
  <2>4. CampaignOf[NodeOf(a)] # c BY <2>1 DEF LeaseCampaign, NodeOf
  <2> QED BY <2>1, <2>2, <2>3, <2>4
<1>6. HolderMatchesLease' BY <1>1, <1>5, KeptHolder
<1> QED BY <1>4, <1>6 DEF LeasesInv

LEMMA AdvanceInv ==
  ASSUME TypeOK, TypeOK', LeasesInv, NEW c \in Campaigns, AdvanceAuthority(c)
  PROVE  LeasesInv'
<1>1. UNCHANGED <<campaign, cancellation, fence, lease, lockFence, lockLease, lockCampaign>>
  BY DEF AdvanceAuthority
<1>2. RowsKept /\ Active' = Active BY <1>1 DEF RowsKept, TypeOK, Active, Issued
<1>3. /\ authority'[c] = authority[c] + 1
      /\ \A d \in Campaigns \ {c} : authority'[d] = authority[d]
      /\ \A d \in Campaigns : authority[d] \in Nat
  BY DEF AdvanceAuthority, TypeOK
<1>4. \A d \in Campaigns : authority[d] <= authority'[d] BY <1>3
<1>5. Unlock({}) BY <1>1 DEF Unlock, TypeOK
<1>6. BoundInv' /\ DistinctInv' /\ LockInv' /\ NodeExclusive'
  BY <1>2, <1>4, <1>5, UnlockInv
<1>7. holder' = [n \in Nodes |-> IF CampaignOf[n] = c THEN None ELSE holder[n]]
  BY DEF AdvanceAuthority, HolderAfterAdvance
<1>8. ASSUME NEW a \in Active', Accepting(LeaseCampaign(a))', Current(a)'
      PROVE  /\ Accepting(LeaseCampaign(a)) /\ Current(a)
             /\ holder'[NodeOf(a)] = holder[NodeOf(a)]
             /\ fence'[NodeOf(a)] = fence[NodeOf(a)]
  <2>1. /\ LeaseCampaign(a) \in Campaigns /\ LeaseCampaign(a)' = LeaseCampaign(a)
        /\ lease[a] \in Lease /\ a \in Issued /\ NodeOf(a) \in Nodes
    BY <1>2, RowPlace
  <2>2. lease[a].authority <= authority[LeaseCampaign(a)] /\ lease[a].authority \in Nat
    BY <2>1 DEF LeasesInv, BoundInv, Lease
  <2>3. LeaseCampaign(a) # c BY <1>1, <1>3, <1>8, <2>1, <2>2 DEF Current
  <2>4. CampaignOf[NodeOf(a)] # c BY <2>3 DEF LeaseCampaign, NodeOf
  <2>5. Accepting(LeaseCampaign(a)) BY <1>1, <1>8, <2>1 DEF Accepting
  <2>6. Current(a) BY <1>1, <1>3, <1>8, <2>1, <2>3 DEF Current
  <2> QED BY <1>1, <1>7, <2>1, <2>4, <2>5, <2>6
<1>9. HolderMatchesLease' BY <1>2, <1>7, <1>8, KeptHolder
<1> QED BY <1>6, <1>9 DEF LeasesInv

LEMMA RecoverInv ==
  ASSUME TypeOK, TypeOK', LeasesInv, Recover
  PROVE  LeasesInv'
<1>1. PICK retained \in SUBSET {a \in Active : Retainable(a)} :
        /\ Invalidate(Lost(retained))
        /\ Unlock({w \in Worktrees : lockLease[w] \notin retained})
        /\ UNCHANGED <<campaign, authority, cancellation, fence, holder>>
  BY DEF Recover
<1>2. RowsKept /\ Active' = retained BY <1>1, InvalidateFacts DEF Lost
<1>3. \A c \in Campaigns : authority[c] <= authority'[c] BY <1>1 DEF TypeOK
<1>4. ASSUME NEW a \in Active \cap Writers
      PROVE  /\ a \notin retained
             /\ Tree(a) \in {w \in Worktrees : lockLease[w] \notin retained}
  <2>1. a \in Actors /\ lease[a] \in Lease BY DEF Active, Issued, TypeOK
  <2>2. Tree(a) \in Worktrees BY <2>1, LeasesAssumption DEF Tree, LeaseCampaign, Lease
  <2>3. lockLease[Tree(a)] = a BY <2>1, <2>2 DEF LeasesInv, LockInv, LockMatchesLease
  <2>4. a \notin retained BY DEF Retainable, Writers
  <2> QED BY <2>2, <2>3, <2>4
<1>5. BoundInv' /\ DistinctInv' /\ LockInv' /\ NodeExclusive'
  BY <1>1, <1>2, <1>3, <1>4, UnlockInv
<1>6. \A a \in Active' : lease[a].role = "READER" BY <1>2 DEF Retainable
<1>7. HolderMatchesLease' BY <1>1, <1>2, <1>6, KeptHolder
<1> QED BY <1>5, <1>7 DEF LeasesInv

LEMMA InvStep == TypeOK /\ LeasesInv /\ [Next]_vars => LeasesInv'
<1> SUFFICES ASSUME TypeOK, LeasesInv, [Next]_vars PROVE LeasesInv'
  OBVIOUS
<1>0. TypeOK' BY TypeStep
<1>1. ASSUME NEW a \in Actors, NEW n \in Nodes, NEW role \in Roles, Acquire(a, n, role)
      PROVE  LeasesInv'
  BY <1>0, <1>1, AcquireInv
<1>2. ASSUME NEW a \in Actors, Bind(a) PROVE LeasesInv'
  <2>1. RowsKept BY <1>2, RowFacts DEF Bind, LeaseStates
  <2>2. lease' = [lease EXCEPT ![a].bound = TRUE] /\ a \in Active BY <1>2 DEF Bind
  <2>3. lease[a] \in Lease BY <2>2 DEF Active, Issued, TypeOK
  <2>4. lease'[a].state = lease[a].state BY <2>2, <2>3 DEF TypeOK, Lease
  <2>5. \A b \in Actors \ {a} : lease'[b] = lease[b] BY <2>2 DEF TypeOK
  <2>6. Active' = Active BY <2>1, <2>4, <2>5 DEF Active, Issued, RowsKept
  <2> QED BY <1>0, <1>2, <2>1, <2>6, QuietInv DEF Bind, Accepting
<1>3. ASSUME NEW a \in Actors, Release(a) PROVE LeasesInv'
  BY <1>0, <1>3, ReleaseInv
<1>4. ASSUME NEW n \in Nodes, FailNode(n) PROVE LeasesInv'
  <2>1. CampaignOf[n] \in Campaigns BY LeasesAssumption
  <2>2. ~Accepting(CampaignOf[n])' BY <1>4, <2>1 DEF FailNode, Accepting, TypeOK
  <2> QED BY <1>0, <1>4, <2>1, <2>2, StopInv DEF FailNode, TypeOK
<1>5. ASSUME NEW c \in Campaigns, Cancel(c) PROVE LeasesInv'
  <2>1. ~Accepting(c)' BY <1>5 DEF Cancel, Accepting, TypeOK
  <2> QED BY <1>0, <1>5, <2>1, StopInv DEF Cancel, TypeOK, NodesOf
<1>6. CASE \/ \E n \in Nodes : Finish(n)
           \/ \E c \in Campaigns : Wait(c) \/ Resume(c)
           \/ UNCHANGED vars
  <2>1. UNCHANGED lease BY <1>6 DEF Finish, Wait, Resume, vars
  <2>2. RowsKept /\ Active' = Active BY <2>1 DEF RowsKept, TypeOK, Active, Issued
  <2>3. UNCHANGED <<authority, cancellation, fence, holder, lockVars>>
    BY <1>6 DEF Finish, Wait, Resume, vars
  <2>4. \A c \in Campaigns : Accepting(c)' => Accepting(c)
    BY <1>6, LeasesAssumption DEF Finish, Wait, Resume, vars, Accepting, TypeOK
  <2> QED BY <1>0, <2>2, <2>3, <2>4, QuietInv
<1>7. ASSUME NEW c \in Campaigns, AdvanceAuthority(c) PROVE LeasesInv'
  BY <1>0, <1>7, AdvanceInv
<1>8. CASE Recover BY <1>0, <1>8, RecoverInv
<1> QED BY <1>1, <1>2, <1>3, <1>4, <1>5, <1>6, <1>7, <1>8 DEF Next, Dispatch

LEMMA InvInit == Init => LeasesInv
<1> SUFFICES ASSUME Init PROVE LeasesInv
  OBVIOUS
<1>1. Issued = {} /\ Active = {} /\ Writers = {}
  BY DEF Init, Issued, Active, Writers
<1>2. LockMatchesLease BY <1>1, Apart DEF Init, LockMatchesLease
<1> QED BY <1>1, <1>2 DEF Init, LeasesInv, BoundInv, DistinctInv, LockInv, NodeExclusive,
                          HolderMatchesLease

\* The inductive invariant holds throughout.
THEOREM LeasesInvariant == Spec => [](TypeOK /\ LeasesInv)
<1>1. Init => TypeOK BY Apart DEF Init, TypeOK, CampaignStates
<1> QED BY <1>1, InvInit, TypeStep, InvStep, PTL DEF Spec

-----------------------------------------------------------------------------
(* Main results.                                                           *)

\* Two writers the store authorises never share a worktree, whatever campaigns
\* they work for.
THEOREM OneWriterAlways == Spec => []OneWriter
<1>1. TypeOK /\ LeasesInv => OneWriter
  <2> SUFFICES ASSUME TypeOK, LeasesInv, NEW a \in Actors, NEW b \in Actors,
                      MayWrite(a), MayWrite(b), Tree(a) = Tree(b)
      PROVE  a = b
    BY DEF OneWriter
  <2>1. Tree(a) \in Worktrees
    BY LeasesAssumption DEF MayWrite, Active, Issued, TypeOK, Tree, LeaseCampaign, Lease
  <2>2. lockLease[Tree(a)] = a /\ lockLease[Tree(a)] = b
    BY <2>1 DEF MayWrite, LeasesInv, LockInv, LockMatchesLease
  <2> QED BY <2>2
<1> QED BY <1>1, LeasesInvariant, PTL

\* The writer the store authorises has the highest fence its worktree gave out.
THEOREM FenceOrderAlways == Spec => []FenceOrder
<1>1. TypeOK /\ LeasesInv => FenceOrder
  <2> SUFFICES ASSUME TypeOK, LeasesInv, NEW a \in Actors, NEW b \in Writers \ {a},
                      MayWrite(a), Tree(b) = Tree(a)
      PROVE  lease[b].fence < lease[a].fence
    BY DEF FenceOrder
  <2>1. lockFence[Tree(a)] = lease[a].fence BY DEF MayWrite, LeasesInv, LockInv
  <2>2. lease[b].fence <= lease[a].fence
    BY <2>1 DEF LeasesInv, BoundInv, Writers
  <2>3. lease[b].fence # lease[a].fence
    BY DEF LeasesInv, DistinctInv, MayWrite
  <2>4. lease[a].fence \in Nat /\ lease[b].fence \in Nat
    BY DEF MayWrite, Writers, Issued, TypeOK, Lease
  <2> QED BY <2>2, <2>3, <2>4
<1> QED BY <1>1, LeasesInvariant, PTL

\* Readers of a node never overlap with its writer or validator.
THEOREM NodeExclusiveAlways == Spec => []NodeExclusive
BY LeasesInvariant, PTL DEF LeasesInv

\* The lock of a worktree names exactly the active write lease on it.
THEOREM LockMatchesLeaseAlways == Spec => []LockMatchesLease
BY LeasesInvariant, PTL DEF LeasesInv, LockInv

\* The rows of the leases and the nodes' lease_actor_id agree.
THEOREM HolderMatchesLeaseAlways == Spec => []HolderMatchesLease
BY LeasesInvariant, PTL DEF LeasesInv

\* In an automated campaign a failed or cancelled campaign never has an active
\* lease: only paying for the dispatch keeps a late reader out.
THEOREM StopRevokesAlways == Mode = "AUTOMATED" => (Spec => []StopRevokes)
<1> SUFFICES ASSUME Mode = "AUTOMATED" PROVE Spec => []StopRevokes
  OBVIOUS
<1>1. Init => StopRevokes BY DEF Init, StopRevokes, Active, Issued
<1>2. TypeOK /\ StopRevokes /\ [Next]_vars => StopRevokes'
  <2> SUFFICES ASSUME TypeOK, StopRevokes, [Next]_vars PROVE StopRevokes'
    OBVIOUS
  <2> USE Apart
  <2>0. \A a \in Active : LeaseCampaign(a) \in Campaigns /\ a \in Issued
    BY LeasesAssumption DEF Active, Issued, TypeOK, LeaseCampaign, Lease
  <2>1. ASSUME NEW x \in Actors, NEW n \in Nodes, NEW role \in Roles, Acquire(x, n, role)
        PROVE  StopRevokes'
    <3>1. campaign' = campaign /\ campaign[CampaignOf[n]] = "RUNNING"
      BY <2>1 DEF Acquire, MayDispatch
    <3>2. \A a \in Actors \ {x} : lease'[a] = lease[a] BY <2>1 DEF Acquire, TypeOK
    <3>3. lease'[x].node = n BY <2>1 DEF Acquire, TypeOK
    <3> QED BY <3>1, <3>2, <3>3 DEF StopRevokes, Active, Issued, LeaseCampaign
  <2>2. ASSUME RowsKept, NEW c \in Campaigns, Active' \cap Revoked(c) = {},
               \A d \in Campaigns \ {c} : campaign'[d] = campaign[d]
        PROVE  StopRevokes'
    BY <2>0, <2>2, RowPlace DEF StopRevokes, Revoked
  <2>3. ASSUME RowsKept,
               \A d \in Campaigns : campaign'[d] \in {campaign[d], "RUNNING",
                                                      "WAITING_HUMAN", "COMPLETED"}
        PROVE  StopRevokes'
    BY <2>0, <2>3, RowPlace DEF StopRevokes
  <2>4. ASSUME NEW n \in Nodes, FailNode(n) PROVE StopRevokes'
    <3>1. CampaignOf[n] \in Campaigns BY LeasesAssumption
    <3> QED BY <2>2, <2>4, <3>1, InvalidateFacts DEF FailNode, TypeOK
  <2>5. ASSUME NEW c \in Campaigns, Cancel(c) PROVE StopRevokes'
    BY <2>2, <2>5, InvalidateFacts DEF Cancel, TypeOK
  <2>6. ASSUME NEW a \in Actors, Bind(a) \/ Release(a) PROVE StopRevokes'
    <3>1. RowsKept BY <2>6, RowFacts DEF Bind, Release, LeaseStates
    <3> QED BY <2>3, <2>6, <3>1 DEF Bind, Release, TypeOK
  <2>7. CASE \/ \E n \in Nodes : Finish(n)
             \/ \E c \in Campaigns : Wait(c) \/ Resume(c) \/ AdvanceAuthority(c)
             \/ UNCHANGED vars
    <3>1. UNCHANGED lease BY <2>7 DEF Finish, Wait, Resume, AdvanceAuthority, vars
    <3>2. RowsKept BY <3>1 DEF RowsKept, TypeOK
    <3>3. \A d \in Campaigns : campaign'[d] \in {campaign[d], "RUNNING",
                                                 "WAITING_HUMAN", "COMPLETED"}
      BY <2>7, LeasesAssumption DEF Finish, Wait, Resume, AdvanceAuthority, vars, TypeOK
    <3> QED BY <2>3, <3>2, <3>3
  <2>8. CASE Recover
    <3>1. RowsKept BY <2>8, InvalidateFacts DEF Recover
    <3> QED BY <2>3, <2>8, <3>1 DEF Recover
  <2> QED BY <2>1, <2>4, <2>5, <2>6, <2>7, <2>8 DEF Next, Dispatch
<1> QED BY <1>1, <1>2, LeasesInvariant, PTL DEF Spec
=============================================================================
