-------------------------------- MODULE Leases --------------------------------
(***************************************************************************)
(* Actor leases of CampaignStore (campaign_engine/store.py): the leases,   *)
(* actors and resource_locks tables beside the fences of the snapshots.    *)
(* Several campaigns share one store and may share a worktree.             *)
(*                                                                         *)
(* A store call is one transaction, and so is reading a snapshot and       *)
(* calling the store with its revision.  lease_id and actor_id are digests *)
(* of the dispatch (one_use: a repeated request returns the first result   *)
(* and changes nothing), so an actor stands for its lease.  Roles are kept *)
(* as the store distinguishes them: WRITER (implementer, repairer),        *)
(* VALIDATOR, READER (the concurrent read-only roles).  The resource of a  *)
(* writer is its worktree; every other actor has a resource of its own.    *)
(* Of the node states only "terminal" matters to the store.                *)
(***************************************************************************)
EXTENDS Integers, FiniteSets

CONSTANTS
  Campaigns, Nodes, Worktrees,
  CampaignOf,    \* campaign of a node
  WorktreeOf,    \* worktree of a campaign
  Actors,        \* bounds the number of dispatches
  Mode,          \* "MANUAL" or "AUTOMATED"
  MaxAuthority,  \* bound on the authority epochs
  None           \* no lease, no actor, no campaign

Terminal == {"COMPLETED", "FAILED", "CANCELLED"}
CampaignStates == {"RUNNING", "WAITING_HUMAN"} \cup Terminal
Roles == {"WRITER", "VALIDATOR", "READER"}
LeaseStates == {"ACTIVE", "RELEASED", "INVALIDATED"}
\* A row of leases with the columns of its actor that count.
Lease == [node: Nodes, role: Roles, fence: Nat, authority: Nat,
          cancellation: Nat, state: LeaseStates, bound: BOOLEAN]

ASSUME LeasesAssumption ==
  /\ CampaignOf \in [Nodes -> Campaigns]
  /\ WorktreeOf \in [Campaigns -> Worktrees]
  /\ Mode \in {"MANUAL", "AUTOMATED"}
  /\ MaxAuthority \in Nat
  /\ None \notin Actors \cup Campaigns \cup Lease

VARIABLES
  campaign,      \* state of each campaign
  authority,     \* authority_epoch of each campaign
  cancellation,  \* cancellation_epoch of each campaign
  finished,      \* nodes in a terminal state
  fence,         \* fencing_epoch of each node
  holder,        \* lease_actor_id of each node
  lease,         \* rows of leases with their actor
  lockFence,     \* resource_locks of the worktrees: fencing_epoch,
  lockLease,     \*   lease_id
  lockCampaign   \*   and campaign_id

campaignVars == <<campaign, authority, cancellation>>
nodeVars == <<finished, fence, holder>>
lockVars == <<lockFence, lockLease, lockCampaign>>
vars == <<campaignVars, nodeVars, lease, lockVars>>

Init ==
  /\ campaign = [c \in Campaigns |-> "RUNNING"]
  /\ authority = [c \in Campaigns |-> 0]
  /\ cancellation = [c \in Campaigns |-> 0]
  /\ finished = {}
  /\ fence = [n \in Nodes |-> 0]
  /\ holder = [n \in Nodes |-> None]
  /\ lease = [a \in Actors |-> None]
  /\ lockFence = [w \in Worktrees |-> 0]
  /\ lockLease = [w \in Worktrees |-> None]
  /\ lockCampaign = [w \in Worktrees |-> None]

-----------------------------------------------------------------------------
(* The tables.                                                             *)

Issued == {a \in Actors : lease[a] # None}
Active == {a \in Issued : lease[a].state = "ACTIVE"}
NodeOf(a) == lease[a].node
LeaseCampaign(a) == CampaignOf[lease[a].node]
Writers == {a \in Issued : lease[a].role = "WRITER"}
\* The worktree a lease locks, for writers.
Tree(a) == WorktreeOf[LeaseCampaign(a)]
NodesOf(c) == {n \in Nodes : CampaignOf[n] = c}

Accepting(c) == campaign[c] \notin Terminal

Larger(i, j) == IF i >= j THEN i ELSE j

\* The epochs of a lease are those of its campaign.
Current(a) ==
  /\ lease[a].authority = authority[LeaseCampaign(a)]
  /\ lease[a].cancellation = cancellation[LeaseCampaign(a)]

\* UPDATE leases SET state='INVALIDATED' of the active leases in gone.
Invalidate(gone) ==
  lease' = [a \in Actors |->
    IF a \in gone \cap Active THEN [lease[a] EXCEPT !.state = "INVALIDATED"]
    ELSE lease[a]]

\* UPDATE resource_locks SET lease_id=NULL of the worktrees in free.
Unlock(free) ==
  /\ lockLease' = [w \in Worktrees |-> IF w \in free THEN None ELSE lockLease[w]]
  /\ UNCHANGED <<lockFence, lockCampaign>>

\* mutant: any worktree may be locked again
ResourceFree_Any(n) == TRUE

\* No other active lease has the worktree of node n.
ResourceFree(n) ==
  \A a \in Active \cap Writers : Tree(a) # WorktreeOf[CampaignOf[n]]

\* mutant: a reader is refused beside a writer only
NodeFree_Validator(n, role) ==
  \A a \in Active : NodeOf(a) = n => role = "READER" /\ lease[a].role # "WRITER"

\* Readers share a node with readers, all others have it to themselves.
NodeFree(n, role) ==
  \A a \in Active : NodeOf(a) = n => role = "READER" /\ lease[a].role = "READER"

\* mutant: the fence of the worktree is not taken into account
NextFence_NodeOnly(n, role) ==
  IF role = "READER" THEN fence[n] ELSE fence[n] + 1

\* An exclusive lease gets a fence above those of its node and its resource.
NextFence(n, role) ==
  CASE role = "READER" -> fence[n]
    [] role = "VALIDATOR" -> fence[n] + 1
    [] role = "WRITER" -> Larger(lockFence[WorktreeOf[CampaignOf[n]]], fence[n]) + 1

\* What lets the dispatch get as far as acquire_lease.  ACQUIRE_LEASE needs a
\* running campaign, an unfinished node and no holder.  A reader's lease is no
\* event: only the CHILD_CREATION token an automated campaign pays in the same
\* revision asks for a running campaign.
MayDispatch(n, role) ==
  IF role = "READER"
  THEN Mode = "AUTOMATED" => campaign[CampaignOf[n]] = "RUNNING"
  ELSE /\ campaign[CampaignOf[n]] = "RUNNING"
       /\ n \notin finished
       /\ holder[n] = None

-----------------------------------------------------------------------------
(* Store calls.                                                            *)

Acquire(a, n, role) ==
  LET c == CampaignOf[n]
      w == WorktreeOf[c]
      f == NextFence(n, role)
  IN /\ lease[a] = None
     /\ MayDispatch(n, role)
     /\ role = "WRITER" => ResourceFree(n)
     /\ NodeFree(n, role)
     /\ lease' = [lease EXCEPT ![a] =
          [node |-> n, role |-> role, fence |-> f, authority |-> authority[c],
           cancellation |-> cancellation[c], state |-> "ACTIVE", bound |-> FALSE]]
     /\ IF role = "READER" THEN UNCHANGED <<fence, holder>>
        ELSE /\ fence' = [fence EXCEPT ![n] = f]
             /\ holder' = [holder EXCEPT ![n] = a]
     /\ IF role = "WRITER"
        THEN /\ lockFence' = [lockFence EXCEPT ![w] = f]
             /\ lockLease' = [lockLease EXCEPT ![w] = a]
             /\ lockCampaign' = [lockCampaign EXCEPT ![w] = c]
        ELSE UNCHANGED lockVars
     /\ UNCHANGED <<campaignVars, finished>>

\* bind_actor, once the native identity was verified.  The epochs it compares
\* come from a snapshot read after the lease was issued, so they are current
\* even if the authority advanced since the actor was recorded.
Bind(a) ==
  /\ a \in Active
  /\ ~lease[a].bound
  /\ lease' = [lease EXCEPT ![a].bound = TRUE]
  /\ UNCHANGED <<campaignVars, nodeVars, lockVars>>

\* release_lease: RELEASE_LEASE for an exclusive lease, which the reducer
\* rejects unless the node still recognises the actor.
Release(a) ==
  /\ a \in Active
  /\ \/ /\ lease[a].role = "READER"
        /\ UNCHANGED holder
     \/ /\ lease[a].role # "READER"
        /\ Accepting(LeaseCampaign(a))
        /\ holder[NodeOf(a)] = a /\ fence[NodeOf(a)] = lease[a].fence
        /\ holder' = [holder EXCEPT ![NodeOf(a)] = None]
  /\ lease' = [lease EXCEPT ![a].state = "RELEASED"]
  /\ Unlock({w \in Worktrees : lockLease[w] = a})
  /\ UNCHANGED <<campaignVars, finished, fence>>

\* mutant: a failed campaign keeps its leases
Revoked_None(c) == {}

\* Leases that end with the campaign when it fails or is cancelled.
Revoked(c) == {a \in Active : LeaseCampaign(a) = c}

\* mutant: cancelling one campaign unlocks the worktrees of all
LocksOf_All(c) == Worktrees

\* Worktrees that campaign c locked last.
LocksOf(c) == {w \in Worktrees : lockCampaign[w] = c}

\* Any event that fails a node: FAIL_NODE, failed validation or closure.
FailNode(n) ==
  LET c == CampaignOf[n]
  IN /\ Accepting(c)
     /\ n \notin finished
     /\ campaign' = [campaign EXCEPT ![c] = "FAILED"]
     /\ finished' = finished \cup {n}
     /\ fence' = [fence EXCEPT ![n] = @ + 1]
     /\ holder' = [holder EXCEPT ![n] = None]
     /\ Invalidate(Revoked(c))
     /\ Unlock(LocksOf(c))
     /\ UNCHANGED <<authority, cancellation>>

Cancel(c) ==
  /\ Accepting(c)
  /\ campaign' = [campaign EXCEPT ![c] = "CANCELLED"]
  /\ cancellation' = [cancellation EXCEPT ![c] = @ + 1]
  /\ finished' = finished \cup NodesOf(c)
  /\ holder' = [n \in Nodes |->
       IF n \in NodesOf(c) \ finished THEN None ELSE holder[n]]
  /\ Invalidate(Revoked(c))
  /\ Unlock(LocksOf(c))
  /\ UNCHANGED <<authority, fence>>

\* The last PUBLISH_CONFIRMED of a node; it looks at no lease.
Finish(n) ==
  LET c == CampaignOf[n]
  IN /\ Accepting(c)
     /\ n \notin finished
     /\ finished' = finished \cup {n}
     /\ campaign' = [campaign EXCEPT ![c] =
          IF NodesOf(c) \subseteq finished' THEN "COMPLETED" ELSE @]
     /\ UNCHANGED <<authority, cancellation, fence, holder, lease, lockVars>>

Wait(c) ==
  /\ campaign[c] = "RUNNING"
  /\ campaign' = [campaign EXCEPT ![c] = "WAITING_HUMAN"]
  /\ UNCHANGED <<authority, cancellation, nodeVars, lease, lockVars>>

Resume(c) ==
  /\ campaign[c] = "WAITING_HUMAN"
  /\ campaign' = [campaign EXCEPT ![c] = "RUNNING"]
  /\ UNCHANGED <<authority, cancellation, nodeVars, lease, lockVars>>

HolderAfterAdvance(c) == [n \in Nodes |-> IF CampaignOf[n] = c THEN None ELSE holder[n]]

\* The nodes forget their actors; the rows of the leases stay as they are.
AdvanceAuthority(c) ==
  /\ campaign[c] = "WAITING_HUMAN"
  /\ authority[c] < MaxAuthority
  /\ authority' = [authority EXCEPT ![c] = @ + 1]
  /\ holder' = HolderAfterAdvance(c)
  /\ UNCHANGED <<campaign, cancellation, finished, fence, lease, lockVars>>

\* A reviewer whose host connection survived the restart may be retained.
Retainable(a) ==
  /\ a \in Active /\ lease[a].role = "READER" /\ lease[a].bound
  /\ campaign[LeaseCampaign(a)] = "RUNNING"
  /\ NodeOf(a) \notin finished
  /\ Current(a) /\ lease[a].fence = fence[NodeOf(a)]

\* mutant: restart recovery forgets to invalidate what it does not retain
Lost_None(retained) == {}

Lost(retained) == Active \ retained

\* recover_after_restart: every active lease ends, but for whole cohorts of
\* retained reviewers.
Recover ==
  \E retained \in SUBSET {a \in Active : Retainable(a)} :
    /\ \A a \in retained : Revoked(LeaseCampaign(a)) \subseteq retained
    /\ Invalidate(Lost(retained))
    /\ Unlock({w \in Worktrees : lockLease[w] \notin retained})
    /\ UNCHANGED <<campaignVars, nodeVars>>

Dispatch == \E a \in Actors, n \in Nodes, role \in Roles : Acquire(a, n, role)

Next ==
  \/ Dispatch
  \/ \E a \in Actors : Bind(a) \/ Release(a)
  \/ \E n \in Nodes : FailNode(n) \/ Finish(n)
  \/ \E c \in Campaigns : Cancel(c) \/ Wait(c) \/ Resume(c) \/ AdvanceAuthority(c)
  \/ Recover

Spec == Init /\ [][Next]_vars

\* The operator runs restart recovery every so often.
FairSpec == Spec /\ WF_vars(Recover)

-----------------------------------------------------------------------------
(* Properties.                                                             *)

\* verify_actor_action: the store authorises a write of actor a.
MayWrite(a) ==
  /\ a \in Active \cap Writers
  /\ lease[a].bound
  /\ Accepting(LeaseCampaign(a))
  /\ Current(a)
  /\ fence[NodeOf(a)] = lease[a].fence
  /\ holder[NodeOf(a)] = a

\* Every variable keeps its type; fences and epochs stay natural numbers.
TypeOK ==
  /\ campaign \in [Campaigns -> CampaignStates]
  /\ authority \in [Campaigns -> Nat]
  /\ cancellation \in [Campaigns -> Nat]
  /\ finished \subseteq Nodes
  /\ fence \in [Nodes -> Nat]
  /\ holder \in [Nodes -> Actors \cup {None}]
  /\ lease \in [Actors -> Lease \cup {None}]
  /\ lockFence \in [Worktrees -> Nat]
  /\ lockLease \in [Worktrees -> Actors \cup {None}]
  /\ lockCampaign \in [Worktrees -> Campaigns \cup {None}]

\* docs/parallel-worktree-doctrine.md: "The engine rejects another active write
\* lease for the same resource": at most one actor of all campaigns may write
\* to a worktree.
OneWriter ==
  \A a, b \in Actors : MayWrite(a) /\ MayWrite(b) /\ Tree(a) = Tree(b) => a = b

\* An actor the store lets write carries the highest fence its worktree has
\* ever given out, so a superseded writer can be told by its fence alone.
FenceOrder ==
  \A a, b \in Actors :
    MayWrite(a) /\ b \in Writers \ {a} /\ Tree(b) = Tree(a) =>
      lease[b].fence < lease[a].fence

\* A candidate under review does not change: readers of a node never overlap
\* with its writer or validator, and those never with each other.
NodeExclusive ==
  \A a, b \in Active :
    a # b /\ NodeOf(a) = NodeOf(b) => lease[a].role = "READER" /\ lease[b].role = "READER"

\* resource_locks and leases, written by separate statements in five places,
\* agree: a worktree names a lease exactly when that lease is active on it.
LockMatchesLease ==
  \A w \in Worktrees, a \in Actors :
    lockLease[w] = a <=> a \in Active \cap Writers /\ Tree(a) = w

\* The rows and the snapshot agree: an active exclusive lease is the one its
\* node recognises, unless the campaign ended or its authority was rotated.
HolderMatchesLease ==
  /\ \A n \in Nodes : holder[n] # None =>
       /\ holder[n] \in Issued /\ NodeOf(holder[n]) = n
       /\ lease[holder[n]].role # "READER"
  /\ \A a \in Active :
       /\ lease[a].role # "READER"
       /\ Accepting(LeaseCampaign(a)) /\ Current(a)
       => holder[NodeOf(a)] = a /\ fence[NodeOf(a)] = lease[a].fence

\* README, STOP: cancel "invalidates leases": a cancelled or failed campaign
\* has no active lease left, nor gets one. This is so in AUTOMATED mode, the
\* mode of this module; a manual campaign issues a reviewer its lease without a
\* look at the campaign's phase.
StopRevokes ==
  \A a \in Active : campaign[LeaseCampaign(a)] \notin {"FAILED", "CANCELLED"}

\* A writer or validator its node no longer recognises does not block its
\* worktree or its node for ever: restart recovery ends the lease.
UnrecognisedEnds ==
  \A a \in Actors :
    a \in Active /\ lease[a].role # "READER" /\ holder[NodeOf(a)] # a ~> a \notin Active
=============================================================================
