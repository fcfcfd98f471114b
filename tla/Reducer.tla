------------------------------- MODULE Reducer -------------------------------
(***************************************************************************)
(* The campaign reducer (scripts/agent/campaign_engine/reducer.py): the    *)
(* one function that may change a campaign snapshot.  Each action below is *)
(* one branch of reduce(snapshot, event) taken by an event it ACCEPTS; an  *)
(* event it rejects raises and leaves the snapshot alone, so rejection is  *)
(* the action not being enabled.                                           *)
(*                                                                         *)
(* The snapshot's node records are split into one function per field.      *)
(* Event identity, the expected revision and the idempotent replay of an   *)
(* event already applied belong to the store and are modelled there: here  *)
(* every accepted event has its own identity.  START_CLOSURE is always     *)
(* rejected by the code and has no action.                                 *)
(***************************************************************************)
EXTENDS Integers, Sequences, FiniteSets

CONSTANTS
  Nodes,             \* node ids of the approved graph
  Dependencies,      \* [Nodes -> SUBSET Nodes]
  Actors,            \* identities that may own a node lease
  Heads,             \* commit ids a candidate may have
  FindingIds,        \* identifiers a review finding may have
  Ops,               \* publication operation ids
  None,              \* the absent actor, head, node, effect or operation
  Mode,              \* "AUTOMATED" or "MANUAL"
  Rank,              \* the specification's autonomous_rank
  BudgetLimit,       \* declared limit of each budget token; 0: not declared
  AllowedEffects,    \* publication_authority.allowed_effects
  DeclaredEffects,   \* publication_authority.required_effects, <<>>: omitted
  AutomatedPublication, \* publication_authority.automated
  HostedChecks,      \* required_hosted_checks is not empty
  CohortSize,        \* number of required reviewers
  CommandCount,      \* validation commands of a node
  MaxFence,          \* bound on the fencing epoch an acquisition asks for
  MaxAuthority       \* bound on the authority epoch

PublishKinds == {"PUSH", "CREATE_PULL_REQUEST", "UPSERT_COMMENT", "MERGE"}
EffectKinds == PublishKinds \cup {"EXACT_FILE_REPLACE"}

PublishToken == [k \in PublishKinds |->
  CASE k = "PUSH" -> "PUSH"
    [] k = "CREATE_PULL_REQUEST" -> "PULL_REQUEST_CREATION"
    [] k = "UPSERT_COMMENT" -> "COMMENT"
    [] k = "MERGE" -> "MERGE"]

BudgetTokens == {"CHILD_CREATION", "CHILD_START", "VALIDATION_EXECUTION",
  "REVIEW_DISPATCH", "REPAIR_DISPATCH", "CLOSURE_DISPATCH",
  "HOSTED_CHECK_WAKEUP", "TRANSPORT_RETRY", "RECONCILIATION", "PUSH",
  "PULL_REQUEST_CREATION", "COMMENT", "MERGE", "REJECTED_ATTEMPT",
  "NO_OP_ATTEMPT"}

CampaignStates == {"DRAFT", "APPROVED", "RUNNING", "WAITING_EXTERNAL",
  "WAITING_HUMAN", "COMPLETED", "FAILED", "CANCELLED"}
WaitingStates == {"WAITING_EXTERNAL", "WAITING_HUMAN"}
TerminalCampaignStates == {"COMPLETED", "FAILED", "CANCELLED"}

NodeStates == {"PENDING", "ADMITTED", "IMPLEMENTING", "VALIDATING",
  "CANDIDATE_FROZEN", "CHECKS_AND_REVIEW", "FINDINGS_FROZEN",
  "REPAIR_AUTHORIZED", "REPAIRING", "REVALIDATING", "CLOSURE",
  "READY_TO_PUBLISH", "PUBLISHING", "DONE", "FAILED_EXACT_NODE", "CANCELLED"}
TerminalNodeStates == {"DONE", "FAILED_EXACT_NODE", "CANCELLED"}

\* The publication sequence the reducer enforces: required_effects defaults
\* to allowed_effects.
Required == IF DeclaredEffects = <<>> THEN AllowedEffects ELSE DeclaredEffects

ASSUME ReducerAssumption ==
  /\ IsFiniteSet(Nodes) /\ Nodes # {}
  /\ Dependencies \in [Nodes -> SUBSET Nodes]
  /\ None \notin Nodes \cup Actors \cup Heads \cup Ops \cup EffectKinds
  /\ Mode \in {"AUTOMATED", "MANUAL"}
  /\ Rank \in Nat
  /\ BudgetLimit \in [BudgetTokens -> Nat]
  /\ AllowedEffects \in Seq(EffectKinds) /\ AllowedEffects # <<>>
  /\ DeclaredEffects \in Seq(PublishKinds)
  /\ Required \in Seq(PublishKinds)
  /\ \A i, j \in 1..Len(Required) : Required[i] = Required[j] => i = j
  /\ AutomatedPublication \in BOOLEAN /\ HostedChecks \in BOOLEAN
  /\ CohortSize \in Nat /\ CommandCount \in Nat
  /\ MaxFence \in Nat /\ MaxAuthority \in Nat

VARIABLES
  state,             \* campaign state
  activeNode,        \* active_node_id
  authorityEpoch,
  cancellationEpoch,
  consumed,          \* consumed count of each budget token
  receipts,          \* number of budget receipts
  rank,              \* autonomous_rank_remaining
  nodeState,
  startFrozen,       \* start_head is set
  fencingEpoch,
  leaseActor,        \* lease_actor_id
  implementationAttempts,
  validationCorrections,
  reviewGenerations,
  repairAttempts,
  closureGenerations,
  candidateHead,
  blockers,          \* ids of the frozen blocking findings
  resolved,          \* resolved_finding_ids
  closureBlockers,   \* closure findings that block
  publicationReceipt,\* a human publication receipt was consumed
  completedEffects,  \* completed_publication_effects
  operationIds,      \* publication_operation_ids
  pendingEffect,     \* pending_publication_effect
  pendingOp,         \* pending_publication_operation_id
  intents            \* publication intents returned to the store so far

campaignVars == <<state, activeNode, authorityEpoch, cancellationEpoch>>
budgetVars == <<consumed, receipts, rank>>
leaseVars == <<fencingEpoch, leaseActor>>
counterVars == <<implementationAttempts, validationCorrections,
                 reviewGenerations, repairAttempts, closureGenerations>>
candidateVars == <<startFrozen, candidateHead>>
findingVars == <<blockers, resolved, closureBlockers>>
publicationVars == <<publicationReceipt, completedEffects, operationIds,
                     pendingEffect, pendingOp, intents>>
vars == <<campaignVars, budgetVars, nodeState, leaseVars, counterVars,
          candidateVars, findingVars, publicationVars>>

\* A publication intent: the external effect record START_PUBLISH returns.
Intent == [node: Nodes, op: Ops, kind: PublishKinds, head: Heads \cup {None},
           authority: Nat, cancellation: Nat]

Init ==
  /\ state = "DRAFT"
  /\ activeNode = None
  /\ authorityEpoch = 0
  /\ cancellationEpoch = 0
  /\ consumed = [t \in BudgetTokens |-> 0]
  /\ receipts = 0
  /\ rank = Rank
  /\ nodeState = [n \in Nodes |-> "PENDING"]
  /\ startFrozen = [n \in Nodes |-> FALSE]
  /\ fencingEpoch = [n \in Nodes |-> 0]
  /\ leaseActor = [n \in Nodes |-> None]
  /\ implementationAttempts = [n \in Nodes |-> 0]
  /\ validationCorrections = [n \in Nodes |-> 0]
  /\ reviewGenerations = [n \in Nodes |-> 0]
  /\ repairAttempts = [n \in Nodes |-> 0]
  /\ closureGenerations = [n \in Nodes |-> 0]
  /\ candidateHead = [n \in Nodes |-> None]
  /\ blockers = [n \in Nodes |-> {}]
  /\ resolved = [n \in Nodes |-> {}]
  /\ closureBlockers = [n \in Nodes |-> {}]
  /\ publicationReceipt = [n \in Nodes |-> FALSE]
  /\ completedEffects = [n \in Nodes |-> <<>>]
  /\ operationIds = [n \in Nodes |-> {}]
  /\ pendingEffect = [n \in Nodes |-> None]
  /\ pendingOp = [n \in Nodes |-> None]
  /\ intents = {}

-----------------------------------------------------------------------------
(* Helpers of the reducer.                                                 *)

\* reduce() rejects every event of a terminal (or cancelled) campaign.
Accepting == state \notin TerminalCampaignStates

Running == state = "RUNNING"

\* _check_fence: event actor a with fencing epoch f acts for node n.
CheckFence(n, a, f) ==
  \/ Mode = "MANUAL" /\ leaseActor[n] = None
  \/ leaseActor[n] # None /\ a = leaseActor[n] /\ f = fencingEpoch[n]

Remaining(t) == BudgetLimit[t] - consumed[t]

\* mutant: the receipt is written and the rank is kept
Consume_RankKept(t) ==
  /\ rank > 0
  /\ Remaining(t) > 0
  /\ consumed' = [consumed EXCEPT ![t] = @ + 1]
  /\ receipts' = receipts + 1
  /\ rank' = rank

\* _consume_budget
Consume(t) ==
  /\ rank > 0
  /\ Remaining(t) > 0
  /\ consumed' = [consumed EXCEPT ![t] = @ + 1]
  /\ receipts' = receipts + 1
  /\ rank' = rank - 1

\* _consume_automated
ConsumeAutomated(t) ==
  IF Mode = "MANUAL" THEN UNCHANGED budgetVars ELSE Consume(t)

Move(n, from, to) ==
  /\ Accepting
  /\ nodeState[n] = from
  /\ nodeState' = [nodeState EXCEPT ![n] = to]

\* _fail_exact_node: fences the failed node out and ends the campaign.
FailExactNode(n) ==
  /\ nodeState' = [nodeState EXCEPT ![n] = "FAILED_EXACT_NODE"]
  /\ fencingEpoch' = [fencingEpoch EXCEPT ![n] = @ + 1]
  /\ leaseActor' = [leaseActor EXCEPT ![n] = None]
  /\ state' = "FAILED"
  /\ activeNode' = None
  /\ UNCHANGED <<authorityEpoch, cancellationEpoch>>

\* mutant: the correction plans for review but not for delivery
DeliveryAhead_Forgotten(n) == {}

\* correction_budget_requirements: what is still ahead of a corrected node.
\* It reads required_effects with the default (), not the default of Required.
DeliveryAhead(n) ==
  {DeclaredEffects[i] : i \in Len(completedEffects[n]) + 1 .. Len(DeclaredEffects)}

CorrectionNeeds(n, t) ==
  CASE t \in {"CHILD_CREATION", "CHILD_START"} -> 1 + CohortSize
    [] t = "VALIDATION_EXECUTION" -> CommandCount + Cardinality(DeliveryAhead(n))
    [] t = "REVIEW_DISPATCH" -> 1
    [] t = "HOSTED_CHECK_WAKEUP" ->
         IF HostedChecks /\ "MERGE" \in DeliveryAhead(n) THEN 1 ELSE 0
    [] OTHER -> IF \E k \in DeliveryAhead(n) : PublishToken[k] = t THEN 1 ELSE 0

CorrectionTotal(n) ==
  2 * (1 + CohortSize) + CommandCount + 2 * Cardinality(DeliveryAhead(n)) + 1
    + CorrectionNeeds(n, "HOSTED_CHECK_WAKEUP")

CorrectionAffordable(n) ==
  \/ Mode = "MANUAL"
  \/ /\ rank >= CorrectionTotal(n)
     /\ \A t \in BudgetTokens : Remaining(t) >= CorrectionNeeds(n, t)

-----------------------------------------------------------------------------
(* Campaign events.                                                        *)

Approve ==
  /\ state = "DRAFT"
  /\ state' = "APPROVED"
  /\ UNCHANGED <<activeNode, authorityEpoch, cancellationEpoch, budgetVars,
       nodeState, leaseVars, counterVars, candidateVars, findingVars,
       publicationVars>>

Start ==
  /\ state = "APPROVED"
  /\ state' = "RUNNING"
  /\ UNCHANGED <<activeNode, authorityEpoch, cancellationEpoch, budgetVars,
       nodeState, leaseVars, counterVars, candidateVars, findingVars,
       publicationVars>>

Wait ==
  /\ Running
  /\ state' \in WaitingStates
  /\ UNCHANGED <<activeNode, authorityEpoch, cancellationEpoch, budgetVars,
       nodeState, leaseVars, counterVars, candidateVars, findingVars,
       publicationVars>>

Resume ==
  /\ state \in WaitingStates
  /\ state' = "RUNNING"
  /\ UNCHANGED <<activeNode, authorityEpoch, cancellationEpoch, budgetVars,
       nodeState, leaseVars, counterVars, candidateVars, findingVars,
       publicationVars>>

\* Rotating the authority drops every lease; fencing epochs stay.
AdvanceAuthority ==
  /\ state = "WAITING_HUMAN"
  /\ authorityEpoch < MaxAuthority
  /\ authorityEpoch' = authorityEpoch + 1
  /\ leaseActor' = [n \in Nodes |-> None]
  /\ UNCHANGED <<state, activeNode, cancellationEpoch, budgetVars, nodeState,
       fencingEpoch, counterVars, candidateVars, findingVars, publicationVars>>

\* STOP: terminal for every unfinished node, from any non-terminal state.
Cancel ==
  LET stopped == {n \in Nodes : nodeState[n] \notin TerminalNodeStates}
  IN /\ Accepting
     /\ state' = "CANCELLED"
     /\ activeNode' = None
     /\ cancellationEpoch' = cancellationEpoch + 1
     /\ nodeState' = [n \in Nodes |->
          IF n \in stopped THEN "CANCELLED" ELSE nodeState[n]]
     /\ leaseActor' = [n \in Nodes |->
          IF n \in stopped THEN None ELSE leaseActor[n]]
     /\ UNCHANGED <<authorityEpoch, budgetVars, fencingEpoch, counterVars,
          candidateVars, findingVars, publicationVars>>

ConsumeBudget(t) ==
  /\ Running
  /\ Consume(t)
  /\ UNCHANGED <<campaignVars, nodeState, leaseVars, counterVars,
       candidateVars, findingVars, publicationVars>>

-----------------------------------------------------------------------------
(* Admission and leases.                                                   *)

\* mutant: a second node may be admitted beside the active one
NoOtherActive_Any(n) == TRUE

NoOtherActive(n) == activeNode \in {None, n}

\* mutant: one delivered dependency is enough (any for all)
DependenciesDone_Some(n) ==
  Dependencies[n] = {} \/ \E d \in Dependencies[n] : nodeState[d] = "DONE"

DependenciesDone(n) == \A d \in Dependencies[n] : nodeState[d] = "DONE"

AdmitNode(n) ==
  /\ Running
  /\ Move(n, "PENDING", "ADMITTED")
  /\ NoOtherActive(n)
  /\ DependenciesDone(n)
  /\ ~startFrozen[n]
  /\ startFrozen' = [startFrozen EXCEPT ![n] = TRUE]
  /\ activeNode' = n
  /\ UNCHANGED <<state, authorityEpoch, cancellationEpoch, budgetVars,
       leaseVars, counterVars, candidateHead, findingVars, publicationVars>>

FenceAdvances(n, f) == f > fencingEpoch[n]

AcquireLease(n, a, f) ==
  /\ Running
  /\ nodeState[n] \notin TerminalNodeStates
  /\ leaseActor[n] = None
  /\ FenceAdvances(n, f)
  /\ fencingEpoch' = [fencingEpoch EXCEPT ![n] = f]
  /\ leaseActor' = [leaseActor EXCEPT ![n] = a]
  /\ UNCHANGED <<campaignVars, budgetVars, nodeState, counterVars,
       candidateVars, findingVars, publicationVars>>

ReleaseLease(n, a, f) ==
  /\ Accepting
  /\ leaseActor[n] # None
  /\ a = leaseActor[n] /\ f = fencingEpoch[n]
  /\ leaseActor' = [leaseActor EXCEPT ![n] = None]
  /\ UNCHANGED <<campaignVars, budgetVars, nodeState, fencingEpoch,
       counterVars, candidateVars, findingVars, publicationVars>>

-----------------------------------------------------------------------------
(* Implementation and validation.                                          *)

StartImplementation(n, a, f) ==
  /\ Running
  /\ CheckFence(n, a, f)
  /\ Move(n, "ADMITTED", "IMPLEMENTING")
  /\ startFrozen[n]
  /\ implementationAttempts[n] = 0
  /\ ConsumeAutomated("CHILD_START")
  /\ implementationAttempts' = [implementationAttempts EXCEPT ![n] = 1]
  /\ UNCHANGED <<campaignVars, leaseVars, validationCorrections,
       reviewGenerations, repairAttempts, closureGenerations, candidateVars,
       findingVars, publicationVars>>

ImplementationCompleted(n, a, f) ==
  /\ CheckFence(n, a, f)
  /\ Move(n, "IMPLEMENTING", "VALIDATING")
  /\ UNCHANGED <<campaignVars, budgetVars, leaseVars, counterVars,
       candidateVars, findingVars, publicationVars>>

\* Whether the failed evidence is one the approved correction policy
\* recognises is the caller's input; the event is only sent when it is.
RequestValidationCorrection(n, a, f) ==
  /\ CheckFence(n, a, f)
  /\ Running
  /\ Move(n, "VALIDATING", "IMPLEMENTING")
  /\ validationCorrections[n] = 0
  /\ candidateHead[n] = None
  /\ CorrectionAffordable(n)
  /\ validationCorrections' = [validationCorrections EXCEPT ![n] = 1]
  /\ UNCHANGED <<campaignVars, budgetVars, leaseVars, implementationAttempts,
       reviewGenerations, repairAttempts, closureGenerations, candidateVars,
       findingVars, publicationVars>>

ValidationPassed(n, a, f, h) ==
  /\ CheckFence(n, a, f)
  /\ Move(n, "VALIDATING", "CANDIDATE_FROZEN")
  /\ candidateHead' = [candidateHead EXCEPT ![n] = h]
  /\ UNCHANGED <<campaignVars, budgetVars, leaseVars, counterVars,
       startFrozen, findingVars, publicationVars>>

\* VALIDATION_FAILED and REVALIDATION_FAILED
ValidationFailed(n, a, f) ==
  /\ Accepting
  /\ CheckFence(n, a, f)
  /\ nodeState[n] \in {"VALIDATING", "REVALIDATING"}
  /\ FailExactNode(n)
  /\ UNCHANGED <<budgetVars, counterVars, candidateVars, findingVars,
       publicationVars>>

-----------------------------------------------------------------------------
(* Review, the one combined repair, and closure.                           *)

StartReview(n) ==
  /\ Move(n, "CANDIDATE_FROZEN", "CHECKS_AND_REVIEW")
  /\ reviewGenerations[n] = 0
  /\ ConsumeAutomated("REVIEW_DISPATCH")
  /\ reviewGenerations' = [reviewGenerations EXCEPT ![n] = 1]
  /\ UNCHANGED <<campaignVars, leaseVars, implementationAttempts,
       validationCorrections, repairAttempts, closureGenerations,
       candidateVars, findingVars, publicationVars>>

\* Findings that do not block never influence a later step: only the ids of
\* the blocking ones are kept.
FreezeFindings(n, B) ==
  /\ Move(n, "CHECKS_AND_REVIEW", "FINDINGS_FROZEN")
  /\ blockers[n] = {}
  /\ blockers' = [blockers EXCEPT ![n] = B]
  /\ UNCHANGED <<campaignVars, budgetVars, leaseVars, counterVars,
       candidateVars, resolved, closureBlockers, publicationVars>>

MarkReadyToPublish(n) ==
  /\ Move(n, "FINDINGS_FROZEN", "READY_TO_PUBLISH")
  /\ blockers[n] = {}
  /\ UNCHANGED <<campaignVars, budgetVars, leaseVars, counterVars,
       candidateVars, findingVars, publicationVars>>

AuthorizeRepair(n, ids) ==
  /\ Move(n, "FINDINGS_FROZEN", "REPAIR_AUTHORIZED")
  /\ blockers[n] # {}
  /\ repairAttempts[n] = 0
  /\ ids = blockers[n]
  /\ UNCHANGED <<campaignVars, budgetVars, leaseVars, counterVars,
       candidateVars, findingVars, publicationVars>>

StartRepair(n, a, f) ==
  /\ CheckFence(n, a, f)
  /\ Move(n, "REPAIR_AUTHORIZED", "REPAIRING")
  /\ repairAttempts[n] = 0
  /\ ConsumeAutomated("REPAIR_DISPATCH")
  /\ repairAttempts' = [repairAttempts EXCEPT ![n] = 1]
  /\ UNCHANGED <<campaignVars, leaseVars, implementationAttempts,
       validationCorrections, reviewGenerations, closureGenerations,
       candidateVars, findingVars, publicationVars>>

RepairCompleted(n, a, f) ==
  /\ CheckFence(n, a, f)
  /\ Move(n, "REPAIRING", "REVALIDATING")
  /\ UNCHANGED <<campaignVars, budgetVars, leaseVars, counterVars,
       candidateVars, findingVars, publicationVars>>

RevalidationPassed(n, a, f, h) ==
  /\ CheckFence(n, a, f)
  /\ Move(n, "REVALIDATING", "CLOSURE")
  /\ closureGenerations[n] = 0
  /\ ConsumeAutomated("CLOSURE_DISPATCH")
  /\ closureGenerations' = [closureGenerations EXCEPT ![n] = 1]
  /\ candidateHead' = [candidateHead EXCEPT ![n] = h]
  /\ UNCHANGED <<campaignVars, leaseVars, implementationAttempts,
       validationCorrections, reviewGenerations, repairAttempts, startFrozen,
       findingVars, publicationVars>>

\* mutant: an unresolved frozen blocker does not fail the closure
ClosureFails_NewOnly(n, R, B) == B # {}

ClosureFails(n, R, B) == blockers[n] \ R # {} \/ B # {}

\* R: resolved ids; N: ids of the new findings; B: those of N that block.
\* The node fails unless every frozen blocker is resolved and no new one
\* appeared; both findings sets are recorded either way.
CompleteClosure(n, R, N, B) ==
  /\ Accepting
  /\ nodeState[n] = "CLOSURE"
  /\ B \subseteq N
  /\ N \cap blockers[n] = {}
  /\ R \subseteq blockers[n]
  /\ resolved' = [resolved EXCEPT ![n] = R]
  /\ closureBlockers' = [closureBlockers EXCEPT ![n] = B]
  /\ \/ /\ ClosureFails(n, R, B)
        /\ FailExactNode(n)
     \/ /\ ~ClosureFails(n, R, B)
        /\ nodeState' = [nodeState EXCEPT ![n] = "READY_TO_PUBLISH"]
        /\ UNCHANGED <<campaignVars, leaseVars>>
  /\ UNCHANGED <<budgetVars, counterVars, candidateVars, blockers,
       publicationVars>>

-----------------------------------------------------------------------------
(* Publication.                                                            *)

AuthorizePublication(n) ==
  /\ Accepting
  /\ ~AutomatedPublication
  /\ nodeState[n] = "READY_TO_PUBLISH"
  /\ ~publicationReceipt[n]
  /\ publicationReceipt' = [publicationReceipt EXCEPT ![n] = TRUE]
  /\ UNCHANGED <<campaignVars, budgetVars, nodeState, leaseVars, counterVars,
       candidateVars, findingVars, completedEffects, operationIds,
       pendingEffect, pendingOp, intents>>

MayPublish(n) == AutomatedPublication \/ publicationReceipt[n]

\* mutant: any allowed effect, in any order
NextEffect_AnyOrder(n, k) ==
  /\ \E i \in 1..Len(AllowedEffects) : AllowedEffects[i] = k
  /\ Len(completedEffects[n]) < Len(Required)

\* Effect k is allowed and is the next one of the approved sequence.
NextEffect(n, k) ==
  /\ \E i \in 1..Len(AllowedEffects) : AllowedEffects[i] = k
  /\ Len(completedEffects[n]) < Len(Required)
  /\ k = Required[Len(completedEffects[n]) + 1]

\* mutant: a confirmed operation identity may be used again
FreshOperation_Any(n, op) == TRUE

FreshOperation(n, op) == op \notin operationIds[n]

\* The effect of kind k under operation op, bound to head h.
StartPublish(n, k, op, h) ==
  /\ Move(n, "READY_TO_PUBLISH", "PUBLISHING")
  /\ MayPublish(n)
  /\ pendingOp[n] = None
  /\ NextEffect(n, k)
  /\ FreshOperation(n, op)
  /\ ConsumeAutomated(PublishToken[k])
  /\ h = candidateHead[n]
  /\ pendingEffect' = [pendingEffect EXCEPT ![n] = k]
  /\ pendingOp' = [pendingOp EXCEPT ![n] = op]
  /\ intents' = intents \cup
       {[node |-> n, op |-> op, kind |-> k, head |-> h,
         authority |-> authorityEpoch, cancellation |-> cancellationEpoch]}
  /\ UNCHANGED <<campaignVars, leaseVars, counterVars, candidateVars,
       findingVars, publicationReceipt, completedEffects, operationIds>>

AllOthersDone(n) == \A m \in Nodes \ {n} : nodeState[m] = "DONE"

PublishConfirmed(n, op, h) ==
  LET completed == Append(completedEffects[n], pendingEffect[n])
      done == completed = Required
      allDone == done /\ AllOthersDone(n)
  IN /\ Move(n, "PUBLISHING", IF done THEN "DONE" ELSE "READY_TO_PUBLISH")
     /\ h = candidateHead[n]
     /\ op = pendingOp[n]
     /\ pendingEffect[n] # None
     /\ completedEffects' = [completedEffects EXCEPT ![n] = completed]
     /\ operationIds' = [operationIds EXCEPT ![n] = @ \cup {op}]
     /\ pendingEffect' = [pendingEffect EXCEPT ![n] = None]
     /\ pendingOp' = [pendingOp EXCEPT ![n] = None]
     /\ state' = IF allDone THEN "COMPLETED" ELSE state
     /\ activeNode' = IF done THEN None ELSE activeNode
     /\ UNCHANGED <<authorityEpoch, cancellationEpoch, budgetVars, leaseVars,
          counterVars, candidateVars, findingVars, publicationReceipt, intents>>

\* PUBLISH_FAILED; the pending identities stay on the failed node.
PublishFailed(n) ==
  /\ Accepting
  /\ nodeState[n] = "PUBLISHING"
  /\ FailExactNode(n)
  /\ UNCHANGED <<budgetVars, counterVars, candidateVars, findingVars,
       publicationVars>>

\* FAIL_NODE: any unfinished node, whatever the campaign is waiting for.
FailNode(n) ==
  /\ Accepting
  /\ nodeState[n] \notin TerminalNodeStates
  /\ FailExactNode(n)
  /\ UNCHANGED <<budgetVars, counterVars, candidateVars, findingVars,
       publicationVars>>

-----------------------------------------------------------------------------
CampaignEvent ==
  \/ Approve \/ Start \/ Wait \/ Resume \/ AdvanceAuthority \/ Cancel
  \/ \E t \in BudgetTokens : ConsumeBudget(t)

FencedEvent(n, a, f) ==
  \/ ReleaseLease(n, a, f)
  \/ StartImplementation(n, a, f)
  \/ ImplementationCompleted(n, a, f)
  \/ RequestValidationCorrection(n, a, f)
  \/ \E h \in Heads : ValidationPassed(n, a, f, h)
  \/ ValidationFailed(n, a, f)
  \/ StartRepair(n, a, f)
  \/ RepairCompleted(n, a, f)
  \/ \E h \in Heads : RevalidationPassed(n, a, f, h)

NodeEvent(n) ==
  \/ AdmitNode(n)
  \/ \E a \in Actors, f \in 1..MaxFence : AcquireLease(n, a, f)
  \/ \E a \in Actors \cup {None}, f \in 0..MaxFence : FencedEvent(n, a, f)
  \/ StartReview(n)
  \/ \E B \in SUBSET FindingIds : FreezeFindings(n, B)
  \/ MarkReadyToPublish(n)
  \/ \E ids \in SUBSET FindingIds : AuthorizeRepair(n, ids)
  \/ \E R, N, B \in SUBSET FindingIds : CompleteClosure(n, R, N, B)
  \/ AuthorizePublication(n)
  \/ \E k \in PublishKinds, op \in Ops, h \in Heads : StartPublish(n, k, op, h)
  \/ \E op \in Ops, h \in Heads : PublishConfirmed(n, op, h)
  \/ PublishFailed(n)
  \/ FailNode(n)

Next == CampaignEvent \/ \E n \in Nodes : NodeEvent(n)

Spec == Init /\ [][Next]_vars
-----------------------------------------------------------------------------
(* Properties.                                                             *)

InProgressStates == NodeStates \ (TerminalNodeStates \cup {"PENDING"})

\* Every field of the snapshot keeps the type model.py declares for it.
TypeOK ==
  /\ state \in CampaignStates
  /\ activeNode \in Nodes \cup {None}
  /\ authorityEpoch \in Nat
  /\ cancellationEpoch \in Nat
  /\ consumed \in [BudgetTokens -> Nat]
  /\ receipts \in Nat
  /\ rank \in Nat
  /\ nodeState \in [Nodes -> NodeStates]
  /\ startFrozen \in [Nodes -> BOOLEAN]
  /\ fencingEpoch \in [Nodes -> Nat]
  /\ leaseActor \in [Nodes -> Actors \cup {None}]
  /\ implementationAttempts \in [Nodes -> {0, 1}]
  /\ validationCorrections \in [Nodes -> {0, 1}]
  /\ reviewGenerations \in [Nodes -> {0, 1}]
  /\ repairAttempts \in [Nodes -> {0, 1}]
  /\ closureGenerations \in [Nodes -> {0, 1}]
  /\ candidateHead \in [Nodes -> Heads \cup {None}]
  /\ blockers \in [Nodes -> SUBSET FindingIds]
  /\ resolved \in [Nodes -> SUBSET FindingIds]
  /\ closureBlockers \in [Nodes -> SUBSET FindingIds]
  /\ publicationReceipt \in [Nodes -> BOOLEAN]
  /\ completedEffects \in [Nodes -> Seq(PublishKinds)]
  /\ operationIds \in [Nodes -> SUBSET Ops]
  /\ pendingEffect \in [Nodes -> PublishKinds \cup {None}]
  /\ pendingOp \in [Nodes -> Ops \cup {None}]
  /\ intents \subseteq Intent

\* While the campaign is live at most one node is being worked on, and it is
\* the one active_node_id names (ADMIT_NODE's "already has an active node").
OneActiveNode ==
  Accepting =>
    \A n \in Nodes : nodeState[n] \in InProgressStates <=> activeNode = n

\* Work on a node, and its delivery, only ever happens on top of delivered
\* dependencies.
DependencyOrder ==
  \A n \in Nodes : nodeState[n] \in InProgressStates \cup {"DONE"} =>
    \A d \in Dependencies[n] : nodeState[d] = "DONE"

\* A candidate was reviewed, and either had no blocker or had every frozen
\* blocker resolved by the one repair and a closure without new blockers.
Cleared(n) ==
  /\ candidateHead[n] # None
  /\ reviewGenerations[n] = 1
  /\ \/ blockers[n] = {}
     \/ /\ repairAttempts[n] = 1
        /\ closureGenerations[n] = 1
        /\ resolved[n] = blockers[n]
        /\ closureBlockers[n] = {}

\* Every publication effect ever handed to the outbox belongs to a candidate
\* that was cleared, and is bound to the head the node still has: no later
\* failure, stop, repair or authority rotation changes what was published.
PublicationCleared ==
  \A i \in intents : Cleared(i.node) /\ i.head = candidateHead[i.node]

\* Unless the specification automates publication, no effect exists without
\* a consumed human receipt of its node.
PublicationAuthorized ==
  \A i \in intents : AutomatedPublication \/ publicationReceipt[i.node]

\* A node never asks for the same effect twice, nor for two effects under one
\* operation identity.
EffectOnce ==
  \A i, j \in intents :
    i.node = j.node /\ (i.kind = j.kind \/ i.op = j.op) => i = j

\* Effects follow the approved sequence: what is confirmed is a prefix of it,
\* at most the next one is pending, nothing else was asked for, and a node is
\* DONE exactly when all of it is confirmed.
PublicationSequence ==
  \A n \in Nodes :
    LET c == Len(completedEffects[n])
        asked == IF pendingEffect[n] = None THEN c ELSE c + 1
    IN /\ asked <= Len(Required)
       /\ \A i \in 1..c : completedEffects[n][i] = Required[i]
       /\ {i.kind : i \in {j \in intents : j.node = n}} =
            {Required[p] : p \in 1..asked}
       /\ nodeState[n] = "DONE" <=> c = Len(Required)

\* The terminal states say what happened to every node: COMPLETED means all
\* delivered, FAILED that exactly one node failed, CANCELLED that every node
\* was delivered or stopped, and nothing of the kind shows in a live campaign.
TerminalShape ==
  /\ state = "COMPLETED" <=> \A n \in Nodes : nodeState[n] = "DONE"
  /\ state = "FAILED" <=> \E n \in Nodes : nodeState[n] = "FAILED_EXACT_NODE"
  /\ \A m, n \in Nodes :
       nodeState[m] = "FAILED_EXACT_NODE" /\ nodeState[n] = "FAILED_EXACT_NODE"
         => m = n
  /\ state = "CANCELLED" => \A n \in Nodes : nodeState[n] \in {"DONE", "CANCELLED"}
  /\ (\E n \in Nodes : nodeState[n] = "CANCELLED") => state = "CANCELLED"
  /\ cancellationEpoch = IF state = "CANCELLED" THEN 1 ELSE 0

\* The durable rank is spent exactly once per receipt and no token beyond its
\* declared limit.
BudgetConservation ==
  /\ receipts + rank = Rank
  /\ \A t \in BudgetTokens : consumed[t] <= BudgetLimit[t]

\* Fencing epochs never go back, and a node changes hands only under a fence
\* no earlier owner had.
FencingMonotonic ==
  [][\A n \in Nodes :
       /\ fencingEpoch'[n] >= fencingEpoch[n]
       /\ leaseActor'[n] \notin {leaseActor[n], None}
            => fencingEpoch'[n] > fencingEpoch[n]]_vars

\* docs/campaign-engine.md: a validation correction is granted only when the
\* budgets left cover the remaining delivery effects.
CorrectionReservesDelivery ==
  [][\A n \in Nodes :
       validationCorrections'[n] # validationCorrections[n] /\ Mode = "AUTOMATED"
         => \A p \in Len(completedEffects[n]) + 1 .. Len(Required) :
              Remaining(PublishToken[Required[p]]) > 0]_vars

=============================================================================
