---------------------------- MODULE ReducerProofs ----------------------------
(***************************************************************************)
(* Proofs about the reducer for every graph, actor set, head set, finding  *)
(* set, budget and publication sequence.                                   *)
(***************************************************************************)
EXTENDS Reducer, FiniteSetTheorems, TLAPS

\* The groups of variables and the closed vocabularies are expanded everywhere.
USE DEF campaignVars, budgetVars, leaseVars, counterVars, candidateVars,
        findingVars, publicationVars, CampaignStates, WaitingStates,
        TerminalCampaignStates, NodeStates, TerminalNodeStates

-----------------------------------------------------------------------------
(* Type correctness.                                                       *)

LEMMA CampaignEventType == TypeOK /\ CampaignEvent => TypeOK'
<1> SUFFICES ASSUME TypeOK, CampaignEvent PROVE TypeOK'
  OBVIOUS
<1>1. CASE Approve BY <1>1 DEF TypeOK, Approve
<1>2. CASE Start BY <1>2 DEF TypeOK, Start
<1>3. CASE Wait BY <1>3 DEF TypeOK, Wait
<1>4. CASE Resume BY <1>4 DEF TypeOK, Resume
<1>5. CASE AdvanceAuthority BY <1>5 DEF TypeOK, AdvanceAuthority
<1>6. CASE Cancel BY <1>6 DEF TypeOK, Cancel
<1>7. ASSUME NEW t \in BudgetTokens, ConsumeBudget(t) PROVE TypeOK'
  BY <1>7 DEF TypeOK, ConsumeBudget, Consume
<1> QED BY <1>1, <1>2, <1>3, <1>4, <1>5, <1>6, <1>7 DEF CampaignEvent

\* What a payment does, whichever mode the campaign is in.
LEMMA ConsumeType ==
  ASSUME TypeOK, NEW t \in BudgetTokens, ConsumeAutomated(t)
  PROVE  consumed' \in [BudgetTokens -> Nat] /\ receipts' \in Nat /\ rank' \in Nat
<1>1. CASE Mode = "MANUAL"
  BY <1>1 DEF TypeOK, ConsumeAutomated
<1>2. CASE Mode # "MANUAL"
  <2>1. Consume(t) BY <1>2 DEF ConsumeAutomated
  <2> QED BY <2>1 DEF TypeOK, Consume
<1> QED BY <1>1, <1>2

LEMMA FailType ==
  ASSUME TypeOK, NEW n \in Nodes, FailExactNode(n)
  PROVE  /\ state' \in CampaignStates
         /\ activeNode' \in Nodes \cup {None}
         /\ authorityEpoch' \in Nat /\ cancellationEpoch' \in Nat
         /\ nodeState' \in [Nodes -> NodeStates]
         /\ fencingEpoch' \in [Nodes -> Nat]
         /\ leaseActor' \in [Nodes -> Actors \cup {None}]
BY DEF TypeOK, FailExactNode

LEMMA RequiredFacts ==
  /\ Required \in Seq(PublishKinds)
  /\ Len(Required) \in Nat /\ Len(Required) > 0
  /\ \A i \in 1..Len(Required) : Required[i] \in PublishKinds
  /\ \A i, j \in 1..Len(Required) : Required[i] = Required[j] => i = j
BY ReducerAssumption DEF Required, EffectKinds, PublishKinds

LEMMA TokenFacts ==
  /\ \A k \in PublishKinds : PublishToken[k] \in BudgetTokens
  /\ "CHILD_START" \in BudgetTokens /\ "REVIEW_DISPATCH" \in BudgetTokens
  /\ "REPAIR_DISPATCH" \in BudgetTokens /\ "CLOSURE_DISPATCH" \in BudgetTokens
BY DEF PublishToken, PublishKinds, BudgetTokens

LEMMA FencedEventType ==
  ASSUME TypeOK, NEW n \in Nodes, NEW a \in Actors \cup {None}, NEW f \in 0..MaxFence,
         FencedEvent(n, a, f)
  PROVE  TypeOK'
<1> USE DEF TypeOK, Move
<1>1. CASE ReleaseLease(n, a, f) BY <1>1 DEF ReleaseLease
<1>2. CASE StartImplementation(n, a, f)
  BY <1>2, ConsumeType, TokenFacts DEF StartImplementation
<1>3. CASE ImplementationCompleted(n, a, f) BY <1>3 DEF ImplementationCompleted
<1>4. CASE RequestValidationCorrection(n, a, f)
  BY <1>4 DEF RequestValidationCorrection
<1>5. ASSUME NEW h \in Heads, ValidationPassed(n, a, f, h) PROVE TypeOK'
  BY <1>5 DEF ValidationPassed
<1>6. CASE ValidationFailed(n, a, f) BY <1>6 DEF ValidationFailed, FailExactNode
<1>7. CASE StartRepair(n, a, f) BY <1>7, ConsumeType, TokenFacts DEF StartRepair
<1>8. CASE RepairCompleted(n, a, f) BY <1>8 DEF RepairCompleted
<1>9. ASSUME NEW h \in Heads, RevalidationPassed(n, a, f, h) PROVE TypeOK'
  BY <1>9, ConsumeType, TokenFacts DEF RevalidationPassed
<1> QED BY <1>1, <1>2, <1>3, <1>4, <1>5, <1>6, <1>7, <1>8, <1>9 DEF FencedEvent

LEMMA NodeEventType ==
  ASSUME TypeOK, NEW n \in Nodes, NodeEvent(n)
  PROVE  TypeOK'
<1> USE DEF TypeOK, Move
<1>1. CASE AdmitNode(n) BY <1>1 DEF AdmitNode
<1>2. ASSUME NEW a \in Actors, NEW f \in 1..MaxFence, AcquireLease(n, a, f)
      PROVE TypeOK'
  BY <1>2, ReducerAssumption DEF AcquireLease
<1>3. ASSUME NEW a \in Actors \cup {None}, NEW f \in 0..MaxFence,
             FencedEvent(n, a, f)
      PROVE TypeOK'
  BY <1>3, FencedEventType
<1>4. CASE StartReview(n) BY <1>4, ConsumeType, TokenFacts DEF StartReview
<1>5. ASSUME NEW B \in SUBSET FindingIds, FreezeFindings(n, B) PROVE TypeOK'
  BY <1>5 DEF FreezeFindings
<1>6. CASE MarkReadyToPublish(n) BY <1>6 DEF MarkReadyToPublish
<1>7. ASSUME NEW ids \in SUBSET FindingIds, AuthorizeRepair(n, ids) PROVE TypeOK'
  BY <1>7 DEF AuthorizeRepair
<1>8. ASSUME NEW R \in SUBSET FindingIds, NEW N \in SUBSET FindingIds,
             NEW B \in SUBSET FindingIds, CompleteClosure(n, R, N, B)
      PROVE TypeOK'
  <2>1. CASE ClosureFails(n, R, B)
    <3>1. FailExactNode(n) BY <1>8, <2>1 DEF CompleteClosure
    <3>2. /\ resolved' \in [Nodes -> SUBSET FindingIds]
          /\ closureBlockers' \in [Nodes -> SUBSET FindingIds]
          /\ UNCHANGED <<budgetVars, counterVars, candidateVars, blockers,
               publicationVars>>
      BY <1>8 DEF CompleteClosure
    <3> QED BY <3>1, <3>2, FailType
  <2>2. CASE ~ClosureFails(n, R, B)
    BY <1>8, <2>2 DEF CompleteClosure
  <2> QED BY <2>1, <2>2
<1>9. CASE AuthorizePublication(n) BY <1>9 DEF AuthorizePublication
<1>10. ASSUME NEW k \in PublishKinds, NEW op \in Ops, NEW h \in Heads,
              StartPublish(n, k, op, h)
       PROVE TypeOK'
  <2> DEFINE i == [node |-> n, op |-> op, kind |-> k, head |-> h,
                   authority |-> authorityEpoch,
                   cancellation |-> cancellationEpoch]
  <2>1. i \in Intent BY DEF Intent
  <2>2. intents' \subseteq Intent BY <1>10, <2>1 DEF StartPublish
  <2> HIDE DEF i
  <2> QED BY <1>10, <2>2, ConsumeType, TokenFacts DEF StartPublish
<1>11. ASSUME NEW op \in Ops, NEW h \in Heads, PublishConfirmed(n, op, h)
       PROVE TypeOK'
  <2>1. Append(completedEffects[n], pendingEffect[n]) \in Seq(PublishKinds)
    BY <1>11 DEF PublishConfirmed
  <2> QED BY <1>11, <2>1 DEF PublishConfirmed
<1>12. CASE PublishFailed(n) BY <1>12 DEF PublishFailed, FailExactNode
<1>13. CASE FailNode(n) BY <1>13 DEF FailNode, FailExactNode
<1> QED
  BY <1>1, <1>2, <1>3, <1>4, <1>5, <1>6, <1>7, <1>8, <1>9, <1>10, <1>11,
     <1>12, <1>13 DEF NodeEvent

\* Every field of the snapshot keeps its declared type under every event.
THEOREM TypeCorrect == Spec => []TypeOK
<1>1. Init => TypeOK
  BY ReducerAssumption DEF Init, TypeOK
<1>2. TypeOK /\ [Next]_vars => TypeOK'
  <2> SUFFICES ASSUME TypeOK, [Next]_vars PROVE TypeOK'
    OBVIOUS
  <2>1. CASE CampaignEvent BY <2>1, CampaignEventType
  <2>2. ASSUME NEW n \in Nodes, NodeEvent(n) PROVE TypeOK'
    BY <2>2, NodeEventType
  <2>3. CASE UNCHANGED vars BY <2>3 DEF vars, TypeOK
  <2> QED BY <2>1, <2>2, <2>3 DEF Next
<1> QED BY <1>1, <1>2, PTL DEF Spec

-----------------------------------------------------------------------------
(* Every published effect belongs to a cleared candidate and its head.     *)

ReviewedStates == {"CHECKS_AND_REVIEW", "FINDINGS_FROZEN", "REPAIR_AUTHORIZED",
  "REPAIRING", "REVALIDATING", "CLOSURE", "READY_TO_PUBLISH", "PUBLISHING", "DONE"}
RepairedStates == {"REPAIRING", "REVALIDATING", "CLOSURE"}
ReleasedStates == {"READY_TO_PUBLISH", "PUBLISHING", "DONE"}

\* What the phase of a node says about its history.
PhaseInv(n) ==
  /\ nodeState[n] \in ReviewedStates \cup {"CANDIDATE_FROZEN"} => candidateHead[n] # None
  /\ nodeState[n] \in ReviewedStates => reviewGenerations[n] = 1
  /\ nodeState[n] \in RepairedStates => repairAttempts[n] = 1
  /\ nodeState[n] = "CLOSURE" => closureGenerations[n] = 1
  /\ nodeState[n] \in ReleasedStates => Cleared(n)

\* Only a released node, or one that was stopped later, has intents.
IntentPhase ==
  \A i \in intents :
    nodeState[i.node] \in ReleasedStates \cup {"FAILED_EXACT_NODE", "CANCELLED"}

ClearedInv == (\A n \in Nodes : PhaseInv(n)) /\ IntentPhase /\ PublicationCleared

\* The part of the snapshot ClearedInv reads, apart from the node states.
historyVars == <<candidateHead, reviewGenerations, repairAttempts,
                 closureGenerations, blockers, resolved, closureBlockers, intents>>

\* Steps that move one node, or stop nodes, without touching that history.
LEMMA ClearedMove ==
  ASSUME TypeOK, ClearedInv, UNCHANGED historyVars,
         nodeState' \in [Nodes -> NodeStates],
         \A m \in Nodes :
           \/ nodeState'[m] = nodeState[m]
           \/ nodeState'[m] \in {"FAILED_EXACT_NODE", "CANCELLED"}
           \/ <<nodeState[m], nodeState'[m]>> \in
                {<<"PENDING", "ADMITTED">>, <<"ADMITTED", "IMPLEMENTING">>,
                 <<"IMPLEMENTING", "VALIDATING">>, <<"VALIDATING", "IMPLEMENTING">>,
                 <<"FINDINGS_FROZEN", "REPAIR_AUTHORIZED">>,
                 <<"REPAIRING", "REVALIDATING">>,
                 <<"PUBLISHING", "READY_TO_PUBLISH">>, <<"PUBLISHING", "DONE">>}
  PROVE  ClearedInv'
<1> USE DEF historyVars, ReviewedStates, RepairedStates, ReleasedStates
<1>1. ASSUME NEW n \in Nodes PROVE PhaseInv(n)'
  BY <1>1 DEF ClearedInv, PhaseInv, Cleared
<1>2. IntentPhase'
  BY DEF ClearedInv, IntentPhase, TypeOK, Intent
<1>3. PublicationCleared'
  BY DEF ClearedInv, PublicationCleared, Cleared
<1> QED BY <1>1, <1>2, <1>3 DEF ClearedInv

LEMMA ClearedCampaign ==
  ASSUME TypeOK, TypeOK', ClearedInv, CampaignEvent
  PROVE  ClearedInv'
<1> USE DEF historyVars
<1>1. CASE Approve BY <1>1, ClearedMove DEF TypeOK, Approve
<1>2. CASE Start BY <1>2, ClearedMove DEF TypeOK, Start
<1>3. CASE Wait BY <1>3, ClearedMove DEF TypeOK, Wait
<1>4. CASE Resume BY <1>4, ClearedMove DEF TypeOK, Resume
<1>5. CASE AdvanceAuthority BY <1>5, ClearedMove DEF TypeOK, AdvanceAuthority
<1>6. CASE Cancel BY <1>6, ClearedMove DEF TypeOK, Cancel
<1>7. ASSUME NEW t \in BudgetTokens, ConsumeBudget(t) PROVE ClearedInv'
  BY <1>7, ClearedMove DEF TypeOK, ConsumeBudget
<1> QED BY <1>1, <1>2, <1>3, <1>4, <1>5, <1>6, <1>7 DEF CampaignEvent

LEMMA ClearedFail ==
  ASSUME TypeOK, TypeOK', ClearedInv, NEW n \in Nodes, FailExactNode(n),
         UNCHANGED historyVars
  PROVE  ClearedInv'
BY ClearedMove DEF TypeOK, FailExactNode

\* Steps of one node that has no intents yet and leave the others alone.
LEMMA ClearedOwn ==
  ASSUME TypeOK, TypeOK', ClearedInv, NEW n \in Nodes,
         nodeState[n] \notin ReleasedStates \cup {"FAILED_EXACT_NODE", "CANCELLED"},
         UNCHANGED intents, PhaseInv(n)',
         \A m \in Nodes \ {n} :
           /\ nodeState'[m] = nodeState[m]
           /\ candidateHead'[m] = candidateHead[m]
           /\ reviewGenerations'[m] = reviewGenerations[m]
           /\ repairAttempts'[m] = repairAttempts[m]
           /\ closureGenerations'[m] = closureGenerations[m]
           /\ blockers'[m] = blockers[m]
           /\ resolved'[m] = resolved[m]
           /\ closureBlockers'[m] = closureBlockers[m]
  PROVE  ClearedInv'
<1>1. ASSUME NEW m \in Nodes PROVE PhaseInv(m)'
  BY <1>1 DEF ClearedInv, PhaseInv, Cleared
<1>2. \A i \in intents : i.node \in Nodes \ {n}
  BY DEF TypeOK, Intent, ClearedInv, IntentPhase
<1>3. IntentPhase'
  BY <1>2 DEF ClearedInv, IntentPhase
<1>4. PublicationCleared'
  BY <1>2 DEF ClearedInv, PublicationCleared, Cleared
<1> QED BY <1>1, <1>3, <1>4 DEF ClearedInv

LEMMA ClearedFenced ==
  ASSUME TypeOK, TypeOK', ClearedInv, NEW n \in Nodes,
         NEW a \in Actors \cup {None}, NEW f \in 0..MaxFence, FencedEvent(n, a, f)
  PROVE  ClearedInv'
<1> USE DEF historyVars, Move, TypeOK
<1>0. PhaseInv(n) BY DEF ClearedInv
<1>1. CASE ReleaseLease(n, a, f) BY <1>1, ClearedMove DEF ReleaseLease
<1>2. CASE StartImplementation(n, a, f)
  BY <1>2, ClearedMove DEF StartImplementation
<1>3. CASE ImplementationCompleted(n, a, f)
  BY <1>3, ClearedMove DEF ImplementationCompleted
<1>4. CASE RequestValidationCorrection(n, a, f)
  BY <1>4, ClearedMove DEF RequestValidationCorrection
<1>5. ASSUME NEW h \in Heads, ValidationPassed(n, a, f, h) PROVE ClearedInv'
  <2>1. PhaseInv(n)'
    BY <1>5, ReducerAssumption DEF ValidationPassed, PhaseInv, ReviewedStates, RepairedStates,
      ReleasedStates
  <2> QED BY <1>5, <2>1, ClearedOwn DEF ValidationPassed, ReleasedStates
<1>6. CASE ValidationFailed(n, a, f) BY <1>6, ClearedFail DEF ValidationFailed
<1>7. CASE StartRepair(n, a, f)
  <2>1. PhaseInv(n)'
    BY <1>0, <1>7 DEF StartRepair, PhaseInv, ReviewedStates, RepairedStates,
      ReleasedStates
  <2> QED BY <1>7, <2>1, ClearedOwn DEF StartRepair, ReleasedStates
<1>8. CASE RepairCompleted(n, a, f) BY <1>8, ClearedMove DEF RepairCompleted
<1>9. ASSUME NEW h \in Heads, RevalidationPassed(n, a, f, h) PROVE ClearedInv'
  <2>1. PhaseInv(n)'
    BY <1>0, <1>9, ReducerAssumption DEF RevalidationPassed, PhaseInv, ReviewedStates,
      RepairedStates, ReleasedStates
  <2> QED BY <1>9, <2>1, ClearedOwn DEF RevalidationPassed, ReleasedStates
<1> QED BY <1>1, <1>2, <1>3, <1>4, <1>5, <1>6, <1>7, <1>8, <1>9 DEF FencedEvent

LEMMA ClearedNode ==
  ASSUME TypeOK, TypeOK', ClearedInv, NEW n \in Nodes, NodeEvent(n)
  PROVE  ClearedInv'
<1> USE DEF historyVars, Move, TypeOK
<1>0. PhaseInv(n) BY DEF ClearedInv
<1>1. CASE AdmitNode(n) BY <1>1, ClearedMove DEF AdmitNode
<1>2. ASSUME NEW a \in Actors, NEW f \in 1..MaxFence, AcquireLease(n, a, f)
      PROVE ClearedInv'
  BY <1>2, ClearedMove DEF AcquireLease
<1>3. ASSUME NEW a \in Actors \cup {None}, NEW f \in 0..MaxFence,
             FencedEvent(n, a, f)
      PROVE ClearedInv'
  BY <1>3, ClearedFenced
<1>4. CASE StartReview(n)
  <2>1. PhaseInv(n)'
    BY <1>0, <1>4 DEF StartReview, PhaseInv, ReviewedStates, RepairedStates,
      ReleasedStates
  <2> QED BY <1>4, <2>1, ClearedOwn DEF StartReview, ReleasedStates
<1>5. ASSUME NEW B \in SUBSET FindingIds, FreezeFindings(n, B) PROVE ClearedInv'
  <2>1. PhaseInv(n)'
    BY <1>0, <1>5 DEF FreezeFindings, PhaseInv, ReviewedStates, RepairedStates,
      ReleasedStates
  <2> QED BY <1>5, <2>1, ClearedOwn DEF FreezeFindings, ReleasedStates
<1>6. CASE MarkReadyToPublish(n)
  <2>1. PhaseInv(n)'
    BY <1>0, <1>6 DEF MarkReadyToPublish, PhaseInv, Cleared, ReviewedStates,
      RepairedStates, ReleasedStates
  <2> QED BY <1>6, <2>1, ClearedOwn DEF MarkReadyToPublish, ReleasedStates
<1>7. ASSUME NEW ids \in SUBSET FindingIds, AuthorizeRepair(n, ids) PROVE ClearedInv'
  BY <1>7, ClearedMove DEF AuthorizeRepair
<1>8. ASSUME NEW R \in SUBSET FindingIds, NEW N \in SUBSET FindingIds,
             NEW B \in SUBSET FindingIds, CompleteClosure(n, R, N, B)
      PROVE ClearedInv'
  <2>1. CASE ClosureFails(n, R, B)
    <3>1. FailExactNode(n) BY <1>8, <2>1 DEF CompleteClosure
    <3>2. PhaseInv(n)'
      BY <3>1 DEF FailExactNode, PhaseInv, ReviewedStates, RepairedStates,
        ReleasedStates
    <3>3. /\ nodeState[n] = "CLOSURE"
          /\ resolved' = [resolved EXCEPT ![n] = R]
          /\ closureBlockers' = [closureBlockers EXCEPT ![n] = B]
          /\ UNCHANGED <<budgetVars, counterVars, candidateVars, blockers,
               publicationVars>>
      BY <1>8 DEF CompleteClosure
    <3> QED BY <3>1, <3>2, <3>3, ClearedOwn DEF FailExactNode, ReleasedStates
  <2>2. CASE ~ClosureFails(n, R, B)
    <3>1. nodeState' = [nodeState EXCEPT ![n] = "READY_TO_PUBLISH"]
      BY <1>8, <2>2 DEF CompleteClosure
    <3>2. /\ nodeState[n] = "CLOSURE" /\ R \subseteq blockers[n]
          /\ resolved' = [resolved EXCEPT ![n] = R]
          /\ closureBlockers' = [closureBlockers EXCEPT ![n] = B]
          /\ UNCHANGED <<budgetVars, counterVars, candidateVars, blockers,
               publicationVars>>
      BY <1>8 DEF CompleteClosure
    <3>3. R = blockers[n] /\ B = {}
      BY <2>2, <3>2 DEF ClosureFails
    <3>4. PhaseInv(n)'
      BY <1>0, <3>1, <3>2, <3>3 DEF PhaseInv, Cleared, ReviewedStates,
        RepairedStates, ReleasedStates
    <3> QED BY <3>1, <3>2, <3>4, ClearedOwn DEF ReleasedStates
  <2> QED BY <2>1, <2>2
<1>9. CASE AuthorizePublication(n)
  BY <1>9, ClearedMove DEF AuthorizePublication
<1>10. ASSUME NEW k \in PublishKinds, NEW op \in Ops, NEW h \in Heads,
              StartPublish(n, k, op, h)
       PROVE ClearedInv'
  <2>1. \A m \in Nodes : PhaseInv(m)'
    BY <1>10 DEF ClearedInv, StartPublish, PhaseInv, Cleared, ReviewedStates,
      RepairedStates, ReleasedStates
  <2>2. ASSUME NEW i \in intents'
        PROVE  /\ nodeState'[i.node] \in ReleasedStates
                     \cup {"FAILED_EXACT_NODE", "CANCELLED"}
               /\ Cleared(i.node)' /\ i.head = candidateHead'[i.node]
    <3>1. CASE i \in intents
      BY <1>10, <3>1 DEF ClearedInv, StartPublish, IntentPhase,
        PublicationCleared, Cleared, ReleasedStates, Intent
    <3>2. CASE i.node = n /\ i.head = h
      BY <1>0, <1>10, <3>2 DEF StartPublish, PhaseInv, Cleared, ReleasedStates
    <3> QED BY <1>10, <2>2, <3>1, <3>2 DEF StartPublish
  <2> QED BY <2>1, <2>2 DEF ClearedInv, IntentPhase, PublicationCleared
<1>11. ASSUME NEW op \in Ops, NEW h \in Heads, PublishConfirmed(n, op, h)
       PROVE ClearedInv'
  BY <1>11, ClearedMove DEF PublishConfirmed
<1>12. CASE PublishFailed(n) BY <1>12, ClearedFail DEF PublishFailed
<1>13. CASE FailNode(n) BY <1>13, ClearedFail DEF FailNode
<1> QED
  BY <1>1, <1>2, <1>3, <1>4, <1>5, <1>6, <1>7, <1>8, <1>9, <1>10, <1>11,
     <1>12, <1>13 DEF NodeEvent

\* No effect is ever handed to the outbox for a candidate that was not
\* reviewed and cleared, and the head it is bound to is the node's for good.
THEOREM PublicationClearedAlways == Spec => []PublicationCleared
<1>1. Init => ClearedInv
  BY DEF Init, ClearedInv, PhaseInv, IntentPhase, PublicationCleared,
    ReviewedStates, RepairedStates, ReleasedStates
<1>2. TypeOK /\ TypeOK' /\ ClearedInv /\ [Next]_vars => ClearedInv'
  <2> SUFFICES ASSUME TypeOK, TypeOK', ClearedInv, [Next]_vars PROVE ClearedInv'
    OBVIOUS
  <2>1. CASE CampaignEvent BY <2>1, ClearedCampaign
  <2>2. ASSUME NEW n \in Nodes, NodeEvent(n) PROVE ClearedInv'
    BY <2>2, ClearedNode
  <2>3. CASE UNCHANGED vars
    BY <2>3, ClearedMove DEF vars, historyVars, TypeOK
  <2> QED BY <2>1, <2>2, <2>3 DEF Next
<1>3. ClearedInv => PublicationCleared
  BY DEF ClearedInv
<1> QED BY <1>1, <1>2, <1>3, TypeCorrect, PTL DEF Spec

-----------------------------------------------------------------------------
(* One active node, dependency order and the shape of terminal states.     *)

\* Jointly inductive: TerminalShape tells a step of a live campaign that no
\* node failed or was stopped, OneActiveNode which node the step moves.
ShapeInv == OneActiveNode /\ DependencyOrder /\ TerminalShape

LEMMA DependencyType == Dependencies \in [Nodes -> SUBSET Nodes]
BY ReducerAssumption

LEMMA ShapeSame ==
  ASSUME ShapeInv, UNCHANGED <<nodeState, activeNode, cancellationEpoch>>,
         \/ state' = state
         \/ Accepting /\ state' \notin TerminalCampaignStates
  PROVE  ShapeInv'
BY DEF ShapeInv, OneActiveNode, DependencyOrder, TerminalShape, Accepting

\* An unfinished node moves to another unfinished state.
LEMMA ShapeMove ==
  ASSUME TypeOK, ShapeInv, NEW n \in Nodes, NEW s \in InProgressStates,
         Accepting, nodeState[n] \in InProgressStates,
         nodeState' = [nodeState EXCEPT ![n] = s], UNCHANGED campaignVars
  PROVE  ShapeInv'
<1> USE DEF TypeOK, InProgressStates
<1>1. OneActiveNode' BY DEF ShapeInv, OneActiveNode, Accepting
<1>2. DependencyOrder'
  BY DEF ShapeInv, DependencyOrder
<1>3. TerminalShape' BY DEF ShapeInv, TerminalShape, Accepting
<1> QED BY <1>1, <1>2, <1>3 DEF ShapeInv

LEMMA ShapeFail ==
  ASSUME TypeOK, ShapeInv, NEW n \in Nodes, Accepting,
         nodeState[n] \notin TerminalNodeStates, FailExactNode(n)
  PROVE  ShapeInv'
<1> USE DEF TypeOK, InProgressStates, FailExactNode
<1>1. OneActiveNode' BY DEF OneActiveNode, Accepting
<1>2. DependencyOrder' BY DEF ShapeInv, DependencyOrder
<1>3. TerminalShape' BY DEF ShapeInv, TerminalShape, Accepting
<1> QED BY <1>1, <1>2, <1>3 DEF ShapeInv

LEMMA ShapeCampaign ==
  ASSUME TypeOK, ShapeInv, CampaignEvent
  PROVE  ShapeInv'
<1>1. CASE Approve BY <1>1, ShapeSame DEF Approve, Accepting
<1>2. CASE Start BY <1>2, ShapeSame DEF Start, Accepting
<1>3. CASE Wait BY <1>3, ShapeSame DEF Wait, Running, Accepting
<1>4. CASE Resume BY <1>4, ShapeSame DEF Resume, Accepting
<1>5. CASE AdvanceAuthority BY <1>5, ShapeSame DEF AdvanceAuthority
<1>6. CASE Cancel
  <2> USE DEF TypeOK, InProgressStates
  <2>1. OneActiveNode' BY <1>6 DEF OneActiveNode, Cancel, Accepting
  <2>2. DependencyOrder' BY <1>6, DependencyType DEF ShapeInv, DependencyOrder, Cancel
  <2>3. TerminalShape'
    BY <1>6 DEF ShapeInv, TerminalShape, Cancel, Accepting
  <2> QED BY <2>1, <2>2, <2>3 DEF ShapeInv
<1>7. ASSUME NEW t \in BudgetTokens, ConsumeBudget(t) PROVE ShapeInv'
  BY <1>7, ShapeSame DEF ConsumeBudget
<1> QED BY <1>1, <1>2, <1>3, <1>4, <1>5, <1>6, <1>7 DEF CampaignEvent

LEMMA ShapeFenced ==
  ASSUME TypeOK, ShapeInv, NEW n \in Nodes, NEW a \in Actors \cup {None},
         NEW f \in 0..MaxFence, FencedEvent(n, a, f)
  PROVE  ShapeInv'
<1> USE ShapeMove DEF Move, InProgressStates
<1>1. CASE ReleaseLease(n, a, f) BY <1>1, ShapeSame DEF ReleaseLease
<1>2. CASE StartImplementation(n, a, f) BY <1>2 DEF StartImplementation
<1>3. CASE ImplementationCompleted(n, a, f) BY <1>3 DEF ImplementationCompleted
<1>4. CASE RequestValidationCorrection(n, a, f)
  BY <1>4 DEF RequestValidationCorrection
<1>5. ASSUME NEW h \in Heads, ValidationPassed(n, a, f, h) PROVE ShapeInv'
  BY <1>5 DEF ValidationPassed
<1>6. CASE ValidationFailed(n, a, f) BY <1>6, ShapeFail DEF ValidationFailed
<1>7. CASE StartRepair(n, a, f) BY <1>7 DEF StartRepair
<1>8. CASE RepairCompleted(n, a, f) BY <1>8 DEF RepairCompleted
<1>9. ASSUME NEW h \in Heads, RevalidationPassed(n, a, f, h) PROVE ShapeInv'
  BY <1>9 DEF RevalidationPassed
<1> QED BY <1>1, <1>2, <1>3, <1>4, <1>5, <1>6, <1>7, <1>8, <1>9 DEF FencedEvent

LEMMA ShapeNode ==
  ASSUME TypeOK, ShapeInv, NEW n \in Nodes, NodeEvent(n)
  PROVE  ShapeInv'
<1> USE DEF Move, InProgressStates
<1>1. CASE AdmitNode(n)
  <2> USE DEF TypeOK, AdmitNode, Running, Accepting, NoOtherActive, DependenciesDone
  <2>1. OneActiveNode'
    BY <1>1, ReducerAssumption DEF ShapeInv, OneActiveNode
  <2>2. DependencyOrder' BY <1>1, ReducerAssumption DEF ShapeInv, DependencyOrder
  <2>3. TerminalShape' BY <1>1 DEF ShapeInv, TerminalShape
  <2> QED BY <2>1, <2>2, <2>3 DEF ShapeInv
<1>2. ASSUME NEW a \in Actors, NEW f \in 1..MaxFence, AcquireLease(n, a, f)
      PROVE ShapeInv'
  BY <1>2, ShapeSame DEF AcquireLease
<1>3. ASSUME NEW a \in Actors \cup {None}, NEW f \in 0..MaxFence,
             FencedEvent(n, a, f)
      PROVE ShapeInv'
  BY <1>3, ShapeFenced
<1>4. CASE StartReview(n) BY <1>4, ShapeMove DEF StartReview
<1>5. ASSUME NEW B \in SUBSET FindingIds, FreezeFindings(n, B) PROVE ShapeInv'
  BY <1>5, ShapeMove DEF FreezeFindings
<1>6. CASE MarkReadyToPublish(n) BY <1>6, ShapeMove DEF MarkReadyToPublish
<1>7. ASSUME NEW ids \in SUBSET FindingIds, AuthorizeRepair(n, ids) PROVE ShapeInv'
  BY <1>7, ShapeMove DEF AuthorizeRepair
<1>8. ASSUME NEW R \in SUBSET FindingIds, NEW N \in SUBSET FindingIds,
             NEW B \in SUBSET FindingIds, CompleteClosure(n, R, N, B)
      PROVE ShapeInv'
  <2>1. CASE ClosureFails(n, R, B)
    <3>1. FailExactNode(n) BY <1>8, <2>1 DEF CompleteClosure
    <3>2. Accepting /\ nodeState[n] = "CLOSURE" BY <1>8 DEF CompleteClosure
    <3> QED BY <3>1, <3>2, ShapeFail
  <2>2. CASE ~ClosureFails(n, R, B)
    BY <1>8, <2>2, ShapeMove DEF CompleteClosure
  <2> QED BY <2>1, <2>2
<1>9. CASE AuthorizePublication(n) BY <1>9, ShapeSame DEF AuthorizePublication
<1>10. ASSUME NEW k \in PublishKinds, NEW op \in Ops, NEW h \in Heads,
              StartPublish(n, k, op, h)
       PROVE ShapeInv'
  BY <1>10, ShapeMove DEF StartPublish
<1>11. ASSUME NEW op \in Ops, NEW h \in Heads, PublishConfirmed(n, op, h)
       PROVE ShapeInv'
  <2> DEFINE done == Append(completedEffects[n], pendingEffect[n]) = Required
  <2>0. /\ Accepting /\ nodeState[n] = "PUBLISHING"
        /\ nodeState' = [nodeState EXCEPT ![n] = IF done THEN "DONE" ELSE "READY_TO_PUBLISH"]
        /\ state' = IF done /\ AllOthersDone(n) THEN "COMPLETED" ELSE state
        /\ activeNode' = IF done THEN None ELSE activeNode
        /\ UNCHANGED <<authorityEpoch, cancellationEpoch>>
    BY <1>11 DEF PublishConfirmed
  <2> HIDE DEF done
  <2>1. CASE ~done
    BY <2>0, <2>1, ShapeMove
  <2>2. CASE done
    <3> USE DEF TypeOK, Accepting
    <3>0. activeNode' = None /\ None \notin Nodes /\ activeNode = n
      BY <2>0, <2>2, ReducerAssumption DEF ShapeInv, OneActiveNode
    <3>1. OneActiveNode'
      BY <2>0, <2>2, <3>0 DEF ShapeInv, OneActiveNode
    <3>2. DependencyOrder' BY <2>0, <2>2, DependencyType DEF ShapeInv, DependencyOrder
    <3>3. TerminalShape'
      BY <2>0, <2>2 DEF ShapeInv, TerminalShape, AllOthersDone
    <3> QED BY <3>1, <3>2, <3>3 DEF ShapeInv
  <2> QED BY <2>1, <2>2
<1>12. CASE PublishFailed(n) BY <1>12, ShapeFail DEF PublishFailed
<1>13. CASE FailNode(n) BY <1>13, ShapeFail DEF FailNode
<1> QED
  BY <1>1, <1>2, <1>3, <1>4, <1>5, <1>6, <1>7, <1>8, <1>9, <1>10, <1>11,
     <1>12, <1>13 DEF NodeEvent

LEMMA ShapeAlways == Spec => []ShapeInv
<1>1. Init => ShapeInv
  BY ReducerAssumption DEF Init, ShapeInv, OneActiveNode, DependencyOrder,
    TerminalShape, InProgressStates, Accepting
<1>2. TypeOK /\ ShapeInv /\ [Next]_vars => ShapeInv'
  <2> SUFFICES ASSUME TypeOK, ShapeInv, [Next]_vars PROVE ShapeInv'
    OBVIOUS
  <2>1. CASE CampaignEvent BY <2>1, ShapeCampaign
  <2>2. ASSUME NEW n \in Nodes, NodeEvent(n) PROVE ShapeInv'
    BY <2>2, ShapeNode
  <2>3. CASE UNCHANGED vars BY <2>3, ShapeSame DEF vars
  <2> QED BY <2>1, <2>2, <2>3 DEF Next
<1> QED BY <1>1, <1>2, TypeCorrect, PTL DEF Spec

\* A live campaign works on at most one node, the one active_node_id names.
THEOREM OneActiveNodeAlways == Spec => []OneActiveNode
BY ShapeAlways, PTL DEF ShapeInv

\* Work and delivery only ever happen on top of delivered dependencies, for
\* every dependency relation, acyclic or not.
THEOREM DependencyOrderAlways == Spec => []DependencyOrder
BY ShapeAlways, PTL DEF ShapeInv

\* A terminal campaign state says what happened to every node.
THEOREM TerminalShapeAlways == Spec => []TerminalShape
BY ShapeAlways, PTL DEF ShapeInv

-----------------------------------------------------------------------------
(* Budgets, fences and human receipts.                                     *)

\* Every step either leaves the budget alone or pays exactly one token.
LEMMA BudgetStep ==
  ASSUME Next
  PROVE  UNCHANGED budgetVars \/ \E t \in BudgetTokens : Consume(t)
<1> USE TokenFacts DEF ConsumeAutomated
<1>1. CASE CampaignEvent
  BY <1>1 DEF CampaignEvent, Approve, Start, Wait, Resume, AdvanceAuthority,
    Cancel, ConsumeBudget
<1>2. ASSUME NEW n \in Nodes, NEW a \in Actors \cup {None}, NEW f \in 0..MaxFence,
             FencedEvent(n, a, f)
      PROVE  UNCHANGED budgetVars \/ \E t \in BudgetTokens : Consume(t)
  <2>1. CASE StartImplementation(n, a, f) BY <2>1 DEF StartImplementation
  <2>2. CASE StartRepair(n, a, f) BY <2>2 DEF StartRepair
  <2>3. ASSUME NEW h \in Heads, RevalidationPassed(n, a, f, h)
        PROVE  UNCHANGED budgetVars \/ \E t \in BudgetTokens : Consume(t)
    BY <2>3 DEF RevalidationPassed
  <2> QED
    BY <1>2, <2>1, <2>2, <2>3 DEF FencedEvent, ReleaseLease,
      ImplementationCompleted, RequestValidationCorrection, ValidationPassed,
      ValidationFailed, RepairCompleted
<1>3. ASSUME NEW n \in Nodes, NodeEvent(n)
      PROVE  UNCHANGED budgetVars \/ \E t \in BudgetTokens : Consume(t)
  BY <1>2, <1>3 DEF NodeEvent, AdmitNode, AcquireLease, StartReview,
    FreezeFindings, MarkReadyToPublish, AuthorizeRepair, CompleteClosure,
    AuthorizePublication, StartPublish, PublishConfirmed, PublishFailed, FailNode
<1> QED BY <1>1, <1>3 DEF Next

\* The durable rank is spent once per receipt and no token beyond its limit.
THEOREM BudgetConservationAlways == Spec => []BudgetConservation
<1>1. Init => BudgetConservation
  BY ReducerAssumption DEF Init, BudgetConservation
<1>2. TypeOK /\ BudgetConservation /\ [Next]_vars => BudgetConservation'
  <2> SUFFICES ASSUME TypeOK, BudgetConservation, [Next]_vars
               PROVE  BudgetConservation'
    OBVIOUS
  <2>1. CASE UNCHANGED budgetVars BY <2>1 DEF BudgetConservation
  <2>2. ASSUME NEW t \in BudgetTokens, Consume(t) PROVE BudgetConservation'
    <3>1. /\ Rank \in Nat /\ BudgetLimit \in [BudgetTokens -> Nat]
          /\ consumed \in [BudgetTokens -> Nat] /\ receipts \in Nat /\ rank \in Nat
      BY ReducerAssumption DEF TypeOK
    <3>2. receipts' + rank' = Rank
      BY <2>2, <3>1 DEF BudgetConservation, Consume
    <3>3. ASSUME NEW u \in BudgetTokens PROVE consumed'[u] <= BudgetLimit[u]
      BY <2>2, <3>1, <3>3 DEF BudgetConservation, Consume, Remaining
    <3> QED BY <3>2, <3>3 DEF BudgetConservation
  <2>3. CASE UNCHANGED vars BY <2>1, <2>3 DEF vars
  <2> QED BY <2>1, <2>2, <2>3, BudgetStep
<1> QED BY <1>1, <1>2, TypeCorrect, PTL DEF Spec

\* What FencingMonotonic says of one step.
FenceStep ==
  \A n \in Nodes :
    /\ fencingEpoch'[n] >= fencingEpoch[n]
    /\ leaseActor'[n] \notin {leaseActor[n], None} => fencingEpoch'[n] > fencingEpoch[n]

LEMMA FenceSame == ASSUME TypeOK, UNCHANGED leaseVars PROVE FenceStep
BY DEF TypeOK, FenceStep

LEMMA FenceFail ==
  ASSUME TypeOK, NEW n \in Nodes, FailExactNode(n) PROVE FenceStep
BY DEF TypeOK, FenceStep, FailExactNode

LEMMA FenceNext == ASSUME TypeOK, Next PROVE FenceStep
<1> USE DEF Move
<1>1. CASE CampaignEvent
  <2>1. CASE AdvanceAuthority BY <2>1 DEF AdvanceAuthority, TypeOK, FenceStep
  <2>2. CASE Cancel BY <2>2 DEF Cancel, TypeOK, FenceStep
  <2> QED
    BY <1>1, <2>1, <2>2, FenceSame DEF CampaignEvent, Approve, Start, Wait,
      Resume, ConsumeBudget
<1>2. ASSUME NEW n \in Nodes, NEW a \in Actors \cup {None}, NEW f \in 0..MaxFence,
             FencedEvent(n, a, f)
      PROVE  FenceStep
  <2>1. CASE ReleaseLease(n, a, f) BY <2>1 DEF ReleaseLease, TypeOK, FenceStep
  <2>2. CASE ValidationFailed(n, a, f) BY <2>2, FenceFail DEF ValidationFailed
  <2> QED
    BY <1>2, <2>1, <2>2, FenceSame DEF FencedEvent, StartImplementation,
      ImplementationCompleted, RequestValidationCorrection, ValidationPassed,
      StartRepair, RepairCompleted, RevalidationPassed
<1>3. ASSUME NEW n \in Nodes, NodeEvent(n) PROVE FenceStep
  <2>1. ASSUME NEW a \in Actors, NEW f \in 1..MaxFence, AcquireLease(n, a, f)
        PROVE FenceStep
    BY <2>1, ReducerAssumption DEF AcquireLease, FenceAdvances, TypeOK, FenceStep
  <2>2. ASSUME NEW R \in SUBSET FindingIds, NEW N \in SUBSET FindingIds,
               NEW B \in SUBSET FindingIds, CompleteClosure(n, R, N, B)
        PROVE FenceStep
    <3>1. FailExactNode(n) \/ UNCHANGED leaseVars
      BY <2>2 DEF CompleteClosure
    <3> QED BY <3>1, FenceFail, FenceSame
  <2>3. CASE PublishFailed(n) \/ FailNode(n)
    BY <2>3, FenceFail DEF PublishFailed, FailNode
  <2> QED
    BY <1>2, <1>3, <2>1, <2>2, <2>3, FenceSame DEF NodeEvent, AdmitNode,
      StartReview, FreezeFindings, MarkReadyToPublish, AuthorizeRepair,
      AuthorizePublication, StartPublish, PublishConfirmed
<1> QED BY <1>1, <1>3 DEF Next

\* A node changes hands only under a fence no earlier owner had.
THEOREM FencingMonotonicAlways == Spec => FencingMonotonic
<1>1. TypeOK /\ [Next]_vars => [FenceStep]_vars
  BY FenceNext
<1> QED BY <1>1, TypeCorrect, PTL DEF Spec, FencingMonotonic, FenceStep

\* Unless publication is automated no effect exists without the consumed
\* human receipt of its node.
THEOREM PublicationAuthorizedAlways == Spec => []PublicationAuthorized
<1>1. Init => PublicationAuthorized
  BY DEF Init, PublicationAuthorized
<1>2. TypeOK /\ PublicationAuthorized /\ [Next]_vars => PublicationAuthorized'
  <2> SUFFICES ASSUME TypeOK, PublicationAuthorized, [Next]_vars
               PROVE  PublicationAuthorized'
    OBVIOUS
  <2>1. CASE UNCHANGED <<intents, publicationReceipt>>
    BY <2>1 DEF PublicationAuthorized
  <2>2. CASE CampaignEvent
    BY <2>1, <2>2 DEF CampaignEvent, Approve, Start, Wait, Resume,
      AdvanceAuthority, Cancel, ConsumeBudget
  <2>3. ASSUME NEW n \in Nodes, NEW a \in Actors \cup {None}, NEW f \in 0..MaxFence,
               FencedEvent(n, a, f)
        PROVE  UNCHANGED <<intents, publicationReceipt>>
    BY <2>3 DEF FencedEvent, ReleaseLease, StartImplementation,
      ImplementationCompleted, RequestValidationCorrection, ValidationPassed,
      ValidationFailed, StartRepair, RepairCompleted, RevalidationPassed
  <2>4. ASSUME NEW n \in Nodes, NodeEvent(n) PROVE PublicationAuthorized'
    <3>1. CASE AuthorizePublication(n)
      BY <3>1 DEF AuthorizePublication, PublicationAuthorized, TypeOK, Intent
    <3>2. ASSUME NEW k \in PublishKinds, NEW op \in Ops, NEW h \in Heads,
                 StartPublish(n, k, op, h)
          PROVE  PublicationAuthorized'
      BY <3>2 DEF StartPublish, MayPublish, PublicationAuthorized
    <3> QED
      BY <2>1, <2>3, <2>4, <3>1, <3>2 DEF NodeEvent, AdmitNode, AcquireLease,
        StartReview, FreezeFindings, MarkReadyToPublish, AuthorizeRepair,
        CompleteClosure, PublishConfirmed, PublishFailed, FailNode
  <2>5. CASE UNCHANGED vars BY <2>1, <2>5 DEF vars
  <2> QED BY <2>2, <2>4, <2>5 DEF Next
<1> QED BY <1>1, <1>2, TypeCorrect, PTL DEF Spec

-----------------------------------------------------------------------------
(* The publication sequence: a node asks for each effect once, in order,   *)
(* under an identity of its own.                                           *)

StoppedStates == {"FAILED_EXACT_NODE", "CANCELLED"}

\* Confirmed effects are a prefix of the sequence; what is pending is the
\* next one, and only a publishing node, or one stopped meanwhile, has it.
PrefixInv(n) ==
  LET c == Len(completedEffects[n])
  IN /\ c <= Len(Required)
     /\ \A p \in 1..c : completedEffects[n][p] = Required[p]
     /\ pendingEffect[n] = None <=> pendingOp[n] = None
     /\ pendingEffect[n] # None =>
          /\ c < Len(Required)
          /\ pendingEffect[n] = Required[c + 1]
          /\ nodeState[n] \in StoppedStates \cup {"PUBLISHING"}
     /\ nodeState[n] = "PUBLISHING" => pendingEffect[n] # None
     /\ nodeState[n] = "DONE" <=> c = Len(Required)

\* Every intent is the pending one or one of those confirmed.
IntentInv(n) ==
  \A i \in intents : i.node = n =>
    \/ /\ pendingEffect[n] # None
       /\ i.kind = pendingEffect[n]
       /\ i.op = pendingOp[n]
    \/ /\ i.op \in operationIds[n]
       /\ \E p \in 1..Len(completedEffects[n]) : i.kind = Required[p]

\* Every confirmed effect, and the pending one, has an intent.
CoverInv(n) ==
  /\ \A p \in 1..Len(completedEffects[n]) :
       \E i \in intents : i.node = n /\ i.kind = Required[p]
  /\ pendingEffect[n] # None =>
       \E i \in intents : i.node = n /\ i.kind = pendingEffect[n]

PublicationInv ==
  /\ \A n \in Nodes : PrefixInv(n) /\ IntentInv(n) /\ CoverInv(n)
  /\ EffectOnce

effectVars == <<completedEffects, operationIds, pendingEffect, pendingOp, intents>>

\* Steps that leave the publication fields alone: they never take a node out
\* of DONE, nor into or out of PUBLISHING other than by stopping it.
LEMMA PublicationMove ==
  ASSUME TypeOK, PublicationInv, UNCHANGED effectVars,
         nodeState' \in [Nodes -> NodeStates],
         \A m \in Nodes :
           \/ nodeState'[m] = nodeState[m]
           \/ nodeState[m] # "DONE" /\ nodeState'[m] \in StoppedStates
           \/ /\ nodeState[m] \notin StoppedStates \cup {"PUBLISHING", "DONE"}
              /\ nodeState'[m] \notin {"PUBLISHING", "DONE"}
  PROVE  PublicationInv'
<1> USE DEF effectVars, StoppedStates, PublicationInv
<1>1. ASSUME NEW m \in Nodes PROVE PrefixInv(m)'
  BY <1>1 DEF PrefixInv
<1>2. ASSUME NEW m \in Nodes PROVE IntentInv(m)' /\ CoverInv(m)'
  BY <1>2 DEF IntentInv, CoverInv
<1>3. EffectOnce' BY DEF EffectOnce
<1> QED BY <1>1, <1>2, <1>3

LEMMA PublicationFail ==
  ASSUME TypeOK, PublicationInv, UNCHANGED effectVars, NEW n \in Nodes,
         nodeState[n] # "DONE", FailExactNode(n)
  PROVE  PublicationInv'
BY PublicationMove, FailType DEF TypeOK, FailExactNode, StoppedStates

LEMMA PublicationCampaign ==
  ASSUME TypeOK, PublicationInv, CampaignEvent
  PROVE  PublicationInv'
<1> USE PublicationMove DEF effectVars, TypeOK
<1>1. CASE Approve BY <1>1 DEF Approve
<1>2. CASE Start BY <1>2 DEF Start
<1>3. CASE Wait BY <1>3 DEF Wait
<1>4. CASE Resume BY <1>4 DEF Resume
<1>5. CASE AdvanceAuthority BY <1>5 DEF AdvanceAuthority
<1>6. CASE Cancel BY <1>6 DEF Cancel, StoppedStates
<1>7. ASSUME NEW t \in BudgetTokens, ConsumeBudget(t) PROVE PublicationInv'
  BY <1>7 DEF ConsumeBudget
<1> QED BY <1>1, <1>2, <1>3, <1>4, <1>5, <1>6, <1>7 DEF CampaignEvent

LEMMA PublicationFenced ==
  ASSUME TypeOK, PublicationInv, NEW n \in Nodes, NEW a \in Actors \cup {None},
         NEW f \in 0..MaxFence, FencedEvent(n, a, f)
  PROVE  PublicationInv'
<1> USE PublicationMove DEF effectVars, TypeOK, Move, StoppedStates
<1>1. CASE ReleaseLease(n, a, f) BY <1>1 DEF ReleaseLease
<1>2. CASE StartImplementation(n, a, f) BY <1>2 DEF StartImplementation
<1>3. CASE ImplementationCompleted(n, a, f) BY <1>3 DEF ImplementationCompleted
<1>4. CASE RequestValidationCorrection(n, a, f)
  BY <1>4 DEF RequestValidationCorrection
<1>5. ASSUME NEW h \in Heads, ValidationPassed(n, a, f, h) PROVE PublicationInv'
  BY <1>5 DEF ValidationPassed
<1>6. CASE ValidationFailed(n, a, f)
  BY <1>6, PublicationFail DEF ValidationFailed
<1>7. CASE StartRepair(n, a, f) BY <1>7 DEF StartRepair
<1>8. CASE RepairCompleted(n, a, f) BY <1>8 DEF RepairCompleted
<1>9. ASSUME NEW h \in Heads, RevalidationPassed(n, a, f, h) PROVE PublicationInv'
  BY <1>9 DEF RevalidationPassed
<1> QED BY <1>1, <1>2, <1>3, <1>4, <1>5, <1>6, <1>7, <1>8, <1>9 DEF FencedEvent

\* A new intent: nothing is pending, so all the node's intents are confirmed
\* ones, of earlier effects and of identities already used.
LEMMA PublicationStart ==
  ASSUME TypeOK, PublicationInv, NEW n \in Nodes, NEW k \in PublishKinds,
         NEW op \in Ops, NEW h \in Heads, StartPublish(n, k, op, h)
  PROVE  PublicationInv'
<1> DEFINE new == [node |-> n, op |-> op, kind |-> k, head |-> h,
                   authority |-> authorityEpoch,
                   cancellation |-> cancellationEpoch]
           c == Len(completedEffects[n])
<1>1. /\ nodeState[n] = "READY_TO_PUBLISH"
      /\ nodeState' = [nodeState EXCEPT ![n] = "PUBLISHING"]
      /\ pendingOp[n] = None
      /\ c < Len(Required) /\ k = Required[c + 1]
      /\ op \notin operationIds[n]
      /\ pendingEffect' = [pendingEffect EXCEPT ![n] = k]
      /\ pendingOp' = [pendingOp EXCEPT ![n] = op]
      /\ intents' = intents \cup {new}
      /\ UNCHANGED <<completedEffects, operationIds>>
  BY DEF StartPublish, Move, NextEffect, FreshOperation
<1>2. new.node = n /\ new.op = op /\ new.kind = k
  OBVIOUS
<1> HIDE DEF new
<1>3. c \in Nat /\ None \notin PublishKinds /\ None \notin Ops
  BY ReducerAssumption DEF TypeOK, EffectKinds
<1>4. pendingEffect[n] = None
  BY <1>1 DEF PublicationInv, PrefixInv
<1>5. ASSUME NEW i \in intents, i.node = n
      PROVE  i.kind # k /\ i.op # op
  <2>1. PICK p \in 1..c : i.kind = Required[p] /\ i.op \in operationIds[n]
    BY <1>4, <1>5 DEF PublicationInv, IntentInv
  <2>2. Required[p] # Required[c + 1]
    BY <1>1, <1>3, RequiredFacts
  <2> QED BY <1>1, <2>1, <2>2
<1>6. ASSUME NEW m \in Nodes PROVE PrefixInv(m)'
  <2>1. CASE m = n
    BY <1>1, <1>3, <1>4, <2>1 DEF PublicationInv, PrefixInv, TypeOK, StoppedStates
  <2>2. CASE m # n
    BY <1>1, <2>2 DEF PublicationInv, PrefixInv, TypeOK, StoppedStates
  <2> QED BY <2>1, <2>2
<1>7. ASSUME NEW m \in Nodes PROVE IntentInv(m)'
  <2>1. CASE m = n
    <3>1. pendingEffect'[n] = k /\ pendingOp'[n] = op /\ k # None
      BY <1>1, <1>3 DEF TypeOK
    <3>2. ASSUME NEW i \in intents, i.node = n
          PROVE  /\ i.op \in operationIds[n]
                 /\ \E p \in 1..c : i.kind = Required[p]
      BY <1>4, <3>2 DEF PublicationInv, IntentInv
    <3> QED BY <1>1, <1>2, <2>1, <3>1, <3>2 DEF IntentInv
  <2>2. CASE m # n
    BY <1>1, <1>2, <2>2 DEF PublicationInv, IntentInv, TypeOK
  <2> QED BY <2>1, <2>2
<1>8. ASSUME NEW m \in Nodes PROVE CoverInv(m)'
  <2>1. CASE m = n
    <3>1. pendingEffect'[n] = k /\ new \in intents' /\ intents \subseteq intents'
      BY <1>1 DEF TypeOK
    <3>2. \A p \in 1..c : \E i \in intents' : i.node = n /\ i.kind = Required[p]
      BY <3>1 DEF PublicationInv, CoverInv
    <3>3. \E i \in intents' : i.node = n /\ i.kind = k
      BY <1>2, <3>1
    <3> QED BY <1>1, <2>1, <3>1, <3>2, <3>3 DEF CoverInv
  <2>2. CASE m # n
    BY <1>1, <2>2 DEF PublicationInv, CoverInv, TypeOK
  <2> QED BY <2>1, <2>2
<1>9. EffectOnce'
  BY <1>1, <1>2, <1>5 DEF PublicationInv, EffectOnce
<1> QED BY <1>6, <1>7, <1>8, <1>9 DEF PublicationInv

LEMMA PublicationConfirmed ==
  ASSUME TypeOK, PublicationInv, NEW n \in Nodes, NEW op \in Ops,
         NEW h \in Heads, PublishConfirmed(n, op, h)
  PROVE  PublicationInv'
<1> DEFINE c == Len(completedEffects[n])
           completed == Append(completedEffects[n], pendingEffect[n])
<1>1. /\ nodeState[n] = "PUBLISHING"
      /\ nodeState' = [nodeState EXCEPT ![n] =
           IF completed = Required THEN "DONE" ELSE "READY_TO_PUBLISH"]
      /\ op = pendingOp[n]
      /\ pendingEffect[n] # None
      /\ completedEffects' = [completedEffects EXCEPT ![n] = completed]
      /\ operationIds' = [operationIds EXCEPT ![n] = @ \cup {op}]
      /\ pendingEffect' = [pendingEffect EXCEPT ![n] = None]
      /\ pendingOp' = [pendingOp EXCEPT ![n] = None]
      /\ intents' = intents
  BY DEF PublishConfirmed, Move
<1>2. /\ c \in Nat /\ c < Len(Required) /\ pendingEffect[n] = Required[c + 1]
      /\ \A p \in 1..c : completedEffects[n][p] = Required[p]
      /\ pendingEffect[n] \in PublishKinds
      /\ completedEffects[n] \in Seq(PublishKinds)
  BY <1>1 DEF PublicationInv, PrefixInv, TypeOK
<1>3. /\ completed \in Seq(PublishKinds) /\ Len(completed) = c + 1
      /\ \A p \in 1..c + 1 : completed[p] = Required[p]
  BY <1>2, RequiredFacts
<1>4. completed = Required <=> c + 1 = Len(Required)
  <2>1. ASSUME c + 1 = Len(Required) PROVE completed = Required
    BY <1>3, <2>1, RequiredFacts
  <2> QED BY <1>3, <2>1
<1> HIDE DEF completed
<1>5. ASSUME NEW m \in Nodes PROVE PrefixInv(m)'
  <2>1. CASE m = n
    <3>1. completedEffects'[n] = completed /\ nodeState'[n] \in {"DONE", "READY_TO_PUBLISH"}
          /\ (nodeState'[n] = "DONE" <=> c + 1 = Len(Required))
          /\ pendingEffect'[n] = None /\ pendingOp'[n] = None
      BY <1>1, <1>4 DEF TypeOK
    <3> QED BY <1>2, <1>3, <2>1, <3>1, RequiredFacts DEF PrefixInv
  <2>2. CASE m # n
    BY <1>1, <2>2 DEF PublicationInv, PrefixInv, TypeOK
  <2> QED BY <2>1, <2>2
<1>6. ASSUME NEW m \in Nodes PROVE IntentInv(m)'
  <2>1. CASE m = n
    <3>1. ASSUME NEW i \in intents, i.node = n
          PROVE  i.op \in operationIds'[n] /\ \E p \in 1..c + 1 : i.kind = Required[p]
      <4>1. operationIds'[n] = operationIds[n] \cup {op} BY <1>1 DEF TypeOK
      <4>2. CASE i.kind = pendingEffect[n] /\ i.op = pendingOp[n]
        BY <1>1, <1>2, <4>1, <4>2
      <4>3. CASE i.op \in operationIds[n] /\ \E p \in 1..c : i.kind = Required[p]
        BY <1>2, <4>1, <4>3
      <4> QED BY <3>1, <4>2, <4>3 DEF PublicationInv, IntentInv
    <3>2. Len(completedEffects'[n]) = c + 1 BY <1>1, <1>3 DEF TypeOK
    <3> QED BY <1>1, <2>1, <3>1, <3>2 DEF IntentInv
  <2>2. CASE m # n
    BY <1>1, <2>2 DEF PublicationInv, IntentInv, TypeOK
  <2> QED BY <2>1, <2>2
<1>7. ASSUME NEW m \in Nodes PROVE CoverInv(m)'
  <2>1. CASE m = n
    <3>1. Len(completedEffects'[n]) = c + 1 /\ pendingEffect'[n] = None
      BY <1>1, <1>3 DEF TypeOK
    <3>2. ASSUME NEW p \in 1..c + 1
          PROVE  \E i \in intents : i.node = n /\ i.kind = Required[p]
      <4>1. CASE p \in 1..c BY <4>1 DEF PublicationInv, CoverInv
      <4>2. CASE p = c + 1 BY <1>1, <1>2, <4>2 DEF PublicationInv, CoverInv
      <4> QED BY <1>2, <4>1, <4>2
    <3> QED BY <1>1, <2>1, <3>1, <3>2 DEF CoverInv
  <2>2. CASE m # n
    BY <1>1, <2>2 DEF PublicationInv, CoverInv, TypeOK
  <2> QED BY <2>1, <2>2
<1>8. EffectOnce' BY <1>1 DEF PublicationInv, EffectOnce
<1> QED BY <1>5, <1>6, <1>7, <1>8 DEF PublicationInv

LEMMA PublicationNode ==
  ASSUME TypeOK, PublicationInv, NEW n \in Nodes, NodeEvent(n)
  PROVE  PublicationInv'
<1> USE DEF effectVars, TypeOK, Move, StoppedStates
<1>1. CASE AdmitNode(n) BY <1>1, PublicationMove DEF AdmitNode
<1>2. ASSUME NEW a \in Actors, NEW f \in 1..MaxFence, AcquireLease(n, a, f)
      PROVE PublicationInv'
  BY <1>2, PublicationMove DEF AcquireLease
<1>3. ASSUME NEW a \in Actors \cup {None}, NEW f \in 0..MaxFence,
             FencedEvent(n, a, f)
      PROVE PublicationInv'
  BY <1>3, PublicationFenced
<1>4. CASE StartReview(n) BY <1>4, PublicationMove DEF StartReview
<1>5. ASSUME NEW B \in SUBSET FindingIds, FreezeFindings(n, B) PROVE PublicationInv'
  BY <1>5, PublicationMove DEF FreezeFindings
<1>6. CASE MarkReadyToPublish(n) BY <1>6, PublicationMove DEF MarkReadyToPublish
<1>7. ASSUME NEW ids \in SUBSET FindingIds, AuthorizeRepair(n, ids)
      PROVE PublicationInv'
  BY <1>7, PublicationMove DEF AuthorizeRepair
<1>8. ASSUME NEW R \in SUBSET FindingIds, NEW N \in SUBSET FindingIds,
             NEW B \in SUBSET FindingIds, CompleteClosure(n, R, N, B)
      PROVE PublicationInv'
  <2>1. CASE ClosureFails(n, R, B)
    <3>1. FailExactNode(n) BY <1>8, <2>1 DEF CompleteClosure
    <3>2. nodeState[n] = "CLOSURE" /\ UNCHANGED effectVars
      BY <1>8 DEF CompleteClosure
    <3> QED BY <3>1, <3>2, PublicationFail
  <2>2. CASE ~ClosureFails(n, R, B)
    BY <1>8, <2>2, PublicationMove DEF CompleteClosure
  <2> QED BY <2>1, <2>2
<1>9. CASE AuthorizePublication(n)
  BY <1>9, PublicationMove DEF AuthorizePublication
<1>10. ASSUME NEW k \in PublishKinds, NEW op \in Ops, NEW h \in Heads,
              StartPublish(n, k, op, h)
       PROVE PublicationInv'
  BY <1>10, PublicationStart
<1>11. ASSUME NEW op \in Ops, NEW h \in Heads, PublishConfirmed(n, op, h)
       PROVE PublicationInv'
  BY <1>11, PublicationConfirmed
<1>12. CASE PublishFailed(n) BY <1>12, PublicationFail DEF PublishFailed
<1>13. CASE FailNode(n) BY <1>13, PublicationFail DEF FailNode
<1> QED
  BY <1>1, <1>2, <1>3, <1>4, <1>5, <1>6, <1>7, <1>8, <1>9, <1>10, <1>11,
     <1>12, <1>13 DEF NodeEvent

LEMMA PublicationAlways == Spec => []PublicationInv
<1>1. Init => PublicationInv
  BY RequiredFacts DEF Init, PublicationInv, PrefixInv, IntentInv, CoverInv,
    EffectOnce, StoppedStates
<1>2. TypeOK /\ PublicationInv /\ [Next]_vars => PublicationInv'
  <2> SUFFICES ASSUME TypeOK, PublicationInv, [Next]_vars PROVE PublicationInv'
    OBVIOUS
  <2>1. CASE CampaignEvent BY <2>1, PublicationCampaign
  <2>2. ASSUME NEW n \in Nodes, NodeEvent(n) PROVE PublicationInv'
    BY <2>2, PublicationNode
  <2>3. CASE UNCHANGED vars
    BY <2>3, PublicationMove DEF vars, effectVars, TypeOK
  <2> QED BY <2>1, <2>2, <2>3 DEF Next
<1> QED BY <1>1, <1>2, TypeCorrect, PTL DEF Spec

\* A node never asks for one effect twice nor for two effects under one
\* operation identity.
THEOREM EffectOnceAlways == Spec => []EffectOnce
BY PublicationAlways, PTL DEF PublicationInv

\* Effects follow the approved sequence and a node is DONE exactly when all
\* of it is confirmed.
THEOREM PublicationSequenceAlways == Spec => []PublicationSequence
<1>1. TypeOK /\ PublicationInv => PublicationSequence
  <2> SUFFICES ASSUME TypeOK, PublicationInv, NEW n \in Nodes
               PROVE
                 LET c == Len(completedEffects[n])
                     asked == IF pendingEffect[n] = None THEN c ELSE c + 1
                 IN /\ asked <= Len(Required)
                    /\ \A i \in 1..c : completedEffects[n][i] = Required[i]
                    /\ {i.kind : i \in {j \in intents : j.node = n}} =
                         {Required[p] : p \in 1..asked}
                    /\ nodeState[n] = "DONE" <=> c = Len(Required)
    BY DEF PublicationSequence
  <2> DEFINE c == Len(completedEffects[n])
             asked == IF pendingEffect[n] = None THEN c ELSE c + 1
             kinds == {i.kind : i \in {j \in intents : j.node = n}}
  <2>1. c \in Nat /\ PrefixInv(n) /\ IntentInv(n) /\ CoverInv(n)
    BY DEF TypeOK, PublicationInv
  <2>2. asked <= Len(Required)
    BY <2>1, RequiredFacts DEF PrefixInv
  <2>3. ASSUME NEW i \in intents, i.node = n
        PROVE  \E p \in 1..asked : i.kind = Required[p]
    BY <2>1, <2>3 DEF PrefixInv, IntentInv
  <2>4. ASSUME NEW p \in 1..asked
        PROVE  \E i \in intents : i.node = n /\ i.kind = Required[p]
    BY <2>1, <2>4 DEF PrefixInv, CoverInv
  <2>5. kinds = {Required[p] : p \in 1..asked}
    BY <2>3, <2>4
  <2> QED BY <2>1, <2>2, <2>5 DEF PrefixInv
<1> QED BY <1>1, TypeCorrect, PublicationAlways, PTL
-----------------------------------------------------------------------------
(***************************************************************************)
(* What a correction reserves.                                             *)
(***************************************************************************)

\* What CorrectionReservesDelivery says of one step.
ReserveStep ==
  \A n \in Nodes :
    validationCorrections'[n] # validationCorrections[n] /\ Mode = "AUTOMATED"
      => \A p \in Len(completedEffects[n]) + 1 .. Len(Required) :
           Remaining(PublishToken[Required[p]]) > 0

\* correction_budget_requirements asks for a token of each effect still ahead.
LEMMA ReservedAhead ==
  ASSUME TypeOK, DeclaredEffects # <<>>, Mode = "AUTOMATED",
         NEW n \in Nodes, CorrectionAffordable(n),
         NEW p \in Len(completedEffects[n]) + 1 .. Len(Required)
  PROVE  Remaining(PublishToken[Required[p]]) > 0
<1> DEFINE k == Required[p]
           t == PublishToken[k]
<1>1. Required = DeclaredEffects BY DEF Required
<1>2. k \in PublishKinds
  <2>1. p \in 1 .. Len(Required) BY RequiredFacts DEF TypeOK
  <2> QED BY <2>1, RequiredFacts
<1>3. k \in DeliveryAhead(n) BY <1>1 DEF DeliveryAhead
<1>4. t \in BudgetTokens BY <1>2, TokenFacts
<1>5. t \in {"PUSH", "PULL_REQUEST_CREATION", "COMMENT", "MERGE"}
  BY <1>2 DEF PublishToken, PublishKinds
<1>6. CorrectionNeeds(n, t) = 1 BY <1>3, <1>5 DEF CorrectionNeeds
<1>7. Remaining(t) >= CorrectionNeeds(n, t) BY <1>4 DEF CorrectionAffordable
<1>8. Remaining(t) \in Int BY <1>4, ReducerAssumption DEF Remaining, TypeOK
<1> QED BY <1>6, <1>7, <1>8

LEMMA ReserveNext ==
  ASSUME TypeOK, DeclaredEffects # <<>>, Next PROVE ReserveStep
<1> SUFFICES ASSUME Mode = "AUTOMATED", NEW n \in Nodes,
                    validationCorrections'[n] # validationCorrections[n],
                    NEW p \in Len(completedEffects[n]) + 1 .. Len(Required)
             PROVE  Remaining(PublishToken[Required[p]]) > 0
  BY DEF ReserveStep
<1>1. ~CampaignEvent
  BY DEF CampaignEvent, Approve, Start, Wait, Resume, AdvanceAuthority, Cancel,
    ConsumeBudget, counterVars
<1>2. PICK m \in Nodes : NodeEvent(m) BY <1>1 DEF Next
<1>3. PICK a \in Actors \cup {None}, f \in 0..MaxFence : FencedEvent(m, a, f)
  BY <1>2 DEF NodeEvent, AdmitNode, AcquireLease, StartReview, FreezeFindings,
    MarkReadyToPublish, AuthorizeRepair, CompleteClosure, AuthorizePublication,
    StartPublish, PublishConfirmed, PublishFailed, FailNode, counterVars
<1>4. RequestValidationCorrection(m, a, f)
  BY <1>3 DEF FencedEvent, ReleaseLease, StartImplementation, ImplementationCompleted,
    ValidationPassed, ValidationFailed, StartRepair, RepairCompleted,
    RevalidationPassed, counterVars
<1>5. n = m BY <1>4 DEF RequestValidationCorrection, TypeOK
<1> QED BY <1>4, <1>5, ReservedAhead DEF RequestValidationCorrection

\* RequestValidationCorrection: when a correction is granted, the budget still has a
\* token for every delivery effect ahead of the node, if required_effects is declared;
\* with the list omitted the code reserves nothing.
THEOREM CorrectionReservesDeliveryAlways ==
  DeclaredEffects # <<>> => (Spec => CorrectionReservesDelivery)
<1> SUFFICES ASSUME DeclaredEffects # <<>> PROVE Spec => CorrectionReservesDelivery
  OBVIOUS
<1>1. TypeOK /\ [Next]_vars => [ReserveStep]_vars
  BY ReserveNext
<1> QED BY <1>1, TypeCorrect, PTL DEF Spec, CorrectionReservesDelivery, ReserveStep
===============================================================================
