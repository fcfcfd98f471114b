----------------------------- MODULE OutboxProofs -----------------------------
(***************************************************************************)
(* Proofs about the outbox for every number of processes and effects.      *)
(***************************************************************************)
EXTENDS Outbox, TLAPS

USE DEF snapshotVars, rowVars, worldVars, TerminalStates

\* Places where the process has an operation.
WorkPlaces == Places \ {"idle", "stop", "sweep"}
\* Places of the process that moved the row to EXECUTING and has not yet
\* written how the execution ended.
OwnerPlaces == {"seen", "fail", "claimed", "drift", "sent", "uncertain",
                "unconfirmed", "proved"}

\* What a process knows about its operation.
ProcessInv(r) ==
  LET o == proc[r].op
      at == proc[r].pc
  IN /\ at \in WorkPlaces => o \in Ops
     /\ at \in OwnerPlaces => row[o] \in {"EXECUTING", "AMBIGUOUS", "CONFIRMED"}
     /\ at \in {"fail", "claimed", "drift"} => sent[o] = 0
     /\ at \in {"found", "seen", "proved", "answered"} => o \in present
     /\ at = "confirmed" => row[o] = "CONFIRMED"
     /\ at \in {"query", "answered", "absent"} => row[o] \in {"AMBIGUOUS", "CONFIRMED"}

\* At most one process owns the execution of a row.
OwnerUnique ==
  \A q, r \in Runners :
    /\ proc[q].pc \in OwnerPlaces /\ proc[r].pc \in OwnerPlaces
    /\ proc[q].op = proc[r].op
    => q = r

\* How the rows follow the node: only the next effect has an unsettled row.
SequenceInv ==
  /\ \A o \in Ops : row[o] # None =>
       /\ o <= done + 1
       /\ phase = "READY_TO_PUBLISH" => o <= done
  /\ phase = "PUBLISHING" => pending = done + 1 /\ row[done + 1] # None
  /\ phase = "READY_TO_PUBLISH" => pending = None /\ done < EffectCount
  /\ campaign \notin TerminalStates => phase \in {"READY_TO_PUBLISH", "PUBLISHING"}
  /\ campaign = "COMPLETED" => done = EffectCount

RowInv ==
  /\ AtMostOneMutation
  /\ CleanMeansUnsent
  /\ \A o \in Ops : row[o] = "CONFIRMED" => o \in present
  /\ \A o \in 1..done : row[o] = "CONFIRMED"
  /\ StopSettled

OutboxInv ==
  /\ \A r \in Runners : ProcessInv(r)
  /\ OwnerUnique
  /\ SequenceInv
  /\ RowInv

LEMMA Constants ==
  /\ EffectCount \in Nat \ {0}
  /\ None \notin Nat /\ None \notin Ops /\ None \notin EffectStates
BY OutboxAssumption DEF Ops

-----------------------------------------------------------------------------
(* Type correctness.                                                       *)

LEMMA GotoFacts ==
  ASSUME TypeOK, NEW r \in Runners, NEW place \in Places, Goto(r, place)
  PROVE  /\ proc' \in [Runners -> Process]
         /\ proc'[r].pc = place /\ proc'[r].op = proc[r].op
         /\ proc'[r].job = proc[r].job /\ proc'[r].todo = proc[r].todo
         /\ \A q \in Runners \ {r} : proc'[q] = proc[q]
BY DEF TypeOK, Goto, Process

LEMMA EndFacts ==
  ASSUME TypeOK, NEW r \in Runners, End(r)
  PROVE  /\ proc' \in [Runners -> Process]
         /\ proc'[r] = Idle /\ proc'[r].pc = "idle"
         /\ \A q \in Runners \ {r} : proc'[q] = proc[q]
BY DEF TypeOK, End, Process, Idle, Places, Jobs

\* A store write by process r either moves the row as asked, or changes
\* nothing and ends the process.
LEMMA UpdateFacts ==
  ASSUME TypeOK, NEW r \in Runners, NEW from, NEW to \in EffectStates,
         NEW place \in Places, proc[r].op \in Ops,
         Update(r, from, to, place)
  PROVE  /\ TypeOK'
         /\ UNCHANGED <<snapshotVars, bound, fresh, worldVars>>
         /\ \A q \in Runners \ {r} : proc'[q] = proc[q]
         /\ \/ /\ row[proc[r].op] = from
               /\ to = "EXECUTING" => to = from \/ campaign # "CANCELLED"
               /\ row' = [row EXCEPT ![proc[r].op] = to]
               /\ proc'[r].pc = place
               /\ place # "idle" => proc'[r].op = proc[r].op
            \/ row' = row /\ proc'[r].pc = "idle"
<1>1. UNCHANGED <<snapshotVars, bound, fresh, worldVars>>
  BY DEF Update
<1>2. CASE Updates(proc[r].op, from, to)
  <2>1. /\ row' = [row EXCEPT ![proc[r].op] = to]
        /\ IF place = "idle" THEN End(r) ELSE Goto(r, place)
    BY <1>2 DEF Update
  <2>2. /\ row[proc[r].op] = from
        /\ to = "EXECUTING" => to = from \/ campaign # "CANCELLED"
    BY <1>2 DEF Updates, Expected, MayExecute
  <2>3. /\ proc' \in [Runners -> Process]
        /\ proc'[r].pc = place
        /\ place # "idle" => proc'[r].op = proc[r].op
        /\ \A q \in Runners \ {r} : proc'[q] = proc[q]
    BY <2>1, GotoFacts, EndFacts
  <2>4. row' \in [Ops -> EffectStates \cup {None}]
    BY <2>1 DEF TypeOK
  <2>5. TypeOK' BY <1>1, <2>3, <2>4 DEF TypeOK
  <2> QED BY <1>1, <2>1, <2>2, <2>3, <2>5
<1>3. CASE ~Updates(proc[r].op, from, to)
  <2>1. End(r) /\ row' = row
    BY <1>3 DEF Update
  <2>2. TypeOK' BY <1>1, <2>1, EndFacts DEF TypeOK
  <2> QED BY <1>1, <2>1, <2>2, EndFacts
<1> QED BY <1>2, <1>3

\* A process that starts a command gets a whole new record.
LEMMA SetFacts ==
  ASSUME TypeOK, NEW r \in Runners, NEW p \in Process,
         proc' = [proc EXCEPT ![r] = p]
  PROVE  /\ proc' \in [Runners -> Process]
         /\ proc'[r] = p
         /\ \A q \in Runners \ {r} : proc'[q] = proc[q]
BY DEF TypeOK

\* reconcile, recover and cancel go on with the rest of their list.
LEMMA SweepFacts ==
  ASSUME TypeOK, NEW r \in Runners, NEW o,
         proc' = [proc EXCEPT ![r].pc = "sweep", ![r].todo = @ \ {o}]
  PROVE  /\ proc' \in [Runners -> Process]
         /\ proc'[r].pc = "sweep"
         /\ \A q \in Runners \ {r} : proc'[q] = proc[q]
<1>1. PICK p \in Process : p = proc[r] BY DEF TypeOK
<1>2. [p EXCEPT !.pc = "sweep", !.todo = @ \ {o}] \in Process
  BY DEF Process, Places
<1>3. proc' = [proc EXCEPT ![r] = [p EXCEPT !.pc = "sweep", !.todo = @ \ {o}]]
  BY <1>1 DEF TypeOK
<1>4. [p EXCEPT !.pc = "sweep", !.todo = @ \ {o}].pc = "sweep"
  BY DEF Process
<1> QED BY <1>2, <1>3, <1>4, SetFacts

LEMMA TakeFacts ==
  ASSUME TypeOK, NEW r \in Runners, NEW o \in Ops,
         proc' = [proc EXCEPT ![r].pc = "reconcile", ![r].op = o]
  PROVE  /\ proc' \in [Runners -> Process]
         /\ proc'[r].pc = "reconcile" /\ proc'[r].op = o
         /\ \A q \in Runners \ {r} : proc'[q] = proc[q]
<1>1. PICK p \in Process : p = proc[r] BY DEF TypeOK
<1>2. [p EXCEPT !.pc = "reconcile", !.op = o] \in Process
  BY DEF Process, Places
<1>3. proc' = [proc EXCEPT ![r] = [p EXCEPT !.pc = "reconcile", !.op = o]]
  BY <1>1 DEF TypeOK
<1>4. /\ [p EXCEPT !.pc = "reconcile", !.op = o].pc = "reconcile"
      /\ [p EXCEPT !.pc = "reconcile", !.op = o].op = o
  BY DEF Process
<1> QED BY <1>2, <1>3, <1>4, SetFacts

LEMMA SkipFacts ==
  ASSUME TypeOK, NEW r \in Runners, NEW o,
         proc' = [proc EXCEPT ![r].todo = @ \ {o}]
  PROVE  /\ proc' \in [Runners -> Process]
         /\ proc'[r].pc = proc[r].pc
         /\ \A q \in Runners \ {r} : proc'[q] = proc[q]
BY DEF TypeOK, Process

\* The steps of a process keep the types.
LEMMA TypeProceed ==
  ASSUME TypeOK, OutboxInv, NEW r \in Runners, Proceed(r)
  PROVE  TypeOK'
<1> USE Constants
<1>o. proc[r].pc \in WorkPlaces => proc[r].op \in Ops
  BY DEF OutboxInv, ProcessInv
<1>p. proc[r] \in Process BY DEF TypeOK
<1>1. CASE ReadRow(r)
  <2>1. \E place \in Places : Goto(r, place)
    BY <1>1, Zenon DEF ReadRow, Places
  <2> QED BY <1>1, <2>1, GotoFacts DEF ReadRow, TypeOK
<1>2. CASE Preflight(r)
  <2>1. \E place \in Places : Goto(r, place)
    BY <1>2 DEF Preflight, Places
  <2> QED BY <1>2, <2>1, GotoFacts DEF Preflight, TypeOK
<1>3. CASE Claim(r)
  BY <1>3, <1>o, UpdateFacts DEF Claim, At, WorkPlaces, Places, EffectStates
<1>4. CASE Execute(r)
  <2>1. \E place \in Places : Goto(r, place)
    BY <1>4 DEF Execute, Places, Outcomes
  <2>2. proc[r].op \in Ops BY <1>4, <1>o DEF Execute, At, WorkPlaces, Places
  <2>3. /\ sent' \in [Ops -> Nat] /\ inflight' \subseteq Ops /\ present' \subseteq Ops
        /\ UNCHANGED <<snapshotVars, rowVars, fresh>>
    BY <1>4, <2>2 DEF Execute, TypeOK
  <2>4. proc' \in [Runners -> Process] BY <2>1, GotoFacts
  <2> QED BY <2>3, <2>4 DEF TypeOK
<1>5. CASE Confirm(r)
  <2>1. \E place \in Places : Goto(r, place)
    BY <1>5 DEF Confirm, Places
  <2> QED BY <1>5, <2>1, GotoFacts DEF Confirm, TypeOK
<1>6. CASE Conclude(r)
  BY <1>6, <1>o, UpdateFacts DEF Conclude, At, WorkPlaces, Places, EffectStates
<1>7. CASE PublishConfirmed(r)
  <2>1. End(r) BY <1>7 DEF PublishConfirmed
  <2>2. proc' \in [Runners -> Process] BY <2>1, EndFacts
  <2>3. /\ UNCHANGED <<authorityEpoch, cancellationEpoch, fencingEpoch,
             reconciliations, rowVars, worldVars>>
        /\ fresh' \subseteq Runners
    BY <1>7 DEF PublishConfirmed, Applied, TypeOK
  <2>4. CASE Accepting /\ phase = "PUBLISHING" /\ pending = proc[r].op
    <3>1. done + 1 \in 0..EffectCount
      BY <2>4 DEF OutboxInv, SequenceInv, TypeOK, Ops
    <3>2. /\ done' = done + 1 /\ pending' = None
          /\ phase' \in PhaseStates /\ campaign' \in CampaignStates
      BY <1>7, <2>4 DEF PublishConfirmed, TypeOK, PhaseStates, CampaignStates
    <3> QED BY <2>2, <2>3, <3>1, <3>2 DEF TypeOK
  <2>5. CASE ~(Accepting /\ phase = "PUBLISHING" /\ pending = proc[r].op)
    <3>1. UNCHANGED <<done, pending, phase, campaign, fresh>>
      BY <1>7, <2>5 DEF PublishConfirmed
    <3> QED BY <2>2, <2>3, <3>1 DEF TypeOK
  <2> QED BY <2>4, <2>5
<1>8. CASE PublishFailed(r)
  <2>1. proc' \in [Runners -> Process] BY <1>8, EndFacts DEF PublishFailed
  <2> QED BY <1>8, <2>1 DEF PublishFailed, FailExactNode, Applied, TypeOK,
              PhaseStates, CampaignStates
<1>9. CASE ReadAmbiguous(r)
  <2>1. proc' \in [Runners -> Process]
    BY <1>9, GotoFacts, EndFacts, SweepFacts DEF ReadAmbiguous, Places
  <2> QED BY <1>9, <2>1 DEF ReadAmbiguous, TypeOK
<1>10. CASE Query(r)
  <2>1. proc' \in [Runners -> Process]
    BY <1>10, GotoFacts DEF Query, Places
  <2> QED BY <1>10, <2>1 DEF Query, TypeOK
<1>11. CASE Answer(r)
  <2>1. proc' \in [Runners -> Process]
    BY <1>11, GotoFacts, EndFacts, SweepFacts DEF Answer, Places
  <2>2. row' \in [Ops -> EffectStates \cup {None}]
    BY <1>11 DEF Answer, AbsentState, TypeOK, EffectStates
  <2> QED BY <1>11, <2>1, <2>2 DEF Answer, TypeOK
<1>12. CASE Stop(r)
  <2>1. proc' \in [Runners -> Process]
    BY <1>12, GotoFacts, EndFacts DEF Stop, Places
  <2>2. row' \in [Ops -> EffectStates \cup {None}]
    BY <1>12 DEF Stop, StopRow, TypeOK, EffectStates
  <2> QED BY <1>12, <2>1, <2>2 DEF Stop, Applied, TypeOK, PhaseStates, CampaignStates
<1>13. CASE Sweep(r)
  <2>1. /\ proc' \in [Runners -> Process]
        /\ reconciliations' \in Nat /\ fresh' \subseteq Runners
    <3>1. CASE proc[r].todo = {} /\ End(r) /\ UNCHANGED <<reconciliations, fresh>>
      BY <3>1, EndFacts DEF TypeOK
    <3>2. ASSUME NEW o \in proc[r].todo, SweepNext(r, o)
          PROVE  /\ proc' \in [Runners -> Process]
                 /\ reconciliations' \in Nat /\ fresh' \subseteq Runners
      <4>1. o \in Ops BY <1>p DEF Process
      <4>2. reconciliations \in Nat /\ fresh \subseteq Runners BY DEF TypeOK
      <4> QED BY <3>2, <4>1, <4>2, SkipFacts, TakeFacts, EndFacts DEF SweepNext, Applied, CanReserve
    <3> QED BY <1>13, <3>1, <3>2 DEF Sweep
  <2> QED BY <1>13, <2>1 DEF Sweep, TypeOK
<1> QED BY <1>1, <1>2, <1>3, <1>4, <1>5, <1>6, <1>7, <1>8, <1>9, <1>10, <1>11,
           <1>12, <1>13 DEF Proceed

LEMMA TypeOther ==
  ASSUME TypeOK, OutboxInv,
         \/ \E r \in Runners : Command(r) \/ Crash(r)
         \/ Campaign
         \/ World
  PROVE  TypeOK'
<1> USE Constants
<1>1. ASSUME NEW r \in Runners, Command(r) PROVE TypeOK'
  <2>1. CASE StartPublication(r)
    <3>1. done + 1 \in Ops BY <2>1 DEF StartPublication, TypeOK, Ops
    <3>2. [authority |-> authorityEpoch, cancellation |-> cancellationEpoch,
           fence |-> None] \in Epochs
      BY DEF TypeOK, Epochs
    <3>3. /\ row' \in [Ops -> EffectStates \cup {None}]
          /\ bound' \in [Ops -> Epochs \cup {None}]
      BY <2>1, <3>1, <3>2 DEF StartPublication, TypeOK, EffectStates
    <3> QED BY <2>1, <3>1, <3>3 DEF StartPublication, Applied, TypeOK, PhaseStates
  <2>2. CASE Step(r)
    <3>1. pending \in Ops
      BY <2>2 DEF Step, OutboxInv, SequenceInv, TypeOK, Ops
    <3>2. \E place \in Places : proc' = [proc EXCEPT ![r] =
            [pc |-> place, op |-> pending, job |-> "run", todo |-> {}]]
      BY <2>2 DEF Step, Places
    <3>3. proc' \in [Runners -> Process]
      BY <3>1, <3>2, SetFacts DEF Process, Jobs
    <3> QED BY <2>2, <3>3 DEF Step, TypeOK
  <2>3. CASE Reconcile(r)
    <3>1. PICK list \in SUBSET Ops : proc' = [proc EXCEPT ![r] =
            [pc |-> "sweep", op |-> None, job |-> "recover", todo |-> list]]
      BY <2>3 DEF Reconcile
    <3>2. proc' \in [Runners -> Process]
      BY <3>1, SetFacts DEF Process, Jobs, Places
    <3> QED BY <2>3, <3>2 DEF Reconcile, TypeOK
  <2>4. CASE Recover(r)
    <3>1. PICK list \in SUBSET Ops : proc' = [proc EXCEPT ![r] =
            [pc |-> "sweep", op |-> None, job |-> "recover", todo |-> list]]
      BY <2>4 DEF Recover
    <3>2. proc' \in [Runners -> Process]
      BY <3>1, SetFacts DEF Process, Jobs, Places
    <3>3. row' \in [Ops -> EffectStates \cup {None}]
      BY <2>4 DEF Recover, Interrupted, TypeOK, EffectStates
    <3> QED BY <2>4, <3>2, <3>3 DEF Recover, TypeOK
  <2>5. CASE StopRead(r)
    <3>1. PICK list \in SUBSET Ops : proc' = [proc EXCEPT ![r] =
            [pc |-> "stop", op |-> None, job |-> "cancel", todo |-> list]]
      BY <2>5 DEF StopRead
    <3>2. proc' \in [Runners -> Process]
      BY <3>1, SetFacts DEF Process, Jobs, Places
    <3> QED BY <2>5, <3>2 DEF StopRead, TypeOK
  <2> QED BY <1>1, <2>1, <2>2, <2>3, <2>4, <2>5 DEF Command
<1>2. ASSUME NEW r \in Runners, Crash(r) PROVE TypeOK'
  BY <1>2, EndFacts DEF Crash, TypeOK
<1>3. CASE Campaign
  BY <1>3 DEF Campaign, FailNode, FailExactNode, Wait, Resume, AdvanceAuthority,
     Applied, TypeOK, PhaseStates, CampaignStates
<1>4. CASE World
  BY <1>4 DEF World, Land, Lose, Outside, TypeOK
<1> QED BY <1>1, <1>2, <1>3, <1>4

-----------------------------------------------------------------------------
(* The inductive invariant.                                                *)

\* The row moves that a process r may make without an event.
RowMove(r, o) ==
  \/ row'[o] = row[o]
  \/ row[o] = "PREPARED" /\ row'[o] = "EXECUTING" /\ campaign # "CANCELLED"
  \/ row[o] = "EXECUTING" /\ row'[o] = "AMBIGUOUS"
  \/ row[o] \in {"EXECUTING", "AMBIGUOUS"} /\ row'[o] = "CONFIRMED" /\ o \in present
  \/ /\ row[o] = "EXECUTING" /\ row'[o] = "FAILED" /\ sent[o] = 0
     /\ proc[r].op = o /\ proc[r].pc \in OwnerPlaces

\* A process becomes the owner of a row only by moving it out of PREPARED.
OwnerMove(r) ==
  proc'[r].pc \in OwnerPlaces =>
    \/ proc[r].pc \in OwnerPlaces /\ proc'[r].op = proc[r].op
    \/ row[proc'[r].op] = "PREPARED"

\* Such moves keep the invariant: what the other processes know survives,
\* because only the owner of a row can take it to FAILED.
LEMMA Moves ==
  ASSUME TypeOK, TypeOK', OutboxInv, NEW r \in Runners,
         \A q \in Runners \ {r} : proc'[q] = proc[q],
         \A o \in Ops : RowMove(r, o),
         OwnerMove(r), ProcessInv(r)',
         UNCHANGED <<campaign, phase, done, pending, bound, sent, present>>
  PROVE  OutboxInv'
<1> USE Constants
<1>1. ASSUME NEW q \in Runners PROVE ProcessInv(q)'
  <2>1. CASE q = r BY <2>1
  <2>2. CASE q # r
    <3>1. proc'[q] = proc[q] BY <2>2
    <3>2. ProcessInv(q) BY DEF OutboxInv
    <3>3. ~(/\ proc[q].pc \in OwnerPlaces /\ proc[r].pc \in OwnerPlaces
            /\ proc[q].op = proc[r].op)
      BY <2>2 DEF OutboxInv, OwnerUnique
    <3>4. proc[q].pc \in WorkPlaces \/ proc[q].pc \in {"idle", "stop", "sweep"}
      BY DEF WorkPlaces, TypeOK, Process
    <3>5. CASE proc[q].pc \in WorkPlaces
      <4>1. proc[q].op \in Ops
        BY <3>2, <3>5 DEF ProcessInv
      <4>2. RowMove(r, proc[q].op) BY <4>1
      <4> QED BY <3>1, <3>2, <3>3, <4>1, <4>2 DEF ProcessInv, RowMove, EffectStates, OwnerPlaces
    <3>6. CASE proc[q].pc \in {"idle", "stop", "sweep"}
      BY <3>1, <3>6 DEF ProcessInv, WorkPlaces, OwnerPlaces
    <3> QED BY <3>4, <3>5, <3>6
  <2> QED BY <2>1, <2>2
<1>2. OwnerUnique'
  <2> SUFFICES ASSUME NEW q \in Runners \ {r},
                      proc'[q].pc \in OwnerPlaces, proc'[r].pc \in OwnerPlaces,
                      proc'[q].op = proc'[r].op
               PROVE  FALSE
    BY DEF OutboxInv, OwnerUnique
  <2>1. proc[q].pc \in OwnerPlaces /\ proc[q].op = proc'[r].op OBVIOUS
  <2>2. row[proc[q].op] # "PREPARED"
    BY <2>1 DEF OutboxInv, ProcessInv
  <2>3. proc[r].pc \in OwnerPlaces /\ proc[r].op = proc[q].op
    BY <2>1, <2>2 DEF OwnerMove
  <2> QED BY <2>1, <2>3 DEF OutboxInv, OwnerUnique
<1>3. SequenceInv'
  <2>1. \A o \in Ops : row'[o] # None <=> row[o] # None
    BY DEF RowMove, EffectStates
  <2>2. phase = "PUBLISHING" => done + 1 \in Ops
    BY DEF OutboxInv, SequenceInv, TypeOK
  <2> QED BY <2>1, <2>2 DEF OutboxInv, SequenceInv
<1>4. RowInv'
  <2>1. AtMostOneMutation' BY DEF OutboxInv, RowInv, AtMostOneMutation
  <2>2. CleanMeansUnsent'
    BY DEF OutboxInv, RowInv, CleanMeansUnsent, RowMove, EffectStates
  <2>3. \A o \in Ops : row'[o] = "CONFIRMED" => o \in present'
    BY DEF OutboxInv, RowInv, RowMove
  <2>4. \A o \in 1..done' : row'[o] = "CONFIRMED"
    <3>1. \A o \in 1..done : o \in Ops BY DEF TypeOK, Ops
    <3> QED BY <3>1 DEF OutboxInv, RowInv, RowMove
  <2>5. StopSettled' BY DEF OutboxInv, RowInv, StopSettled, RowMove
  <2> QED BY <2>1, <2>2, <2>3, <2>4, <2>5 DEF RowInv
<1> QED BY <1>1, <1>2, <1>3, <1>4 DEF OutboxInv

\* A process that only moves on, and knows what its new place says.
LEMMA Advances ==
  ASSUME TypeOK, TypeOK', OutboxInv, NEW r \in Runners,
         \A q \in Runners \ {r} : proc'[q] = proc[q],
         OwnerMove(r), ProcessInv(r)',
         UNCHANGED <<campaign, phase, done, pending, row, bound, sent, present>>
  PROVE  OutboxInv'
BY Moves DEF RowMove

\* Processes at these places know nothing.
LEMMA Unbound ==
  ASSUME NEW r \in Runners, proc'[r].pc \in {"idle", "stop", "sweep"}
  PROVE  ProcessInv(r)' /\ OwnerMove(r)
BY DEF ProcessInv, OwnerMove, WorkPlaces, OwnerPlaces

LEMMA InvRun ==
  ASSUME TypeOK, TypeOK', OutboxInv, NEW r \in Runners,
         ReadRow(r) \/ Preflight(r) \/ Confirm(r) \/ ReadAmbiguous(r) \/ Query(r)
  PROVE  OutboxInv'
<1> USE Constants
<1>p. ProcessInv(r) BY DEF OutboxInv
<1>1. CASE ReadRow(r)
  <2>1. /\ proc[r].op \in Ops
        /\ UNCHANGED <<campaign, phase, done, pending, row, bound, sent, present>>
    BY <1>1, <1>p DEF ReadRow, At, ProcessInv, WorkPlaces, Places
  <2>2. \E place \in {"preflight", "restart", "reconcile", "confirmed", "rejected"} :
          /\ Goto(r, place)
          /\ place = "confirmed" => row[proc[r].op] = "CONFIRMED"
    BY <1>1, Zenon DEF ReadRow
  <2>3. /\ proc'[r].pc \in {"preflight", "restart", "reconcile", "confirmed", "rejected"}
        /\ proc'[r].pc = "confirmed" => row[proc[r].op] = "CONFIRMED"
        /\ proc'[r].op = proc[r].op
        /\ \A q \in Runners \ {r} : proc'[q] = proc[q]
    BY <2>2, GotoFacts DEF Places
  <2>4. ProcessInv(r)' /\ OwnerMove(r)
    BY <2>1, <2>3 DEF ProcessInv, OwnerMove, OwnerPlaces
  <2> QED BY <2>1, <2>3, <2>4, Advances
<1>2. CASE Preflight(r)
  <2>1. /\ proc[r].op \in Ops
        /\ UNCHANGED <<campaign, phase, done, pending, row, bound, sent, present>>
    BY <1>2, <1>p DEF Preflight, At, ProcessInv, WorkPlaces, Places
  <2>2. /\ proc'[r].pc \in {"found", "clear", "broken"}
        /\ proc'[r].pc = "found" => proc[r].op \in present
        /\ proc'[r].op = proc[r].op
        /\ \A q \in Runners \ {r} : proc'[q] = proc[q]
    BY <1>2, GotoFacts DEF Preflight, Observed, Places
  <2>3. ProcessInv(r)' /\ OwnerMove(r)
    BY <2>1, <2>2 DEF ProcessInv, OwnerMove, OwnerPlaces
  <2> QED BY <2>1, <2>2, <2>3, Advances
<1>3. CASE Confirm(r)
  <2>1. /\ proc[r].op \in Ops
        /\ row[proc[r].op] \in {"EXECUTING", "AMBIGUOUS", "CONFIRMED"}
        /\ proc[r].pc \in OwnerPlaces
        /\ UNCHANGED <<campaign, phase, done, pending, row, bound, sent, present>>
    BY <1>3, <1>p DEF Confirm, At, ProcessInv, WorkPlaces, OwnerPlaces, Places
  <2>2. /\ proc'[r].pc \in {"proved", "unconfirmed"}
        /\ proc'[r].pc = "proved" => proc[r].op \in present
        /\ proc'[r].op = proc[r].op
        /\ \A q \in Runners \ {r} : proc'[q] = proc[q]
    BY <1>3, GotoFacts DEF Confirm, Observed, Places
  <2>3. ProcessInv(r)' /\ OwnerMove(r)
    BY <2>1, <2>2 DEF ProcessInv, OwnerMove, OwnerPlaces
  <2> QED BY <2>1, <2>2, <2>3, Advances
<1>4. CASE ReadAmbiguous(r)
  <2>1. /\ proc[r].op \in Ops
        /\ UNCHANGED <<campaign, phase, done, pending, row, bound, sent, present>>
    BY <1>4, <1>p DEF ReadAmbiguous, At, ProcessInv, WorkPlaces, Places
  <2>2. /\ \/ proc'[r].pc \in {"idle", "sweep"}
           \/ /\ proc'[r].op = proc[r].op
              /\ \/ proc'[r].pc = "confirmed" /\ row[proc[r].op] = "CONFIRMED"
                 \/ proc'[r].pc = "query" /\ row[proc[r].op] = "AMBIGUOUS"
        /\ \A q \in Runners \ {r} : proc'[q] = proc[q]
    BY <1>4, GotoFacts, EndFacts, SweepFacts DEF ReadAmbiguous, Places
  <2>3. ProcessInv(r)' /\ OwnerMove(r)
    BY <2>1, <2>2 DEF ProcessInv, OwnerMove, OwnerPlaces, WorkPlaces
  <2> QED BY <2>1, <2>2, <2>3, Advances
<1>5. CASE Query(r)
  <2>1. /\ proc[r].op \in Ops
        /\ row[proc[r].op] \in {"AMBIGUOUS", "CONFIRMED"}
        /\ UNCHANGED <<campaign, phase, done, pending, row, bound, sent, present>>
    BY <1>5, <1>p DEF Query, At, ProcessInv, WorkPlaces, Places
  <2>2. /\ proc'[r].pc \in {"answered", "absent"}
        /\ proc'[r].pc = "answered" => proc[r].op \in present
        /\ proc'[r].op = proc[r].op
        /\ \A q \in Runners \ {r} : proc'[q] = proc[q]
    BY <1>5, GotoFacts DEF Query, Observed, Places
  <2>3. ProcessInv(r)' /\ OwnerMove(r)
    BY <2>1, <2>2 DEF ProcessInv, OwnerMove, OwnerPlaces
  <2> QED BY <2>1, <2>2, <2>3, Advances
<1> QED BY <1>1, <1>2, <1>3, <1>4, <1>5

\* The store writes of the driver.
LEMMA InvWrite ==
  ASSUME TypeOK, TypeOK', OutboxInv, NEW r \in Runners,
         Claim(r) \/ Conclude(r)
  PROVE  OutboxInv'
<1> USE Constants
<1> DEFINE o == proc[r].op
           at == proc[r].pc
<1>1. ProcessInv(r) BY DEF OutboxInv
<1>2. at \in WorkPlaces /\ o \in Ops
  BY <1>1 DEF Claim, Conclude, At, WorkPlaces, Places, ProcessInv
<1>3. PICK from \in {"PREPARED", "EXECUTING"}, to \in EffectStates, place \in Places :
        /\ Update(r, from, to, place)
        /\ \/ /\ at \in {"found", "broken", "clear"}
              /\ from = "PREPARED" /\ to = "EXECUTING"
              /\ \/ at = "found" /\ place = "seen"
                 \/ place = "fail"
                 \/ place = "claimed"
           \/ /\ at \in {"seen", "proved"}
              /\ from = "EXECUTING" /\ to = "CONFIRMED" /\ place = "confirmed"
           \/ /\ at \in {"fail", "drift"}
              /\ from = "EXECUTING" /\ to = "FAILED" /\ place \in {"rejected", "drifted"}
           \/ /\ from = "EXECUTING" /\ to = "AMBIGUOUS" /\ place \in {"idle", "reconcile"}
  BY DEF Claim, Conclude, At, Places, EffectStates
<1>4. /\ UNCHANGED <<snapshotVars, bound, fresh, worldVars>>
      /\ \A q \in Runners \ {r} : proc'[q] = proc[q]
      /\ \/ /\ row[o] = from
            /\ to = "EXECUTING" => to = from \/ campaign # "CANCELLED"
            /\ row' = [row EXCEPT ![o] = to]
            /\ proc'[r].pc = place
            /\ place # "idle" => proc'[r].op = o
         \/ row' = row /\ proc'[r].pc = "idle"
  BY <1>2, <1>3, UpdateFacts
<1>5. CASE row' = row /\ proc'[r].pc = "idle"
  BY <1>4, <1>5, Unbound, Advances
<1>6. CASE /\ row[o] = from
           /\ to = "EXECUTING" => to = from \/ campaign # "CANCELLED"
           /\ row' = [row EXCEPT ![o] = to]
           /\ proc'[r].pc = place
           /\ place # "idle" => proc'[r].op = o
  <2>1. row \in [Ops -> EffectStates \cup {None}] BY DEF TypeOK
  <2>2. row'[o] = to /\ \A p \in Ops \ {o} : row'[p] = row[p]
    BY <1>2, <1>6, <2>1
  <2>3. from = "PREPARED" => sent[o] = 0
    BY <1>2, <1>6 DEF OutboxInv, RowInv, CleanMeansUnsent
  <2>4. at \in {"fail", "drift"} => sent[o] = 0 /\ at \in OwnerPlaces
    BY <1>1 DEF ProcessInv, OwnerPlaces
  <2>5. at \in {"found", "seen", "proved"} => o \in present
    BY <1>1 DEF ProcessInv
  <2>6. \A p \in Ops : RowMove(r, p)
    BY <1>3, <1>6, <2>2, <2>4, <2>5 DEF RowMove
  <2>7. OwnerMove(r)
    BY <1>3, <1>6 DEF OwnerMove, OwnerPlaces
  <2>8. ProcessInv(r)'
    <3>1. UNCHANGED <<sent, present>> BY <1>4
    <3> QED BY <1>2, <1>3, <1>6, <2>2, <2>3, <2>5, <3>1
          DEF ProcessInv, OwnerPlaces, WorkPlaces
  <2> QED BY <1>4, <2>6, <2>7, <2>8, Moves
<1> QED BY <1>4, <1>5, <1>6

\* The mutation: only the owner of an unsent row starts it.
LEMMA InvExecute ==
  ASSUME TypeOK, TypeOK', OutboxInv, NEW r \in Runners, Execute(r)
  PROVE  OutboxInv'
<1> USE Constants
<1> DEFINE o == proc[r].op
<1>1. /\ proc[r].pc = "claimed" /\ proc[r].pc \in OwnerPlaces
      /\ o \in Ops /\ sent[o] = 0
      /\ row[o] \in {"EXECUTING", "AMBIGUOUS", "CONFIRMED"}
  BY DEF Execute, At, OutboxInv, ProcessInv, WorkPlaces, OwnerPlaces, Places
<1>2. UNCHANGED <<snapshotVars, rowVars, fresh>> BY DEF Execute
<1>3. CASE /\ UNCHANGED worldVars
           /\ Goto(r, "drift") \/ Goto(r, "fail") \/ Goto(r, "sent")
  <2>1. /\ proc'[r].pc \in {"drift", "fail", "sent"} /\ proc'[r].op = o
        /\ \A q \in Runners \ {r} : proc'[q] = proc[q]
    BY <1>3, GotoFacts DEF Places
  <2>2. ProcessInv(r)' /\ OwnerMove(r)
    BY <1>1, <1>2, <1>3, <2>1 DEF ProcessInv, OwnerMove, OwnerPlaces
  <2> QED BY <1>2, <1>3, <2>1, <2>2, Advances
<1>4. CASE /\ \E place \in Outcomes : Goto(r, place)
           /\ sent' = [sent EXCEPT ![o] = @ + 1]
           /\ UNCHANGED present
  <2>1. /\ proc'[r].pc \in {"sent", "uncertain"} /\ proc'[r].op = o
        /\ \A q \in Runners \ {r} : proc'[q] = proc[q]
    BY <1>4, GotoFacts DEF Places, Outcomes
  <2>2. sent'[o] = 1 /\ \A p \in Ops \ {o} : sent'[p] = sent[p]
    BY <1>1, <1>4 DEF TypeOK
  <2>3. ASSUME NEW q \in Runners PROVE ProcessInv(q)'
    <3>1. CASE q = r
      BY <1>1, <1>2, <1>4, <2>1, <3>1 DEF ProcessInv, OwnerPlaces
    <3>2. CASE q # r
      <4>1. proc[q].pc \in OwnerPlaces => proc[q].op # o
        BY <1>1, <3>2 DEF OutboxInv, OwnerUnique
      <4>2. ProcessInv(q) /\ proc'[q] = proc[q] BY <2>1, <3>2 DEF OutboxInv
      <4>3. proc[q].pc \in {"fail", "claimed", "drift"} =>
              proc[q].pc \in OwnerPlaces /\ proc[q].pc \in WorkPlaces
        BY DEF OwnerPlaces, WorkPlaces, Places
      <4>4. proc[q].pc \in {"fail", "claimed", "drift"} => sent'[proc[q].op] = 0
        BY <2>2, <4>1, <4>2, <4>3 DEF ProcessInv
      <4> QED BY <1>2, <1>4, <4>2, <4>4 DEF ProcessInv
    <3> QED BY <3>1, <3>2
  <2>4. OwnerUnique'
    BY <1>1, <2>1 DEF OutboxInv, OwnerUnique
  <2>5. SequenceInv' BY <1>2 DEF OutboxInv, SequenceInv
  <2>6. RowInv'
    <3>1. AtMostOneMutation' BY <2>2 DEF OutboxInv, RowInv, AtMostOneMutation
    <3>2. CleanMeansUnsent'
      BY <1>1, <1>2, <2>2 DEF OutboxInv, RowInv, CleanMeansUnsent, EffectStates
    <3> QED BY <1>2, <1>4, <3>1, <3>2 DEF OutboxInv, RowInv, StopSettled
  <2> QED BY <2>3, <2>4, <2>5, <2>6 DEF OutboxInv
<1> QED BY <1>3, <1>4 DEF Execute

LEMMA InvAnswer ==
  ASSUME TypeOK, TypeOK', OutboxInv, NEW r \in Runners, Answer(r)
  PROVE  OutboxInv'
<1> USE Constants
<1> DEFINE o == proc[r].op
           to == IF At(r, "answered") THEN "CONFIRMED" ELSE AbsentState
<1>1. /\ o \in Ops
      /\ At(r, "answered") => o \in present
  BY DEF Answer, At, OutboxInv, ProcessInv, WorkPlaces, Places
<1>2. UNCHANGED <<snapshotVars, bound, fresh, worldVars>> BY DEF Answer
<1>3. CASE Updates(o, "AMBIGUOUS", to)
  <2>1. row[o] = "AMBIGUOUS" BY <1>3 DEF Updates, Expected
  <2>2. row' = [row EXCEPT ![o] = to] BY <1>3 DEF Answer
  <2>3. row'[o] = to /\ \A p \in Ops \ {o} : row'[p] = row[p]
    BY <1>1, <2>2 DEF TypeOK
  <2>4. /\ \/ proc'[r].pc \in {"idle", "sweep"}
           \/ proc'[r].pc = "confirmed" /\ proc'[r].op = o /\ to = "CONFIRMED"
        /\ \A q \in Runners \ {r} : proc'[q] = proc[q]
    BY <1>3, GotoFacts, EndFacts, SweepFacts DEF Answer, Delivers, Places
  <2>5. \A p \in Ops : RowMove(r, p)
    BY <1>1, <2>1, <2>3 DEF RowMove, AbsentState
  <2>6. ProcessInv(r)' /\ OwnerMove(r)
    <3>1. CASE proc'[r].pc \in {"idle", "sweep"} BY <3>1, Unbound
    <3>2. CASE proc'[r].pc = "confirmed" /\ proc'[r].op = o /\ to = "CONFIRMED"
      BY <1>1, <2>3, <3>2 DEF ProcessInv, OwnerMove, OwnerPlaces, EffectStates
    <3> QED BY <2>4, <3>1, <3>2
  <2> QED BY <1>2, <2>4, <2>5, <2>6, Moves
<1>4. CASE ~Updates(o, "AMBIGUOUS", to)
  <2>1. End(r) /\ row' = row BY <1>4 DEF Answer
  <2> QED BY <1>2, <2>1, EndFacts, Unbound, Advances
<1> QED BY <1>3, <1>4

\* Starting a command, going through a list, and dying.
LEMMA InvCommand ==
  ASSUME TypeOK, TypeOK', OutboxInv, NEW r \in Runners,
         Step(r) \/ Reconcile(r) \/ Recover(r) \/ StopRead(r) \/ Sweep(r) \/ Crash(r)
  PROVE  OutboxInv'
<1> USE Constants
<1>1. CASE Step(r)
  <2>1. /\ pending = done + 1 /\ pending \in Ops
        /\ UNCHANGED <<snapshotVars, rowVars, worldVars>>
    BY <1>1 DEF Step, OutboxInv, SequenceInv, TypeOK
  <2>2. PICK place \in {"run", "confirmed", "rejected"} :
          /\ place = "confirmed" => row[pending] = "CONFIRMED"
          /\ proc' = [proc EXCEPT ![r] =
               [pc |-> place, op |-> pending, job |-> "run", todo |-> {}]]
    BY <1>1 DEF Step
  <2>3. /\ proc'[r] = [pc |-> place, op |-> pending, job |-> "run", todo |-> {}]
        /\ \A q \in Runners \ {r} : proc'[q] = proc[q]
    BY <2>1, <2>2, SetFacts DEF Process, Places, Jobs
  <2>4. ProcessInv(r)' /\ OwnerMove(r)
    BY <2>1, <2>2, <2>3 DEF ProcessInv, OwnerMove, OwnerPlaces
  <2> QED BY <2>1, <2>3, <2>4, Advances
<1>2. CASE Reconcile(r)
  <2>1. PICK list \in SUBSET Ops : proc' = [proc EXCEPT ![r] =
          [pc |-> "sweep", op |-> None, job |-> "recover", todo |-> list]]
    BY <1>2 DEF Reconcile
  <2>2. /\ proc'[r].pc = "sweep" /\ \A q \in Runners \ {r} : proc'[q] = proc[q]
    BY <2>1, SetFacts DEF Process, Places, Jobs
  <2>3. UNCHANGED <<snapshotVars, rowVars, worldVars>> BY <1>2 DEF Reconcile
  <2> QED BY <2>2, <2>3, Unbound, Advances
<1>3. CASE Recover(r)
  <2>1. PICK list \in SUBSET Ops : proc' = [proc EXCEPT ![r] =
          [pc |-> "sweep", op |-> None, job |-> "recover", todo |-> list]]
    BY <1>3 DEF Recover
  <2>2. /\ proc'[r].pc = "sweep" /\ \A q \in Runners \ {r} : proc'[q] = proc[q]
    BY <2>1, SetFacts DEF Process, Places, Jobs
  <2>3. UNCHANGED <<snapshotVars, bound, worldVars>> BY <1>3 DEF Recover
  <2>4. \A o \in Ops : RowMove(r, o)
    BY <1>3 DEF Recover, Interrupted, RowMove
  <2>5. ProcessInv(r)' /\ OwnerMove(r) BY <2>2, Unbound
  <2> QED BY <2>2, <2>3, <2>4, <2>5, Moves
<1>4. CASE StopRead(r)
  <2>1. PICK list \in SUBSET Ops : proc' = [proc EXCEPT ![r] =
          [pc |-> "stop", op |-> None, job |-> "cancel", todo |-> list]]
    BY <1>4 DEF StopRead
  <2>2. /\ proc'[r].pc = "stop" /\ \A q \in Runners \ {r} : proc'[q] = proc[q]
    BY <2>1, SetFacts DEF Process, Places, Jobs
  <2>3. UNCHANGED <<snapshotVars, rowVars, worldVars>> BY <1>4 DEF StopRead
  <2> QED BY <2>2, <2>3, Unbound, Advances
<1>5. CASE Sweep(r)
  <2>1. UNCHANGED <<campaign, phase, done, pending, rowVars, worldVars>>
    BY <1>5 DEF Sweep
  <2>2. CASE proc[r].todo = {} /\ End(r)
    BY <2>1, <2>2, EndFacts, Unbound, Advances
  <2>3. ASSUME NEW o \in proc[r].todo, SweepNext(r, o) PROVE OutboxInv'
    <3>1. o \in Ops BY DEF TypeOK, Process
    <3>2. CASE proc' = [proc EXCEPT ![r].todo = @ \ {o}]
      <4>1. proc[r].pc = "sweep" BY <1>5 DEF Sweep, At
      <4> QED BY <2>1, <3>2, <4>1, SkipFacts, Unbound, Advances
    <3>3. CASE End(r) BY <2>1, <3>3, EndFacts, Unbound, Advances
    <3>4. CASE proc' = [proc EXCEPT ![r].pc = "reconcile", ![r].op = o]
      <4>1. /\ proc'[r].pc = "reconcile" /\ proc'[r].op = o
            /\ \A q \in Runners \ {r} : proc'[q] = proc[q]
        BY <3>1, <3>4, TakeFacts
      <4>2. ProcessInv(r)' /\ OwnerMove(r)
        BY <2>1, <3>1, <3>4, <4>1 DEF ProcessInv, OwnerMove, OwnerPlaces
      <4> QED BY <2>1, <4>1, <4>2, Advances
    <3> QED BY <2>3, <3>2, <3>3, <3>4 DEF SweepNext
  <2> QED BY <1>5, <2>2, <2>3 DEF Sweep
<1>6. CASE Crash(r)
  <2>1. UNCHANGED <<snapshotVars, rowVars, worldVars>> BY <1>6 DEF Crash
  <2> QED BY <1>6, <2>1, EndFacts, Unbound, Advances DEF Crash
<1> QED BY <1>1, <1>2, <1>3, <1>4, <1>5, <1>6

\* The events that change the node.
LEMMA InvEvent ==
  ASSUME TypeOK, TypeOK', OutboxInv,
         \/ \E r \in Runners : \/ StartPublication(r) \/ PublishConfirmed(r)
                               \/ PublishFailed(r) \/ Stop(r)
         \/ Campaign
  PROVE  OutboxInv'
<1> USE Constants
<1>1. ASSUME NEW r \in Runners, StartPublication(r) PROVE OutboxInv'
  <2>1. /\ campaign = "RUNNING" /\ phase = "READY_TO_PUBLISH" /\ done + 1 \in Ops
        /\ phase' = "PUBLISHING" /\ pending' = done + 1
        /\ UNCHANGED <<campaign, done, proc, sent, present>>
    BY <1>1 DEF StartPublication, TypeOK, Ops
  <2>2. /\ row'[done + 1] = "PREPARED"
        /\ \A o \in Ops \ {done + 1} : row'[o] = row[o]
    BY <1>1, <2>1 DEF StartPublication, TypeOK
  <2>3. row[done + 1] = None
    BY <2>1 DEF OutboxInv, SequenceInv, TypeOK
  <2>4. ASSUME NEW q \in Runners PROVE ProcessInv(q)'
    <3>1. ProcessInv(q) /\ proc'[q] = proc[q] BY <2>1 DEF OutboxInv
    <3>2. CASE proc[q].pc \in WorkPlaces
      <4>1. proc[q].op \in Ops BY <3>1, <3>2 DEF ProcessInv
      <4> QED BY <2>1, <2>2, <2>3, <3>1, <4>1 DEF ProcessInv, EffectStates
    <3>3. CASE proc[q].pc \notin WorkPlaces
      BY <3>1, <3>3 DEF ProcessInv, WorkPlaces, OwnerPlaces, Places
    <3> QED BY <3>2, <3>3
  <2>5. OwnerUnique' BY <2>1 DEF OutboxInv, OwnerUnique
  <2>6. SequenceInv'
    BY <2>1, <2>2 DEF OutboxInv, SequenceInv, EffectStates, TypeOK
  <2>7. RowInv'
    <3>1. sent[done + 1] = 0
      BY <2>1, <2>3 DEF OutboxInv, RowInv, CleanMeansUnsent
    <3>2. AtMostOneMutation' BY <2>1 DEF OutboxInv, RowInv, AtMostOneMutation
    <3>3. CleanMeansUnsent'
      BY <2>1, <2>2, <3>1 DEF OutboxInv, RowInv, CleanMeansUnsent
    <3>4. \A o \in Ops : row'[o] = "CONFIRMED" => o \in present'
      BY <2>1, <2>2 DEF OutboxInv, RowInv
    <3>5. \A o \in 1..done' : row'[o] = "CONFIRMED"
      <4>1. \A o \in 1..done : o \in Ops \ {done + 1} BY DEF TypeOK, Ops
      <4> QED BY <2>1, <2>2, <4>1 DEF OutboxInv, RowInv
    <3>6. StopSettled' BY <2>1 DEF StopSettled
    <3> QED BY <3>2, <3>3, <3>4, <3>5, <3>6 DEF RowInv
  <2> QED BY <2>4, <2>5, <2>6, <2>7 DEF OutboxInv
<1>2. ASSUME NEW r \in Runners, PublishConfirmed(r) PROVE OutboxInv'
  <2>1. /\ proc'[r].pc = "idle" /\ \A q \in Runners \ {r} : proc'[q] = proc[q]
        /\ UNCHANGED <<rowVars, worldVars>>
        /\ proc[r].op \in Ops /\ row[proc[r].op] = "CONFIRMED"
    BY <1>2, EndFacts DEF PublishConfirmed, At, OutboxInv, ProcessInv, WorkPlaces, Places
  <2>2. CASE Accepting /\ phase = "PUBLISHING" /\ pending = proc[r].op
    <3>1. /\ pending = done + 1 /\ done + 1 \in Ops /\ row[done + 1] = "CONFIRMED"
      BY <2>1, <2>2 DEF OutboxInv, SequenceInv
    <3>2. /\ done' = done + 1 /\ pending' = None
          /\ phase' = IF done + 1 = EffectCount THEN "DONE" ELSE "READY_TO_PUBLISH"
          /\ campaign' = IF done + 1 = EffectCount THEN "COMPLETED" ELSE campaign
      BY <1>2, <2>2 DEF PublishConfirmed
    <3>3. \A q \in Runners : ProcessInv(q)'
      BY <2>1, Unbound DEF OutboxInv, ProcessInv
    <3>4. OwnerUnique'
      BY <2>1 DEF OutboxInv, OwnerUnique, OwnerPlaces
    <3>5. SequenceInv'
      BY <2>1, <2>2, <3>1, <3>2 DEF OutboxInv, SequenceInv, TypeOK, Ops, Accepting
    <3>6. RowInv'
      <4>1. AtMostOneMutation' /\ CleanMeansUnsent'
        BY <2>1 DEF OutboxInv, RowInv, AtMostOneMutation, CleanMeansUnsent
      <4>2. \A o \in 1..done' : row'[o] = "CONFIRMED"
        BY <2>1, <3>1, <3>2 DEF OutboxInv, RowInv, TypeOK
      <4>3. StopSettled' BY <2>2, <3>2 DEF StopSettled, Accepting
      <4> QED BY <2>1, <4>1, <4>2, <4>3 DEF OutboxInv, RowInv
    <3> QED BY <3>3, <3>4, <3>5, <3>6 DEF OutboxInv
  <2>3. CASE ~(Accepting /\ phase = "PUBLISHING" /\ pending = proc[r].op)
    <3>1. UNCHANGED <<done, pending, phase, campaign>> BY <1>2, <2>3 DEF PublishConfirmed
    <3> QED BY <2>1, <3>1, Unbound, Advances
  <2> QED BY <2>2, <2>3
<1>3. ASSUME /\ FailExactNode \/ Wait \/ Resume \/ AdvanceAuthority
             /\ Accepting /\ UNCHANGED <<rowVars, worldVars>>,
             \A q \in Runners : proc'[q] = proc[q] \/ proc'[q].pc = "idle"
      PROVE OutboxInv'
  <2>1. \A q \in Runners : ProcessInv(q)'
    BY <1>3 DEF OutboxInv, ProcessInv, WorkPlaces, OwnerPlaces
  <2>2. OwnerUnique' BY <1>3 DEF OutboxInv, OwnerUnique, OwnerPlaces
  <2>3. SequenceInv'
    BY <1>3 DEF OutboxInv, SequenceInv, FailExactNode, Wait, Resume,
                AdvanceAuthority, Accepting
  <2>4. RowInv'
    <3>1. campaign' # "CANCELLED" /\ done' = done
      BY <1>3 DEF FailExactNode, Wait, Resume, AdvanceAuthority
    <3> QED BY <1>3, <3>1 DEF OutboxInv, RowInv, StopSettled, AtMostOneMutation,
                CleanMeansUnsent
  <2> QED BY <2>1, <2>2, <2>3, <2>4 DEF OutboxInv
<1>4. ASSUME NEW r \in Runners, PublishFailed(r) PROVE OutboxInv'
  <2>1. /\ proc'[r].pc = "idle" /\ \A q \in Runners \ {r} : proc'[q] = proc[q]
        /\ UNCHANGED <<rowVars, worldVars>>
    BY <1>4, EndFacts DEF PublishFailed
  <2>2. CASE Accepting /\ FailExactNode BY <1>3, <2>1, <2>2
  <2>3. CASE UNCHANGED <<snapshotVars, fresh>> BY <2>1, <2>3, Unbound, Advances
  <2> QED BY <1>4, <2>2, <2>3 DEF PublishFailed
<1>5. CASE Campaign
  <2>1. /\ FailExactNode \/ Wait \/ Resume \/ AdvanceAuthority
        /\ Accepting /\ UNCHANGED <<rowVars, worldVars, proc>>
    BY <1>5 DEF Campaign, FailNode, Wait, Resume, AdvanceAuthority, Accepting
  <2> QED BY <1>3, <2>1
<1>6. ASSUME NEW r \in Runners, Stop(r) PROVE OutboxInv'
  <2>1. CASE r \in fresh /\ Accepting
    <3>1. /\ proc'[r].pc = "sweep" /\ \A q \in Runners \ {r} : proc'[q] = proc[q]
          /\ campaign' = "CANCELLED" /\ done' = done
          /\ phase' \in {"DONE", "FAILED_EXACT_NODE", "CANCELLED"}
          /\ UNCHANGED <<bound, worldVars>>
      BY <1>6, <2>1, GotoFacts DEF Stop, Places
    <3>2. \A o \in Ops : row'[o] = StopRow(row[o])
      BY <1>6, <2>1 DEF Stop
    <3>3. ASSUME NEW q \in Runners PROVE ProcessInv(q)'
      <4>1. CASE proc'[q].pc \in {"idle", "stop", "sweep"} BY <4>1, Unbound
      <4>2. CASE proc'[q].pc \notin {"idle", "stop", "sweep"}
        <5>1. proc'[q] = proc[q] /\ proc[q].pc \in WorkPlaces /\ ProcessInv(q)
          BY <3>1, <4>2 DEF TypeOK, Process, WorkPlaces, OutboxInv
        <5>2. proc[q].op \in Ops /\ row'[proc[q].op] = StopRow(row[proc[q].op])
          BY <3>2, <5>1 DEF ProcessInv
        <5> QED BY <3>1, <5>1, <5>2 DEF ProcessInv, StopRow
      <4> QED BY <4>1, <4>2
    <3>4. OwnerUnique' BY <3>1 DEF OutboxInv, OwnerUnique, OwnerPlaces
    <3>5. SequenceInv'
      <4>1. \A o \in Ops : row'[o] # None => row[o] # None BY <3>2 DEF StopRow, EffectStates
      <4> QED BY <3>1, <4>1 DEF OutboxInv, SequenceInv
    <3>6. RowInv'
      <4>1. AtMostOneMutation' BY <3>1 DEF OutboxInv, RowInv, AtMostOneMutation
      <4>2. CleanMeansUnsent'
        BY <3>1, <3>2 DEF OutboxInv, RowInv, CleanMeansUnsent, StopRow, EffectStates
      <4>3. \A o \in Ops : row'[o] = "CONFIRMED" => o \in present'
        BY <3>1, <3>2 DEF OutboxInv, RowInv, StopRow
      <4>4. \A o \in 1..done' : row'[o] = "CONFIRMED"
        <5>1. \A o \in 1..done : o \in Ops BY DEF TypeOK, Ops
        <5> QED BY <3>1, <3>2, <5>1 DEF OutboxInv, RowInv, StopRow
      <4>5. StopSettled' BY <3>2 DEF StopSettled, StopRow
      <4> QED BY <4>1, <4>2, <4>3, <4>4, <4>5 DEF RowInv
    <3> QED BY <3>3, <3>4, <3>5, <3>6 DEF OutboxInv
  <2>2. CASE ~(r \in fresh /\ Accepting)
    <3>1. End(r) /\ UNCHANGED <<snapshotVars, rowVars, worldVars>> BY <1>6, <2>2 DEF Stop
    <3> QED BY <3>1, EndFacts, Unbound, Advances
  <2> QED BY <2>1, <2>2
<1> QED BY <1>1, <1>2, <1>4, <1>5, <1>6

\* What happens outside only ever adds to what can be observed.
LEMMA InvWorld ==
  ASSUME TypeOK, OutboxInv, World
  PROVE  OutboxInv'
<1>1. /\ present \subseteq present'
      /\ UNCHANGED <<snapshotVars, rowVars, proc, sent>>
  BY DEF World, Land, Lose, Outside
<1>2. \A q \in Runners : ProcessInv(q)' BY <1>1 DEF OutboxInv, ProcessInv
<1>3. OwnerUnique' BY <1>1 DEF OutboxInv, OwnerUnique
<1>4. SequenceInv' BY <1>1 DEF OutboxInv, SequenceInv
<1>5. RowInv'
  BY <1>1 DEF OutboxInv, RowInv, AtMostOneMutation, CleanMeansUnsent, StopSettled
<1> QED BY <1>2, <1>3, <1>4, <1>5 DEF OutboxInv

LEMMA OutboxInit == Init => TypeOK /\ OutboxInv
<1> SUFFICES ASSUME Init PROVE TypeOK /\ OutboxInv OBVIOUS
<1> USE Constants, OutboxAssumption
<1>1. TypeOK
  BY DEF Init, TypeOK, CampaignStates, PhaseStates, Idle, Process, Places, Jobs, Ops
<1>2. \A r \in Runners : ProcessInv(r)
  BY DEF Init, Idle, ProcessInv, WorkPlaces, OwnerPlaces
<1>3. OwnerUnique BY DEF Init, Idle, OwnerUnique, OwnerPlaces
<1>4. SequenceInv BY DEF Init, SequenceInv, Ops
<1>5. RowInv
  BY DEF Init, RowInv, AtMostOneMutation, CleanMeansUnsent, StopSettled, EffectStates
<1> QED BY <1>1, <1>2, <1>3, <1>4, <1>5 DEF OutboxInv

LEMMA OutboxStep ==
  ASSUME TypeOK, OutboxInv, [Next]_vars
  PROVE  TypeOK' /\ OutboxInv'
<1>1. CASE UNCHANGED vars
  <2>1. TypeOK' BY <1>1 DEF vars, TypeOK
  <2>2. \A r \in Runners : ProcessInv(r)' BY <1>1 DEF vars, OutboxInv, ProcessInv
  <2>3. OwnerUnique' /\ SequenceInv' BY <1>1 DEF vars, OutboxInv, OwnerUnique, SequenceInv
  <2>4. RowInv' BY <1>1 DEF vars, OutboxInv, RowInv, AtMostOneMutation,
                      CleanMeansUnsent, StopSettled
  <2> QED BY <2>1, <2>2, <2>3, <2>4 DEF OutboxInv
<1>2. ASSUME NEW r \in Runners, Proceed(r) PROVE TypeOK' /\ OutboxInv'
  <2>1. TypeOK' BY <1>2, TypeProceed
  <2> QED BY <1>2, <2>1, InvRun, InvWrite, InvExecute, InvAnswer, InvCommand, InvEvent
          DEF Proceed
<1>3. ASSUME NEW r \in Runners, Command(r) \/ Crash(r) PROVE TypeOK' /\ OutboxInv'
  <2>1. TypeOK' BY <1>3, TypeOther
  <2> QED BY <1>3, <2>1, InvCommand, InvEvent DEF Command
<1>4. CASE Campaign BY <1>4, TypeOther, InvEvent
<1>5. CASE World BY <1>5, TypeOther, InvWorld
<1> QED BY <1>1, <1>2, <1>3, <1>4, <1>5 DEF Next

LEMMA OutboxInductive == Spec => [](TypeOK /\ OutboxInv)
<1>1. Init => TypeOK /\ OutboxInv BY OutboxInit
<1>2. TypeOK /\ OutboxInv /\ [Next]_vars => (TypeOK /\ OutboxInv)' BY OutboxStep
<1> QED BY <1>1, <1>2, PTL DEF Spec

-----------------------------------------------------------------------------
(* Theorems.                                                               *)

\* The outbox, the snapshot and the processes keep their types, for every
\* number of processes, effects and tokens: a reconciliation never overdraws
\* its budget and the node never counts more effects than were approved.
THEOREM OutboxTypeCorrect == Spec => []TypeOK
BY OutboxInductive, PTL

\* However many engine processes share the store, run, die and recover, the
\* driver of effects.py starts at most one mutation per operation.
THEOREM AtMostOneMutationAlways == Spec => []AtMostOneMutation
<1>1. TypeOK /\ OutboxInv => AtMostOneMutation BY DEF OutboxInv, RowInv
<1> QED BY <1>1, OutboxInductive, PTL

\* A row that reads PREPARED, FAILED or CANCELLED proves that no process
\* started its mutation.
THEOREM CleanMeansUnsentAlways == Spec => []CleanMeansUnsent
<1>1. TypeOK /\ OutboxInv => CleanMeansUnsent BY DEF OutboxInv, RowInv
<1> QED BY <1>1, OutboxInductive, PTL

\* The approved effects are delivered in their order, each observed before the
\* next is sent, and a completed campaign delivered all of them.
THEOREM DeliveredInOrderAlways == Spec => []DeliveredInOrder
<1>1. TypeOK /\ OutboxInv => DeliveredInOrder
  <2> SUFFICES ASSUME TypeOK, OutboxInv PROVE DeliveredInOrder OBVIOUS
  <2>1. \A o \in Ops : sent[o] > 0 => row[o] # None
    BY DEF OutboxInv, RowInv, CleanMeansUnsent
  <2>2. \A o \in Ops : sent[o] > 0 => o <= done + 1
    BY <2>1 DEF OutboxInv, SequenceInv
  <2> QED BY <2>2 DEF OutboxInv, RowInv, SequenceInv, DeliveredInOrder
<1> QED BY <1>1, OutboxInductive, PTL

\* After STOP no effect can begin and none claims to be running, whatever the
\* other processes were doing when the campaign was cancelled.
THEOREM StopSettledAlways == Spec => []StopSettled
<1>1. TypeOK /\ OutboxInv => StopSettled BY DEF OutboxInv, RowInv
<1> QED BY <1>1, OutboxInductive, PTL

\* The rows of settled and of uncertain operations in one step of the system.
RowSettled(o) ==
  /\ row[o] = "AMBIGUOUS" => row'[o] \in {"AMBIGUOUS", "CONFIRMED"}
  /\ row[o] \in {"CONFIRMED", "FAILED", "CANCELLED"} => row'[o] = row[o]

LEMMA SettledStep ==
  ASSUME TypeOK, OutboxInv, [Next]_vars, NEW o \in Ops
  PROVE  RowSettled(o)
<1> USE Constants
<1>1. CASE row' = row BY <1>1 DEF RowSettled
<1>2. ASSUME NEW r \in Runners, Claim(r) \/ Conclude(r) PROVE RowSettled(o)
  <2>1. \E from \in {"PREPARED", "EXECUTING"} : \E to, place : Update(r, from, to, place)
    BY <1>2 DEF Claim, Conclude
  <2>2. \/ row' = row
        \/ \E to : /\ row[proc[r].op] \in {"PREPARED", "EXECUTING"}
                   /\ row' = [row EXCEPT ![proc[r].op] = to]
    BY <2>1 DEF Update, Updates, Expected
  <2> QED BY <2>2 DEF TypeOK, RowSettled
<1>3. ASSUME NEW r \in Runners, Answer(r) PROVE RowSettled(o)
  <2>1. \/ row' = row
        \/ \E to \in {"AMBIGUOUS", "CONFIRMED"} :
             /\ row[proc[r].op] = "AMBIGUOUS"
             /\ row' = [row EXCEPT ![proc[r].op] = to]
    BY <1>3 DEF Answer, Updates, Expected, AbsentState
  <2> QED BY <2>1 DEF TypeOK, RowSettled
<1>4. ASSUME NEW r \in Runners, Recover(r) PROVE RowSettled(o)
  BY <1>4 DEF Recover, Interrupted, RowSettled
<1>5. ASSUME NEW r \in Runners, Stop(r) PROVE RowSettled(o)
  BY <1>5 DEF Stop, StopRow, RowSettled
<1>6. ASSUME NEW r \in Runners, StartPublication(r) PROVE RowSettled(o)
  <2>1. row[done + 1] = None /\ done + 1 \in Ops
    BY <1>6 DEF StartPublication, OutboxInv, SequenceInv, TypeOK, Ops
  <2>2. row' = [row EXCEPT ![done + 1] = "PREPARED"] BY <1>6 DEF StartPublication
  <2> QED BY <2>1, <2>2 DEF TypeOK, RowSettled, EffectStates
<1>7. ASSUME NEW r \in Runners,
             \/ ReadRow(r) \/ Preflight(r) \/ Execute(r) \/ Confirm(r)
             \/ PublishConfirmed(r) \/ PublishFailed(r) \/ ReadAmbiguous(r)
             \/ Query(r) \/ Sweep(r) \/ Step(r) \/ Reconcile(r) \/ StopRead(r)
             \/ Crash(r)
      PROVE  row' = row
  BY <1>7 DEF ReadRow, Preflight, Execute, Confirm, PublishConfirmed, PublishFailed,
     ReadAmbiguous, Query, Sweep, Step, Reconcile, StopRead, Crash
<1>8. CASE Campaign \/ World
  BY <1>1, <1>8 DEF Campaign, FailNode, Wait, Resume, AdvanceAuthority, World, Land,
     Lose, Outside
<1>9. CASE UNCHANGED vars BY <1>1, <1>9 DEF vars
<1> QED BY <1>1, <1>2, <1>3, <1>4, <1>5, <1>6, <1>7, <1>8, <1>9
        DEF Next, Proceed, Command

\* Reconciliation never executes again and never writes an uncertain effect
\* off: a row leaves AMBIGUOUS only for CONFIRMED, and settled rows stay.
THEOREM AmbiguousOnlyConfirmsAlways == Spec => AmbiguousOnlyConfirms
<1>1. TypeOK /\ OutboxInv /\ [Next]_vars =>
        [\A o \in Ops :
           /\ row[o] = "AMBIGUOUS" => row'[o] \in {"AMBIGUOUS", "CONFIRMED"}
           /\ row[o] \in {"CONFIRMED", "FAILED", "CANCELLED"} => row'[o] = row[o]]_vars
  BY SettledStep DEF RowSettled
<1> QED BY <1>1, OutboxInductive, PTL DEF Spec, AmbiguousOnlyConfirms
=============================================================================
