-------------------------------- MODULE Outbox --------------------------------
(***************************************************************************)
(* Publication effects: ExternalEffectDriver (campaign_engine/effects.py), *)
(* the outbox rows of CampaignStore and the supervisor commands that drive *)
(* them (step, reconcile, cancel, recover), run by several processes that  *)
(* share only the store and may die between any two steps.                 *)
(*                                                                         *)
(* One node delivers effects 1..EffectCount in order.  The operation id of *)
(* an effect is a digest of campaign, node, kind and head, so it is the    *)
(* position here.  Payloads, digests and result texts are left out.  A     *)
(* store transaction is one step; so is reading a snapshot and applying an *)
(* event to it, because the revision compare-and-swap rejects the event    *)
(* when another one came between.  cancel() reads more than the snapshot   *)
(* before its event: for it the revision is kept, as membership in fresh.  *)
(* run(cancelled=True) has no caller and is left out.                      *)
(***************************************************************************)
EXTENDS Integers, FiniteSets

CONSTANTS
  Runners,          \* engine processes
  EffectCount,      \* length of the approved publication sequence
  ReconcileBudget,  \* RECONCILIATION tokens of the specification
  MaxAuthority,     \* bound on the authority epoch
  OutsideWrites,    \* TRUE: others may bring about an effect themselves
  None              \* no operation, no fencing epoch

Ops == 1..EffectCount
EffectStates == {"PREPARED", "EXECUTING", "CONFIRMED", "FAILED", "AMBIGUOUS",
                 "CANCELLED"}

ASSUME OutboxAssumption ==
  /\ EffectCount \in Nat \ {0}
  /\ ReconcileBudget \in Nat
  /\ MaxAuthority \in Nat
  /\ OutsideWrites \in BOOLEAN
  /\ None \notin Nat \cup EffectStates

TerminalStates == {"COMPLETED", "FAILED", "CANCELLED"}
CampaignStates == {"RUNNING", "WAITING_HUMAN"} \cup TerminalStates
PhaseStates == {"READY_TO_PUBLISH", "PUBLISHING", "DONE", "FAILED_EXACT_NODE",
                "CANCELLED"}

\* Where a process is: the call it is about to make.
Places == {"idle", "run", "preflight", "found", "broken", "clear", "seen", "fail",
  "claimed", "drift", "drifted", "sent", "uncertain", "unconfirmed", "proved",
  "restart", "reconcile", "query", "answered", "absent", "confirmed",
  "rejected", "stop", "sweep"}
\* What it was started for: a publication step, reconcile or recover (which
\* pay for each query), or cancel.
Jobs == {"none", "run", "recover", "cancel"}

VARIABLES
  campaign, phase,           \* state of the campaign and of the node
  done,                      \* number of confirmed effects
  pending,                   \* pending_publication_operation_id
  authorityEpoch, cancellationEpoch,
  fencingEpoch,              \* of the node
  reconciliations,           \* RECONCILIATION tokens left
  row,                       \* outbox: state of the operation's row
  bound,                     \* outbox: epochs the row was prepared under
  proc,                      \* the processes
  fresh,                     \* processes whose snapshot is still current
  sent,                      \* mutations started for the operation
  inflight,                  \* mutations the provider may still apply
  present                    \* the effect can be observed outside

snapshotVars == <<campaign, phase, done, pending, authorityEpoch,
                  cancellationEpoch, fencingEpoch, reconciliations>>
rowVars == <<row, bound>>
worldVars == <<sent, inflight, present>>
vars == <<snapshotVars, rowVars, proc, fresh, worldVars>>

Idle == [pc |-> "idle", op |-> None, job |-> "none", todo |-> {}]

Init ==
  /\ campaign = "RUNNING"
  /\ phase = "READY_TO_PUBLISH"
  /\ done = 0
  /\ pending = None
  /\ authorityEpoch = 0
  /\ cancellationEpoch = 0
  /\ fencingEpoch = 1
  /\ reconciliations = ReconcileBudget
  /\ row = [o \in Ops |-> None]
  /\ bound = [o \in Ops |-> None]
  /\ proc = [r \in Runners |-> Idle]
  /\ fresh = {}
  /\ sent = [o \in Ops |-> 0]
  /\ inflight = {}
  /\ present = {}

-----------------------------------------------------------------------------
(* The store.                                                              *)

\* EFFECT_TRANSITIONS; None: the row does not exist.
Transitions == [s \in EffectStates \cup {None} |->
  CASE s = "PREPARED" -> {"EXECUTING", "CANCELLED"}
    [] s = "EXECUTING" -> {"CONFIRMED", "FAILED", "AMBIGUOUS", "CANCELLED"}
    [] s = "AMBIGUOUS" -> {"CONFIRMED", "FAILED", "CANCELLED"}
    [] OTHER -> {}]

\* mutant: update_effect does not compare the state the caller expects
Expected_Any(o, from) == row[o] # None

Expected(o, from) == row[o] = from

\* The checks of a row that is about to execute.
MayExecute(o) ==
  /\ campaign # "CANCELLED"
  /\ bound[o].authority = authorityEpoch
  /\ bound[o].cancellation = cancellationEpoch
  /\ bound[o].fence # None => bound[o].fence = fencingEpoch

\* update_effect(o, expected_state=from, state=to) succeeds.
Updates(o, from, to) ==
  /\ Expected(o, from)
  /\ \/ to = row[o]
     \/ /\ to \in Transitions[row[o]]
        /\ to = "EXECUTING" => MayExecute(o)

At(r, place) == proc[r].pc = place

Goto(r, place) == proc' = [proc EXCEPT ![r].pc = place]

\* The command ends, by returning or by an exception that leaves it.
End(r) == proc' = [proc EXCEPT ![r] = Idle]

\* Process r writes its row; when the store refuses, the exception ends it.
Update(r, from, to, place) ==
  /\ \/ /\ Updates(proc[r].op, from, to)
        /\ row' = [row EXCEPT ![proc[r].op] = to]
        /\ IF place = "idle" THEN End(r) ELSE Goto(r, place)
     \/ /\ ~Updates(proc[r].op, from, to)
        /\ End(r)
        /\ UNCHANGED row
  /\ UNCHANGED <<snapshotVars, bound, fresh, worldVars>>

-----------------------------------------------------------------------------
(* Events of the reducer that concern a publishing node.                   *)

Accepting == campaign \notin TerminalStates

\* An event was applied: every revision read before it is stale.
Applied == fresh' = {}

\* start_publication: START_PUBLISH inserts the row in the same transaction.
\* The supervisor gives the event no fencing epoch, so the row has none.
StartPublication(r) ==
  /\ At(r, "idle")
  /\ campaign = "RUNNING" /\ phase = "READY_TO_PUBLISH" /\ done < EffectCount
  /\ phase' = "PUBLISHING"
  /\ pending' = done + 1
  /\ row' = [row EXCEPT ![done + 1] = "PREPARED"]
  /\ bound' = [bound EXCEPT ![done + 1] =
       [authority |-> authorityEpoch, cancellation |-> cancellationEpoch,
        fence |-> None]]
  /\ Applied
  /\ UNCHANGED <<campaign, done, authorityEpoch, cancellationEpoch,
       fencingEpoch, reconciliations, proc, worldVars>>

\* _complete_publication_record of a CONFIRMED row: PUBLISH_CONFIRMED, or the
\* reducer rejects it because the node moved on.
PublishConfirmed(r) ==
  LET accepted == Accepting /\ phase = "PUBLISHING" /\ pending = proc[r].op
      last == done + 1 = EffectCount
  IN /\ At(r, "confirmed")
     /\ End(r)
     /\ IF accepted
        THEN /\ done' = done + 1
             /\ pending' = None
             /\ phase' = IF last THEN "DONE" ELSE "READY_TO_PUBLISH"
             /\ campaign' = IF last THEN "COMPLETED" ELSE campaign
             /\ Applied
        ELSE UNCHANGED <<done, pending, phase, campaign, fresh>>
     /\ UNCHANGED <<authorityEpoch, cancellationEpoch, fencingEpoch,
          reconciliations, rowVars, worldVars>>

\* _fail_exact_node for this node.
FailExactNode ==
  /\ phase' = "FAILED_EXACT_NODE"
  /\ campaign' = "FAILED"
  /\ fencingEpoch' = fencingEpoch + 1
  /\ Applied
  /\ UNCHANGED <<done, pending, authorityEpoch, cancellationEpoch, reconciliations>>

\* PUBLISH_FAILED for a FAILED or CANCELLED row, and the FAIL_NODE with which
\* step() answers changed acceptance sources.
PublishFailed(r) ==
  /\ At(r, "rejected") \/ At(r, "drifted")
  /\ End(r)
  /\ IF /\ Accepting
        /\ At(r, "rejected") => phase = "PUBLISHING"
     THEN FailExactNode
     ELSE UNCHANGED <<snapshotVars, fresh>>
  /\ UNCHANGED <<rowVars, worldVars>>

\* FAIL_NODE from a deadline, a budget or a publication preflight.
FailNode ==
  /\ Accepting
  /\ FailExactNode
  /\ UNCHANGED <<rowVars, proc, worldVars>>

Wait ==
  /\ campaign = "RUNNING"
  /\ campaign' = "WAITING_HUMAN"
  /\ Applied
  /\ UNCHANGED <<phase, done, pending, authorityEpoch, cancellationEpoch,
       fencingEpoch, reconciliations, rowVars, proc, worldVars>>

Resume ==
  /\ campaign = "WAITING_HUMAN"
  /\ campaign' = "RUNNING"
  /\ Applied
  /\ UNCHANGED <<phase, done, pending, authorityEpoch, cancellationEpoch,
       fencingEpoch, reconciliations, rowVars, proc, worldVars>>

AdvanceAuthority ==
  /\ campaign = "WAITING_HUMAN"
  /\ authorityEpoch < MaxAuthority
  /\ authorityEpoch' = authorityEpoch + 1
  /\ Applied
  /\ UNCHANGED <<campaign, phase, done, pending, cancellationEpoch,
       fencingEpoch, reconciliations, rowVars, proc, worldVars>>

-----------------------------------------------------------------------------
(* ExternalEffectDriver.run                                                *)

\* step() finds the node publishing.  An EXECUTING or AMBIGUOUS row makes it
\* yield until the effect is reconciled.
Step(r) ==
  LET s == row[pending]
  IN /\ At(r, "idle")
     /\ campaign = "RUNNING" /\ phase = "PUBLISHING"
     /\ s \in {"PREPARED", "CONFIRMED", "FAILED", "CANCELLED"}
     /\ proc' = [proc EXCEPT ![r] =
          [pc |-> CASE s = "PREPARED" -> "run"
                    [] s = "CONFIRMED" -> "confirmed"
                    [] OTHER -> "rejected",
           op |-> pending, job |-> "run", todo |-> {}]]
     /\ UNCHANGED <<snapshotVars, rowVars, fresh, worldVars>>

\* run() reads the row again.
ReadRow(r) ==
  /\ At(r, "run")
  /\ Goto(r, CASE row[proc[r].op] = "PREPARED" -> "preflight"
               [] row[proc[r].op] = "EXECUTING" -> "restart"
               [] row[proc[r].op] = "AMBIGUOUS" -> "reconcile"
               [] row[proc[r].op] = "CONFIRMED" -> "confirmed"
               [] OTHER -> "rejected")
  /\ UNCHANGED <<snapshotVars, rowVars, fresh, worldVars>>

\* mutant: whatever the provider answered counts as confirmation
Observed_Answer(o) == TRUE

\* query(): the effect is there, for whatever reason.
Observed(o) == o \in present

\* The campaign contract and the query before the mutation; either may raise.
Preflight(r) ==
  /\ At(r, "preflight")
  /\ \/ Goto(r, IF Observed(proc[r].op) THEN "found" ELSE "clear")
     \/ Goto(r, "broken")
  /\ UNCHANGED <<snapshotVars, rowVars, fresh, worldVars>>

\* PREPARED -> EXECUTING, on the way to CONFIRMED, to FAILED or to the mutation.
Claim(r) ==
  \/ At(r, "found") /\ Update(r, "PREPARED", "EXECUTING", "seen")
  \/ At(r, "broken") /\ Update(r, "PREPARED", "EXECUTING", "fail")
  \/ At(r, "clear") /\ Update(r, "PREPARED", "EXECUTING", "claimed")

\* mutant: a mutation that timed out or exited nonzero is reported failed
Outcomes_Clean == {"sent", "fail"}

\* A started mutation returned, or raised AmbiguousMutation.
Outcomes == {"sent", "uncertain"}

\* execute(): raises before any mutation (sources drifted, or another error),
\* finds the effect there and replays it, or starts the one mutation.
Execute(r) ==
  LET o == proc[r].op
  IN /\ At(r, "claimed")
     /\ \/ /\ Goto(r, "drift") \/ Goto(r, "fail")
           /\ UNCHANGED worldVars
        \/ /\ Observed(o)
           /\ Goto(r, "sent")
           /\ UNCHANGED worldVars
        \/ /\ \E place \in Outcomes : Goto(r, place)
           /\ sent' = [sent EXCEPT ![o] = @ + 1]
           /\ inflight' = inflight \cup {o}
           /\ UNCHANGED present
     /\ UNCHANGED <<snapshotVars, rowVars, fresh>>

\* The confirmation query; it may fail.
Confirm(r) ==
  /\ At(r, "sent")
  /\ \/ Observed(proc[r].op) /\ Goto(r, "proved")
     \/ Goto(r, "unconfirmed")
  /\ UNCHANGED <<snapshotVars, rowVars, fresh, worldVars>>

\* The writes that end an execution.
Conclude(r) ==
  \/ At(r, "seen") /\ Update(r, "EXECUTING", "CONFIRMED", "confirmed")
  \/ At(r, "proved") /\ Update(r, "EXECUTING", "CONFIRMED", "confirmed")
  \/ At(r, "fail") /\ Update(r, "EXECUTING", "FAILED", "rejected")
  \/ At(r, "drift") /\ Update(r, "EXECUTING", "FAILED", "drifted")
  \/ At(r, "unconfirmed") /\ Update(r, "EXECUTING", "AMBIGUOUS", "idle")
  \/ At(r, "uncertain") /\ Update(r, "EXECUTING", "AMBIGUOUS", "reconcile")
  \/ At(r, "restart") /\ Update(r, "EXECUTING", "AMBIGUOUS", "reconcile")

-----------------------------------------------------------------------------
(* ExternalEffectDriver.reconcile: it only ever queries.                   *)

ReadAmbiguous(r) ==
  LET s == row[proc[r].op]
  IN /\ At(r, "reconcile")
     /\ CASE s = "CONFIRMED" /\ proc[r].job = "run" -> Goto(r, "confirmed")
          [] s = "CONFIRMED" /\ proc[r].job # "run" ->
               proc' = [proc EXCEPT ![r].pc = "sweep", ![r].todo = @ \ {proc[r].op}]
          [] s = "AMBIGUOUS" -> Goto(r, "query")
          [] OTHER -> End(r)
     /\ UNCHANGED <<snapshotVars, rowVars, fresh, worldVars>>

\* The query may fail, which is treated like absence.
Query(r) ==
  /\ At(r, "query")
  /\ \/ Observed(proc[r].op) /\ Goto(r, "answered")
     \/ Goto(r, "absent")
  /\ UNCHANGED <<snapshotVars, rowVars, fresh, worldVars>>

\* mutant: an effect that cannot be observed is written off
AbsentState_Failed == "FAILED"

\* Absence is no proof of failure.
AbsentState == "AMBIGUOUS"

\* _complete_publication_record: the record states that let the node go on.
Delivers(s) == s = "CONFIRMED"

\* After the answer is written a publication step reports it, and reconcile,
\* recover and cancel go on with the next operation.
Answer(r) ==
  LET o == proc[r].op
      to == IF At(r, "answered") THEN "CONFIRMED" ELSE AbsentState
  IN /\ At(r, "answered") \/ At(r, "absent")
     /\ IF Updates(o, "AMBIGUOUS", to)
        THEN /\ row' = [row EXCEPT ![o] = to]
             /\ IF proc[r].job = "run"
                THEN IF Delivers(to) THEN Goto(r, "confirmed") ELSE End(r)
                ELSE proc' = [proc EXCEPT ![r].pc = "sweep", ![r].todo = @ \ {o}]
        ELSE End(r) /\ UNCHANGED row
     /\ UNCHANGED <<snapshotVars, bound, fresh, worldVars>>

-----------------------------------------------------------------------------
(* reconcile, recover and cancel.                                          *)

\* The reconcile command, for one operation or for all that are AMBIGUOUS now.
Reconcile(r) ==
  /\ At(r, "idle")
  /\ \E list \in {{o \in Ops : row[o] = "AMBIGUOUS"}} \cup
                 {{o} : o \in {p \in Ops : row[p] # None}} :
       /\ list # {}
       /\ proc' = [proc EXCEPT ![r] =
            [pc |-> "sweep", op |-> None, job |-> "recover", todo |-> list]]
  /\ UNCHANGED <<snapshotVars, rowVars, fresh, worldVars>>

\* mutant: restart recovery leaves interrupted executions as they are
Interrupted_Kept(s) == s

\* An execution found interrupted, by a restart or by STOP, is uncertain.
Interrupted(s) == IF s = "EXECUTING" THEN "AMBIGUOUS" ELSE s

\* recover: recover_after_restart interrupts every executing row, whether or
\* not a live process owns it, then reconciles what is AMBIGUOUS.
Recover(r) ==
  /\ At(r, "idle")
  /\ row' = [o \in Ops |-> Interrupted(row[o])]
  /\ proc' = [proc EXCEPT ![r] =
       [pc |-> "sweep", op |-> None, job |-> "recover",
        todo |-> {o \in Ops : Interrupted(row[o]) = "AMBIGUOUS"}]]
  /\ UNCHANGED <<snapshotVars, bound, fresh, worldVars>>

\* cancel: the snapshot and the executing rows are read first.
StopRead(r) ==
  /\ At(r, "idle")
  /\ Accepting
  /\ proc' = [proc EXCEPT ![r] =
       [pc |-> "stop", op |-> None, job |-> "cancel",
        todo |-> {o \in Ops : row[o] = "EXECUTING"}]]
  /\ fresh' = fresh \cup {r}
  /\ UNCHANGED <<snapshotVars, rowVars, worldVars>>

\* _persist_transition of CANCEL.
StopRow(s) ==
  CASE s = "PREPARED" -> "CANCELLED"
    [] s = "EXECUTING" -> "AMBIGUOUS"
    [] OTHER -> s

\* CANCEL under the revision read before; then what was executing is queried.
Stop(r) ==
  /\ At(r, "stop")
  /\ IF r \in fresh /\ Accepting
     THEN /\ campaign' = "CANCELLED"
          /\ phase' = IF phase \in {"DONE", "FAILED_EXACT_NODE"} THEN phase ELSE "CANCELLED"
          /\ cancellationEpoch' = cancellationEpoch + 1
          /\ row' = [o \in Ops |-> StopRow(row[o])]
          /\ Goto(r, "sweep")
          /\ Applied
          /\ UNCHANGED <<done, pending, authorityEpoch, fencingEpoch,
               reconciliations>>
     ELSE /\ End(r)
          /\ UNCHANGED <<snapshotVars, row, fresh>>
  /\ UNCHANGED <<bound, worldVars>>

CanReserve == campaign = "RUNNING" /\ reconciliations > 0

\* Operation o is next on the list.  supervisor.reconcile returns a settled row
\* as it is, and pays for the query while the campaign is live; without a token
\* it raises.
SweepNext(r, o) ==
  LET recovers == proc[r].job = "recover"
      pays == recovers /\ Accepting
      settled == recovers /\ row[o] \in {"CONFIRMED", "FAILED", "CANCELLED"}
  IN \/ /\ settled
        /\ proc' = [proc EXCEPT ![r].todo = @ \ {o}]
        /\ UNCHANGED <<reconciliations, fresh>>
     \/ /\ ~settled /\ pays /\ ~CanReserve
        /\ End(r)
        /\ UNCHANGED <<reconciliations, fresh>>
     \/ /\ ~settled
        /\ pays => CanReserve
        /\ proc' = [proc EXCEPT ![r].pc = "reconcile", ![r].op = o]
        /\ IF pays
           THEN reconciliations' = reconciliations - 1 /\ Applied
           ELSE UNCHANGED <<reconciliations, fresh>>

Sweep(r) ==
  /\ At(r, "sweep")
  /\ \/ proc[r].todo = {} /\ End(r) /\ UNCHANGED <<reconciliations, fresh>>
     \/ \E o \in proc[r].todo : SweepNext(r, o)
  /\ UNCHANGED <<campaign, phase, done, pending, authorityEpoch,
       cancellationEpoch, fencingEpoch, rowVars, worldVars>>

-----------------------------------------------------------------------------
(* Processes die; the provider applies or loses what it was sent; others   *)
(* may bring about the same effect (the exact head pushed by hand, say).   *)

Crash(r) ==
  /\ ~At(r, "idle")
  /\ End(r)
  /\ UNCHANGED <<snapshotVars, rowVars, fresh, worldVars>>

Land(o) ==
  /\ o \in inflight
  /\ inflight' = inflight \ {o}
  /\ present' = present \cup {o}
  /\ UNCHANGED <<snapshotVars, rowVars, proc, fresh, sent>>

Lose(o) ==
  /\ o \in inflight
  /\ inflight' = inflight \ {o}
  /\ UNCHANGED <<snapshotVars, rowVars, proc, fresh, sent, present>>

Outside(o) ==
  /\ OutsideWrites
  /\ o \notin present
  /\ present' = present \cup {o}
  /\ UNCHANGED <<snapshotVars, rowVars, proc, fresh, sent, inflight>>

\* A process that is under way takes its next step.
Proceed(r) ==
  \/ ReadRow(r) \/ Preflight(r) \/ Claim(r) \/ Execute(r) \/ Confirm(r)
  \/ Conclude(r) \/ PublishConfirmed(r) \/ PublishFailed(r)
  \/ ReadAmbiguous(r) \/ Query(r) \/ Answer(r) \/ Stop(r) \/ Sweep(r)

\* A command is started.
Command(r) ==
  \/ StartPublication(r) \/ Step(r)
  \/ Reconcile(r) \/ Recover(r) \/ StopRead(r)

Campaign == FailNode \/ Wait \/ Resume \/ AdvanceAuthority

World == \E o \in Ops : Land(o) \/ Lose(o) \/ Outside(o)

Next ==
  \/ \E r \in Runners : Proceed(r) \/ Command(r) \/ Crash(r)
  \/ Campaign
  \/ World

Spec == Init /\ [][Next]_vars

\* A live process keeps going, and the operator runs recovery every so often
\* (doctor --recover is the documented answer to an interrupted run).
FairSpec ==
  /\ Spec
  /\ \A r \in Runners : WF_vars(Proceed(r))
  /\ SF_vars(\E r \in Runners : Recover(r))
-----------------------------------------------------------------------------
(* Properties.                                                             *)

Epochs == [authority: Nat, cancellation: Nat, fence: Nat \cup {None}]
Process == [pc: Places, op: Ops \cup {None}, job: Jobs, todo: SUBSET Ops]

\* Every variable keeps its type; a process that works on an operation names
\* it, and a row remembers the epochs it was prepared under.
TypeOK ==
  /\ campaign \in CampaignStates
  /\ phase \in PhaseStates
  /\ done \in 0..EffectCount
  /\ pending \in Ops \cup {None}
  /\ authorityEpoch \in Nat
  /\ cancellationEpoch \in Nat
  /\ fencingEpoch \in Nat
  /\ reconciliations \in Nat
  /\ row \in [Ops -> EffectStates \cup {None}]
  /\ bound \in [Ops -> Epochs \cup {None}]
  /\ proc \in [Runners -> Process]
  /\ fresh \subseteq Runners
  /\ sent \in [Ops -> Nat]
  /\ inflight \subseteq Ops
  /\ present \subseteq Ops

\* However many processes run, die, recover and reconcile, one operation
\* starts at most one mutation (effects.py: "never executed again blindly").
AtMostOneMutation == \A o \in Ops : sent[o] <= 1

\* A row that ended FAILED or CANCELLED, or never got to execute, is proof
\* that nothing was sent: uncertainty is never written off as a clean outcome.
CleanMeansUnsent ==
  \A o \in Ops : row[o] \in {None, "PREPARED", "FAILED", "CANCELLED"} => sent[o] = 0

\* Effects are delivered in order: what the node counts as done is confirmed
\* and can be observed, nothing beyond the next effect was ever sent, and a
\* completed campaign delivered everything.
DeliveredInOrder ==
  /\ \A o \in Ops : row[o] = "CONFIRMED" => o \in present
  /\ \A o \in 1..done : row[o] = "CONFIRMED"
  /\ \A o \in Ops : sent[o] > 0 => o <= done + 1
  /\ campaign = "COMPLETED" => done = EffectCount

\* STOP leaves no effect that could still begin or that claims to be running.
StopSettled ==
  campaign = "CANCELLED" => \A o \in Ops : row[o] \notin {"PREPARED", "EXECUTING"}

\* An AMBIGUOUS operation is only queried: it can become CONFIRMED and nothing
\* else, and an outcome once written stays.
AmbiguousOnlyConfirms ==
  [][\A o \in Ops :
       /\ row[o] = "AMBIGUOUS" => row'[o] \in {"AMBIGUOUS", "CONFIRMED"}
       /\ row[o] \in {"CONFIRMED", "FAILED", "CANCELLED"} => row'[o] = row[o]]_vars

\* An execution whose process died does not stay EXECUTING: recovery makes it
\* AMBIGUOUS even if every later process dies as well.
InterruptedSettles == \A o \in Ops : row[o] = "EXECUTING" ~> row[o] # "EXECUTING"

=============================================================================
