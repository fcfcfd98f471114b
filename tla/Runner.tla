-------------------------------- MODULE Runner --------------------------------
(***************************************************************************)
(* DeterministicSupervisor (campaign_engine/supervisor.py) driving one     *)
(* node of an automated campaign from its admission to READY_TO_PUBLISH:   *)
(* dispatch of workers, collection of their receipts, validation, review   *)
(* cohort, repair, closure, and recovery after a restart.  Several runner  *)
(* processes may work on the same store; each may crash between any two    *)
(* steps and loses what it keeps in memory.                                *)
(*                                                                         *)
(* One step is one store transaction or one host call; a snapshot read     *)
(* right before the call that uses it belongs to that call, a snapshot     *)
(* carried over from an earlier call is the revision in job.snap.  A slot  *)
(* is one use of a role: the label its CHILD_CREATION (for a validation    *)
(* VALIDATION_EXECUTION) is reserved under, so it also stands for the      *)
(* actor and the lease the dispatch creates.  Per-token limits belong to   *)
(* Reducer: here every token is paid from the autonomous rank.  Fences and *)
(* epochs belong to Leases: on one node of one campaign a lease is current *)
(* until the node fails or the campaign is cancelled.                      *)
(***************************************************************************)
EXTENDS Integers, Sequences, FiniteSets

CONSTANTS
  Runners,     \* processes (CLI runs, or one embedding supervisor)
  Setups       \* the situations a behaviour may start from, see setup

VARIABLE setup   \* the specification and the surroundings; nothing changes it
Cohort == setup.cohort            \* number of required reviewers
Rank == setup.rank                \* autonomous_rank of the specification
Deadline == setup.deadline        \* the specification sets deadline_utc
Correctable == setup.correctable  \* a command has a correction policy
Outcomes == setup.outcomes        \* outcomes of a native turn that occur
MaxFaults == setup.faults         \* bound on crashes and on failures of the native host
MaxRetries == setup.retries       \* bound on collections with transport_retry

None == <<>>

ASSUME RunnerAssumption ==
  /\ IsFiniteSet(Runners)
  /\ \A x \in Setups :
       /\ x.runners \subseteq Runners /\ x.cohort \in Nat \ {0} /\ x.rank \in Nat
       /\ x.deadline \in BOOLEAN /\ x.correctable \in BOOLEAN
       /\ x.outcomes \subseteq
            {"pass", "block", "unresolved", "contradict", "garbled", "failed"}
       /\ x.faults \in Nat /\ x.retries \in Nat

Implementer(corrected) == <<"IMPLEMENTER", corrected>>
Repairer == <<"REPAIRER", 0>>
Writers == {Implementer(0), Implementer(1), Repairer}
\* validations of the candidate, of its correction and of its repair
Validators == {<<"VALIDATOR", i>> : i \in 0..2}
Reviewers == {<<"REVIEWER", i>> : i \in 1..Cohort}
ClosureReviewers == {<<"CLOSURE_REVIEWER", i>> : i \in 1..Cohort}
Readers == Reviewers \cup ClosureReviewers
Slots == Writers \cup Validators \cup Readers

\* What a native turn ends with: a status that is not completed, no structured
\* result, or a result with the verdict and what it says of the findings.
OutcomesOf(s) == Outcomes \
  (IF s \in Writers THEN {"block", "unresolved", "contradict", "garbled"}
   ELSE IF s \in Reviewers THEN {"unresolved"} ELSE {})

NodeStates == {"ADMITTED", "IMPLEMENTING", "VALIDATING", "CANDIDATE_FROZEN",
  "CHECKS_AND_REVIEW", "FINDINGS_FROZEN", "REPAIR_AUTHORIZED", "REPAIRING",
  "REVALIDATING", "CLOSURE", "READY_TO_PUBLISH", "FAILED_EXACT_NODE",
  "CANCELLED"}
LeaseStates == {"NONE", "ACTIVE", "RELEASED", "INVALIDATED"}

VARIABLES
  campaign,     \* RUNNING, FAILED or CANCELLED
  node,         \* state of the node
  blockers,     \* blocking findings were frozen
  corrections,  \* validation_corrections
  holder,       \* lease_actor_id, as the slot
  revision,
  rank,         \* autonomous_rank_remaining
  attempts,     \* identities in budget_receipts
  lease,        \* state of the lease of each slot
  bound,        \* slots whose actor is bound to a native thread
  receipt,      \* attested terminal evidence
  recorded,     \* runtime operations: transport failures and retries
  expired,      \* the deadline has passed
  turn,         \* the native turn of each slot
  workers,      \* _workers of each runner
  job,          \* the call each runner is in
  faults,       \* crashes and host failures so far
  started,      \* history: native turns ever started for a slot
  retried,      \* history: collections of a slot under transport_retry
  granted       \* history: attempts when the correction was granted

nodeVars == <<campaign, node, blockers, corrections, holder, revision>>
storeVars == <<nodeVars, rank, attempts, lease, bound, receipt, recorded>>
hostVars == <<turn, workers, started>>
past == <<retried, granted>>
vars == <<setup, storeVars, expired, hostVars, job, faults, past>>

\* pc, slots still to do, the cohort a caller collects (in recovery the orphans
\* still to look at), the revision of the snapshot at hand, transport_retry, the
\* receipt collected, and of a recovery: what it keeps, what it ends, whether
\* some work is uncertain.
Job == [pc: {"absent", "idle", "reserve", "acquire", "create", "start", "pay", "turn",
             "fail", "retry", "collect", "persist", "event", "release",
             "freeze", "run", "free", "recover", "recovered", "kill",
             "restore", "fence"},
        todo: Seq(Slots), cohort: SUBSET Slots, snap: Nat, retry: BOOLEAN,
        got: Outcomes \cup {"none"},
        keep: SUBSET Slots, gone: SUBSET Slots, lost: BOOLEAN]
Idle == [pc |-> "idle", todo |-> <<>>, cohort |-> {}, snap |-> 0,
         retry |-> FALSE, got |-> "none", keep |-> {}, gone |-> {}, lost |-> FALSE]

\* A process that takes no part in this behaviour.
Absent == [Idle EXCEPT !.pc = "absent"]

Init ==
  /\ setup \in Setups
  /\ campaign = "RUNNING"
  /\ node = "ADMITTED"
  /\ blockers = FALSE
  /\ corrections = 0
  /\ holder = None
  /\ revision = 0
  /\ rank = Rank
  /\ attempts = {}
  /\ lease = [s \in Slots |-> "NONE"]
  /\ bound = {}
  /\ receipt = [s \in Slots |-> "none"]
  /\ recorded = {}
  /\ expired = FALSE
  /\ turn = [s \in Slots |-> "none"]
  /\ workers = [r \in Runners |-> {}]
  /\ job = [r \in Runners |-> IF r \in setup.runners THEN Idle ELSE Absent]
  /\ faults = 0
  /\ started = [s \in Slots |-> 0]
  /\ retried = [s \in Slots |-> 0]
  /\ granted = {}

-----------------------------------------------------------------------------
(* The store.                                                              *)

Active == {s \in Slots : lease[s] = "ACTIVE"}
Running == campaign = "RUNNING"
Invalidated(gone) ==
  [s \in Slots |-> IF s \in gone \cap Active THEN "INVALIDATED" ELSE lease[s]]

\* record_runtime_operation
Record(operation) == recorded' = recorded \cup {operation}

\* Terminal evidence the store attests.
Attested(s) == receipt[s] # "none"

\* An accepted event that moves the node.
Move(to) ==
  /\ Running
  /\ node' = to
  /\ revision' = revision + 1
  /\ UNCHANGED <<campaign, blockers, corrections, holder>>

\* FAIL_NODE and the other events that fail the node.
Fail ==
  /\ Running
  /\ campaign' = "FAILED"
  /\ node' = "FAILED_EXACT_NODE"
  /\ holder' = None
  /\ revision' = revision + 1
  /\ lease' = Invalidated(Slots)
  /\ UNCHANGED <<blockers, corrections, rank, attempts, bound, receipt, recorded>>

\* FAIL_NODE unless another process already ended the campaign.
FailIfRunning == Fail \/ (~Running /\ UNCHANGED storeVars)

\* mutant: a reservation that exists counts as a new one
Reserve_Again(id) ==
  /\ Running /\ rank > 0
  /\ attempts' = attempts \cup {id}
  /\ rank' = rank - 1
  /\ revision' = revision + 1

\* reserve_budget_attempt of an identity seen for the first time
Reserve(id) ==
  /\ Running /\ rank > 0
  /\ id \notin attempts
  /\ attempts' = attempts \cup {id}
  /\ rank' = rank - 1
  /\ revision' = revision + 1

\* The state in which a writer works and the one its receipt leads to.
Working(s) == IF s = Repairer THEN "REPAIRING" ELSE "IMPLEMENTING"
Worked(s) == IF s = Repairer THEN "REVALIDATING" ELSE "VALIDATING"
ReviewState(s) == IF s \in Reviewers THEN "CHECKS_AND_REVIEW" ELSE "CLOSURE"

\* The reducer accepts IMPLEMENTATION_COMPLETED or REPAIR_COMPLETED of s.
Completes(s) == Running /\ node = Working(s) /\ holder = s

\* release_lease
Releasable(s) == lease[s] = "ACTIVE" /\ (s \in Readers \/ (Running /\ holder = s))
ReleaseLease(s) ==
  /\ Releasable(s)
  /\ lease' = [lease EXCEPT ![s] = "RELEASED"]
  /\ IF s \in Readers THEN UNCHANGED <<holder, revision>>
     ELSE holder' = None /\ revision' = revision + 1
  /\ UNCHANGED <<campaign, node, blockers, corrections, rank, attempts, bound,
       receipt, recorded>>

-----------------------------------------------------------------------------
(* The runners' memory and their native hosts.                             *)

At(r, pc) == job[r].pc = pc
Slot(r) == Head(job[r].todo)
Goto(r, pc) == job' = [job EXCEPT ![r].pc = pc]
GotoAt(r, pc, snap) == job' = [job EXCEPT ![r].pc = pc, ![r].snap = snap]
Return(r) == job' = [job EXCEPT ![r] = Idle]
Stale(r) == job[r].snap # revision

\* A crash, or an exception of the native host.
Fault == faults < MaxFaults /\ faults' = faults + 1

\* host.interrupt of the slots in gone, and _workers.pop
Interrupt(r, gone) ==
  /\ turn' = [s \in Slots |-> IF s \in gone /\ turn[s] # "none" THEN "gone" ELSE turn[s]]
  /\ workers' = [workers EXCEPT ![r] = @ \ gone]
  /\ UNCHANGED started

\* An exception of a call on slot s.  A dispatch that has created its actor and
\* every call made for a cohort fail the node; others leave it alone.
RaiseTo(r) ==
  IF job[r].todo # <<>> /\ Slot(r) \in Readers THEN Goto(r, "fail") ELSE Return(r)

\* _fail_budget: the rank is exhausted, so its own reservation is refused too.
FailBudget(r) ==
  /\ Running /\ rank = 0
  /\ Fail
  /\ Interrupt(r, workers[r] \cup {Slot(r)})
  /\ Return(r)

\* _fail_dispatch
FailDispatch(r) ==
  /\ At(r, "fail")
  /\ Interrupt(r, workers[r] \cup {Slot(r)})
  /\ FailIfRunning
  /\ Return(r)
  /\ UNCHANGED <<expired, faults, past>>

-----------------------------------------------------------------------------
(* dispatch_worker and the loops over a cohort.                            *)

InOrder(kind) == [i \in 1..Cohort |-> <<kind, i>>]
Start(r, slots) ==
  job' = [job EXCEPT ![r] = [Idle EXCEPT !.pc = "reserve", !.todo = slots]]

\* What _step dispatches for the state of the node: a writer, or the reviewers
\* one after the other.
ToDispatch ==
  CASE node = "ADMITTED" -> <<Implementer(0)>>
    [] node = "IMPLEMENTING" /\ corrections = 1 /\ holder = None
       /\ lease[Implementer(1)] = "NONE" -> <<Implementer(1)>>
    [] node = "REPAIR_AUTHORIZED" -> <<Repairer>>
    [] node \in {"VALIDATING", "REVALIDATING"} ->
         <<<<"VALIDATOR", IF node = "REVALIDATING" THEN 2 ELSE corrections>>>>
    [] node = "CLOSURE" /\ \A s \in ClosureReviewers : lease[s] = "NONE" ->
         InOrder("CLOSURE_REVIEWER")
    [] OTHER -> <<>>

StepDispatch(r) ==
  /\ At(r, "idle") /\ Running /\ ~expired
  /\ ToDispatch # <<>>
  /\ Start(r, ToDispatch)
  /\ UNCHANGED <<storeVars, expired, hostVars, faults, past>>

\* A correction is dispatched only from the exact failed candidate; otherwise
\* the step fails the node.
StepDrift(r) ==
  /\ At(r, "idle") /\ Running /\ ~expired
  /\ ToDispatch = <<Implementer(1)>>
  /\ Fault
  /\ job' = [job EXCEPT ![r] = [Idle EXCEPT !.pc = "fail", !.todo = ToDispatch]]
  /\ UNCHANGED <<storeVars, expired, hostVars, past>>

\* _step of an expired campaign: _fail_deadline
StepDeadline(r) ==
  /\ At(r, "idle") /\ Running /\ expired
  /\ Interrupt(r, workers[r])
  /\ Fail
  /\ UNCHANGED <<expired, job, faults, past>>

\* begin_review: START_REVIEW pays REVIEW_DISPATCH.
StepReview(r) ==
  /\ At(r, "idle") /\ ~expired
  /\ node = "CANDIDATE_FROZEN"
  /\ \/ /\ rank > 0
        /\ Move("CHECKS_AND_REVIEW")
        /\ rank' = rank - 1
        /\ Start(r, InOrder("REVIEWER"))
        /\ UNCHANGED <<attempts, lease, bound, receipt, recorded, hostVars>>
     \/ /\ rank = 0
        /\ Fail
        /\ Interrupt(r, workers[r])
        /\ UNCHANGED job
  /\ UNCHANGED <<expired, faults, past>>

StepReady(r) ==
  /\ At(r, "idle") /\ ~expired
  /\ node = "FINDINGS_FROZEN" /\ ~blockers
  /\ Move("READY_TO_PUBLISH")
  /\ UNCHANGED <<rank, attempts, lease, bound, receipt, recorded, expired,
       hostVars, job, faults, past>>

\* _consume of CHILD_CREATION or VALIDATION_EXECUTION.  A reservation that is
\* already there raises AttemptAlreadyReserved, which fails nothing.
ReserveSlot(r) ==
  /\ At(r, "reserve")
  /\ \/ /\ ~expired
        /\ Reserve(Slot(r))
        /\ GotoAt(r, "acquire", revision + 1)
        /\ UNCHANGED <<campaign, node, blockers, corrections, holder, lease,
             bound, receipt, recorded, hostVars>>
     \/ /\ ~expired /\ Slot(r) \in attempts
        /\ Return(r)
        /\ UNCHANGED <<storeVars, hostVars>>
     \/ ~expired /\ Slot(r) \notin attempts /\ FailBudget(r)
     \/ /\ expired \/ (~Running /\ Slot(r) \notin attempts)
        /\ RaiseTo(r)
        /\ UNCHANGED <<storeVars, hostVars>>
  /\ UNCHANGED <<expired, faults, past>>

\* acquire_lease accepts an exclusive actor beside no active lease and a
\* reviewer beside other reviewers.
Acquirable(s) ==
  /\ IF s \in Readers THEN Active \subseteq Readers
     ELSE Active = {} /\ holder = None
  /\ Running

AcquireLease(r) ==
  /\ At(r, "acquire")
  /\ LET s == Slot(r) IN
     \/ /\ Acquirable(s) /\ ~Stale(r)
        /\ lease' = [lease EXCEPT ![s] = "ACTIVE"]
        /\ bound' = bound \ {s}
        /\ receipt' = [receipt EXCEPT ![s] = "none"]
        /\ IF s \in Readers THEN UNCHANGED <<holder, revision>>
           ELSE holder' = s /\ revision' = revision + 1
        /\ Goto(r, IF s \in Validators THEN "run" ELSE "create")
        /\ UNCHANGED <<campaign, node, blockers, corrections, rank, attempts, recorded>>
     \/ /\ Stale(r) \/ ~Acquirable(s)
        /\ RaiseTo(r)
        /\ UNCHANGED storeVars
  /\ UNCHANGED <<expired, hostVars, faults, past>>

\* create_idle_actor: the thread is created idle and bound in the store before
\* any turn.
CreateActor(r) ==
  /\ At(r, "create")
  /\ LET s == Slot(r) IN
     \/ /\ lease[s] = "ACTIVE" /\ s \notin bound /\ Running
        /\ bound' = bound \cup {s}
        /\ turn' = [turn EXCEPT ![s] = "idle"]
        /\ Goto(r, IF s \in Readers \cup {Implementer(1)} THEN "pay" ELSE "start")
        /\ UNCHANGED faults
     \/ /\ lease[s] = "ACTIVE" /\ s \notin bound /\ Running
        /\ Fault
        /\ Goto(r, "fail")
        /\ UNCHANGED <<bound, turn>>
     \/ /\ lease[s] # "ACTIVE" \/ s \in bound \/ ~Running
        /\ Goto(r, "fail")
        /\ UNCHANGED <<bound, turn, faults>>
  /\ UNCHANGED <<nodeVars, rank, attempts, lease, receipt, recorded, expired,
       workers, started, past>>

\* START_IMPLEMENTATION pays CHILD_START, START_REPAIR pays REPAIR_DISPATCH.
StartEvent(r) ==
  /\ At(r, "start")
  /\ LET s == Slot(r) IN
     \/ /\ rank > 0 /\ holder = s
        /\ node = IF s = Repairer THEN "REPAIR_AUTHORIZED" ELSE "ADMITTED"
        /\ Move(Working(s))
        /\ rank' = rank - 1
        /\ GotoAt(r, IF s = Repairer THEN "pay" ELSE "turn", revision + 1)
        /\ UNCHANGED <<attempts, lease, bound, receipt, recorded, hostVars>>
     \/ FailBudget(r)
     \/ /\ ~Running \/ holder # s
        /\ Goto(r, "fail")
        /\ UNCHANGED <<storeVars, hostVars>>
  /\ UNCHANGED <<expired, faults, past>>

\* _consume of CHILD_START under the identity of the lease.  Only a repairer
\* brings the snapshot of the event before.
StartId(s) == <<"start", s>>
PayStart(r) ==
  /\ At(r, "pay")
  /\ LET s == Slot(r) IN
     \/ /\ s = Repairer => ~Stale(r)
        /\ Reserve(StartId(s))
        /\ Goto(r, "turn")
        /\ UNCHANGED <<campaign, node, blockers, corrections, holder, lease,
             bound, receipt, recorded, hostVars>>
     \/ (s = Repairer => ~Stale(r)) /\ FailBudget(r)
     \/ /\ ~Running \/ (s = Repairer /\ Stale(r))
        /\ Goto(r, "fail")
        /\ UNCHANGED <<storeVars, hostVars>>
  /\ UNCHANGED <<expired, faults, past>>

\* start_actor_turn, then the entry in _workers.
StartTurn(r) ==
  /\ At(r, "turn")
  /\ LET s == Slot(r)
         rest == Tail(job[r].todo)
     IN \/ /\ turn[s] = "idle"
           /\ turn' = [turn EXCEPT ![s] = "running"]
           /\ started' = [started EXCEPT ![s] = @ + 1]
           /\ workers' = [workers EXCEPT ![r] = @ \cup {s}]
           /\ job' = [job EXCEPT ![r] =
                IF rest = <<>> THEN Idle
                ELSE [Idle EXCEPT !.pc = "reserve", !.todo = rest]]
           /\ UNCHANGED faults
        \/ /\ IF turn[s] = "idle" THEN Fault ELSE UNCHANGED faults
           /\ Goto(r, "fail")
           /\ UNCHANGED hostVars
  /\ UNCHANGED <<storeVars, expired, past>>

Dispatching(r) ==
  \/ ReserveSlot(r) \/ AcquireLease(r) \/ CreateActor(r) \/ StartEvent(r)
  \/ PayStart(r) \/ StartTurn(r)

-----------------------------------------------------------------------------
(* validate_node, from the lease of its validator.                         *)

\* mutant: the validation of the correction is not counted
CorrectionNeeds_Unvalidated == 2 * (1 + Cohort) + 1

\* correction_budget_requirements of a node without publication ahead, one
\* validation command and this cohort.
CorrectionNeeds == 2 * (1 + Cohort) + 2

\* _validation_correction: the one correction, if everything after it is affordable.
Corrects ==
  /\ Correctable /\ node = "VALIDATING" /\ corrections = 0
  /\ rank >= CorrectionNeeds

\* The commands ran; the event is VALIDATION_PASSED, REVALIDATION_PASSED (which
\* pays CLOSURE_DISPATCH), a failure, or the request of the one correction.
Validate(r) ==
  /\ At(r, "run")
  /\ LET s == Slot(r)
         again == node = "REVALIDATING"
     IN \/ /\ Running /\ holder = s /\ ~expired
           /\ again => rank > 0
           /\ Move(IF again THEN "CLOSURE" ELSE "CANDIDATE_FROZEN")
           /\ rank' = IF again THEN rank - 1 ELSE rank
           /\ Goto(r, "free")
           /\ UNCHANGED <<attempts, lease, bound, receipt, recorded, hostVars, granted>>
        \/ /\ Running /\ holder = s /\ ~expired
           /\ Corrects
           /\ node' = "IMPLEMENTING"
           /\ corrections' = 1
           /\ granted' = attempts
           /\ revision' = revision + 1
           /\ Goto(r, "free")
           /\ UNCHANGED <<campaign, blockers, holder, rank, attempts, lease,
                bound, receipt, recorded, hostVars>>
        \/ /\ Running /\ (holder = s \/ expired)
           /\ Fail
           /\ IF expired THEN Interrupt(r, workers[r]) ELSE UNCHANGED hostVars
           /\ Return(r)
           /\ UNCHANGED granted
        \/ holder = s /\ again /\ ~expired /\ FailBudget(r) /\ UNCHANGED granted
        \/ /\ ~Running \/ (holder # s /\ ~expired)
           /\ Return(r)
           /\ UNCHANGED <<storeVars, hostVars, granted>>
  /\ UNCHANGED <<expired, faults, retried>>

\* The release in the finally clause.
FreeValidator(r) ==
  /\ At(r, "free")
  /\ \/ ReleaseLease(Slot(r))
     \/ ~Releasable(Slot(r)) /\ UNCHANGED storeVars
  /\ Return(r)
  /\ UNCHANGED <<expired, hostVars, faults, past>>

-----------------------------------------------------------------------------
(* complete_worker and collect_review_cohort.                              *)

\* A receipt _persisted_terminal accepts.
Reattaches(s) == Attested(s) /\ receipt[s] # "failed" /\ Running

CompleteCall(r, s) ==
  /\ At(r, "idle") /\ s \in workers[r]
  /\ job' = [job EXCEPT ![r] = [Idle EXCEPT !.pc = "collect", !.todo = <<s>>]]
  /\ UNCHANGED <<storeVars, expired, hostVars, faults, past>>

\* The sequences in which a caller may name the leases of a set.
Orders(members) ==
  {slots \in [1..Cardinality(members) -> members] :
     \A s \in members : \E i \in DOMAIN slots : slots[i] = s}

\* Some or all leases of one cohort, each still running here or persisted.
CollectCall(r, members) ==
  /\ At(r, "idle") /\ members # {}
  /\ \A s \in members : s \in workers[r] \/ Reattaches(s)
  /\ \E slots \in Orders(members) :
       job' = [job EXCEPT ![r] =
         [Idle EXCEPT !.pc = "collect", !.todo = slots, !.cohort = members]]
  /\ UNCHANGED <<storeVars, expired, hostVars, faults, past>>

\* The one explicit transport retry: reserved, then recorded, then collected.
\* Asked for without a failure or a second time, it is paid for and refused.
RetryCall(r, s) ==
  /\ At(r, "idle") /\ s \in workers[r]
  /\ LET valid == <<"failure", s>> \in recorded /\ <<"retry", s>> \notin recorded
         id == <<IF valid THEN "retry" ELSE "invalid_retry", s>>
     IN /\ Reserve(id)
        /\ IF valid
           THEN job' = [job EXCEPT ![r] =
                  [Idle EXCEPT !.pc = "retry", !.todo = <<s>>, !.retry = TRUE]]
           ELSE UNCHANGED job
  /\ UNCHANGED <<campaign, node, blockers, corrections, holder, lease, bound,
       receipt, recorded, expired, hostVars, faults, past>>

RecordRetry(r) ==
  /\ At(r, "retry")
  /\ Record(<<"retry", Slot(r)>>)
  /\ retried' = [retried EXCEPT ![Slot(r)] = @ + 1]
  /\ Goto(r, "collect")
  /\ UNCHANGED <<nodeVars, rank, attempts, lease, bound, receipt, expired,
       hostVars, faults, granted>>

\* The next slot of the call, or what the caller does with the whole cohort.
Collected(r) ==
  LET rest == Tail(job[r].todo) IN
  job' = [job EXCEPT ![r] =
    IF rest # <<>> THEN [@ EXCEPT !.pc = "collect", !.todo = rest]
    ELSE IF @.cohort # {} THEN [@ EXCEPT !.pc = "freeze", !.todo = <<>>, !.got = "none"]
    ELSE Idle]

\* An exception of collect_review_cohort fails the node, one of
\* complete_worker does not.
CollectRaises(r) == IF job[r].cohort # {} THEN Goto(r, "fail") ELSE Return(r)

Refused(r) == ~job[r].retry /\ <<"failure", Slot(r)>> \in recorded

\* A first collection after a recorded failure is refused and paid for once.
RefuseCollection(r) ==
  /\ At(r, "collect")
  /\ Slot(r) \in workers[r] /\ Refused(r)
  /\ LET id == <<"no_retry", Slot(r)>> IN
     \/ /\ Reserve(id)
        /\ UNCHANGED <<campaign, node, blockers, corrections, holder, lease,
             bound, receipt, recorded>>
     \/ (~Running \/ rank = 0 \/ id \in attempts) /\ UNCHANGED storeVars
  /\ CollectRaises(r)
  /\ UNCHANGED <<expired, hostVars, faults, past>>

\* collect_terminal_receipt waits for the turn to end (what it ends with is
\* known then) and refuses it when the authority of the lease is gone.  A slot
\* that is no longer in _workers is read from the store.
Ended(s) == IF turn[s] = "running" THEN OutcomesOf(s) ELSE {turn[s]}
CollectReceipt(r) ==
  /\ At(r, "collect")
  /\ LET s == Slot(r) IN
     \/ /\ s \in workers[r] /\ ~Refused(r) /\ Running
        /\ \E o \in Ended(s) \ {"gone"} :
             /\ turn' = [turn EXCEPT ![s] = o]
             /\ job' = [job EXCEPT ![r].pc = "persist", ![r].got = o]
     \/ /\ s \in workers[r] /\ ~Refused(r) /\ (turn[s] = "gone" \/ ~Running)
        /\ CollectRaises(r)
        /\ UNCHANGED turn
     \/ /\ s \notin workers[r]
        /\ IF Reattaches(s) THEN Collected(r) ELSE CollectRaises(r)
        /\ UNCHANGED turn
  /\ UNCHANGED <<storeVars, expired, workers, started, faults, past>>

\* A timeout or a lost connection.
TransportFails(r) ==
  /\ At(r, "collect")
  /\ LET s == Slot(r) IN
     /\ s \in workers[r] /\ ~Refused(r) /\ turn[s] # "gone"
     /\ Fault
     /\ Record(<<IF job[r].retry THEN "final_failure" ELSE "failure", s>>)
     /\ IF job[r].retry THEN Goto(r, "fail") ELSE CollectRaises(r)
  /\ UNCHANGED <<nodeVars, rank, attempts, lease, bound, receipt, expired,
       hostVars, past>>

\* record_terminal_evidence
Attestable(s, got) ==
  \/ receipt[s] = got
  \/ lease[s] = "ACTIVE" /\ s \in bound /\ Running /\ got # "garbled"

PersistReceipt(r) ==
  /\ At(r, "persist")
  /\ LET s == Slot(r)
         got == job[r].got
     IN \/ /\ Attestable(s, got)
           /\ receipt' = [receipt EXCEPT ![s] = got]
           /\ GotoAt(r, IF s \in Readers /\ got # "failed" THEN "release" ELSE "event",
                     revision)
           /\ UNCHANGED <<nodeVars, rank, attempts, lease, bound, recorded>>
        \/ /\ ~Attestable(s, got)
           /\ CollectRaises(r)
           /\ UNCHANGED storeVars
  /\ UNCHANGED <<expired, hostVars, faults, past>>

Pop(r) ==
  /\ workers' = [workers EXCEPT ![r] = @ \ {Slot(r)}]
  /\ UNCHANGED <<turn, started>>

TerminalFails(s) == receipt[s] = "failed"

TerminalEvent(r) ==
  /\ At(r, "event")
  /\ LET s == Slot(r) IN
     \/ /\ TerminalFails(s) /\ ~Stale(r)
        /\ Fail
        /\ Pop(r)
        /\ Collected(r)
     \/ /\ ~TerminalFails(s) /\ ~Stale(r)
        /\ s \in Writers => Completes(s)
        /\ IF s \in Writers
           THEN /\ Move(Worked(s))
                /\ GotoAt(r, "release", revision + 1)
           ELSE Goto(r, "release") /\ UNCHANGED nodeVars
        /\ UNCHANGED <<rank, attempts, lease, bound, receipt, recorded, hostVars>>
     \/ /\ Stale(r) \/ ~Running \/ (~TerminalFails(s) /\ s \in Writers /\ ~Completes(s))
        /\ CollectRaises(r)
        /\ UNCHANGED <<storeVars, hostVars>>
  /\ UNCHANGED <<expired, faults, past>>

ReleaseWorker(r) ==
  /\ At(r, "release")
  /\ LET s == Slot(r) IN
     \/ /\ ~Stale(r) /\ ReleaseLease(s)
        /\ Pop(r)
        /\ Collected(r)
     \/ /\ Stale(r) \/ ~Releasable(s)
        /\ CollectRaises(r)
        /\ UNCHANGED <<storeVars, hostVars>>
  /\ UNCHANGED <<expired, faults, past>>

Collecting(r) ==
  \/ RecordRetry(r) \/ RefuseCollection(r) \/ CollectReceipt(r) \/ TransportFails(r)
  \/ PersistReceipt(r) \/ TerminalEvent(r) \/ ReleaseWorker(r)

-----------------------------------------------------------------------------
(* freeze_review and complete_closure.                                     *)

\* The receipts may also come from outside, as a review_complete or a
\* closure_complete event: any selection of what was persisted.
FreezeCall(r, given) ==
  /\ At(r, "idle") /\ node \in {"CHECKS_AND_REVIEW", "CLOSURE"}
  /\ job' = [job EXCEPT ![r] = [Idle EXCEPT !.pc = "freeze", !.cohort = given]]
  /\ UNCHANGED <<storeVars, expired, hostVars, faults, past>>

\* mutant: every receipt that is given is checked, but not that all are there
Verified_Some(given, required) ==
  /\ given \subseteq required
  /\ \A s \in given : Attested(s) /\ receipt[s] # "contradict"

\* _verify_review_receipts: the exact cohort, each receipt persisted and
\* attested, and no verdict that contradicts its findings.
Verified(given, required) ==
  /\ given = required
  /\ \A s \in given : Attested(s) /\ receipt[s] # "contradict"

\* The frozen findings are those of every reviewer.
Blocking(given) == \E s \in given : receipt[s] = "block"

\* Resolved is what every receipt resolves, and nothing new may block.
ClosurePasses(given) == \A s \in given : receipt[s] \notin {"block", "unresolved"}

FreezeReview(r) ==
  /\ At(r, "freeze")
  /\ LET given == job[r].cohort IN
     \/ /\ node = "CHECKS_AND_REVIEW" /\ Verified(given, Reviewers)
        /\ node' = "FINDINGS_FROZEN"
        /\ blockers' = Blocking(given)
        /\ revision' = revision + 1
        /\ UNCHANGED <<campaign, corrections, holder, rank, attempts, lease,
             bound, receipt, recorded>>
     \/ /\ node = "CLOSURE" /\ Verified(given, ClosureReviewers)
        /\ IF ClosurePasses(given)
           THEN /\ Move("READY_TO_PUBLISH")
                /\ UNCHANGED <<rank, attempts, lease, bound, receipt, recorded>>
           ELSE Fail
     \/ /\ ~(node = "CHECKS_AND_REVIEW" /\ Verified(given, Reviewers))
        /\ ~(node = "CLOSURE" /\ Verified(given, ClosureReviewers))
        /\ UNCHANGED storeVars
  /\ Return(r)
  /\ UNCHANGED <<expired, hostVars, faults, past>>

AuthorizeRepair ==
  /\ node = "FINDINGS_FROZEN" /\ blockers
  /\ Move("REPAIR_AUTHORIZED")
  /\ UNCHANGED <<rank, attempts, lease, bound, receipt, recorded, expired,
       hostVars, job, faults, past>>

-----------------------------------------------------------------------------
(* recover.                                                                *)

RecoverCall(r) ==
  /\ At(r, "idle")
  /\ job' = [job EXCEPT ![r] = [Idle EXCEPT !.pc = "recover", !.cohort = Active]]
  /\ UNCHANGED <<storeVars, expired, hostVars, faults, past>>

\* _reattach_read_only: this supervisor still has the connection of a reviewer
\* in the middle of its turn.
Survives(r, s) ==
  /\ s \in Readers \cap workers[r] \cap bound
  /\ Running /\ ~expired /\ node = ReviewState(s)
  /\ lease[s] = "ACTIVE" /\ receipt[s] = "none"
  /\ turn[s] \notin {"none", "idle", "gone"}

Handled(r, s, field) ==
  job' = [job EXCEPT ![r].cohort = @ \ {s}, ![r].pc = "recover", ![r].todo = <<>>,
    ![r].keep = IF field = "keep" THEN @ \cup {s} ELSE @,
    ![r].gone = IF field = "keep" THEN @ ELSE @ \cup {s},
    ![r].lost = @ \/ field = "lost"]

\* mutant: any receipt that was persisted completes the work
Resumable_Any(s) == receipt[s] # "none" /\ Running /\ ~expired

Resumable(s) == Reattaches(s) /\ ~expired

\* One orphan: its persisted receipt is consumed, its connection is kept, or it
\* is uncertain.
RecoverOne(r) ==
  /\ At(r, "recover")
  /\ \E s \in job[r].cohort :
     \/ /\ Resumable(s)
        /\ s \in Writers /\ Completes(s)
        /\ Move(Worked(s))
        /\ job' = [job EXCEPT ![r].pc = "recovered", ![r].todo = <<s>>,
                             ![r].snap = revision + 1]
        /\ UNCHANGED <<rank, attempts, lease, bound, receipt, recorded>>
     \/ /\ Resumable(s)
        /\ s \in Writers => node # Working(s)
        /\ job' = [job EXCEPT ![r].pc = "recovered", ![r].todo = <<s>>,
                             ![r].snap = revision]
        /\ UNCHANGED storeVars
     \/ /\ ~Resumable(s) \/ (s \in Writers /\ node = Working(s) /\ ~Completes(s))
        /\ Handled(r, s, IF Survives(r, s) THEN "keep" ELSE "lost")
        /\ UNCHANGED storeVars
  /\ UNCHANGED <<expired, hostVars, faults, past>>

RecoverRelease(r) ==
  /\ At(r, "recovered")
  /\ LET s == Slot(r) IN
     \/ /\ ~Stale(r) /\ ReleaseLease(s)
        /\ Pop(r)
        /\ Handled(r, s, "done")
     \/ /\ Stale(r) \/ ~Releasable(s)
        /\ Handled(r, s, "lost")
        /\ UNCHANGED <<storeVars, hostVars>>
  /\ UNCHANGED <<expired, faults, past>>

\* What is uncertain takes the whole cohort with it: every process that is not
\* kept is killed, in whichever runner it lives.
RecoverKill(r) ==
  /\ At(r, "recover") /\ job[r].cohort = {}
  /\ LET kept == IF job[r].lost THEN {} ELSE job[r].keep IN
     /\ Interrupt(r, job[r].gone \cup (job[r].keep \ kept))
     /\ job' = [job EXCEPT ![r].pc = "restore", ![r].keep = kept]
  /\ UNCHANGED <<storeVars, expired, faults, past>>

\* recover_after_restart
Retainable(s) ==
  /\ s \in Active \cap Readers \cap bound
  /\ Running /\ node = ReviewState(s)

RecoverStore(r) ==
  /\ At(r, "restore")
  /\ LET kept == job[r].keep IN
     \/ /\ \A s \in kept : Retainable(s)
        /\ kept # {} => Active \subseteq kept
        /\ lease' = Invalidated(Slots \ kept)
        /\ IF job[r].lost THEN Goto(r, "fence") ELSE Return(r)
     \/ /\ kept # {}
        /\ (\E s \in kept : ~Retainable(s)) \/ ~(Active \subseteq kept)
        /\ Return(r)
        /\ UNCHANGED lease
  /\ UNCHANGED <<nodeVars, rank, attempts, bound, receipt, recorded, expired,
       hostVars, faults, past>>

\* mutant: the campaign whose work is lost goes on
RecoverFence_Skipped(r) ==
  /\ At(r, "fence")
  /\ Return(r)
  /\ UNCHANGED <<storeVars, expired, hostVars, faults, past>>

\* FAIL_NODE of the campaign whose work was lost.
RecoverFence(r) ==
  /\ At(r, "fence")
  /\ FailIfRunning
  /\ Return(r)
  /\ UNCHANGED <<expired, hostVars, faults, past>>

Recovering(r) ==
  \/ RecoverOne(r) \/ RecoverRelease(r) \/ RecoverKill(r) \/ RecoverStore(r)
  \/ RecoverFence(r)

-----------------------------------------------------------------------------
(* The environment.                                                        *)

\* A runner dies with its memory and its native hosts.
Crash(r) ==
  /\ ~At(r, "absent")
  /\ Fault
  /\ Interrupt(r, workers[r] \cup (IF job[r].todo # <<>> THEN {Slot(r)} ELSE {}))
  /\ Return(r)
  /\ UNCHANGED <<storeVars, expired, past>>

\* cancel, from another process
Cancel ==
  /\ Running
  /\ campaign' = "CANCELLED"
  /\ node' = "CANCELLED"
  /\ holder' = None
  /\ revision' = revision + 1
  /\ lease' = Invalidated(Slots)
  /\ UNCHANGED <<blockers, corrections, rank, attempts, bound, receipt, recorded,
       expired, hostVars, job, faults, past>>

Expire ==
  /\ Deadline /\ ~expired
  /\ expired' = TRUE
  /\ UNCHANGED <<storeVars, hostVars, job, faults, past>>

Calls(r) ==
  \/ StepDispatch(r) \/ StepDrift(r) \/ StepDeadline(r) \/ StepReview(r) \/ StepReady(r)
  \/ \E s \in workers[r] : CompleteCall(r, s) \/ (retried[s] < MaxRetries /\ RetryCall(r, s))
  \/ \E given \in SUBSET Reviewers :
       CollectCall(r, given) \/ FreezeCall(r, given)
  \/ \E given \in SUBSET ClosureReviewers :
       CollectCall(r, given) \/ FreezeCall(r, given)
  \/ RecoverCall(r)

Works(r) ==
  \/ Dispatching(r) \/ FailDispatch(r) \/ Validate(r) \/ FreeValidator(r)
  \/ Collecting(r) \/ FreezeReview(r) \/ Recovering(r)

Step ==
  \/ \E r \in Runners : Calls(r) \/ Works(r) \/ Crash(r)
  \/ AuthorizeRepair \/ Cancel \/ Expire

Next == Step /\ UNCHANGED setup

Spec == Init /\ [][Next]_vars

steps == <<storeVars, expired, hostVars, job, faults, past>>

\* A process that keeps running drives the campaign: it steps, collects the
\* writer it started and the cohort under review, and recovers.
Steps(r) == StepDispatch(r) \/ StepDeadline(r) \/ StepReview(r) \/ StepReady(r)

Fairness ==
  \A r \in Runners :
    /\ WF_steps(Works(r))
    /\ SF_steps(Steps(r))
    /\ SF_steps(\E s \in workers[r] \cap Writers : CompleteCall(r, s))
    /\ SF_steps(CollectCall(r, Reviewers))
    /\ SF_steps(CollectCall(r, ClosureReviewers))
    /\ SF_steps(RecoverCall(r))

FairSpec == Spec /\ Fairness

-----------------------------------------------------------------------------
(* Properties.                                                             *)

\* The state of the store, of the hosts and of the runners is well formed, and no
\* run of tokens is paid beyond the autonomous rank (reserve_budget_attempt).
TypeOK ==
  /\ campaign \in {"RUNNING", "FAILED", "CANCELLED"} /\ node \in NodeStates
  /\ blockers \in BOOLEAN /\ corrections \in {0, 1}
  /\ holder \in Slots \cup {None}
  /\ revision \in Nat /\ rank \in 0..Rank
  /\ lease \in [Slots -> LeaseStates] /\ bound \subseteq Slots
  /\ receipt \in [Slots -> Outcomes \cup {"none"}]
  /\ expired \in BOOLEAN
  /\ turn \in [Slots -> {"none", "idle", "running", "gone"} \cup Outcomes]
  /\ workers \in [Runners -> SUBSET Slots]
  /\ job \in [Runners -> Job]
  /\ faults \in 0..MaxFaults
  /\ started \in [Slots -> Nat] /\ retried \in [Slots -> Nat]

\* No native turn is ever started twice for one use of a role, whatever runs at
\* the same time, crashes or is dispatched again (dispatch_worker).
OneTurn == \A s \in Slots : started[s] <= 1

\* A correction that was granted can be paid for until its review is collected:
\* the autonomous rank does not run out on the way, whichever process makes the
\* calls, unless somebody pays for a retry after the grant
\* (correction_budget_requirements).
Retries == {"retry", "no_retry", "invalid_retry"} \X Slots
CorrectionAffordable ==
  corrections = 1
    /\ node \in {"IMPLEMENTING", "VALIDATING", "CANDIDATE_FROZEN", "CHECKS_AND_REVIEW"}
    /\ attempts \cap Retries \subseteq granted
  => /\ node = "CANDIDATE_FROZEN" => rank > 0
     /\ \A r \in Runners :
          At(r, "pay") \/ (At(r, "reserve") /\ Slot(r) \notin attempts) => rank > 0

\* The findings that were frozen are those of the whole cohort: every reviewer
\* persisted a receipt, and blockers are authorised for repair exactly when one
\* of them blocks (freeze_review, _verify_review_receipts).
CohortDecides ==
  node = "FINDINGS_FROZEN" =>
    /\ \A s \in Reviewers : receipt[s] # "none"
    /\ blockers <=> \E s \in Reviewers : receipt[s] = "block"

\* The candidate that is validated, reviewed or published is the last one a
\* writer completed with attested evidence, also after a recovery.
AttestedProgress ==
  /\ node \in {"VALIDATING", "CANDIDATE_FROZEN", "CHECKS_AND_REVIEW", "FINDINGS_FROZEN",
               "REPAIR_AUTHORIZED", "REPAIRING", "REVALIDATING", "CLOSURE", "READY_TO_PUBLISH"} =>
       receipt[Implementer(corrections)] = "pass"
  /\ node \in {"REVALIDATING", "CLOSURE"} => receipt[Repairer] = "pass"

\* What the campaign has come to when nothing more is expected of a runner.
AwaitsFreeze(kind) == \A i \in 1..Cohort : receipt[<<kind, i>>] # "none"
Settled ==
  \/ ~Running
  \/ node = "READY_TO_PUBLISH"
  \/ node = "FINDINGS_FROZEN" /\ blockers
  \/ node = "CHECKS_AND_REVIEW" /\ AwaitsFreeze("REVIEWER")
  \/ node = "CLOSURE" /\ AwaitsFreeze("CLOSURE_REVIEWER")

\* The windows in which a crash leaves nothing to resume from: an attempt that
\* was reserved and never became a lease, leases that were invalidated before
\* the node was failed, and a review that was started and never dispatched.
Lost ==
  /\ faults > 0
  /\ \/ \E s \in Slots : s \in attempts /\ lease[s] = "NONE"
     \/ \E s \in Slots : lease[s] = "INVALIDATED"
     \/ node = "CHECKS_AND_REVIEW" /\ \E s \in Reviewers : lease[s] = "NONE"

\* A campaign somebody keeps driving comes to an end, to a decision that is not
\* a runner's, or is stuck in one of those windows (step, recover).
Settles == <>[](Settled \/ Lost)

===============================================================================
