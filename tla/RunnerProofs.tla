----------------------------- MODULE RunnerProofs -----------------------------
(***************************************************************************)
(* Proofs about the runners of one node, for any number of processes, any  *)
(* cohort, budget and number of faults, and any outcomes of the turns.     *)
(***************************************************************************)
EXTENDS Runner, FiniteSetTheorems, SequenceTheorems, TLAPS

USE RunnerAssumption

\* The calls in which a slot that was reserved becomes a turn or a validation.
Owned == {"acquire", "create", "start", "pay", "turn", "run"}

\* TypeOK in parts.
SetupType == setup \in Setups
NodeType ==
  /\ campaign \in {"RUNNING", "FAILED", "CANCELLED"} /\ node \in NodeStates
  /\ blockers \in BOOLEAN /\ corrections \in {0, 1}
  /\ holder \in Slots \cup {None} /\ revision \in Nat
LeaseType ==
  /\ rank \in 0..Rank
  /\ lease \in [Slots -> LeaseStates] /\ bound \subseteq Slots
HostType ==
  /\ expired \in BOOLEAN
  /\ faults \in 0..MaxFaults
  /\ started \in [Slots -> Nat] /\ retried \in [Slots -> Nat]
  /\ workers \in [Runners -> SUBSET Slots]

\* What a turn ended with, and what is attested of it, is what turns of the
\* role end with.
TurnType ==
  /\ turn \in [Slots -> {"none", "idle", "running", "gone"} \cup Outcomes]
  /\ receipt \in [Slots -> Outcomes \cup {"none"}]
  /\ \A s \in Slots :
       /\ turn[s] \in {"none", "idle", "running", "gone"} \cup OutcomesOf(s)
       /\ receipt[s] \in {"none"} \cup (OutcomesOf(s) \ {"garbled"})
JobType == job \in [Runners -> Job]
TypeInv == SetupType /\ NodeType /\ LeaseType /\ HostType /\ TurnType /\ JobType

\* A call that works on a slot has one; a dispatch has one slot, or readers.
WithoutSlot == {"absent", "idle", "freeze", "recover", "kill", "restore", "fence"}
TodoInv ==
  \A r \in Runners :
    /\ job[r].pc \notin WithoutSlot => job[r].todo # <<>>
    /\ job[r].pc = "reserve" \/ job[r].pc \in Owned =>
         Tail(job[r].todo) = <<>> \/ job[r].todo \in Seq(Readers)
    /\ job[r].snap <= revision
    /\ job[r].pc = "create" => Slot(r) \notin Validators
    /\ job[r].pc = "run" => Slot(r) \in Validators
    /\ job[r].pc = "start" => Slot(r) \in {Implementer(0), Repairer}

\* The dispatch of a slot belongs to the call that reserved it.
OwnerInv ==
  /\ \A r \in Runners : job[r].pc \in Owned => Slot(r) \in attempts
  /\ \A r, q \in Runners :
       job[r].pc \in Owned /\ job[q].pc \in Owned /\ Slot(r) = Slot(q) => r = q
  /\ holder \in attempts \cup {None}

\* Until its turn was created a slot has none; once started it is not idle again.
TurnInv ==
  /\ \A s \in Slots :
       /\ started[s] \in {0, 1}
       /\ turn[s] \in {"none", "idle"} => started[s] = 0
       /\ s \notin attempts => turn[s] = "none"
       /\ receipt[s] # "none" => started[s] = 1 /\ turn[s] \in {receipt[s], "gone"}
  /\ \A r \in Runners :
       job[r].pc \in {"acquire", "create"} => turn[Slot(r)] = "none"

\* A started turn is collected by the runner that started it, and what is
\* collected agrees with what is attested.
WorkerInv ==
  /\ \A r \in Runners : \A s \in workers[r] : started[s] = 1
  /\ \A r, q \in Runners : r # q => workers[r] \cap workers[q] = {}
  /\ \A r \in Runners :
       /\ job[r].pc = "persist" =>
            /\ Slot(r) \in workers[r]
            /\ job[r].got \in OutcomesOf(Slot(r))
            /\ turn[Slot(r)] \in {job[r].got, "gone"}
            /\ receipt[Slot(r)] \in {"none", job[r].got}
       /\ job[r].pc = "event" => receipt[Slot(r)] # "none"

\* Where the node is when a slot that holds it alone is dispatched.
Due(s) ==
  Running =>
    /\ s = Implementer(0) => node = "ADMITTED"
    /\ s = Implementer(1) => node = "IMPLEMENTING" /\ corrections = 1
    /\ s = Repairer => node = "REPAIR_AUTHORIZED"
    /\ s = <<"VALIDATOR", 2>> => node = "REVALIDATING"
    /\ \A i \in 0..1 : s = <<"VALIDATOR", i>> => node = "VALIDATING" /\ corrections = i
PhaseInv ==
  /\ \A r \in Runners :
       /\ job[r].pc = "reserve" /\ Slot(r) \notin attempts => Due(Slot(r))
       /\ job[r].pc = "acquire" /\ ~Stale(r) => Due(Slot(r))
       /\ job[r].pc = "run" /\ holder = Slot(r) => Due(Slot(r))
  /\ node = "ADMITTED" => corrections = 0
  /\ Running => \A i \in 0..1 : holder = Implementer(i) => corrections = i

\* Some slot of the loop is a closure reviewer.
Closes(slots) == \E i \in DOMAIN slots : slots[i] \in ClosureReviewers

\* A candidate and what leads to it, until its review is collected.
Early == {"ADMITTED", "IMPLEMENTING", "VALIDATING", "CANDIDATE_FROZEN", "CHECKS_AND_REVIEW"}
Dispatches(r) == job[r].pc = "reserve" \/ job[r].pc \in Owned

\* Until then no slot of a repair, of its validation or of a closure is reserved.
LateInv ==
  /\ Running \/ node \in {"FAILED_EXACT_NODE", "CANCELLED"}
  /\ node \in Early =>
       /\ attempts \cap ({Repairer, <<"VALIDATOR", 2>>} \cup ClosureReviewers) = {}
       /\ \A r \in Runners : Dispatches(r) => ~Closes(job[r].todo)

\* The start of a slot is paid for after the slot, by the call that has it.
StartInv ==
  /\ granted \subseteq attempts
  /\ \A s \in Slots : s \notin attempts => StartId(s) \notin attempts
  /\ \A r \in Runners :
       /\ job[r].pc \in {"acquire", "create", "start", "pay"} => StartId(Slot(r)) \notin attempts
       /\ job[r].pc = "pay" => Slot(r) \in Readers \cup {Implementer(1), Repairer}

\* What a correction costs from its grant to its review, beside the transition that
\* begins the review: the rank pays for what of it is still ahead.
Bill == {Implementer(1), <<"VALIDATOR", 1>>, StartId(Implementer(1))} \cup Reviewers
          \cup {StartId(s) : s \in Reviewers}
Ahead == IF node = "CHECKS_AND_REVIEW" THEN 0 ELSE 1
AffordInv ==
  corrections = 1 /\ node \in Early /\ attempts \cap Retries \subseteq granted =>
    rank >= Cardinality(Bill \ attempts) + Ahead

RunnerInv ==
  TypeInv /\ TodoInv /\ OwnerInv /\ TurnInv /\ WorkerInv /\ PhaseInv /\ AttestedProgress
    /\ CohortDecides /\ LateInv /\ StartInv /\ AffordInv

-----------------------------------------------------------------------------
(* Slots, and the record of a call.                                        *)

LEMMA SetupFacts ==
  ASSUME SetupType
  PROVE  /\ Cohort \in Nat \ {0} /\ Rank \in Nat /\ MaxFaults \in Nat
         /\ Outcomes \subseteq {"pass", "block", "unresolved", "contradict", "garbled", "failed"}
BY DEF SetupType, Cohort, Rank, MaxFaults, Outcomes

LEMMA SlotFacts ==
  /\ Slots = Writers \cup Validators \cup Readers
  /\ Writers \cap Validators = {} /\ Writers \cap Readers = {} /\ Validators \cap Readers = {}
  /\ Writers = {Implementer(0), Implementer(1), Repairer}
  /\ Validators = {<<"VALIDATOR", 0>>, <<"VALIDATOR", 1>>, <<"VALIDATOR", 2>>}
  /\ Implementer(0) # Implementer(1) /\ Repairer \notin {Implementer(0), Implementer(1)}
  /\ \A i, j \in 0..2 : <<"VALIDATOR", i>> = <<"VALIDATOR", j>> => i = j
  /\ None \notin Slots
<1>1. /\ Slots = Writers \cup Validators \cup Readers
      /\ Writers = {Implementer(0), Implementer(1), Repairer}
  BY DEF Slots, Writers
<1>2. \A s \in Slots :
        /\ s[1] \in {"IMPLEMENTER", "REPAIRER", "VALIDATOR", "REVIEWER", "CLOSURE_REVIEWER"}
        /\ s \in Writers <=> s[1] \in {"IMPLEMENTER", "REPAIRER"}
        /\ s \in Validators <=> s[1] = "VALIDATOR"
        /\ s \in Readers <=> s[1] \in {"REVIEWER", "CLOSURE_REVIEWER"}
  BY DEF Slots, Writers, Validators, Readers, Reviewers, ClosureReviewers, Implementer, Repairer
<1>3. Writers \cap Validators = {} /\ Writers \cap Readers = {} /\ Validators \cap Readers = {}
  BY <1>1, <1>2
<1>4. Validators = {<<"VALIDATOR", 0>>, <<"VALIDATOR", 1>>, <<"VALIDATOR", 2>>}
  BY 0..2 = {0, 1, 2} DEF Validators
<1>5. Implementer(0) # Implementer(1) /\ Repairer \notin {Implementer(0), Implementer(1)}
  BY DEF Implementer, Repairer
<1>6. \A i, j \in 0..2 : <<"VALIDATOR", i>> = <<"VALIDATOR", j>> => i = j OBVIOUS
<1>7. None \notin Slots
  <2>1. \A s \in Slots : Len(s) = 2
    BY DEF Slots, Writers, Validators, Readers, Reviewers, ClosureReviewers, Implementer, Repairer
  <2> QED BY <2>1 DEF None
<1> QED BY <1>1, <1>3, <1>4, <1>5, <1>6, <1>7

\* The setup does not change, so nothing that is defined from it does.
LEMMA Frame ==
  ASSUME setup' = setup
  PROVE  /\ Slots' = Slots /\ Readers' = Readers /\ Reviewers' = Reviewers
         /\ ClosureReviewers' = ClosureReviewers /\ Outcomes' = Outcomes
         /\ Rank' = Rank /\ MaxFaults' = MaxFaults /\ Cohort' = Cohort
         /\ \A s : OutcomesOf(s)' = OutcomesOf(s)
         /\ Job' = Job
<1>1. /\ Slots' = Slots /\ Readers' = Readers /\ Reviewers' = Reviewers
      /\ ClosureReviewers' = ClosureReviewers /\ Outcomes' = Outcomes
      /\ Rank' = Rank /\ MaxFaults' = MaxFaults /\ Cohort' = Cohort
  BY DEF Slots, Readers, Reviewers, ClosureReviewers, Outcomes, Cohort, Rank, MaxFaults
<1>2. \A s : OutcomesOf(s)' = OutcomesOf(s) BY <1>1 DEF OutcomesOf
<1>3. Job' = Job BY <1>1 DEF Job
<1> QED BY <1>1, <1>2, <1>3

Pcs == {"absent", "idle", "reserve", "acquire", "create", "start", "pay", "turn",
        "fail", "retry", "collect", "persist", "event", "release", "freeze", "run", "free",
        "recover", "recovered", "kill", "restore", "fence"}

LEMMA JobFacts ==
  ASSUME NEW j \in Job
  PROVE  /\ j.pc \in Pcs /\ j.todo \in Seq(Slots) /\ j.cohort \subseteq Slots /\ j.snap \in Nat
         /\ j.retry \in BOOLEAN /\ j.got \in Outcomes \cup {"none"}
         /\ j.keep \subseteq Slots /\ j.gone \subseteq Slots /\ j.lost \in BOOLEAN
BY DEF Job, Pcs

LEMMA IdleFacts == Idle \in Job /\ Idle.pc = "idle" /\ Idle.todo = <<>> /\ Idle.snap = 0
BY DEF Job, Idle

\* What is edited in the record of a call.
LEMMA JobEdits ==
  ASSUME NEW j \in Job
  PROVE  /\ \A p \in Pcs :
              [j EXCEPT !.pc = p] \in Job
         /\ \A p \in Pcs, n \in Nat :
              [j EXCEPT !.pc = p, !.snap = n] \in Job
         /\ \A p \in Pcs, t \in Seq(Slots) :
              [j EXCEPT !.pc = p, !.todo = t] \in Job
         /\ \A p \in Pcs, c \in SUBSET Slots :
              [j EXCEPT !.pc = p, !.cohort = c] \in Job
         /\ \A p \in Pcs, g \in Outcomes \cup {"none"} :
              [j EXCEPT !.pc = p, !.got = g] \in Job
         /\ \A p \in Pcs, k \in SUBSET Slots :
              [j EXCEPT !.pc = p, !.keep = k] \in Job
         /\ \A p \in Pcs, t \in Seq(Slots), c \in SUBSET Slots :
              [j EXCEPT !.pc = p, !.todo = t, !.cohort = c] \in Job
         /\ \A p \in Pcs, t \in Seq(Slots), y \in BOOLEAN :
              [j EXCEPT !.pc = p, !.todo = t, !.retry = y] \in Job
         /\ \A p \in Pcs, t \in Seq(Slots), n \in Nat :
              [j EXCEPT !.pc = p, !.todo = t, !.snap = n] \in Job
         /\ \A p \in Pcs, t \in Seq(Slots), g \in Outcomes \cup {"none"} :
              [j EXCEPT !.pc = p, !.todo = t, !.got = g] \in Job
         /\ \A p \in Pcs, t \in Seq(Slots), c \in SUBSET Slots,
             k \in SUBSET Slots, h \in SUBSET Slots, l \in BOOLEAN :
              [j EXCEPT !.cohort = c, !.pc = p, !.todo = t, !.keep = k, !.gone = h,
                        !.lost = l] \in Job
<1>1. \A p \in Pcs :
        [j EXCEPT !.pc = p] \in Job
  BY DEF Job, Pcs
<1>2. \A p \in Pcs, n \in Nat :
        [j EXCEPT !.pc = p, !.snap = n] \in Job
  BY DEF Job, Pcs
<1>3. \A p \in Pcs, t \in Seq(Slots) :
        [j EXCEPT !.pc = p, !.todo = t] \in Job
  BY DEF Job, Pcs
<1>4. \A p \in Pcs, c \in SUBSET Slots :
        [j EXCEPT !.pc = p, !.cohort = c] \in Job
  BY DEF Job, Pcs
<1>5. \A p \in Pcs, g \in Outcomes \cup {"none"} :
        [j EXCEPT !.pc = p, !.got = g] \in Job
  BY DEF Job, Pcs
<1>6. \A p \in Pcs, k \in SUBSET Slots :
        [j EXCEPT !.pc = p, !.keep = k] \in Job
  BY DEF Job, Pcs
<1>7. \A p \in Pcs, t \in Seq(Slots), c \in SUBSET Slots :
        [j EXCEPT !.pc = p, !.todo = t, !.cohort = c] \in Job
  BY DEF Job, Pcs
<1>8. \A p \in Pcs, t \in Seq(Slots), y \in BOOLEAN :
        [j EXCEPT !.pc = p, !.todo = t, !.retry = y] \in Job
  BY DEF Job, Pcs
<1>9. \A p \in Pcs, t \in Seq(Slots), n \in Nat :
        [j EXCEPT !.pc = p, !.todo = t, !.snap = n] \in Job
  BY DEF Job, Pcs
<1>10. \A p \in Pcs, t \in Seq(Slots), g \in Outcomes \cup {"none"} :
        [j EXCEPT !.pc = p, !.todo = t, !.got = g] \in Job
  BY DEF Job, Pcs
<1>11. ASSUME NEW p \in Pcs, NEW t \in Seq(Slots), NEW c \in SUBSET Slots, NEW k \in SUBSET Slots,
              NEW h \in SUBSET Slots, NEW l \in BOOLEAN
       PROVE  [j EXCEPT !.cohort = c, !.pc = p, !.todo = t, !.keep = k, !.gone = h,
                        !.lost = l] \in Job
  BY DEF Job, Pcs
<1> QED BY <1>1, <1>2, <1>3, <1>4, <1>5, <1>6, <1>7, <1>8, <1>9, <1>10, <1>11

-----------------------------------------------------------------------------
(* What a step does to the calls, the slots and their turns.               *)

OnlyJob(r) == job' \in [Runners -> Job] /\ \A x \in Runners \ {r} : job'[x] = job[x]

\* The call is over, or goes on where nothing is said of its slot.
Rests(r) ==
  /\ job'[r].pc \notin Owned \cup {"reserve", "persist", "event"}
  /\ job'[r].pc \notin WithoutSlot => job'[r].todo # <<>>
  /\ job'[r].snap \in {0, job[r].snap, revision'}

\* The turns of a host only go away.
HostLeaves(r) ==
  /\ UNCHANGED started
  /\ turn' \in [Slots -> {"none", "idle", "running", "gone"} \cup Outcomes]
  /\ \A s \in Slots : turn'[s] = turn[s] \/ (turn[s] # "none" /\ turn'[s] = "gone")
  /\ workers' \in [Runners -> SUBSET Slots]
  /\ workers'[r] \subseteq workers[r] /\ \A x \in Runners \ {r} : workers'[x] = workers[x]

Leaves(r) == Rests(r) /\ HostLeaves(r) /\ attempts \subseteq attempts' /\ UNCHANGED receipt

\* A dispatch begins with a slot that is due, or with readers.
ToReserve(r) == job'[r].pc = "reserve" /\ job'[r].snap = 0 /\ job'[r].todo # <<>>
Begins(r) ==
  /\ ToReserve(r)
  /\ job'[r].todo \in Seq(Readers) \/ (Tail(job'[r].todo) = <<>> /\ Due(Head(job'[r].todo)))
  /\ \/ job'[r].todo \in Seq(Readers)
     \/ UNCHANGED nodeVars
  /\ Closes(job'[r].todo) => node' = "CLOSURE"
  /\ UNCHANGED <<attempts, receipt, turn, started, workers>>

Reserves(r) ==
  /\ job[r].pc = "reserve" /\ Slot(r) \notin attempts
  /\ job'[r].pc = "acquire" /\ job'[r].todo = job[r].todo /\ job'[r].snap = revision'
  /\ attempts' = attempts \cup {Slot(r)}
  /\ UNCHANGED <<campaign, node, blockers, corrections, holder, receipt, turn, started, workers>>

Acquires(r) ==
  /\ job[r].pc = "acquire" /\ ~Stale(r)
  /\ job'[r].pc = (IF Slot(r) \in Validators THEN "run" ELSE "create")
  /\ job'[r].todo = job[r].todo /\ job'[r].snap = job[r].snap
  /\ receipt' = [receipt EXCEPT ![Slot(r)] = "none"]
  /\ UNCHANGED <<campaign, node, blockers, corrections, attempts, turn, started, workers>>

Creates(r) ==
  /\ job[r].pc = "create"
  /\ job'[r].pc \in {"pay", "start"}
  /\ job'[r].pc = "pay" <=> Slot(r) \in Readers \cup {Implementer(1)}
  /\ job'[r].todo = job[r].todo /\ job'[r].snap = job[r].snap
  /\ turn' = [turn EXCEPT ![Slot(r)] = "idle"]
  /\ UNCHANGED <<attempts, receipt, started, workers>>

Pays(r) ==
  /\ job[r].pc \in {"start", "pay"}
  /\ job'[r].pc \in {"pay", "turn"}
  /\ job'[r].pc = "pay" => job[r].pc = "start" /\ Slot(r) = Repairer
  /\ job'[r].todo = job[r].todo /\ job'[r].snap \in {job[r].snap, revision'}
  /\ attempts \subseteq attempts'
  /\ UNCHANGED <<receipt, turn, started, workers>>

Starts(r) ==
  /\ job[r].pc = "turn" /\ turn[Slot(r)] = "idle"
  /\ turn' = [turn EXCEPT ![Slot(r)] = "running"]
  /\ started' = [started EXCEPT ![Slot(r)] = @ + 1]
  /\ workers' = [workers EXCEPT ![r] = @ \cup {Slot(r)}]
  /\ \/ Rests(r)
     \/ /\ ToReserve(r)
        /\ job'[r].todo = Tail(job[r].todo) /\ job'[r].todo \in Seq(Readers)
  /\ UNCHANGED <<attempts, receipt>>

Ends(r) ==
  /\ job[r].pc = "collect" /\ Slot(r) \in workers[r]
  /\ \E o \in Ended(Slot(r)) \ {"gone"} :
       turn' = [turn EXCEPT ![Slot(r)] = o] /\ job'[r].got = o
  /\ job'[r].pc = "persist" /\ job'[r].todo = job[r].todo /\ job'[r].snap = job[r].snap
  /\ UNCHANGED <<attempts, receipt, started, workers>>

Persists(r) ==
  /\ job[r].pc = "persist" /\ Attestable(Slot(r), job[r].got)
  /\ receipt' = [receipt EXCEPT ![Slot(r)] = job[r].got]
  /\ job'[r].pc \in {"release", "event"} /\ job'[r].todo = job[r].todo
  /\ job'[r].snap = revision'
  /\ UNCHANGED <<attempts, turn, started, workers>>

SlotStep(r) ==
  \/ Leaves(r) \/ Begins(r) \/ Reserves(r) \/ Acquires(r) \/ Creates(r) \/ Pays(r)
  \/ Starts(r) \/ Ends(r) \/ Persists(r)

Stands == UNCHANGED <<job, attempts, receipt, turn, started, workers>>

LEMMA OneJob ==
  ASSUME JobType, setup' = setup, NEW r \in Runners, NEW j \in Job,
         job' = [job EXCEPT ![r] = j]
  PROVE  OnlyJob(r) /\ job'[r] = j
BY Frame DEF JobType, OnlyJob

LEMMA GotoStep ==
  ASSUME JobType, setup' = setup, NEW r \in Runners, NEW p \in Pcs, Goto(r, p)
  PROVE  /\ OnlyJob(r) /\ job'[r].pc = p
         /\ job'[r].todo = job[r].todo /\ job'[r].snap = job[r].snap
<1> DEFINE j == [job[r] EXCEPT !.pc = p]
<1>1. job[r] \in Job BY DEF JobType
<1>2. j \in Job BY <1>1, JobEdits
<1>3. j.pc = p /\ j.todo = job[r].todo /\ j.snap = job[r].snap BY <1>1 DEF Job
<1>4. job' = [job EXCEPT ![r] = j] BY DEF Goto
<1> HIDE DEF j
<1> QED BY <1>2, <1>3, <1>4, OneJob

LEMMA GotoAtStep ==
  ASSUME JobType, setup' = setup, NEW r \in Runners, NEW p \in Pcs, NEW n \in Nat,
         GotoAt(r, p, n)
  PROVE  /\ OnlyJob(r) /\ job'[r].pc = p
         /\ job'[r].todo = job[r].todo /\ job'[r].snap = n
<1> DEFINE j == [job[r] EXCEPT !.pc = p, !.snap = n]
<1>1. job[r] \in Job BY DEF JobType
<1>2. j \in Job BY <1>1, JobEdits
<1>3. j.pc = p /\ j.todo = job[r].todo /\ j.snap = n BY <1>1 DEF Job
<1>4. job' = [job EXCEPT ![r] = j] BY DEF GotoAt, JobType
<1> HIDE DEF j
<1> QED BY <1>2, <1>3, <1>4, OneJob

LEMMA ReturnStep ==
  ASSUME JobType, setup' = setup, NEW r \in Runners, Return(r)
  PROVE  OnlyJob(r) /\ Rests(r) /\ job'[r].pc = "idle"
<1>1. OnlyJob(r) /\ job'[r] = Idle BY IdleFacts, OneJob DEF Return
<1> QED BY <1>1, IdleFacts DEF Rests, Owned, WithoutSlot

\* The record of a new call.
LEMMA CallStep ==
  ASSUME JobType, setup' = setup, NEW r \in Runners, NEW p \in Pcs, NEW t \in Seq(Slots),
         NEW c \in SUBSET Slots, NEW y \in BOOLEAN,
         NEW j \in {[Idle EXCEPT !.pc = p, !.todo = t],
                    [Idle EXCEPT !.pc = p, !.todo = t, !.retry = y],
                    [Idle EXCEPT !.pc = p, !.todo = t, !.cohort = c]},
         job' = [job EXCEPT ![r] = j]
  PROVE  OnlyJob(r) /\ job'[r].pc = p /\ job'[r].todo = t /\ job'[r].snap = 0
<1>1. j \in Job
  <2>1. [Idle EXCEPT !.pc = p, !.todo = t] \in Job BY IdleFacts, JobEdits
  <2>2. [Idle EXCEPT !.pc = p, !.todo = t, !.retry = y] \in Job BY IdleFacts, JobEdits
  <2>3. [Idle EXCEPT !.pc = p, !.todo = t, !.cohort = c] \in Job BY IdleFacts, JobEdits
  <2> QED BY <2>1, <2>2, <2>3
<1>2. j.pc = p /\ j.todo = t /\ j.snap = 0 BY DEF Idle
<1> QED BY <1>1, <1>2, OneJob

LEMMA CollectedStep ==
  ASSUME JobType, setup' = setup, NEW r \in Runners, job[r].todo # <<>>, Collected(r)
  PROVE  OnlyJob(r) /\ Rests(r)
<1> DEFINE rest == Tail(job[r].todo)
           j1 == [job[r] EXCEPT !.pc = "collect", !.todo = rest]
           j2 == [job[r] EXCEPT !.pc = "freeze", !.todo = <<>>, !.got = "none"]
<1>1. job[r] \in Job /\ job[r].todo \in Seq(Slots) BY JobFacts DEF JobType
<1>2. rest \in Seq(Slots) /\ <<>> \in Seq(Slots) BY <1>1
<1>3. CASE rest # <<>>
  <2>1. job' = [job EXCEPT ![r] = j1] BY <1>3 DEF Collected, JobType
  <2>2. j1 \in Job BY <1>1, <1>2, JobEdits DEF Pcs
  <2>3. j1.pc = "collect" /\ j1.todo = rest /\ j1.snap = job[r].snap BY <1>1 DEF Job
  <2> HIDE DEF j1, rest
  <2> QED BY <1>3, <2>1, <2>2, <2>3, OneJob DEF Rests, Owned, WithoutSlot
<1>4. CASE rest = <<>> /\ job[r].cohort # {}
  <2>1. job' = [job EXCEPT ![r] = j2] BY <1>4 DEF Collected, JobType
  <2>2. j2 \in Job BY <1>1, <1>2, JobEdits DEF Pcs
  <2>3. j2.pc = "freeze" /\ j2.snap = job[r].snap BY <1>1 DEF Job
  <2> HIDE DEF j2, rest
  <2> QED BY <1>4, <2>1, <2>2, <2>3, OneJob DEF Rests, Owned, WithoutSlot
<1>5. CASE rest = <<>> /\ job[r].cohort = {}
  <2>1. job' = [job EXCEPT ![r] = Idle] BY <1>5 DEF Collected, JobType
  <2> QED BY <2>1, ReturnStep DEF Return
<1> QED BY <1>3, <1>4, <1>5

LEMMA CollectRaisesStep ==
  ASSUME JobType, setup' = setup, NEW r \in Runners, job[r].todo # <<>>, CollectRaises(r)
  PROVE  OnlyJob(r) /\ Rests(r)
<1>1. CASE Goto(r, "fail") BY <1>1, GotoStep DEF Pcs, Rests, Owned
<1>2. CASE Return(r) BY <1>2, ReturnStep
<1> QED BY <1>1, <1>2 DEF CollectRaises

LEMMA RaiseToStep ==
  ASSUME JobType, setup' = setup, NEW r \in Runners, RaiseTo(r)
  PROVE  OnlyJob(r) /\ Rests(r)
<1>1. CASE job[r].todo # <<>> /\ Goto(r, "fail") BY <1>1, GotoStep DEF Pcs, Rests, Owned
<1>2. CASE Return(r) BY <1>2, ReturnStep
<1> QED BY <1>1, <1>2 DEF RaiseTo

LEMMA HandledStep ==
  ASSUME JobType, setup' = setup, NEW r \in Runners, NEW s \in Slots, NEW f, Handled(r, s, f)
  PROVE  OnlyJob(r) /\ Rests(r)
<1> DEFINE c == job[r].cohort \ {s}
           k == IF f = "keep" THEN job[r].keep \cup {s} ELSE job[r].keep
           h == IF f = "keep" THEN job[r].gone ELSE job[r].gone \cup {s}
           l == job[r].lost \/ f = "lost"
           j == [job[r] EXCEPT !.cohort = c, !.pc = "recover", !.todo = <<>>, !.keep = k,
                               !.gone = h, !.lost = l]
<1>1. job[r] \in Job BY DEF JobType
<1>2. c \in SUBSET Slots /\ k \in SUBSET Slots /\ h \in SUBSET Slots BY <1>1, JobFacts
<1>3. l \in BOOLEAN OBVIOUS
<1>4. job' = [job EXCEPT ![r] = j] BY DEF Handled, JobType
<1>5. j.pc = "recover" /\ j.snap = job[r].snap BY <1>1 DEF Job
<1> HIDE DEF c, k, h, l
<1>6. j \in Job
  <2>1. <<>> \in Seq(Slots) /\ "recover" \in Pcs BY DEF Pcs
  <2> QED BY <1>1, <1>2, <1>3, <2>1, JobEdits
<1> HIDE DEF j
<1> QED BY <1>4, <1>5, <1>6, OneJob DEF Rests, Owned, WithoutSlot

LEMMA InterruptStep ==
  ASSUME HostType, TurnType, setup' = setup, NEW r \in Runners, NEW gone, Interrupt(r, gone)
  PROVE  HostLeaves(r)
BY DEF HostType, TurnType, Interrupt, HostLeaves

LEMMA PopStep ==
  ASSUME HostType, TurnType, setup' = setup, NEW r \in Runners, Pop(r)
  PROVE  HostLeaves(r)
BY DEF HostType, TurnType, Pop, HostLeaves

LEMMA HostStays ==
  ASSUME HostType, TurnType, NEW r \in Runners, UNCHANGED <<turn, workers, started>>
  PROVE  HostLeaves(r)
BY DEF HostType, TurnType, HostLeaves

LEMMA SlotIn ==
  ASSUME JobType, NEW r \in Runners, job[r].todo # <<>>
  PROVE  Slot(r) \in Slots
BY JobFacts DEF JobType, Slot

\* The readers of a cohort are finitely many, in the order of their indices.
LEMMA InOrderFacts ==
  ASSUME SetupType, NEW kind \in {"REVIEWER", "CLOSURE_REVIEWER"}
  PROVE  /\ InOrder(kind) \in Seq(Readers) /\ InOrder(kind) # <<>>
         /\ Readers \subseteq Slots
         /\ kind = "REVIEWER" => ~Closes(InOrder(kind))
<1>1. \A i \in 1..Cohort : <<kind, i>> \in Readers
  BY DEF Readers, Reviewers, ClosureReviewers
<1>2. kind = "REVIEWER" => ~Closes(InOrder(kind))
  BY DEF Closes, InOrder, ClosureReviewers
<1> QED BY <1>1, <1>2, SetupFacts, SlotFacts DEF InOrder

LEMMA ReadersFinite ==
  ASSUME SetupType
  PROVE  IsFiniteSet(Reviewers) /\ IsFiniteSet(ClosureReviewers)
<1>1. IsFiniteSet(1..Cohort) BY SetupFacts, FS_Interval
<1>2. ASSUME NEW kind PROVE IsFiniteSet({<<kind, i>> : i \in 1..Cohort})
  <2> DEFINE S == {<<kind, i>> : i \in 1..Cohort}
             f == [i \in 1..Cohort |-> <<kind, i>>]
  <2>1. f \in Surjection(1..Cohort, S) BY DEF Surjection
  <2> QED BY <1>1, <2>1, FS_Surjection
<1> QED BY <1>2 DEF Reviewers, ClosureReviewers

LEMMA OrdersFacts ==
  ASSUME SetupType, NEW members \in (SUBSET Reviewers) \cup (SUBSET ClosureReviewers),
         members # {}, NEW slots \in Orders(members)
  PROVE  slots \in Seq(Slots) /\ slots # <<>> /\ members \subseteq Slots
<1>1. members \subseteq Slots BY SlotFacts DEF Readers
<1>2. Cardinality(members) \in Nat BY ReadersFinite, FS_Subset, FS_CardinalityType
<1>3. slots \in [1..Cardinality(members) -> members] BY DEF Orders
<1>4. slots \in Seq(Slots) BY <1>1, <1>2, <1>3
<1>5. slots # <<>>
  <2>1. \E i \in DOMAIN slots : TRUE BY DEF Orders
  <2>2. DOMAIN slots = 1..Len(slots) BY <1>4
  <2>3. slots = <<>> => Len(slots) = 0 OBVIOUS
  <2> QED BY <2>1, <2>2, <2>3
<1> QED BY <1>1, <1>4, <1>5

LEMMA CallsSlots ==
  ASSUME TypeInv, TodoInv, setup' = setup, NEW r \in Runners, Calls(r)
  PROVE  OnlyJob(r) /\ SlotStep(r)
<1>0. SetupType /\ HostType /\ TurnType /\ JobType /\ NodeType BY DEF TypeInv
<1> USE <1>0
<1>s. UNCHANGED <<turn, workers, started>> => HostLeaves(r) BY HostStays
<1>1. CASE StepDispatch(r)
  <2>1. ToDispatch \in Seq(Readers) \/ (Tail(ToDispatch) = <<>> /\ Due(Head(ToDispatch)))
    <3>1. /\ \A s : Tail(<<s>>) = <<>> /\ Head(<<s>>) = s
          /\ <<>> \in Seq(Readers)
      OBVIOUS
    <3>2. ToDispatch # <<>> BY <1>1 DEF StepDispatch
    <3>3. CASE node = "ADMITTED"
      <4>1. ToDispatch = <<Implementer(0)>> BY <3>3 DEF ToDispatch
      <4>2. Due(Implementer(0)) BY <3>3 DEF Due, Implementer, Repairer
      <4> QED BY <3>1, <4>1, <4>2
    <3>4. CASE node = "IMPLEMENTING"
      <4>1. ToDispatch = <<Implementer(1)>> /\ corrections = 1 BY <3>2, <3>4 DEF ToDispatch
      <4>2. Due(Implementer(1)) BY <3>4, <4>1 DEF Due, Implementer, Repairer
      <4> QED BY <3>1, <4>1, <4>2
    <3>5. CASE node = "REPAIR_AUTHORIZED"
      <4>1. ToDispatch = <<Repairer>> BY <3>5 DEF ToDispatch
      <4>2. Due(Repairer) BY <3>5 DEF Due, Implementer, Repairer
      <4> QED BY <3>1, <4>1, <4>2
    <3>6. CASE node = "VALIDATING"
      <4>1. ToDispatch = <<<<"VALIDATOR", corrections>>>> BY <3>6 DEF ToDispatch
      <4>2. Due(<<"VALIDATOR", corrections>>)
        BY <3>6 DEF Due, Implementer, Repairer, NodeType
      <4> QED BY <3>1, <4>1, <4>2
    <3>7. CASE node = "REVALIDATING"
      <4>1. ToDispatch = <<<<"VALIDATOR", 2>>>> BY <3>7 DEF ToDispatch
      <4>2. Due(<<"VALIDATOR", 2>>) BY <3>7 DEF Due, Implementer, Repairer
      <4> QED BY <3>1, <4>1, <4>2
    <3>8. CASE node = "CLOSURE"
      <4>1. ToDispatch = InOrder("CLOSURE_REVIEWER") BY <3>2, <3>8 DEF ToDispatch
      <4> QED BY <4>1, InOrderFacts
    <3> QED BY <3>2, <3>3, <3>4, <3>5, <3>6, <3>7, <3>8 DEF ToDispatch
  <2>2. ToDispatch # <<>> BY <1>1 DEF StepDispatch
  <2>3. ToDispatch \in Seq(Slots)
    <3>1. {Implementer(0), Implementer(1), Repairer, <<"VALIDATOR", 2>>,
           <<"VALIDATOR", corrections>>} \subseteq Slots
      BY SlotFacts DEF NodeType
    <3>2. InOrder("CLOSURE_REVIEWER") \in Seq(Slots) BY InOrderFacts
    <3> QED BY <3>1, <3>2 DEF ToDispatch
  <2>4. job' = [job EXCEPT ![r] = [Idle EXCEPT !.pc = "reserve", !.todo = ToDispatch]]
        /\ UNCHANGED <<nodeVars, attempts, receipt, turn, started, workers>>
    BY <1>1 DEF StepDispatch, Start, storeVars, hostVars
  <2>5. OnlyJob(r) /\ job'[r].pc = "reserve" /\ job'[r].todo = ToDispatch /\ job'[r].snap = 0
    BY <2>3, <2>4, CallStep DEF Pcs
  <2>6. Closes(ToDispatch) => node = "CLOSURE"
    <3>1. {Implementer(0), Implementer(1), Repairer, <<"VALIDATOR", 2>>,
           <<"VALIDATOR", corrections>>} \cap ClosureReviewers = {}
      BY SlotFacts DEF NodeType, Readers
    <3>2. \A s : Closes(<<s>>) => s \in ClosureReviewers BY DEF Closes
    <3>3. ~Closes(<<>>) BY DEF Closes
    <3> QED BY <3>1, <3>2, <3>3 DEF ToDispatch
  <2> QED BY <2>1, <2>2, <2>4, <2>5, <2>6 DEF SlotStep, Begins, ToReserve, nodeVars
<1>2. CASE StepDrift(r)
  <2>1. /\ ToDispatch = <<Implementer(1)>> /\ <<Implementer(1)>> \in Seq(Slots)
        /\ <<Implementer(1)>> # <<>>
    BY <1>2, SlotFacts DEF StepDrift
  <2>2. job' = [job EXCEPT ![r] = [Idle EXCEPT !.pc = "fail", !.todo = <<Implementer(1)>>]]
        /\ UNCHANGED <<attempts, receipt, turn, started, workers>>
    BY <1>2, <2>1 DEF StepDrift, storeVars, hostVars
  <2>3. OnlyJob(r) /\ job'[r].pc = "fail" /\ job'[r].todo = <<Implementer(1)>> /\ job'[r].snap = 0
    BY <2>1, <2>2, CallStep DEF Pcs
  <2> QED BY <1>s, <2>1, <2>2, <2>3 DEF SlotStep, Leaves, Rests, Owned
<1>i. ASSUME job[r].pc = "idle", UNCHANGED job
      PROVE  OnlyJob(r) /\ Rests(r)
  BY <1>i, Frame DEF OnlyJob, Rests, Owned, WithoutSlot, JobType
<1>3. CASE StepDeadline(r)
  <2>1. job[r].pc = "idle" /\ UNCHANGED <<job, attempts, receipt>> /\ Interrupt(r, workers[r])
    BY <1>3 DEF StepDeadline, At, Fail
  <2> QED BY <2>1, <1>i, InterruptStep DEF SlotStep, Leaves
<1>4. CASE StepReview(r)
  <2>1. CASE UNCHANGED job
    <3>1. ASSUME Start(r, InOrder("REVIEWER")) PROVE job'[r].pc = "reserve"
      <4>1. InOrder("REVIEWER") \in Seq(Slots) BY InOrderFacts
      <4> QED BY <3>1, <4>1, CallStep DEF Start, Pcs
    <3>2. job[r].pc = "idle" BY <1>4 DEF StepReview, At
    <3>3. ~Start(r, InOrder("REVIEWER")) BY <2>1, <3>1, <3>2
    <3>4. UNCHANGED <<attempts, receipt>> /\ Interrupt(r, workers[r])
      BY <1>4, <3>3 DEF StepReview, Fail
    <3> QED BY <2>1, <3>2, <3>4, <1>i, InterruptStep DEF SlotStep, Leaves
  <2>2. CASE Start(r, InOrder("REVIEWER"))
             /\ UNCHANGED <<attempts, receipt, turn, started, workers>>
    <3>1. InOrder("REVIEWER") \in Seq(Slots) /\ InOrder("REVIEWER") \in Seq(Readers)
          /\ InOrder("REVIEWER") # <<>> /\ ~Closes(InOrder("REVIEWER"))
      BY InOrderFacts
    <3>2. OnlyJob(r) /\ job'[r].pc = "reserve" /\ job'[r].todo = InOrder("REVIEWER")
          /\ job'[r].snap = 0
      BY <2>2, <3>1, CallStep DEF Start, Pcs
    <3> QED BY <2>2, <3>1, <3>2 DEF SlotStep, Begins, ToReserve
  <2> QED BY <1>4, <2>1, <2>2 DEF StepReview, hostVars
<1>5. CASE StepReady(r)
  <2>1. job[r].pc = "idle" /\ UNCHANGED <<job, attempts, receipt, turn, workers, started>>
    BY <1>5 DEF StepReady, At, hostVars
  <2> QED BY <2>1, <1>i, <1>s DEF SlotStep, Leaves
<1>6. ASSUME NEW s \in workers[r], CompleteCall(r, s)
      PROVE  OnlyJob(r) /\ SlotStep(r)
  <2>1. <<s>> \in Seq(Slots) /\ <<s>> # <<>> BY DEF HostType
  <2>2. job' = [job EXCEPT ![r] = [Idle EXCEPT !.pc = "collect", !.todo = <<s>>]]
        /\ UNCHANGED <<attempts, receipt, turn, started, workers>>
    BY <1>6 DEF CompleteCall, storeVars, hostVars
  <2>3. OnlyJob(r) /\ job'[r].pc = "collect" /\ job'[r].todo = <<s>> /\ job'[r].snap = 0
    BY <2>1, <2>2, CallStep DEF Pcs
  <2> QED BY <1>s, <2>1, <2>2, <2>3 DEF SlotStep, Leaves, Rests, Owned
<1>7. ASSUME NEW s \in workers[r], RetryCall(r, s)
      PROVE  OnlyJob(r) /\ SlotStep(r)
  <2>1. <<s>> \in Seq(Slots) /\ <<s>> # <<>> BY DEF HostType
  <2>2. /\ job[r].pc = "idle"
        /\ \/ job' = [job EXCEPT ![r] =
                [Idle EXCEPT !.pc = "retry", !.todo = <<s>>, !.retry = TRUE]]
           \/ UNCHANGED job
        /\ attempts \subseteq attempts' /\ UNCHANGED <<receipt, turn, started, workers>>
    BY <1>7 DEF RetryCall, Reserve, At, hostVars
  <2>3. CASE job' = [job EXCEPT ![r] = [Idle EXCEPT !.pc = "retry", !.todo = <<s>>, !.retry = TRUE]]
    <3>1. OnlyJob(r) /\ job'[r].pc = "retry" /\ job'[r].todo = <<s>> /\ job'[r].snap = 0
      BY <2>1, <2>3, CallStep DEF Pcs
    <3> QED BY <1>s, <2>1, <2>2, <3>1 DEF SlotStep, Leaves, Rests, Owned
  <2> QED BY <1>i, <1>s, <2>2, <2>3 DEF SlotStep, Leaves
<1>8. ASSUME NEW given \in (SUBSET Reviewers) \cup (SUBSET ClosureReviewers), CollectCall(r, given)
      PROVE  OnlyJob(r) /\ SlotStep(r)
  <2>1. given # {} /\ UNCHANGED <<attempts, receipt, turn, started, workers>>
    BY <1>8 DEF CollectCall, storeVars, hostVars
  <2>2. PICK slots \in Orders(given) :
          job' = [job EXCEPT ![r] =
            [Idle EXCEPT !.pc = "collect", !.todo = slots, !.cohort = given]]
    BY <1>8 DEF CollectCall
  <2>3. slots \in Seq(Slots) /\ slots # <<>> /\ given \in SUBSET Slots BY <2>1, OrdersFacts
  <2>4. OnlyJob(r) /\ job'[r].pc = "collect" /\ job'[r].todo = slots /\ job'[r].snap = 0
    BY <2>2, <2>3, CallStep DEF Pcs
  <2> QED BY <1>s, <2>1, <2>3, <2>4 DEF SlotStep, Leaves, Rests, Owned
<1>9. ASSUME NEW p \in {"freeze", "recover"}, NEW c \in SUBSET Slots,
             job' = [job EXCEPT ![r] = [Idle EXCEPT !.pc = p, !.cohort = c]],
             UNCHANGED <<attempts, receipt, turn, started, workers>>
      PROVE  OnlyJob(r) /\ SlotStep(r)
  <2> DEFINE j == [Idle EXCEPT !.pc = p, !.cohort = c]
  <2>1. j \in Job BY IdleFacts, JobEdits DEF Pcs
  <2>2. j.pc = p /\ j.snap = 0 BY DEF Idle
  <2> HIDE DEF j
  <2>3. OnlyJob(r) /\ job'[r].pc = p /\ job'[r].snap = 0 BY <1>9, <2>1, <2>2, OneJob DEF j
  <2> QED BY <1>s, <1>9, <2>3 DEF SlotStep, Leaves, Rests, Owned, WithoutSlot
<1>10. ASSUME NEW given \in (SUBSET Reviewers) \cup (SUBSET ClosureReviewers), FreezeCall(r, given)
       PROVE  OnlyJob(r) /\ SlotStep(r)
  <2>1. given \in SUBSET Slots BY SlotFacts DEF Readers
  <2> QED BY <1>9, <1>10, <2>1 DEF FreezeCall, storeVars, hostVars
<1>11. CASE RecoverCall(r)
  <2>1. Active \in SUBSET Slots BY DEF Active
  <2> QED BY <1>9, <1>11, <2>1 DEF RecoverCall, storeVars, hostVars
<1>12. \A given \in SUBSET Reviewers : CollectCall(r, given) \/ FreezeCall(r, given) =>
         OnlyJob(r) /\ SlotStep(r)
  BY <1>8, <1>10
<1>13. \A given \in SUBSET ClosureReviewers : CollectCall(r, given) \/ FreezeCall(r, given) =>
         OnlyJob(r) /\ SlotStep(r)
  BY <1>8, <1>10
<1> QED BY <1>1, <1>2, <1>3, <1>4, <1>5, <1>6, <1>7, <1>11, <1>12, <1>13 DEF Calls

LEMMA HasSlot ==
  ASSUME TypeInv, TodoInv, NEW r \in Runners, job[r].pc \notin WithoutSlot
  PROVE  job[r].todo # <<>> /\ Slot(r) \in Slots
BY SlotIn DEF TypeInv, TodoInv

LEMMA DispatchSlots ==
  ASSUME TypeInv, TodoInv, setup' = setup, NEW r \in Runners,
         Dispatching(r) \/ FailDispatch(r) \/ Validate(r) \/ FreeValidator(r)
  PROVE  OnlyJob(r) /\ SlotStep(r)
<1>0. SetupType /\ HostType /\ TurnType /\ JobType /\ NodeType BY DEF TypeInv
<1> USE <1>0 DEF At
<1>s. UNCHANGED <<turn, workers, started>> => HostLeaves(r) BY HostStays
<1>n. revision \in Nat /\ revision + 1 \in Nat BY DEF NodeType
<1>b. FailBudget(r) => OnlyJob(r) /\ Leaves(r)
  <2> SUFFICES ASSUME FailBudget(r) PROVE OnlyJob(r) /\ Leaves(r) OBVIOUS
  <2>1. UNCHANGED <<attempts, receipt>> BY DEF FailBudget, Fail
  <2>2. HostLeaves(r) BY InterruptStep DEF FailBudget
  <2>3. OnlyJob(r) /\ Rests(r) BY ReturnStep DEF FailBudget
  <2> QED BY <2>1, <2>2, <2>3 DEF Leaves
<1>f. ASSUME job[r].todo # <<>>, Goto(r, "fail"),
             UNCHANGED <<attempts, receipt, turn, workers, started>>
      PROVE  OnlyJob(r) /\ Leaves(r)
  <2>1. OnlyJob(r) /\ Rests(r) BY <1>f, GotoStep DEF Pcs, Rests, Owned
  <2> QED BY <1>f, <1>s, <2>1 DEF Leaves
<1>1. CASE ReserveSlot(r)
  <2>1. job[r].pc = "reserve" BY <1>1 DEF ReserveSlot
  <2>2. CASE Reserve(Slot(r)) /\ GotoAt(r, "acquire", revision + 1)
             /\ UNCHANGED <<campaign, node, blockers, corrections, holder, receipt, hostVars>>
    <3>1. /\ OnlyJob(r) /\ job'[r].pc = "acquire" /\ job'[r].todo = job[r].todo
          /\ job'[r].snap = revision + 1
      BY <1>n, <2>2, GotoAtStep DEF Pcs
    <3>2. revision' = revision + 1 /\ Slot(r) \notin attempts
          /\ attempts' = attempts \cup {Slot(r)}
      BY <2>2 DEF Reserve
    <3> QED BY <2>1, <2>2, <3>1, <3>2 DEF SlotStep, Reserves, hostVars
  <2>3. CASE Return(r) /\ UNCHANGED <<storeVars, hostVars>>
    BY <1>s, <2>3, ReturnStep DEF SlotStep, Leaves, storeVars, hostVars
  <2>4. CASE FailBudget(r) BY <1>b, <2>4 DEF SlotStep
  <2>5. CASE RaiseTo(r) /\ UNCHANGED <<storeVars, hostVars>>
    BY <1>s, <2>5, RaiseToStep DEF SlotStep, Leaves, storeVars, hostVars
  <2> QED BY <1>1, <2>2, <2>3, <2>4, <2>5 DEF ReserveSlot
<1>2. CASE AcquireLease(r)
  <2>1. job[r].pc = "acquire" /\ UNCHANGED <<turn, started, workers>>
    BY <1>2 DEF AcquireLease, hostVars
  <2>2. CASE /\ ~Stale(r)
             /\ receipt' = [receipt EXCEPT ![Slot(r)] = "none"]
             /\ Goto(r, IF Slot(r) \in Validators THEN "run" ELSE "create")
             /\ UNCHANGED <<campaign, node, blockers, corrections, attempts>>
    <3> DEFINE p == IF Slot(r) \in Validators THEN "run" ELSE "create"
    <3>1. p \in Pcs BY DEF Pcs
    <3>2. OnlyJob(r) /\ job'[r].pc = p /\ job'[r].todo = job[r].todo /\ job'[r].snap = job[r].snap
      BY <2>2, <3>1, GotoStep
    <3> QED BY <2>1, <2>2, <3>2 DEF SlotStep, Acquires
  <2>3. CASE RaiseTo(r) /\ UNCHANGED storeVars
    BY <1>s, <2>1, <2>3, RaiseToStep DEF SlotStep, Leaves, storeVars
  <2> QED BY <1>2, <2>2, <2>3 DEF AcquireLease
<1>3. CASE CreateActor(r)
  <2>1. job[r].pc = "create" /\ UNCHANGED <<attempts, receipt, workers, started>>
    BY <1>3 DEF CreateActor
  <2>2. CASE /\ turn' = [turn EXCEPT ![Slot(r)] = "idle"]
             /\ Goto(r, IF Slot(r) \in Readers \cup {Implementer(1)} THEN "pay" ELSE "start")
    <3> DEFINE p == IF Slot(r) \in Readers \cup {Implementer(1)} THEN "pay" ELSE "start"
    <3>1. p \in Pcs BY DEF Pcs
    <3>2. OnlyJob(r) /\ job'[r].pc = p /\ job'[r].todo = job[r].todo /\ job'[r].snap = job[r].snap
      BY <2>2, <3>1, GotoStep
    <3> QED BY <2>1, <2>2, <3>2 DEF SlotStep, Creates
  <2>3. CASE Goto(r, "fail") /\ UNCHANGED turn
    BY <1>f, <2>1, <2>3, HasSlot DEF SlotStep, WithoutSlot
  <2> QED BY <1>3, <2>2, <2>3 DEF CreateActor
<1>4. CASE StartEvent(r) \/ PayStart(r)
  <2>1. job[r].pc \in {"start", "pay"} BY <1>4 DEF StartEvent, PayStart
  <2>2. CASE /\ \/ \E p \in {"pay", "turn"} :
                     /\ p = "pay" => job[r].pc = "start" /\ Slot(r) = Repairer
                     /\ GotoAt(r, p, revision + 1) /\ revision' = revision + 1
                \/ Goto(r, "turn")
             /\ attempts \subseteq attempts' /\ UNCHANGED <<receipt, hostVars>>
    <3>1. /\ OnlyJob(r) /\ job'[r].pc \in {"pay", "turn"} /\ job'[r].todo = job[r].todo
          /\ job'[r].pc = "pay" => job[r].pc = "start" /\ Slot(r) = Repairer
          /\ job'[r].snap \in {job[r].snap, revision'}
      <4>1. ASSUME NEW p \in {"pay", "turn"}, GotoAt(r, p, revision + 1), revision' = revision + 1,
                   p = "pay" => job[r].pc = "start" /\ Slot(r) = Repairer
            PROVE  /\ OnlyJob(r) /\ job'[r].pc \in {"pay", "turn"} /\ job'[r].todo = job[r].todo
                   /\ job'[r].pc = "pay" => job[r].pc = "start" /\ Slot(r) = Repairer
                   /\ job'[r].snap \in {job[r].snap, revision'}
        BY <4>1, <1>n, GotoAtStep DEF Pcs
      <4>2. CASE Goto(r, "turn") BY <4>2, GotoStep DEF Pcs
      <4> QED BY <2>2, <4>1, <4>2
    <3> QED BY <2>1, <2>2, <3>1 DEF SlotStep, Pays, hostVars
  <2>3. CASE FailBudget(r) BY <1>b, <2>3 DEF SlotStep
  <2>4. CASE Goto(r, "fail") /\ UNCHANGED <<storeVars, hostVars>>
    BY <1>f, <2>1, <2>4, HasSlot DEF SlotStep, WithoutSlot, storeVars, hostVars
  <2>5. CASE StartEvent(r)
    BY <2>5, <2>2, <2>3, <2>4 DEF StartEvent, Move
  <2>6. CASE PayStart(r)
    BY <2>6, <2>2, <2>3, <2>4 DEF PayStart, Reserve
  <2> QED BY <1>4, <2>5, <2>6
<1>5. CASE StartTurn(r)
  <2>1. job[r].pc = "turn" /\ UNCHANGED <<attempts, receipt>> BY <1>5 DEF StartTurn, storeVars
  <2>2. job[r].todo # <<>> BY <2>1, HasSlot DEF WithoutSlot
  <2>3. CASE Goto(r, "fail") /\ UNCHANGED hostVars
    BY <1>f, <2>1, <2>2, <2>3 DEF SlotStep, hostVars
  <2> DEFINE rest == Tail(job[r].todo)
  <2>4. CASE /\ turn[Slot(r)] = "idle"
             /\ turn' = [turn EXCEPT ![Slot(r)] = "running"]
             /\ started' = [started EXCEPT ![Slot(r)] = @ + 1]
             /\ workers' = [workers EXCEPT ![r] = @ \cup {Slot(r)}]
             /\ job' = [job EXCEPT ![r] = IF rest = <<>> THEN Idle
                                          ELSE [Idle EXCEPT !.pc = "reserve", !.todo = rest]]
    <3>1. job[r].todo \in Seq(Slots) BY JobFacts DEF JobType
    <3>2. CASE rest = <<>>
      <4>1. Return(r) BY <2>4, <3>2 DEF Return
      <4>2. OnlyJob(r) /\ Rests(r) BY <4>1, ReturnStep
      <4> QED BY <2>1, <2>4, <4>2 DEF SlotStep, Starts
    <3>3. CASE rest # <<>>
      <4>1. job' = [job EXCEPT ![r] = [Idle EXCEPT !.pc = "reserve", !.todo = rest]]
        BY <2>4, <3>3
      <4>2. rest \in Seq(Slots) BY <2>2, <3>1
      <4>3. rest \in Seq(Readers)
        <5>1. job[r].todo \in Seq(Readers) BY <2>1, <3>3 DEF TodoInv, Owned
        <5> QED BY <2>2, <5>1
      <4> HIDE DEF rest
      <4>4. OnlyJob(r) /\ job'[r].pc = "reserve" /\ job'[r].todo = rest /\ job'[r].snap = 0
        BY <4>1, <4>2, CallStep DEF Pcs
      <4> QED BY <2>1, <2>4, <3>3, <4>3, <4>4 DEF SlotStep, Starts, ToReserve, rest
    <3> QED BY <3>2, <3>3
  <2> QED BY <1>5, <2>3, <2>4 DEF StartTurn
<1>6. CASE FailDispatch(r)
  <2>1. UNCHANGED <<attempts, receipt>> /\ Return(r)
        /\ Interrupt(r, workers[r] \cup {Slot(r)})
    BY <1>6 DEF FailDispatch, FailIfRunning, Fail, storeVars
  <2> QED BY <2>1, InterruptStep, ReturnStep DEF SlotStep, Leaves
<1>7. CASE Validate(r)
  <2>1. job[r].pc = "run" BY <1>7 DEF Validate
  <2>2. CASE Goto(r, "free") /\ UNCHANGED <<attempts, receipt, hostVars>>
    <3>1. OnlyJob(r) /\ Rests(r) BY <2>1, <2>2, GotoStep, HasSlot DEF Pcs, Rests, Owned, WithoutSlot
    <3> QED BY <1>s, <2>2, <3>1 DEF SlotStep, Leaves, hostVars
  <2>3. CASE /\ Return(r) /\ UNCHANGED <<attempts, receipt>>
             /\ Interrupt(r, workers[r]) \/ UNCHANGED hostVars
    BY <1>s, <2>3, InterruptStep, ReturnStep DEF SlotStep, Leaves, hostVars
  <2>4. CASE FailBudget(r) BY <1>b, <2>4 DEF SlotStep
  <2> QED BY <1>7, <2>2, <2>3, <2>4 DEF Validate, Fail, storeVars
<1>8. CASE FreeValidator(r)
  <2>1. Return(r) /\ UNCHANGED <<attempts, receipt, turn, workers, started>>
    BY <1>8 DEF FreeValidator, ReleaseLease, storeVars, hostVars
  <2> QED BY <1>s, <2>1, ReturnStep DEF SlotStep, Leaves
<1> QED BY <1>1, <1>2, <1>3, <1>4, <1>5, <1>6, <1>7, <1>8 DEF Dispatching

\* A turn that was started ends with an outcome of its role.
LEMMA EndedOutcome ==
  ASSUME TypeInv, TurnInv, WorkerInv, NEW r \in Runners, NEW s \in workers[r],
         NEW o \in Ended(s) \ {"gone"}
  PROVE  s \in Slots /\ o \in OutcomesOf(s) /\ o \in Outcomes
<1>1. s \in Slots BY DEF TypeInv, HostType
<1>2. turn[s] \notin {"none", "idle"} BY <1>1 DEF TurnInv, WorkerInv
<1>3. turn[s] \in {"none", "idle", "running", "gone"} \cup OutcomesOf(s)
  BY <1>1 DEF TypeInv, TurnType
<1>4. OutcomesOf(s) \subseteq Outcomes BY DEF OutcomesOf
<1> QED BY <1>1, <1>2, <1>3, <1>4 DEF Ended

LEMMA CollectSlots ==
  ASSUME TypeInv, TodoInv, TurnInv, WorkerInv, setup' = setup, NEW r \in Runners,
         Collecting(r)
  PROVE  OnlyJob(r) /\ SlotStep(r)
<1>0. SetupType /\ HostType /\ TurnType /\ JobType /\ NodeType BY DEF TypeInv
<1> USE <1>0 DEF At
<1>s. UNCHANGED <<turn, workers, started>> => HostLeaves(r) BY HostStays
<1>n. revision \in Nat /\ revision + 1 \in Nat BY DEF NodeType
<1>t. job[r].todo # <<>> /\ Slot(r) \in Slots
  BY HasSlot DEF Collecting, RecordRetry, RefuseCollection, CollectReceipt, TransportFails,
     PersistReceipt, TerminalEvent, ReleaseWorker, WithoutSlot
<1>c. ASSUME CollectRaises(r) \/ Collected(r), HostLeaves(r), UNCHANGED receipt,
             attempts \subseteq attempts'
      PROVE  OnlyJob(r) /\ Leaves(r)
  BY <1>c, <1>t, CollectRaisesStep, CollectedStep DEF Leaves
<1>g. ASSUME NEW p \in {"collect", "fail", "release"}, Goto(r, p), HostLeaves(r),
             UNCHANGED <<receipt, attempts>>
      PROVE  OnlyJob(r) /\ Leaves(r)
  <2>1. OnlyJob(r) /\ Rests(r) BY <1>g, <1>t, GotoStep DEF Pcs, Rests, Owned
  <2> QED BY <1>g, <2>1 DEF Leaves
<1>1. CASE RecordRetry(r)
  BY <1>1, <1>g, <1>s DEF RecordRetry, hostVars, SlotStep
<1>2. CASE RefuseCollection(r)
  <2>1. CollectRaises(r) /\ UNCHANGED <<receipt, turn, workers, started>>
        /\ attempts \subseteq attempts'
    BY <1>2 DEF RefuseCollection, Reserve, storeVars, hostVars
  <2> QED BY <2>1, <1>c, <1>s DEF SlotStep
<1>3. CASE CollectReceipt(r)
  <2>1. job[r].pc = "collect" /\ UNCHANGED <<attempts, receipt, workers, started>>
    BY <1>3 DEF CollectReceipt, storeVars
  <2>2. CASE (CollectRaises(r) \/ Collected(r)) /\ UNCHANGED turn
    BY <2>1, <2>2, <1>c, <1>s DEF SlotStep
  <2>3. ASSUME Slot(r) \in workers[r], NEW o \in Ended(Slot(r)) \ {"gone"},
               turn' = [turn EXCEPT ![Slot(r)] = o],
               job' = [job EXCEPT ![r].pc = "persist", ![r].got = o]
        PROVE  OnlyJob(r) /\ Ends(r)
    <3> DEFINE j == [job[r] EXCEPT !.pc = "persist", !.got = o]
    <3>1. job[r] \in Job BY DEF JobType
    <3>2. o \in Outcomes BY <2>3, EndedOutcome
    <3>3. j \in Job BY <3>1, <3>2, JobEdits DEF Pcs
    <3>4. j.pc = "persist" /\ j.todo = job[r].todo /\ j.snap = job[r].snap /\ j.got = o
      BY <3>1 DEF Job
    <3>5. job' = [job EXCEPT ![r] = j] BY <2>3 DEF JobType
    <3> HIDE DEF j
    <3>6. OnlyJob(r) /\ job'[r] = j BY <3>3, <3>5, OneJob
    <3> QED BY <2>1, <2>3, <3>4, <3>6 DEF Ends
  <2> QED BY <1>3, <2>2, <2>3 DEF CollectReceipt, SlotStep
<1>4. CASE TransportFails(r)
  <2>1. (CollectRaises(r) \/ Goto(r, "fail"))
        /\ UNCHANGED <<attempts, receipt, turn, workers, started>>
    BY <1>4 DEF TransportFails, hostVars
  <2> QED BY <2>1, <1>c, <1>g, <1>s DEF SlotStep
<1>5. CASE PersistReceipt(r)
  <2>1. job[r].pc = "persist" /\ UNCHANGED <<attempts, turn, workers, started>>
    BY <1>5 DEF PersistReceipt, storeVars, hostVars
  <2>2. CASE /\ Attestable(Slot(r), job[r].got)
             /\ receipt' = [receipt EXCEPT ![Slot(r)] = job[r].got]
             /\ GotoAt(r, IF Slot(r) \in Readers /\ job[r].got # "failed"
                          THEN "release" ELSE "event", revision)
             /\ UNCHANGED nodeVars
    <3> DEFINE p == IF Slot(r) \in Readers /\ job[r].got # "failed" THEN "release" ELSE "event"
    <3>1. p \in Pcs /\ p \in {"release", "event"} BY DEF Pcs
    <3>2. OnlyJob(r) /\ job'[r].pc = p /\ job'[r].todo = job[r].todo /\ job'[r].snap = revision
      BY <2>2, <3>1, <1>n, GotoAtStep
    <3> HIDE DEF p
    <3> QED BY <2>1, <2>2, <3>1, <3>2 DEF SlotStep, Persists, nodeVars
  <2>3. CASE CollectRaises(r) /\ UNCHANGED receipt
    BY <2>1, <2>3, <1>c, <1>s DEF SlotStep
  <2> QED BY <1>5, <2>2, <2>3 DEF PersistReceipt, storeVars
<1>6. CASE TerminalEvent(r)
  <2>1. UNCHANGED <<attempts, receipt>> BY <1>6 DEF TerminalEvent, Fail, storeVars
  <2>2. CASE Pop(r) /\ Collected(r) BY <2>1, <2>2, <1>c, PopStep DEF SlotStep
  <2>3. CASE GotoAt(r, "release", revision + 1) /\ revision' = revision + 1 /\ UNCHANGED hostVars
    <3>1. OnlyJob(r) /\ Rests(r)
      BY <2>3, <1>n, <1>t, GotoAtStep DEF Pcs, Rests, Owned
    <3> QED BY <1>s, <2>1, <2>3, <3>1 DEF SlotStep, Leaves, hostVars
  <2>4. CASE Goto(r, "release") /\ UNCHANGED hostVars
    BY <2>1, <2>4, <1>g, <1>s DEF SlotStep, hostVars
  <2>5. CASE CollectRaises(r) /\ UNCHANGED hostVars
    BY <2>1, <2>5, <1>c, <1>s DEF SlotStep, hostVars
  <2> QED BY <1>6, <2>2, <2>3, <2>4, <2>5 DEF TerminalEvent, Move
<1>7. CASE ReleaseWorker(r)
  <2>1. UNCHANGED <<attempts, receipt>> BY <1>7 DEF ReleaseWorker, ReleaseLease, storeVars
  <2>2. CASE Pop(r) /\ Collected(r) BY <2>1, <2>2, <1>c, PopStep DEF SlotStep
  <2>3. CASE CollectRaises(r) /\ UNCHANGED hostVars
    BY <2>1, <2>3, <1>c, <1>s DEF SlotStep, hostVars
  <2> QED BY <1>7, <2>2, <2>3 DEF ReleaseWorker
<1> QED BY <1>1, <1>2, <1>3, <1>4, <1>5, <1>6, <1>7 DEF Collecting

LEMMA RecoverSlots ==
  ASSUME TypeInv, TodoInv, setup' = setup, NEW r \in Runners,
         Recovering(r) \/ FreezeReview(r) \/ Crash(r)
  PROVE  OnlyJob(r) /\ SlotStep(r)
<1>0. SetupType /\ HostType /\ TurnType /\ JobType /\ NodeType BY DEF TypeInv
<1> USE <1>0 DEF At
<1>s. UNCHANGED <<turn, workers, started>> => HostLeaves(r) BY HostStays
<1>n. revision \in Nat /\ revision + 1 \in Nat BY DEF NodeType
<1>1. CASE RecoverOne(r)
  <2>1. UNCHANGED <<attempts, receipt, turn, workers, started>>
    BY <1>1 DEF RecoverOne, storeVars, hostVars
  <2>2. PICK s \in job[r].cohort :
          \/ \E n \in {revision, revision'} :
               /\ n = revision'
               /\ job' = [job EXCEPT ![r].pc = "recovered", ![r].todo = <<s>>, ![r].snap = n]
          \/ \E f \in {"keep", "lost"} : Handled(r, s, f)
    BY <1>1 DEF RecoverOne, Move, storeVars, nodeVars
  <2>3. s \in Slots BY JobFacts DEF JobType
  <2>4. CASE \E f \in {"keep", "lost"} : Handled(r, s, f)
    BY <1>s, <2>1, <2>3, <2>4, HandledStep DEF SlotStep, Leaves
  <2>5. CASE job' = [job EXCEPT ![r].pc = "recovered", ![r].todo = <<s>>, ![r].snap = revision']
    <3> DEFINE j == [job[r] EXCEPT !.pc = "recovered", !.todo = <<s>>, !.snap = revision']
    <3>1. job[r] \in Job /\ revision' \in Nat /\ <<s>> \in Seq(Slots) /\ <<s>> # <<>>
      BY <1>1, <1>n, <2>3 DEF JobType, RecoverOne, Move, storeVars, nodeVars
    <3>2. j \in Job BY <3>1, JobEdits DEF Pcs
    <3>3. j.pc = "recovered" /\ j.todo = <<s>> /\ j.snap = revision' BY <3>1 DEF Job
    <3>4. job' = [job EXCEPT ![r] = j] BY <2>5 DEF JobType
    <3> HIDE DEF j
    <3>5. OnlyJob(r) /\ Rests(r)
      BY <3>1, <3>2, <3>3, <3>4, OneJob DEF Rests, Owned
    <3> QED BY <1>s, <2>1, <3>5 DEF SlotStep, Leaves
  <2> QED BY <2>2, <2>4, <2>5
<1>2. CASE RecoverRelease(r)
  <2>1. UNCHANGED <<attempts, receipt>> /\ HostLeaves(r)
    BY <1>2, <1>s, PopStep DEF RecoverRelease, ReleaseLease, storeVars, hostVars
  <2>2. Slot(r) \in Slots BY <1>2, HasSlot DEF RecoverRelease, WithoutSlot
  <2>3. \E f \in {"done", "lost"} : Handled(r, Slot(r), f) BY <1>2 DEF RecoverRelease
  <2> QED BY <2>1, <2>2, <2>3, HandledStep DEF SlotStep, Leaves
<1>3. CASE RecoverKill(r)
  <2> DEFINE kept == IF job[r].lost THEN {} ELSE job[r].keep
             j == [job[r] EXCEPT !.pc = "restore", !.keep = kept]
  <2>1. UNCHANGED <<attempts, receipt>> /\ HostLeaves(r)
    BY <1>3, InterruptStep DEF RecoverKill, storeVars
  <2>2. job[r] \in Job /\ kept \in SUBSET Slots BY JobFacts DEF JobType
  <2>3. job' = [job EXCEPT ![r] = j] BY <1>3 DEF RecoverKill, JobType
  <2> HIDE DEF kept
  <2>4. j \in Job BY <2>2, JobEdits DEF Pcs
  <2>5. j.pc = "restore" /\ j.snap = job[r].snap BY <2>2 DEF Job
  <2> HIDE DEF j
  <2>6. OnlyJob(r) /\ Rests(r)
    BY <2>3, <2>4, <2>5, OneJob DEF Rests, Owned, WithoutSlot
  <2> QED BY <2>1, <2>6 DEF SlotStep, Leaves
<1>4. CASE RecoverStore(r)
  <2>1. UNCHANGED <<attempts, receipt, turn, workers, started>>
        /\ (Goto(r, "fence") \/ Return(r))
    BY <1>4 DEF RecoverStore, hostVars
  <2>2. OnlyJob(r) /\ Rests(r)
    BY <2>1, GotoStep, ReturnStep DEF Pcs, Rests, Owned, WithoutSlot
  <2> QED BY <1>s, <2>1, <2>2 DEF SlotStep, Leaves
<1>5. CASE RecoverFence(r) \/ FreezeReview(r)
  <2>1. UNCHANGED <<attempts, receipt, turn, workers, started>> /\ Return(r)
    BY <1>5 DEF RecoverFence, FreezeReview, FailIfRunning, Fail, Move, storeVars, hostVars
  <2> QED BY <1>s, <2>1, ReturnStep DEF SlotStep, Leaves
<1>6. CASE Crash(r)
  <2>1. UNCHANGED <<attempts, receipt>> /\ Return(r) /\ HostLeaves(r)
    BY <1>6, InterruptStep DEF Crash, storeVars
  <2> QED BY <2>1, ReturnStep DEF SlotStep, Leaves
<1> QED BY <1>1, <1>2, <1>3, <1>4, <1>5, <1>6 DEF Recovering

LEMMA SlotNext ==
  ASSUME TypeInv, TodoInv, TurnInv, WorkerInv, Next
  PROVE  Stands \/ \E r \in Runners : OnlyJob(r) /\ SlotStep(r)
<1>1. CASE AuthorizeRepair \/ Cancel \/ Expire
  BY <1>1 DEF AuthorizeRepair, Cancel, Expire, Stands, Move, storeVars, hostVars
<1>2. ASSUME NEW r \in Runners, Calls(r) \/ Works(r) \/ Crash(r)
      PROVE  OnlyJob(r) /\ SlotStep(r)
  BY <1>2, CallsSlots, DispatchSlots, CollectSlots, RecoverSlots DEF Works, Next
<1> QED BY <1>1, <1>2 DEF Next, Step

-----------------------------------------------------------------------------
(* What a step does to the node.                                           *)

Stopped ==
  /\ campaign' \in {"FAILED", "CANCELLED"} /\ holder' = None
  /\ node' \in {"FAILED_EXACT_NODE", "CANCELLED"}
  /\ UNCHANGED <<blockers, corrections>>

\* The holder is handed over or goes.
Handed(r) ==
  /\ holder' \in {holder, None} \/ (job[r].pc = "acquire" /\ ~Stale(r) /\ holder' = Slot(r))
  /\ UNCHANGED <<campaign, node, blockers, corrections>>

WorkStarts(r) ==
  /\ job[r].pc = "start" /\ holder = Slot(r)
  /\ \/ Slot(r) # Repairer /\ node = "ADMITTED" /\ node' = "IMPLEMENTING"
     \/ Slot(r) = Repairer /\ node = "REPAIR_AUTHORIZED" /\ node' = "REPAIRING"
  /\ UNCHANGED <<blockers, corrections>>

WorkEnds ==
  /\ Running /\ holder \in Writers /\ node = Working(holder) /\ receipt[holder] = "pass"
  /\ node' = Worked(holder)
  /\ UNCHANGED <<blockers, corrections>>

Validated(r) ==
  /\ Running /\ job[r].pc = "run" /\ job'[r].pc = "free" /\ holder = Slot(r)
  /\ \/ /\ node' = (IF node = "REVALIDATING" THEN "CLOSURE" ELSE "CANDIDATE_FROZEN")
        /\ UNCHANGED corrections
     \/ node = "VALIDATING" /\ corrections = 0 /\ node' = "IMPLEMENTING" /\ corrections' = 1
  /\ UNCHANGED blockers

Decided ==
  /\ \/ node = "CANDIDATE_FROZEN" /\ node' = "CHECKS_AND_REVIEW"
     \/ node = "FINDINGS_FROZEN" /\ node' \in {"READY_TO_PUBLISH", "REPAIR_AUTHORIZED"}
     \/ node = "CLOSURE" /\ node' = "READY_TO_PUBLISH"
  /\ UNCHANGED <<blockers, corrections>>

Frozen ==
  /\ node = "CHECKS_AND_REVIEW" /\ node' = "FINDINGS_FROZEN"
  /\ \A s \in Reviewers : receipt[s] # "none"
  /\ blockers' = (\E s \in Reviewers : receipt[s] = "block")
  /\ UNCHANGED corrections

Moved(r) ==
  /\ UNCHANGED <<campaign, holder>>
  /\ WorkStarts(r) \/ WorkEnds \/ Validated(r) \/ Decided \/ Frozen

NodeStep(r) == revision' = revision + 1 /\ (Stopped \/ Handed(r) \/ Moved(r))

\* A decision that is not a runner's.
Ordered ==
  /\ revision' = revision + 1
  /\ Stopped \/ (UNCHANGED <<campaign, holder>> /\ Decided)

LEMMA FailStops ==
  ASSUME Fail
  PROVE  Stopped /\ revision' = revision + 1
BY DEF Fail, Stopped, Running

\* What completes the work of a writer is a passed receipt.
LEMMA WriterReceipt ==
  ASSUME TypeInv, NEW s \in Writers, receipt[s] \notin {"none", "failed"}
  PROVE  receipt[s] = "pass"
<1>1. s \in Slots BY SlotFacts
<1>2. OutcomesOf(s) \subseteq {"pass", "garbled", "failed"}
  BY SetupFacts DEF TypeInv, OutcomesOf
<1> QED BY <1>1, <1>2 DEF TypeInv, TurnType

LEMMA CallsNode ==
  ASSUME TypeInv, NEW r \in Runners, Calls(r)
  PROVE  UNCHANGED nodeVars \/ NodeStep(r)
<1>1. CASE StepDeadline(r) BY <1>1, FailStops DEF StepDeadline, NodeStep
<1>2. CASE StepReview(r)
  BY <1>2, FailStops DEF StepReview, NodeStep, Move, Moved, Decided
<1>3. CASE StepReady(r) BY <1>3 DEF StepReady, NodeStep, Move, Moved, Decided
<1>4. ASSUME NEW s \in workers[r], RetryCall(r, s) PROVE NodeStep(r)
  BY <1>4 DEF RetryCall, Reserve, NodeStep, Handed
<1>5. CASE UNCHANGED nodeVars BY <1>5
<1> QED
  BY <1>1, <1>2, <1>3, <1>4, <1>5 DEF Calls, StepDispatch, StepDrift, CompleteCall,
     CollectCall, FreezeCall, RecoverCall, storeVars

LEMMA DispatchNode ==
  ASSUME TypeInv, TodoInv, setup' = setup, NEW r \in Runners,
         Dispatching(r) \/ FailDispatch(r) \/ Validate(r) \/ FreeValidator(r)
  PROVE  UNCHANGED nodeVars \/ NodeStep(r)
<1>b. FailBudget(r) => NodeStep(r) BY FailStops DEF FailBudget, NodeStep
<1>1. CASE ReserveSlot(r)
  BY <1>1, <1>b DEF ReserveSlot, Reserve, NodeStep, Handed, storeVars
<1>2. CASE AcquireLease(r)
  BY <1>2 DEF AcquireLease, At, NodeStep, Handed, storeVars, nodeVars
<1>3. CASE CreateActor(r) BY <1>3 DEF CreateActor
<1>4. CASE StartEvent(r)
  BY <1>4, <1>b DEF StartEvent, At, Move, Working, NodeStep, Moved, WorkStarts, storeVars
<1>5. CASE PayStart(r)
  BY <1>5, <1>b DEF PayStart, Reserve, NodeStep, Handed, storeVars
<1>6. CASE StartTurn(r) BY <1>6 DEF StartTurn, storeVars
<1>7. CASE FailDispatch(r)
  BY <1>7, FailStops DEF FailDispatch, FailIfRunning, NodeStep, storeVars
<1>8. CASE Validate(r)
  <2>1. Goto(r, "free") => job'[r].pc = "free"
    BY GotoStep DEF TypeInv, Pcs
  <2> QED
    BY <1>8, <1>b, <2>1, FailStops DEF Validate, At, Move, Corrects, NodeStep, Moved,
       Validated, storeVars
<1>9. CASE FreeValidator(r)
  BY <1>9 DEF FreeValidator, ReleaseLease, NodeStep, Handed, storeVars, nodeVars
<1> QED BY <1>1, <1>2, <1>3, <1>4, <1>5, <1>6, <1>7, <1>8, <1>9 DEF Dispatching

LEMMA CollectNode ==
  ASSUME TypeInv, TodoInv, WorkerInv, NEW r \in Runners,
         Collecting(r) \/ Recovering(r) \/ FreezeReview(r) \/ Crash(r)
  PROVE  UNCHANGED nodeVars \/ NodeStep(r)
<1>1. CASE TerminalEvent(r)
  <2>1. job[r].pc = "event" BY <1>1 DEF TerminalEvent, At
  <2>2. receipt[Slot(r)] # "none" BY <2>1 DEF WorkerInv
  <2>3. CASE Fail BY <2>3, FailStops DEF NodeStep
  <2>4. CASE /\ ~TerminalFails(Slot(r)) /\ Slot(r) \in Writers
             /\ Completes(Slot(r)) /\ Move(Worked(Slot(r)))
    <3>1. receipt[Slot(r)] = "pass" BY <2>2, <2>4, WriterReceipt DEF TerminalFails
    <3> QED BY <2>4, <3>1 DEF Completes, Move, NodeStep, Moved, WorkEnds
  <2> QED BY <1>1, <2>3, <2>4 DEF TerminalEvent, storeVars
<1>2. CASE ReleaseWorker(r)
  BY <1>2 DEF ReleaseWorker, ReleaseLease, NodeStep, Handed, storeVars, nodeVars
<1>3. CASE RefuseCollection(r)
  BY <1>3 DEF RefuseCollection, Reserve, NodeStep, Handed, storeVars
<1>4. CASE RecordRetry(r) \/ CollectReceipt(r) \/ TransportFails(r) \/ PersistReceipt(r)
  BY <1>4 DEF RecordRetry, CollectReceipt, TransportFails, PersistReceipt, storeVars
<1>5. CASE RecoverOne(r)
  <2>1. ASSUME NEW s \in job[r].cohort, Resumable(s), s \in Writers, Completes(s),
               Move(Worked(s))
        PROVE  NodeStep(r)
    <3>1. receipt[s] = "pass"
      BY <2>1, WriterReceipt DEF Resumable, Reattaches, Attested
    <3> QED BY <2>1, <3>1 DEF Completes, Move, NodeStep, Moved, WorkEnds
  <2> QED BY <1>5, <2>1 DEF RecoverOne, storeVars
<1>6. CASE RecoverRelease(r)
  BY <1>6 DEF RecoverRelease, ReleaseLease, NodeStep, Handed, storeVars, nodeVars
<1>7. CASE RecoverKill(r) \/ RecoverStore(r) \/ Crash(r)
  BY <1>7 DEF RecoverKill, RecoverStore, Crash, storeVars
<1>8. CASE RecoverFence(r)
  BY <1>8, FailStops DEF RecoverFence, FailIfRunning, NodeStep, storeVars
<1>9. CASE FreezeReview(r)
  <2>1. CASE /\ node = "CHECKS_AND_REVIEW" /\ Verified(job[r].cohort, Reviewers)
             /\ node' = "FINDINGS_FROZEN" /\ blockers' = Blocking(job[r].cohort)
             /\ revision' = revision + 1 /\ UNCHANGED <<campaign, corrections, holder>>
    BY <2>1 DEF Verified, Attested, Blocking, NodeStep, Moved, Frozen
  <2>2. CASE node = "CLOSURE" /\ Move("READY_TO_PUBLISH")
    BY <2>2 DEF Move, NodeStep, Moved, Decided
  <2>3. CASE Fail BY <2>3, FailStops DEF NodeStep
  <2>4. CASE UNCHANGED storeVars BY <2>4 DEF storeVars
  <2> QED BY <1>9, <2>1, <2>2, <2>3, <2>4 DEF FreezeReview
<1> QED BY <1>1, <1>2, <1>3, <1>4, <1>5, <1>6, <1>7, <1>8, <1>9 DEF Collecting, Recovering

LEMMA NodeNext ==
  ASSUME TypeInv, TodoInv, WorkerInv, Next
  PROVE  UNCHANGED nodeVars \/ Ordered \/ \E r \in Runners : NodeStep(r)
<1>1. ASSUME NEW r \in Runners, Calls(r) \/ Works(r) \/ Crash(r)
      PROVE  UNCHANGED nodeVars \/ NodeStep(r)
  BY <1>1, CallsNode, DispatchNode, CollectNode DEF Works, Next
<1>2. CASE AuthorizeRepair \/ Cancel
  BY <1>2 DEF AuthorizeRepair, Cancel, Move, Ordered, Decided, Stopped, Running
<1>3. CASE Expire BY <1>3 DEF Expire, storeVars
<1> QED BY <1>1, <1>2, <1>3 DEF Next, Step

-----------------------------------------------------------------------------
(* Types.                                                                  *)

LEMMA NodeTypeNext ==
  ASSUME TypeInv, TodoInv, WorkerInv, Next
  PROVE  NodeType'
<1>0. Slots' = Slots BY Frame DEF Next
<1> USE DEF TypeInv, NodeType, NodeStates
<1>1. CASE UNCHANGED nodeVars BY <1>0, <1>1 DEF nodeVars
<1>2. CASE Ordered BY <1>0, <1>2 DEF Ordered, Stopped, Decided
<1>3. ASSUME NEW r \in Runners, NodeStep(r) PROVE NodeType'
  <2>1. CASE Stopped BY <1>0, <1>3, <2>1 DEF NodeStep, Stopped
  <2>2. CASE Handed(r)
    <3>1. job[r].pc = "acquire" => Slot(r) \in Slots BY HasSlot DEF WithoutSlot
    <3> QED BY <1>0, <1>3, <2>2, <3>1 DEF NodeStep, Handed
  <2>3. CASE Moved(r)
    <3>1. node' \in NodeStates
      BY <2>3 DEF Moved, WorkStarts, WorkEnds, Validated, Decided, Frozen, Worked
    <3>2. blockers' \in BOOLEAN /\ corrections' \in {0, 1}
      BY <2>3 DEF Moved, WorkStarts, WorkEnds, Validated, Decided, Frozen
    <3> QED BY <1>0, <1>3, <2>3, <3>1, <3>2 DEF NodeStep, Moved
  <2> QED BY <1>3, <2>1, <2>2, <2>3 DEF NodeStep
<1> QED BY <1>1, <1>2, <1>3, NodeNext

\* What is paid, and what becomes of the leases and the threads.
LeaseStep ==
  /\ rank' = rank \/ (rank > 0 /\ rank' = rank - 1)
  /\ lease' \in [Slots -> LeaseStates] /\ bound' \subseteq Slots

LEMMA LeaseEnds ==
  ASSUME LeaseType, Fail \/ Cancel \/ UNCHANGED <<rank, lease, bound>>
  PROVE  LeaseStep
BY DEF LeaseType, Fail, Cancel, Invalidated, Active, LeaseStates, LeaseStep

LEMMA LeaseReleases ==
  ASSUME LeaseType, NEW s \in Slots, ReleaseLease(s)
  PROVE  LeaseStep
BY DEF LeaseType, ReleaseLease, LeaseStates, LeaseStep

LEMMA LeaseNext ==
  ASSUME TypeInv, TodoInv, Next
  PROVE  LeaseStep
<1>0. LeaseType /\ HostType BY DEF TypeInv
<1>r. ASSUME NEW id, Reserve(id), UNCHANGED <<lease, bound>> PROVE LeaseStep
  BY <1>0, <1>r DEF Reserve, LeaseType, LeaseStep
<1>p. ASSUME rank > 0, rank' = rank - 1, UNCHANGED <<lease, bound>> PROVE LeaseStep
  BY <1>0, <1>p DEF LeaseType, LeaseStep
<1>k. UNCHANGED <<rank, lease, bound>> => LeaseStep BY <1>0, LeaseEnds
<1>b. ASSUME NEW r \in Runners, FailBudget(r) PROVE LeaseStep
  BY <1>0, <1>b, LeaseEnds DEF FailBudget
<1>1. CASE AuthorizeRepair \/ Cancel \/ Expire
  BY <1>0, <1>1, LeaseEnds DEF AuthorizeRepair, Expire, storeVars
<1>2. ASSUME NEW r \in Runners, Calls(r) PROVE LeaseStep
  BY <1>0, <1>2, <1>r, <1>p, <1>k, LeaseEnds DEF Calls, StepDispatch, StepDrift, StepDeadline,
     StepReview, StepReady, CompleteCall, RetryCall, CollectCall, FreezeCall, RecoverCall,
     storeVars
<1>3. ASSUME NEW r \in Runners, Dispatching(r) PROVE LeaseStep
  <2>1. CASE ReserveSlot(r) BY <1>3, <2>1, <1>r, <1>k, <1>b DEF ReserveSlot, storeVars
  <2>2. CASE AcquireLease(r)
    <3>1. Slot(r) \in Slots BY <2>2, HasSlot DEF AcquireLease, At, WithoutSlot
    <3> QED BY <1>0, <1>k, <2>2, <3>1 DEF AcquireLease, LeaseType, LeaseStates, LeaseStep, storeVars
  <2>3. CASE CreateActor(r)
    <3>1. Slot(r) \in Slots BY <2>3, HasSlot DEF CreateActor, At, WithoutSlot
    <3> QED BY <1>0, <2>3, <3>1 DEF CreateActor, LeaseType, LeaseStep
  <2>4. CASE StartEvent(r) BY <2>4, <1>p, <1>k, <1>b DEF StartEvent, storeVars
  <2>5. CASE PayStart(r) BY <2>5, <1>r, <1>k, <1>b DEF PayStart, storeVars
  <2>6. CASE StartTurn(r) BY <2>6, <1>k DEF StartTurn, storeVars
  <2> QED BY <1>3, <2>1, <2>2, <2>3, <2>4, <2>5, <2>6 DEF Dispatching
<1>4. ASSUME NEW r \in Runners, FailDispatch(r) \/ Validate(r) \/ FreeValidator(r)
      PROVE  LeaseStep
  <2>1. CASE FailDispatch(r)
    BY <1>0, <2>1, LeaseEnds, <1>k DEF FailDispatch, FailIfRunning, storeVars
  <2>2. CASE Validate(r)
    <3>1. CASE Fail \/ FailBudget(r) BY <1>0, <1>b, <3>1, LeaseEnds
    <3>2. CASE /\ rank' = IF node = "REVALIDATING" THEN rank - 1 ELSE rank
               /\ node = "REVALIDATING" => rank > 0
               /\ UNCHANGED <<lease, bound>>
      BY <3>2, <1>p, <1>k
    <3> QED BY <1>k, <2>2, <3>1, <3>2 DEF Validate, storeVars
  <2>3. CASE FreeValidator(r)
    <3>1. Slot(r) \in Slots BY <2>3, HasSlot DEF FreeValidator, At, WithoutSlot
    <3> QED BY <1>0, <1>k, <2>3, <3>1, LeaseReleases DEF FreeValidator, storeVars
  <2> QED BY <1>4, <2>1, <2>2, <2>3
<1>5. ASSUME NEW r \in Runners, Collecting(r) PROVE LeaseStep
  <2>1. CASE RecordRetry(r) \/ CollectReceipt(r) \/ TransportFails(r) \/ PersistReceipt(r)
    BY <2>1, <1>k DEF RecordRetry, CollectReceipt, TransportFails, PersistReceipt, storeVars
  <2>2. CASE RefuseCollection(r) BY <2>2, <1>r, <1>k DEF RefuseCollection, storeVars
  <2>3. CASE TerminalEvent(r)
    BY <1>0, <2>3, <1>k, LeaseEnds DEF TerminalEvent, storeVars
  <2>4. CASE ReleaseWorker(r)
    <3>1. Slot(r) \in Slots BY <2>4, HasSlot DEF ReleaseWorker, At, WithoutSlot
    <3> QED BY <1>0, <1>k, <2>4, <3>1, LeaseReleases DEF ReleaseWorker, storeVars
  <2> QED BY <1>5, <2>1, <2>2, <2>3, <2>4 DEF Collecting
<1>6. ASSUME NEW r \in Runners, Recovering(r) \/ FreezeReview(r) \/ Crash(r) PROVE LeaseStep
  <2>1. CASE RecoverOne(r) \/ RecoverKill(r) \/ Crash(r)
    BY <2>1, <1>k DEF RecoverOne, RecoverKill, Crash, storeVars
  <2>2. CASE RecoverRelease(r)
    <3>1. Slot(r) \in Slots BY <2>2, HasSlot DEF RecoverRelease, At, WithoutSlot
    <3> QED BY <1>0, <1>k, <2>2, <3>1, LeaseReleases DEF RecoverRelease, storeVars
  <2>3. CASE RecoverStore(r)
    <3>1. \A gone : Invalidated(gone) \in [Slots -> LeaseStates]
      BY <1>0 DEF Invalidated, LeaseType, LeaseStates
    <3> QED BY <1>0, <2>3, <3>1 DEF RecoverStore, LeaseType, LeaseStep
  <2>4. CASE RecoverFence(r)
    BY <1>0, <2>4, LeaseEnds, <1>k DEF RecoverFence, FailIfRunning, storeVars
  <2>5. CASE FreezeReview(r)
    BY <1>0, <2>5, LeaseEnds, <1>k DEF FreezeReview, storeVars
  <2> QED BY <1>6, <2>1, <2>2, <2>3, <2>4, <2>5 DEF Recovering
<1> QED BY <1>1, <1>2, <1>3, <1>4, <1>5, <1>6 DEF Next, Step, Works

LEMMA LeaseTypeNext ==
  ASSUME TypeInv, TodoInv, Next
  PROVE  LeaseType'
<1>0. Slots' = Slots /\ Rank' = Rank /\ Rank \in Nat BY Frame, SetupFacts DEF Next, TypeInv
<1>1. rank \in 0..Rank BY DEF TypeInv, LeaseType
<1>2. rank' \in 0..Rank BY <1>0, <1>1, LeaseNext DEF LeaseStep
<1> QED BY <1>0, <1>2, LeaseNext DEF LeaseStep, LeaseType

\* The clocks and counters of the surroundings.
Tick ==
  /\ UNCHANGED expired \/ Expire
  /\ UNCHANGED faults \/ Fault
  /\ UNCHANGED retried \/ \E s \in Slots : retried' = [retried EXCEPT ![s] = @ + 1]

LEMMA ClocksNext ==
  ASSUME TypeInv, TodoInv, Next
  PROVE  Tick
<1>1. CASE AuthorizeRepair \/ Cancel \/ Expire
  BY <1>1 DEF AuthorizeRepair, Cancel, Expire, Tick, past
<1>2. ASSUME NEW r \in Runners, Calls(r) PROVE Tick
  BY <1>2 DEF Calls, StepDispatch, StepDrift, StepDeadline, StepReview, StepReady, CompleteCall,
     RetryCall, CollectCall, FreezeCall, RecoverCall, Tick, past
<1>3. ASSUME NEW r \in Runners, Dispatching(r) PROVE Tick
  BY <1>3 DEF Dispatching, ReserveSlot, AcquireLease, CreateActor, StartEvent, PayStart,
     StartTurn, Tick, past
<1>4. ASSUME NEW r \in Runners, FailDispatch(r) \/ Validate(r) \/ FreeValidator(r) PROVE Tick
  BY <1>4 DEF FailDispatch, Validate, FreeValidator, Tick, past
<1>5. ASSUME NEW r \in Runners, Collecting(r) PROVE Tick
  <2>1. CASE RecordRetry(r)
    <3>1. Slot(r) \in Slots BY <2>1, HasSlot DEF RecordRetry, At, WithoutSlot
    <3> QED BY <2>1, <3>1 DEF RecordRetry, Tick, past
  <2> QED
    BY <1>5, <2>1 DEF Collecting, RefuseCollection, CollectReceipt, TransportFails,
       PersistReceipt, TerminalEvent, ReleaseWorker, Tick, past
<1>6. ASSUME NEW r \in Runners, Recovering(r) \/ FreezeReview(r) \/ Crash(r) PROVE Tick
  BY <1>6 DEF Recovering, RecoverOne, RecoverRelease, RecoverKill, RecoverStore, RecoverFence,
     FreezeReview, Crash, Tick, past
<1> QED BY <1>1, <1>2, <1>3, <1>4, <1>5, <1>6 DEF Next, Step, Works

\* The kind of slot step, and so the turns, the receipts and the calls.
LEMMA HostTypeNext ==
  ASSUME TypeInv, TodoInv, TurnInv, WorkerInv, Next
  PROVE  HostType' /\ TurnType' /\ JobType'
<1>0. /\ Slots' = Slots /\ MaxFaults' = MaxFaults /\ Outcomes' = Outcomes /\ Job' = Job
      /\ \A s : OutcomesOf(s)' = OutcomesOf(s)
  BY Frame DEF Next
<1>t. HostType /\ TurnType /\ JobType BY DEF TypeInv
<1>1. expired' \in BOOLEAN /\ faults' \in 0..MaxFaults /\ retried' \in [Slots -> Nat]
  <2>1. expired \in BOOLEAN /\ faults \in 0..MaxFaults /\ retried \in [Slots -> Nat]
        /\ MaxFaults \in Nat
    BY <1>t, SetupFacts DEF TypeInv, HostType
  <2>2. Tick BY ClocksNext
  <2>3. expired' \in BOOLEAN BY <2>1, <2>2 DEF Tick, Expire
  <2>4. faults' \in 0..MaxFaults BY <2>1, <2>2 DEF Tick, Fault
  <2>5. retried' \in [Slots -> Nat] BY <2>1, <2>2 DEF Tick
  <2> QED BY <2>3, <2>4, <2>5
<1>j. JobType' BY <1>0, <1>t, SlotNext DEF Stands, OnlyJob, JobType
<1>2. started' \in [Slots -> Nat] /\ workers' \in [Runners -> SUBSET Slots] /\ TurnType'
  <2>1. CASE Stands BY <1>0, <1>t, <2>1 DEF Stands, HostType, TurnType
  <2>2. ASSUME NEW r \in Runners, SlotStep(r)
        PROVE  started' \in [Slots -> Nat] /\ workers' \in [Runners -> SUBSET Slots] /\ TurnType'
    <3>s. job[r].pc \notin WithoutSlot => Slot(r) \in Slots BY HasSlot
    <3>1. CASE Leaves(r) BY <1>0, <1>t, <3>1 DEF Leaves, HostLeaves, HostType, TurnType
    <3>2. CASE Begins(r) \/ Reserves(r) \/ Pays(r)
      BY <1>0, <1>t, <3>2 DEF Begins, Reserves, Pays, HostType, TurnType
    <3>3. CASE Acquires(r)
      BY <1>0, <1>t, <3>s, <3>3 DEF Acquires, WithoutSlot, HostType, TurnType
    <3>4. CASE Creates(r)
      BY <1>0, <1>t, <3>s, <3>4 DEF Creates, WithoutSlot, HostType, TurnType
    <3>5. CASE Starts(r)
      BY <1>0, <1>t, <3>s, <3>5 DEF Starts, WithoutSlot, HostType, TurnType
    <3>6. CASE Ends(r)
      <4>1. PICK o \in Ended(Slot(r)) \ {"gone"} : turn' = [turn EXCEPT ![Slot(r)] = o]
        BY <3>6 DEF Ends
      <4>2. o \in OutcomesOf(Slot(r)) /\ o \in Outcomes /\ Slot(r) \in Slots
        BY <3>6, EndedOutcome DEF Ends
      <4> QED BY <1>0, <1>t, <3>6, <4>1, <4>2 DEF Ends, HostType, TurnType
    <3>7. CASE Persists(r)
      <4>1. job[r].got \in OutcomesOf(Slot(r)) /\ Slot(r) \in Slots
        BY <3>7, <3>s DEF Persists, WorkerInv, WithoutSlot
      <4>2. OutcomesOf(Slot(r)) \subseteq Outcomes BY DEF OutcomesOf
      <4>3. receipt[Slot(r)] = job[r].got \/ job[r].got # "garbled"
        BY <3>7 DEF Persists, Attestable
      <4> QED BY <1>0, <1>t, <3>7, <4>1, <4>2, <4>3 DEF Persists, HostType, TurnType
    <3> QED BY <2>2, <3>1, <3>2, <3>3, <3>4, <3>5, <3>6, <3>7 DEF SlotStep
  <2> QED BY <2>1, <2>2, SlotNext
<1> QED BY <1>0, <1>1, <1>2, <1>j DEF HostType

LEMMA TypeNext ==
  ASSUME TypeInv, TodoInv, TurnInv, WorkerInv, Next
  PROVE  TypeInv'
BY NodeTypeNext, LeaseTypeNext, HostTypeNext DEF TypeInv, SetupType, Next

-----------------------------------------------------------------------------
(* The calls, the slots and their turns.                                   *)

LEMMA RevisionGrows ==
  ASSUME TypeInv, TodoInv, WorkerInv, Next
  PROVE  \/ revision' = revision /\ UNCHANGED nodeVars
         \/ revision' = revision + 1
BY NodeNext DEF Ordered, NodeStep, nodeVars

LEMMA SlotKind ==
  ASSUME TodoInv, NEW r \in Runners, SlotStep(r)
  PROVE  /\ job'[r].pc \notin WithoutSlot => job'[r].todo # <<>>
         /\ job'[r].pc = "reserve" \/ job'[r].pc \in Owned =>
              Tail(job'[r].todo) = <<>> \/ job'[r].todo \in Seq(Readers)
         /\ job'[r].snap \in {0, job[r].snap, revision'}
         /\ job'[r].pc = "create" => Slot(r)' \notin Validators
         /\ job'[r].pc = "run" => Slot(r)' \in Validators
<1> USE DEF TodoInv, WithoutSlot, Owned, Slot
<1>1. CASE Leaves(r) BY <1>1 DEF Leaves, Rests
<1>2. CASE Begins(r) BY <1>2 DEF Begins, ToReserve
<1>3. CASE Reserves(r) BY <1>3 DEF Reserves
<1>4. CASE Acquires(r) BY <1>4 DEF Acquires
<1>5. CASE Creates(r) BY <1>5 DEF Creates
<1>6. CASE Pays(r) BY <1>6 DEF Pays
<1>7. CASE Starts(r) BY <1>7 DEF Starts, Rests, ToReserve
<1>8. CASE Ends(r) BY <1>8 DEF Ends
<1>9. CASE Persists(r) BY <1>9 DEF Persists
<1> QED BY <1>1, <1>2, <1>3, <1>4, <1>5, <1>6, <1>7, <1>8, <1>9 DEF SlotStep

LEMMA StartSlot ==
  ASSUME TypeInv, TodoInv, NEW r \in Runners, SlotStep(r), job'[r].pc = "start"
  PROVE  Slot(r)' \in {Implementer(0), Repairer}
<1>1. CASE Creates(r)
  <2>1. Slot(r)' = Slot(r) /\ job[r].pc = "create" /\ Slot(r) \notin Readers \cup {Implementer(1)}
    BY <1>1 DEF Creates, Slot
  <2>2. Slot(r) \in Slots BY <2>1, HasSlot DEF WithoutSlot
  <2>3. Slot(r) \notin Validators BY <2>1 DEF TodoInv
  <2> QED BY <2>1, <2>2, <2>3, SlotFacts
<1> QED BY <1>1 DEF SlotStep, Leaves, Begins, Reserves, Acquires, Pays, Starts, Ends, Persists,
           Rests, ToReserve, Owned

LEMMA TodoNext ==
  ASSUME TypeInv, TypeInv', TodoInv, TurnInv, WorkerInv, Next
  PROVE  TodoInv'
<1>0. Readers' = Readers /\ Validators' = Validators BY Frame DEF Next, Validators
<1>1. PICK now \in Nat, next \in Nat : now = revision /\ next = revision' /\ now <= next
  BY RevisionGrows DEF TypeInv, NodeType
<1>2. ASSUME NEW x \in Runners, job'[x].snap \in {0, job[x].snap, revision'}
      PROVE  job'[x].snap <= revision'
  <2>1. PICK m \in Nat, n \in Nat : m = job[x].snap /\ n = job'[x].snap
    BY JobFacts, Frame DEF TypeInv, JobType, Next
  <2>2. m <= now BY <1>1, <2>1 DEF TodoInv
  <2>3. n \in {0, m, next} BY <1>1, <1>2, <2>1
  <2>4. n <= next BY <1>1, <2>2, <2>3
  <2> QED BY <1>1, <2>1, <2>4
<1>3. ASSUME NEW x \in Runners, job'[x] = job[x]
      PROVE  /\ job'[x].pc \notin WithoutSlot => job'[x].todo # <<>>
             /\ job'[x].pc = "reserve" \/ job'[x].pc \in Owned =>
                  Tail(job'[x].todo) = <<>> \/ job'[x].todo \in Seq(Readers)
             /\ job'[x].snap <= revision'
             /\ job'[x].pc = "create" => Slot(x)' \notin Validators
             /\ job'[x].pc = "run" => Slot(x)' \in Validators
             /\ job'[x].pc = "start" => Slot(x)' \in {Implementer(0), Repairer}
  BY <1>2, <1>3 DEF TodoInv, Slot
<1>4. CASE Stands BY <1>0, <1>3, <1>4 DEF TodoInv, Stands
<1>5. ASSUME NEW r \in Runners, OnlyJob(r), SlotStep(r) PROVE TodoInv'
  BY <1>0, <1>2, <1>3, <1>5, SlotKind, StartSlot DEF TodoInv, OnlyJob
<1> QED BY <1>4, <1>5, SlotNext

\* Attempts are never taken back, and a slot becomes owned by being reserved.
LEMMA OwnedSlot ==
  ASSUME TypeInv, TodoInv, OwnerInv, NEW r \in Runners, SlotStep(r)
  PROVE  /\ attempts \subseteq attempts'
         /\ job'[r].pc \in Owned =>
              \/ Slot(r)' \notin attempts /\ Slot(r)' \in attempts'
              \/ Slot(r)' = Slot(r) /\ job[r].pc \in Owned
<1> USE DEF Owned, Slot
<1>1. CASE Leaves(r) BY <1>1 DEF Leaves, Rests
<1>2. CASE Begins(r) BY <1>2 DEF Begins, ToReserve
<1>3. CASE Reserves(r) BY <1>3 DEF Reserves
<1>4. CASE Acquires(r) BY <1>4 DEF Acquires
<1>5. CASE Creates(r) BY <1>5 DEF Creates
<1>6. CASE Pays(r) BY <1>6 DEF Pays
<1>7. CASE Starts(r) BY <1>7 DEF Starts, Rests, ToReserve
<1>8. CASE Ends(r) BY <1>8 DEF Ends
<1>9. CASE Persists(r) BY <1>9 DEF Persists
<1> QED BY <1>1, <1>2, <1>3, <1>4, <1>5, <1>6, <1>7, <1>8, <1>9 DEF SlotStep

LEMMA OwnerNext ==
  ASSUME TypeInv, TodoInv, OwnerInv, TurnInv, WorkerInv, Next
  PROVE  OwnerInv'
<1>1. attempts \subseteq attempts'
  BY SlotNext, OwnedSlot DEF Stands
<1>2. holder' \in attempts' \cup {None}
  <2>1. holder \in attempts \cup {None} BY DEF OwnerInv
  <2>2. CASE UNCHANGED nodeVars \/ Ordered
    BY <1>1, <2>1, <2>2 DEF nodeVars, Ordered, Stopped
  <2>3. ASSUME NEW r \in Runners, NodeStep(r) PROVE holder' \in attempts \cup {None}
    BY <2>1, <2>3 DEF NodeStep, Stopped, Handed, Moved, OwnerInv, Owned
  <2> QED BY <1>1, <2>2, <2>3, NodeNext
<1>3. CASE Stands BY <1>1, <1>2, <1>3 DEF OwnerInv, Stands, Slot
<1>4. ASSUME NEW r \in Runners, OnlyJob(r), SlotStep(r) PROVE OwnerInv'
  <2>1. ASSUME NEW x \in Runners, x # r PROVE job'[x] = job[x] /\ Slot(x)' = Slot(x)
    BY <1>4, <2>1 DEF OnlyJob, Slot
  <2>2. \A x \in Runners : job'[x].pc \in Owned => Slot(x)' \in attempts'
    BY <1>1, <1>4, <2>1, OwnedSlot DEF OwnerInv
  <2>3. ASSUME NEW x \in Runners, x # r, job'[x].pc \in Owned, job'[r].pc \in Owned
        PROVE  Slot(x)' # Slot(r)'
    <3>1. job[x].pc \in Owned /\ Slot(x)' = Slot(x) /\ Slot(x) \in attempts
      BY <2>1, <2>3 DEF OwnerInv
    <3> QED BY <1>4, <2>3, <3>1, OwnedSlot DEF OwnerInv
  <2>4. \A x, q \in Runners :
          job'[x].pc \in Owned /\ job'[q].pc \in Owned /\ Slot(x)' = Slot(q)' => x = q
    BY <2>1, <2>3 DEF OwnerInv
  <2> QED BY <1>2, <2>2, <2>4 DEF OwnerInv
<1> QED BY <1>3, <1>4, SlotNext

\* The outcomes are none of the states a turn is in before it ended.
LEMMA OutcomeNames ==
  ASSUME SetupType
  PROVE  \A s : {"none", "idle", "running", "gone"} \cap OutcomesOf(s) = {}
BY SetupFacts DEF OutcomesOf

\* What the kinds of steps say of the slot they are about.
LEMMA SlotFactsOf ==
  ASSUME TypeInv, TodoInv, OwnerInv, TurnInv, WorkerInv, NEW r \in Runners
  PROVE  /\ Acquires(r) \/ Creates(r) =>
              /\ Slot(r) \in Slots \cap attempts /\ turn[Slot(r)] = "none"
              /\ started[Slot(r)] = 0 /\ receipt[Slot(r)] = "none"
         /\ Starts(r) =>
              /\ Slot(r) \in Slots \cap attempts /\ turn[Slot(r)] = "idle"
              /\ started[Slot(r)] = 0 /\ receipt[Slot(r)] = "none"
         /\ Reserves(r) =>
              /\ Slot(r) \in Slots /\ turn[Slot(r)] = "none"
              /\ started[Slot(r)] = 0 /\ receipt[Slot(r)] = "none"
         /\ Persists(r) =>
              /\ Slot(r) \in Slots /\ started[Slot(r)] = 1
              /\ job[r].got \notin {"none", "idle", "running", "gone"}
<1>s. job[r].pc \notin WithoutSlot => Slot(r) \in Slots BY HasSlot
<1>o. \A s \in Slots : {"none", "idle", "running", "gone"} \cap OutcomesOf(s) = {}
  BY OutcomeNames DEF TypeInv
<1>n. ASSUME NEW s \in Slots, turn[s] \in {"none", "idle"}
      PROVE  started[s] = 0 /\ receipt[s] = "none"
  <2>1. started[s] = 0 BY <1>n DEF TurnInv
  <2> QED BY <2>1 DEF TurnInv
<1>1. ASSUME Acquires(r) \/ Creates(r)
      PROVE  /\ Slot(r) \in Slots \cap attempts /\ turn[Slot(r)] = "none"
             /\ started[Slot(r)] = 0 /\ receipt[Slot(r)] = "none"
  <2>1. job[r].pc \in {"acquire", "create"} BY <1>1 DEF Acquires, Creates
  <2>2. Slot(r) \in Slots /\ Slot(r) \in attempts /\ turn[Slot(r)] = "none"
    BY <2>1, <1>s DEF TurnInv, OwnerInv, Owned, WithoutSlot
  <2> QED BY <2>2, <1>n
<1>2. ASSUME Starts(r)
      PROVE  /\ Slot(r) \in Slots \cap attempts /\ turn[Slot(r)] = "idle"
             /\ started[Slot(r)] = 0 /\ receipt[Slot(r)] = "none"
  <2>1. job[r].pc = "turn" /\ turn[Slot(r)] = "idle" BY <1>2 DEF Starts
  <2>2. Slot(r) \in Slots /\ Slot(r) \in attempts
    BY <2>1, <1>s DEF OwnerInv, Owned, WithoutSlot
  <2> QED BY <2>1, <2>2, <1>n
<1>3. ASSUME Reserves(r)
      PROVE  /\ Slot(r) \in Slots /\ turn[Slot(r)] = "none"
             /\ started[Slot(r)] = 0 /\ receipt[Slot(r)] = "none"
  <2>1. job[r].pc = "reserve" /\ Slot(r) \notin attempts BY <1>3 DEF Reserves
  <2>2. Slot(r) \in Slots BY <2>1, <1>s DEF WithoutSlot
  <2>3. turn[Slot(r)] = "none" BY <2>1, <2>2 DEF TurnInv
  <2> QED BY <2>2, <2>3, <1>n
<1>4. ASSUME Persists(r)
      PROVE  /\ Slot(r) \in Slots /\ started[Slot(r)] = 1
             /\ job[r].got \notin {"none", "idle", "running", "gone"}
  <2>1. job[r].pc = "persist" BY <1>4 DEF Persists
  <2>2. Slot(r) \in Slots BY <2>1, <1>s DEF WithoutSlot
  <2>3. Slot(r) \in workers[r] /\ job[r].got \in OutcomesOf(Slot(r)) BY <2>1 DEF WorkerInv
  <2>4. started[Slot(r)] = 1 BY <2>3 DEF WorkerInv
  <2> QED BY <2>2, <2>3, <2>4, <1>o
<1> QED BY <1>1, <1>2, <1>3, <1>4

\* How a turn ends.
LEMMA EndFacts ==
  ASSUME TypeInv, TodoInv, TurnInv, WorkerInv, NEW r \in Runners, Ends(r)
  PROVE  \E o \in OutcomesOf(Slot(r)) :
           /\ turn' = [turn EXCEPT ![Slot(r)] = o] /\ job'[r].got = o
           /\ Slot(r) \in Slots \cap attempts /\ started[Slot(r)] = 1
           /\ turn[Slot(r)] \notin {"none", "idle"}
           /\ o \notin {"none", "idle", "running", "gone"}
           /\ receipt[Slot(r)] \in {"none", o}
<1>1. PICK o \in Ended(Slot(r)) \ {"gone"} :
        turn' = [turn EXCEPT ![Slot(r)] = o] /\ job'[r].got = o
  BY DEF Ends
<1>2. Slot(r) \in workers[r] BY DEF Ends
<1>3. Slot(r) \in Slots /\ o \in OutcomesOf(Slot(r)) BY <1>2, EndedOutcome
<1>4. started[Slot(r)] = 1 BY <1>2 DEF WorkerInv
<1>5. turn[Slot(r)] \notin {"none", "idle"} BY <1>3, <1>4 DEF TurnInv
<1>6. Slot(r) \in attempts BY <1>3, <1>5 DEF TurnInv
<1>7. {"none", "idle", "running", "gone"} \cap OutcomesOf(Slot(r)) = {}
  BY OutcomeNames DEF TypeInv
<1>8. receipt[Slot(r)] \in {"none", o}
  <2>1. receipt[Slot(r)] \in {"none"} \cup OutcomesOf(Slot(r)) BY <1>3 DEF TypeInv, TurnType
  <2>2. receipt[Slot(r)] # "none" => turn[Slot(r)] \in {receipt[Slot(r)], "gone"}
    BY <1>3 DEF TurnInv
  <2>3. turn[Slot(r)] # "running" => o = turn[Slot(r)] /\ o # "gone" BY <1>1 DEF Ended
  <2> QED BY <1>7, <2>1, <2>2, <2>3
<1> QED BY <1>1, <1>3, <1>4, <1>5, <1>6, <1>7, <1>8

LEMMA TurnNext ==
  ASSUME TypeInv, TodoInv, OwnerInv, TurnInv, WorkerInv, Next
  PROVE  TurnInv'
<1>0. Slots' = Slots BY Frame DEF Next
<1>t. /\ turn \in [Slots -> {"none", "idle", "running", "gone"} \cup Outcomes]
      /\ receipt \in [Slots -> Outcomes \cup {"none"}] /\ started \in [Slots -> Nat]
  BY DEF TypeInv, TurnType, HostType
<1>1. CASE Stands BY <1>0, <1>1 DEF Stands, TurnInv, Slot
<1>2. ASSUME NEW r \in Runners, OnlyJob(r), SlotStep(r) PROVE TurnInv'
  <2>x. ASSUME NEW x \in Runners, x # r PROVE job'[x] = job[x] /\ Slot(x)' = Slot(x)
    BY <1>2, <2>x DEF OnlyJob, Slot
  <2>h. \A x \in Runners : job[x].pc \in {"acquire", "create"} => Slot(x) \in Slots
    BY HasSlot DEF WithoutSlot
  <2>u. ASSUME NEW x \in Runners, x # r, job[x].pc \in Owned, job[r].pc \in Owned
        PROVE  Slot(x) # Slot(r)
    BY <2>u DEF OwnerInv
  <2> USE <1>0, <1>t
  <2>1. CASE Leaves(r)
    <3>1. /\ \A s \in Slots : turn'[s] = turn[s] \/ (turn[s] # "none" /\ turn'[s] = "gone")
          /\ UNCHANGED <<receipt, started>> /\ attempts \subseteq attempts'
          /\ job'[r].pc \notin {"acquire", "create"}
      BY <2>1 DEF Leaves, Rests, HostLeaves, Owned
    <3>2. \A x \in Runners : job'[x].pc \in {"acquire", "create"} => turn'[Slot(x)'] = "none"
      <4> SUFFICES ASSUME NEW x \in Runners, job'[x].pc \in {"acquire", "create"}
                   PROVE  turn'[Slot(x)'] = "none"
        OBVIOUS
      <4>1. x # r /\ Slot(x)' = Slot(x) /\ job[x].pc \in {"acquire", "create"} BY <2>x, <3>1
      <4> QED BY <2>h, <3>1, <4>1 DEF TurnInv
    <3>3. \A s \in Slots :
            /\ started'[s] \in {0, 1}
            /\ turn'[s] \in {"none", "idle"} => started'[s] = 0
            /\ s \notin attempts' => turn'[s] = "none"
            /\ receipt'[s] # "none" => started'[s] = 1 /\ turn'[s] \in {receipt'[s], "gone"}
      BY <3>1 DEF TurnInv
    <3> QED BY <3>2, <3>3 DEF TurnInv
  <2>2. CASE Begins(r)
    BY <2>2, <2>x DEF Begins, ToReserve, TurnInv
  <2>3. CASE Pays(r)
    BY <2>3, <2>x DEF Pays, TurnInv
  <2>4. CASE Reserves(r)
    BY <2>4, <2>x, SlotFactsOf DEF Reserves, TurnInv, Slot
  <2>5. CASE Acquires(r)
    <3>1. receipt' = [receipt EXCEPT ![Slot(r)] = "none"] /\ Slot(r)' = Slot(r)
          /\ UNCHANGED <<turn, started, attempts>> /\ Slot(r) \in Slots /\ turn[Slot(r)] = "none"
      BY <2>5, SlotFactsOf DEF Acquires, Slot
    <3> QED BY <2>x, <3>1 DEF TurnInv
  <2>6. CASE Creates(r)
    <3>1. /\ turn' = [turn EXCEPT ![Slot(r)] = "idle"] /\ UNCHANGED <<receipt, started, attempts>>
          /\ job'[r].pc \in {"pay", "start"} /\ job[r].pc \in Owned
          /\ Slot(r) \in Slots \cap attempts /\ started[Slot(r)] = 0 /\ receipt[Slot(r)] = "none"
      BY <2>6, SlotFactsOf DEF Creates, Owned
    <3>2. \A x \in Runners \ {r} : job'[x].pc \in {"acquire", "create"} => Slot(x)' # Slot(r)
      BY <2>x, <2>u, <3>1 DEF Owned
    <3> QED BY <2>x, <2>h, <3>1, <3>2 DEF TurnInv
  <2>7. CASE Starts(r)
    <3>1. /\ turn' = [turn EXCEPT ![Slot(r)] = "running"] /\ UNCHANGED <<receipt, attempts>>
          /\ started' = [started EXCEPT ![Slot(r)] = @ + 1]
          /\ job'[r].pc \notin {"acquire", "create"} /\ job[r].pc \in Owned
          /\ Slot(r) \in Slots \cap attempts /\ started[Slot(r)] = 0 /\ receipt[Slot(r)] = "none"
      BY <2>7, SlotFactsOf DEF Starts, Rests, ToReserve, Owned
    <3>2. \A x \in Runners \ {r} : job'[x].pc \in {"acquire", "create"} => Slot(x)' # Slot(r)
      BY <2>x, <2>u, <3>1 DEF Owned
    <3>3. started'[Slot(r)] = 1 BY <3>1
    <3> QED BY <2>x, <2>h, <3>1, <3>2, <3>3 DEF TurnInv
  <2>8. CASE Ends(r)
    <3>1. PICK o \in OutcomesOf(Slot(r)) :
            /\ turn' = [turn EXCEPT ![Slot(r)] = o]
            /\ Slot(r) \in Slots \cap attempts /\ started[Slot(r)] = 1
            /\ turn[Slot(r)] \notin {"none", "idle"}
            /\ o \notin {"none", "idle", "running", "gone"}
            /\ receipt[Slot(r)] \in {"none", o}
      BY <2>8, EndFacts
    <3>2. UNCHANGED <<receipt, attempts, started>> /\ job'[r].pc = "persist" BY <2>8 DEF Ends
    <3>3. \A x \in Runners \ {r} : job'[x].pc \in {"acquire", "create"} => Slot(x)' # Slot(r)
      BY <2>x, <3>1 DEF TurnInv
    <3> QED BY <2>x, <2>h, <3>1, <3>2, <3>3 DEF TurnInv
  <2>9. CASE Persists(r)
    <3>1. /\ receipt' = [receipt EXCEPT ![Slot(r)] = job[r].got]
          /\ UNCHANGED <<turn, attempts, started>> /\ job'[r].pc \in {"release", "event"}
          /\ Slot(r) \in Slots /\ started[Slot(r)] = 1 /\ turn[Slot(r)] \in {job[r].got, "gone"}
      BY <2>9, SlotFactsOf DEF Persists, WorkerInv
    <3> QED BY <2>x, <3>1 DEF TurnInv
  <2> QED BY <1>2, <2>1, <2>2, <2>3, <2>4, <2>5, <2>6, <2>7, <2>8, <2>9 DEF SlotStep
<1> QED BY <1>1, <1>2, SlotNext

\* What is attested of a slot is never replaced.
LEMMA ReceiptStays ==
  ASSUME TypeInv, TodoInv, OwnerInv, TurnInv, WorkerInv, Next
  PROVE  \A s \in Slots : receipt[s] # "none" => receipt'[s] = receipt[s]
<1>1. CASE Stands BY <1>1 DEF Stands
<1>2. ASSUME NEW r \in Runners, SlotStep(r), NEW s \in Slots, receipt[s] # "none"
      PROVE  receipt'[s] = receipt[s]
  <2>t. receipt \in [Slots -> Outcomes \cup {"none"}] BY DEF TypeInv, TurnType
  <2>1. CASE Acquires(r) BY <1>2, <2>1, <2>t, SlotFactsOf DEF Acquires
  <2>2. CASE Persists(r)
    <3>1. receipt[Slot(r)] \in {"none", job[r].got} BY <2>2 DEF Persists, WorkerInv
    <3> QED BY <1>2, <2>2, <2>t, <3>1 DEF Persists
  <2>3. CASE UNCHANGED receipt BY <2>3
  <2> QED BY <1>2, <2>1, <2>2, <2>3 DEF SlotStep, Leaves, Begins, Reserves, Creates, Pays,
             Starts, Ends
<1> QED BY <1>1, <1>2, SlotNext

\* What a step leaves to the workers of the others, and what it collects.
LEMMA WorkerKinds ==
  ASSUME TypeInv, TodoInv, OwnerInv, TurnInv, WorkerInv, setup' = setup,
         NEW r \in Runners, SlotStep(r)
  PROVE  /\ \A x \in Runners \ {r} : workers'[x] = workers[x]
         /\ \A s \in Slots : started[s] = 1 => started'[s] = 1
         /\ \A s \in workers'[r] : s \in Slots /\ (s \in workers[r] \/ started[s] = 0)
         /\ \A s \in workers'[r] : started'[s] = 1
         /\ \A s \in Slots : started[s] = 1 /\ s \notin workers[r] =>
              turn'[s] \in {turn[s], "gone"} /\ receipt'[s] \in {receipt[s], "none"}
         /\ job'[r].pc = "persist" =>
              /\ Slot(r)' \in workers'[r]
              /\ job'[r].got \in OutcomesOf(Slot(r)')
              /\ turn'[Slot(r)'] \in {job'[r].got, "gone"}
              /\ receipt'[Slot(r)'] \in {"none", job'[r].got}
         /\ job'[r].pc = "event" => receipt'[Slot(r)'] # "none"
<1>t. /\ turn \in [Slots -> {"none", "idle", "running", "gone"} \cup Outcomes]
      /\ receipt \in [Slots -> Outcomes \cup {"none"}] /\ started \in [Slots -> Nat]
      /\ workers \in [Runners -> SUBSET Slots]
  BY DEF TypeInv, TurnType, HostType
<1>w. \A s \in workers[r] : s \in Slots /\ started[s] = 1 BY <1>t DEF WorkerInv
<1> USE <1>t, <1>w
<1>1. CASE Leaves(r) BY <1>1 DEF Leaves, Rests, HostLeaves
<1>2. CASE Begins(r) BY <1>2 DEF Begins, ToReserve
<1>3. CASE Reserves(r) BY <1>3 DEF Reserves
<1>4. CASE Pays(r) BY <1>4 DEF Pays
<1>5. CASE Acquires(r)
  <2>1. receipt' = [receipt EXCEPT ![Slot(r)] = "none"] /\ UNCHANGED <<turn, started, workers>>
        /\ job'[r].pc \notin {"persist", "event"}
    BY <1>5 DEF Acquires
  <2> QED BY <2>1
<1>6. CASE Creates(r)
  <2>1. turn' = [turn EXCEPT ![Slot(r)] = "idle"] /\ UNCHANGED <<receipt, started, workers>>
        /\ job'[r].pc \notin {"persist", "event"} /\ started[Slot(r)] = 0
    BY <1>6, SlotFactsOf DEF Creates
  <2> QED BY <2>1
<1>7. CASE Starts(r)
  <2>1. /\ turn' = [turn EXCEPT ![Slot(r)] = "running"] /\ UNCHANGED receipt
        /\ started' = [started EXCEPT ![Slot(r)] = @ + 1]
        /\ workers' = [workers EXCEPT ![r] = @ \cup {Slot(r)}]
        /\ job'[r].pc \notin {"persist", "event"}
        /\ Slot(r) \in Slots /\ started[Slot(r)] = 0
    BY <1>7, SlotFactsOf DEF Starts, Rests, ToReserve
  <2>2. started'[Slot(r)] = 1 BY <2>1
  <2> QED BY <2>1, <2>2
<1>8. CASE Ends(r)
  <2>1. PICK o \in OutcomesOf(Slot(r)) :
          /\ turn' = [turn EXCEPT ![Slot(r)] = o] /\ job'[r].got = o /\ Slot(r) \in Slots
          /\ receipt[Slot(r)] \in {"none", o}
    BY <1>8, EndFacts
  <2>2. /\ UNCHANGED <<receipt, started, workers>> /\ job'[r].pc = "persist"
        /\ Slot(r)' = Slot(r) /\ Slot(r) \in workers[r]
    BY <1>8 DEF Ends, Slot
  <2> QED BY <2>1, <2>2
<1>9. CASE Persists(r)
  <2>1. /\ receipt' = [receipt EXCEPT ![Slot(r)] = job[r].got]
        /\ UNCHANGED <<turn, started, workers>> /\ job'[r].pc # "persist"
        /\ Slot(r)' = Slot(r) /\ Slot(r) \in workers[r] /\ job[r].got # "none"
    BY <1>9, SlotFactsOf DEF Persists, Slot, WorkerInv
  <2> QED BY <2>1
<1> QED BY <1>1, <1>2, <1>3, <1>4, <1>5, <1>6, <1>7, <1>8, <1>9 DEF SlotStep

LEMMA WorkerNext ==
  ASSUME TypeInv, TodoInv, OwnerInv, TurnInv, WorkerInv, Next
  PROVE  WorkerInv'
<1>0. setup' = setup /\ \A s : OutcomesOf(s)' = OutcomesOf(s) BY Frame DEF Next
<1>t. workers \in [Runners -> SUBSET Slots] BY DEF TypeInv, HostType
<1>1. CASE Stands BY <1>0, <1>1 DEF Stands, WorkerInv, Slot
<1>2. ASSUME NEW r \in Runners, OnlyJob(r), SlotStep(r) PROVE WorkerInv'
  <2>k. /\ \A x \in Runners \ {r} : workers'[x] = workers[x]
        /\ \A s \in Slots : started[s] = 1 => started'[s] = 1
        /\ \A s \in workers'[r] : s \in Slots /\ (s \in workers[r] \/ started[s] = 0)
        /\ \A s \in workers'[r] : started'[s] = 1
        /\ \A s \in Slots : started[s] = 1 /\ s \notin workers[r] =>
             turn'[s] \in {turn[s], "gone"} /\ receipt'[s] \in {receipt[s], "none"}
        /\ job'[r].pc = "persist" =>
             /\ Slot(r)' \in workers'[r]
             /\ job'[r].got \in OutcomesOf(Slot(r)')
             /\ turn'[Slot(r)'] \in {job'[r].got, "gone"}
             /\ receipt'[Slot(r)'] \in {"none", job'[r].got}
        /\ job'[r].pc = "event" => receipt'[Slot(r)'] # "none"
    BY <1>0, <1>2, WorkerKinds
  <2>1. \A x \in Runners : \A s \in workers'[x] : started'[s] = 1
    BY <1>t, <2>k DEF WorkerInv
  <2>2. \A x, q \in Runners : x # q => workers'[x] \cap workers'[q] = {}
    <3>1. \A x \in Runners \ {r} : workers'[x] \cap workers'[r] = {}
      BY <1>t, <2>k DEF WorkerInv
    <3> QED BY <2>k, <3>1 DEF WorkerInv
  <2>3. ASSUME NEW x \in Runners, x # r
        PROVE  /\ job'[x].pc = "persist" =>
                    /\ Slot(x)' \in workers'[x]
                    /\ job'[x].got \in OutcomesOf(Slot(x)')
                    /\ turn'[Slot(x)'] \in {job'[x].got, "gone"}
                    /\ receipt'[Slot(x)'] \in {"none", job'[x].got}
               /\ job'[x].pc = "event" => receipt'[Slot(x)'] # "none"
    <3>1. job'[x] = job[x] /\ Slot(x)' = Slot(x) BY <1>2, <2>3 DEF OnlyJob, Slot
    <3>2. ASSUME job[x].pc = "persist"
          PROVE  /\ Slot(x) \in workers'[x]
                 /\ job[x].got \in OutcomesOf(Slot(x))
                 /\ turn'[Slot(x)] \in {job[x].got, "gone"}
                 /\ receipt'[Slot(x)] \in {"none", job[x].got}
      <4>1. /\ Slot(x) \in workers[x] /\ job[x].got \in OutcomesOf(Slot(x))
            /\ turn[Slot(x)] \in {job[x].got, "gone"}
            /\ receipt[Slot(x)] \in {"none", job[x].got}
        BY <3>2 DEF WorkerInv
      <4>2. Slot(x) \in Slots /\ started[Slot(x)] = 1 /\ Slot(x) \notin workers[r]
        BY <1>t, <2>3, <4>1 DEF WorkerInv
      <4> QED BY <2>3, <2>k, <4>1, <4>2
    <3>3. ASSUME job[x].pc = "event" PROVE receipt'[Slot(x)] # "none"
      <4>1. Slot(x) \in Slots BY <3>3, HasSlot DEF WithoutSlot
      <4> QED BY <3>3, <4>1, ReceiptStays DEF WorkerInv
    <3> QED BY <3>1, <3>2, <3>3
  <2>4. \A x \in Runners :
          /\ job'[x].pc = "persist" =>
               /\ Slot(x)' \in workers'[x]
               /\ job'[x].got \in OutcomesOf(Slot(x)')
               /\ turn'[Slot(x)'] \in {job'[x].got, "gone"}
               /\ receipt'[Slot(x)'] \in {"none", job'[x].got}
          /\ job'[x].pc = "event" => receipt'[Slot(x)'] # "none"
    BY <2>k, <2>3
  <2>5. \A x \in Runners : OutcomesOf(Slot(x))' = OutcomesOf(Slot(x)') BY <1>0 DEF OutcomesOf
  <2> QED BY <2>1, <2>2, <2>4, <2>5 DEF WorkerInv
<1> QED BY <1>1, <1>2, SlotNext

-----------------------------------------------------------------------------
(* The node, its receipts and its cohort.                                  *)

LEMMA ReaderDue == \A s \in Readers : Due(s) /\ Due(s)'
<1>1. Readers \cap (Writers \cup Validators) = {} BY SlotFacts
<1>2. /\ {Implementer(0), Implementer(1), Repairer} \subseteq Writers
      /\ \A i \in 0..2 : <<"VALIDATOR", i>> \in Validators
  BY DEF Writers, Validators
<1> QED BY <1>1, <1>2 DEF Due

\* The validator that holds the node is the one its state asks for.
LEMMA ValidatorAt ==
  ASSUME TodoInv, PhaseInv, NEW r \in Runners, job[r].pc = "run", holder = Slot(r), Running
  PROVE  \/ holder = <<"VALIDATOR", 2>> /\ node = "REVALIDATING"
         \/ \E i \in 0..1 : holder = <<"VALIDATOR", i>> /\ node = "VALIDATING" /\ corrections = i
<1>1. Slot(r) \in {<<"VALIDATOR", 0>>, <<"VALIDATOR", 1>>, <<"VALIDATOR", 2>>}
  BY SlotFacts DEF TodoInv
<1>2. Due(Slot(r)) BY DEF PhaseInv
<1> QED BY <1>1, <1>2 DEF Due

\* Only the holder of the node moves it from where another slot is due.
LEMMA DueMoves ==
  ASSUME TypeInv, TodoInv, PhaseInv, NEW r \in Runners, Moved(r),
         NEW s \in Slots, s # holder, Due(s)
  PROVE  Due(s)'
<1> SUFFICES ASSUME Running PROVE Due(s)' BY DEF Due, Moved, Running
<1>r. s \in Readers => Due(s)' BY ReaderDue
<1>t. s \in Readers \/ s \in {Implementer(0), Implementer(1), Repairer, <<"VALIDATOR", 0>>,
                              <<"VALIDATOR", 1>>, <<"VALIDATOR", 2>>}
  BY SlotFacts
<1>n. corrections \in 0..1 BY DEF TypeInv, NodeType
<1>1. CASE WorkStarts(r)
  <2>1. Slot(r) \in {Implementer(0), Repairer} /\ holder = Slot(r)
    BY <1>1 DEF WorkStarts, TodoInv
  <2>2. s \notin {Implementer(0), Implementer(1), Repairer, <<"VALIDATOR", 0>>,
                  <<"VALIDATOR", 1>>, <<"VALIDATOR", 2>>}
    BY <1>1, <2>1, SlotFacts DEF WorkStarts, Due
  <2> QED BY <1>r, <1>t, <2>2
<1>2. CASE WorkEnds
  <2>1. holder \in {Implementer(0), Implementer(1), Repairer} BY <1>2, SlotFacts DEF WorkEnds
  <2>2. s \notin {Implementer(0), Implementer(1), Repairer, <<"VALIDATOR", 0>>,
                  <<"VALIDATOR", 1>>, <<"VALIDATOR", 2>>}
    BY <1>2, <2>1, SlotFacts DEF WorkEnds, Due, Working, PhaseInv
  <2> QED BY <1>r, <1>t, <2>2
<1>3. CASE Validated(r)
  <2>1. \/ holder = <<"VALIDATOR", 2>> /\ node = "REVALIDATING"
        \/ \E i \in 0..1 : holder = <<"VALIDATOR", i>> /\ node = "VALIDATING" /\ corrections = i
    BY <1>3, ValidatorAt DEF Validated
  <2>2. s \notin {Implementer(0), Implementer(1), Repairer, <<"VALIDATOR", 0>>,
                  <<"VALIDATOR", 1>>, <<"VALIDATOR", 2>>}
    BY <2>1, SlotFacts DEF Due
  <2> QED BY <1>r, <1>t, <2>2
<1>4. CASE Decided \/ Frozen
  <2>1. node \in {"CANDIDATE_FROZEN", "FINDINGS_FROZEN", "CLOSURE", "CHECKS_AND_REVIEW"}
    BY <1>4 DEF Decided, Frozen
  <2>2. s \notin {Implementer(0), Implementer(1), Repairer, <<"VALIDATOR", 0>>,
                  <<"VALIDATOR", 1>>, <<"VALIDATOR", 2>>}
    BY <2>1 DEF Due
  <2> QED BY <1>r, <1>t, <2>2
<1> QED BY <1>1, <1>2, <1>3, <1>4 DEF Moved

LEMMA DueStays ==
  ASSUME TypeInv, TodoInv, WorkerInv, PhaseInv, Next, NEW s \in Slots, s # holder, Due(s)
  PROVE  Due(s)'
<1>1. CASE UNCHANGED nodeVars BY <1>1 DEF nodeVars, Due, Running
<1>2. CASE Stopped BY <1>2 DEF Stopped, Due, Running
<1>3. CASE Ordered /\ ~Stopped
  <2> SUFFICES ASSUME Running PROVE Due(s)' BY <1>3 DEF Due, Ordered, Running
  <2>1. CASE s \in Readers BY <2>1, ReaderDue
  <2>2. s \in {Implementer(0), Implementer(1), Repairer, <<"VALIDATOR", 0>>,
               <<"VALIDATOR", 1>>, <<"VALIDATOR", 2>>} => FALSE
    BY <1>3, SlotFacts DEF Due, Ordered, Decided
  <2> QED BY <2>1, <2>2, SlotFacts
<1>4. ASSUME NEW r \in Runners, Handed(r) PROVE Due(s)' BY <1>4 DEF Handed, Due, Running
<1>5. ASSUME NEW r \in Runners, Moved(r) PROVE Due(s)' BY <1>5, DueMoves
<1> QED BY <1>1, <1>2, <1>3, <1>4, <1>5, NodeNext DEF Ordered, NodeStep

\* A call that goes on to acquire, or to a validation, has reserved or acquired.
LEMMA PhaseKinds ==
  ASSUME NEW r \in Runners, SlotStep(r)
  PROVE  /\ job'[r].pc = "reserve" =>
              \/ job'[r].todo # <<>> /\ job'[r].todo \in Seq(Readers)
              \/ Due(Slot(r)') /\ UNCHANGED nodeVars
         /\ job'[r].pc = "acquire" => Reserves(r)
         /\ job'[r].pc = "run" => Acquires(r)
<1> USE DEF Owned
<1>1. CASE Leaves(r) BY <1>1 DEF Leaves, Rests
<1>2. CASE Begins(r) BY <1>2 DEF Begins, ToReserve, Slot
<1>3. CASE Reserves(r) BY <1>3 DEF Reserves
<1>4. CASE Acquires(r) BY <1>4 DEF Acquires
<1>5. CASE Creates(r) BY <1>5 DEF Creates
<1>6. CASE Pays(r) BY <1>6 DEF Pays
<1>7. CASE Starts(r) BY <1>7 DEF Starts, Rests, ToReserve
<1>8. CASE Ends(r) BY <1>8 DEF Ends
<1>9. CASE Persists(r) BY <1>9 DEF Persists
<1> QED BY <1>1, <1>2, <1>3, <1>4, <1>5, <1>6, <1>7, <1>8, <1>9 DEF SlotStep

\* A slot that is dispatched stays due until it is reserved.
LEMMA ReserveNext ==
  ASSUME TypeInv, TodoInv, OwnerInv, TurnInv, WorkerInv, PhaseInv, Next,
         NEW x \in Runners, job'[x].pc = "reserve", Slot(x)' \notin attempts'
  PROVE  Due(Slot(x))'
<1>0. Readers' = Readers /\ attempts \subseteq attempts'
  BY Frame, SlotNext, OwnedSlot DEF Next, Stands
<1>1. ASSUME job'[x] = job[x] PROVE Due(Slot(x))'
  <2>1. job[x].pc = "reserve" /\ Slot(x)' = Slot(x) /\ Slot(x) \notin attempts
    BY <1>0, <1>1 DEF Slot
  <2>2. PICK s \in Slots : s = Slot(x) BY <2>1, HasSlot DEF WithoutSlot
  <2>3. Due(s) /\ s # holder BY <2>1, <2>2, SlotFacts DEF PhaseInv, OwnerInv
  <2>4. Due(s)' BY <2>3, DueStays
  <2> QED BY <2>1, <2>2, <2>4 DEF Due
<1>2. ASSUME OnlyJob(x), SlotStep(x) PROVE Due(Slot(x))'
  <2>1. CASE job'[x].todo # <<>> /\ job'[x].todo \in Seq(Readers)
    <3>1. PICK s \in Readers : s = Slot(x)' BY <2>1 DEF Slot
    <3>2. Due(s)' BY ReaderDue
    <3> QED BY <3>1, <3>2 DEF Due
  <2>2. CASE Due(Slot(x)') /\ UNCHANGED nodeVars
    BY <2>2 DEF Due, nodeVars, Running
  <2> QED BY <1>2, <2>1, <2>2, PhaseKinds
<1> QED BY <1>1, <1>2, SlotNext DEF Stands, OnlyJob

\* With the revision of its reservation, the slot of a call is still due.
LEMMA AcquireNext ==
  ASSUME TypeInv, TodoInv, OwnerInv, TurnInv, WorkerInv, PhaseInv, Next,
         NEW x \in Runners, job'[x].pc = "acquire", ~Stale(x)'
  PROVE  Due(Slot(x))'
<1>1. ASSUME job'[x] = job[x] PROVE Due(Slot(x))'
  <2>1. Slot(x)' = Slot(x) /\ job[x].pc = "acquire" /\ job[x].snap = revision'
    BY <1>1 DEF Slot, Stale
  <2>2. UNCHANGED nodeVars /\ revision' = revision
    <3>1. PICK now \in Nat, next \in Nat : now = revision /\ next = revision'
      BY RevisionGrows DEF TypeInv, NodeType
    <3>2. next <= now BY <2>1, <3>1 DEF TodoInv
    <3>3. next # now + 1 BY <3>1, <3>2
    <3> QED BY <3>1, <3>3, RevisionGrows
  <2>3. Due(Slot(x)) BY <2>1, <2>2 DEF PhaseInv, Stale
  <2> QED BY <2>1, <2>2, <2>3 DEF Due, nodeVars, Running
<1>2. ASSUME SlotStep(x) PROVE Due(Slot(x))'
  <2>1. Reserves(x) BY <1>2, PhaseKinds
  <2>2. Slot(x)' = Slot(x) /\ Due(Slot(x)) /\ UNCHANGED <<campaign, node, corrections>>
    BY <2>1 DEF Reserves, Slot, PhaseInv
  <2> QED BY <2>2 DEF Due, Running
<1> QED BY <1>1, <1>2, SlotNext DEF Stands, OnlyJob

\* A validator that holds the node is still the one its state asks for.
LEMMA RunNext ==
  ASSUME TypeInv, TodoInv, OwnerInv, TurnInv, WorkerInv, PhaseInv, Next,
         NEW x \in Runners, job'[x].pc = "run", holder' = Slot(x)'
  PROVE  Due(Slot(x))'
<1>1. ASSUME job'[x] = job[x] PROVE Due(Slot(x))'
  <2>1. Slot(x)' = Slot(x) /\ job[x].pc = "run" BY <1>1 DEF Slot
  <2>2. PICK s \in Slots : s = Slot(x) BY <2>1, HasSlot DEF WithoutSlot
  <2>3. s \in Validators /\ s \notin Writers BY <2>1, <2>2, SlotFacts DEF TodoInv
  <2>4. CASE UNCHANGED nodeVars
    BY <2>1, <2>4 DEF Due, nodeVars, Running, PhaseInv
  <2>5. CASE Stopped BY <2>5 DEF Stopped, Due, Running
  <2>6. CASE Ordered /\ ~Stopped
    <3>1. holder = s /\ campaign' = campaign BY <2>1, <2>2, <2>6 DEF Ordered
    <3>2. Running => node \in {"VALIDATING", "REVALIDATING"} BY <2>1, <2>2, <3>1, ValidatorAt
    <3>3. ~Running BY <2>6, <3>2 DEF Ordered, Decided
    <3> QED BY <3>1, <3>3 DEF Due, Running
  <2>7. ASSUME NEW r \in Runners, Handed(r) PROVE Due(Slot(x))'
    <3>1. holder' # None BY <2>1, <2>2, SlotFacts
    <3>2. job[r].pc = "acquire" => Slot(r) # Slot(x) BY <2>1 DEF OwnerInv, Owned
    <3>3. holder = Slot(x) /\ UNCHANGED <<campaign, node, corrections>>
      BY <2>1, <2>7, <3>1, <3>2 DEF Handed
    <3> QED BY <2>1, <3>3 DEF PhaseInv, Due, Running
  <2>8. ASSUME NEW r \in Runners, Moved(r) PROVE Due(Slot(x))'
    <3>1. holder = s /\ campaign' = campaign BY <2>1, <2>2, <2>8 DEF Moved
    <3>2. Running => node \in {"VALIDATING", "REVALIDATING"} BY <2>1, <2>2, <3>1, ValidatorAt
    <3>3. ~WorkStarts(r)
      BY <2>3, <3>1, SlotFacts DEF WorkStarts, TodoInv
    <3>4. ~WorkEnds BY <2>3, <3>1 DEF WorkEnds
    <3>5. ~Validated(r)
      <4>1. job[r].pc = "run" /\ Slot(r) = Slot(x) => r = x BY <2>1 DEF OwnerInv, Owned
      <4> QED BY <2>2, <3>1, <4>1 DEF Validated
    <3>6. ~Running BY <2>8, <3>2, <3>3, <3>4, <3>5 DEF Moved, Decided, Frozen
    <3> QED BY <3>1, <3>6 DEF Due, Running
  <2> QED BY <2>4, <2>5, <2>6, <2>7, <2>8, NodeNext DEF Ordered, NodeStep
<1>2. ASSUME SlotStep(x) PROVE Due(Slot(x))'
  <2>1. Acquires(x) BY <1>2, PhaseKinds
  <2>2. Slot(x)' = Slot(x) /\ Due(Slot(x)) /\ UNCHANGED <<campaign, node, corrections>>
    BY <2>1 DEF Acquires, Slot, PhaseInv
  <2> QED BY <2>2 DEF Due, Running
<1> QED BY <1>1, <1>2, SlotNext DEF Stands, OnlyJob

LEMMA PhaseNext ==
  ASSUME TypeInv, TodoInv, OwnerInv, TurnInv, WorkerInv, PhaseInv, Next
  PROVE  PhaseInv'
<1>1. node' = "ADMITTED" => corrections' = 0
  BY NodeNext DEF PhaseInv, nodeVars, Ordered, NodeStep, Stopped, Handed, Moved, WorkStarts,
     WorkEnds, Worked, Validated, Decided, Frozen
<1>2. ASSUME Running', NEW i \in 0..1, holder' = Implementer(i) PROVE corrections' = i
  <2>0. Implementer(i) \in {Implementer(0), Implementer(1)} OBVIOUS
  <2>1. holder = Implementer(i) /\ Running => corrections = i BY DEF PhaseInv
  <2>2. CASE UNCHANGED nodeVars \/ Ordered
    BY <1>2, <2>0, <2>1, <2>2, SlotFacts DEF nodeVars, Ordered, Stopped, Decided, Running
  <2>3. CASE Stopped BY <1>2, <2>3 DEF Stopped, Running
  <2>4. ASSUME NEW r \in Runners, Handed(r) PROVE corrections' = i
    <3>1. job[r].pc = "acquire" /\ ~Stale(r) /\ Slot(r) = Implementer(i) /\ Running
            => corrections = i
      BY <2>0 DEF PhaseInv, Due
    <3>2. Implementer(i) # None BY <2>0, SlotFacts
    <3> QED BY <1>2, <2>1, <2>4, <3>1, <3>2 DEF Handed, Running
  <2>5. ASSUME NEW r \in Runners, Moved(r) PROVE corrections' = i
    <3>1. ~Validated(r)
      BY <1>2, <2>0, <2>5, SlotFacts DEF Validated, Moved, TodoInv
    <3> QED BY <1>2, <2>1, <2>5, <3>1 DEF Moved, WorkStarts, WorkEnds, Decided, Frozen, Running
  <2> QED BY <2>2, <2>3, <2>4, <2>5, NodeNext DEF NodeStep
<1> QED BY <1>1, <1>2, ReserveNext, AcquireNext, RunNext DEF PhaseInv

\* A receipt that carries the node is there when the node moves, and stays.
LEMMA AttestedNext ==
  ASSUME TypeInv, TodoInv, OwnerInv, TurnInv, WorkerInv, PhaseInv, AttestedProgress, Next
  PROVE  AttestedProgress'
<1>1. \A s \in {Implementer(0), Implementer(1), Repairer} :
        receipt[s] = "pass" => receipt'[s] = "pass"
  BY ReceiptStays, SlotFacts
<1>2. corrections \in {0, 1} BY DEF TypeInv, NodeType
<1>3. ASSUME UNCHANGED <<node, corrections>> PROVE AttestedProgress'
  BY <1>1, <1>2, <1>3 DEF AttestedProgress
<1>4. ASSUME Stopped PROVE AttestedProgress' BY <1>4 DEF Stopped, AttestedProgress
<1>5. ASSUME Decided \/ Frozen PROVE AttestedProgress'
  BY <1>1, <1>2, <1>5 DEF Decided, Frozen, AttestedProgress
<1>6. ASSUME NEW r \in Runners, WorkStarts(r) PROVE AttestedProgress'
  BY <1>1, <1>2, <1>6 DEF WorkStarts, AttestedProgress
<1>7. ASSUME WorkEnds PROVE AttestedProgress'
  <2>1. holder \in {Implementer(0), Implementer(1), Repairer} BY <1>7, SlotFacts DEF WorkEnds
  <2>2. CASE holder = Repairer
    BY <1>1, <1>2, <1>7, <2>2 DEF WorkEnds, Working, Worked, AttestedProgress
  <2>3. CASE holder # Repairer
    <3>1. holder = Implementer(corrections) BY <1>7, <2>1, <2>3 DEF PhaseInv, WorkEnds
    <3> QED BY <1>1, <1>2, <1>7, <2>3, <3>1 DEF WorkEnds, Working, Worked, AttestedProgress
  <2> QED BY <2>2, <2>3
<1>8. ASSUME NEW r \in Runners, Validated(r) PROVE AttestedProgress'
  <2>1. node \in {"VALIDATING", "REVALIDATING"} BY <1>8, ValidatorAt DEF Validated
  <2> QED BY <1>1, <1>2, <1>8, <2>1 DEF Validated, AttestedProgress
<1> QED BY <1>3, <1>4, <1>5, <1>6, <1>7, <1>8, NodeNext
        DEF nodeVars, Ordered, NodeStep, Handed, Moved

\* The receipts a decision was made from stay.
LEMMA CohortNext ==
  ASSUME TypeInv, TodoInv, OwnerInv, TurnInv, WorkerInv, CohortDecides, Next
  PROVE  CohortDecides'
<1>1. Reviewers' = Reviewers /\ Reviewers \subseteq Slots
  BY Frame DEF Next, Slots, Readers
<1>2. \A s \in Reviewers : receipt[s] # "none" => receipt'[s] = receipt[s]
  BY <1>1, ReceiptStays
<1>3. ASSUME UNCHANGED <<node, blockers>> PROVE CohortDecides'
  BY <1>1, <1>2, <1>3 DEF CohortDecides
<1>4. ASSUME NEW r \in Runners, Frozen PROVE CohortDecides'
  BY <1>1, <1>2, <1>4 DEF Frozen, CohortDecides
<1>5. ASSUME node' # "FINDINGS_FROZEN" PROVE CohortDecides' BY <1>5 DEF CohortDecides
<1> QED BY <1>3, <1>4, <1>5, NodeNext
        DEF nodeVars, Ordered, Stopped, NodeStep, Handed, Moved, WorkStarts, WorkEnds, Worked,
            Validated, Decided

-----------------------------------------------------------------------------
(* What a step pays for.                                                   *)

Charges(id) ==
  /\ rank > 0 /\ rank' = rank - 1
  /\ id \notin attempts /\ attempts' = attempts \cup {id}
  /\ UNCHANGED <<campaign, node, corrections>>

\* An event that is paid for and moves the node.
Opens ==
  /\ rank > 0 /\ rank' = rank - 1 /\ UNCHANGED <<attempts, corrections>>
  /\ \/ node = "ADMITTED" \/ node' \in {"REPAIRING", "CLOSURE"}
     \/ node = "CANDIDATE_FROZEN" /\ node' = "CHECKS_AND_REVIEW"

Free == UNCHANGED <<rank, attempts>>
PaysSlot(r) == job[r].pc = "reserve" /\ Charges(Slot(r))
PaysStart(r) == job[r].pc = "pay" /\ job'[r].pc = "turn" /\ Charges(StartId(Slot(r)))
PaysRetry == \E id \in Retries : Charges(id)
BudgetStep == Free \/ Opens \/ PaysRetry \/ \E r \in Runners : PaysSlot(r) \/ PaysStart(r)

LEMMA DispatchBudget ==
  ASSUME TypeInv, TodoInv, setup' = setup, NEW r \in Runners,
         Dispatching(r) \/ FailDispatch(r) \/ Validate(r) \/ FreeValidator(r)
  PROVE  BudgetStep
<1>b. FailBudget(r) => Free BY DEF FailBudget, Fail, Free
<1>1. CASE ReserveSlot(r)
  BY <1>1, <1>b DEF ReserveSlot, At, Reserve, PaysSlot, Charges, Free, storeVars, BudgetStep
<1>2. CASE AcquireLease(r) \/ CreateActor(r) \/ StartTurn(r)
  BY <1>2 DEF AcquireLease, CreateActor, StartTurn, Free, storeVars, BudgetStep
<1>3. CASE StartEvent(r)
  BY <1>3, <1>b DEF StartEvent, Move, Working, Opens, Free, storeVars, BudgetStep
<1>4. CASE PayStart(r)
  <2>1. Goto(r, "turn") => job'[r].pc = "turn" BY GotoStep DEF TypeInv, Pcs
  <2> QED
    BY <1>4, <1>b, <2>1 DEF PayStart, At, Reserve, PaysStart, Charges, Free, storeVars, BudgetStep
<1>5. CASE FailDispatch(r)
  BY <1>5 DEF FailDispatch, FailIfRunning, Fail, Free, storeVars, BudgetStep
<1>6. CASE Validate(r)
  BY <1>6, <1>b DEF Validate, Move, Fail, Opens, Free, storeVars, BudgetStep
<1>7. CASE FreeValidator(r)
  BY <1>7 DEF FreeValidator, ReleaseLease, Free, storeVars, BudgetStep
<1> QED BY <1>1, <1>2, <1>3, <1>4, <1>5, <1>6, <1>7 DEF Dispatching

LEMMA BudgetNext ==
  ASSUME TypeInv, TodoInv, Next
  PROVE  BudgetStep
<1>1. CASE AuthorizeRepair \/ Cancel \/ Expire
  BY <1>1 DEF AuthorizeRepair, Cancel, Expire, Free, storeVars, BudgetStep
<1>2. ASSUME NEW r \in Runners, Calls(r) PROVE BudgetStep
  <2>1. ASSUME NEW s \in workers[r], RetryCall(r, s) PROVE PaysRetry
    <3>1. s \in Slots BY DEF TypeInv, HostType
    <3> QED BY <2>1, <3>1 DEF RetryCall, Reserve, PaysRetry, Charges, Retries
  <2>2. CASE StepReview(r) BY <2>2 DEF StepReview, Move, Fail, Opens, Free, BudgetStep
  <2>3. CASE StepDeadline(r) \/ StepReady(r)
    BY <2>3 DEF StepDeadline, StepReady, Fail, Free, BudgetStep
  <2>4. CASE UNCHANGED storeVars BY <2>4 DEF storeVars, Free, BudgetStep
  <2>5. CASE StepDispatch(r) \/ StepDrift(r) \/ RecoverCall(r)
    BY <2>4, <2>5 DEF StepDispatch, StepDrift, RecoverCall
  <2>6. ASSUME NEW s \in workers[r], CompleteCall(r, s) PROVE BudgetStep
    BY <2>4, <2>6 DEF CompleteCall
  <2>7. ASSUME NEW given \in (SUBSET Reviewers) \cup (SUBSET ClosureReviewers),
               CollectCall(r, given) \/ FreezeCall(r, given)
        PROVE  BudgetStep
    <3>1. CASE CollectCall(r, given) BY <2>4, <3>1 DEF CollectCall
    <3>2. CASE FreezeCall(r, given) BY <2>4, <3>2 DEF FreezeCall
    <3> QED BY <2>7, <3>1, <3>2
  <2> QED BY <1>2, <2>1, <2>2, <2>3, <2>5, <2>6, <2>7 DEF Calls, BudgetStep
<1>3. ASSUME NEW r \in Runners, Collecting(r) PROVE BudgetStep
  <2>1. CASE RefuseCollection(r)
    <3>1. Slot(r) \in Slots BY <2>1, HasSlot DEF RefuseCollection, At, WithoutSlot
    <3> QED
      BY <2>1, <3>1 DEF RefuseCollection, Reserve, PaysRetry, Charges, Retries, Free, storeVars,
         BudgetStep
  <2> QED
    BY <1>3, <2>1 DEF Collecting, RecordRetry, CollectReceipt, TransportFails, PersistReceipt,
       TerminalEvent, ReleaseWorker, ReleaseLease, Fail, Free, storeVars, BudgetStep
<1>4. ASSUME NEW r \in Runners, Recovering(r) \/ FreezeReview(r) \/ Crash(r) PROVE BudgetStep
  <2>1. CASE RecoverOne(r) BY <2>1 DEF RecoverOne, Free, storeVars, BudgetStep
  <2>2. CASE RecoverRelease(r) \/ RecoverKill(r) \/ RecoverStore(r) \/ RecoverFence(r)
    BY <2>2 DEF RecoverRelease, RecoverKill, RecoverStore, RecoverFence, FailIfRunning,
       ReleaseLease, Fail, Free, storeVars, BudgetStep
  <2>3. CASE FreezeReview(r) BY <2>3 DEF FreezeReview, Fail, Free, storeVars, BudgetStep
  <2>4. CASE Crash(r) BY <2>4 DEF Crash, Free, storeVars, BudgetStep
  <2> QED BY <1>4, <2>1, <2>2, <2>3, <2>4 DEF Recovering
<1> QED BY <1>1, <1>2, <1>3, <1>4, DispatchBudget DEF Next, Step, Works

\* The one correction is granted where the rank pays for all of it.
LEMMA GrantNext ==
  ASSUME Next
  PROVE  \/ UNCHANGED <<corrections, granted>>
         \/ /\ corrections = 0 /\ rank >= CorrectionNeeds
            /\ UNCHANGED <<rank, attempts>> /\ granted' = attempts
<1> USE DEF past, storeVars, nodeVars, Fail, Move
<1>1. CASE AuthorizeRepair \/ Cancel \/ Expire BY <1>1 DEF AuthorizeRepair, Cancel, Expire
<1>2. ASSUME NEW r \in Runners, Calls(r) PROVE UNCHANGED <<corrections, granted>>
  <2>1. StepDispatch(r) \/ StepDrift(r) \/ StepDeadline(r) \/ StepReview(r) \/ StepReady(r)
          \/ RecoverCall(r) => UNCHANGED <<corrections, granted>>
    BY DEF StepDispatch, StepDrift, StepDeadline, StepReview, StepReady, RecoverCall
  <2>2. \A s : CompleteCall(r, s) \/ RetryCall(r, s) => UNCHANGED <<corrections, granted>>
    BY DEF CompleteCall, RetryCall
  <2>3. ASSUME NEW given \in (SUBSET Reviewers) \cup (SUBSET ClosureReviewers),
               CollectCall(r, given) \/ FreezeCall(r, given)
        PROVE  UNCHANGED <<corrections, granted>>
    <3>1. CASE CollectCall(r, given) BY <3>1 DEF CollectCall
    <3>2. CASE FreezeCall(r, given) BY <3>2 DEF FreezeCall
    <3> QED BY <2>3, <3>1, <3>2
  <2> QED BY <1>2, <2>1, <2>2, <2>3 DEF Calls
<1>3. ASSUME NEW r \in Runners, Dispatching(r) PROVE UNCHANGED <<corrections, granted>>
  BY <1>3 DEF Dispatching, ReserveSlot, AcquireLease, CreateActor, StartEvent, PayStart,
     StartTurn, FailBudget
<1>4. ASSUME NEW r \in Runners, FailDispatch(r) \/ FreeValidator(r)
      PROVE  UNCHANGED <<corrections, granted>>
  BY <1>4 DEF FailDispatch, FailIfRunning, FreeValidator, ReleaseLease
<1>5. ASSUME NEW r \in Runners, Collecting(r) PROVE UNCHANGED <<corrections, granted>>
  BY <1>5 DEF Collecting, RecordRetry, RefuseCollection, CollectReceipt, TransportFails,
     PersistReceipt, TerminalEvent, ReleaseWorker, ReleaseLease
<1>6. ASSUME NEW r \in Runners, Recovering(r) \/ FreezeReview(r) \/ Crash(r)
      PROVE  UNCHANGED <<corrections, granted>>
  <2>1. RecoverOne(r) => UNCHANGED <<corrections, granted>> BY DEF RecoverOne
  <2>2. RecoverRelease(r) \/ RecoverKill(r) \/ RecoverStore(r) \/ RecoverFence(r) =>
          UNCHANGED <<corrections, granted>>
    BY DEF RecoverRelease, RecoverKill, RecoverStore, RecoverFence, FailIfRunning, ReleaseLease
  <2>3. FreezeReview(r) \/ Crash(r) => UNCHANGED <<corrections, granted>>
    BY DEF FreezeReview, Crash
  <2> QED BY <1>6, <2>1, <2>2, <2>3 DEF Recovering
<1>7. ASSUME NEW r \in Runners, Validate(r)
      PROVE  \/ UNCHANGED <<corrections, granted>>
             \/ /\ corrections = 0 /\ rank >= CorrectionNeeds
                /\ UNCHANGED <<rank, attempts>> /\ granted' = attempts
  BY <1>7 DEF Validate, Corrects, FailBudget
<1> QED BY <1>1, <1>2, <1>3, <1>4, <1>5, <1>6, <1>7 DEF Next, Step, Works

-----------------------------------------------------------------------------
(* What a correction can pay for.                                          *)

\* Slots, starts and retries are told apart by their identities.
LEMMA IdFacts ==
  /\ \A s \in Slots : StartId(s) \notin Slots /\ StartId(s) \notin Retries
  /\ Retries \cap Slots = {}
  /\ \A s, t : StartId(s) = StartId(t) => s = t
  /\ Reviewers \cap ClosureReviewers = {}
<1>1. \A s \in Slots :
        s[1] \in {"IMPLEMENTER", "REPAIRER", "VALIDATOR", "REVIEWER", "CLOSURE_REVIEWER"}
  BY DEF Slots, Writers, Validators, Readers, Reviewers, ClosureReviewers, Implementer, Repairer
<1>2. \A x \in Retries : x[1] \in {"retry", "no_retry", "invalid_retry"} BY DEF Retries
<1>3. \A s : StartId(s)[1] = "start" /\ StartId(s)[2] = s BY DEF StartId
<1>4. Reviewers \cap ClosureReviewers = {} BY DEF Reviewers, ClosureReviewers
<1> QED BY <1>1, <1>2, <1>3, <1>4

\* A node is early only if it was, and a review that was begun stays so.
LEMMA EarlyNext ==
  ASSUME TypeInv, TodoInv, WorkerInv, PhaseInv, LateInv, Next, node' \in Early
  PROVE  /\ node \in Early /\ Running
         /\ node' # "CHECKS_AND_REVIEW" => node # "CHECKS_AND_REVIEW"
<1> USE DEF Early
<1>1. CASE UNCHANGED nodeVars BY <1>1 DEF nodeVars, LateInv
<1>2. CASE Ordered BY <1>2 DEF Ordered, Stopped, Decided, LateInv
<1>3. ASSUME NEW r \in Runners, Handed(r)
      PROVE  node \in Early /\ Running /\ node' = node
  BY <1>3 DEF Handed, LateInv
<1>4. ASSUME NEW r \in Runners, Validated(r)
      PROVE  node = "VALIDATING" /\ Running
  BY <1>4, ValidatorAt DEF Validated
<1>5. ASSUME NEW r \in Runners, Moved(r)
      PROVE  /\ node \in Early /\ Running
             /\ node' # "CHECKS_AND_REVIEW" => node # "CHECKS_AND_REVIEW"
  <2>1. CASE WorkStarts(r) BY <2>1 DEF WorkStarts, LateInv
  <2>2. CASE WorkEnds BY <2>2 DEF WorkEnds, Working, Worked
  <2>3. CASE Decided \/ Frozen BY <2>3 DEF Decided, Frozen, LateInv
  <2> QED BY <1>4, <1>5, <2>1, <2>2, <2>3 DEF Moved
<1> QED BY <1>1, <1>2, <1>3, <1>5, NodeNext DEF NodeStep, Stopped

\* The slot of a dispatch is of the candidate or of the reviews of its state.
LEMMA EarlySlot ==
  ASSUME TypeInv, TodoInv, PhaseInv, LateInv, node \in Early, NEW r \in Runners,
         job[r].pc = "reserve", Slot(r) \notin attempts
  PROVE  /\ Running /\ Due(Slot(r)) /\ Slot(r) \in Slots
         /\ Slot(r) \notin {Repairer, <<"VALIDATOR", 2>>} \cup ClosureReviewers
<1>1. Running BY DEF Early, LateInv
<1>2. Due(Slot(r)) BY DEF PhaseInv
<1>3. job[r].todo # <<>> /\ Slot(r) \in Slots BY HasSlot DEF WithoutSlot
<1>4. Slot(r) \notin {Repairer, <<"VALIDATOR", 2>>} BY <1>1, <1>2 DEF Due, Early
<1>5. Slot(r) \notin ClosureReviewers
  <2>1. job[r].todo \in Seq(Slots) BY JobFacts DEF TypeInv, JobType
  <2>2. 1 \in DOMAIN job[r].todo /\ job[r].todo[1] = Slot(r) BY <1>3, <2>1 DEF Slot
  <2> QED BY <2>2 DEF LateInv, Dispatches, Closes
<1> QED BY <1>1, <1>2, <1>3, <1>4, <1>5

LEMMA DispatchesNext ==
  ASSUME TypeInv, NEW r \in Runners, SlotStep(r), Dispatches(r)', node' \in Early,
         Closes(job'[r].todo)
  PROVE  Dispatches(r) /\ Closes(job[r].todo)
<1> USE DEF Dispatches, Owned
<1>1. CASE Leaves(r) BY <1>1 DEF Leaves, Rests
<1>2. CASE Begins(r) BY <1>2 DEF Begins, Early
<1>3. CASE Reserves(r) BY <1>3 DEF Reserves
<1>4. CASE Acquires(r) BY <1>4 DEF Acquires
<1>5. CASE Creates(r) BY <1>5 DEF Creates
<1>6. CASE Pays(r) BY <1>6 DEF Pays
<1>7. CASE Starts(r)
  <2>1. job[r].pc = "turn" /\ job'[r].todo = Tail(job[r].todo) BY <1>7 DEF Starts, Rests
  <2>2. job[r].todo \in Seq(Slots) BY JobFacts DEF TypeInv, JobType
  <2>3. PICK i \in DOMAIN Tail(job[r].todo) : Tail(job[r].todo)[i] \in ClosureReviewers
    BY <2>1 DEF Closes
  <2>4. job[r].todo # <<>> BY <1>7 DEF Starts
  <2>5. i + 1 \in DOMAIN job[r].todo /\ job[r].todo[i + 1] = Tail(job[r].todo)[i]
    BY <2>2, <2>3, <2>4
  <2> QED BY <2>1, <2>3, <2>5 DEF Closes
<1>8. CASE Ends(r) BY <1>8 DEF Ends
<1>9. CASE Persists(r) BY <1>9 DEF Persists
<1> QED BY <1>1, <1>2, <1>3, <1>4, <1>5, <1>6, <1>7, <1>8, <1>9 DEF SlotStep

LEMMA LateNext ==
  ASSUME TypeInv, TodoInv, OwnerInv, TurnInv, WorkerInv, PhaseInv, LateInv, Next
  PROVE  LateInv'
<1>0. ClosureReviewers' = ClosureReviewers BY Frame DEF Next
<1>1. Running' \/ node' \in {"FAILED_EXACT_NODE", "CANCELLED"}
  <2>1. CASE UNCHANGED nodeVars BY <2>1 DEF nodeVars, LateInv, Running
  <2>2. CASE Stopped BY <2>2 DEF Stopped
  <2>3. CASE Ordered /\ ~Stopped BY <2>3 DEF Ordered, Decided, LateInv, Running
  <2>4. ASSUME NEW r \in Runners, Handed(r) PROVE Running' \/ node' \in {"FAILED_EXACT_NODE", "CANCELLED"}
    BY <2>4 DEF Handed, LateInv, Running
  <2>5. ASSUME NEW r \in Runners, Moved(r) PROVE Running'
    BY <2>5 DEF Moved, WorkStarts, WorkEnds, Validated, Decided, Frozen, LateInv, Running
  <2> QED BY <2>1, <2>2, <2>3, <2>4, <2>5, NodeNext DEF NodeStep, Ordered
<1> SUFFICES ASSUME node' \in Early
    PROVE  /\ attempts' \cap ({Repairer, <<"VALIDATOR", 2>>} \cup ClosureReviewers) = {}
           /\ \A r \in Runners : Dispatches(r)' => ~Closes(job'[r].todo)
  BY <1>0, <1>1 DEF LateInv, Closes, Early
<1>2. node \in Early BY EarlyNext
<1> DEFINE Late == {Repairer, <<"VALIDATOR", 2>>} \cup ClosureReviewers
<1>3. Late \subseteq Slots BY SlotFacts DEF Readers
<1>4. attempts \cap Late = {} BY <1>2 DEF LateInv
<1>5. attempts' \cap Late = {}
  <2>1. CASE Free \/ Opens BY <1>4, <2>1 DEF Free, Opens
  <2>2. CASE PaysRetry BY <1>3, <1>4, <2>2, IdFacts DEF PaysRetry, Charges
  <2>3. ASSUME NEW r \in Runners, PaysSlot(r) PROVE attempts' \cap Late = {}
    <3>1. Slot(r) \notin Late BY <1>2, <2>3, EarlySlot DEF PaysSlot, Charges
    <3> QED BY <1>4, <2>3, <3>1 DEF PaysSlot, Charges
  <2>4. ASSUME NEW r \in Runners, PaysStart(r) PROVE attempts' \cap Late = {}
    <3>1. Slot(r) \in Slots BY <2>4, HasSlot DEF PaysStart, WithoutSlot
    <3> QED BY <1>3, <1>4, <2>4, <3>1, IdFacts DEF PaysStart, Charges
  <2> QED BY <2>1, <2>2, <2>3, <2>4, BudgetNext DEF BudgetStep
<1>6. ASSUME NEW x \in Runners, Dispatches(x)' PROVE ~Closes(job'[x].todo)
  <2>1. CASE job'[x] = job[x] BY <1>2, <1>6, <2>1 DEF LateInv, Dispatches
  <2>2. CASE SlotStep(x) BY <1>2, <1>6, <2>2, DispatchesNext DEF LateInv
  <2> QED BY <2>1, <2>2, SlotNext DEF Stands, OnlyJob
<1> QED BY <1>5, <1>6

\* Where a dispatch stands before and after a step of its own.
LEMMA StartKinds ==
  ASSUME NEW r \in Runners, SlotStep(r)
  PROVE  /\ job'[r].pc = "acquire" => Reserves(r)
         /\ job'[r].pc \in {"create", "start", "pay"} =>
              Slot(r)' = Slot(r) /\ job[r].pc \in {"acquire", "create", "start"}
         /\ job'[r].pc = "pay" => Slot(r) \in Readers \cup {Implementer(1), Repairer}
<1> USE DEF Owned, Slot
<1>1. CASE Leaves(r) BY <1>1 DEF Leaves, Rests
<1>2. CASE Begins(r) BY <1>2 DEF Begins, ToReserve
<1>3. CASE Reserves(r) BY <1>3 DEF Reserves
<1>4. CASE Acquires(r) BY <1>4 DEF Acquires
<1>5. CASE Creates(r) BY <1>5 DEF Creates
<1>6. CASE Pays(r) BY <1>6 DEF Pays
<1>7. CASE Starts(r) BY <1>7 DEF Starts, Rests, ToReserve
<1>8. CASE Ends(r) BY <1>8 DEF Ends
<1>9. CASE Persists(r) BY <1>9 DEF Persists
<1> QED BY <1>1, <1>2, <1>3, <1>4, <1>5, <1>6, <1>7, <1>8, <1>9 DEF SlotStep

\* What a step adds to the attempts is a slot, a retry, or the start of the slot
\* whose call leaves "pay".
LEMMA StartPaid ==
  ASSUME TypeInv, TodoInv, Next, NEW s \in Slots,
         StartId(s) \in attempts' \ attempts
  PROVE  \E r \in Runners : job[r].pc = "pay" /\ job'[r].pc = "turn" /\ Slot(r) = s
<1>1. CASE Free \/ Opens BY <1>1 DEF Free, Opens
<1>2. CASE PaysRetry BY <1>2, IdFacts DEF PaysRetry, Charges
<1>3. ASSUME NEW r \in Runners, PaysSlot(r) PROVE FALSE
  <2>1. Slot(r) \in Slots BY <1>3, HasSlot DEF PaysSlot, WithoutSlot
  <2> QED BY <1>3, <2>1, IdFacts DEF PaysSlot, Charges
<1>4. ASSUME NEW r \in Runners, PaysStart(r) PROVE Slot(r) = s
  BY <1>4, IdFacts DEF PaysStart, Charges
<1> QED BY <1>1, <1>2, <1>3, <1>4, BudgetNext DEF BudgetStep, PaysStart

LEMMA StartNext ==
  ASSUME TypeInv, TodoInv, OwnerInv, TurnInv, WorkerInv, StartInv, Next
  PROVE  StartInv'
<1>0. Slots' = Slots /\ Readers' = Readers /\ (\A s : StartId(s)' = StartId(s))
      /\ attempts \subseteq attempts'
  BY Frame, SlotNext, OwnedSlot DEF Next, StartId, Stands
<1>1. ASSUME NEW s \in Slots, s \notin attempts' PROVE StartId(s) \notin attempts'
  <2>1. StartId(s) \notin attempts BY <1>0, <1>1 DEF StartInv
  <2>2. \A r \in Runners : job[r].pc = "pay" => Slot(r) # s
    BY <1>0, <1>1 DEF OwnerInv, Owned
  <2> QED BY <2>1, <2>2, StartPaid
<1>2. ASSUME NEW x \in Runners, job'[x].pc \in {"acquire", "create", "start", "pay"},
             Slot(x)' = Slot(x), job[x].pc \in {"acquire", "create", "start", "pay"}
      PROVE  StartId(Slot(x)') \notin attempts'
  <2>1. Slot(x) \in Slots BY <1>2, HasSlot DEF WithoutSlot
  <2>2. StartId(Slot(x)) \notin attempts BY <1>2 DEF StartInv
  <2>3. \A r \in Runners : job[r].pc = "pay" /\ job'[r].pc = "turn" => Slot(r) # Slot(x)
    BY <1>2 DEF OwnerInv, Owned
  <2> QED BY <1>2, <2>1, <2>2, <2>3, StartPaid
<1>3. ASSUME NEW x \in Runners, job'[x].pc = "acquire", Reserves(x)
      PROVE  StartId(Slot(x)') \notin attempts'
  <2>1. Slot(x)' = Slot(x) /\ Slot(x) \notin attempts /\ attempts' = attempts \cup {Slot(x)}
    BY <1>3 DEF Reserves, Slot
  <2>2. Slot(x) \in Slots BY <1>3, HasSlot DEF Reserves, WithoutSlot
  <2>3. StartId(Slot(x)) \notin attempts /\ StartId(Slot(x)) # Slot(x)
    BY <2>1, <2>2, IdFacts DEF StartInv
  <2> QED BY <2>1, <2>3
<1>4. ASSUME NEW x \in Runners
      PROVE  /\ job'[x].pc \in {"acquire", "create", "start", "pay"} =>
                  StartId(Slot(x)') \notin attempts'
             /\ job'[x].pc = "pay" => Slot(x)' \in Readers \cup {Implementer(1), Repairer}
  <2>1. CASE job'[x] = job[x]
    <3>1. Slot(x)' = Slot(x) BY <2>1 DEF Slot
    <3> QED BY <1>2, <2>1, <3>1 DEF StartInv
  <2>2. CASE SlotStep(x)
    <3>1. job'[x].pc = "acquire" => Reserves(x) BY <2>2, StartKinds
    <3>2. job'[x].pc \in {"create", "start", "pay"} =>
            Slot(x)' = Slot(x) /\ job[x].pc \in {"acquire", "create", "start"}
      BY <2>2, StartKinds
    <3>3. job'[x].pc = "pay" => Slot(x) \in Readers \cup {Implementer(1), Repairer}
      BY <2>2, StartKinds
    <3> QED BY <1>2, <1>3, <3>1, <3>2, <3>3
  <2> QED BY <2>1, <2>2, SlotNext DEF Stands, OnlyJob
<1>5. \A x \in Runners : StartId(Slot(x))' = StartId(Slot(x)') BY DEF StartId
<1>6. granted' \subseteq attempts' BY <1>0, GrantNext DEF StartInv
<1> QED BY <1>0, <1>1, <1>4, <1>5, <1>6 DEF StartInv

LEMMA OneMore ==
  ASSUME NEW S, IsFiniteSet(S), NEW x
  PROVE  /\ IsFiniteSet(S \cup {x}) /\ Cardinality(S \cup {x}) \in Nat
         /\ Cardinality(S \cup {x}) <= Cardinality(S) + 1
<1>1. PICK n \in Nat : n = Cardinality(S) BY FS_CardinalityType
<1>2. /\ IsFiniteSet(S \cup {x})
      /\ Cardinality(S \cup {x}) = IF x \in S THEN Cardinality(S) ELSE Cardinality(S) + 1
  BY FS_AddElement
<1>3. Cardinality(S \cup {x}) \in {n, n + 1} BY <1>1, <1>2
<1> QED BY <1>1, <1>2, <1>3

\* The bill of a correction is finite, and granted only if the rank covers it.
LEMMA BillFacts ==
  ASSUME SetupType
  PROVE  /\ IsFiniteSet(Bill) /\ Cardinality(Bill) \in Nat
         /\ Cardinality(Bill) + 1 <= CorrectionNeeds
<1> DEFINE own == {Implementer(1), <<"VALIDATOR", 1>>, StartId(Implementer(1))}
           starts == {StartId(s) : s \in Reviewers}
<1>1. PICK c \in Nat : c = Cohort BY SetupFacts
<1>2. IsFiniteSet(1..c) /\ Cardinality(1..c) = c BY FS_Interval
<1>3. IsFiniteSet(Reviewers) /\ Cardinality(Reviewers) <= c
  <2> DEFINE f == [i \in 1..c |-> <<"REVIEWER", i>>]
  <2>1. f \in Surjection(1..c, Reviewers) BY <1>1 DEF Surjection, Reviewers
  <2> HIDE DEF f
  <2> QED BY <1>2, <2>1, FS_Surjection
<1>4. IsFiniteSet(starts) /\ Cardinality(starts) <= Cardinality(Reviewers)
  <2> DEFINE f == [s \in Reviewers |-> StartId(s)]
  <2>1. f \in Surjection(Reviewers, starts) BY DEF Surjection
  <2> HIDE DEF f, starts
  <2> QED BY <1>3, <2>1, FS_Surjection
<1>5. IsFiniteSet(own) /\ Cardinality(own) <= 3
  <2> DEFINE one == {Implementer(1)}
             two == one \cup {<<"VALIDATOR", 1>>}
  <2>1. IsFiniteSet(one) /\ Cardinality(one) = 1 BY FS_Singleton
  <2> HIDE DEF one
  <2>2. IsFiniteSet(two) /\ Cardinality(two) \in Nat /\ Cardinality(two) <= 2
    <3>1. IsFiniteSet(two) /\ Cardinality(two) \in Nat
          /\ Cardinality(two) <= Cardinality(one) + 1
      BY <2>1, OneMore
    <3> QED BY <2>1, <3>1
  <2>3. own = two \cup {StartId(Implementer(1))} BY DEF one
  <2> HIDE DEF two, own
  <2>4. IsFiniteSet(own) /\ Cardinality(own) \in Nat /\ Cardinality(own) <= Cardinality(two) + 1
    BY <2>2, <2>3, OneMore
  <2> QED BY <2>2, <2>4
<1>6. Bill = (own \cup Reviewers) \cup starts BY DEF Bill
<1> HIDE DEF own, starts
<1>7. /\ Cardinality(own) \in Nat /\ Cardinality(Reviewers) \in Nat /\ Cardinality(starts) \in Nat
  BY <1>3, <1>4, <1>5, FS_CardinalityType
<1>8. IsFiniteSet(own \cup Reviewers) /\ Cardinality(own \cup Reviewers) <= 3 + c
      /\ Cardinality(own \cup Reviewers) \in Nat
  <2>1. IsFiniteSet(own \cup Reviewers)
        /\ Cardinality(own \cup Reviewers) =
             Cardinality(own) + Cardinality(Reviewers) - Cardinality(own \cap Reviewers)
    BY <1>3, <1>5, FS_Union
  <2>2. own \cap Reviewers \in SUBSET Reviewers OBVIOUS
  <2>3. Cardinality(own \cap Reviewers) \in Nat
    BY <1>3, <2>2, FS_Subset, FS_CardinalityType
  <2>4. Cardinality(own \cup Reviewers) \in Nat BY <2>1, FS_CardinalityType
  <2> HIDE DEF own
  <2> QED BY <1>3, <1>5, <1>7, <2>1, <2>3, <2>4
<1>9. IsFiniteSet(Bill) /\ Cardinality(Bill) <= 3 + c + c /\ Cardinality(Bill) \in Nat
  <2> DEFINE rest == own \cup Reviewers
  <2>1. IsFiniteSet(rest) /\ Cardinality(rest) <= 3 + c /\ Cardinality(rest) \in Nat BY <1>8
  <2>2. Bill = rest \cup starts BY <1>6
  <2> HIDE DEF rest
  <2>3. IsFiniteSet(Bill)
        /\ Cardinality(Bill) = Cardinality(rest) + Cardinality(starts) - Cardinality(rest \cap starts)
    BY <1>4, <2>1, <2>2, FS_Union
  <2>4. rest \cap starts \in SUBSET starts OBVIOUS
  <2>5. Cardinality(rest \cap starts) \in Nat BY <1>4, <2>4, FS_Subset, FS_CardinalityType
  <2>6. Cardinality(Bill) \in Nat BY <2>3, FS_CardinalityType
  <2> QED BY <1>3, <1>4, <1>7, <2>1, <2>3, <2>5, <2>6
<1> QED BY <1>1, <1>9 DEF CorrectionNeeds

\* What is left of the bill only shrinks, by one when one of it is paid.
LEMMA BillLeft ==
  ASSUME SetupType, NEW A, NEW id
  PROVE  /\ Cardinality(Bill \ A) \in Nat /\ Cardinality(Bill \ A) <= Cardinality(Bill)
         /\ id \in Bill \ A =>
              /\ Cardinality(Bill \ A) > 0
              /\ Cardinality(Bill \ (A \cup {id})) = Cardinality(Bill \ A) - 1
<1>1. Bill \ A \in SUBSET Bill OBVIOUS
<1>2. IsFiniteSet(Bill \ A) /\ Cardinality(Bill \ A) <= Cardinality(Bill)
  BY <1>1, BillFacts, FS_Subset
<1>3. Cardinality(Bill \ A) \in Nat BY <1>2, FS_CardinalityType
<1>4. ASSUME id \in Bill \ A
      PROVE  /\ Cardinality(Bill \ A) > 0
             /\ Cardinality(Bill \ (A \cup {id})) = Cardinality(Bill \ A) - 1
  <2>1. Bill \ (A \cup {id}) = (Bill \ A) \ {id} OBVIOUS
  <2>2. Cardinality((Bill \ A) \ {id}) = Cardinality(Bill \ A) - 1
    BY <1>2, <1>4, FS_RemoveElement
  <2>3. Bill \ A # {} BY <1>4
  <2>4. Cardinality(Bill \ A) # 0 BY <1>2, <2>3, FS_EmptySet
  <2>5. Cardinality(Bill \ A) > 0 BY <1>3, <2>4
  <2> QED BY <2>1, <2>2, <2>5
<1> QED BY <1>2, <1>3, <1>4

\* While a granted correction is under way a dispatch pays for what is on its bill.
LEMMA BillSlot ==
  ASSUME TypeInv, TodoInv, OwnerInv, PhaseInv, LateInv, StartInv,
         corrections = 1, node \in Early, NEW r \in Runners
  PROVE  /\ job[r].pc = "reserve" /\ Slot(r) \notin attempts => Slot(r) \in Bill \ attempts
         /\ job[r].pc = "pay" => StartId(Slot(r)) \in Bill \ attempts
<1>1. ASSUME job[r].pc = "reserve", Slot(r) \notin attempts PROVE Slot(r) \in Bill
  <2>1. /\ Running /\ Due(Slot(r)) /\ Slot(r) \in Slots
        /\ Slot(r) \notin {Repairer, <<"VALIDATOR", 2>>} \cup ClosureReviewers
    BY <1>1, EarlySlot
  <2>2. Slot(r) # Implementer(0) BY <2>1 DEF Due, PhaseInv
  <2>3. Slot(r) # <<"VALIDATOR", 0>> BY <2>1 DEF Due
  <2>4. Slot(r) \in Reviewers \cup {Implementer(1), <<"VALIDATOR", 1>>}
    BY <2>1, <2>2, <2>3, SlotFacts DEF Readers
  <2> QED BY <2>4 DEF Bill
<1>2. ASSUME job[r].pc = "pay" PROVE StartId(Slot(r)) \in Bill \ attempts
  <2>1. Slot(r) \in attempts BY <1>2 DEF OwnerInv, Owned
  <2>2. Slot(r) \notin {Repairer} \cup ClosureReviewers BY <2>1 DEF LateInv
  <2>3. StartId(Slot(r)) \notin attempts /\ Slot(r) \in Reviewers \cup {Implementer(1)}
    BY <1>2, <2>2 DEF StartInv, Readers
  <2> QED BY <2>3 DEF Bill
<1> QED BY <1>1, <1>2

LEMMA AffordNext ==
  ASSUME TypeInv, TodoInv, OwnerInv, TurnInv, WorkerInv, PhaseInv, LateInv, StartInv, AffordInv,
         Next
  PROVE  AffordInv'
<1>0. Bill' = Bill /\ Retries' = Retries /\ attempts \subseteq attempts'
  BY Frame, SlotNext, OwnedSlot DEF Next, Bill, Retries, StartId, Stands
<1> SUFFICES ASSUME corrections' = 1, node' \in Early, attempts' \cap Retries \subseteq granted'
    PROVE  rank' >= Cardinality(Bill \ attempts') + Ahead'
  BY <1>0 DEF AffordInv, Early
<1>s. SetupType /\ rank \in Nat BY SetupFacts DEF TypeInv, LeaseType
<1>e. node \in Early /\ (node' # "CHECKS_AND_REVIEW" => node # "CHECKS_AND_REVIEW")
  BY EarlyNext
<1>a. Ahead \in {0, 1} /\ Ahead' \in {0, 1} /\ Ahead' <= Ahead BY <1>e DEF Ahead
<1>1. PICK left \in Nat : left = Cardinality(Bill \ attempts) BY <1>s, BillLeft
<1>2. CASE corrections = 0
  <2>1. rank >= CorrectionNeeds /\ UNCHANGED <<rank, attempts>> BY <1>2, GrantNext
  <2>2. left <= Cardinality(Bill) BY <1>s, <1>1, BillLeft
  <2>3. Cardinality(Bill) \in Nat /\ CorrectionNeeds \in Nat
        /\ Cardinality(Bill) + 1 <= CorrectionNeeds
    BY <1>s, BillFacts, SetupFacts DEF CorrectionNeeds
  <2> QED BY <1>s, <1>a, <1>1, <2>1, <2>2, <2>3
<1>3. CASE corrections = 1
  <2>1. granted' = granted BY <1>3, GrantNext
  <2>2. rank >= left + Ahead BY <1>0, <1>1, <1>3, <1>e, <2>1 DEF AffordInv
  <2>3. CASE Free BY <1>a, <1>s, <1>1, <2>2, <2>3 DEF Free
  <2>4. CASE Opens
    <3>1. node # "ADMITTED" BY <1>3 DEF PhaseInv
    <3>2. Ahead = 1 /\ Ahead' = 0 /\ rank' = rank - 1 /\ attempts' = attempts
      BY <2>4, <3>1 DEF Opens, Ahead, Early
    <3> QED BY <1>s, <1>1, <2>2, <3>2
  <2>5. ~PaysRetry
    <3> SUFFICES ASSUME NEW id \in Retries, Charges(id) PROVE FALSE BY DEF PaysRetry
    <3>1. id \in attempts' \cap Retries /\ id \notin attempts BY DEF Charges
    <3>2. id \in granted BY <2>1, <3>1
    <3> QED BY <3>1, <3>2 DEF StartInv
  <2>6. ASSUME NEW id \in Bill \ attempts, Charges(id)
        PROVE  rank' >= Cardinality(Bill \ attempts') + Ahead'
    <3>1. Cardinality(Bill \ (attempts \cup {id})) = left - 1 BY <1>s, <1>1, BillLeft
    <3>2. rank' = rank - 1 /\ attempts' = attempts \cup {id} BY <2>6 DEF Charges
    <3> QED BY <1>s, <1>a, <1>1, <2>2, <3>1, <3>2
  <2>7. ASSUME NEW r \in Runners, PaysSlot(r) \/ PaysStart(r)
        PROVE  \E id \in Bill \ attempts : Charges(id)
    BY <1>3, <1>e, <2>7, BillSlot DEF PaysSlot, PaysStart, Charges
  <2> QED BY <2>3, <2>4, <2>5, <2>6, <2>7, BudgetNext DEF BudgetStep
<1> QED BY <1>2, <1>3 DEF TypeInv, NodeType

-----------------------------------------------------------------------------
(* The invariant.                                                          *)

LEMMA RunnerInit == Init => RunnerInv
<1> SUFFICES ASSUME Init PROVE RunnerInv OBVIOUS
<1>1. Rank \in Nat /\ MaxFaults \in Nat /\ {} \subseteq Slots /\ None \notin Slots
  BY SetupFacts, SlotFacts DEF Init, SetupType
<1>2. Idle \in Job /\ Absent \in Job BY IdleFacts, JobEdits DEF Absent, Pcs
<1>3. \A r \in Runners :
        job[r].pc \in {"absent", "idle"} /\ job[r].snap = 0
  BY DEF Init, Idle, Absent
<1>4. TypeInv
  <2>1. SetupType /\ NodeType BY DEF Init, SetupType, NodeType, NodeStates
  <2>2. LeaseType
    <3>1. rank \in 0..Rank BY <1>1 DEF Init
    <3> QED BY <3>1 DEF Init, LeaseType, LeaseStates
  <2>3. HostType
    <3>1. faults \in 0..MaxFaults BY <1>1 DEF Init
    <3>2. started \in [Slots -> Nat] /\ retried \in [Slots -> Nat] BY DEF Init
    <3>3. workers \in [Runners -> SUBSET Slots] BY DEF Init
    <3> QED BY <3>1, <3>2, <3>3 DEF Init, HostType
  <2>4. TurnType BY DEF Init, TurnType
  <2>5. JobType BY <1>2 DEF Init, JobType
  <2> QED BY <2>1, <2>2, <2>3, <2>4, <2>5 DEF TypeInv
<1>5. TodoInv BY <1>3 DEF Init, TodoInv, WithoutSlot, Owned
<1>6. OwnerInv BY <1>3 DEF Init, OwnerInv, Owned
<1>7. TurnInv BY <1>3 DEF Init, TurnInv
<1>8. WorkerInv BY <1>3 DEF Init, WorkerInv
<1>9. PhaseInv
  <2>1. \A i \in 0..1 : None # Implementer(i)
    <3>1. \A i \in 0..1 : Implementer(i) \in {Implementer(0), Implementer(1)} OBVIOUS
    <3> QED BY <3>1, SlotFacts
  <2> QED BY <1>3, <2>1 DEF Init, PhaseInv
<1>10. AttestedProgress /\ CohortDecides BY DEF Init, AttestedProgress, CohortDecides
<1>11. LateInv /\ AffordInv BY <1>3 DEF Init, LateInv, AffordInv, Dispatches, Owned, Running
<1>12. StartInv BY <1>3 DEF Init, StartInv
<1> QED BY <1>4, <1>5, <1>6, <1>7, <1>8, <1>9, <1>10, <1>11, <1>12 DEF RunnerInv

LEMMA RunnerStays ==
  ASSUME RunnerInv, UNCHANGED vars
  PROVE  RunnerInv'
<1> USE DEF RunnerInv, vars, storeVars, nodeVars, hostVars, past
<1>1. /\ Slots' = Slots /\ Readers' = Readers /\ Reviewers' = Reviewers /\ Rank' = Rank
      /\ MaxFaults' = MaxFaults /\ Outcomes' = Outcomes /\ Job' = Job
      /\ \A s : OutcomesOf(s)' = OutcomesOf(s)
  BY Frame
<1>2. TypeInv'
  BY <1>1 DEF TypeInv, SetupType, NodeType, LeaseType, HostType, TurnType, JobType
<1>3. TodoInv' /\ OwnerInv' BY <1>1 DEF TodoInv, OwnerInv, Slot, Validators
<1>4. TurnInv' /\ WorkerInv'
  <2>1. TurnInv' BY <1>1 DEF TurnInv, Slot
  <2>2. \A r \in Runners : OutcomesOf(Slot(r))' = OutcomesOf(Slot(r))
    BY <1>1 DEF OutcomesOf, Slot
  <2>3. WorkerInv' BY <1>1, <2>2 DEF WorkerInv, Slot
  <2> QED BY <2>1, <2>3
<1>5. PhaseInv' BY DEF PhaseInv, Due, Slot, Stale, Running
<1>6. AttestedProgress' /\ CohortDecides' BY <1>1 DEF AttestedProgress, CohortDecides
<1>7. LateInv' /\ StartInv'
  <2>1. ClosureReviewers' = ClosureReviewers BY Frame
  <2>2. LateInv' BY <2>1 DEF LateInv, Dispatches, Closes, Running
  <2>3. StartInv' BY <1>1 DEF StartInv, StartId, Slot
  <2> QED BY <2>2, <2>3
<1>8. AffordInv'
  <2>1. Bill' = Bill /\ Retries' = Retries /\ Ahead' = Ahead
    BY <1>1 DEF Bill, StartId, Retries, Ahead
  <2> QED BY <2>1 DEF AffordInv
<1> QED BY <1>2, <1>3, <1>4, <1>5, <1>6, <1>7, <1>8

\* The invariant holds in every reachable state.
THEOREM RunnerInvariance == Spec => []RunnerInv
<1>1. RunnerInv /\ [Next]_vars => RunnerInv'
  <2>1. RunnerInv /\ UNCHANGED vars => RunnerInv' BY RunnerStays
  <2>2. ASSUME RunnerInv, Next PROVE RunnerInv'
    <3>1. TypeInv' BY <2>2, TypeNext DEF RunnerInv
    <3>2. TodoInv' BY <2>2, <3>1, TodoNext DEF RunnerInv
    <3>3. OwnerInv' /\ TurnInv' /\ WorkerInv'
      BY <2>2, OwnerNext, TurnNext, WorkerNext DEF RunnerInv
    <3>4. PhaseInv' /\ AttestedProgress' /\ CohortDecides'
      BY <2>2, PhaseNext, AttestedNext, CohortNext DEF RunnerInv
    <3>5. LateInv' /\ StartInv' /\ AffordInv'
      BY <2>2, LateNext, StartNext, AffordNext DEF RunnerInv
    <3> QED BY <3>1, <3>2, <3>3, <3>4, <3>5 DEF RunnerInv
  <2> QED BY <2>1, <2>2
<1> QED BY <1>1, RunnerInit, PTL DEF Spec

\* The store, the hosts and the runners stay well formed, and no more is paid
\* than the autonomous rank, whatever runs at the same time (reserve_budget_attempt).
THEOREM RunnerTypeOK == Spec => []TypeOK
<1>1. RunnerInv => TypeOK
  BY DEF RunnerInv, TypeInv, TypeOK, NodeType, LeaseType, HostType, TurnType, JobType
<1> QED BY <1>1, RunnerInvariance, PTL

\* No turn is started twice for one use of a role, for any number of runners, crashes
\* and dispatches of the same slot (dispatch_worker).
THEOREM OneTurnAlways == Spec => []OneTurn
<1>1. RunnerInv => OneTurn BY DEF RunnerInv, TurnInv, OneTurn
<1> QED BY <1>1, RunnerInvariance, PTL

\* The candidate that is validated, reviewed or published is the last one a writer
\* completed with attested evidence (collect_worker, recover).
THEOREM AttestedProgressAlways == Spec => []AttestedProgress
<1>1. RunnerInv => AttestedProgress BY DEF RunnerInv
<1> QED BY <1>1, RunnerInvariance, PTL

\* The findings are frozen from the receipts of every reviewer of a cohort of any
\* size, and blockers stand exactly when one of them blocks (freeze_review).
THEOREM CohortDecidesAlways == Spec => []CohortDecides
<1>1. RunnerInv => CohortDecides BY DEF RunnerInv
<1> QED BY <1>1, RunnerInvariance, PTL

\* A granted correction can be paid for until its review is collected, for any cohort,
\* rank and number of processes that make the calls, unless a retry is paid for after
\* the grant (correction_budget_requirements).
THEOREM CorrectionAffordableAlways == Spec => []CorrectionAffordable
<1>1. RunnerInv => CorrectionAffordable
  <2> SUFFICES ASSUME RunnerInv, corrections = 1, attempts \cap Retries \subseteq granted,
                      node \in {"IMPLEMENTING", "VALIDATING", "CANDIDATE_FROZEN",
                               "CHECKS_AND_REVIEW"}
      PROVE  /\ node = "CANDIDATE_FROZEN" => rank > 0
             /\ \A r \in Runners :
                  At(r, "pay") \/ (At(r, "reserve") /\ Slot(r) \notin attempts) => rank > 0
    BY DEF CorrectionAffordable
  <2>1. node \in Early /\ SetupType BY DEF Early, RunnerInv, TypeInv
  <2>2. PICK left \in Nat : left = Cardinality(Bill \ attempts) BY <2>1, BillLeft
  <2>3. rank \in Nat /\ Ahead \in {0, 1} /\ rank >= left + Ahead
    BY <2>1, <2>2, SetupFacts DEF RunnerInv, TypeInv, LeaseType, AffordInv, Ahead
  <2>4. ASSUME NEW r \in Runners, At(r, "pay") \/ (At(r, "reserve") /\ Slot(r) \notin attempts)
        PROVE  rank > 0
    <3>1. PICK id : id \in Bill \ attempts BY <2>1, <2>4, BillSlot DEF RunnerInv, At
    <3>2. left > 0 BY <2>1, <2>2, <3>1, BillLeft
    <3> QED BY <2>2, <2>3, <3>2
  <2>5. node = "CANDIDATE_FROZEN" => rank > 0 BY <2>2, <2>3 DEF Ahead
  <2> QED BY <2>4, <2>5
<1> QED BY <1>1, RunnerInvariance, PTL

===============================================================================
