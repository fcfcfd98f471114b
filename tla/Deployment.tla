----------------------------- MODULE Deployment -------------------------------
(***************************************************************************)
(* The three programs of capability-routing/deployment that change the live *)
(* routing files under a lock, a durable journal and a terminal receipt:    *)
(*                                                                         *)
(*   authority  deploy_router_authority.py: the files of one bundle, each   *)
(*              replaced by itself, compensated in reverse after a failure; *)
(*   policy     materialize_routing_policy.py: base policy plus overlay;    *)
(*   bom        promote_worker_runtime_bom.py: the reviewed worker BOM.     *)
(*                                                                         *)
(* A transaction is known by an identifier that the operator chooses, and   *)
(* repeated after a crash. Other hands edit the live files at any time: no  *)
(* lock keeps them away. Bytes are numbers, 0 a missing file; files are     *)
(* 1..setting.files in the order of the manifest.                           *)
(***************************************************************************)
EXTENDS Naturals, Sequences, FiniteSets, SequencesExt

CONSTANTS Procs,        \* processes an operator may run at the same time
          NoProc,       \* nobody holds the lock
          Transactions, \* identifiers of transactions
          Settings,     \* [program, files, initial, requests, parts, budgets]
          Foreign,      \* bytes that another hand writes
          Reviewed,     \* the base policy that was reviewed
          Rebased,      \* the base policy after somebody has updated it
          Overlay       \* the operations of the reviewed overlay

VARIABLES setting,      \* the instance under study, never changed
          live,         \* [file -> bytes]
          owner,        \* ghost: the transaction that wrote a file last, 0 for others
          world,        \* the reviewed facts that no longer hold
          lock,         \* the exclusive lock; the system frees it with the process
          journal,      \* [transaction -> journal.json]
          receipt,      \* [transaction -> receipt.json]
          debris,       \* workspaces with files and no journal
          proc,         \* what each process has in memory
          left          \* budget of edits, drifts, faults and crashes

vars == <<setting, live, owner, world, lock, journal, receipt, debris, proc, left>>

Outcomes == {"deployed", "rolled_back", "recovered", "precondition_failed",
             "rollback_failed"}
RolledBack == {"rolled_back", "recovered", "precondition_failed"}
Program == setting.program
File == 1 .. setting.files

Untouched == [f \in File |-> [prior |-> 0, backup |-> 0, started |-> FALSE, promoted |-> FALSE]]
\* The targets count once they are known; until then they are being captured.
NoRequest == [tx |-> 0, bundle |-> <<>>, expected |-> 0]
Blank == [phase |-> "none", request |-> NoRequest, known |-> FALSE, targets |-> Untouched]
NoReceipt == [outcome |-> "none", journal |-> Blank]
Idle(answer) == [pc |-> "idle", request |-> NoRequest, mem |-> Blank, at |-> 0,
                 why |-> "none", failed |-> FALSE, seen |-> {}, moved |-> {},
                 answer |-> answer]

Tx(p) == proc[p].request.tx
New(p, f) == proc[p].request.bundle[f]
Mem(p) == proc[p].mem

-----------------------------------------------------------------------------
(***************************************************************************)
(* The overlay. A policy is a record of members and a sequence of groups,   *)
(* each with an identifier and a sequence of values. A result without ok is *)
(* an OverlayError.                                                         *)
(***************************************************************************)
Refused == [ok |-> FALSE]
Policy(members, groups) == [ok |-> TRUE, members |-> members, groups |-> groups]

\* The single position of an anchor, or 0.
UniqueAnchorIndex(values, anchor) ==
    LET found == {i \in DOMAIN values : values[i] = anchor}
    IN  IF Cardinality(found) = 1 THEN CHOOSE i \in found : TRUE ELSE 0

\* Where an insertion goes: before or after an anchor, or to the end; 0 if refused.
Position(values, op) ==
    LET i == UniqueAnchorIndex(values, op.anchor)
    IN  CASE op.side = "end" -> Len(values) + 1
          [] op.side = "before" -> i
          [] op.side = "after" -> IF i = 0 THEN 0 ELSE i + 1

SetExisting(policy, op) ==
    IF op.path \in DOMAIN policy.members /\ policy.members[op.path] # op.value
    THEN Policy([policy.members EXCEPT ![op.path] = op.value], policy.groups)
    ELSE Refused

ApplyInsertUnique(policy, op) ==
    LET found == {i \in DOMAIN policy.groups : policy.groups[i].id = op.select}
    IN  IF Cardinality(found) # 1 THEN Refused
        ELSE LET i == CHOOSE j \in found : TRUE
                 values == policy.groups[i].values
                 pos == Position(values, op)
             IN  IF Contains(values, op.value) \/ pos = 0 THEN Refused
                 ELSE Policy(policy.members,
                             [policy.groups EXCEPT ![i].values =
                                  InsertAt(values, pos, op.value)])

ApplyInsertObjectUnique(policy, op) ==
    LET keys == [i \in DOMAIN policy.groups |-> policy.groups[i].id]
        pos == Position(keys, op)
    IN  IF ~IsInjective(keys) \/ Contains(keys, op.value.id) \/ pos = 0 THEN Refused
        ELSE Policy(policy.members, InsertAt(policy.groups, pos, op.value))

\* What tells two edits apart; an overlay may not repeat one.
Signature(op) ==
    CASE op.op = "set" -> <<op.op, op.path, 0, 0>>
      [] op.op = "insert_unique" -> <<op.op, op.path, op.select, op.value>>
      [] op.op = "insert_object_unique" -> <<op.op, op.path, op.value.id, 0>>

ValidateOverlay(ops) ==
    ops # <<>> /\ IsInjective([i \in DOMAIN ops |-> Signature(ops[i])])

ApplyOperation(policy, op) ==
    IF ~policy.ok THEN Refused
    ELSE CASE op.op = "set" -> SetExisting(policy, op)
           [] op.op = "insert_unique" -> ApplyInsertUnique(policy, op)
           [] op.op = "insert_object_unique" -> ApplyInsertObjectUnique(policy, op)

Materialized(base, ops) ==
    IF ValidateOverlay(ops) THEN FoldLeft(ApplyOperation, base, ops) ELSE Refused

ReviewedPolicy == Materialized(Reviewed, Overlay)
RebasedPolicy == Materialized(Rebased, Overlay)

\* What each program measures or is told of the world.
Facts(program) == CASE program = "authority" -> {"authority"}
                    [] program = "policy" -> {"base", "validator"}
                    [] program = "bom" -> {"gateway", "config", "identity", "closure"}

\* The policy and the BOM are one file each. An update of the base that changes
\* nothing of the materialized policy is no drift.
ASSUME DeploymentAssumption ==
    /\ NoProc \notin Procs /\ 0 \notin Transactions /\ Foreign \in Nat
    /\ ReviewedPolicy # RebasedPolicy
    /\ \A s \in Settings :
          /\ s.program \in {"authority", "policy", "bom"} /\ s.parts \subseteq Facts(s.program)
          /\ s.files \in Nat \ {0} /\ (s.program # "authority" => s.files = 1)
          /\ s.initial \in [1 .. s.files -> Nat]
          /\ s.requests \subseteq
               [tx: Transactions, bundle: [1 .. s.files -> Nat], expected: Nat]
          /\ \A b \in DOMAIN s.budgets : s.budgets[b] \in Nat

-----------------------------------------------------------------------------
(***************************************************************************)
(* What each program asks of the world before it does anything.             *)
(***************************************************************************)
\* The shared files that the bundle does not carry hold the reviewed bytes.
VerifyLivePreconditions == "authority" \notin world

\* The materialization is the one the operator named, validator included.
MaterializePolicy ==
    /\ LET now == IF "base" \in world THEN RebasedPolicy ELSE ReviewedPolicy
       IN  now.ok /\ now = ReviewedPolicy
    /\ "validator" \notin world

Measured(parts) == [part \in parts |-> part \in world]
WorkerServerProjection == Measured({"config"})
\* One worker: its stanza, its identity file, the closure found on disk.
RuntimeBinding == <<WorkerServerProjection, Measured({"identity"}), Measured({"closure"})>>
GatewayRuntimeBinding == Measured({"gateway"})

\* What render_bom wrote into the candidate when it was reviewed.
RenderedBom ==
    [gateway |-> [part \in {"gateway"} |-> FALSE],
     runtimes |-> <<[part \in {"config"} |-> FALSE], [part \in {"identity"} |-> FALSE],
                    [part \in {"closure"} |-> FALSE]>>]

ValidateCandidate ==
    GatewayRuntimeBinding = RenderedBom.gateway /\ RuntimeBinding = RenderedBom.runtimes

Ready == CASE Program = "authority" -> VerifyLivePreconditions
           [] Program = "policy" -> MaterializePolicy
           [] Program = "bom" -> ValidateCandidate

-----------------------------------------------------------------------------
(***************************************************************************)
(* Steps shared by the programs.                                            *)
(***************************************************************************)
Becomes(p, r) == proc' = [proc EXCEPT ![p] = r]
Ends(p, answer) == lock' = NoProc /\ Becomes(p, Idle(answer))
Files == <<live, owner>>
Disk == <<live, owner, journal, receipt, debris>>
Outside == <<setting, world, left>>

\* SaveJournal(p, j, r): j replaces the journal in one rename, p goes on as r.
SaveJournal(p, j, r) ==
    /\ journal' = [journal EXCEPT ![Tx(p)] = j]
    /\ Becomes(p, [r EXCEPT !.mem = j])
    /\ UNCHANGED <<Files, receipt, debris, lock, Outside>>

At(p, phase) == [Mem(p) EXCEPT !.phase = phase]
Goes(p, pc) == [proc[p] EXCEPT !.pc = pc]
Raises(p, why) == Becomes(p, [proc[p] EXCEPT !.pc = "except", !.why = why])
                  /\ UNCHANGED <<Disk, lock, Outside>>

\* An operator starts a program: it checks the world before it has the lock.
Start(p, r) ==
    /\ proc[p].pc = "idle"
    /\ IF Ready
       THEN Becomes(p, [Idle("none") EXCEPT !.pc = "wait", !.request = r])
       ELSE Becomes(p, Idle("error"))
    /\ UNCHANGED <<Disk, lock, Outside>>

\* The lock is taken, or its deadline passes.
ExclusiveLock(p) ==
    /\ proc[p].pc = "wait"
    /\ IF lock = NoProc THEN lock' = p /\ Becomes(p, Goes(p, "open"))
                        ELSE Becomes(p, Idle("error")) /\ UNCHANGED lock
    /\ UNCHANGED <<Disk, Outside>>

Bound(p, j) == j.request = proc[p].request
Fresh(p) == [Blank EXCEPT !.request = proc[p].request]
Matches(p, f) == live[f] = Mem(p).targets[f].prior

\* The receipt names its journal by digest.
VerifyReceiptDigest(t) == receipt[t].journal = journal[t]

-----------------------------------------------------------------------------
(***************************************************************************)
(* The receipt of an earlier run is the answer while the files still say so.*)
(***************************************************************************)
\* mutant: a stored "deployed" is repeated without a look at the files
VerifyReplayState_Stored(t) ==
    LET r == receipt[t]
    IN  CASE r.outcome \in {"rolled_back", "recovered"} ->
                r.journal.known => \A f \in File : live[f] = r.journal.targets[f].prior
          [] OTHER -> TRUE

VerifyReplayState(t) ==
    LET r == receipt[t]
    IN  CASE r.outcome = "deployed" -> \A f \in File : live[f] = r.journal.request.bundle[f]
          [] r.outcome \in {"rolled_back", "recovered"} ->
                r.journal.known => \A f \in File : live[f] = r.journal.targets[f].prior
          [] OTHER -> TRUE

PolicyReplayState(t) ==
    LET r == receipt[t]
    IN  CASE r.outcome = "deployed" -> live[1] = r.journal.request.bundle[1]
          [] r.outcome \in {"rolled_back", "recovered"} ->
                live[1] = r.journal.targets[1].prior
          [] OTHER -> TRUE

BomReplayState(t) ==
    receipt[t].outcome = "deployed" /\ live[1] = receipt[t].journal.request.bundle[1]

Replay(p, holds) ==
    /\ proc[p].pc = "open" /\ lock = p
    /\ receipt[Tx(p)].outcome # "none"
    /\ Ends(p, IF Bound(p, receipt[Tx(p)].journal) /\ VerifyReceiptDigest(Tx(p)) /\ holds
               THEN receipt[Tx(p)].outcome ELSE "error")
    /\ UNCHANGED <<Disk, Outside>>

AuthorityReplay(p) == Program = "authority" /\ Replay(p, VerifyReplayState(Tx(p)))
PolicyReplay(p) == Program = "policy" /\ Replay(p, PolicyReplayState(Tx(p)))
\* The inputs are measured once more under the lock.
BomReplay(p) == Program = "bom" /\ Replay(p, ValidateCandidate /\ BomReplayState(Tx(p)))

-----------------------------------------------------------------------------
(***************************************************************************)
(* A journal without a receipt is an interrupted run: it is rolled back.    *)
(***************************************************************************)
Interrupted(p) ==
    /\ proc[p].pc = "open" /\ lock = p
    /\ receipt[Tx(p)].outcome = "none" /\ journal[Tx(p)].phase # "none"

Rebinding(p) ==
    /\ Interrupted(p)
    /\ ~Bound(p, journal[Tx(p)])
    /\ Ends(p, "error")
    /\ UNCHANGED <<Disk, Outside>>

RollsBack(p, j, why) ==
    [proc[p] EXCEPT !.pc = "inspect", !.at = IF j.known THEN setting.files ELSE 0,
                    !.why = why, !.mem = j]

AuthorityRecovery(p) ==
    /\ Program = "authority" /\ Interrupted(p) /\ Bound(p, journal[Tx(p)])
    /\ Becomes(p, RollsBack(p, journal[Tx(p)], "recovery"))
    /\ UNCHANGED <<Disk, lock, Outside>>

BeforePromotion == {"LOCK_ACQUIRED", "STAGE_VERIFIED", "PROMOTION_PREPARED"}

PolicyRecovery(p) ==
    /\ Program = "policy" /\ Interrupted(p) /\ Bound(p, journal[Tx(p)])
    /\ LET j == journal[Tx(p)]
       IN  IF j.phase \in BeforePromotion /\ live[1] # j.targets[1].prior
           THEN SaveJournal(p, [j EXCEPT !.phase = "PRECONDITION_FAILED"],
                            [Goes(p, "settle") EXCEPT !.why = "precondition"])
           ELSE /\ Becomes(p, RollsBack(p, j, "recovery"))
                /\ UNCHANGED <<Disk, lock, Outside>>

BomRecovery(p) ==
    /\ Program = "bom" /\ Interrupted(p) /\ Bound(p, journal[Tx(p)])
    /\ IF ValidateCandidate
       THEN Becomes(p, RollsBack(p, journal[Tx(p)], "recovery")) /\ UNCHANGED lock
       ELSE Ends(p, "error")
    /\ UNCHANGED <<Disk, Outside>>

-----------------------------------------------------------------------------
(***************************************************************************)
(* A new transaction. Files without a journal are a workspace nobody can    *)
(* use again.                                                               *)
(***************************************************************************)
Untaken(p) ==
    /\ proc[p].pc = "open" /\ lock = p
    /\ receipt[Tx(p)].outcome = "none" /\ journal[Tx(p)].phase = "none"

Unusable(p) ==
    /\ Untaken(p) /\ Tx(p) \in debris
    /\ Ends(p, "error")
    /\ UNCHANGED <<Disk, Outside>>

NewJournal(p) ==
    /\ Program = "authority" /\ Untaken(p) /\ Tx(p) \notin debris
    /\ SaveJournal(p, [Fresh(p) EXCEPT !.phase = "LOCK_ACQUIRED"], Goes(p, "capture"))

\* The operator names the bytes it expects to replace.
Expects(p) == [Fresh(p) EXCEPT !.known = TRUE,
                               !.targets[1].prior = proc[p].request.expected,
                               !.targets[1].backup = proc[p].request.expected]

PolicyBegin(p) ==
    /\ Program = "policy" /\ Untaken(p) /\ Tx(p) \notin debris
    /\ SaveJournal(p, [Expects(p) EXCEPT !.phase = "LOCK_ACQUIRED"],
                   IF live[1] = proc[p].request.expected
                   THEN Goes(p, "stage")
                   ELSE [Goes(p, "refuse") EXCEPT !.why = "precondition"])

\* The compare of the compare-and-swap failed: journal first, then the receipt.
PolicyPreconditionFailed(p) ==
    /\ proc[p].pc = "refuse"
    /\ SaveJournal(p, At(p, "PRECONDITION_FAILED"), Goes(p, "settle"))

\* Backup and stage are written before there is a journal.
BomBegin(p) ==
    /\ Program = "bom" /\ Untaken(p) /\ Tx(p) \notin debris
    /\ IF ValidateCandidate /\ live[1] = proc[p].request.expected
       THEN /\ debris' = debris \cup {Tx(p)}
            /\ Becomes(p, Goes(p, "backup"))
            /\ UNCHANGED lock
       ELSE Ends(p, "error") /\ UNCHANGED debris
    /\ UNCHANGED <<Files, journal, receipt, Outside>>

\* What is there by now is the backup, whatever was expected.
BomBackup(p) ==
    /\ Program = "bom" /\ proc[p].pc = "backup"
    /\ IF proc[p].request.expected # 0 /\ live[1] = 0
       THEN Ends(p, "error")
       ELSE /\ Becomes(p, [Goes(p, "prepare") EXCEPT !.mem.targets[1].backup = live[1]])
            /\ UNCHANGED lock
    /\ UNCHANGED <<Disk, Outside>>

BomPrepared(p) ==
    /\ Program = "bom" /\ proc[p].pc = "prepare"
    /\ journal' = [journal EXCEPT ![Tx(p)] =
                      [Expects(p) EXCEPT !.phase = "PREPARED",
                                         !.targets[1].backup = Mem(p).targets[1].backup]]
    /\ debris' = debris \ {Tx(p)}
    /\ Becomes(p, [proc[p] EXCEPT !.pc = "replace", !.at = 1, !.mem = journal'[Tx(p)]])
    /\ UNCHANGED <<Files, receipt, lock, Outside>>

-----------------------------------------------------------------------------
(***************************************************************************)
(* The authority bundle: capture, stage, prepare, promote file by file.     *)
(***************************************************************************)
PathState(p) ==
    /\ Program = "authority" /\ proc[p].pc = "capture"
    /\ Becomes(p, [Goes(p, "backup") EXCEPT
                     !.mem.targets = [f \in File |-> [Untouched[f] EXCEPT !.prior = live[f],
                                                                        !.backup = live[f]]]])
    /\ UNCHANGED <<Disk, lock, Outside>>

\* A file that was there is read once more for its backup.
TargetRecords(p) ==
    /\ Program = "authority" /\ proc[p].pc = "backup"
    /\ IF \A f \in File : Mem(p).targets[f].prior # 0 => Matches(p, f)
       THEN SaveJournal(p, [At(p, "PREFLIGHT_VERIFIED") EXCEPT !.known = TRUE],
                        Goes(p, "stage"))
       ELSE Raises(p, "precondition")

StageSources(p) ==
    /\ Program = "authority" /\ proc[p].pc = "stage"
    /\ SaveJournal(p, At(p, "STAGE_VERIFIED"), Goes(p, "prepare"))

VerifyPreconditions(p) ==
    /\ Program = "authority" /\ proc[p].pc = "prepare"
    /\ IF (\A f \in File : Matches(p, f)) /\ VerifyLivePreconditions
       THEN SaveJournal(p, At(p, "PROMOTION_PREPARED"),
                        [Goes(p, "mark") EXCEPT !.at = 1])
       ELSE Raises(p, "precondition")

\* mutant: the intent to promote is kept in memory until the promotion is confirmed
PromoteMark_Unsaved(p) ==
    LET f == proc[p].at
    IN  /\ Program = "authority" /\ proc[p].pc = "mark"
        /\ IF Matches(p, f)
           THEN /\ Becomes(p, [Goes(p, "boundary") EXCEPT !.mem.targets[f].started = TRUE])
                /\ UNCHANGED <<Disk, lock, Outside>>
           ELSE Raises(p, "precondition")

\* The intent is durable before the file is touched.
PromoteMark(p) ==
    LET f == proc[p].at
    IN  /\ Program = "authority" /\ proc[p].pc = "mark"
        /\ IF Matches(p, f)
           THEN SaveJournal(p, [At(p, "PROMOTING") EXCEPT !.targets[f].started = TRUE],
                            Goes(p, "boundary"))
           ELSE Raises(p, "precondition")

PromoteBoundary(p) ==
    /\ proc[p].pc = "boundary"
    /\ IF Matches(p, proc[p].at)
       THEN Becomes(p, Goes(p, "replace")) /\ UNCHANGED <<Disk, lock, Outside>>
       ELSE Raises(p, "precondition")

\* os.replace asks no question: what another hand wrote since the check is gone.
Replace(p) ==
    LET f == proc[p].at
    IN  /\ proc[p].pc = "replace"
        /\ live' = [live EXCEPT ![f] = New(p, f)]
        /\ owner' = [owner EXCEPT ![f] = Tx(p)]
        /\ Becomes(p, [proc[p] EXCEPT !.pc = "confirm", !.mem.targets[f].started = TRUE])
        /\ UNCHANGED <<journal, receipt, debris, lock, Outside>>

PromoteConfirm(p) ==
    LET f == proc[p].at
        j == [At(p, "PROMOTING") EXCEPT !.targets[f].promoted = TRUE]
    IN  /\ Program = "authority" /\ proc[p].pc = "confirm"
        /\ IF live[f] = New(p, f)
           THEN SaveJournal(p, j, IF f < setting.files
                                  THEN [Goes(p, "mark") EXCEPT !.at = f + 1]
                                  ELSE Goes(p, "verify"))
           ELSE Raises(p, "other")

AuthorityVerify(p) ==
    /\ Program = "authority" /\ proc[p].pc = "verify"
    /\ IF \A f \in File : live[f] = New(p, f)
       THEN IF VerifyLivePreconditions
            THEN SaveJournal(p, At(p, "LIVE_TARGETS_VERIFIED"),
                             [Goes(p, "complete") EXCEPT !.seen = {}, !.moved = {}])
            ELSE Raises(p, "precondition")
       ELSE Raises(p, "other")

-----------------------------------------------------------------------------
(***************************************************************************)
(* The policy and the BOM: one file each.                                   *)
(***************************************************************************)
\* The backup, if there is something to back up, must be what was expected.
PolicyStage(p) ==
    /\ Program = "policy" /\ proc[p].pc = "stage"
    /\ IF Mem(p).targets[1].prior # 0 => Matches(p, 1)
       THEN SaveJournal(p, At(p, "STAGE_VERIFIED"), Goes(p, "prepare"))
       ELSE Raises(p, "precondition")

PolicyPrepare(p) ==
    /\ Program = "policy" /\ proc[p].pc = "prepare"
    /\ SaveJournal(p, At(p, "PROMOTION_PREPARED"), [Goes(p, "mark") EXCEPT !.at = 1])

PolicyMark(p) ==
    /\ Program = "policy" /\ proc[p].pc = "mark"
    /\ IF Matches(p, 1) THEN SaveJournal(p, At(p, "PROMOTING"), Goes(p, "replace"))
                        ELSE Raises(p, "precondition")

PolicyConfirm(p) ==
    /\ Program = "policy" /\ proc[p].pc = "confirm"
    /\ IF live[1] = New(p, 1)
       THEN SaveJournal(p, At(p, "PROMOTED"), [Goes(p, "verify") EXCEPT !.seen = @ \ {1}])
       ELSE Raises(p, "other")

\* The policy in memory and the validator's file are looked at, the target is not.
PolicyVerify(p) ==
    /\ Program = "policy" /\ proc[p].pc = "verify"
    /\ IF "validator" \notin world
       THEN SaveJournal(p, At(p, "LIVE_TARGET_VERIFIED"),
                        [Goes(p, "complete") EXCEPT !.moved = @ \ {"validator"}])
       ELSE Raises(p, "other")

BomConfirm(p) ==
    /\ Program = "bom" /\ proc[p].pc = "confirm"
    /\ SaveJournal(p, At(p, "PROMOTED"), Goes(p, "verify"))

\* The live file is read, then it is the candidate of one more validation.
BomVerify(p) ==
    /\ Program = "bom" /\ proc[p].pc = "verify"
    /\ IF live[1] = New(p, 1) /\ ValidateCandidate
       THEN SaveJournal(p, At(p, "COMPLETED"), [Goes(p, "receipt") EXCEPT !.seen = {}, !.moved = {}])
       ELSE Raises(p, "other")

\* The journal says COMPLETED before there is a receipt.
Complete(p) ==
    /\ proc[p].pc = "complete"
    /\ SaveJournal(p, At(p, "COMPLETED"), Goes(p, "receipt"))

-----------------------------------------------------------------------------
(***************************************************************************)
(* What an exception inside the transaction does.                           *)
(***************************************************************************)
AuthorityExcept(p) ==
    /\ Program = "authority" /\ proc[p].pc = "except"
    /\ IF proc[p].why = "bundle"
       THEN /\ journal' = [journal EXCEPT ![Tx(p)] = At(p, "FAILED_BEFORE_BUNDLE")]
            /\ Ends(p, "error")
            /\ UNCHANGED <<Files, receipt, debris, Outside>>
       ELSE /\ Becomes(p, RollsBack(p, Mem(p), proc[p].why))
            /\ UNCHANGED <<Disk, lock, Outside>>

PolicyExcept(p) ==
    /\ Program = "policy" /\ proc[p].pc = "except"
    /\ IF proc[p].why = "precondition" /\ Mem(p).phase \in BeforePromotion /\ ~Matches(p, 1)
       THEN SaveJournal(p, At(p, "PRECONDITION_FAILED"), Goes(p, "settle"))
       ELSE /\ Becomes(p, RollsBack(p, Mem(p), proc[p].why))
            /\ UNCHANGED <<Disk, lock, Outside>>

\* Only a promoted target is rolled back; the mark in memory says so.
BomExcept(p) ==
    /\ Program = "bom" /\ proc[p].pc = "except"
    /\ Becomes(p, IF Mem(p).targets[1].started
                  THEN RollsBack(p, Mem(p), "other")
                  ELSE [Goes(p, "inspect") EXCEPT !.at = 0])
    /\ UNCHANGED <<Disk, lock, Outside>>

-----------------------------------------------------------------------------
(***************************************************************************)
(* Compensation, last file first. A file that holds neither the baseline    *)
(* nor this transaction's bytes is not overwritten, nor one without an exact *)
(* backup; one that was never marked belongs to somebody else.              *)
(***************************************************************************)
Cleared(p, f) ==
    [proc[p] EXCEPT !.pc = "inspect", !.at = f - 1, !.mem.targets[f].started = FALSE,
                    !.mem.targets[f].promoted = FALSE]
Skipped(p, f, failed) ==
    [proc[p] EXCEPT !.pc = "inspect", !.at = f - 1, !.failed = @ \/ failed]

NeverOwned(p, f) ==
    Program = "authority" /\ ~Mem(p).targets[f].started /\ ~Mem(p).targets[f].promoted

\* There is nothing to bring back, or an exact backup of it.
Backed(p, f) == Mem(p).targets[f].prior \in {0, Mem(p).targets[f].backup}

RollbackInspect(p) ==
    LET f == proc[p].at
    IN  /\ proc[p].pc = "inspect" /\ f > 0
        /\ Becomes(p, CASE Matches(p, f) -> Cleared(p, f)
                        [] ~Matches(p, f) /\ NeverOwned(p, f) -> Skipped(p, f, FALSE)
                        [] ~Matches(p, f) /\ ~NeverOwned(p, f) ->
                             IF live[f] = New(p, f) /\ Backed(p, f)
                             THEN Goes(p, "restore")
                             ELSE Skipped(p, f, TRUE))
        /\ UNCHANGED <<Disk, lock, Outside>>

RollbackRestore(p) ==
    LET f == proc[p].at
    IN  /\ proc[p].pc = "restore"
        /\ live' = [live EXCEPT ![f] = Mem(p).targets[f].prior]
        /\ owner' = [owner EXCEPT ![f] = Tx(p)]
        /\ Becomes(p, Goes(p, "restored"))
        /\ UNCHANGED <<journal, receipt, debris, lock, Outside>>

RollbackConfirm(p) ==
    LET f == proc[p].at
    IN  /\ proc[p].pc = "restored"
        /\ Becomes(p, IF Matches(p, f) THEN Cleared(p, f) ELSE Skipped(p, f, TRUE))
        /\ UNCHANGED <<Disk, lock, Outside>>

Finished(p) == proc[p].pc = "inspect" /\ proc[p].at = 0

RollbackConclude(p) ==
    /\ Program \in {"authority", "policy"} /\ Finished(p)
    /\ SaveJournal(p, At(p, IF proc[p].failed THEN "ROLLBACK_FAILED" ELSE "ROLLED_BACK"),
                   Goes(p, "settle"))

\* A failed rollback of the BOM leaves the journal as it was and no receipt.
BomConclude(p) ==
    /\ Program = "bom" /\ Finished(p)
    /\ IF proc[p].failed
       THEN Ends(p, "error") /\ UNCHANGED <<Disk, Outside>>
       ELSE SaveJournal(p, At(p, "ROLLED_BACK"), Goes(p, "settle"))

-----------------------------------------------------------------------------
(***************************************************************************)
(* The terminal receipt, written once.                                      *)
(***************************************************************************)
Outcome(p) ==
    CASE Mem(p).phase = "COMPLETED" -> "deployed"
      [] Mem(p).phase = "PRECONDITION_FAILED" -> "precondition_failed"
      [] Mem(p).phase = "ROLLBACK_FAILED" -> "rollback_failed"
      [] OTHER -> IF proc[p].why = "recovery" /\ Program # "bom" THEN "recovered"
                  ELSE IF proc[p].why = "precondition" /\ Program = "authority"
                  THEN "precondition_failed" ELSE "rolled_back"

\* A failed rollback, and every BOM that did not complete, ends as an exception.
Reported(outcome) ==
    IF outcome = "rollback_failed" \/ (Program = "bom" /\ outcome # "deployed")
    THEN "error" ELSE outcome

TerminalReceipt(p) == [outcome |-> Outcome(p), journal |-> Mem(p)]

\* Another receipt in place is an immutable artifact that changed: an exception.
WriteOnce(p) ==
    /\ proc[p].pc \in {"receipt", "settle"}
    /\ \/ /\ receipt[Tx(p)].outcome = "none"
          /\ receipt' = [receipt EXCEPT ![Tx(p)] = TerminalReceipt(p)]
          /\ Ends(p, Reported(Outcome(p)))
       \/ /\ receipt[Tx(p)].outcome # "none"
          /\ Ends(p, "error")
          /\ UNCHANGED receipt
    /\ UNCHANGED <<Files, journal, debris, Outside>>

-----------------------------------------------------------------------------
(***************************************************************************)
(* What goes wrong.                                                         *)
(***************************************************************************)
Spend(what) == left[what] > 0 /\ left' = [left EXCEPT ![what] = @ - 1]
InTransaction == {"capture", "backup", "stage", "prepare", "mark", "boundary", "replace", "confirm",
                  "verify", "complete", "receipt"}

\* The BOM has no journal yet, nor a handler.
Unjournaled(p) == Program = "bom" /\ proc[p].pc \in {"backup", "prepare"}

\* An operation on a file raises: before the bundle's manifest is written, later
\* in the transaction, in the rollback, or where no handler is.
Fault(p) ==
    /\ Spend("faults")
    /\ \/ /\ proc[p].pc \in InTransaction /\ ~Unjournaled(p)
          /\ \E why \in IF proc[p].pc = "capture" THEN {"bundle", "other"} ELSE {"other"} :
                Becomes(p, [Goes(p, "except") EXCEPT !.why = why])
          /\ UNCHANGED lock
       \/ /\ proc[p].pc \in {"inspect", "restore", "restored"} /\ proc[p].at > 0
          /\ Becomes(p, [Goes(p, "inspect") EXCEPT !.at = 0, !.failed = TRUE])
          /\ UNCHANGED lock
       \/ /\ Unjournaled(p)
          /\ Ends(p, "error")
    /\ UNCHANGED <<Disk, setting, world>>

\* The receipt is in place and the removal of its temporary name fails.
FaultAfterReceipt(p) ==
    /\ Spend("faults")
    /\ proc[p].pc = "receipt" /\ receipt[Tx(p)].outcome = "none"
    /\ receipt' = [receipt EXCEPT ![Tx(p)] = TerminalReceipt(p)]
    /\ Becomes(p, [Goes(p, "except") EXCEPT !.why = "other"])
    /\ UNCHANGED <<Files, journal, debris, lock, setting, world>>

\* A dying process frees its lock; a first save may leave files and no journal.
Crash(p) ==
    /\ Spend("crashes")
    /\ proc[p].pc # "idle"
    /\ debris' \in IF Untaken(p) THEN {debris, debris \cup {Tx(p)}} ELSE {debris}
    /\ lock' = IF lock = p THEN NoProc ELSE lock
    /\ Becomes(p, Idle("none"))
    /\ UNCHANGED <<Files, journal, receipt, setting, world>>

\* Another hand replaces or removes a live file.
Edit(f, bytes) ==
    /\ Spend("edits")
    /\ f \in File /\ live[f] # bytes
    /\ live' = [live EXCEPT ![f] = bytes]
    /\ owner' = [owner EXCEPT ![f] = 0]
    /\ proc' = [p \in Procs |-> IF proc[p].pc = "idle" THEN proc[p]
                              ELSE [proc[p] EXCEPT !.seen = @ \cup {f}]]
    /\ UNCHANGED <<journal, receipt, debris, lock, setting, world>>

\* A reviewed fact stops to hold, or holds again.
Drift(part) ==
    /\ Spend("drifts")
    /\ part \in setting.parts
    /\ world' = IF part \in world THEN world \ {part} ELSE world \cup {part}
    /\ proc' = [p \in Procs |-> IF proc[p].pc = "idle" THEN proc[p]
                              ELSE [proc[p] EXCEPT !.moved = @ \cup {part}]]
    /\ UNCHANGED <<Disk, lock, setting>>

-----------------------------------------------------------------------------
Init ==
    /\ setting \in Settings
    /\ live = setting.initial
    /\ owner = [f \in File |-> 0]
    /\ world = {}
    /\ lock = NoProc
    /\ journal = [t \in Transactions |-> Blank]
    /\ receipt = [t \in Transactions |-> NoReceipt]
    /\ debris = {}
    /\ proc = [p \in Procs |-> Idle("none")]
    /\ left = setting.budgets

Opening(p) ==
    \/ AuthorityReplay(p) \/ PolicyReplay(p) \/ BomReplay(p) \/ Rebinding(p)
    \/ AuthorityRecovery(p) \/ PolicyRecovery(p) \/ BomRecovery(p)
    \/ Unusable(p) \/ NewJournal(p) \/ PolicyBegin(p) \/ BomBegin(p)

Authority(p) ==
    \/ PathState(p) \/ TargetRecords(p) \/ StageSources(p) \/ VerifyPreconditions(p) \/ PromoteMark(p)
    \/ PromoteBoundary(p) \/ PromoteConfirm(p) \/ AuthorityVerify(p) \/ AuthorityExcept(p)

OneFile(p) ==
    \/ PolicyPreconditionFailed(p) \/ PolicyStage(p) \/ PolicyPrepare(p) \/ PolicyMark(p)
    \/ PolicyConfirm(p) \/ PolicyVerify(p) \/ PolicyExcept(p)
    \/ BomBackup(p) \/ BomPrepared(p) \/ BomConfirm(p) \/ BomVerify(p) \/ BomExcept(p) \/ BomConclude(p)

Shared(p) ==
    \/ ExclusiveLock(p) \/ Replace(p) \/ Complete(p) \/ WriteOnce(p)
    \/ RollbackInspect(p) \/ RollbackRestore(p) \/ RollbackConfirm(p) \/ RollbackConclude(p)

Next ==
    \/ \E p \in Procs :
          \/ \E r \in setting.requests : Start(p, r)
          \/ Opening(p) \/ Authority(p) \/ OneFile(p) \/ Shared(p)
          \/ Fault(p) \/ FaultAfterReceipt(p) \/ Crash(p)
    \/ \E f \in File, bytes \in {0, Foreign} : Edit(f, bytes)
    \/ \E part \in setting.parts : Drift(part)

Spec == Init /\ [][Next]_vars

-----------------------------------------------------------------------------
\* A transaction whose receipt says that it was undone left none of its bytes
\* behind: a file that it wrote last holds the baseline it recorded, whatever
\* crashed, failed or was edited between the first journal and the receipt.
RollbackExact ==
    \A t \in Transactions : receipt[t].outcome \in RolledBack =>
        \A f \in File : owner[f] = t => live[f] = receipt[t].journal.targets[f].prior

\* Whoever is answered "deployed" finds the whole bundle in place and the reviewed
\* facts in force, but for what others changed after the program's last look; a
\* repeated answer looks at the files in the step that gives it.
Answers(p, answer) ==
    proc[p].pc # "idle" /\ proc'[p].pc = "idle" /\ proc'[p].answer = answer

DeployedWhole ==
    [][\A p \in Procs : Answers(p, "deployed") =>
         /\ \A f \in File : live[f] = New(p, f) \/ (f \in proc[p].seen /\ proc[p].pc # "open")
         /\ world \subseteq proc[p].moved]_vars
=============================================================================
