-------------------------------- MODULE Install --------------------------------
(***************************************************************************)
(* The transactional installer (scripts/install_transaction.py): install,  *)
(* uninstall and recovery, with a crash or an error between any two        *)
(* durable steps, and a user who edits the managed files meanwhile.        *)
(*                                                                         *)
(* Content of a target: Absent, Partial (a copy or a removal of a tree     *)
(* that was interrupted), or a record of what tells two trees or files     *)
(* apart: the user's edition, the bundle whose part it is (0: none) and,   *)
(* for the support tree, the transaction named in its install manifest.    *)
(* Digests compare contents, so equality stands for them.  A user's edit   *)
(* of a tree adds a file to it.                                            *)
(*                                                                         *)
(* Kinds: "skill", "support" and "hook" are trees and belong to one        *)
(* installation; "hooks" (hooks.json) and "policy" (AGENTS.md and          *)
(* default.rules, always managed together) are user files into which the   *)
(* installer merges its part.  The lock is an advisory lock of the         *)
(* operating system: it admits one command and a crash releases it.        *)
(* Journal fields that are written but never read (phase, step, outcome)   *)
(* are left to the place of the command, run.pc.                           *)
(***************************************************************************)
EXTENDS Integers, Sequences, FiniteSets

CONSTANTS
  Order,      \* the targets in the order they are promoted
  Kind,       \* kind of each target
  Bundles,    \* positive integers
  Ships,      \* skills and hooks of each bundle
  MaxTx,      \* bound on the transactions
  MaxEdits,   \* bound on the user's edits
  Nested,     \* SkillsRoot is CodexHome/skills
  InitialLive,   \* the contents before the first command
  Options,       \* policy modes and migration flags of the commands
  LegacySkills,  \* skills a legacy v2 manifest records
  Absent, Partial

Targets == {Order[i] : i \in 1 .. Len(Order)}
Txs == 1 .. MaxTx
Content == [user: 0 .. MaxEdits, bundle: {0} \cup Bundles, tx: 0 .. MaxTx]
Contents == Content \cup {Absent, Partial}
Merged(t) == Kind[t] \in {"hooks", "policy"}
Tree(t) == ~Merged(t)

ASSUME InstallAssumption ==
  /\ Order \in Seq(Targets)
  /\ \A i, j \in 1 .. Len(Order) : Order[i] = Order[j] => i = j
  /\ \E t \in Targets : Kind[t] = "support"
  /\ Kind \in [Targets -> {"skill", "support", "hook", "hooks", "policy"}]
  /\ Bundles \subseteq Nat \ {0}
  /\ Ships \in [Bundles -> SUBSET {t \in Targets : Kind[t] \in {"skill", "hook"}}]
  /\ MaxTx \in Nat /\ MaxEdits \in Nat /\ Nested \in BOOLEAN
  /\ InitialLive \subseteq
       [Targets -> [user: {0}, bundle: {0} \cup Bundles, tx: {0}] \cup {Absent}]
  /\ Options \subseteq [policy: {"install", "preserve", "remove"}, migrate: BOOLEAN]
  /\ LegacySkills \subseteq {t \in Targets : Kind[t] = "skill"}
  /\ {Absent, Partial} \cap Content = {} /\ Absent # Partial

Pointers == [status: {"none", "committed", "uninstalled"}, tx: 0 .. MaxTx]
NoPointer == [status |-> "none", tx |-> 0]
JournalStates == {"NONE", "IN_PROGRESS", "NOOP", "ROLLED_BACK", "COMMITTED",
                  "RECOVERY_FAILED"}
Journals == [status: JournalStates, op: {"install", "uninstall"}, attempted: BOOLEAN,
             planned: SUBSET Targets, prior: [Targets -> Contents],
             new: [Targets -> Content \cup {Absent}], committing: BOOLEAN, finalized: BOOLEAN]
Empty == [t \in Targets |-> Absent]
NoJournal == [status |-> "NONE", op |-> "install", attempted |-> FALSE,
              planned |-> {}, prior |-> Empty, new |-> Empty, committing |-> FALSE,
              finalized |-> FALSE]
\* What an install manifest records: the bundle, its version (2 or 3), whether
\* the policy is managed, whether hooks.json existed before, whether it was
\* migrated from a nested v2 installation, skills and hooks.
NoManifest == [version |-> 0, bundle |-> 0, policy |-> FALSE, hadHooks |-> FALSE,
               migrated |-> FALSE, owns |-> {}]
Idle == [pc |-> "idle", tx |-> 0, at |-> 0, op |-> "install", bundle |-> 0,
         policy |-> "preserve", migrate |-> FALSE, handling |-> FALSE,
         recovering |-> FALSE, seen |-> Absent]

VARIABLES
  live,      \* the targets
  pointer,   \* current.json
  journal,   \* journal of each transaction
  manifest,  \* the install manifest each transaction stages
  stage, rollback, workspace,  \* its workspaces
  retained,  \* its retained backups
  runtime,   \* runtime_installations of the campaign store
  run,       \* the command that holds the lock
  edits      \* the user's latest edition of each target

files == <<stage, rollback, workspace, retained>>
vars == <<live, pointer, journal, manifest, files, runtime, run, edits>>

Init ==
  /\ live \in InitialLive
  /\ pointer = NoPointer
  /\ journal = [x \in Txs |-> NoJournal]
  /\ manifest = [x \in 0 .. MaxTx |->
       IF x > 0 THEN NoManifest
       ELSE [NoManifest EXCEPT !.version = 2, !.owns = LegacySkills]]
  /\ stage = [x \in Txs |-> Empty] /\ rollback = [x \in Txs |-> Empty]
  /\ workspace = [x \in Txs |-> FALSE] /\ retained = [x \in Txs |-> Empty]
  /\ runtime = {} /\ run = Idle /\ edits = [t \in Targets |-> 0]

(***************************************************************************)
(* What a command finds                                                    *)
(***************************************************************************)
SupportTarget == CHOOSE t \in Targets : Kind[t] = "support"
Present(c) == c \notin {Absent, Partial}

\* _load_previous_install: its three results are no installation, a manifest
\* and an error.
PreviousKnown ==
  CASE pointer.status = "uninstalled" -> TRUE
    [] pointer.status = "committed" ->
         Present(live[SupportTarget]) /\ live[SupportTarget].tx = pointer.tx
    [] OTHER -> live[SupportTarget] # Partial
HasPrevious ==
  \/ pointer.status = "committed"
  \/ (pointer.status = "none" /\ Present(live[SupportTarget]))
Previous ==
  IF ~HasPrevious THEN NoManifest
  ELSE IF pointer.status = "committed" THEN manifest[pointer.tx]
  ELSE manifest[live[SupportTarget].tx]

\* _canonical_overlap_marker: a v2 installation in the nested layout must be
\* migrated explicitly, and only it and what it became may be.
OverlapAllowed ==
  IF Nested /\ Previous.version = 2 THEN run.migrate /\ Previous.owns # {}
  ELSE run.migrate => Nested /\ Previous.migrated

\* _validate_unowned_collisions.
NothingUnowned(b) ==
  \A t \in Targets : Kind[t] = "skill" /\ t \in Ships[b] /\ live[t] # Absent
                       => t \in Previous.owns

\* _validate_legacy_v2_skill_descendants: a v2 manifest proves ownership of
\* roots only.
LegacyReplaceable(b) ==
  Previous.version = 2 =>
    \A t \in Previous.owns : t \in Ships[b] /\ (Present(live[t]) => live[t].user = 0)

\* _preflight_campaign_hook: a live hook must be the recorded one.
HookUntouched ==
  \A t \in Targets : Kind[t] = "hook" =>
    IF t \in Previous.owns /\ Previous.version = 3
    THEN live[t] = [user |-> 0, bundle |-> Previous.bundle, tx |-> 0]
    ELSE live[t] = Absent

\* _prepare_install_hooks_configuration and _preflight_policy_sources.
MergedAvailable(policy) ==
  \A t \in Targets :
    /\ Kind[t] = "hooks" /\ Previous.version = 3 => Present(live[t])
    /\ Kind[t] = "policy" /\ (policy = "install" \/ Previous.policy) => Present(live[t])

\* Content of a target once bundle b is installed by x; with the user's part
\* as it is read.
Mark(t, b) == IF Kind[t] = "hooks" /\ b # 0 THEN CHOOSE k \in Bundles : TRUE ELSE b
Installed(t, b, x) ==
  [user |-> IF Merged(t) /\ Present(live[t]) THEN live[t].user ELSE 0,
   bundle |-> Mark(t, b), tx |-> IF Kind[t] = "support" THEN x ELSE 0]

\* The targets of an install and what it stages for each (_stage_bundle,
\* _prepare_install_targets): a target the bundle no longer ships is removed.
InstallPlan(b, policy) ==
  {t \in Targets :
     \/ Kind[t] \in {"support", "hooks"}
     \/ Kind[t] \in {"skill", "hook"} /\ t \in Ships[b] \cup Previous.owns
     \/ Kind[t] = "policy" /\ (policy = "install" \/ (policy = "remove" /\ Previous.policy))}
InstallStage(b, policy, x) ==
  [t \in Targets |->
     IF t \notin InstallPlan(b, policy) THEN Absent
     ELSE CASE Kind[t] \in {"support", "hooks"} -> Installed(t, b, x)
            [] Kind[t] = "policy" -> Installed(t, IF policy = "install" THEN b ELSE 0, x)
            [] OTHER -> IF t \in Ships[b] THEN Installed(t, b, x) ELSE Absent]

\* The same for uninstall: the user's files lose the installer's part, and a
\* hooks.json that the installer created goes with it.
UninstallPlan ==
  Previous.owns \cup
  {t \in Targets : \/ Kind[t] = "support"
                   \/ Kind[t] = "hooks" /\ Previous.version = 3
                   \/ Kind[t] = "policy" /\ Previous.policy}
UninstallStage ==
  [t \in Targets |->
     IF ~Merged(t) \/ t \notin UninstallPlan \/ ~Present(live[t]) THEN Absent
     ELSE IF Kind[t] = "hooks" /\ ~Previous.hadHooks /\ live[t].user = 0 THEN Absent
     ELSE Installed(t, 0, 0)]

\* _validate_v3_for_uninstall; a nested v2 installation must be migrated first,
\* any other v2 installation is removed as it is found.
Removable ==
  IF Previous.version = 2 THEN ~Nested /\ ~run.migrate
  ELSE /\ OverlapAllowed
       /\ \A t \in Previous.owns : live[t] = [user |-> 0, bundle |-> Previous.bundle, tx |-> 0]
       /\ live[SupportTarget].user = 0
       /\ \A t \in UninstallPlan : Merged(t) => Present(live[t])

\* _is_idempotent.
AlreadyInstalled ==
  LET b == run.bundle IN
  /\ HasPrevious /\ Previous.version = 3 /\ Previous.bundle = b
  /\ run.policy = "remove" => ~Previous.policy
  /\ \A t \in Targets :
       CASE Kind[t] = "support" ->
              Present(live[t]) /\ live[t].user = 0 /\ live[t].bundle = b
         [] Kind[t] = "hooks" -> live[t] = stage[run.tx][t]
         [] Kind[t] = "policy" -> run.policy = "install" => live[t] = stage[run.tx][t]
         [] OTHER -> (t \in Ships[b] => live[t] = stage[run.tx][t]) /\
                     (t \in Previous.owns => t \in Ships[b])

(***************************************************************************)
(* Outcomes shared by the steps                                            *)
(***************************************************************************)
Status(x, s) == journal' = [journal EXCEPT ![x].status = s]
Goto(pc) == run' = [run EXCEPT !.pc = pc]
GotoAt(pc, at) == run' = [run EXCEPT !.pc = pc, !.at = at]
Stop == run' = Idle
\* An exception: the handler of install and uninstall decides from the journal;
\* one raised by the handler itself, or by recovery, ends the command.
Raise == IF run.handling THEN Stop ELSE run' = [run EXCEPT !.pc = "decide", !.handling = TRUE]

X == run.tx
\* The targets of a set are taken in Order: run.at is the place of one, and 0 none.
\* i is the place of the first after place at; of the last before it.
Following(S, at, i) ==
  LET ahead == {j \in 1 .. Len(Order) : j > at /\ Order[j] \in S} IN
  IF ahead = {} THEN i = 0 ELSE i \in ahead /\ \A j \in ahead : i <= j
Preceding(S, at, i) ==
  LET behind == {j \in 1 .. Len(Order) : j < at /\ Order[j] \in S} IN
  IF behind = {} THEN i = 0 ELSE i \in behind /\ \A j \in behind : i >= j
Places == 0 .. Len(Order)
T == Order[run.at]
\* On to the next planned target, or to place end after the last.
Onward(pc, end) ==
  \E i \in Places : Following(journal[X].planned, run.at, i)
                     /\ IF i = 0 THEN Goto(end) ELSE GotoAt(pc, i)
StartRetain == \E i \in Places : Following(journal[X].planned, 0, i) /\ GotoAt("retain", i)
BackFrom(at) == \E i \in Places : Preceding(journal[X].planned, at, i) /\ GotoAt("rollback", i)
StartRollback == BackFrom(Len(Order) + 1)
Now(pc) == run.pc = pc
NewLive(t) == live[t] = journal[X].new[t]
\* The exact file driver replaces files that exist and stay (install only).
Exact(t) == /\ journal[X].op = "install" /\ Merged(t)
            /\ Present(journal[X].prior[t]) /\ Present(journal[X].new[t])
Terminal == {"NONE", "NOOP", "ROLLED_BACK", "COMMITTED"}
Pending == {x \in Txs : journal[x].status = "IN_PROGRESS"}
Failed == {x \in Txs : journal[x].status = "RECOVERY_FAILED"}

(***************************************************************************)
(* Lock and recovery                                                       *)
(***************************************************************************)
\* exclusive_install_lock: a second command is refused, so run is one command.
\* What the command was asked for matters from Begin on.
Lock ==
  /\ Now("idle") /\ run' = [Idle EXCEPT !.pc = "locked"]
  /\ UNCHANGED <<live, pointer, journal, manifest, files, runtime, edits>>

\* Changed: a transaction whose recovery was used up is passed over.
Recover_Passing ==
  /\ Now("locked")
  /\ LET fresh == {x \in Pending : ~journal[x].attempted} IN
     IF Failed # {} THEN Stop /\ UNCHANGED journal
     ELSE IF fresh = {} THEN Goto("begin") /\ UNCHANGED journal
     ELSE LET x == CHOOSE y \in fresh : TRUE IN
       /\ journal' = [journal EXCEPT ![x].attempted = TRUE]
       /\ run' = [run EXCEPT !.pc = "decide", !.tx = x, !.handling = TRUE, !.recovering = TRUE]
  /\ UNCHANGED <<live, pointer, manifest, files, runtime, edits>>
\* _recover_pending up to the decision.
Recover ==
  /\ Now("locked")
  /\ IF Failed # {} \/ Cardinality(Pending) > 1
     THEN Stop /\ UNCHANGED journal
     ELSE IF Pending = {} THEN Goto("begin") /\ UNCHANGED journal
     ELSE LET x == CHOOSE y \in Pending : TRUE IN
       IF journal[x].attempted
       THEN Status(x, "RECOVERY_FAILED") /\ Stop
       ELSE /\ journal' = [journal EXCEPT ![x].attempted = TRUE]
            /\ run' = [run EXCEPT !.pc = "decide", !.tx = x, !.handling = TRUE,
                                  !.recovering = TRUE]
  /\ UNCHANGED <<live, pointer, manifest, files, runtime, edits>>

\* Changed: an unfinished transaction is rolled back, whatever current.json says.
Decide_Backward ==
  /\ Now("decide") /\ StartRollback
  /\ UNCHANGED <<live, pointer, journal, manifest, files, runtime, edits>>
\* Changed: recovery of a committed install only cleans up.
Decide_Unrecorded ==
  /\ Now("decide")
  /\ IF pointer.tx = X
     THEN IF \A t \in journal[X].planned : NewLive(t)
          THEN StartRetain /\ UNCHANGED journal
          ELSE Status(X, "RECOVERY_FAILED") /\ Stop
     ELSE StartRollback /\ UNCHANGED journal
  /\ UNCHANGED <<live, pointer, manifest, files, runtime, edits>>
\* _pointer_matches_new and what follows, in the handlers and in recovery.
Decide ==
  /\ Now("decide")
  /\ IF pointer.tx = X
     THEN IF \A t \in journal[X].planned : NewLive(t)
          THEN /\ IF journal[X].op = "install" /\ ~journal[X].finalized
                  THEN Goto("record") ELSE StartRetain
               /\ UNCHANGED journal
          ELSE Status(X, "RECOVERY_FAILED") /\ Stop
     ELSE StartRollback /\ UNCHANGED journal
  /\ UNCHANGED <<live, pointer, manifest, files, runtime, edits>>

(***************************************************************************)
(* Up to the promotion                                                     *)
(***************************************************************************)
\* Roots that overlap otherwise are refused at once.  The layout is also
\* checked before the lock; a command refused there has no effect.
Begin(op, b, option) ==
  /\ Now("begin") /\ (option.migrate => Nested)
  /\ IF \/ ~PreviousKnown
        \/ op = "uninstall" /\ (pointer.status = "uninstalled" \/ ~HasPrevious)
     THEN Stop /\ UNCHANGED journal
     ELSE \E x \in Txs :
       /\ \A y \in Txs : journal[y].status = "NONE" <=> y >= x
       /\ journal' = [journal EXCEPT ![x] =
                        [NoJournal EXCEPT !.status = "IN_PROGRESS", !.op = op]]
       /\ run' = [Idle EXCEPT !.pc = "preflight", !.tx = x, !.op = op, !.bundle = b,
                              !.policy = option.policy, !.migrate = option.migrate]
  /\ UNCHANGED <<live, pointer, manifest, files, runtime, edits>>

\* _install_preflight, _validate_v3_for_uninstall.
Preflight ==
  /\ Now("preflight")
  /\ IF IF run.op = "install"
        THEN /\ PreviousKnown /\ OverlapAllowed /\ NothingUnowned(run.bundle)
             /\ (live[SupportTarget] # Absent => HasPrevious)
             /\ LegacyReplaceable(run.bundle) /\ HookUntouched
             /\ MergedAvailable(run.policy)
        ELSE Removable
     THEN Goto("stage") ELSE Raise
  /\ UNCHANGED <<live, pointer, journal, manifest, files, runtime, edits>>

\* _create_transaction_workspaces and _stage_bundle; uninstall stages what is
\* left of the user's files.
Stage ==
  /\ Now("stage")
  /\ workspace' = [workspace EXCEPT ![X] = TRUE]
  /\ IF run.op = "install"
     THEN /\ stage' = [stage EXCEPT ![X] = InstallStage(run.bundle, run.policy, X)]
          /\ manifest' = [manifest EXCEPT ![X] =
               [version |-> 3, bundle |-> run.bundle,
                policy |-> run.policy = "install" \/ (run.policy = "preserve" /\ Previous.policy),
                hadHooks |-> IF Previous.version = 3 THEN Previous.hadHooks
                             ELSE \E t \in Targets : Kind[t] = "hooks" /\ live[t] # Absent,
                migrated |-> run.migrate \/ Previous.migrated,
                owns |-> Ships[run.bundle]]]
     ELSE stage' = [stage EXCEPT ![X] = UninstallStage] /\ UNCHANGED manifest
  /\ run' = [run EXCEPT !.pc = "staged",
       !.seen = [t \in {u \in Targets : Kind[u] = "hooks"} |-> live[t]]]
  /\ UNCHANGED <<live, pointer, journal, rollback, retained, runtime, edits>>

\* A repeated install finalizes the runtime of the installation it found.
NoopRecord ==
  /\ Now("staged") /\ run.op = "install" /\ AlreadyInstalled
  /\ runtime' = runtime \cup {pointer.tx} /\ Goto("noop")
  /\ UNCHANGED <<live, pointer, journal, manifest, files, edits>>
Noop ==
  /\ Now("noop") /\ Status(X, "NOOP") /\ Goto("clean_stage")
  /\ UNCHANGED <<live, pointer, manifest, files, runtime, edits>>

\* _prepare_install_targets and _make_target record what each target holds now;
\* only hooks.json is compared with what was read for staging.
Prepare ==
  /\ Now("staged") /\ ~(run.op = "install" /\ AlreadyInstalled)
  /\ LET plan == IF run.op = "install" THEN InstallPlan(run.bundle, run.policy)
                 ELSE UninstallPlan IN
     IF \E t \in plan : Kind[t] = "hooks" /\ live[t] # run.seen[t]
     THEN Raise /\ UNCHANGED journal
     ELSE /\ journal' = [journal EXCEPT ![X].planned = plan, ![X].prior = live,
                                        ![X].new = stage[X], ![X].committing = TRUE]
          /\ \E i \in Places : Following(plan, 0, i)
               /\ run' = [Idle EXCEPT !.pc = "promote", !.tx = X, !.at = i, !.op = run.op]
  /\ UNCHANGED <<live, pointer, manifest, files, runtime, edits>>

(***************************************************************************)
(* Promotion (_promote_targets), one target after the other                *)
(***************************************************************************)
\* The old content is moved away by a rename, or copied if the exact file
\* driver will replace it.
MoveOld ==
  /\ Now("promote")
  /\ LET prior == journal[X].prior[T] IN
     IF live[T] # prior THEN Raise /\ UNCHANGED <<live, rollback>>
     ELSE IF prior = Absent THEN Goto("moved") /\ UNCHANGED <<live, rollback>>
     ELSE IF Exact(T)
     THEN /\ rollback' = [rollback EXCEPT ![X][T] = Partial]
          /\ Goto("copying") /\ UNCHANGED live
     ELSE /\ rollback' = [rollback EXCEPT ![X][T] = prior]
          /\ live' = [live EXCEPT ![T] = Absent]
          /\ Goto("moved")
  /\ UNCHANGED <<pointer, journal, manifest, stage, workspace, retained, runtime, edits>>
CopyOld ==
  /\ Now("copying")
  /\ rollback' = [rollback EXCEPT ![X][T] = live[T]]
  /\ IF live[T] = journal[X].prior[T] THEN Goto("moved") ELSE Raise
  /\ UNCHANGED <<live, pointer, journal, manifest, stage, workspace, retained, runtime, edits>>

\* A rename onto a file replaces it; onto a tree it fails.
MoveNew ==
  /\ Now("moved")
  /\ LET new == journal[X].new[T] IN
     IF new = Absent THEN Goto("check") /\ UNCHANGED <<live, stage>>
     ELSE IF IF Exact(T) THEN live[T] \in {journal[X].prior[T], new}
             ELSE Tree(T) => live[T] = Absent
     THEN /\ live' = [live EXCEPT ![T] = new]
          /\ stage' = [stage EXCEPT ![X][T] = Absent]
          /\ Goto("check")
     ELSE Raise /\ UNCHANGED <<live, stage>>
  /\ UNCHANGED <<pointer, journal, manifest, rollback, workspace, retained, runtime, edits>>

CheckNew ==
  /\ Now("check")
  /\ IF ~NewLive(T) THEN Raise
     ELSE Onward("promote", "verify")
  /\ UNCHANGED <<live, pointer, journal, manifest, files, runtime, edits>>

VerifyAll ==
  /\ Now("verify")
  /\ IF \A t \in journal[X].planned : NewLive(t) THEN Goto("commit") ELSE Raise
  /\ UNCHANGED <<live, pointer, journal, manifest, files, runtime, edits>>

(***************************************************************************)
(* Commit and what follows it                                              *)
(***************************************************************************)
\* current.json is replaced atomically, after the live manifest was compared
\* with the staged one.
WritePointer ==
  /\ Now("commit")
  /\ IF run.op = "install" /\ ~(Present(live[SupportTarget]) /\ live[SupportTarget].tx = X)
     THEN Raise /\ UNCHANGED pointer
     ELSE /\ pointer' = [status |-> IF run.op = "install" THEN "committed" ELSE "uninstalled",
                         tx |-> X]
          /\ IF run.op = "install" THEN Goto("record") ELSE StartRetain
  /\ UNCHANGED <<live, journal, manifest, files, runtime, edits>>

\* _finalize_campaign_runtime (record_runtime_installation is idempotent) and
\* the receipt in the journal.
Record ==
  /\ Now("record") /\ runtime' = runtime \cup {X} /\ Goto("recorded")
  /\ UNCHANGED <<live, pointer, journal, manifest, files, edits>>
Finalized ==
  /\ Now("recorded")
  /\ journal' = [journal EXCEPT ![X].finalized = TRUE] /\ StartRetain
  /\ UNCHANGED <<live, pointer, manifest, files, runtime, edits>>

\* _retain_and_cleanup: rollback slots are copied to the retained backups, then
\* the workspaces are removed.  A removal that is interrupted leaves less of a
\* workspace; nothing compares what is left.
Retain ==
  /\ Now("retain")
  /\ LET next == Onward("retain", "clean_stage") IN
     IF rollback[X][T] = Absent THEN next /\ UNCHANGED retained
     ELSE IF retained[X][T] = Absent
     THEN retained' = [retained EXCEPT ![X][T] = Partial] /\ Goto("retaining")
     ELSE /\ IF retained[X][T] = journal[X].prior[T] THEN next ELSE Raise
          /\ UNCHANGED retained
  /\ UNCHANGED <<live, pointer, journal, manifest, stage, rollback, workspace, runtime, edits>>
RetainCopy ==
  /\ Now("retaining")
  /\ retained' = [retained EXCEPT ![X][T] = rollback[X][T]]
  /\ IF rollback[X][T] = journal[X].prior[T] THEN Goto("retain") ELSE Raise
  /\ UNCHANGED <<live, pointer, journal, manifest, stage, rollback, workspace, runtime, edits>>
CleanStage ==
  /\ Now("clean_stage") /\ stage' = [stage EXCEPT ![X] = Empty] /\ Goto("clean_rollback")
  /\ UNCHANGED <<live, pointer, journal, manifest, rollback, workspace, retained, runtime, edits>>
CleanRollback ==
  /\ Now("clean_rollback")
  /\ rollback' = [rollback EXCEPT ![X] = Empty]
  /\ Goto("clean_workspace")
  /\ UNCHANGED <<live, pointer, journal, manifest, stage, workspace, retained, runtime, edits>>
CleanWorkspace ==
  /\ Now("clean_workspace")
  /\ workspace' = [workspace EXCEPT ![X] = FALSE]
  /\ Goto("closing")
  /\ UNCHANGED <<live, pointer, journal, manifest, stage, rollback, retained, runtime, edits>>
Close ==
  /\ Now("closing")
  /\ IF journal[X].status = "IN_PROGRESS" THEN Status(X, "COMMITTED") ELSE UNCHANGED journal
  /\ IF run.recovering THEN Goto("begin") ELSE Stop
  /\ UNCHANGED <<live, pointer, manifest, files, runtime, edits>>

(***************************************************************************)
(* Rollback (_rollback_targets), in reverse order                          *)
(***************************************************************************)
GiveUp == Status(X, "RECOVERY_FAILED") /\ Stop
Back == BackFrom(run.at)
\* Changed: a target without a rollback slot counts as untouched.
RollbackTarget_Skip ==
  /\ Now("rollback") /\ run.at > 0
  /\ LET slot == rollback[X][T] IN
     IF slot = Absent THEN Back /\ UNCHANGED <<live, journal>>
     ELSE IF slot # journal[X].prior[T] THEN GiveUp /\ UNCHANGED live
     ELSE IF live[T] = Absent THEN Goto("restore") /\ UNCHANGED <<live, journal>>
     ELSE /\ Goto("removing") /\ UNCHANGED journal
          /\ live' = [live EXCEPT ![T] = IF Tree(T) THEN Partial ELSE @]
  /\ UNCHANGED <<pointer, manifest, files, runtime, edits>>
\* What the state of a target allows: the prior content is in its slot and the
\* live one is known, or the prior content is still live.
RollbackTarget ==
  /\ Now("rollback") /\ run.at > 0
  /\ LET prior == journal[X].prior[T]
         new == journal[X].new[T]
         slot == rollback[X][T] IN
     IF slot # Absent
     THEN IF slot # prior \/ live[T] \notin {Absent, new, prior}
          THEN GiveUp /\ UNCHANGED live
          ELSE /\ UNCHANGED journal
               /\ IF live[T] = Absent THEN Goto("restore") /\ UNCHANGED live
                  ELSE /\ Goto("removing")
                       /\ live' = [live EXCEPT ![T] = IF Tree(T) THEN Partial ELSE @]
     ELSE IF live[T] = prior THEN Back /\ UNCHANGED <<live, journal>>
     ELSE IF prior = Absent /\ live[T] = new
     THEN /\ Goto("removing") /\ UNCHANGED journal
          /\ live' = [live EXCEPT ![T] = IF Tree(T) THEN Partial ELSE @]
     ELSE GiveUp /\ UNCHANGED live
  /\ UNCHANGED <<pointer, manifest, files, runtime, edits>>
RemoveLive ==
  /\ Now("removing")
  /\ live' = [live EXCEPT ![T] = Absent]
  /\ IF rollback[X][T] = Absent THEN Back ELSE Goto("restore")
  /\ UNCHANGED <<pointer, journal, manifest, files, runtime, edits>>
Restore ==
  /\ Now("restore")
  /\ IF Tree(T) /\ live[T] # Absent
     THEN GiveUp /\ UNCHANGED <<live, rollback>>
     ELSE /\ live' = [live EXCEPT ![T] = rollback[X][T]]
          /\ rollback' = [rollback EXCEPT ![X][T] = Absent]
          /\ Back /\ UNCHANGED journal
  /\ UNCHANGED <<pointer, manifest, stage, workspace, retained, runtime, edits>>
\* _restore_previous_pointer writes what is there: the pointer is not new.
RolledBack ==
  /\ Now("rollback") /\ run.at = 0
  /\ Status(X, "ROLLED_BACK") /\ Goto("clean_stage")
  /\ UNCHANGED <<live, pointer, manifest, files, runtime, edits>>

(***************************************************************************)
(* Errors, crashes and the user                                            *)
(***************************************************************************)
\* Any step may raise: a full disk, a refused permission, a source or an
\* authority that does not verify, a changed config.toml.
TryPlaces == {"preflight", "stage", "staged", "noop", "promote", "copying", "moved", "check",
              "verify", "commit", "record", "recorded", "retain", "retaining",
              "clean_stage", "clean_rollback", "clean_workspace", "closing"}
RollbackPlaces == {"rollback", "removing", "restore"}
Error ==
  /\ \/ run.pc \in TryPlaces /\ ~run.handling /\ Raise /\ UNCHANGED journal
     \/ run.pc \in RollbackPlaces /\ GiveUp
  /\ UNCHANGED <<live, pointer, manifest, files, runtime, edits>>
Crash ==
  /\ ~Now("idle") /\ Stop
  /\ UNCHANGED <<live, pointer, journal, manifest, files, runtime, edits>>

\* The user edits a target; a hooks.json may also be created.
Edition == 1 + Cardinality({n \in 1 .. MaxEdits : \E t \in Targets : edits[t] >= n})
Edit(t) ==
  /\ Edition <= MaxEdits
  /\ Present(live[t]) \/ (Kind[t] = "hooks" /\ live[t] = Absent)
  /\ edits' = [edits EXCEPT ![t] = Edition]
  /\ live' = [live EXCEPT ![t] =
       IF Present(@) THEN [@ EXCEPT !.user = Edition]
       ELSE [user |-> Edition, bundle |-> 0, tx |-> 0]]
  /\ UNCHANGED <<pointer, journal, manifest, files, runtime, run>>

Beginning ==
  \/ \E b \in Bundles, o \in Options : Begin("install", b, o)
  \/ \E o \in Options : Begin("uninstall", 0, o)
Command ==
  \/ Recover \/ Decide \/ Beginning \/ Preflight \/ Stage \/ NoopRecord \/ Noop \/ Prepare
  \/ MoveOld \/ CopyOld \/ MoveNew \/ CheckNew \/ VerifyAll \/ WritePointer
  \/ Record \/ Finalized \/ Retain \/ RetainCopy
  \/ CleanStage \/ CleanRollback \/ CleanWorkspace \/ Close
  \/ RollbackTarget \/ RemoveLive \/ Restore \/ RolledBack
Next ==
  \/ Command \/ Lock \/ Error \/ Crash
  \/ \E t \in Targets : Edit(t)
Spec == Init /\ [][Next]_vars

(***************************************************************************)
(* Properties                                                              *)
(***************************************************************************)
\* The state has its type.
TypeOK ==
  /\ live \in [Targets -> Contents]
  /\ pointer \in Pointers
  /\ journal \in [Txs -> Journals]
  /\ stage \in [Txs -> [Targets -> Content \cup {Absent}]]
  /\ rollback \in [Txs -> [Targets -> Contents]]
  /\ retained \in [Txs -> [Targets -> Contents]]
  /\ workspace \in [Txs -> BOOLEAN] /\ runtime \subseteq Txs
  /\ edits \in [Targets -> 0 .. MaxEdits]

\* The installer's part of a content, which no edit changes, and the user's.
Part(c) == IF c = Absent THEN <<0, 0>> ELSE IF c = Partial THEN <<0, -1>>
           ELSE <<c.bundle, c.tx>>
Edits(c) == IF Present(c) THEN c.user ELSE 0
SamePart(f, g, S) == \A t \in S : Part(f[t]) = Part(g[t])

\* _recover_pending refuses more than one incomplete transaction as ambiguous:
\* the lock and recovery never leave two.
OneTransaction == Cardinality(Pending) <= 1 /\ (Failed # {} => Pending \subseteq {X})

\* A transaction is recorded as rolled back only when every target is back and
\* current.json does not name it; the user's later edits are kept.
RollbackExact ==
  [][\A x \in Txs :
       journal[x].status # "ROLLED_BACK" /\ journal'[x].status = "ROLLED_BACK" =>
         /\ pointer.tx # x
         /\ SamePart(live, journal[x].prior, journal[x].planned)
         /\ \A t \in journal[x].planned : Edits(live[t]) >= Edits(journal[x].prior[t])]_vars

\* The campaign store lists an installation only if its transaction committed,
\* and a committed install is listed.
RuntimeRecorded ==
  \A x \in Txs :
    /\ x \in runtime => journal[x].op = "install" /\ journal[x].status \notin {"NOOP", "ROLLED_BACK"}
    /\ journal[x].op = "install" /\ journal[x].status = "COMMITTED" => x \in runtime

\* Refinement: a reader who finds an unfinished transaction that current.json
\* does not name may rely on what the targets held before it; the installer's
\* part of the targets then changes only with current.json.
Unfinished == Pending \cup Failed
Relied(t) ==
  IF \E x \in Unfinished : x # pointer.tx /\ t \in journal[x].planned
  THEN Part(journal[CHOOSE x \in Unfinished : x # pointer.tx].prior[t])
  ELSE Part(live[t])
Atomic == INSTANCE AllOrNothing WITH
  current <- pointer, image <- [t \in Targets |-> Relied(t)], open <- Unfinished # {}
AtomicSpec == Atomic!Spec

=============================================================================
