# Verification of Codex Coding OS

Codex Coding OS ships two systems and an installer. The campaign engine
(`src/scripts/agent/campaign_engine/`) is a durable state machine that takes an
approved specification through implementation, validation, review, one repair,
closure and publication, with child agents doing the work. Capability routing
(`src/capability-routing/`) keeps a manifest of what the live authority offers
and deploys the router's own files. The installer
(`src/scripts/install_transaction.py`) puts all of it on a machine and takes it
off again. This directory holds TLA+ modules of the three, TLC configurations
that check them on small instances, and TLAPS proofs that carry the main safety
results of the engine, of the manifest and of the deployment over to every
instance.

## Inventory

| Part | State | Operations | Talks to | Hard parts | Module |
|---|---|---|---|---|---|
| Reducer (`reducer.py`, `model.py`) | campaign snapshot: campaign and node states, budgets, rank, epochs, findings, publication fields | `reduce`, one branch per event type | pure; called by the store | long legal sequences; limits reached in the middle of an event | `Reducer` |
| Store (`store.py`) | SQLite: snapshots, leases, actors, resource locks, operations, outbox, evidence, reviews | `apply_event`, `acquire_lease`, `bind_actor`, `release_lease`, `update_effect`, `recover_after_restart`, receipts | reducer, every process | tables and snapshot must agree; concurrent processes; replays | `Leases`, `Outbox`, `Runner` |
| Effect driver (`effects.py`) | outbox rows, provider | `run`, `reconcile` | store, `git`, `gh` | crash between mutation and record; two runners | `Outbox` |
| Exact file driver (`effects.py`) | journal, backup, target file | `replace` | file system | crash between two renames; edits | `ExactFile` |
| Supervisor (`supervisor.py`) | in-process workers only | `step`, `dispatch_worker`, `complete_worker`, `validate_node`, `begin_review`, `freeze_review`, repair, closure, `start_publication`, `reconcile`, `cancel`, `recover` | store, host, driver | crash between any two store calls; a snapshot read before, an event after | `Runner`, `Outbox` |
| Host (`host.py`) | native threads, turns | `create_idle_actor`, `start_actor_turn`, message pump, mediated tools, `collect_terminal_receipt`, `interrupt` | Codex app server, store for authorisation | authorise, then write; late messages | `Host` |
| Command line (`cli.py`) | none; no process-level lock | `run`, `cancel`, `reconcile`, `doctor --recover` | supervisor, store | every command may run beside every other | `Outbox`, `Runner` |
| Installer (`install_transaction.py`) | lock, journal, stage, rollback slots, retained backups, `current.json` | install, uninstall, recovery | file system, exact file driver, campaign store | crash at any rename, also of the recovery | `Install` |
| Capability manifest recovery, index, fingerprint | pointer, generations, transaction records, live authority | `attempt_recovery`, `render_operator_rebaseline_candidate`, `operator_rebaseline`, `load_active_capabilities` | file system, named mutex | authority drifts while it is read; interrupted promotions | `Drift`, `Manifest` |
| Deployment (`capability-routing/deployment/`) | lock, journal, receipt, live files | `deploy_router_authority`, `materialize_routing_policy`, `promote_worker_runtime_bom` | file system | crash or failure half way, edits, replays | `Deployment` |
| Admission, evidence, bootstrap, legacy, signatures, hook, gates | files | one-shot | - | parsing and I/O | - |

What makes them correct, in one line each. Reducer: only reviewed, cleared,
authorised and paid work is published, in the approved order. Store: one writer
per worktree, and rows, locks and snapshots agree. Driver: one mutation per
operation and no uncertain outcome taken for a clean one. Supervisor: nobody is
dispatched twice, only attested work advances, and every crash leaves a state
that a command can move on. Host: what a worker was told is what happened.
Exact file driver, installer and deployment: a transaction happens entirely or
not at all, and what it says of itself is true. Manifest: generations form one
chain and nothing is widened without a human.

`PROJECT.json` lists every component, also those left out, and the hazards each
is exposed to with the properties that would catch them.

## Modules

Definitions keep the names of the functions they stand for. Definitions named
`X_Y`, introduced as mutants or by "Changed", are wrong versions of `X`; they
belong to no specification and show that the properties can fail. The `MC`
modules give the instances their constants.

**Reducer** is `reduce`: one action per event type, guarded by the branch's
`_require` calls, with the whole branch as its effect, including the token that
`_dispatch_effect` and `_consume_automated` pay and the intent that goes to the
outbox (`intents` remembers all of them). An event carries the revision it was
made for and is rejected for any other, so reading the snapshot and applying
the event is one step. Heads stand for the whole candidate identity, findings
for their identifiers, evidence of a failed command for the fact that it was
recognised.

**Outbox** is the life of publication effects: `ExternalEffectDriver.run` and
`reconcile`, `CampaignStore.update_effect`, and the supervisor commands that
drive them. Each process is at a place of its command (`proc`); places are where
another process can come between: before and after each store transaction and
each provider call. `sent` counts mutations that began, `inflight` those the
provider has not settled, `present` is what a query observes. `fresh` says which
processes still hold the current revision.

**Leases** is the lease side of the store: `leases`, `resource_locks`, and the
fences and holders of the snapshots, for several campaigns that may share a
worktree. `ResourceFree` stands for the query and for the unique index
`one_active_lease_per_resource` that repeats it.

**Runner** is one node of an automated campaign from admission to
READY_TO_PUBLISH: `dispatch_worker` (reserve, lease, create the actor, event,
pay, start the turn), `complete_worker` with its one transport retry,
`validate_node` with its one correction, the review cohort, `freeze_review`, the
repair, the closure and `recover`. A step is one store transaction or one host
call; processes crash between any two and lose `workers` and `job`. A *slot* is
one use of a role and stands for its reservation, lease and actor. The leases of
a cohort are collected in whatever order the caller names them. Per-token
limits are Reducer's, fences and epochs are Leases': on one node a lease is
current until the node fails or the campaign is cancelled.

**Host** is one actor from its bound, idle thread to its collected receipt. The
server writes to `stream`; the reader thread moves messages to `inbox` and
stores usage on the way; the supervisor's thread pumps the inbox and carries out
the tool calls it meets, step by step: authorise, apply, confirm or reverse for
a patch; index, add, staged paths, write-tree, look, move, look, status for a
commit; a reading tool of a reviewer answers from the worktree of the moment
(`PumpRead`, kept in `shown`). Meanwhile the authority may end, another thread may
interrupt, and the owner may edit, undo an edit, stage a file or unstage it.

**ExactFile** is `ExactFileEffectDriver.replace`, every durable step, with a
user who writes the file, crashes at any step and repeated calls.

**Install** is the installer: lock, `_recover_pending`, begin, stage, one
promotion per target by its kind (tree, hook file, policy files), the commit of
`current.json`, the campaign store's record, retention of backups, and rollback;
with crashes, raised errors and a user who edits at any place. Its refinement
mapping hands the state to **AllOrNothing**, which says what a transactional
change of several files promises to whoever reads by way of a pointer: the image
changes in one step, that of the pointer. The mapping takes for the image what
a reader may rely on while a transaction is open that the pointer does not
name: the recorded prior content.

**Drift** holds the pure part of manifest recovery: what a receipt of the
authority contains (`capture_authority_receipt`), which changes are recognised
without a human and by which lane (`classify_authority_update`), and which
entries an outdated manifest may still serve. **Manifest** puts the three
operations around it, with the double "stable" readings, the mutex, the begin
record, the immutable generation file, the pointer swap, the served copy, the
terminal record and the replay of interrupted transactions. An authority is a
version and a candidate's bytes are a number; `Disks` says what lies behind a
version, so every decision is taken by Drift's operators on contents.

**Deployment** is the three deployment programs over one journal discipline.
Each keeps its own recovery, replay and verification actions (`AuthorityReplay`,
`PolicyReplay`, `BomReplay`, ...); promotion, compensation and the receipt, which
have one form in all three, are shared. `Facts` are the readings a program
repeats before it writes. The overlay operations of the policy are operators
(`SetExisting`, `ApplyInsertUnique`, `ApplyInsertObjectUnique`).

How they compose. `Install` uses the driver of `ExactFile` for user files that
stay and repeats its steps for them; `Manifest` extends `Drift`; `Install`
refines `AllOrNothing`; `Runner`, `Leases`, `Outbox` and `Reducer` describe the
same store from four sides and share the names of its columns.

`ReducerProofs`, `OutboxProofs`, `LeasesProofs`, `RunnerProofs`, `HostProofs`,
`InstallProofs`, `ManifestProofs` and `DeploymentProofs` hold the theorems; each
extends the module of its component, and `InstallProofs` those of the installer and
of the exact file driver (hence the names of `ExactFile`: `DriverSpec`, `records`,
`writes`).

## Runs

| Run | Instance | Shows |
|---|---|---|
| `reducer_automated` | 1 node, 2 heads, 1 finding, PUSH then MERGE; tokens and rank that pay exactly one correction, one review with its repair and the delivery | publication is cleared, once and in order; the budget adds up; a correction leaves enough to deliver |
| `reducer_manual` | 3 nodes, the last depends on the others, human receipts, omitted `required_effects`, one authority rotation | one active node, dependency order |
| `outbox_safety` | 2 processes, 2 effects, 1 reconciliation token, 1 authority rotation, outside writers | at most one mutation, clean means unsent, order, ambiguity |
| `outbox_recovery` | 2 processes, 1 effect, fairness | an interrupted execution settles |
| `leases` | 2 campaigns, 1 worktree, 2 actors, 1 rotation, fairness | one writer, fence order, agreement of tables, STOP revokes, forgotten leases end |
| `runner_cohort` | 1 process, 2 reviewers, 1 fault, fairness | a cohort is judged complete; the campaign settles or is in a named window |
| `runner_safety` | 1 process with a short rank, deadline, correction, every outcome, 1 fault, 2 retries; 2 processes on one node; 2 processes with a rank that pays exactly one correction, and a retry | one turn per slot, attested progress, an affordable correction |
| `host` | writer and reviewer, 2 turn ids, 2 messages, 2 standing edits, which may be undone | answers are true, nothing after the end of authority, a collected review was shown frozen bytes |
| `exactfile` | 2 operations, a reused identity, 3 edits, 3 crashes, fairness | undo is possible, only approved bytes are replaced, repetition finishes |
| `install` | skill, support tree, hooks.json, policy; 2 bundles; 2 transactions, 1 edit; new and v2 installations | exact rollback, true records, refinement of AllOrNothing |
| `manifest` | 2 processes, operators, 2 drifts, 1 fault, a first manifest that is legacy or lacks its pointer; and one recovery after each of some seventy changes | one chain of generations, true terminals and answers, no widening, unchanged entries served |
| `deployment` | 2 processes, 9 settings of the three programs, 1 or 2 identifiers, edits, drifts, errors, crashes | undone means undone, "deployed" means whole |

Bounds, and why they are enough. One node with two effects reaches every event
of the reducer; two independent nodes and a third that needs both reach
everything that relates nodes. A race on an outbox row or a lease is between two
processes, since a step reads one row; crashed processes start again without
limit. Two campaigns on one worktree let it pass from a writer to one of another
campaign. Two reviewers are the least of which one can lack. In `Runner` one
fault strikes at any step of the whole life of a node; the short rank runs out
in every phase. Two host messages hold each pair of a patch, a commit, a read and a
usage report, in each order, before and after the response; two edits let one of
them stand while the other is undone, staged or read. Two installer transactions are a
first and a second installation, or an installation and its removal, and a
crash may also strike the recovery (crashes are not bounded there; each
transaction can be recovered once). `Disks` has every combination of four
updaters (app, primary runtime, curated plugin, toggle) and the rarer changes
one at a time. Two deployment identifiers with a shared file are what an older
and a newer transaction need to meet. The proofs do not depend on bounds.

Deadlock is checked where a step is always possible (`exactfile`,
`deployment`); elsewhere the system may really stop: a campaign that
ended, a host whose actor is collected, an installer whose transactions are
used up.

Fairness. `Outbox!FairSpec`: a process that is alive goes on (weak), and the
operator runs `doctor --recover` again and again (strong, since a process is
idle only now and then). `Leases!FairSpec` assumes only recovery.
`Runner!Fairness`: processes go on (weak), and whoever drives the campaign keeps
calling `step`, the collections and `recover` (strong: each call is possible only
between others). `ExactFile!DriverFairSpec`: a call goes on, and every request is
repeated. None is assumed of crashes, edits, servers or messages. Nothing else
moves these systems: without recovery an interrupted row or an orphaned slot
stays, and the code claims nothing else.

`Settles` names the windows in which the campaign cannot be moved (`Lost`): see
below.

## What is proved

Every theorem is for arbitrary constants under the module's ASSUME.

- `ReducerProofs`: type correctness; `PublicationCleared` through `ClearedInv`,
  which says for each node state what the review, repair and closure counters
  and the finding sets must be by then, and that intents exist only for nodes
  that were released; `OneActiveNode`, `DependencyOrder` and `TerminalShape`
  together, since none is inductive alone: a step of a live campaign needs to
  know that no node failed, and which node it moves; `BudgetConservation`;
  `FencingMonotonic`; `PublicationAuthorized`.
  `CorrectionReservesDelivery`, for a node whose `required_effects` are declared (with
  the list omitted nothing is reserved, see the divergences).
  `EffectOnce` and `PublicationSequence`: the invariant adds that each intent is
  the pending one or among the confirmed ones, and that an operation identity
  stays in `operationIds` once confirmed.
- `OutboxProofs`: type correctness and all safety properties of the outbox. The
  key is that only the process that moved a row from PREPARED to EXECUTING can
  take it to FAILED (`OwnerUnique` and `ProcessInv`), so that a second runner,
  recovery or STOP can turn the row AMBIGUOUS under it, but nobody else can
  declare the mutation unsent.
- `LeasesProofs`: type correctness and all safety properties of the leases. The
  invariant bounds what a lease was issued with by what its worktree and its
  campaign have now, keeps the fences of two writers of a worktree distinct, and
  ties lock, lease, campaign and fence together. `StopRevokes` is proved for
  automated campaigns; in manual mode it is false.
- `RunnerProofs`: type correctness, `OneTurn`, `AttestedProgress`, `CohortDecides` and
  `CorrectionAffordable`, from `RunnerAssumption` alone. The invariant says that a
  dispatch belongs to the one call that reserved its slot (`OwnerInv`), that a
  turn starts at most once, after its actor was created, and is the only source
  of a receipt (`TurnInv`), that only the runner which started a turn collects
  it and that what it collects is what was attested (`WorkerInv`), and where the
  node is when a slot is due (`PhaseInv`, `Due`). The last part is what stops a
  second runner or a repeated call: the store refuses it, since the node has
  moved on or the attempt is taken. For the budget, `AffordInv` says that the rank
  covers what is left of the `Bill` of a granted correction and the transition that
  opens its review; each step pays for one item of it or for none, since no slot
  of a repair or a closure is reserved so early (`LateInv`) and a start is paid
  once (`StartInv`). A retry is on no bill: somebody who pays for one after the
  grant may strand the candidate. That can even be a retry of the first
  implementation, by a process that still has it in `_workers` because another one
  recovered it, so the property asks which attempts were there at the grant
  (`granted`, a history variable).
- `HostProofs`: type correctness, `AnsweredIsDone`, `NothingAfterStop` and
  `ReviewedAsFrozen`. `CountInv` accounts for every tool call and usage report:
  it is on its way, in progress, answered or dropped. `TurnInv` and `OrderInv`
  make the end of a turn the last thing that is pumped; `MeterInv` shows that a
  lost report is announced before that. `ActInv` says what worktree, HEAD and
  index hold at each step of a tool call, `LateInv` that no tree made by the host
  holds a foreign file unless it was staged in the one window there is, and
  `StopInv` that what the call in progress would fall back to was there when the
  authority ended. `ShownInv` is what the last look of a review rests on: until
  the owner undoes something, every edit that a reviewer was shown is still
  there to be found when the receipt is collected. The lemmas about `Places`
  count the messages of a queue.
- `InstallProofs`, the installer: type correctness, `OneTransaction`,
  `RuntimeRecorded`, `RollbackExact` and the refinement of `AllOrNothing`
  (`AtomicAlways`), for any targets, bundles and options. `UnfinishedInv` says that
  one transaction is unfinished and that a command at work works on it;
  `PlaceInv` what its journal, the pointer and the store hold at each place of the
  command; `RollbackInv` that the planned targets behind a rollback are restored,
  and that a slot about to be moved back holds the prior content; `PointerInv` ties
  pointer, journals and the store together. An edit keeps all that, since it
  changes the user's part only and never to an older edition (`EditsInv`).
  `OriginInv` is there for one step: a repeated install records the
  installation that it found, and that one was committed, since before the first
  commit the live support tree names no transaction. Each step then is `RefStep`:
  what a reader relies on stays, or the pointer changes.
- `InstallProofs`, the driver: type correctness, `Undoable` and `OnlyApproved`. The
  invariant says what a call knows at each place: past the journal it is bound to
  the row (`JournalBinds`), from the verified copy on the backup holds the
  baseline (`BackupHolds`), and what it is about to overwrite is the baseline or
  was written since it looked (`Approved`). `WriterWrote` is what keeps a second
  call from replacing the backup of a replacement that is already in the file.
- `ManifestProofs`, first part: `GenerationChain`. Whoever is inside a call holds the mutex
  (`MutexHeld`), so calls do not overlap; a call that passed the compare-and-swap
  works for the current predecessor with a durable candidate that follows it
  (`Follows`), and the swap extends the chain by exactly that candidate. What
  the live authority does and what lanes recognise plays no part in it.
- `ManifestProofs`, second part: `TerminalTruth` and `AnswerIsReviewed`, on top of
  the chain. `TxInv` says what a call knows of its transaction between the begin
  record and the terminal (`Underway`): no terminal yet, and the pointer was
  swapped to its candidate exactly if the call is past the swap; that nothing
  came of a transaction that never began (`Unbegun`); and that what began an
  operator's transaction is its complete review (`Reviewed`).
- `ManifestProofs`, third part: for all authorities, not only those of the run. `LaneNarrows`
  shows lane by lane that a recognised update is `Narrower`; the compound lane
  is its app part followed by its runtime part, which are the two other lanes.
  `LaneInv` carries that through `attempt_recovery`: from its classification to
  its swap a call works from the receipt of the current manifest towards a
  recognised one, and the candidate it promotes carries that receipt; hence
  `NoWidening`. `ServedIntact` shows of any captured authority and any later
  state of the disk that what is served is `Intact`; hence `ServedUnchanged`.
- `DeploymentProofs`: `RollbackExact` and `DeployedWhole`, for any number of
  operators, transactions and files and with edits, errors and crashes anywhere.
  Whoever is past the lock holds it (`LockInv`), so one transaction works at a
  time. `Recorded`, in `JournalInv`, is the centre: a file that a transaction
  wrote last is marked in its durable journal or holds the baseline recorded
  there. That is why the intent has to be saved before `os.replace`, and it is
  what makes a rollback by the next process, which knows only the journal,
  complete. What a process has in memory agrees with its journal (`Agrees`); the
  files behind a compensation are restored or it has failed (`Undo`); the
  readings on which a "deployed" rests still hold where nobody else wrote
  (`Seen`).

`DeploymentProofs` assumes `DeploymentAssumption`: the stand-in for "no process"
is no process, 0 no identifier, the two policies differ, and a setting is well
formed (the two programs that deploy one file have one). The theorems about
`Install` rest on `InstallAssumption`: the targets are distinct, one is the support
tree, and what is there before the first command is of edition 0 and names no
transaction. `NoWidening` and
`ServedUnchanged` rest on `ManifestAssumption`: the fields of an authority and ordered
versions (`Shaped`), the toggle of a curated plugin being no other projected
leaf, no plugin name in two families (`WellFormed`), the first manifest built for
a captured authority, and no two authorities with one receipt. TLC evaluates it
on the authorities of the run.

Proved and in no run: `TerminalShape`, `FencingMonotonic`,
`PublicationAuthorized`, `StopSettled`, `HolderMatchesLease`, `LaneNarrows`, the
type invariants and the inductive invariants themselves.

Only model-checked: liveness (`InterruptedSettles`, `UnrecognisedEnds`, `Settles`,
`Finishes`), which is out of reach of the prover. Nothing here needs recursion;
overlay and drift operators use the folds of the community modules.

## Known divergences

Where the code does less than a document, a comment or a reader expects. They
were met while modelling; the properties above are stated so that they hold of
the code as it is.

Engine.
- `correction_budget_requirements` defaults `required_effects` to nothing where
  the reducer defaults it to `allowed_effects`: with the list omitted, a granted
  correction reserves no delivery.
- `formal/Campaign.tla` states that waiting campaigns spend no autonomous budget;
  review, repair, closure and publication events do not ask for a running
  campaign.
- Publication effects are stored without a fencing epoch, so the stale-fence
  check of `update_effect` never applies to them: the effect of a failed node
  may begin.
- `cancel` reconciles only rows that were EXECUTING before it stopped the
  campaign; a row that became AMBIGUOUS in between is not queried.
- In manual mode a reviewer's lease can be issued after `cancel`.
- Three crash windows leave a campaign that `recover` does not move (`Lost` in
  `Runner`): an attempt reserved before its lease exists (the one-use attempt is
  gone, every later step fails), leases invalidated by `recover_after_restart`
  before the FAIL_NODE loop, and a review begun whose reviewers were never
  dispatched.
- The worktree of a reviewer is compared with the frozen candidate when its turn
  starts and when its receipt is collected (`host.py:1582`, `host.py:1669`): an
  edit that is made, read by the reviewer and undone in between goes unseen.
  `ReviewedAsFrozen` says that nothing else does.
- A file that another hand stages after `campaign_commit` has compared the staged
  paths and before `git write-tree` (`host.py:1352`, `host.py:1364`) is committed
  and the commit answered with success, though it is outside the worker's scope;
  hence `late` in `AnsweredIsDone`. A patch over a file that its owner edits before
  the confirmation cannot be reversed and stays; hence `raced`.
- After a crash `freeze_review` accepts a persisted receipt whose turn did not
  complete, which the path without a crash refuses.

Installer.
- The policy files are read for staging before their prior digest is taken: an
  edit in between is committed away. The edit is in the rollback copy.
- A recovery that fails is not tried again; the next commands refuse until a
  human has looked.

Capability routing.
- A crash between swap and terminal, followed by another recovery that supersedes
  the generation, makes the replay record INTERRUPTED_BEFORE_COMMIT for a
  transaction that did commit (`src/capability-routing/README.md:122`); hence the
  wording of `TerminalTruth`.
- A torn begin or terminal file reads as no object at all, so every repetition of
  that operator's transaction is denied as a replay conflict; a begun automatic
  transaction without a terminal is never closed.
- `attempt_recovery` records an exception of the validation after its swap as a
  committed transaction only for the kinds it expects
  (`capability_manifest_recovery.py:5479`); another one leaves "error" in the
  terminal of a transaction that did commit. `TerminalTruth` allows for that.
- An abandoned mutex is seen only while another handle was open; outside Windows
  the mutex is never acquired and every operation reports it as busy.
- After a plain app update the bundled-runtime binding still reports "fresh", so
  `attempt_recovery` does nothing, and a second update may then be recognised by
  no lane.
- Deployment recovers only under the same identifier: a second transaction may
  start on a half-deployed tree, and a replay of the first then rolls back bytes
  the second shares with it.
- A crash between COMPLETED and the receipt rolls the completed deployment back
  on replay.
- An edit between the last check and `os.replace` is lost; the BOM promoter has
  no check at all between its comparison and the replacement, and its backup is
  whatever the file holds by then: after an edit in that window a rollback refuses
  and the BOM that was promoted stays. `DeployedWhole` and
  `RollbackExact` therefore speak of what the transaction wrote.
- A workspace with files and no journal cannot be used again under that
  identifier. A receipt whose temporary name cannot be removed says "deployed"
  beside a journal that was rolled back, and every repetition is an error.
- The policy's base is not read again after the materialisation. A BOM rollback
  that fails leaves a journal and no receipt.

## Not modelled

Prompts, JSON-RPC, `git` and `gh` arguments, pull request bodies, digests and
signatures (a verified one is an input), printing, telemetry, migrations and
backups of the database. SQLite transactions are atomic and durable; a crash
loses none that committed. Time: deadlines appear as failures that may come at
any moment.

- Runner: manual campaigns (they reserve no attempts); more than one validation
  command; the content of a receipt beyond its verdict.
- Host: what a reading tool returns beyond the state of the worktree, a file read
  in several pieces, parsing of patch paths (a path is inside the scope or
  refused before the first step), owned processes, a crash of the host's process
  in the middle of a tool call (its thread is `gone` in Runner).
- Install: verification of source, authority and runtime is an error that may be
  raised.
- Manifest: file formats, inventories, the measurement of skills; one receipt is
  one stable reading; the alias "latest" of a version is not told apart; whether
  a rebuilt candidate equals the last is left open (`same`).
- Capability index: routing of a request, scoring and the issue of route
  decisions: pure functions over large records.
- Deployment: a reading of several targets is one step, as is the second reading
  that makes their backups; created directories, symbolic links and damaged
  journals are left out, and a backup that is lost later is an error of the
  rollback. `EXPECTED_LIVE_PRECONDITIONS` is empty in this commit, so the fact
  `authority` cannot fail yet: the settings without drifts are the program as it
  is, the one with a drift is what its check is for.
- Store: the replay of a request by its digest, human receipts.
- Admission, evidence runner, specification checks, signatures, bootstrap,
  legacy archive, campaign hook, repository gates: one-shot reads, parsing, curve
  arithmetic or process I/O without a state that a later step could find changed.

## What could come next

1. `Requests`: the operations table and human receipts as an abstract one-use
   specification that the store's transactions implement.
2. `Outbox` as an implementation of the publication part of `Reducer`.
