--------------------------- MODULE DeploymentProofs ---------------------------
(***************************************************************************)
(* Proofs about the programs that change the live routing files, for any   *)
(* number of operators, transactions, files, edits, faults and crashes.    *)
(***************************************************************************)
EXTENDS Deployment, TLAPS

\* What the records hold.
Phases == {"none", "LOCK_ACQUIRED", "PREFLIGHT_VERIFIED", "STAGE_VERIFIED", "PROMOTION_PREPARED",
           "PROMOTING", "PROMOTED", "LIVE_TARGET_VERIFIED", "LIVE_TARGETS_VERIFIED", "PREPARED",
           "COMPLETED", "PRECONDITION_FAILED", "FAILED_BEFORE_BUNDLE", "ROLLED_BACK",
           "ROLLBACK_FAILED"}
Pcs == {"idle", "wait", "open", "refuse", "capture", "backup", "stage", "prepare", "mark",
        "boundary", "replace", "confirm", "verify", "complete", "receipt", "except", "inspect", "restore",
        "restored", "settle"}
Targets == [File -> [prior: Nat, backup: Nat, started: BOOLEAN, promoted: BOOLEAN]]
Requests == [tx: Transactions, bundle: [File -> Nat], expected: Nat]
Journal == [phase: Phases, request: Requests \cup {NoRequest}, known: BOOLEAN, targets: Targets]
Receipt == [outcome: Outcomes \cup {"none"}, journal: Journal]
Process ==
    [pc: Pcs, request: Requests \cup {NoRequest}, mem: Journal, at: File \cup {0},
     why: {"none", "recovery", "precondition", "bundle", "other"}, failed: BOOLEAN,
     seen: SUBSET File, moved: SUBSET setting.parts, answer: Outcomes \cup {"none", "error"}]
TypeInv ==
    /\ setting \in Settings
    /\ live \in [File -> Nat] /\ owner \in [File -> Transactions \cup {0}]
    /\ world \subseteq setting.parts
    /\ lock \in Procs \cup {NoProc}
    /\ journal \in [Transactions -> Journal] /\ receipt \in [Transactions -> Receipt]
    /\ proc \in [Procs -> Process]

\* The lock is held from the opening of a transaction to its end.
Working(p) == proc[p].pc \notin {"idle", "wait", "open"}
LockInv ==
    \A p \in Procs :
       /\ proc[p].pc \notin {"idle", "wait"} => lock = p
       /\ proc[p].pc # "idle" => proc[p].request \in Requests
       /\ proc[p].pc \in {"wait", "open"} => ~Mem(p).known

\* A file that a transaction wrote last is one its journal speaks of: it is
\* marked as touched, or holds the baseline.
Marked(j, f) ==
    \/ Program = "authority" /\ (j.targets[f].started \/ j.targets[f].promoted)
    \/ Program = "policy" /\ j.phase \notin BeforePromotion
    \/ Program = "bom"
Restored(t, j, f) == owner[f] = t => live[f] = j.targets[f].prior
Recorded(t, j, f) == owner[f] = t => j.known /\ (Marked(j, f) \/ live[f] = j.targets[f].prior)
JournalInv ==
    \A t \in Transactions :
       /\ journal[t].phase = "none" => ~journal[t].known
       /\ \A f \in File : Recorded(t, journal[t], f)

\* What a process has in memory of its transaction agrees with the journal.
Agrees(p) ==
    Working(p) =>
       /\ receipt[Tx(p)].outcome \notin RolledBack
       /\ Mem(p).known = journal[Tx(p)].known
       /\ Mem(p).known =>
            \A f \in File : Mem(p).targets[f].prior = journal[Tx(p)].targets[f].prior
       /\ \A f \in File : Recorded(Tx(p), Mem(p), f)

\* Where a process is in its transaction.
Place(p) ==
    /\ proc[p].pc = "capture" => ~Mem(p).known /\ Program = "authority"
    /\ proc[p].pc = "backup" => ~Mem(p).known /\ Program # "policy"
    /\ proc[p].pc = "prepare" => Mem(p).known = (Program # "bom")
    /\ proc[p].pc \in {"stage", "mark", "boundary", "replace", "confirm"} => Mem(p).known
    /\ proc[p].pc \in {"mark", "boundary", "replace", "confirm"} => proc[p].at \in File
    /\ proc[p].pc \in {"boundary", "replace"} =>
          Marked(Mem(p), proc[p].at) /\ Marked(journal[Tx(p)], proc[p].at)
    /\ proc[p].pc \in {"refuse", "stage", "prepare", "mark"} /\ Program = "policy" =>
         Mem(p).phase \in BeforePromotion
    /\ proc[p].pc = "refuse" => Program = "policy"
    /\ proc[p].pc \in InTransaction \cup {"except"} /\ Program = "bom" =>
         \A f \in File : owner[f] = Tx(p) => Mem(p).targets[f].started

\* The files behind the compensation were undone, or it has failed.
Undo(p) ==
    /\ proc[p].pc \in {"inspect", "restore", "restored"} =>
         /\ proc[p].at # 0 => Mem(p).known
         /\ \A f \in File : f > proc[p].at => proc[p].failed \/ Restored(Tx(p), Mem(p), f)
    /\ proc[p].pc \in {"restore", "restored"} => proc[p].at # 0
    /\ proc[p].pc = "settle" =>
         /\ Mem(p).phase \in {"ROLLED_BACK", "ROLLBACK_FAILED", "PRECONDITION_FAILED"}
         /\ Mem(p).phase # "ROLLBACK_FAILED" => \A f \in File : Restored(Tx(p), Mem(p), f)
    /\ proc[p].pc = "receipt" => Mem(p).phase = "COMPLETED"

\* What a process has not seen change is as it was at its last look.
Seen(p) ==
    /\ proc[p].pc # "idle" => world \subseteq proc[p].moved
    /\ \/ proc[p].pc \in {"complete", "receipt"}
       \/ proc[p].pc = "verify" /\ Program = "policy"
       => \A f \in File : live[f] = New(p, f) \/ f \in proc[p].seen

Worker(p) == Agrees(p) /\ Place(p) /\ Undo(p) /\ Seen(p)
WorkerInv == \A p \in Procs : Worker(p)

DeploymentInv == TypeInv /\ LockInv /\ JournalInv /\ WorkerInv /\ RollbackExact

-----------------------------------------------------------------------------
(* The setting, and the records.                                           *)

LEMMA SettingFacts ==
    ASSUME setting \in Settings
    PROVE  /\ Program \in {"authority", "policy", "bom"}
           /\ setting.files \in Nat \ {0} /\ 1 \in File /\ 0 \notin File /\ setting.files \in File
           /\ Program # "authority" => File = {1}
           /\ setting.parts \subseteq Facts(Program)
           /\ setting.requests \subseteq Requests
           /\ setting.initial \in [File -> Nat]
           /\ NoProc \notin Procs /\ 0 \notin Transactions /\ Foreign \in Nat
<1>1. /\ Program \in {"authority", "policy", "bom"} /\ setting.parts \subseteq Facts(Program)
      /\ setting.files \in Nat \ {0} /\ (Program # "authority" => setting.files = 1)
      /\ setting.initial \in [File -> Nat] /\ setting.requests \subseteq Requests
      /\ NoProc \notin Procs /\ 0 \notin Transactions /\ Foreign \in Nat
    BY DeploymentAssumption DEF Program, File, Requests
<1>2. 1 \in File /\ 0 \notin File /\ setting.files \in File BY <1>1 DEF File
<1>3. setting.files = 1 => File = {1} BY DEF File
<1> QED BY <1>1, <1>2, <1>3

\* What was measured is in order exactly while nothing has drifted.
LEMMA ReadyFacts ==
    ASSUME setting \in Settings, world \subseteq setting.parts
    PROVE  /\ Ready => world = {}
           /\ Program = "authority" /\ VerifyLivePreconditions => world = {}
           /\ Program = "bom" /\ ValidateCandidate => world = {}
<1>1. world \subseteq Facts(Program) BY SettingFacts
<1>2. Program = "authority" /\ VerifyLivePreconditions => world = {}
    BY <1>1 DEF VerifyLivePreconditions, Facts
<1>3. ASSUME Program = "bom", ValidateCandidate PROVE world = {}
    <2>1. \A parts, part : part \in parts /\ Measured(parts) = [x \in parts |-> FALSE]
                             => part \notin world
        BY DEF Measured
    <2>2. /\ Measured({"gateway"}) = [x \in {"gateway"} |-> FALSE]
          /\ Measured({"config"}) = [x \in {"config"} |-> FALSE]
          /\ Measured({"identity"}) = [x \in {"identity"} |-> FALSE]
          /\ Measured({"closure"}) = [x \in {"closure"} |-> FALSE]
        BY <1>3 DEF ValidateCandidate, GatewayRuntimeBinding, RuntimeBinding, RenderedBom,
                    WorkerServerProjection
    <2>3. world \cap {"gateway", "config", "identity", "closure"} = {} BY <2>1, <2>2
    <2> QED BY <1>1, <1>3, <2>3 DEF Facts
<1>4. ASSUME Program = "policy", MaterializePolicy PROVE world = {}
    <2>1. "base" \notin world
        BY <1>4, DeploymentAssumption DEF MaterializePolicy
    <2>2. "validator" \notin world BY <1>4 DEF MaterializePolicy
    <2> QED BY <1>1, <1>4, <2>1, <2>2 DEF Facts
<1> QED BY <1>2, <1>3, <1>4, SettingFacts DEF Ready

\* The setting does not change, so nothing that is defined from it does.
LEMMA Frame ==
    ASSUME setting' = setting
    PROVE  /\ File' = File /\ Program' = Program /\ Targets' = Targets /\ Requests' = Requests
           /\ Journal' = Journal /\ Receipt' = Receipt /\ Process' = Process
<1>1. File' = File /\ Program' = Program BY DEF File, Program
<1>2. Targets' = Targets /\ Requests' = Requests BY <1>1 DEF Targets, Requests
<1>3. Journal' = Journal BY <1>2 DEF Journal
<1> QED BY <1>1, <1>2, <1>3 DEF Receipt, Process

LEMMA JournalFacts ==
    ASSUME NEW j \in Journal
    PROVE  /\ j.phase \in Phases /\ j.request \in Requests \cup {NoRequest} /\ j.known \in BOOLEAN
           /\ \A f \in File : /\ j.targets[f].prior \in Nat /\ j.targets[f].backup \in Nat
                              /\ j.targets[f].started \in BOOLEAN
                              /\ j.targets[f].promoted \in BOOLEAN
BY DEF Journal, Targets

LEMMA BlankFacts ==
    /\ Blank \in Journal /\ ~Blank.known /\ Blank.phase = "none"
    /\ \A q \in Requests :
         LET j == [Blank EXCEPT !.request = q]
         IN  j \in Journal /\ ~j.known /\ j.phase = "none"
<1>1. Untouched \in Targets BY DEF Untouched, Targets
<1> QED BY <1>1 DEF Blank, Journal, Phases

\* What is edited in a journal.
LEMMA PhaseEdit ==
    ASSUME NEW j \in Journal, NEW x \in Phases, NEW k, k = [j EXCEPT !.phase = x]
    PROVE  k \in Journal /\ k.phase = x /\ k.known = j.known /\ k.targets = j.targets
BY DEF Journal, Targets

\* What is edited in the record of a process.
LEMMA ProcessFacts ==
    ASSUME NEW r \in Process
    PROVE  /\ r.pc \in Pcs /\ r.request \in Requests \cup {NoRequest} /\ r.mem \in Journal
           /\ r.at \in File \cup {0} /\ r.failed \in BOOLEAN
           /\ r.seen \subseteq File /\ r.moved \subseteq setting.parts
           /\ r.why \in {"none", "recovery", "precondition", "bundle", "other"}
BY DEF Process

LEMMA IdleFacts ==
    ASSUME NEW a \in Outcomes \cup {"none", "error"}
    PROVE  /\ Idle(a) \in Process /\ Idle(a).pc = "idle" /\ Idle(a).answer = a
           /\ Idle(a).mem = Blank
BY BlankFacts DEF Idle, Process, Pcs

Whys == {"none", "recovery", "precondition", "bundle", "other"}

-----------------------------------------------------------------------------
(* What any step of one process keeps.                                     *)

LEMMA OneStep ==
    ASSUME TypeInv, LockInv, WorkerInv, NEW p \in Procs, NEW r \in Process,
           proc' = [proc EXCEPT ![p] = r], setting' = setting, world' = world,
           live' \in [File -> Nat], owner' \in [File -> Transactions \cup {0}],
           journal' \in [Transactions -> Journal], receipt' \in [Transactions -> Receipt],
           lock' \in Procs \cup {NoProc},
           lock = p \/ UNCHANGED <<live, owner, journal, receipt>>,
           lock \in {NoProc, p} \/ lock' = lock,
           r.pc \notin {"idle", "wait"} => lock' = p,
           r.pc # "idle" => r.request \in Requests /\ world \subseteq r.moved,
           r.pc \in {"wait", "open"} => ~r.mem.known
    PROVE  /\ TypeInv' /\ LockInv' /\ \A q \in Procs \ {p} : Worker(q)'
           /\ proc'[p] = r /\ Tx(p)' = r.request.tx /\ Mem(p)' = r.mem
<1>1. proc'[p] = r /\ \A q \in Procs \ {p} : proc'[q] = proc[q] BY DEF TypeInv
<1>2. TypeInv' BY Frame DEF TypeInv
<1>3. LockInv'
    <2>1. NoProc \notin Procs /\ Requests' = Requests BY SettingFacts, Frame DEF TypeInv
    <2>2. ASSUME NEW q \in Procs, q # p
          PROVE  /\ proc'[q].pc \notin {"idle", "wait"} => lock' = q
                 /\ proc'[q].pc # "idle" => proc'[q].request \in Requests
                 /\ proc'[q].pc \in {"wait", "open"} => ~Mem(q)'.known
        BY <1>1, <2>1, <2>2 DEF LockInv, Mem
    <2> QED BY <1>1, <2>1, <2>2 DEF LockInv, Mem
<1>4. ASSUME NEW q \in Procs, q # p PROVE Worker(q)'
    <2>1. /\ proc'[q] = proc[q] /\ Tx(q)' = Tx(q) /\ Mem(q)' = Mem(q) /\ Worker(q)
          /\ \A f : New(q, f)' = New(q, f)
        BY <1>1, <1>4 DEF Tx, Mem, New, WorkerInv
    <2>2. File' = File /\ Program' = Program BY Frame
    <2>3. CASE UNCHANGED <<live, owner, journal, receipt>>
        BY <2>1, <2>2, <2>3
           DEF Worker, Agrees, Place, Undo, Seen, Working, Recorded, Restored, Marked
    <2>4. CASE lock = p
        <3>1. proc[q].pc \in {"idle", "wait"} BY <1>4, <2>4 DEF LockInv
        <3> QED BY <2>1, <3>1
                DEF Worker, Agrees, Place, Undo, Seen, Working, InTransaction
    <2> QED BY <2>3, <2>4
<1> QED BY <1>1, <1>2, <1>3, <1>4 DEF Tx, Mem

\* The journals, and the receipts of what was undone.
Held == JournalInv /\ RollbackExact

LEMMA HeldStays ==
    ASSUME Held, setting' = setting, UNCHANGED <<live, owner, journal, receipt>>
    PROVE  Held'
BY Frame DEF Held, JournalInv, RollbackExact, Recorded, Marked

\* The files are as they were; one journal may be replaced.
LEMMA HeldSaves ==
    ASSUME TypeInv, Held, setting' = setting, UNCHANGED <<live, owner, receipt>>,
           NEW t \in Transactions, NEW j \in Journal, journal' = [journal EXCEPT ![t] = j],
           j.phase = "none" => ~j.known, \A f \in File : Recorded(t, j, f)
    PROVE  Held'
<1>1. File' = File /\ Program' = Program BY Frame
<1>2. journal'[t] = j /\ \A u \in Transactions \ {t} : journal'[u] = journal[u]
    BY DEF TypeInv
<1>3. RollbackExact' BY <1>1 DEF Held, RollbackExact
<1>4. JournalInv' BY <1>1, <1>2 DEF Held, JournalInv, Recorded, Marked
<1> QED BY <1>3, <1>4 DEF Held

\* A transaction writes a file that its journal speaks of.
LEMMA HeldWrites ==
    ASSUME TypeInv, Held, setting' = setting, UNCHANGED <<journal, receipt>>,
           NEW t \in Transactions, NEW f \in File, NEW b \in Nat,
           live' = [live EXCEPT ![f] = b], owner' = [owner EXCEPT ![f] = t],
           receipt[t].outcome \notin RolledBack, journal[t].known,
           Marked(journal[t], f) \/ b = journal[t].targets[f].prior
    PROVE  Held'
<1>1. File' = File /\ Program' = Program BY Frame
<1>2. /\ live'[f] = b /\ owner'[f] = t
      /\ \A g \in File \ {f} : live'[g] = live[g] /\ owner'[g] = owner[g]
    BY DEF TypeInv
<1>3. RollbackExact' BY <1>1, <1>2 DEF Held, RollbackExact
<1>4. JournalInv' BY <1>1, <1>2 DEF Held, JournalInv, Recorded, Marked
<1> QED BY <1>3, <1>4 DEF Held

-----------------------------------------------------------------------------
(* The kinds of steps of a process that has the lock.                      *)

Inv == TypeInv /\ LockInv /\ WorkerInv /\ Held

\* All of the invariant but where the process is after its step.
Kept(p) ==
    /\ TypeInv /\ LockInv /\ Held /\ Agrees(p)
    /\ \A q \in Procs \ {p} : Worker(q)

LEMMA KeptInv ==
    ASSUME NEW p \in Procs, Kept(p)', Place(p)', Undo(p)', Seen(p)'
    PROVE  Inv'
BY DEF Kept, Inv, WorkerInv, Worker

\* A memory that agrees with the journal.
Knows(p, m) ==
    /\ m.known = journal[Tx(p)].known
    /\ m.known => \A f \in File : m.targets[f].prior = journal[Tx(p)].targets[f].prior
    /\ \A f \in File : Recorded(Tx(p), m, f)

LEMMA Holder ==
    ASSUME Inv, NEW p \in Procs, proc[p].pc \notin {"idle", "wait"}
    PROVE  /\ lock = p /\ Tx(p) \in Transactions /\ proc[p].request \in Requests
           /\ proc[p] \in Process /\ Mem(p) \in Journal /\ journal[Tx(p)] \in Journal
           /\ receipt[Tx(p)] \in Receipt
           /\ world \subseteq proc[p].moved /\ 1 \in File /\ 0 \notin File
           /\ Working(p) => receipt[Tx(p)].outcome \notin RolledBack /\ Knows(p, Mem(p))
<1>1. /\ lock = p /\ proc[p].request \in Requests /\ proc[p] \in Process
      /\ world \subseteq proc[p].moved
    BY DEF Inv, LockInv, TypeInv, WorkerInv, Worker, Seen
<1>2. Tx(p) \in Transactions BY <1>1 DEF Tx, Requests
<1>3. Mem(p) \in Journal BY <1>1, ProcessFacts DEF Mem
<1>4. Working(p) => receipt[Tx(p)].outcome \notin RolledBack /\ Knows(p, Mem(p))
    BY DEF Inv, WorkerInv, Worker, Agrees, Knows
<1>5. 1 \in File /\ 0 \notin File BY SettingFacts DEF Inv, TypeInv
<1> QED BY <1>1, <1>2, <1>3, <1>4, <1>5 DEF Inv, TypeInv

LEMMA MoveStep ==
    ASSUME Inv, NEW p \in Procs, proc[p].pc \notin {"idle", "wait"}, NEW r \in Process,
           Becomes(p, r), UNCHANGED <<live, owner, journal, receipt, lock, setting, world>>,
           r.request = proc[p].request, r.pc \notin {"idle", "wait", "open"},
           world \subseteq r.moved,
           receipt[Tx(p)].outcome \notin RolledBack, Knows(p, r.mem)
    PROVE  Kept(p)' /\ proc'[p] = r /\ Tx(p)' = Tx(p) /\ Mem(p)' = r.mem
<1>1. /\ lock = p /\ proc[p].request \in Requests /\ TypeInv /\ LockInv /\ WorkerInv /\ Held
    BY Holder DEF Inv
<1>2. /\ TypeInv' /\ LockInv' /\ \A q \in Procs \ {p} : Worker(q)'
      /\ proc'[p] = r /\ Tx(p)' = r.request.tx /\ Mem(p)' = r.mem
    BY <1>1, OneStep DEF Becomes, TypeInv
<1>3. Held' BY <1>1, HeldStays
<1>4. Tx(p)' = Tx(p) BY <1>2 DEF Tx
<1>5. Agrees(p)'
    BY <1>2, <1>4, Frame DEF Agrees, Knows, Recorded, Marked
<1> QED BY <1>2, <1>3, <1>4, <1>5 DEF Kept

LEMMA SaveStep ==
    ASSUME Inv, NEW p \in Procs, proc[p].pc \notin {"idle", "wait"},
           NEW j \in Journal, NEW r \in Process, r.mem = j,
           journal' = [journal EXCEPT ![Tx(p)] = j], Becomes(p, r),
           UNCHANGED <<live, owner, receipt, lock, setting, world>>,
           r.request = proc[p].request, r.pc \notin {"idle", "wait", "open"},
           world \subseteq r.moved, receipt[Tx(p)].outcome \notin RolledBack,
           j.phase = "none" => ~j.known, \A f \in File : Recorded(Tx(p), j, f)
    PROVE  /\ Kept(p)' /\ proc'[p] = r /\ Tx(p)' = Tx(p) /\ Mem(p)' = j
           /\ journal'[Tx(p)] = j
<1>1. /\ lock = p /\ proc[p].request \in Requests /\ TypeInv /\ LockInv /\ WorkerInv /\ Held
      /\ Tx(p) \in Transactions
    BY Holder DEF Inv
<1>j. journal' \in [Transactions -> Journal] /\ journal'[Tx(p)] = j BY <1>1 DEF TypeInv
<1>2. /\ TypeInv' /\ LockInv' /\ \A q \in Procs \ {p} : Worker(q)'
      /\ proc'[p] = r /\ Tx(p)' = r.request.tx /\ Mem(p)' = r.mem
    BY <1>1, <1>j, OneStep DEF Becomes, TypeInv
<1>3. Held' BY <1>1, HeldSaves
<1>4. Tx(p)' = Tx(p) BY <1>2 DEF Tx
<1>5. Agrees(p)'
    BY <1>2, <1>4, <1>j, Frame DEF Agrees, Recorded, Marked
<1> QED BY <1>2, <1>3, <1>4, <1>5, <1>j DEF Kept

LEMMA WriteStep ==
    ASSUME Inv, NEW p \in Procs, Working(p), NEW f \in File, NEW b \in Nat,
           NEW r \in Process, NEW m, r.mem = m, Becomes(p, r),
           live' = [live EXCEPT ![f] = b], owner' = [owner EXCEPT ![f] = Tx(p)],
           UNCHANGED <<journal, receipt, lock, setting, world>>,
           r.request = proc[p].request, r.pc \notin {"idle", "wait", "open"},
           world \subseteq r.moved,
           Mem(p).known,
           Marked(journal[Tx(p)], f) \/ b = Mem(p).targets[f].prior,
           Marked(m, f) \/ b = Mem(p).targets[f].prior,
           m.known,
           \A g \in File : m.targets[g].prior = Mem(p).targets[g].prior,
           \A g \in File : g # f /\ Marked(Mem(p), g) => Marked(m, g)
    PROVE  /\ Kept(p)' /\ proc'[p] = r /\ Tx(p)' = Tx(p) /\ Mem(p)' = m
           /\ live'[f] = b /\ \A g \in File \ {f} : live'[g] = live[g] /\ owner'[g] = owner[g]
<1>1. /\ lock = p /\ proc[p].request \in Requests /\ TypeInv /\ LockInv /\ WorkerInv /\ Held
      /\ Tx(p) \in Transactions /\ Knows(p, Mem(p)) /\ receipt[Tx(p)].outcome \notin RolledBack
    BY Holder DEF Inv, Working
<1>l. /\ live' \in [File -> Nat] /\ owner' \in [File -> Transactions \cup {0}]
      /\ live'[f] = b /\ owner'[f] = Tx(p)
      /\ \A g \in File \ {f} : live'[g] = live[g] /\ owner'[g] = owner[g]
    BY <1>1 DEF TypeInv
<1>2. /\ TypeInv' /\ LockInv' /\ \A q \in Procs \ {p} : Worker(q)'
      /\ proc'[p] = r /\ Tx(p)' = r.request.tx /\ Mem(p)' = m
    BY <1>1, <1>l, OneStep DEF Becomes, TypeInv
<1>3. Held' BY <1>1, HeldWrites DEF Knows
<1>4. Tx(p)' = Tx(p) BY <1>2 DEF Tx
<1>5. Agrees(p)'
    <2>1. /\ receipt'[Tx(p)].outcome \notin RolledBack /\ m.known = journal'[Tx(p)].known
          /\ \A g \in File : m.targets[g].prior = journal'[Tx(p)].targets[g].prior
        BY <1>1 DEF Knows
    <2>2. ASSUME NEW g \in File, owner'[g] = Tx(p)
          PROVE  Marked(m, g) \/ live'[g] = m.targets[g].prior
        BY <1>1, <1>l, <2>2 DEF Knows, Recorded
    <2> QED BY <1>2, <1>4, <2>1, <2>2, Frame DEF Agrees, Recorded, Marked
<1> QED BY <1>2, <1>3, <1>4, <1>5, <1>l DEF Kept

\* A process ends its transaction, or never began one.
LEMMA EndStep ==
    ASSUME Inv, NEW p \in Procs, NEW a \in Outcomes \cup {"none", "error"}, Becomes(p, Idle(a)),
           lock' \in Procs \cup {NoProc}, lock \in {NoProc, p} \/ lock' = lock,
           UNCHANGED <<live, owner, setting, world>>,
           journal' \in [Transactions -> Journal], receipt' \in [Transactions -> Receipt],
           lock = p \/ UNCHANGED <<journal, receipt>>, Held'
    PROVE  Inv'
<1>1. Idle(a) \in Process /\ Idle(a).pc = "idle" BY IdleFacts
<1>2. /\ TypeInv' /\ LockInv' /\ \A q \in Procs \ {p} : Worker(q)'
      /\ proc'[p] = Idle(a)
    BY <1>1, OneStep DEF Inv, Becomes, TypeInv
<1>3. Worker(p)'
    BY <1>1, <1>2 DEF Worker, Agrees, Place, Undo, Seen, Working, InTransaction
<1> QED BY <1>2, <1>3 DEF Inv, WorkerInv

-----------------------------------------------------------------------------
(* Opening a transaction.                                                  *)

\* A process that has not looked at its transaction yet.
LEMMA WaitStep ==
    ASSUME Inv, NEW p \in Procs, NEW r \in Process, Becomes(p, r),
           UNCHANGED <<Disk, setting, world>>, r.pc \in {"wait", "open"},
           lock' \in Procs \cup {NoProc}, lock \in {NoProc, p} \/ lock' = lock,
           r.pc = "open" => lock' = p,
           r.request \in Requests, world \subseteq r.moved, ~r.mem.known
    PROVE  Inv'
<1>1. /\ TypeInv' /\ LockInv' /\ \A q \in Procs \ {p} : Worker(q)'
      /\ proc'[p] = r
    BY OneStep DEF Inv, Becomes, Disk, TypeInv
<1>2. Held' BY HeldStays DEF Inv, Disk
<1>3. Worker(p)'
    BY <1>1 DEF Worker, Agrees, Place, Undo, Seen, Working, InTransaction
<1> QED BY <1>1, <1>2, <1>3 DEF Inv, WorkerInv

LEMMA StartKeeps ==
    ASSUME Inv, NEW p \in Procs, NEW q \in setting.requests, Start(p, q),
           UNCHANGED <<setting, world>>
    PROVE  Inv'
<1>0. setting \in Settings /\ world \subseteq setting.parts /\ lock \in Procs \cup {NoProc}
      /\ journal \in [Transactions -> Journal] /\ receipt \in [Transactions -> Receipt] /\ Held
    BY DEF Inv, TypeInv
<1>1. CASE Ready
    <2> DEFINE r == [Idle("none") EXCEPT !.pc = "wait", !.request = q]
    <2>1. q \in Requests /\ world = {} BY <1>0, <1>1, SettingFacts, ReadyFacts
    <2>2. Becomes(p, r) /\ UNCHANGED <<Disk, lock>> BY <1>1 DEF Start
    <2>3. r \in Process /\ r.pc = "wait" /\ r.request = q /\ r.mem = Blank
        <3>1. Idle("none") \in Process /\ Idle("none").mem = Blank BY IdleFacts
        <3> QED BY <2>1, <3>1 DEF Process, Pcs
    <2> HIDE DEF r
    <2> QED BY <1>0, <2>1, <2>2, <2>3, WaitStep, BlankFacts
<1>2. CASE ~Ready
    <2>1. Becomes(p, Idle("error")) /\ UNCHANGED <<Disk, lock>> BY <1>2 DEF Start
    <2>2. Held' BY <1>0, <2>1, HeldStays DEF Disk
    <2> QED BY <1>0, <2>1, <2>2, EndStep DEF Disk
<1> QED BY <1>1, <1>2

LEMMA LockKeeps ==
    ASSUME Inv, NEW p \in Procs, ExclusiveLock(p), UNCHANGED <<setting, world>>
    PROVE  Inv'
<1>0. /\ lock \in Procs \cup {NoProc} /\ Held /\ proc[p] \in Process /\ proc[p].pc = "wait"
      /\ journal \in [Transactions -> Journal] /\ receipt \in [Transactions -> Receipt]
      /\ UNCHANGED Disk
    BY DEF Inv, TypeInv, ExclusiveLock
<1>1. CASE lock = NoProc
    <2> DEFINE r == Goes(p, "open")
    <2>1. proc[p].request \in Requests /\ world \subseteq proc[p].moved /\ ~Mem(p).known
        BY <1>0 DEF Inv, LockInv, WorkerInv, Worker, Seen
    <2>2. /\ r \in Process /\ r.pc = "open" /\ r.request = proc[p].request
          /\ r.mem = Mem(p) /\ r.moved = proc[p].moved
        BY <1>0 DEF Goes, Process, Mem, Pcs
    <2>3. Becomes(p, r) /\ lock' = p BY <1>1 DEF ExclusiveLock
    <2> HIDE DEF r
    <2> QED BY <1>0, <1>1, <2>1, <2>2, <2>3, WaitStep
<1>2. CASE lock # NoProc
    <2>1. Becomes(p, Idle("error")) /\ UNCHANGED lock BY <1>2 DEF ExclusiveLock
    <2>2. Held' BY <1>0, <2>1, HeldStays DEF Disk
    <2> QED BY <1>0, <2>1, <2>2, EndStep DEF Disk
<1> QED BY <1>1, <1>2

\* A transaction that ends without a write.
LEMMA EndsKeeps ==
    ASSUME Inv, NEW p \in Procs, proc[p].pc \notin {"idle", "wait"},
           NEW a \in Outcomes \cup {"none", "error"}, Ends(p, a),
           UNCHANGED <<live, owner, journal, receipt, setting, world>>
    PROVE  Inv'
<1>1. /\ lock = p /\ Held /\ lock' = NoProc /\ Becomes(p, Idle(a))
      /\ journal \in [Transactions -> Journal] /\ receipt \in [Transactions -> Receipt]
    BY Holder DEF Inv, TypeInv, Ends
<1>2. Held' BY <1>1, HeldStays
<1> QED BY <1>1, <1>2, EndStep

\* What a process finds of its transaction.
LEMMA OpenFacts ==
    ASSUME Inv, NEW p \in Procs, proc[p].pc = "open", receipt[Tx(p)].outcome = "none"
    PROVE  /\ receipt[Tx(p)].outcome \notin RolledBack /\ ~Mem(p).known
           /\ Knows(p, journal[Tx(p)]) /\ journal[Tx(p)] \in Journal
           /\ journal[Tx(p)].phase = "none" =>
                /\ ~journal[Tx(p)].known /\ \A f \in File : owner[f] # Tx(p)
                /\ Knows(p, Mem(p))
<1>1. Tx(p) \in Transactions /\ journal[Tx(p)] \in Journal /\ ~Mem(p).known
    BY Holder DEF Inv, LockInv
<1>2. \A f \in File : Recorded(Tx(p), journal[Tx(p)], f)
    BY <1>1 DEF Inv, Held, JournalInv
<1>3. journal[Tx(p)].phase = "none" => ~journal[Tx(p)].known
    BY <1>1 DEF Inv, Held, JournalInv
<1>4. \A f \in File : ~journal[Tx(p)].known => owner[f] # Tx(p) BY <1>2 DEF Recorded
<1>5. Knows(p, journal[Tx(p)]) BY <1>2 DEF Knows
<1>6. ~journal[Tx(p)].known => Knows(p, Mem(p))
    <2>1. Mem(p).known \in BOOLEAN /\ journal[Tx(p)].known \in BOOLEAN
        BY Holder, JournalFacts
    <2> QED BY <1>1, <1>4, <2>1 DEF Knows, Recorded
<1> QED BY <1>1, <1>3, <1>4, <1>5, <1>6 DEF RolledBack

\* Compensation begins at the last file that is known.
LEMMA RollsBackKeeps ==
    ASSUME Inv, NEW p \in Procs, proc[p].pc \notin {"idle", "wait"}, NEW j \in Journal,
           NEW w \in Whys,
           Becomes(p, RollsBack(p, j, w)),
           UNCHANGED <<live, owner, journal, receipt, lock, setting, world>>,
           receipt[Tx(p)].outcome \notin RolledBack, Knows(p, j)
    PROVE  Inv'
<1> DEFINE n == IF j.known THEN setting.files ELSE 0
           r == RollsBack(p, j, w)
<1>1. n \in File \cup {0} /\ (n = 0 => ~j.known) /\ \A f \in File : ~(f > setting.files)
    <2>1. setting.files \in File /\ 0 \notin File /\ setting.files \in Nat
        BY SettingFacts DEF Inv, TypeInv
    <2>2. \A f \in 1 .. setting.files : ~(f > setting.files) BY <2>1
    <2> QED BY <2>1, <2>2 DEF File
<1>2. /\ r \in Process /\ r.pc = "inspect" /\ r.request = proc[p].request
      /\ r.mem = j /\ r.at = n /\ r.moved = proc[p].moved
    <2> HIDE DEF n
    <2>1. "inspect" \in Pcs /\ proc[p] \in Process BY Holder DEF Pcs
    <2>2. r = [proc[p] EXCEPT !.pc = "inspect", !.at = n, !.why = w, !.mem = j]
        BY DEF RollsBack, n
    <2> HIDE DEF r
    <2> QED BY <1>1, <2>1, <2>2 DEF Process, Whys
<1> HIDE DEF r
<1>3. Kept(p)' /\ proc'[p] = r /\ Tx(p)' = Tx(p) /\ Mem(p)' = j
    BY <1>2, Holder, MoveStep DEF r
<1>4. Undo(p)'
    <2>1. \A f \in File : f > n => Restored(Tx(p), j, f)
        BY <1>1 DEF Knows, Recorded, Restored
    <2> QED BY <1>1, <1>2, <1>3, <2>1, Frame DEF Undo, Restored
<1>5. Place(p)' /\ Seen(p)' BY <1>2, <1>3, Holder DEF Place, Seen, InTransaction
<1> QED BY <1>3, <1>4, <1>5, KeptInv

\* What a process that goes on keeps of its record.
LEMMA GoesFacts ==
    ASSUME NEW p, proc[p] \in Process, NEW c \in Pcs
    PROVE  /\ Goes(p, c) \in Process /\ Goes(p, c).pc = c /\ Goes(p, c).mem = Mem(p)
           /\ Goes(p, c).request = proc[p].request /\ Goes(p, c).moved = proc[p].moved
           /\ Goes(p, c).at = proc[p].at /\ Goes(p, c).failed = proc[p].failed
           /\ Goes(p, c).seen = proc[p].seen /\ Goes(p, c).why = proc[p].why
BY DEF Goes, Process, Mem

LEMMA AtFacts ==
    ASSUME NEW p, Mem(p) \in Journal, NEW x \in Phases
    PROVE  /\ At(p, x) \in Journal /\ At(p, x).phase = x /\ At(p, x).known = Mem(p).known
           /\ At(p, x).targets = Mem(p).targets
BY DEF At, Journal, Targets

LEMMA SaveKeeps ==
    ASSUME Inv, NEW p \in Procs, proc[p].pc \notin {"idle", "wait"},
           NEW j \in Journal, NEW r \in Process, SaveJournal(p, j, r),
           r.request = proc[p].request, r.pc \notin {"idle", "wait", "open"},
           world \subseteq r.moved, receipt[Tx(p)].outcome \notin RolledBack,
           j.phase = "none" => ~j.known, \A f \in File : Recorded(Tx(p), j, f)
    PROVE  /\ Kept(p)' /\ Tx(p)' = Tx(p) /\ Mem(p)' = j /\ journal'[Tx(p)] = j
           /\ UNCHANGED <<live, owner, world, setting>>
           /\ File' = File /\ Program' = Program /\ proc'[p].request = proc[p].request
           /\ proc'[p].pc = r.pc /\ proc'[p].at = r.at /\ proc'[p].failed = r.failed
           /\ proc'[p].seen = r.seen /\ proc'[p].moved = r.moved /\ proc'[p].why = r.why
<1> DEFINE s == [r EXCEPT !.mem = j]
<1>1. /\ s \in Process /\ s.mem = j /\ s.request = r.request /\ s.pc = r.pc /\ s.at = r.at
      /\ s.failed = r.failed /\ s.seen = r.seen /\ s.moved = r.moved /\ s.why = r.why
    BY DEF Process
<1>2. /\ journal' = [journal EXCEPT ![Tx(p)] = j] /\ Becomes(p, s)
      /\ UNCHANGED <<live, owner, receipt, lock, setting, world>>
    BY DEF SaveJournal, Files, Outside
<1> HIDE DEF s
<1>3. /\ Kept(p)' /\ proc'[p] = s /\ Tx(p)' = Tx(p) /\ Mem(p)' = j /\ journal'[Tx(p)] = j
    BY <1>1, <1>2, SaveStep
<1> QED BY <1>1, <1>2, <1>3, Frame

-----------------------------------------------------------------------------
(* A receipt or a journal of an earlier run.                               *)

LEMMA ReplayKeeps ==
    ASSUME Inv, NEW p \in Procs, AuthorityReplay(p) \/ PolicyReplay(p) \/ BomReplay(p)
    PROVE  Inv'
<1>1. PICK a \in Outcomes \cup {"none", "error"} : Ends(p, a)
    <2>1. \A h \in BOOLEAN : Replay(p, h) => \E a \in Outcomes \cup {"none", "error"} : Ends(p, a)
        BY Holder DEF Replay, Receipt
    <2> QED BY <2>1 DEF AuthorityReplay, PolicyReplay, BomReplay, Replay
<1>2. proc[p].pc = "open" /\ UNCHANGED <<Disk, Outside>>
    BY DEF AuthorityReplay, PolicyReplay, BomReplay, Replay
<1> QED BY <1>1, <1>2, EndsKeeps DEF Disk, Outside

LEMMA RefusedKeeps ==
    ASSUME Inv, NEW p \in Procs, Rebinding(p) \/ Unusable(p)
    PROVE  Inv'
BY EndsKeeps DEF Rebinding, Interrupted, Unusable, Untaken, Disk, Outside

LEMMA AuthorityRecoveryKeeps ==
    ASSUME Inv, NEW p \in Procs, AuthorityRecovery(p)
    PROVE  Inv'
<1>1. /\ proc[p].pc = "open" /\ receipt[Tx(p)].outcome = "none"
      /\ Becomes(p, RollsBack(p, journal[Tx(p)], "recovery")) /\ UNCHANGED <<Disk, lock, Outside>>
    BY DEF AuthorityRecovery, Interrupted
<1> QED BY <1>1, OpenFacts, RollsBackKeeps DEF Disk, Outside, Whys

LEMMA BomRecoveryKeeps ==
    ASSUME Inv, NEW p \in Procs, BomRecovery(p)
    PROVE  Inv'
<1>1. proc[p].pc = "open" /\ receipt[Tx(p)].outcome = "none" /\ UNCHANGED <<Disk, Outside>>
    BY DEF BomRecovery, Interrupted
<1>2. \/ Becomes(p, RollsBack(p, journal[Tx(p)], "recovery")) /\ UNCHANGED lock
      \/ Ends(p, "error")
    BY DEF BomRecovery
<1>3. ASSUME Becomes(p, RollsBack(p, journal[Tx(p)], "recovery")), UNCHANGED lock PROVE Inv'
    BY <1>1, <1>3, OpenFacts, RollsBackKeeps DEF Disk, Outside, Whys
<1>4. ASSUME Ends(p, "error") PROVE Inv' BY <1>1, <1>4, EndsKeeps DEF Disk, Outside
<1> QED BY <1>2, <1>3, <1>4

LEMMA PolicyRecoveryKeeps ==
    ASSUME Inv, NEW p \in Procs, PolicyRecovery(p)
    PROVE  Inv'
<1> DEFINE j == journal[Tx(p)]
           k == [j EXCEPT !.phase = "PRECONDITION_FAILED"]
           r == [Goes(p, "settle") EXCEPT !.why = "precondition"]
<1>1. /\ proc[p].pc = "open" /\ receipt[Tx(p)].outcome = "none" /\ Program = "policy"
      /\ \/ j.phase \in BeforePromotion /\ SaveJournal(p, k, r)
         \/ Becomes(p, RollsBack(p, j, "recovery")) /\ UNCHANGED <<Disk, lock, Outside>>
    BY DEF PolicyRecovery, Interrupted
<1>2. ASSUME Becomes(p, RollsBack(p, j, "recovery")), UNCHANGED <<Disk, lock, Outside>>
      PROVE  Inv'
    BY <1>1, <1>2, OpenFacts, RollsBackKeeps DEF Disk, Outside, Whys
<1>3. ASSUME j.phase \in BeforePromotion, SaveJournal(p, k, r) PROVE Inv'
    <2>1. /\ j \in Journal /\ Knows(p, j) /\ receipt[Tx(p)].outcome \notin RolledBack
          /\ proc[p] \in Process /\ world \subseteq proc[p].moved
        BY <1>1, OpenFacts, Holder
    <2>2. /\ k \in Journal /\ k.phase = "PRECONDITION_FAILED" /\ k.known = j.known
          /\ k.targets = j.targets
        BY <2>1 DEF Journal, Phases
    <2>3. r \in Process /\ r.pc = "settle" /\ r.request = proc[p].request /\ r.moved = proc[p].moved
        BY <2>1 DEF Goes, Process, Pcs
    <2>4. \A f \in File : Restored(Tx(p), k, f) /\ Recorded(Tx(p), k, f)
        BY <1>1, <1>3, <2>1, <2>2 DEF Knows, Recorded, Restored, Marked
    <2> HIDE DEF j, k, r
    <2>5. /\ Kept(p)' /\ Tx(p)' = Tx(p) /\ Mem(p)' = k /\ proc'[p].pc = "settle"
          /\ UNCHANGED <<live, owner, world, setting>> /\ proc'[p].moved = proc[p].moved
          /\ File' = File
        BY <1>1, <1>3, <2>1, <2>2, <2>3, <2>4, SaveKeeps
    <2>6. Undo(p)' BY <2>2, <2>4, <2>5 DEF Undo, Restored
    <2>7. Place(p)' /\ Seen(p)' BY <2>1, <2>5 DEF Place, Seen, InTransaction
    <2> QED BY <2>5, <2>6, <2>7, KeptInv
<1> QED BY <1>1, <1>2, <1>3

-----------------------------------------------------------------------------
(* A new transaction.                                                      *)

LEMMA ExpectsEdit ==
    ASSUME 1 \in File, NEW j \in Journal, NEW e \in Nat,
           NEW k, k = [j EXCEPT !.known = TRUE, !.targets[1].prior = e,
                                !.targets[1].backup = e]
    PROVE  k \in Journal /\ k.known
<1> DEFINE t == [j.targets[1] EXCEPT !.prior = e, !.backup = e]
           b == [j.targets EXCEPT ![1] = t]
<1>1. /\ j.targets \in Targets
      /\ j.targets[1] \in [prior: Nat, backup: Nat, started: BOOLEAN, promoted: BOOLEAN]
    BY DEF Journal, Targets
<1>2. t \in [prior: Nat, backup: Nat, started: BOOLEAN, promoted: BOOLEAN] BY <1>1
<1>3. b \in Targets
    <2> HIDE DEF t
    <2> QED BY <1>1, <1>2 DEF Targets
<1>4. k = [j EXCEPT !.known = TRUE, !.targets = b] BY <1>1 DEF Journal, Targets
<1> HIDE DEF b
<1> QED BY <1>3, <1>4 DEF Journal

LEMMA BackupEdit ==
    ASSUME 1 \in File, NEW j \in Journal, NEW b \in Nat,
           NEW k, k = [j EXCEPT !.targets[1].backup = b]
    PROVE  k \in Journal /\ k.known = j.known /\ k.phase = j.phase
BY DEF Journal, Targets

LEMMA UntakenFacts ==
    ASSUME Inv, NEW p \in Procs, Untaken(p)
    PROVE  /\ proc[p].pc = "open" /\ receipt[Tx(p)].outcome \notin RolledBack
           /\ \A f \in File : owner[f] # Tx(p)
           /\ ~Mem(p).known /\ Knows(p, Mem(p))
           /\ Fresh(p) \in Journal /\ ~Fresh(p).known
           /\ Expects(p) \in Journal /\ Expects(p).known
           /\ \A j \in Journal : \A f \in File : Recorded(Tx(p), j, f)
<1>1. proc[p].pc = "open" /\ receipt[Tx(p)].outcome = "none" /\ journal[Tx(p)].phase = "none"
    BY DEF Untaken
<1>2. proc[p].request \in Requests /\ 1 \in File BY <1>1, Holder
<1>3. Fresh(p) \in Journal /\ ~Fresh(p).known BY <1>2, BlankFacts DEF Fresh
<1>4. Expects(p) \in Journal /\ Expects(p).known
    <2>1. proc[p].request.expected \in Nat BY <1>2 DEF Requests
    <2> QED BY <1>2, <1>3, <2>1, ExpectsEdit DEF Expects
<1>5. \A f \in File : owner[f] # Tx(p) BY <1>1, OpenFacts
<1> QED BY <1>1, <1>3, <1>4, <1>5, OpenFacts DEF Recorded

LEMMA NewJournalKeeps ==
    ASSUME Inv, NEW p \in Procs, NewJournal(p)
    PROVE  Inv'
<1> DEFINE j == [Fresh(p) EXCEPT !.phase = "LOCK_ACQUIRED"]
           r == Goes(p, "capture")
<1>1. SaveJournal(p, j, r) /\ Untaken(p) /\ Program = "authority" BY DEF NewJournal
<1>2. j \in Journal /\ j.phase = "LOCK_ACQUIRED" /\ ~j.known
    BY <1>1, UntakenFacts, PhaseEdit DEF Phases
<1>3. proc[p].pc = "open" /\ proc[p] \in Process /\ world \subseteq proc[p].moved
    BY <1>1, UntakenFacts, Holder
<1>4. /\ r \in Process /\ r.pc = "capture" /\ r.request = proc[p].request
      /\ r.moved = proc[p].moved
    BY <1>3, GoesFacts DEF Pcs
<1> HIDE DEF j, r
<1>5. /\ Kept(p)' /\ Tx(p)' = Tx(p) /\ Mem(p)' = j /\ proc'[p].pc = "capture"
      /\ UNCHANGED <<live, owner, world, setting>> /\ proc'[p].moved = proc[p].moved
      /\ Program' = "authority"
    BY <1>1, <1>2, <1>3, <1>4, UntakenFacts, SaveKeeps
<1>6. Place(p)' /\ Undo(p)' /\ Seen(p)' BY <1>2, <1>3, <1>5 DEF Place, Undo, Seen, InTransaction
<1> QED BY <1>5, <1>6, KeptInv

LEMMA PolicyBeginKeeps ==
    ASSUME Inv, NEW p \in Procs, PolicyBegin(p)
    PROVE  Inv'
<1> DEFINE j == [Expects(p) EXCEPT !.phase = "LOCK_ACQUIRED"]
<1>1. Untaken(p) /\ Program = "policy" BY DEF PolicyBegin
<1>2. j \in Journal /\ j.phase = "LOCK_ACQUIRED" /\ j.known
    BY <1>1, UntakenFacts, PhaseEdit DEF Phases
<1>3. proc[p].pc = "open" /\ proc[p] \in Process /\ world \subseteq proc[p].moved
    BY <1>1, UntakenFacts, Holder
<1>4. PICK r \in Process : /\ SaveJournal(p, j, r) /\ r.pc \in {"stage", "refuse"}
                           /\ r.request = proc[p].request /\ r.moved = proc[p].moved
    <2> DEFINE s == [Goes(p, "refuse") EXCEPT !.why = "precondition"]
    <2>1. SaveJournal(p, j, Goes(p, "stage")) \/ SaveJournal(p, j, s) BY DEF PolicyBegin
    <2>2. /\ s \in Process /\ s.pc = "refuse" /\ s.request = proc[p].request
          /\ s.moved = proc[p].moved
        BY <1>3 DEF Goes, Process, Pcs
    <2>3. /\ Goes(p, "stage") \in Process /\ Goes(p, "stage").pc = "stage"
          /\ Goes(p, "stage").request = proc[p].request /\ Goes(p, "stage").moved = proc[p].moved
        BY <1>3, GoesFacts DEF Pcs
    <2> HIDE DEF j, s
    <2> QED BY <2>1, <2>2, <2>3
<1> HIDE DEF j
<1>5. /\ Kept(p)' /\ Tx(p)' = Tx(p) /\ Mem(p)' = j /\ proc'[p].pc \in {"stage", "refuse"}
      /\ UNCHANGED <<live, owner, world, setting>> /\ proc'[p].moved = proc[p].moved
      /\ Program' = "policy"
    BY <1>1, <1>2, <1>3, <1>4, UntakenFacts, SaveKeeps
<1>6. Place(p)' /\ Undo(p)' /\ Seen(p)'
    BY <1>2, <1>3, <1>5 DEF Place, Undo, Seen, InTransaction, BeforePromotion
<1> QED BY <1>5, <1>6, KeptInv

LEMMA BomBeginKeeps ==
    ASSUME Inv, NEW p \in Procs, BomBegin(p)
    PROVE  Inv'
<1>1. /\ Untaken(p) /\ Program = "bom"
      /\ UNCHANGED <<live, owner, journal, receipt, world, setting>>
      /\ (Becomes(p, Goes(p, "backup")) /\ UNCHANGED lock) \/ Ends(p, "error")
    BY DEF BomBegin, Files, Outside
<1>2. /\ proc[p].pc = "open" /\ proc[p] \in Process /\ world \subseteq proc[p].moved
      /\ ~Mem(p).known /\ Knows(p, Mem(p)) /\ Mem(p) \in Journal
      /\ receipt[Tx(p)].outcome \notin RolledBack /\ \A f \in File : owner[f] # Tx(p)
    BY <1>1, UntakenFacts, Holder
<1>3. ASSUME Becomes(p, Goes(p, "backup")), UNCHANGED lock PROVE Inv'
    <2> DEFINE r == Goes(p, "backup")
    <2>1. /\ r \in Process /\ r.pc = "backup" /\ r.request = proc[p].request
          /\ r.moved = proc[p].moved /\ r.mem = Mem(p)
        BY <1>2, GoesFacts DEF Pcs
    <2> HIDE DEF r
    <2>2. Kept(p)' /\ proc'[p] = r /\ Tx(p)' = Tx(p) /\ Mem(p)' = r.mem
        BY <1>1, <1>2, <1>3, <2>1, MoveStep DEF r
    <2>3. Program' = "bom" /\ File' = File BY <1>1, Frame
    <2>4. Mem(p).known = FALSE BY <1>2, JournalFacts
    <2>5. Place(p)' /\ Undo(p)' /\ Seen(p)'
        BY <1>1, <1>2, <2>1, <2>2, <2>3, <2>4 DEF Place, Undo, Seen, InTransaction
    <2> QED BY <2>2, <2>5, KeptInv
<1>4. ASSUME Ends(p, "error") PROVE Inv' BY <1>1, <1>2, <1>4, EndsKeeps
<1> QED BY <1>1, <1>3, <1>4

-----------------------------------------------------------------------------
(* Steps within a transaction.                                             *)

\* The journal is saved with another phase.
LEMMA PhaseKeeps ==
    ASSUME Inv, NEW p \in Procs, Working(p), NEW x \in Phases \ {"none"},
           NEW r \in Process, SaveJournal(p, At(p, x), r),
           r.request = proc[p].request, r.pc \notin {"idle", "wait", "open"},
           world \subseteq r.moved,
           Program = "policy" /\ x \in BeforePromotion => Mem(p).phase \in BeforePromotion
    PROVE  /\ Kept(p)' /\ Tx(p)' = Tx(p)
           /\ Mem(p)'.phase = x /\ Mem(p)'.known = Mem(p).known /\ Mem(p)'.targets = Mem(p).targets
           /\ journal'[Tx(p)] = Mem(p)'
           /\ UNCHANGED <<live, owner, world, setting>>
           /\ File' = File /\ Program' = Program /\ proc'[p].request = proc[p].request
           /\ proc'[p].pc = r.pc /\ proc'[p].at = r.at /\ proc'[p].failed = r.failed
           /\ proc'[p].seen = r.seen /\ proc'[p].moved = r.moved /\ proc'[p].why = r.why
<1>1. /\ proc[p].pc \notin {"idle", "wait"} /\ Mem(p) \in Journal
      /\ receipt[Tx(p)].outcome \notin RolledBack /\ Knows(p, Mem(p))
    BY Holder DEF Working
<1> DEFINE j == At(p, x)
<1>2. j \in Journal /\ j.phase = x /\ j.known = Mem(p).known /\ j.targets = Mem(p).targets
    BY <1>1, AtFacts
<1>3. \A f \in File : Recorded(Tx(p), j, f)
    BY <1>1, <1>2 DEF Knows, Recorded, Marked
<1>4. SaveJournal(p, j, r) OBVIOUS
<1> HIDE DEF j
<1> QED BY <1>1, <1>2, <1>3, <1>4, SaveKeeps

LEMMA ExceptKeeps ==
    ASSUME Inv, NEW p \in Procs, proc[p].pc \in InTransaction, NEW r \in Process, Becomes(p, r),
           UNCHANGED <<live, owner, journal, receipt, lock, setting, world>>,
           r.pc = "except", r.request = proc[p].request, r.mem = Mem(p), r.moved = proc[p].moved
    PROVE  Inv'
<1>1. proc[p].pc \notin {"idle", "wait"} /\ Working(p) BY DEF InTransaction, Working
<1>2. /\ proc[p] \in Process /\ world \subseteq proc[p].moved
      /\ receipt[Tx(p)].outcome \notin RolledBack /\ Knows(p, Mem(p)) /\ Place(p)
    BY <1>1, Holder DEF Inv, WorkerInv, Worker
<1>3. Kept(p)' /\ proc'[p] = r /\ Tx(p)' = Tx(p) /\ Mem(p)' = r.mem
    BY <1>1, <1>2, MoveStep
<1>4. Place(p)' /\ Undo(p)' /\ Seen(p)'
    BY <1>2, <1>3, Frame DEF Place, Undo, Seen, InTransaction
<1> QED BY <1>3, <1>4, KeptInv

LEMMA RaisesKeeps ==
    ASSUME Inv, NEW p \in Procs, proc[p].pc \in InTransaction, NEW w \in Whys, Raises(p, w)
    PROVE  Inv'
<1> DEFINE r == [proc[p] EXCEPT !.pc = "except", !.why = w]
<1>1. /\ Becomes(p, r) /\ UNCHANGED <<live, owner, journal, receipt, lock, setting, world>>
    BY DEF Raises, Disk, Outside
<1>2. proc[p] \in Process BY DEF Inv, TypeInv
<1>3. /\ r \in Process /\ r.pc = "except" /\ r.request = proc[p].request /\ r.mem = Mem(p)
      /\ r.moved = proc[p].moved
    BY <1>2 DEF Process, Mem, Whys, Pcs
<1> HIDE DEF r
<1> QED BY <1>1, <1>3, ExceptKeeps

\* A process in its transaction, and what is known there.
LEMMA Within ==
    ASSUME Inv, NEW p \in Procs, Working(p)
    PROVE  /\ proc[p] \in Process /\ world \subseteq proc[p].moved /\ Mem(p) \in Journal
           /\ receipt[Tx(p)].outcome \notin RolledBack /\ Knows(p, Mem(p))
           /\ Agrees(p) /\ Place(p) /\ Undo(p) /\ Seen(p)
           /\ setting \in Settings /\ world \subseteq setting.parts
           /\ 1 \in File /\ 0 \notin File /\ proc[p].pc \notin {"idle", "wait", "open"}
           /\ proc[p].request \in Requests /\ Tx(p) \in Transactions
           /\ ~Mem(p).known => \A f \in File : owner[f] # Tx(p)
BY Holder DEF Inv, WorkerInv, Worker, Working, TypeInv, Knows, Recorded

-----------------------------------------------------------------------------
(* The authority bundle.                                                   *)

\* What is read before there are targets in the journal.
LEMMA CapturedKeeps ==
    ASSUME Inv, NEW p \in Procs, proc[p].pc \in {"capture", "backup"}, Program # "policy",
           NEW m \in Journal, ~m.known, NEW c \in {"backup", "prepare"},
           c = "prepare" => Program = "bom",
           Becomes(p, [Goes(p, c) EXCEPT !.mem = m]),
           UNCHANGED <<live, owner, journal, receipt, lock, setting, world>>
    PROVE  Inv'
<1> DEFINE r == [Goes(p, c) EXCEPT !.mem = m]
<1>1. Working(p) BY DEF Working
<1>2. /\ ~Mem(p).known /\ \A f \in File : owner[f] # Tx(p)
    BY <1>1, Within DEF Place
<1>3. m.known = FALSE /\ Mem(p).known = FALSE BY <1>1, <1>2, Within, JournalFacts
<1>4. Knows(p, m) BY <1>1, <1>2, <1>3, Within DEF Knows, Recorded
<1>5. /\ r \in Process /\ r.pc = c /\ r.request = proc[p].request /\ r.moved = proc[p].moved
      /\ r.mem = m
    <2>1. proc[p] \in Process /\ c \in Pcs BY <1>1, Within DEF Pcs
    <2> QED BY <2>1 DEF Goes, Process
<1> HIDE DEF r
<1>6. Kept(p)' /\ proc'[p] = r /\ Tx(p)' = Tx(p) /\ Mem(p)' = m
    <2>1. Becomes(p, r) BY DEF r
    <2>2. /\ proc[p].pc \notin {"idle", "wait"} /\ r.pc \notin {"idle", "wait", "open"}
          /\ world \subseteq r.moved /\ receipt[Tx(p)].outcome \notin RolledBack
        BY <1>1, <1>5, Within
    <2> QED BY <1>4, <1>5, <2>1, <2>2, MoveStep
<1>7. Program' = Program /\ File' = File BY Frame
<1>8. Place(p)' /\ Undo(p)' /\ Seen(p)'
    BY <1>1, <1>2, <1>3, <1>5, <1>6, <1>7, Within DEF Place, Undo, Seen, InTransaction
<1> QED BY <1>6, <1>8, KeptInv

LEMMA PathStateKeeps ==
    ASSUME Inv, NEW p \in Procs, PathState(p)
    PROVE  Inv'
<1> DEFINE b == [f \in File |-> [Untouched[f] EXCEPT !.prior = live[f], !.backup = live[f]]]
           m == [Mem(p) EXCEPT !.targets = b]
<1>1. /\ proc[p].pc = "capture" /\ Program = "authority" /\ Working(p)
      /\ UNCHANGED <<live, owner, journal, receipt, lock, setting, world>>
    BY DEF PathState, Working, Disk, Outside
<1>2. ~Mem(p).known /\ Mem(p) \in Journal /\ proc[p] \in Process BY <1>1, Within DEF Place
<1>3. b \in Targets
    <2>1. \A f \in File : live[f] \in Nat BY DEF Inv, TypeInv
    <2> QED BY <2>1 DEF Targets, Untouched
<1>4. Becomes(p, [Goes(p, "backup") EXCEPT !.mem = m])
    <2>1. [Goes(p, "backup") EXCEPT !.mem.targets = b] = [Goes(p, "backup") EXCEPT !.mem = m]
        <3> HIDE DEF b
        <3> QED BY <1>2 DEF Goes, Mem, Process
    <2> QED BY <2>1 DEF PathState
<1>5. m \in Journal /\ ~m.known
    <2> HIDE DEF b
    <2> QED BY <1>2, <1>3 DEF Journal
<1> HIDE DEF m
<1> QED BY <1>1, <1>4, <1>5, CapturedKeeps

LEMMA TargetRecordsKeeps ==
    ASSUME Inv, NEW p \in Procs, TargetRecords(p)
    PROVE  Inv'
<1> DEFINE j == [At(p, "PREFLIGHT_VERIFIED") EXCEPT !.known = TRUE]
           r == Goes(p, "stage")
<1>1. /\ proc[p].pc = "backup" /\ Working(p) /\ Program = "authority"
      /\ SaveJournal(p, j, r) \/ Raises(p, "precondition")
    BY DEF TargetRecords, Working
<1>2. ASSUME SaveJournal(p, j, r) PROVE Inv'
    <2>1. ~Mem(p).known /\ \A f \in File : owner[f] # Tx(p) BY <1>1, Within DEF Place
    <2>2. j \in Journal /\ j.phase = "PREFLIGHT_VERIFIED" /\ j.known
        BY <1>1, Within DEF At, Journal, Phases
    <2>3. /\ r \in Process /\ r.pc = "stage" /\ r.request = proc[p].request
          /\ r.moved = proc[p].moved
        BY <1>1, Within, GoesFacts DEF Pcs
    <2>4. \A f \in File : Recorded(Tx(p), j, f) BY <2>1 DEF Recorded
    <2> HIDE DEF j, r
    <2>5. /\ Kept(p)' /\ Tx(p)' = Tx(p) /\ Mem(p)' = j /\ proc'[p].pc = "stage"
          /\ UNCHANGED <<live, owner, world, setting>> /\ proc'[p].moved = proc[p].moved
          /\ Program' = "authority"
        BY <1>1, <1>2, <2>2, <2>3, <2>4, Within, SaveKeeps
    <2>6. Place(p)' /\ Undo(p)' /\ Seen(p)'
        BY <1>1, <2>2, <2>5, Within DEF Place, Undo, Seen, InTransaction
    <2> QED BY <2>5, <2>6, KeptInv
<1>3. ASSUME Raises(p, "precondition") PROVE Inv'
    BY <1>1, <1>3, RaisesKeeps DEF InTransaction, Whys
<1> QED BY <1>1, <1>2, <1>3

LEMMA StageSourcesKeeps ==
    ASSUME Inv, NEW p \in Procs, StageSources(p)
    PROVE  Inv'
<1> DEFINE r == Goes(p, "prepare")
<1>1. /\ proc[p].pc = "stage" /\ Working(p) /\ Program = "authority"
      /\ SaveJournal(p, At(p, "STAGE_VERIFIED"), r)
    BY DEF StageSources, Working
<1>2. /\ r \in Process /\ r.pc = "prepare" /\ r.request = proc[p].request
      /\ r.moved = proc[p].moved
    BY <1>1, Within, GoesFacts DEF Pcs
<1> HIDE DEF r
<1>3. /\ Kept(p)' /\ Mem(p)'.known = Mem(p).known /\ proc'[p].pc = "prepare"
      /\ UNCHANGED <<live, owner, world, setting>> /\ proc'[p].moved = proc[p].moved
      /\ Program' = "authority"
    BY <1>1, <1>2, Within, PhaseKeeps DEF Phases
<1>4. Mem(p).known = TRUE BY <1>1, Within, JournalFacts DEF Place
<1>5. Place(p)' /\ Undo(p)' /\ Seen(p)'
    BY <1>1, <1>3, <1>4, Within DEF Place, Undo, Seen, InTransaction
<1> QED BY <1>3, <1>5, KeptInv

LEMMA VerifyPreconditionsKeeps ==
    ASSUME Inv, NEW p \in Procs, VerifyPreconditions(p)
    PROVE  Inv'
<1> DEFINE r == [Goes(p, "mark") EXCEPT !.at = 1]
<1>1. /\ proc[p].pc = "prepare" /\ Working(p) /\ Program = "authority"
      /\ SaveJournal(p, At(p, "PROMOTION_PREPARED"), r) \/ Raises(p, "precondition")
    BY DEF VerifyPreconditions, Working
<1>2. ASSUME SaveJournal(p, At(p, "PROMOTION_PREPARED"), r) PROVE Inv'
    <2>1. /\ r \in Process /\ r.pc = "mark" /\ r.request = proc[p].request
          /\ r.moved = proc[p].moved /\ r.at = 1
        BY <1>1, Within DEF Goes, Process, Pcs
    <2> HIDE DEF r
    <2>2. /\ Kept(p)' /\ Mem(p)'.known = Mem(p).known /\ proc'[p].pc = "mark" /\ proc'[p].at = 1
          /\ UNCHANGED <<live, owner, world, setting>> /\ proc'[p].moved = proc[p].moved
          /\ Program' = "authority" /\ File' = File
        BY <1>1, <1>2, <2>1, Within, PhaseKeeps DEF Phases
    <2>3. Mem(p).known BY <1>1, Within DEF Place
    <2>4. Place(p)' /\ Undo(p)' /\ Seen(p)'
        BY <1>1, <2>2, <2>3, Within DEF Place, Undo, Seen, InTransaction
    <2> QED BY <2>2, <2>4, KeptInv
<1>3. ASSUME Raises(p, "precondition") PROVE Inv'
    BY <1>1, <1>3, RaisesKeeps DEF InTransaction, Whys
<1> QED BY <1>1, <1>2, <1>3

LEMMA PromoteMarkKeeps ==
    ASSUME Inv, NEW p \in Procs, PromoteMark(p)
    PROVE  Inv'
<1> DEFINE f == proc[p].at
           k == At(p, "PROMOTING")
           j == [k EXCEPT !.targets[f].started = TRUE]
           r == Goes(p, "boundary")
<1>1. /\ proc[p].pc = "mark" /\ Working(p) /\ Program = "authority"
      /\ SaveJournal(p, j, r) \/ Raises(p, "precondition")
    BY DEF PromoteMark, Working
<1>2. ASSUME SaveJournal(p, j, r) PROVE Inv'
    <2>1. f \in File /\ Mem(p).known BY <1>1, Within DEF Place
    <2>2. k \in Journal /\ k.phase = "PROMOTING" /\ k.known = Mem(p).known
          /\ k.targets = Mem(p).targets
        BY <1>1, Within, AtFacts DEF Phases
    <2>3. /\ j \in Journal /\ j.phase = "PROMOTING" /\ j.known = Mem(p).known
          /\ j.targets[f].started
          /\ \A g \in File : /\ j.targets[g].prior = Mem(p).targets[g].prior
                             /\ g # f => j.targets[g] = Mem(p).targets[g]
        <3> HIDE DEF k, f
        <3>1. j = [k EXCEPT !.targets[f].started = TRUE] OBVIOUS
        <3> HIDE DEF j
        <3>2. /\ j \in Journal /\ j.phase = k.phase /\ j.known = k.known /\ j.targets[f].started
              /\ \A g \in File : /\ j.targets[g].prior = k.targets[g].prior
                                 /\ g # f => j.targets[g] = k.targets[g]
            BY <2>1, <2>2, <3>1 DEF Journal, Targets
        <3> QED BY <2>2, <3>2
    <2>4. /\ r \in Process /\ r.pc = "boundary" /\ r.request = proc[p].request
          /\ r.moved = proc[p].moved /\ r.at = f
        BY <1>1, Within, GoesFacts DEF Pcs
    <2> HIDE DEF j, k, r, f
    <2>5. Marked(j, f) BY <1>1, <2>3 DEF Marked
    <2>6. \A g \in File : Recorded(Tx(p), j, g)
        BY <1>1, <2>1, <2>3, <2>5, Within DEF Knows, Recorded, Marked
    <2>7. /\ Kept(p)' /\ Tx(p)' = Tx(p) /\ Mem(p)' = j /\ journal'[Tx(p)] = j
          /\ proc'[p].pc = "boundary" /\ proc'[p].at = f
          /\ UNCHANGED <<live, owner, world, setting>> /\ proc'[p].moved = proc[p].moved
          /\ Program' = Program /\ File' = File
        BY <1>1, <1>2, <2>3, <2>4, <2>6, Within, SaveKeeps
    <2>8. Place(p)' /\ Undo(p)' /\ Seen(p)'
        BY <1>1, <2>1, <2>3, <2>5, <2>7, Within DEF Place, Undo, Seen, Marked, InTransaction
    <2> QED BY <2>7, <2>8, KeptInv
<1>3. ASSUME Raises(p, "precondition") PROVE Inv'
    BY <1>1, <1>3, RaisesKeeps DEF InTransaction, Whys
<1> QED BY <1>1, <1>2, <1>3

LEMMA PromoteBoundaryKeeps ==
    ASSUME Inv, NEW p \in Procs, PromoteBoundary(p)
    PROVE  Inv'
<1> DEFINE r == Goes(p, "replace")
<1>1. /\ proc[p].pc = "boundary" /\ Working(p)
      /\ \/ Becomes(p, r) /\ UNCHANGED <<live, owner, journal, receipt, lock, setting, world>>
         \/ Raises(p, "precondition")
    BY DEF PromoteBoundary, Working, Disk, Outside
<1>2. ASSUME Becomes(p, r), UNCHANGED <<live, owner, journal, receipt, lock, setting, world>>
      PROVE  Inv'
    <2>1. /\ r \in Process /\ r.pc = "replace" /\ r.request = proc[p].request
          /\ r.moved = proc[p].moved /\ r.at = proc[p].at /\ r.mem = Mem(p)
        BY <1>1, Within, GoesFacts DEF Pcs
    <2> HIDE DEF r
    <2>2. Kept(p)' /\ proc'[p] = r /\ Tx(p)' = Tx(p) /\ Mem(p)' = Mem(p)
        BY <1>1, <1>2, <2>1, Within, MoveStep
    <2>3. Place(p)' /\ Undo(p)' /\ Seen(p)'
        BY <1>1, <1>2, <2>1, <2>2, Within, Frame DEF Place, Undo, Seen, Marked, InTransaction
    <2> QED BY <2>2, <2>3, KeptInv
<1>3. ASSUME Raises(p, "precondition") PROVE Inv'
    BY <1>1, <1>3, RaisesKeeps DEF InTransaction, Whys
<1> QED BY <1>1, <1>2, <1>3

LEMMA PromoteConfirmKeeps ==
    ASSUME Inv, NEW p \in Procs, PromoteConfirm(p)
    PROVE  Inv'
<1> DEFINE f == proc[p].at
           k == At(p, "PROMOTING")
           j == [k EXCEPT !.targets[f].promoted = TRUE]
           r == IF f < setting.files THEN [Goes(p, "mark") EXCEPT !.at = f + 1]
                                     ELSE Goes(p, "verify")
<1>1. /\ proc[p].pc = "confirm" /\ Working(p) /\ Program = "authority"
      /\ SaveJournal(p, j, r) \/ Raises(p, "other")
    BY DEF PromoteConfirm, Working
<1>2. ASSUME SaveJournal(p, j, r) PROVE Inv'
    <2>1. f \in File /\ Mem(p).known BY <1>1, Within DEF Place
    <2>2. k \in Journal /\ k.phase = "PROMOTING" /\ k.known = Mem(p).known
          /\ k.targets = Mem(p).targets
        BY <1>1, Within, AtFacts DEF Phases
    <2>3. /\ j \in Journal /\ j.phase = "PROMOTING" /\ j.known = Mem(p).known
          /\ j.targets[f].promoted
          /\ \A g \in File : /\ j.targets[g].prior = Mem(p).targets[g].prior
                             /\ g # f => j.targets[g] = Mem(p).targets[g]
        <3> HIDE DEF k, f
        <3>1. j = [k EXCEPT !.targets[f].promoted = TRUE] OBVIOUS
        <3> HIDE DEF j
        <3>2. /\ j \in Journal /\ j.phase = k.phase /\ j.known = k.known /\ j.targets[f].promoted
              /\ \A g \in File : /\ j.targets[g].prior = k.targets[g].prior
                                 /\ g # f => j.targets[g] = k.targets[g]
            BY <2>1, <2>2, <3>1 DEF Journal, Targets
        <3> QED BY <2>2, <3>2
    <2>4. /\ r \in Process /\ r.pc \in {"mark", "verify"} /\ r.request = proc[p].request
          /\ r.moved = proc[p].moved /\ (r.pc = "mark" => r.at \in File)
        <3> HIDE DEF f
        <3>1. CASE f < setting.files
            <4>1. f + 1 \in File BY <1>1, <2>1, <3>1, Within, SettingFacts DEF File
            <4>2. proc[p] \in Process BY <1>1, Within
            <4>3. r = [Goes(p, "mark") EXCEPT !.at = f + 1] BY <3>1
            <4> HIDE DEF r
            <4> QED BY <4>1, <4>2, <4>3 DEF Goes, Process, Pcs
        <3>2. CASE ~(f < setting.files) BY <1>1, <3>2, Within, GoesFacts DEF Pcs
        <3> QED BY <3>1, <3>2
    <2> HIDE DEF j, k, r, f
    <2>5. Marked(j, f) BY <1>1, <2>3 DEF Marked
    <2>6. \A g \in File : Recorded(Tx(p), j, g)
        BY <1>1, <2>1, <2>3, <2>5, Within DEF Knows, Recorded, Marked
    <2>7. /\ Kept(p)' /\ Tx(p)' = Tx(p) /\ Mem(p)' = j /\ journal'[Tx(p)] = j
          /\ proc'[p].pc \in {"mark", "verify"} /\ (proc'[p].pc = "mark" => proc'[p].at \in File)
          /\ UNCHANGED <<live, owner, world, setting>> /\ proc'[p].moved = proc[p].moved
          /\ Program' = "authority" /\ File' = File
        BY <1>1, <1>2, <2>3, <2>4, <2>6, Within, SaveKeeps
    <2>8. Place(p)' /\ Undo(p)' /\ Seen(p)'
        BY <1>1, <2>1, <2>3, <2>7, Within DEF Place, Undo, Seen, InTransaction
    <2> QED BY <2>7, <2>8, KeptInv
<1>3. ASSUME Raises(p, "other") PROVE Inv'
    BY <1>1, <1>3, RaisesKeeps DEF InTransaction, Whys
<1> QED BY <1>1, <1>2, <1>3

LEMMA AuthorityVerifyKeeps ==
    ASSUME Inv, NEW p \in Procs, AuthorityVerify(p)
    PROVE  Inv'
<1> DEFINE r == [Goes(p, "complete") EXCEPT !.seen = {}, !.moved = {}]
<1>1. /\ proc[p].pc = "verify" /\ Working(p) /\ Program = "authority"
      /\ \/ /\ SaveJournal(p, At(p, "LIVE_TARGETS_VERIFIED"), r) /\ VerifyLivePreconditions
            /\ \A f \in File : live[f] = New(p, f)
         \/ Raises(p, "precondition") \/ Raises(p, "other")
    BY DEF AuthorityVerify, Working
<1>2. ASSUME SaveJournal(p, At(p, "LIVE_TARGETS_VERIFIED"), r), VerifyLivePreconditions,
             \A f \in File : live[f] = New(p, f)
      PROVE  Inv'
    <2>1. /\ r \in Process /\ r.pc = "complete" /\ r.request = proc[p].request /\ r.moved = {}
        BY <1>1, Within DEF Goes, Process, Pcs
    <2>2. world = {} BY <1>1, <1>2, Within, ReadyFacts
    <2> HIDE DEF r
    <2>3. /\ Kept(p)' /\ Mem(p)'.known = Mem(p).known /\ proc'[p].pc = "complete"
          /\ UNCHANGED <<live, owner, world, setting>>
          /\ Program' = "authority" /\ File' = File /\ proc'[p].request = proc[p].request
        BY <1>1, <1>2, <2>1, <2>2, Within, PhaseKeeps DEF Phases
    <2>4. Place(p)' /\ Undo(p)' /\ Seen(p)'
        BY <1>1, <1>2, <2>2, <2>3 DEF Place, Undo, Seen, New, InTransaction
    <2> QED BY <2>3, <2>4, KeptInv
<1>3. ASSUME Raises(p, "precondition") \/ Raises(p, "other") PROVE Inv'
    BY <1>1, <1>3, RaisesKeeps DEF InTransaction, Whys
<1> QED BY <1>1, <1>2, <1>3

\* Before the manifest of the bundle is written there is nothing to undo.
LEMMA AuthorityExceptKeeps ==
    ASSUME Inv, NEW p \in Procs, AuthorityExcept(p)
    PROVE  Inv'
<1> DEFINE j == At(p, "FAILED_BEFORE_BUNDLE")
           w == proc[p].why
<1>1. /\ proc[p].pc = "except" /\ Working(p)
      /\ \/ /\ journal' = [journal EXCEPT ![Tx(p)] = j] /\ Ends(p, "error")
            /\ UNCHANGED <<Files, receipt, debris, Outside>> /\ Program = "authority"
         \/ /\ Becomes(p, RollsBack(p, Mem(p), w))
            /\ UNCHANGED <<live, owner, journal, receipt, lock, setting, world>>
    BY DEF AuthorityExcept, Working, Disk, Outside
<1>2. ASSUME journal' = [journal EXCEPT ![Tx(p)] = j], Ends(p, "error"), Program = "authority",
             UNCHANGED <<Files, receipt, debris, Outside>>
      PROVE  Inv'
    <2>1. j \in Journal /\ j.phase = "FAILED_BEFORE_BUNDLE" /\ j.known = Mem(p).known
          /\ j.targets = Mem(p).targets
        BY <1>1, Within, AtFacts DEF Phases
    <2>2. \A f \in File : Recorded(Tx(p), j, f)
        BY <1>1, <1>2, <2>1, Within DEF Knows, Recorded, Marked
    <2> HIDE DEF j
    <2>3. Held'
        BY <1>1, <1>2, <2>1, <2>2, Within, HeldSaves DEF Inv, Files, Outside
    <2>4. journal' \in [Transactions -> Journal] /\ receipt' \in [Transactions -> Receipt]
        BY <1>1, <1>2, <2>1, Within DEF Inv, TypeInv
    <2>5. /\ lock = p /\ lock' = NoProc /\ Becomes(p, Idle("error"))
          /\ UNCHANGED <<live, owner, setting, world>>
        BY <1>1, <1>2, Holder DEF Ends, Files, Outside
    <2> QED BY <2>3, <2>4, <2>5, EndStep
<1>3. ASSUME Becomes(p, RollsBack(p, Mem(p), w)),
             UNCHANGED <<live, owner, journal, receipt, lock, setting, world>>
      PROVE  Inv'
    <2>1. w \in Whys BY <1>1, Within, ProcessFacts DEF Whys
    <2> HIDE DEF w
    <2> QED BY <1>1, <1>3, <2>1, Within, RollsBackKeeps
<1> QED BY <1>1, <1>2, <1>3

-----------------------------------------------------------------------------
(* The policy.                                                             *)

\* Nothing was promoted: what the transaction wrote last holds the baseline.
LEMMA NotPromoted ==
    ASSUME NEW p \in Procs, Knows(p, Mem(p)), Program = "policy", Mem(p).phase \in BeforePromotion
    PROVE  \A f \in File : Restored(Tx(p), Mem(p), f)
BY DEF Knows, Recorded, Restored, Marked

LEMMA PreconditionKeeps ==
    ASSUME Inv, NEW p \in Procs, Working(p), Program = "policy", Mem(p).phase \in BeforePromotion,
           SaveJournal(p, At(p, "PRECONDITION_FAILED"), Goes(p, "settle"))
    PROVE  Inv'
<1> DEFINE r == Goes(p, "settle")
<1>1. /\ r \in Process /\ r.pc = "settle" /\ r.request = proc[p].request
      /\ r.moved = proc[p].moved
    BY Within, GoesFacts DEF Pcs
<1>2. SaveJournal(p, At(p, "PRECONDITION_FAILED"), r) OBVIOUS
<1> HIDE DEF r
<1>3. /\ Kept(p)' /\ Tx(p)' = Tx(p) /\ Mem(p)'.phase = "PRECONDITION_FAILED"
      /\ Mem(p)'.targets = Mem(p).targets /\ proc'[p].pc = "settle"
      /\ UNCHANGED <<live, owner, world, setting>> /\ proc'[p].moved = proc[p].moved
      /\ File' = File
    BY <1>1, <1>2, Within, PhaseKeeps DEF Phases, BeforePromotion
<1>4. Undo(p)' BY <1>3, Within, NotPromoted DEF Undo, Restored
<1>5. Place(p)' /\ Seen(p)' BY <1>3, Within DEF Place, Seen, InTransaction
<1> QED BY <1>3, <1>4, <1>5, KeptInv

LEMMA PolicyRefusedKeeps ==
    ASSUME Inv, NEW p \in Procs, PolicyPreconditionFailed(p)
    PROVE  Inv'
<1>1. /\ proc[p].pc = "refuse" /\ Working(p)
      /\ SaveJournal(p, At(p, "PRECONDITION_FAILED"), Goes(p, "settle"))
    BY DEF PolicyPreconditionFailed, Working
<1>2. Program = "policy" /\ Mem(p).phase \in BeforePromotion BY <1>1, Within DEF Place
<1> QED BY <1>1, <1>2, PreconditionKeeps

LEMMA PolicyExceptKeeps ==
    ASSUME Inv, NEW p \in Procs, PolicyExcept(p)
    PROVE  Inv'
<1> DEFINE w == proc[p].why
<1>1. /\ proc[p].pc = "except" /\ Working(p) /\ Program = "policy"
      /\ \/ /\ SaveJournal(p, At(p, "PRECONDITION_FAILED"), Goes(p, "settle"))
            /\ Mem(p).phase \in BeforePromotion
         \/ /\ Becomes(p, RollsBack(p, Mem(p), w))
            /\ UNCHANGED <<live, owner, journal, receipt, lock, setting, world>>
    BY DEF PolicyExcept, Working, Disk, Outside
<1>2. w \in Whys BY <1>1, Within, ProcessFacts DEF Whys
<1> HIDE DEF w
<1>3. ASSUME Becomes(p, RollsBack(p, Mem(p), w)),
             UNCHANGED <<live, owner, journal, receipt, lock, setting, world>>
      PROVE  Inv'
    BY <1>1, <1>2, <1>3, Within, RollsBackKeeps
<1> QED BY <1>1, <1>3, PreconditionKeeps

LEMMA PolicyStageKeeps ==
    ASSUME Inv, NEW p \in Procs, PolicyStage(p)
    PROVE  Inv'
<1> DEFINE r == Goes(p, "prepare")
<1>1. /\ proc[p].pc = "stage" /\ Working(p) /\ Program = "policy"
      /\ SaveJournal(p, At(p, "STAGE_VERIFIED"), r) \/ Raises(p, "precondition")
    BY DEF PolicyStage, Working
<1>2. ASSUME SaveJournal(p, At(p, "STAGE_VERIFIED"), r) PROVE Inv'
    <2>1. /\ r \in Process /\ r.pc = "prepare" /\ r.request = proc[p].request
          /\ r.moved = proc[p].moved
        BY <1>1, Within, GoesFacts DEF Pcs
    <2> HIDE DEF r
    <2>2. Mem(p).phase \in BeforePromotion BY <1>1, Within DEF Place
    <2>3. /\ Kept(p)' /\ Mem(p)'.known = Mem(p).known /\ proc'[p].pc = "prepare"
          /\ Mem(p)'.phase = "STAGE_VERIFIED"
          /\ UNCHANGED <<live, owner, world, setting>> /\ proc'[p].moved = proc[p].moved
          /\ Program' = "policy"
        BY <1>1, <1>2, <2>1, <2>2, Within, PhaseKeeps DEF Phases
    <2>4. Mem(p).known = TRUE BY <1>1, Within, JournalFacts DEF Place
    <2>5. Place(p)' /\ Undo(p)' /\ Seen(p)'
        BY <1>1, <2>3, <2>4, Within DEF Place, Undo, Seen, InTransaction, BeforePromotion
    <2> QED BY <2>3, <2>5, KeptInv
<1>3. ASSUME Raises(p, "precondition") PROVE Inv'
    BY <1>1, <1>3, RaisesKeeps DEF InTransaction, Whys
<1> QED BY <1>1, <1>2, <1>3

LEMMA PolicyPrepareKeeps ==
    ASSUME Inv, NEW p \in Procs, PolicyPrepare(p)
    PROVE  Inv'
<1> DEFINE r == [Goes(p, "mark") EXCEPT !.at = 1]
<1>1. /\ proc[p].pc = "prepare" /\ Working(p) /\ Program = "policy"
      /\ SaveJournal(p, At(p, "PROMOTION_PREPARED"), r)
    BY DEF PolicyPrepare, Working
<1>2. /\ r \in Process /\ r.pc = "mark" /\ r.request = proc[p].request
      /\ r.moved = proc[p].moved /\ r.at = 1
    BY <1>1, Within DEF Goes, Process, Pcs
<1> HIDE DEF r
<1>p. Mem(p).phase \in BeforePromotion BY <1>1, Within DEF Place
<1>3. Mem(p).known BY <1>1, <1>p, Within DEF Place
<1>4. /\ Kept(p)' /\ Mem(p)'.known = Mem(p).known /\ proc'[p].pc = "mark"
      /\ proc'[p].at = r.at
      /\ Mem(p)'.phase = "PROMOTION_PREPARED" /\ File' = File
      /\ UNCHANGED <<live, owner, world, setting>> /\ proc'[p].moved = proc[p].moved
      /\ Program' = "policy"
    <2>1. "PROMOTION_PREPARED" \in Phases \ {"none"} /\ world \subseteq r.moved
        BY <1>1, <1>2, Within DEF Phases
    <2> QED BY <1>1, <1>2, <1>p, <2>1, PhaseKeeps
<1>5. Place(p)' /\ Undo(p)' /\ Seen(p)'
    BY <1>1, <1>2, <1>3, <1>4, Within DEF Place, Undo, Seen, InTransaction, BeforePromotion
<1> QED BY <1>4, <1>5, KeptInv

LEMMA PolicyMarkKeeps ==
    ASSUME Inv, NEW p \in Procs, PolicyMark(p)
    PROVE  Inv'
<1> DEFINE r == Goes(p, "replace")
<1>1. /\ proc[p].pc = "mark" /\ Working(p) /\ Program = "policy"
      /\ SaveJournal(p, At(p, "PROMOTING"), r) \/ Raises(p, "precondition")
    BY DEF PolicyMark, Working
<1>2. ASSUME SaveJournal(p, At(p, "PROMOTING"), r) PROVE Inv'
    <2>1. /\ r \in Process /\ r.pc = "replace" /\ r.request = proc[p].request
          /\ r.moved = proc[p].moved /\ r.at = proc[p].at
        BY <1>1, Within, GoesFacts DEF Pcs
    <2> HIDE DEF r
    <2>2. proc[p].at \in File /\ Mem(p).known BY <1>1, Within DEF Place
    <2>3. /\ Kept(p)' /\ Mem(p)'.known = Mem(p).known /\ proc'[p].pc = "replace"
          /\ Mem(p)'.phase = "PROMOTING" /\ journal'[Tx(p)] = Mem(p)' /\ Tx(p)' = Tx(p)
          /\ UNCHANGED <<live, owner, world, setting>> /\ proc'[p].moved = proc[p].moved
          /\ proc'[p].at = proc[p].at /\ File' = File
          /\ Program' = "policy"
        BY <1>1, <1>2, <2>1, Within, PhaseKeeps DEF Phases, BeforePromotion
    <2>4. Place(p)' /\ Undo(p)' /\ Seen(p)'
        BY <1>1, <2>2, <2>3, Within DEF Place, Undo, Seen, InTransaction, Marked, BeforePromotion
    <2> QED BY <2>3, <2>4, KeptInv
<1>3. ASSUME Raises(p, "precondition") PROVE Inv'
    BY <1>1, <1>3, RaisesKeeps DEF InTransaction, Whys
<1> QED BY <1>1, <1>2, <1>3

LEMMA PolicyConfirmKeeps ==
    ASSUME Inv, NEW p \in Procs, PolicyConfirm(p)
    PROVE  Inv'
<1> DEFINE r == [Goes(p, "verify") EXCEPT !.seen = @ \ {1}]
<1>1. /\ proc[p].pc = "confirm" /\ Working(p) /\ Program = "policy"
      /\ \/ SaveJournal(p, At(p, "PROMOTED"), r) /\ live[1] = New(p, 1)
         \/ Raises(p, "other")
    BY DEF PolicyConfirm, Working
<1>2. ASSUME SaveJournal(p, At(p, "PROMOTED"), r), live[1] = New(p, 1) PROVE Inv'
    <2>1. /\ r \in Process /\ r.pc = "verify" /\ r.request = proc[p].request
          /\ r.moved = proc[p].moved
        BY <1>1, Within DEF Goes, Process, Pcs
    <2> HIDE DEF r
    <2>2. File = {1} BY <1>1, Within, SettingFacts
    <2>3. /\ Kept(p)' /\ Mem(p)'.known = Mem(p).known /\ proc'[p].pc = "verify"
          /\ UNCHANGED <<live, owner, world, setting>> /\ proc'[p].moved = proc[p].moved
          /\ Program' = "policy" /\ File' = File /\ proc'[p].request = proc[p].request
        BY <1>1, <1>2, <2>1, Within, PhaseKeeps DEF Phases, BeforePromotion
    <2>4. Place(p)' /\ Undo(p)' /\ Seen(p)'
        BY <1>1, <1>2, <2>2, <2>3, Within DEF Place, Undo, Seen, New, InTransaction
    <2> QED BY <2>3, <2>4, KeptInv
<1>3. ASSUME Raises(p, "other") PROVE Inv'
    BY <1>1, <1>3, RaisesKeeps DEF InTransaction, Whys
<1> QED BY <1>1, <1>2, <1>3

LEMMA PolicyVerifyKeeps ==
    ASSUME Inv, NEW p \in Procs, PolicyVerify(p)
    PROVE  Inv'
<1> DEFINE r == [Goes(p, "complete") EXCEPT !.moved = @ \ {"validator"}]
<1>1. /\ proc[p].pc = "verify" /\ Working(p) /\ Program = "policy"
      /\ \/ SaveJournal(p, At(p, "LIVE_TARGET_VERIFIED"), r) /\ "validator" \notin world
         \/ Raises(p, "other")
    BY DEF PolicyVerify, Working
<1>2. ASSUME SaveJournal(p, At(p, "LIVE_TARGET_VERIFIED"), r), "validator" \notin world
      PROVE  Inv'
    <2>1. /\ r \in Process /\ r.pc = "complete" /\ r.request = proc[p].request
          /\ r.moved = proc[p].moved \ {"validator"} /\ r.seen = proc[p].seen
        BY <1>1, Within DEF Goes, Process, Pcs
    <2> HIDE DEF r
    <2>2. world \subseteq r.moved BY <1>1, <1>2, <2>1, Within
    <2>3. /\ Kept(p)' /\ Mem(p)'.known = Mem(p).known /\ proc'[p].pc = "complete"
          /\ UNCHANGED <<live, owner, world, setting>> /\ proc'[p].moved = r.moved
          /\ Program' = "policy" /\ File' = File /\ proc'[p].request = proc[p].request
          /\ proc'[p].seen = proc[p].seen
        BY <1>1, <1>2, <2>1, <2>2, Within, PhaseKeeps DEF Phases, BeforePromotion
    <2>4. \A f \in File : live[f] = New(p, f) \/ f \in proc[p].seen
        BY <1>1, Within DEF Seen
    <2>5. Place(p)' /\ Undo(p)' /\ Seen(p)'
        BY <1>1, <2>2, <2>3, <2>4, Within DEF Place, Undo, Seen, New, InTransaction
    <2> QED BY <2>3, <2>5, KeptInv
<1>3. ASSUME Raises(p, "other") PROVE Inv'
    BY <1>1, <1>3, RaisesKeeps DEF InTransaction, Whys
<1> QED BY <1>1, <1>2, <1>3

-----------------------------------------------------------------------------
(* The reviewed worker BOM.                                                *)

LEMMA BomBackupKeeps ==
    ASSUME Inv, NEW p \in Procs, BomBackup(p)
    PROVE  Inv'
<1> DEFINE m == [Mem(p) EXCEPT !.targets[1].backup = live[1]]
<1>1. /\ proc[p].pc = "backup" /\ Program = "bom" /\ Working(p)
      /\ UNCHANGED <<live, owner, journal, receipt, setting, world>>
      /\ \/ Ends(p, "error")
         \/ /\ Becomes(p, [Goes(p, "prepare") EXCEPT !.mem.targets[1].backup = live[1]])
            /\ UNCHANGED lock
    BY DEF BomBackup, Working, Disk, Outside
<1>2. /\ ~Mem(p).known /\ Mem(p) \in Journal /\ proc[p] \in Process /\ 1 \in File
      /\ live[1] \in Nat
    BY <1>1, Within DEF Place, Inv, TypeInv
<1>3. m \in Journal /\ ~m.known BY <1>2, BackupEdit
<1>4. [Goes(p, "prepare") EXCEPT !.mem.targets[1].backup = live[1]]
        = [Goes(p, "prepare") EXCEPT !.mem = m]
    BY <1>2 DEF Goes, Mem, Process
<1> HIDE DEF m
<1>5. ASSUME Becomes(p, [Goes(p, "prepare") EXCEPT !.mem = m]), UNCHANGED lock PROVE Inv'
    BY <1>1, <1>3, <1>5, CapturedKeeps
<1>6. ASSUME Ends(p, "error") PROVE Inv' BY <1>1, <1>6, EndsKeeps
<1> QED BY <1>1, <1>4, <1>5, <1>6

LEMMA BomPreparedKeeps ==
    ASSUME Inv, NEW p \in Procs, BomPrepared(p)
    PROVE  Inv'
<1> DEFINE j == [Expects(p) EXCEPT !.phase = "PREPARED",
                                   !.targets[1].backup = Mem(p).targets[1].backup]
           r == [proc[p] EXCEPT !.pc = "replace", !.at = 1, !.mem = j]
<1>1. proc[p].pc = "prepare" /\ Working(p) /\ Program = "bom" BY DEF BomPrepared, Working
<1>2. ~Mem(p).known /\ \A f \in File : owner[f] # Tx(p) BY <1>1, Within DEF Place
<1>3. j \in Journal /\ j.phase = "PREPARED" /\ j.known
    <2>1. Fresh(p) \in Journal BY <1>1, Within, BlankFacts DEF Fresh
    <2>2. proc[p].request.expected \in Nat BY <1>1, Within DEF Requests
    <2>3. Expects(p) \in Journal /\ Expects(p).known
        BY <1>1, <2>1, <2>2, Within, ExpectsEdit DEF Expects
    <2> DEFINE k == [Expects(p) EXCEPT !.phase = "PREPARED"]
               b == Mem(p).targets[1].backup
    <2>4. k \in Journal /\ k.phase = "PREPARED" /\ k.known BY <2>3, PhaseEdit DEF Phases
    <2>5. b \in Nat /\ 1 \in File BY <1>1, Within, JournalFacts
    <2>6. j = [k EXCEPT !.targets[1].backup = b]
        BY <2>3, <2>5 DEF Journal
    <2> HIDE DEF j, k, b
    <2> QED BY <2>4, <2>5, <2>6, BackupEdit
<1>4. journal' = [journal EXCEPT ![Tx(p)] = j] /\ journal'[Tx(p)] = j
    BY <1>1, Within DEF BomPrepared, Inv, TypeInv
<1>5. Becomes(p, r) /\ UNCHANGED <<live, owner, receipt, lock, setting, world>>
    BY <1>4 DEF BomPrepared, Files, Outside
<1>6. \A f \in File : Recorded(Tx(p), j, f) BY <1>2 DEF Recorded
<1> HIDE DEF j
<1>7. /\ r \in Process /\ r.pc = "replace" /\ r.request = proc[p].request
      /\ r.moved = proc[p].moved /\ r.at = 1 /\ r.mem = j
    <2>1. proc[p] \in Process /\ 1 \in File BY <1>1, Within
    <2> QED BY <1>3, <2>1 DEF Process, Pcs
<1> HIDE DEF r
<1>8. /\ Kept(p)' /\ proc'[p] = r /\ Tx(p)' = Tx(p) /\ Mem(p)' = j
    BY <1>1, <1>3, <1>4, <1>5, <1>6, <1>7, Within, SaveStep
<1>9. Place(p)' /\ Undo(p)' /\ Seen(p)'
    BY <1>1, <1>2, <1>3, <1>4, <1>5, <1>7, <1>8, Within, Frame
       DEF Place, Undo, Seen, InTransaction, Marked
<1> QED BY <1>8, <1>9, KeptInv

LEMMA BomConfirmKeeps ==
    ASSUME Inv, NEW p \in Procs, BomConfirm(p)
    PROVE  Inv'
<1> DEFINE r == Goes(p, "verify")
<1>1. /\ proc[p].pc = "confirm" /\ Working(p) /\ Program = "bom"
      /\ SaveJournal(p, At(p, "PROMOTED"), r)
    BY DEF BomConfirm, Working
<1>2. /\ r \in Process /\ r.pc = "verify" /\ r.request = proc[p].request
      /\ r.moved = proc[p].moved
    BY <1>1, Within, GoesFacts DEF Pcs
<1> HIDE DEF r
<1>3. /\ Kept(p)' /\ Mem(p)'.targets = Mem(p).targets /\ proc'[p].pc = "verify"
      /\ UNCHANGED <<live, owner, world, setting>> /\ proc'[p].moved = proc[p].moved
      /\ Program' = "bom" /\ File' = File /\ Tx(p)' = Tx(p)
    BY <1>1, <1>2, Within, PhaseKeeps DEF Phases
<1>4. \A f \in File : owner[f] = Tx(p) => Mem(p).targets[f].started
    BY <1>1, Within DEF Place, InTransaction
<1>5. Place(p)' /\ Undo(p)' /\ Seen(p)'
    BY <1>1, <1>3, <1>4, Within DEF Place, Undo, Seen, InTransaction
<1> QED BY <1>3, <1>5, KeptInv

LEMMA BomVerifyKeeps ==
    ASSUME Inv, NEW p \in Procs, BomVerify(p)
    PROVE  Inv'
<1> DEFINE r == [Goes(p, "receipt") EXCEPT !.seen = {}, !.moved = {}]
<1>1. /\ proc[p].pc = "verify" /\ Working(p) /\ Program = "bom"
      /\ \/ /\ SaveJournal(p, At(p, "COMPLETED"), r) /\ ValidateCandidate
            /\ live[1] = New(p, 1)
         \/ Raises(p, "other")
    BY DEF BomVerify, Working
<1>2. ASSUME SaveJournal(p, At(p, "COMPLETED"), r), ValidateCandidate, live[1] = New(p, 1)
      PROVE  Inv'
    <2>1. /\ r \in Process /\ r.pc = "receipt" /\ r.request = proc[p].request /\ r.moved = {}
        BY <1>1, Within DEF Goes, Process, Pcs
    <2>2. world = {} /\ File = {1} BY <1>1, <1>2, Within, ReadyFacts, SettingFacts
    <2> HIDE DEF r
    <2>3. /\ Kept(p)' /\ Mem(p)'.targets = Mem(p).targets /\ proc'[p].pc = "receipt"
          /\ UNCHANGED <<live, owner, world, setting>> /\ Mem(p)'.phase = "COMPLETED"
          /\ Program' = "bom" /\ File' = File /\ proc'[p].request = proc[p].request
          /\ Tx(p)' = Tx(p)
        BY <1>1, <1>2, <2>1, <2>2, Within, PhaseKeeps DEF Phases
    <2>4. \A f \in File : owner[f] = Tx(p) => Mem(p).targets[f].started
        BY <1>1, Within DEF Place, InTransaction
    <2>5. Place(p)' /\ Undo(p)' /\ Seen(p)'
        BY <1>1, <1>2, <2>2, <2>3, <2>4 DEF Place, Undo, Seen, New, InTransaction
    <2> QED BY <2>3, <2>5, KeptInv
<1>3. ASSUME Raises(p, "other") PROVE Inv'
    BY <1>1, <1>3, RaisesKeeps DEF InTransaction, Whys
<1> QED BY <1>1, <1>2, <1>3

\* Only a promoted target is rolled back: no other was written.
LEMMA BomExceptKeeps ==
    ASSUME Inv, NEW p \in Procs, BomExcept(p)
    PROVE  Inv'
<1> DEFINE r == [Goes(p, "inspect") EXCEPT !.at = 0]
<1>1. /\ proc[p].pc = "except" /\ Working(p) /\ Program = "bom"
      /\ UNCHANGED <<live, owner, journal, receipt, lock, setting, world>>
      /\ \/ Becomes(p, RollsBack(p, Mem(p), "other"))
         \/ ~Mem(p).targets[1].started /\ Becomes(p, r)
    BY DEF BomExcept, Working, Disk, Outside
<1>2. ASSUME Becomes(p, RollsBack(p, Mem(p), "other")) PROVE Inv'
    BY <1>1, <1>2, Within, RollsBackKeeps DEF Whys
<1>3. ASSUME ~Mem(p).targets[1].started, Becomes(p, r) PROVE Inv'
    <2>1. \A f \in File : owner[f] # Tx(p)
        <3>1. File = {1} BY <1>1, Within, SettingFacts
        <3>2. \A f \in File : owner[f] = Tx(p) => Mem(p).targets[f].started
            BY <1>1, Within DEF Place
        <3> QED BY <1>3, <3>1, <3>2
    <2>2. /\ r \in Process /\ r.pc = "inspect" /\ r.request = proc[p].request
          /\ r.moved = proc[p].moved /\ r.at = 0 /\ r.mem = Mem(p)
        BY <1>1, Within DEF Goes, Mem, Process, Pcs
    <2> HIDE DEF r
    <2>3. Kept(p)' /\ proc'[p] = r /\ Tx(p)' = Tx(p) /\ Mem(p)' = Mem(p)
        BY <1>1, <1>3, <2>2, Within, MoveStep
    <2>4. Place(p)' /\ Undo(p)' /\ Seen(p)'
        BY <1>1, <2>1, <2>2, <2>3, Within, Frame DEF Place, Undo, Seen, Restored, InTransaction
    <2> QED BY <2>3, <2>4, KeptInv
<1> QED BY <1>1, <1>2, <1>3

\* The journal names how the compensation ended.
LEMMA ConcludeKeeps ==
    ASSUME Inv, NEW p \in Procs, Finished(p), NEW x \in {"ROLLED_BACK", "ROLLBACK_FAILED"},
           SaveJournal(p, At(p, x), Goes(p, "settle")),
           x = "ROLLED_BACK" => ~proc[p].failed
    PROVE  Inv'
<1> DEFINE r == Goes(p, "settle")
<1>1. proc[p].pc = "inspect" /\ Working(p) /\ proc[p].at = 0 BY DEF Finished, Working
<1>2. /\ r \in Process /\ r.pc = "settle" /\ r.request = proc[p].request
      /\ r.moved = proc[p].moved
    BY <1>1, Within, GoesFacts DEF Pcs
<1>3. SaveJournal(p, At(p, x), r) OBVIOUS
<1> HIDE DEF r
<1>4. /\ Kept(p)' /\ Tx(p)' = Tx(p) /\ Mem(p)'.phase = x
      /\ Mem(p)'.targets = Mem(p).targets /\ proc'[p].pc = "settle"
      /\ UNCHANGED <<live, owner, world, setting>> /\ proc'[p].moved = proc[p].moved
      /\ File' = File
    BY <1>1, <1>2, <1>3, Within, PhaseKeeps DEF Phases, BeforePromotion
<1>5. x = "ROLLED_BACK" => \A f \in File : Restored(Tx(p), Mem(p), f)
    <2>1. \A f \in File : f > 0
        <3>1. setting.files \in Nat BY <1>1, Within, SettingFacts
        <3> QED BY <3>1 DEF File
    <2> QED BY <1>1, <2>1, Within DEF Undo
<1>6. Undo(p)' BY <1>4, <1>5 DEF Undo, Restored
<1>7. Place(p)' /\ Seen(p)' BY <1>1, <1>4, Within DEF Place, Seen, InTransaction
<1> QED BY <1>4, <1>6, <1>7, KeptInv

LEMMA RollbackConcludeKeeps ==
    ASSUME Inv, NEW p \in Procs, RollbackConclude(p)
    PROVE  Inv'
<1>1. Finished(p) BY DEF RollbackConclude
<1>2. CASE proc[p].failed BY <1>1, <1>2, ConcludeKeeps DEF RollbackConclude
<1>3. CASE ~proc[p].failed BY <1>1, <1>3, ConcludeKeeps DEF RollbackConclude
<1> QED BY <1>2, <1>3

LEMMA BomConcludeKeeps ==
    ASSUME Inv, NEW p \in Procs, BomConclude(p)
    PROVE  Inv'
<1>1. Finished(p) BY DEF BomConclude
<1>2. CASE proc[p].failed
    BY <1>1, <1>2, EndsKeeps DEF BomConclude, Finished, Disk, Outside
<1>3. CASE ~proc[p].failed BY <1>1, <1>3, ConcludeKeeps DEF BomConclude
<1> QED BY <1>2, <1>3

-----------------------------------------------------------------------------
(* Steps that the programs share.                                          *)

LEMMA CompleteKeeps ==
    ASSUME Inv, NEW p \in Procs, Complete(p)
    PROVE  Inv'
<1> DEFINE r == Goes(p, "receipt")
<1>1. /\ proc[p].pc = "complete" /\ Working(p) /\ SaveJournal(p, At(p, "COMPLETED"), r)
    BY DEF Complete, Working
<1>2. /\ r \in Process /\ r.pc = "receipt" /\ r.request = proc[p].request
      /\ r.moved = proc[p].moved /\ r.seen = proc[p].seen
    BY <1>1, Within, GoesFacts DEF Pcs
<1> HIDE DEF r
<1>3. /\ Kept(p)' /\ Mem(p)'.targets = Mem(p).targets /\ proc'[p].pc = "receipt"
      /\ UNCHANGED <<live, owner, world, setting>> /\ Mem(p)'.phase = "COMPLETED"
      /\ Program' = Program /\ File' = File /\ proc'[p].request = proc[p].request
      /\ Tx(p)' = Tx(p) /\ proc'[p].moved = proc[p].moved /\ proc'[p].seen = proc[p].seen
    BY <1>1, <1>2, Within, PhaseKeeps DEF Phases, BeforePromotion
<1>4. Program = "bom" => \A f \in File : owner[f] = Tx(p) => Mem(p).targets[f].started
    BY <1>1, Within DEF Place, InTransaction
<1>5. \A f \in File : live[f] = New(p, f) \/ f \in proc[p].seen BY <1>1, Within DEF Seen
<1>6. Place(p)' /\ Undo(p)' /\ Seen(p)'
    BY <1>1, <1>3, <1>4, <1>5, Within DEF Place, Undo, Seen, New, InTransaction
<1> QED BY <1>3, <1>6, KeptInv

LEMMA ReplaceKeeps ==
    ASSUME Inv, NEW p \in Procs, Replace(p)
    PROVE  Inv'
<1> DEFINE f == proc[p].at
           b == New(p, f)
           m == [Mem(p) EXCEPT !.targets[f].started = TRUE]
           r == [proc[p] EXCEPT !.pc = "confirm", !.mem.targets[f].started = TRUE]
<1>1. /\ proc[p].pc = "replace" /\ Working(p) /\ Becomes(p, r)
      /\ live' = [live EXCEPT ![f] = b] /\ owner' = [owner EXCEPT ![f] = Tx(p)]
      /\ UNCHANGED <<journal, receipt, lock, setting, world>>
    BY DEF Replace, Working, Outside
<1>2. /\ f \in File /\ Mem(p).known /\ Marked(Mem(p), f) /\ Marked(journal[Tx(p)], f)
    BY <1>1, Within DEF Place
<1>3. b \in Nat BY <1>1, <1>2, Within DEF New, Requests
<1>4. Program = "bom" => \A g \in File : owner[g] = Tx(p) => Mem(p).targets[g].started
    BY <1>1, Within DEF Place, InTransaction
<1>5. /\ m \in Journal /\ m.phase = Mem(p).phase /\ m.known = Mem(p).known
      /\ m.targets[f].started
      /\ \A g \in File : /\ m.targets[g].prior = Mem(p).targets[g].prior
                         /\ g # f => m.targets[g] = Mem(p).targets[g]
    <2>1. Mem(p) \in Journal BY <1>1, Within
    <2> HIDE DEF f
    <2> QED BY <1>2, <2>1 DEF Journal, Targets
<1>6. /\ r \in Process /\ r.pc = "confirm" /\ r.request = proc[p].request
      /\ r.moved = proc[p].moved /\ r.at = f /\ r.mem = m
    <2>1. proc[p] \in Process BY <1>1, Within
    <2>2. r = [proc[p] EXCEPT !.pc = "confirm", !.mem = m] BY <2>1 DEF Process, Mem
    <2> HIDE DEF m, r, f
    <2> QED BY <1>5, <2>1, <2>2 DEF Process, Pcs, f
<1> HIDE DEF f, b, m, r
<1>7. /\ Marked(m, f) /\ m.known /\ \A g \in File : g # f /\ Marked(Mem(p), g) => Marked(m, g)
    BY <1>2, <1>5, Within DEF Marked
<1>8. /\ Kept(p)' /\ proc'[p] = r /\ Tx(p)' = Tx(p) /\ Mem(p)' = m
      /\ \A g \in File \ {f} : owner'[g] = owner[g]
    <2>1. \A g \in File : m.targets[g].prior = Mem(p).targets[g].prior BY <1>5
    <2>2. world \subseteq r.moved /\ r.pc \notin {"idle", "wait", "open"}
        BY <1>1, <1>6, Within
    <2>3. r \in Process /\ r.request = proc[p].request /\ r.mem = m BY <1>6
    <2>a. Kept(p)'
        BY <1>1, <1>2, <1>3, <1>7, <2>1, <2>2, <2>3, WriteStep
    <2>b. proc'[p] = r BY <1>1 DEF Becomes, Inv, TypeInv
    <2>c. Tx(p)' = Tx(p)
        BY <1>1, <1>2, <1>3, <1>7, <2>1, <2>2, <2>3, WriteStep
    <2>d. Mem(p)' = m BY <2>b, <2>3 DEF Mem
    <2>5. \A g \in File \ {f} : owner'[g] = owner[g]
        BY <1>1, <1>2, <1>3, <1>7, <2>1, <2>2, <2>3, WriteStep
    <2> QED BY <2>a, <2>b, <2>c, <2>d, <2>5
<1>9. Place(p)' /\ Undo(p)' /\ Seen(p)'
    <2>1. Program = "bom" => \A g \in File : owner'[g] = Tx(p) => m.targets[g].started
        BY <1>4, <1>5, <1>8
    <2> QED BY <1>1, <1>2, <1>6, <1>7, <1>8, <2>1, Within, Frame
            DEF Place, Undo, Seen, InTransaction
<1> QED BY <1>8, <1>9, KeptInv

-----------------------------------------------------------------------------
(* The compensation.                                                       *)

LEMMA FileFacts ==
    ASSUME setting \in Settings, NEW f \in File
    PROVE  /\ f \in Nat /\ f > 0 /\ f - 1 \in File \cup {0}
           /\ \A g \in File : g > f - 1 <=> g = f \/ g > f
<1>1. setting.files \in Nat BY SettingFacts
<1> QED BY <1>1 DEF File

LEMMA RollbackRestoreKeeps ==
    ASSUME Inv, NEW p \in Procs, RollbackRestore(p)
    PROVE  Inv'
<1> DEFINE f == proc[p].at
           m == Mem(p)
           b == m.targets[f].prior
           r == Goes(p, "restored")
<1>1. /\ proc[p].pc = "restore" /\ Working(p) /\ Becomes(p, r)
      /\ live' = [live EXCEPT ![f] = b] /\ owner' = [owner EXCEPT ![f] = Tx(p)]
      /\ UNCHANGED <<journal, receipt, lock, setting, world>>
    BY DEF RollbackRestore, Working, Outside
<1>2. f \in File /\ m.known
      /\ \A g \in File : g > f => proc[p].failed \/ Restored(Tx(p), m, g)
    BY <1>1, Within, ProcessFacts DEF Undo
<1>3. b \in Nat BY <1>1, <1>2, Within, JournalFacts
<1>4. /\ r \in Process /\ r.pc = "restored" /\ r.request = proc[p].request
      /\ r.moved = proc[p].moved /\ r.at = f /\ r.mem = m /\ r.failed = proc[p].failed
    BY <1>1, Within, GoesFacts DEF Pcs
<1>5. world \subseteq r.moved BY <1>1, <1>4, Within
<1>6. \A g \in File : g > f => g # f BY <1>1, <1>2, Within, FileFacts
<1> HIDE DEF f, b, r
<1>7. /\ Kept(p)' /\ Tx(p)' = Tx(p)
      /\ \A g \in File \ {f} : live'[g] = live[g] /\ owner'[g] = owner[g]
    <2>1. f \in File /\ Mem(p).known BY <1>2
    <2>2. b = Mem(p).targets[f].prior BY DEF b
    <2>3. r.pc \notin {"idle", "wait", "open"} /\ r.mem = Mem(p) BY <1>4
    <2>4. Kept(p)' BY <1>1, <1>3, <1>4, <1>5, <2>1, <2>2, <2>3, WriteStep
    <2>5. Tx(p)' = Tx(p) BY <1>1, <1>3, <1>4, <1>5, <2>1, <2>2, <2>3, WriteStep
    <2>6. \A g \in File \ {f} : live'[g] = live[g] /\ owner'[g] = owner[g]
        BY <1>1, <1>3, <1>4, <1>5, <2>1, <2>2, <2>3, WriteStep
    <2> QED BY <2>4, <2>5, <2>6
<1>8. proc'[p] = r BY <1>1 DEF Becomes, Inv, TypeInv
<1>9. Undo(p)'
    <2>1. \A g \in File : g > f => \/ proc[p].failed
                                   \/ owner'[g] = Tx(p) => live'[g] = m.targets[g].prior
        BY <1>2, <1>6, <1>7 DEF Restored
    <2>2. Mem(p)' = Mem(p) BY <1>4, <1>8 DEF Mem
    <2>3. f # 0 /\ File' = File BY <1>1, <1>2, Within, Frame
    <2> QED BY <1>2, <1>4, <1>7, <1>8, <2>1, <2>2, <2>3 DEF Undo, Restored
<1>10. Place(p)' /\ Seen(p)'
    BY <1>1, <1>4, <1>5, <1>8 DEF Place, Seen, InTransaction
<1> QED BY <1>7, <1>9, <1>10, KeptInv

\* One file less to look at. It is as it should be, or the compensation has failed.
LEMMA PassedKeeps ==
    ASSUME Inv, NEW p \in Procs, proc[p].pc \in {"inspect", "restored"}, proc[p].at \in File,
           UNCHANGED <<live, owner, journal, receipt, lock, setting, world>>,
           NEW m \in Journal, m.known, NEW r \in Process, Becomes(p, r), r.mem = m,
           r.request = proc[p].request, r.moved = proc[p].moved, r.pc = "inspect",
           r.at = proc[p].at - 1, proc[p].failed => r.failed,
           r.failed \/ Restored(Tx(p), m, proc[p].at),
           \A g \in File : m.targets[g].prior = Mem(p).targets[g].prior,
           \A g \in File : /\ Marked(Mem(p), g) => Marked(m, g) \/ live[g] = m.targets[g].prior
    PROVE  Inv'
<1>1. Working(p) /\ proc[p].pc \notin {"idle", "wait"} BY DEF Working
<1>2. Knows(p, m)
    <2>1. Mem(p).known BY <1>1, Within, FileFacts DEF Undo
    <2>2. m.known = journal[Tx(p)].known
        BY <1>1, <2>1, Within, JournalFacts DEF Knows
    <2> QED BY <1>1, <2>2, Within DEF Knows, Recorded
<1>3. Kept(p)' /\ proc'[p] = r /\ Tx(p)' = Tx(p) /\ Mem(p)' = r.mem
    BY <1>1, <1>2, Within, MoveStep
<1>4. Undo(p)'
    <2>1. \A g \in File : g > proc[p].at - 1 <=> g = proc[p].at \/ g > proc[p].at
        BY <1>1, Within, FileFacts
    <2>2. \A g \in File : g > proc[p].at => proc[p].failed \/ Restored(Tx(p), Mem(p), g)
        BY <1>1, Within DEF Undo
    <2>3. \A g \in File : g > r.at => r.failed \/ Restored(Tx(p), m, g)
        BY <2>1, <2>2 DEF Restored
    <2> QED BY <1>3, <2>3, Frame DEF Undo, Restored
<1>5. Place(p)' /\ Seen(p)' BY <1>1, <1>3, Within DEF Place, Seen, InTransaction
<1> QED BY <1>3, <1>4, <1>5, KeptInv

\* What was found or put in place holds the baseline: its marks are taken away.
LEMMA ClearedKeeps ==
    ASSUME Inv, NEW p \in Procs, proc[p].pc \in {"inspect", "restored"}, proc[p].at \in File,
           UNCHANGED <<live, owner, journal, receipt, lock, setting, world>>,
           Matches(p, proc[p].at), Becomes(p, Cleared(p, proc[p].at))
    PROVE  Inv'
<1> DEFINE f == proc[p].at
           m == [Mem(p) EXCEPT !.targets[f].started = FALSE, !.targets[f].promoted = FALSE]
           r == Cleared(p, f)
<1>1. Working(p) /\ Becomes(p, r) /\ live[f] = Mem(p).targets[f].prior
    BY DEF Working, Matches
<1>2. proc[p] \in Process /\ Mem(p) \in Journal /\ Mem(p).known
    BY <1>1, Within, FileFacts DEF Undo
<1>3. /\ m \in Journal /\ m.phase = Mem(p).phase /\ m.known = Mem(p).known
      /\ \A g \in File : /\ m.targets[g].prior = Mem(p).targets[g].prior
                         /\ g # f => m.targets[g] = Mem(p).targets[g]
    <2>1. f \in File OBVIOUS
    <2> HIDE DEF f
    <2> QED BY <1>2, <2>1 DEF Journal, Targets
<1>4. /\ r \in Process /\ r.pc = "inspect" /\ r.request = proc[p].request
      /\ r.moved = proc[p].moved /\ r.at = f - 1 /\ r.mem = m /\ r.failed = proc[p].failed
    <2>1. f - 1 \in File \cup {0} BY <1>1, Within, FileFacts
    <2>2. r.mem = m
        <3> HIDE DEF f
        <3>1. Mem(p) = proc[p].mem BY DEF Mem
        <3> QED BY <1>2, <3>1 DEF Cleared, Process, Journal, Targets
    <2> HIDE DEF f
    <2>3. /\ r.pc = "inspect" /\ r.at = f - 1 /\ r.request = proc[p].request
          /\ r.why = proc[p].why /\ r.failed = proc[p].failed /\ r.seen = proc[p].seen
          /\ r.moved = proc[p].moved /\ r.answer = proc[p].answer
        BY <1>2 DEF Cleared, Process
    <2>4. r \in Process BY <1>2, <1>3, <2>1, <2>2, <2>3 DEF Cleared, Process, Pcs
    <2> QED BY <2>2, <2>3, <2>4
<1>5. m.known BY <1>2, <1>3
<1>6. Restored(Tx(p), m, f) BY <1>1, <1>3 DEF Restored
<1>7. \A g \in File : Marked(Mem(p), g) => Marked(m, g) \/ live[g] = m.targets[g].prior
    BY <1>1, <1>3 DEF Marked
<1>8. \A g \in File : m.targets[g].prior = Mem(p).targets[g].prior BY <1>3
<1>9. m \in Journal BY <1>3
<1> HIDE DEF m, r
<1> QED BY <1>1, <1>4, <1>5, <1>6, <1>7, <1>8, <1>9, PassedKeeps

\* What is left alone was not this transaction's, or the compensation has failed.
LEMMA SkippedKeeps ==
    ASSUME Inv, NEW p \in Procs, proc[p].pc \in {"inspect", "restored"}, proc[p].at \in File,
           UNCHANGED <<live, owner, journal, receipt, lock, setting, world>>,
           NEW b \in BOOLEAN, Becomes(p, Skipped(p, proc[p].at, b)),
           b \/ owner[proc[p].at] # Tx(p)
    PROVE  Inv'
<1> DEFINE f == proc[p].at
           r == Skipped(p, f, b)
<1>1. Working(p) /\ Becomes(p, r) BY DEF Working
<1>2. proc[p] \in Process /\ Mem(p) \in Journal /\ Mem(p).known
    BY <1>1, Within, FileFacts DEF Undo
<1>3. /\ r \in Process /\ r.pc = "inspect" /\ r.request = proc[p].request
      /\ r.moved = proc[p].moved /\ r.at = f - 1 /\ r.mem = Mem(p)
      /\ r.failed = (proc[p].failed \/ b)
    <2>1. f - 1 \in File \cup {0} BY <1>1, Within, FileFacts
    <2>2. (proc[p].failed \/ b) \in BOOLEAN OBVIOUS
    <2> QED BY <1>2, <2>1, <2>2 DEF Skipped, Process, Mem, Pcs
<1>4. (proc[p].failed => r.failed) /\ (r.failed \/ Restored(Tx(p), Mem(p), f))
    BY <1>3 DEF Restored
<1> HIDE DEF r
<1> QED BY <1>1, <1>2, <1>3, <1>4, PassedKeeps

LEMMA RollbackConfirmKeeps ==
    ASSUME Inv, NEW p \in Procs, RollbackConfirm(p)
    PROVE  Inv'
<1>1. /\ proc[p].pc = "restored" /\ Working(p)
      /\ UNCHANGED <<live, owner, journal, receipt, lock, setting, world>>
      /\ \/ Matches(p, proc[p].at) /\ Becomes(p, Cleared(p, proc[p].at))
         \/ Becomes(p, Skipped(p, proc[p].at, TRUE))
    BY DEF RollbackConfirm, Disk, Outside, Working
<1>2. proc[p].at \in File BY <1>1, Within, ProcessFacts DEF Undo
<1> QED BY <1>1, <1>2, ClearedKeeps, SkippedKeeps

LEMMA RollbackInspectKeeps ==
    ASSUME Inv, NEW p \in Procs, RollbackInspect(p)
    PROVE  Inv'
<1> DEFINE f == proc[p].at
           r == Goes(p, "restore")
<1>1. /\ proc[p].pc = "inspect" /\ Working(p) /\ f > 0
      /\ UNCHANGED <<live, owner, journal, receipt, lock, setting, world>>
      /\ \/ Matches(p, f) /\ Becomes(p, Cleared(p, f))
         \/ ~Matches(p, f) /\ NeverOwned(p, f) /\ Becomes(p, Skipped(p, f, FALSE))
         \/ Becomes(p, r)
         \/ Becomes(p, Skipped(p, f, TRUE))
    BY DEF RollbackInspect, Disk, Outside, Working
<1>2. f \in File /\ Mem(p).known
    BY <1>1, Within, ProcessFacts DEF Undo
<1>3. ASSUME Matches(p, f), Becomes(p, Cleared(p, f)) PROVE Inv'
    BY <1>1, <1>2, <1>3, ClearedKeeps
<1>4. ASSUME ~Matches(p, f), NeverOwned(p, f), Becomes(p, Skipped(p, f, FALSE)) PROVE Inv'
    <2>1. owner[f] # Tx(p)
        BY <1>1, <1>2, <1>4, Within DEF Knows, Recorded, Marked, NeverOwned, Matches
    <2> QED BY <1>1, <1>2, <1>4, <2>1, SkippedKeeps
<1>5. ASSUME Becomes(p, Skipped(p, f, TRUE)) PROVE Inv'
    BY <1>1, <1>2, <1>5, SkippedKeeps
<1>6. ASSUME Becomes(p, r) PROVE Inv'
    <2>1. /\ r \in Process /\ r.pc = "restore" /\ r.request = proc[p].request
          /\ r.moved = proc[p].moved /\ r.at = f /\ r.mem = Mem(p) /\ r.failed = proc[p].failed
        BY <1>1, Within, GoesFacts DEF Pcs
    <2> HIDE DEF r
    <2>2. Kept(p)' /\ proc'[p] = r /\ Tx(p)' = Tx(p) /\ Mem(p)' = Mem(p)
        BY <1>1, <1>6, <2>1, Within, MoveStep
    <2>3. f # 0 BY <1>1, <1>2, Within
    <2>4. Place(p)' /\ Undo(p)' /\ Seen(p)'
        BY <1>1, <1>2, <2>1, <2>2, <2>3, Within, Frame
           DEF Place, Undo, Seen, Restored, InTransaction
    <2> QED BY <2>2, <2>4, KeptInv
<1> QED BY <1>1, <1>3, <1>4, <1>5, <1>6

-----------------------------------------------------------------------------
(* The terminal receipt.                                                   *)

LEMMA OutcomeFacts ==
    ASSUME Inv, NEW p \in Procs, proc[p].pc \in {"receipt", "settle"}
    PROVE  /\ Outcome(p) \in Outcomes /\ Reported(Outcome(p)) \in Outcomes \cup {"error"}
           /\ TerminalReceipt(p) \in Receipt
           /\ TerminalReceipt(p).outcome = Outcome(p) /\ TerminalReceipt(p).journal = Mem(p)
           /\ proc[p].pc = "receipt" => Outcome(p) = "deployed"
           /\ Reported(Outcome(p)) = "deployed" => proc[p].pc = "receipt"
           /\ Outcome(p) \in RolledBack => \A f \in File : Restored(Tx(p), Mem(p), f)
<1>1. Working(p) BY DEF Working
<1>2. /\ Undo(p) /\ Mem(p) \in Journal BY <1>1, Within
<1>3. Outcome(p) \in Outcomes BY DEF Outcome, Outcomes
<1>4. Mem(p).phase = "ROLLBACK_FAILED" => Outcome(p) = "rollback_failed" BY DEF Outcome
<1>5. Mem(p).phase = "COMPLETED" => Outcome(p) = "deployed" BY DEF Outcome
<1>6. Mem(p).phase # "COMPLETED" => Outcome(p) # "deployed" BY DEF Outcome
<1>7. /\ TerminalReceipt(p) \in Receipt
      /\ TerminalReceipt(p).outcome = Outcome(p) /\ TerminalReceipt(p).journal = Mem(p)
    BY <1>2, <1>3 DEF TerminalReceipt, Receipt
<1>8. Reported(Outcome(p)) \in Outcomes \cup {"error"} BY <1>3 DEF Reported
<1>9. Reported(Outcome(p)) = "deployed" => Outcome(p) = "deployed" BY DEF Reported
<1> QED BY <1>2, <1>3, <1>4, <1>5, <1>6, <1>7, <1>8, <1>9 DEF Undo, RolledBack

LEMMA HeldReceipt ==
    ASSUME Inv, NEW p \in Procs, proc[p].pc \in {"receipt", "settle"}, setting' = setting,
           receipt' = [receipt EXCEPT ![Tx(p)] = TerminalReceipt(p)],
           UNCHANGED <<live, owner, journal>>
    PROVE  Held' /\ receipt' \in [Transactions -> Receipt] /\ receipt'[Tx(p)].outcome = Outcome(p)
<1>1. Tx(p) \in Transactions /\ receipt \in [Transactions -> Receipt] /\ Held
    BY Within DEF Working, Inv, TypeInv
<1>2. /\ receipt'[Tx(p)] = TerminalReceipt(p)
      /\ \A t \in Transactions : t # Tx(p) => receipt'[t] = receipt[t]
    BY <1>1
<1>3. receipt' \in [Transactions -> Receipt] BY <1>1, OutcomeFacts
<1>4. RollbackExact'
    <2>1. File' = File /\ RolledBack' = RolledBack BY Frame DEF RolledBack
    <2>2. ASSUME NEW t \in Transactions, receipt'[t].outcome \in RolledBack, NEW f \in File,
                 owner'[f] = t
          PROVE  live'[f] = receipt'[t].journal.targets[f].prior
        <3>1. CASE t = Tx(p) BY <1>2, <2>2, <3>1, OutcomeFacts DEF Restored
        <3>2. CASE t # Tx(p) BY <1>1, <1>2, <2>2, <3>2 DEF Held, RollbackExact
        <3> QED BY <3>1, <3>2
    <2> QED BY <2>1, <2>2 DEF RollbackExact
<1>5. JournalInv' BY <1>1, Frame DEF Held, JournalInv, Recorded, Marked
<1> QED BY <1>2, <1>3, <1>4, <1>5, OutcomeFacts DEF Held

LEMMA WriteOnceKeeps ==
    ASSUME Inv, NEW p \in Procs, WriteOnce(p)
    PROVE  Inv'
<1>1. /\ proc[p].pc \in {"receipt", "settle"} /\ UNCHANGED <<live, owner, journal, setting, world>>
      /\ \/ /\ receipt' = [receipt EXCEPT ![Tx(p)] = TerminalReceipt(p)]
            /\ Ends(p, Reported(Outcome(p)))
         \/ Ends(p, "error") /\ UNCHANGED receipt
    BY DEF WriteOnce, Files, Outside
<1>2. ASSUME receipt' = [receipt EXCEPT ![Tx(p)] = TerminalReceipt(p)],
             Ends(p, Reported(Outcome(p)))
      PROVE  Inv'
    <2>1. Held' /\ receipt' \in [Transactions -> Receipt] BY <1>1, <1>2, HeldReceipt
    <2>2. /\ lock = p /\ lock' = NoProc /\ journal' \in [Transactions -> Journal]
          /\ Becomes(p, Idle(Reported(Outcome(p))))
        BY <1>1, <1>2, Holder DEF Ends, Inv, TypeInv
    <2>3. PICK a \in Outcomes \cup {"none", "error"} : a = Reported(Outcome(p))
        BY <1>1, OutcomeFacts
    <2> QED BY <1>1, <2>1, <2>2, <2>3, EndStep
<1>3. ASSUME Ends(p, "error"), UNCHANGED receipt PROVE Inv'
    BY <1>1, <1>3, EndsKeeps
<1> QED BY <1>1, <1>2, <1>3

LEMMA FaultAfterReceiptKeeps ==
    ASSUME Inv, NEW p \in Procs, FaultAfterReceipt(p)
    PROVE  Inv'
<1> DEFINE r == [Goes(p, "except") EXCEPT !.why = "other"]
<1>1. /\ proc[p].pc = "receipt" /\ Working(p) /\ Becomes(p, r)
      /\ receipt' = [receipt EXCEPT ![Tx(p)] = TerminalReceipt(p)]
      /\ UNCHANGED <<live, owner, journal, lock, setting, world>>
    BY DEF FaultAfterReceipt, Files, Working
<1>2. Held' /\ receipt' \in [Transactions -> Receipt] /\ receipt'[Tx(p)].outcome = "deployed"
    BY <1>1, HeldReceipt, OutcomeFacts
<1>3. /\ r \in Process /\ r.pc = "except" /\ r.request = proc[p].request /\ r.mem = Mem(p)
      /\ r.moved = proc[p].moved
    <2>1. proc[p] \in Process BY <1>1, Within
    <2> QED BY <2>1 DEF Goes, Process, Mem, Pcs
<1> HIDE DEF r
<1>4. /\ TypeInv' /\ LockInv' /\ (\A q \in Procs \ {p} : Worker(q)') /\ proc'[p] = r
    <2>1. lock = p /\ proc[p].request \in Requests /\ world \subseteq r.moved
        BY <1>1, <1>3, Holder
    <2>2. journal' \in [Transactions -> Journal] /\ live' \in [File -> Nat]
          /\ owner' \in [File -> Transactions \cup {0}] /\ lock' \in Procs \cup {NoProc}
        BY <1>1 DEF Inv, TypeInv
    <2> QED BY <1>1, <1>2, <1>3, <2>1, <2>2, OneStep DEF Becomes, Inv
<1>5. Tx(p)' = Tx(p) /\ Mem(p)' = Mem(p) BY <1>3, <1>4 DEF Tx, Mem
<1>6. Agrees(p)'
    BY <1>1, <1>2, <1>5, Within, Frame DEF Agrees, RolledBack, Recorded, Marked
<1>7. Place(p)' /\ Undo(p)' /\ Seen(p)'
    BY <1>1, <1>3, <1>4, <1>5, Within, Frame DEF Place, Undo, Seen, InTransaction
<1> QED BY <1>2, <1>4, <1>6, <1>7, KeptInv DEF Kept

-----------------------------------------------------------------------------
(* What goes wrong.                                                        *)

LEMMA FaultKeeps ==
    ASSUME Inv, NEW p \in Procs, Fault(p)
    PROVE  Inv'
<1>1. UNCHANGED <<live, owner, journal, receipt, setting, world>> /\ proc[p] \in Process
    BY DEF Fault, Disk, Inv, TypeInv
<1>2. \/ /\ proc[p].pc \in InTransaction /\ UNCHANGED lock
         /\ \E w \in Whys : Becomes(p, [Goes(p, "except") EXCEPT !.why = w])
      \/ /\ proc[p].pc \in {"inspect", "restore", "restored"} /\ UNCHANGED lock
         /\ Becomes(p, [Goes(p, "inspect") EXCEPT !.at = 0, !.failed = TRUE])
      \/ proc[p].pc \in {"backup", "prepare"} /\ Ends(p, "error")
    BY DEF Fault, Whys, Unjournaled
<1>3. ASSUME proc[p].pc \in InTransaction, UNCHANGED lock,
             NEW w \in Whys, Becomes(p, [Goes(p, "except") EXCEPT !.why = w])
      PROVE  Inv'
    <2> DEFINE r == [Goes(p, "except") EXCEPT !.why = w]
    <2>1. Becomes(p, r) BY <1>3
    <2>2. /\ r \in Process /\ r.pc = "except" /\ r.request = proc[p].request /\ r.mem = Mem(p)
          /\ r.moved = proc[p].moved
        BY <1>1 DEF Goes, Process, Mem, Whys, Pcs
    <2> HIDE DEF r
    <2> QED BY <1>1, <1>3, <2>1, <2>2, ExceptKeeps
<1>4. ASSUME proc[p].pc \in {"inspect", "restore", "restored"}, UNCHANGED lock,
             Becomes(p, [Goes(p, "inspect") EXCEPT !.at = 0, !.failed = TRUE])
      PROVE  Inv'
    <2> DEFINE r == [Goes(p, "inspect") EXCEPT !.at = 0, !.failed = TRUE]
    <2>1. Becomes(p, r) /\ Working(p) BY <1>4 DEF Working
    <2>2. /\ r \in Process /\ r.pc = "inspect" /\ r.request = proc[p].request /\ r.mem = Mem(p)
          /\ r.moved = proc[p].moved /\ r.at = 0 /\ r.failed
        BY <1>1 DEF Goes, Process, Mem, Pcs
    <2> HIDE DEF r
    <2>3. Kept(p)' /\ proc'[p] = r /\ Tx(p)' = Tx(p) /\ Mem(p)' = r.mem
        BY <1>1, <1>4, <2>1, <2>2, Within, MoveStep
    <2>4. Place(p)' /\ Undo(p)' /\ Seen(p)'
        BY <1>1, <2>1, <2>2, <2>3, Within DEF Place, Undo, Seen, InTransaction
    <2> QED BY <2>3, <2>4, KeptInv
<1>5. ASSUME proc[p].pc \in {"backup", "prepare"}, Ends(p, "error") PROVE Inv'
    BY <1>1, <1>5, EndsKeeps
<1> QED BY <1>2, <1>3, <1>4, <1>5

LEMMA CrashKeeps ==
    ASSUME Inv, NEW p \in Procs, Crash(p)
    PROVE  Inv'
<1>1. /\ UNCHANGED <<live, owner, journal, receipt, setting, world>> /\ Becomes(p, Idle("none"))
      /\ lock' = IF lock = p THEN NoProc ELSE lock
    BY DEF Crash, Files
<1>2. /\ journal' \in [Transactions -> Journal] /\ receipt' \in [Transactions -> Receipt]
      /\ lock' \in Procs \cup {NoProc} /\ (lock \in {NoProc, p} \/ lock' = lock) /\ Held
    BY <1>1 DEF Inv, TypeInv
<1>3. Held' BY <1>1, <1>2, HeldStays
<1> QED BY <1>1, <1>2, <1>3, EndStep

\* Whatever a process does with its memory, another hand leaves it there.
Same(p) ==
    /\ proc'[p].pc = proc[p].pc /\ proc'[p].request = proc[p].request
    /\ proc'[p].mem = proc[p].mem /\ proc'[p].at = proc[p].at /\ proc'[p].failed = proc[p].failed
    /\ proc'[p].seen \subseteq File /\ proc[p].seen \subseteq proc'[p].seen
    /\ proc'[p].moved \subseteq setting.parts /\ proc[p].moved \subseteq proc'[p].moved

LEMMA EditKeeps ==
    ASSUME Inv, NEW f \in File, NEW b \in {0, Foreign}, Edit(f, b)
    PROVE  Inv'
<1>1. /\ setting \in Settings /\ live \in [File -> Nat] /\ owner \in [File -> Transactions \cup {0}]
      /\ proc \in [Procs -> Process] /\ UNCHANGED <<journal, receipt, lock, setting, world>>
      /\ live' = [live EXCEPT ![f] = b] /\ owner' = [owner EXCEPT ![f] = 0]
    BY DEF Inv, TypeInv, Edit
<1>2. b \in Nat /\ 0 \notin Transactions BY <1>1, SettingFacts
<1>3. /\ live' \in [File -> Nat] /\ owner' \in [File -> Transactions \cup {0}]
      /\ owner'[f] = 0
      /\ \A g \in File : g # f => live'[g] = live[g] /\ owner'[g] = owner[g]
    BY <1>1, <1>2
<1>4. /\ proc' \in [Procs -> Process]
      /\ \A q \in Procs : /\ Same(q)
                          /\ proc[q].pc # "idle" => f \in proc'[q].seen
    <2>1. proc' = [q \in Procs |-> IF proc[q].pc = "idle" THEN proc[q]
                                  ELSE [proc[q] EXCEPT !.seen = @ \cup {f}]]
        BY DEF Edit
    <2>2. ASSUME NEW q \in Procs
          PROVE  /\ proc'[q] \in Process /\ Same(q)
                 /\ proc[q].pc # "idle" => f \in proc'[q].seen
        <3>1. proc[q] \in Process BY <1>1
        <3>2. CASE proc[q].pc = "idle" BY <2>1, <3>1, <3>2 DEF Same, Process
        <3>3. CASE proc[q].pc # "idle"
            <4>1. proc'[q] = [proc[q] EXCEPT !.seen = proc[q].seen \cup {f}] BY <2>1, <3>3
            <4> QED BY <3>1, <4>1 DEF Same, Process
        <3> QED BY <3>2, <3>3
    <2> QED BY <2>1, <2>2
<1>5. /\ File' = File /\ Program' = Program /\ Journal' = Journal /\ Receipt' = Receipt
      /\ Process' = Process /\ Requests' = Requests
    BY <1>1, Frame
<1>6. TypeInv' BY <1>1, <1>3, <1>4, <1>5 DEF Inv, TypeInv
<1>7. LockInv' BY <1>1, <1>4, <1>5 DEF Inv, LockInv, Same, Mem
<1>8. Held'
    BY <1>1, <1>2, <1>3, <1>5 DEF Inv, Held, JournalInv, RollbackExact, Recorded, Marked
<1>9. ASSUME NEW q \in Procs PROVE Worker(q)'
    <2>1. /\ Same(q) /\ Tx(q)' = Tx(q) /\ Mem(q)' = Mem(q) /\ \A g : New(q, g)' = New(q, g)
          /\ Working(q)' = Working(q) /\ Agrees(q) /\ Place(q) /\ Undo(q) /\ Seen(q)
          /\ proc[q].pc # "idle" => f \in proc'[q].seen
        BY <1>4 DEF Same, Tx, Mem, New, Working, Inv, WorkerInv, Worker
    <2>2. proc[q].pc # "idle" => Tx(q) # 0
        BY <1>2 DEF Inv, LockInv, Requests, Tx
    <2>3. Agrees(q)'
        BY <1>1, <1>3, <1>5, <2>1, <2>2 DEF Agrees, Recorded, Marked, Working
    <2>4. Place(q)'
        BY <1>1, <1>3, <1>5, <2>1, <2>2 DEF Place, Same, Marked, InTransaction
    <2>5. Undo(q)' BY <1>1, <1>3, <1>5, <2>1, <2>2 DEF Undo, Same, Restored
    <2>6. Seen(q)' BY <1>1, <1>3, <1>5, <2>1 DEF Seen, Same
    <2> QED BY <2>3, <2>4, <2>5, <2>6 DEF Worker
<1> QED BY <1>6, <1>7, <1>8, <1>9 DEF Inv, WorkerInv

LEMMA DriftKeeps ==
    ASSUME Inv, NEW part \in setting.parts, Drift(part)
    PROVE  Inv'
<1>1. /\ setting \in Settings /\ world \subseteq setting.parts
      /\ proc \in [Procs -> Process] /\ UNCHANGED <<live, owner, journal, receipt, lock, setting>>
      /\ world' = IF part \in world THEN world \ {part} ELSE world \cup {part}
    BY DEF Inv, TypeInv, Drift, Disk
<1>2. world' \subseteq setting.parts /\ world' \subseteq world \cup {part} BY <1>1
<1>3. /\ proc' \in [Procs -> Process]
      /\ \A q \in Procs : /\ Same(q)
                          /\ proc[q].pc # "idle" => part \in proc'[q].moved
    <2>1. proc' = [q \in Procs |-> IF proc[q].pc = "idle" THEN proc[q]
                                  ELSE [proc[q] EXCEPT !.moved = @ \cup {part}]]
        BY DEF Drift
    <2>2. ASSUME NEW q \in Procs
          PROVE  /\ proc'[q] \in Process /\ Same(q)
                 /\ proc[q].pc # "idle" => part \in proc'[q].moved
        <3>1. proc[q] \in Process BY <1>1
        <3>2. CASE proc[q].pc = "idle" BY <2>1, <3>1, <3>2 DEF Same, Process
        <3>3. CASE proc[q].pc # "idle"
            <4>1. proc'[q] = [proc[q] EXCEPT !.moved = proc[q].moved \cup {part}] BY <2>1, <3>3
            <4> QED BY <3>1, <4>1 DEF Same, Process
        <3> QED BY <3>2, <3>3
    <2> QED BY <2>1, <2>2
<1>4. /\ File' = File /\ Program' = Program /\ Journal' = Journal /\ Receipt' = Receipt
      /\ Process' = Process /\ Requests' = Requests
    BY <1>1, Frame
<1>5. TypeInv' BY <1>1, <1>2, <1>3, <1>4 DEF Inv, TypeInv
<1>6. LockInv' BY <1>1, <1>3, <1>4 DEF Inv, LockInv, Same, Mem
<1>7. Held' BY <1>1, HeldStays DEF Inv
<1>8. ASSUME NEW q \in Procs PROVE Worker(q)'
    <2>1. /\ Same(q) /\ Tx(q)' = Tx(q) /\ Mem(q)' = Mem(q) /\ \A g : New(q, g)' = New(q, g)
          /\ Working(q)' = Working(q) /\ Agrees(q) /\ Place(q) /\ Undo(q) /\ Seen(q)
          /\ proc[q].pc # "idle" => part \in proc'[q].moved
        BY <1>3 DEF Same, Tx, Mem, New, Working, Inv, WorkerInv, Worker
    <2>2. Agrees(q)' BY <1>1, <1>4, <2>1 DEF Agrees, Recorded, Marked, Working
    <2>3. Place(q)' BY <1>1, <1>4, <2>1 DEF Place, Same, Marked, InTransaction
    <2>4. Undo(q)' BY <1>1, <1>4, <2>1 DEF Undo, Same, Restored
    <2>5. Seen(q)' BY <1>1, <1>2, <1>4, <2>1 DEF Seen, Same
    <2> QED BY <2>2, <2>3, <2>4, <2>5 DEF Worker
<1> QED BY <1>5, <1>6, <1>7, <1>8 DEF Inv, WorkerInv

-----------------------------------------------------------------------------
(* The invariant of every behaviour.                                       *)

LEMMA InitEstablishes == Init => Inv
<1> SUFFICES ASSUME Init PROVE Inv OBVIOUS
<1>1. /\ setting \in Settings /\ live = setting.initial /\ owner = [f \in File |-> 0]
      /\ world = {} /\ lock = NoProc /\ journal = [t \in Transactions |-> Blank]
      /\ receipt = [t \in Transactions |-> NoReceipt] /\ proc = [p \in Procs |-> Idle("none")]
    BY DEF Init
<1>2. NoReceipt \in Receipt /\ NoReceipt.outcome = "none"
    BY BlankFacts DEF NoReceipt, Receipt
<1>3. \A p \in Procs : proc[p] \in Process /\ proc[p].pc = "idle" BY <1>1, IdleFacts
<1>4. TypeInv BY <1>1, <1>2, <1>3, SettingFacts, BlankFacts DEF TypeInv
<1>5. LockInv BY <1>3 DEF LockInv
<1>6. Held
    <2>1. \A f \in File, t \in Transactions : owner[f] # t BY <1>1, SettingFacts
    <2> QED BY <1>1, <2>1, BlankFacts DEF Held, JournalInv, RollbackExact, Recorded
<1>7. WorkerInv
    BY <1>3 DEF WorkerInv, Worker, Agrees, Place, Undo, Seen, Working, InTransaction
<1> QED BY <1>4, <1>5, <1>6, <1>7 DEF Inv

LEMMA StepKeeps == Inv /\ [Next]_vars => Inv'
<1> SUFFICES ASSUME Inv, [Next]_vars PROVE Inv' OBVIOUS
<1>1. ASSUME NEW p \in Procs, NEW q \in setting.requests, Start(p, q) PROVE Inv'
    BY <1>1, StartKeeps DEF Start, Outside
<1>2. ASSUME NEW p \in Procs, Opening(p) PROVE Inv'
    BY <1>2, ReplayKeeps, RefusedKeeps, AuthorityRecoveryKeeps, PolicyRecoveryKeeps,
       BomRecoveryKeeps, NewJournalKeeps, PolicyBeginKeeps, BomBeginKeeps DEF Opening
<1>3. ASSUME NEW p \in Procs, Authority(p) PROVE Inv'
    BY <1>3, PathStateKeeps, TargetRecordsKeeps, StageSourcesKeeps, VerifyPreconditionsKeeps, PromoteMarkKeeps,
       PromoteBoundaryKeeps, PromoteConfirmKeeps, AuthorityVerifyKeeps, AuthorityExceptKeeps
       DEF Authority
<1>4. ASSUME NEW p \in Procs, OneFile(p) PROVE Inv'
    BY <1>4, PolicyRefusedKeeps, PolicyStageKeeps, PolicyPrepareKeeps, PolicyMarkKeeps,
       PolicyConfirmKeeps, PolicyVerifyKeeps, PolicyExceptKeeps, BomBackupKeeps, BomPreparedKeeps,
       BomConfirmKeeps, BomVerifyKeeps, BomExceptKeeps, BomConcludeKeeps DEF OneFile
<1>5. ASSUME NEW p \in Procs, Shared(p) PROVE Inv'
    <2>1. ASSUME ExclusiveLock(p) PROVE Inv'
        BY <2>1, LockKeeps DEF ExclusiveLock, Outside
    <2> QED BY <1>5, <2>1, ReplaceKeeps, CompleteKeeps, WriteOnceKeeps, RollbackInspectKeeps,
               RollbackRestoreKeeps, RollbackConfirmKeeps, RollbackConcludeKeeps DEF Shared
<1>6. ASSUME NEW p \in Procs, Fault(p) \/ FaultAfterReceipt(p) \/ Crash(p) PROVE Inv'
    BY <1>6, FaultKeeps, FaultAfterReceiptKeeps, CrashKeeps
<1>7. ASSUME NEW f \in File, NEW b \in {0, Foreign}, Edit(f, b) PROVE Inv'
    BY <1>7, EditKeeps
<1>8. ASSUME NEW part \in setting.parts, Drift(part) PROVE Inv' BY <1>8, DriftKeeps
<1>9. ASSUME UNCHANGED vars PROVE Inv'
    <2>1. UNCHANGED <<setting, live, owner, world, lock, journal, receipt, proc>>
        BY <1>9 DEF vars
    <2>2. TypeInv' BY <2>1, Frame DEF Inv, TypeInv
    <2>3. LockInv' BY <2>1, Frame DEF Inv, LockInv, Mem
    <2>4. Held' BY <2>1, HeldStays DEF Inv
    <2>5. ASSUME NEW q \in Procs PROVE Worker(q)'
        <3>1. /\ Tx(q)' = Tx(q) /\ Mem(q)' = Mem(q) /\ \A g : New(q, g)' = New(q, g)
              /\ Working(q)' = Working(q) /\ Agrees(q) /\ Place(q) /\ Undo(q) /\ Seen(q)
              /\ File' = File /\ Program' = Program
            BY <2>1, Frame DEF Tx, Mem, New, Working, Inv, WorkerInv, Worker
        <3>2. Agrees(q)' BY <2>1, <3>1 DEF Agrees, Recorded, Marked
        <3>3. Place(q)' BY <2>1, <3>1 DEF Place, Marked, InTransaction
        <3>4. Undo(q)' BY <2>1, <3>1 DEF Undo, Restored
        <3>5. Seen(q)' BY <2>1, <3>1 DEF Seen
        <3> QED BY <3>2, <3>3, <3>4, <3>5 DEF Worker
    <2> QED BY <2>2, <2>3, <2>4, <2>5 DEF Inv, WorkerInv
<1> QED BY <1>1, <1>2, <1>3, <1>4, <1>5, <1>6, <1>7, <1>8, <1>9 DEF Next

\* The lock, the journals and what each process knows of its transaction keep the
\* invariant in every step of every program, of another hand and of a crash.
THEOREM DeploymentInvariance == Spec => []DeploymentInv
<1>1. Inv => DeploymentInv BY DEF Inv, DeploymentInv, Held
<1> QED BY InitEstablishes, StepKeeps, <1>1, PTL DEF Spec

\* A receipt that says that a transaction was undone is true of every file that
\* it wrote last, however many operators, files, edits and crashes there were
\* (deploy_router_authority.py, materialize_routing_policy.py and
\* promote_worker_runtime_bom.py: the rollback and its receipt).
THEOREM RollbackExactAlways == Spec => []RollbackExact
<1>1. DeploymentInv => RollbackExact BY DEF DeploymentInv
<1> QED BY DeploymentInvariance, <1>1, PTL

-----------------------------------------------------------------------------
(* Who is answered "deployed".                                             *)

Quiet(p) == proc'[p].pc = "idle" => proc'[p].answer # "deployed"

LEMMA BecomesQuiet ==
    ASSUME Inv, NEW p \in Procs, NEW r, Becomes(p, r), r.pc # "idle" \/ r.answer # "deployed"
    PROVE  Quiet(p)
BY DEF Inv, TypeInv, Becomes, Quiet

LEMMA IdleQuiet ==
    ASSUME Inv, NEW p \in Procs, Becomes(p, Idle("error")) \/ Becomes(p, Idle("none"))
    PROVE  Quiet(p)
BY BecomesQuiet DEF Idle

LEMMA RecordQuiet ==
    ASSUME Inv, NEW p \in Procs, NEW c \in Pcs \ {"idle"}
    PROVE  /\ Becomes(p, Goes(p, c)) => Quiet(p)
           /\ \A w : Becomes(p, [proc[p] EXCEPT !.pc = c, !.why = w]) => Quiet(p)
           /\ \A w : Becomes(p, [Goes(p, c) EXCEPT !.why = w]) => Quiet(p)
           /\ \A n : Becomes(p, [Goes(p, c) EXCEPT !.at = n]) => Quiet(p)
<1>1. proc[p] \in Process BY DEF Inv, TypeInv
<1>2. Goes(p, c).pc = c /\ \A w : [proc[p] EXCEPT !.pc = c, !.why = w].pc = c
    BY <1>1 DEF Goes, Process
<1>3. /\ \A w : [Goes(p, c) EXCEPT !.why = w].pc = c
      /\ \A n : [Goes(p, c) EXCEPT !.at = n].pc = c
    BY <1>1 DEF Goes, Process
<1> QED BY <1>2, <1>3, BecomesQuiet

LEMMA RollsBackQuiet ==
    ASSUME Inv, NEW p \in Procs, NEW j, NEW w, Becomes(p, RollsBack(p, j, w))
    PROVE  Quiet(p)
<1>1. RollsBack(p, j, w).pc = "inspect" BY DEF Inv, TypeInv, RollsBack, Process
<1> QED BY <1>1, BecomesQuiet

LEMMA SaveQuiet ==
    ASSUME Inv, NEW p \in Procs, NEW j, NEW c \in Pcs \ {"idle"}
    PROVE  /\ SaveJournal(p, j, Goes(p, c)) => Quiet(p)
           /\ \A n : SaveJournal(p, j, [Goes(p, c) EXCEPT !.at = n]) => Quiet(p)
           /\ \A w : SaveJournal(p, j, [Goes(p, c) EXCEPT !.why = w]) => Quiet(p)
           /\ \A s, m : SaveJournal(p, j, [Goes(p, c) EXCEPT !.seen = s, !.moved = m]) => Quiet(p)
           /\ \A s : SaveJournal(p, j, [Goes(p, c) EXCEPT !.seen = s]) => Quiet(p)
           /\ \A m : SaveJournal(p, j, [Goes(p, c) EXCEPT !.moved = m]) => Quiet(p)
<1>1. proc[p] \in Process BY DEF Inv, TypeInv
<1>2. ASSUME NEW r, "pc" \in DOMAIN r, "mem" \in DOMAIN r, r.pc = c, SaveJournal(p, j, r)
      PROVE  Quiet(p)
    <2>1. Becomes(p, [r EXCEPT !.mem = j]) BY <1>2 DEF SaveJournal
    <2>2. [r EXCEPT !.mem = j].pc = c BY <1>2
    <2> QED BY <2>1, <2>2, BecomesQuiet
<1>3. \A r \in Process : "pc" \in DOMAIN r /\ "mem" \in DOMAIN r BY DEF Process
<1> QED BY <1>1, <1>2, <1>3 DEF Goes, Process

LEMMA OpeningQuiet ==
    ASSUME Inv, NEW p \in Procs, Opening(p), ~AuthorityReplay(p), ~PolicyReplay(p), ~BomReplay(p)
    PROVE  Quiet(p)
<1>1. Rebinding(p) \/ Unusable(p) => Quiet(p)
    BY IdleQuiet DEF Rebinding, Unusable, Ends
<1>2. AuthorityRecovery(p) => Quiet(p) BY RollsBackQuiet, RecordQuiet DEF AuthorityRecovery, Pcs
<1>3. BomRecovery(p) => Quiet(p) BY RollsBackQuiet, RecordQuiet, IdleQuiet
       DEF BomRecovery, Ends, Pcs
<1>4. PolicyRecovery(p) => Quiet(p) BY RollsBackQuiet, RecordQuiet, SaveQuiet
       DEF PolicyRecovery, Pcs
<1>5. NewJournal(p) => Quiet(p) BY SaveQuiet DEF NewJournal, Pcs
<1>6. PolicyBegin(p) => Quiet(p)
    <2>1. PolicyBegin(p) =>
            \E j : \/ SaveJournal(p, j, Goes(p, "stage"))
                   \/ SaveJournal(p, j, [Goes(p, "refuse") EXCEPT !.why = "precondition"])
        BY DEF PolicyBegin
    <2> QED BY <2>1, SaveQuiet DEF Pcs
<1>7. BomBegin(p) => Quiet(p) BY RecordQuiet, IdleQuiet DEF BomBegin, Ends, Pcs
<1> QED BY <1>1, <1>2, <1>3, <1>4, <1>5, <1>6, <1>7 DEF Opening

LEMMA AuthorityQuiet ==
    ASSUME Inv, NEW p \in Procs, Authority(p)
    PROVE  Quiet(p)
<1>0. \A w : Raises(p, w) => Quiet(p) BY RecordQuiet DEF Raises, Pcs
<1>1. PathState(p) \/ TargetRecords(p) => Quiet(p)
    <2>1. PathState(p) =>
            \E t : Becomes(p, [Goes(p, "backup") EXCEPT !.mem.targets = t])
        BY DEF PathState
    <2>2. \A t : [Goes(p, "backup") EXCEPT !.mem.targets = t].pc = "backup"
        BY DEF Inv, TypeInv, Process, Goes
    <2>3. PathState(p) => Quiet(p) BY <2>1, <2>2, BecomesQuiet
    <2> QED BY <1>0, <2>3, SaveQuiet DEF TargetRecords, Pcs
<1>2. StageSources(p) => Quiet(p) BY SaveQuiet DEF StageSources, Pcs
<1>3. VerifyPreconditions(p) => Quiet(p) BY <1>0, SaveQuiet DEF VerifyPreconditions, Pcs
<1>4. PromoteMark(p) => Quiet(p) BY <1>0, SaveQuiet DEF PromoteMark, Pcs
<1>5. PromoteBoundary(p) => Quiet(p) BY <1>0, RecordQuiet DEF PromoteBoundary, Pcs
<1>6. PromoteConfirm(p) => Quiet(p)
    <2>1. PromoteConfirm(p) =>
            \/ \E j, n : SaveJournal(p, j, [Goes(p, "mark") EXCEPT !.at = n])
            \/ \E j : SaveJournal(p, j, Goes(p, "verify"))
            \/ Raises(p, "other")
        BY DEF PromoteConfirm
    <2> QED BY <1>0, <2>1, SaveQuiet DEF Pcs
<1>7. AuthorityVerify(p) => Quiet(p) BY <1>0, SaveQuiet DEF AuthorityVerify, Pcs
<1>8. AuthorityExcept(p) => Quiet(p) BY RollsBackQuiet, RecordQuiet, IdleQuiet
       DEF AuthorityExcept, Ends, Pcs
<1> QED BY <1>1, <1>2, <1>3, <1>4, <1>5, <1>6, <1>7, <1>8 DEF Authority

LEMMA OneFileQuiet ==
    ASSUME Inv, NEW p \in Procs, OneFile(p)
    PROVE  Quiet(p)
<1>0. \A w : Raises(p, w) => Quiet(p) BY RecordQuiet DEF Raises, Pcs
<1>1. PolicyPreconditionFailed(p) => Quiet(p) BY SaveQuiet DEF PolicyPreconditionFailed, Pcs
<1>2. PolicyStage(p) => Quiet(p) BY <1>0, SaveQuiet DEF PolicyStage, Pcs
<1>3. PolicyPrepare(p) => Quiet(p) BY SaveQuiet DEF PolicyPrepare, Pcs
<1>4. PolicyMark(p) => Quiet(p) BY <1>0, SaveQuiet DEF PolicyMark, Pcs
<1>5. PolicyConfirm(p) => Quiet(p)
    <2>1. PolicyConfirm(p) =>
            \/ \E j, s : SaveJournal(p, j, [Goes(p, "verify") EXCEPT !.seen = s])
            \/ Raises(p, "other")
        BY DEF PolicyConfirm
    <2> QED BY <1>0, <2>1, SaveQuiet DEF Pcs
<1>6. PolicyVerify(p) => Quiet(p)
    <2>1. PolicyVerify(p) =>
            \/ \E j, m : SaveJournal(p, j, [Goes(p, "complete") EXCEPT !.moved = m])
            \/ Raises(p, "other")
        BY DEF PolicyVerify
    <2> QED BY <1>0, <2>1, SaveQuiet DEF Pcs
<1>7. PolicyExcept(p) => Quiet(p) BY RollsBackQuiet, RecordQuiet, SaveQuiet DEF PolicyExcept, Pcs
<1>8. BomPrepared(p) => Quiet(p)
    <2>1. BomPrepared(p) =>
            \E j : Becomes(p, [proc[p] EXCEPT !.pc = "replace", !.at = 1, !.mem = j])
        BY DEF BomPrepared
    <2>2. \A j : [proc[p] EXCEPT !.pc = "replace", !.at = 1, !.mem = j].pc = "replace"
        BY DEF Inv, TypeInv, Process
    <2> QED BY <2>1, <2>2, BecomesQuiet
<1>9. BomConfirm(p) => Quiet(p) BY SaveQuiet DEF BomConfirm, Pcs
<1>10. BomVerify(p) => Quiet(p) BY <1>0, SaveQuiet DEF BomVerify, Pcs
<1>11. BomExcept(p) => Quiet(p) BY RollsBackQuiet, RecordQuiet DEF BomExcept, Pcs
<1>12. BomConclude(p) => Quiet(p) BY SaveQuiet, IdleQuiet DEF BomConclude, Ends, Pcs
<1>13. BomBackup(p) => Quiet(p)
    <2>1. BomBackup(p) =>
            \/ Becomes(p, Idle("error"))
            \/ \E b : Becomes(p, [Goes(p, "prepare") EXCEPT !.mem.targets[1].backup = b])
        BY DEF BomBackup, Ends
    <2>2. \A b : [Goes(p, "prepare") EXCEPT !.mem.targets[1].backup = b].pc = "prepare"
        BY DEF Inv, TypeInv, Process, Goes
    <2> QED BY <2>1, <2>2, BecomesQuiet, IdleQuiet
<1> QED BY <1>1, <1>2, <1>3, <1>4, <1>5, <1>6, <1>7, <1>8, <1>9, <1>10, <1>11, <1>12, <1>13
       DEF OneFile

LEMMA SharedQuiet ==
    ASSUME Inv, NEW p \in Procs, Shared(p), ~WriteOnce(p)
    PROVE  Quiet(p)
<1>0. proc[p] \in Process BY DEF Inv, TypeInv
<1>1. ExclusiveLock(p) => Quiet(p) BY RecordQuiet, IdleQuiet DEF ExclusiveLock, Pcs
<1>2. Replace(p) => Quiet(p)
    <2> DEFINE r == [proc[p] EXCEPT !.pc = "confirm", !.mem.targets[proc[p].at].started = TRUE]
    <2>1. r.pc = "confirm" BY <1>0 DEF Process
    <2> QED BY <2>1, BecomesQuiet DEF Replace
<1>3. Complete(p) => Quiet(p) BY SaveQuiet DEF Complete, Pcs
<1>4. \A f : Becomes(p, Cleared(p, f)) => Quiet(p)
    <2>1. \A f : Cleared(p, f).pc = "inspect" BY <1>0 DEF Cleared, Process
    <2> QED BY <2>1, BecomesQuiet
<1>5. \A f, b : Becomes(p, Skipped(p, f, b)) => Quiet(p)
    <2>1. \A f, b : Skipped(p, f, b).pc = "inspect" BY <1>0 DEF Skipped, Process
    <2> QED BY <2>1, BecomesQuiet
<1>6. RollbackInspect(p) => Quiet(p) BY <1>4, <1>5, RecordQuiet DEF RollbackInspect, Pcs
<1>7. RollbackRestore(p) => Quiet(p) BY RecordQuiet DEF RollbackRestore, Pcs
<1>8. RollbackConfirm(p) => Quiet(p) BY <1>4, <1>5 DEF RollbackConfirm
<1>9. RollbackConclude(p) => Quiet(p) BY SaveQuiet DEF RollbackConclude, Pcs
<1> QED BY <1>1, <1>2, <1>3, <1>6, <1>7, <1>8, <1>9 DEF Shared

LEMMA FaultQuiet ==
    ASSUME Inv, NEW p \in Procs, Fault(p) \/ FaultAfterReceipt(p) \/ Crash(p)
    PROVE  Quiet(p)
<1>1. FaultAfterReceipt(p) => Quiet(p) BY RecordQuiet DEF FaultAfterReceipt, Pcs
<1>2. Crash(p) => Quiet(p) BY IdleQuiet DEF Crash
<1>3. Fault(p) => Quiet(p)
    <2> DEFINE r == [Goes(p, "inspect") EXCEPT !.at = 0, !.failed = TRUE]
    <2>1. r.pc = "inspect" BY DEF Inv, TypeInv, Goes, Process
    <2> HIDE DEF r
    <2>2. Fault(p) => \/ \E w : Becomes(p, [Goes(p, "except") EXCEPT !.why = w])
                      \/ Becomes(p, r) \/ Becomes(p, Idle("error"))
        BY DEF Fault, Ends, r
    <2> QED BY <2>1, <2>2, BecomesQuiet, RecordQuiet, IdleQuiet DEF Pcs
<1> QED BY <1>1, <1>2, <1>3

\* A step of one process answers no other.
Turn(p) == \E r : Becomes(p, r)

LEMMA Turns ==
    ASSUME NEW p
    PROVE  /\ \A q : Start(p, q) => Turn(p)
           /\ Opening(p) \/ Authority(p) \/ OneFile(p) \/ Shared(p) => Turn(p)
           /\ Fault(p) \/ FaultAfterReceipt(p) \/ Crash(p) => Turn(p)
<1>1. /\ \A a : Ends(p, a) => Turn(p)
      /\ \A j, r : SaveJournal(p, j, r) => Turn(p)
      /\ \A w : Raises(p, w) => Turn(p)
    BY DEF Turn, Ends, SaveJournal, Raises
<1>2. \A q : Start(p, q) => Turn(p) BY DEF Start, Turn
<1>3. Opening(p) => Turn(p)
    <2>1. AuthorityReplay(p) \/ PolicyReplay(p) \/ BomReplay(p) => Turn(p)
        BY <1>1 DEF AuthorityReplay, PolicyReplay, BomReplay, Replay
    <2>2. Rebinding(p) \/ AuthorityRecovery(p) \/ PolicyRecovery(p) \/ BomRecovery(p) => Turn(p)
        BY <1>1 DEF Rebinding, AuthorityRecovery, PolicyRecovery, BomRecovery, Turn
    <2>3. Unusable(p) \/ NewJournal(p) \/ PolicyBegin(p) \/ BomBegin(p) => Turn(p)
        BY <1>1 DEF Unusable, NewJournal, PolicyBegin, BomBegin, Turn
    <2> QED BY <2>1, <2>2, <2>3 DEF Opening
<1>4. Authority(p) => Turn(p)
    <2>1. \/ PathState(p) \/ TargetRecords(p) \/ StageSources(p)
          \/ VerifyPreconditions(p) \/ PromoteMark(p)
          => Turn(p)
        BY <1>1 DEF PathState, TargetRecords, StageSources, VerifyPreconditions, PromoteMark, Turn
    <2>2. PromoteBoundary(p) \/ PromoteConfirm(p) \/ AuthorityVerify(p) \/ AuthorityExcept(p)
            => Turn(p)
        BY <1>1 DEF PromoteBoundary, PromoteConfirm, AuthorityVerify, AuthorityExcept, Turn
    <2> QED BY <2>1, <2>2 DEF Authority
<1>5. OneFile(p) => Turn(p)
    <2>1. PolicyPreconditionFailed(p) \/ PolicyStage(p) \/ PolicyPrepare(p) \/ PolicyMark(p)
            => Turn(p)
        BY <1>1 DEF PolicyPreconditionFailed, PolicyStage, PolicyPrepare, PolicyMark
    <2>2. PolicyConfirm(p) \/ PolicyVerify(p) \/ PolicyExcept(p) => Turn(p)
        BY <1>1 DEF PolicyConfirm, PolicyVerify, PolicyExcept, Turn
    <2>3. \/ BomBackup(p) \/ BomPrepared(p) \/ BomConfirm(p) \/ BomVerify(p)
          \/ BomExcept(p) \/ BomConclude(p)
          => Turn(p)
        BY <1>1 DEF BomBackup, BomPrepared, BomConfirm, BomVerify, BomExcept, BomConclude, Turn
    <2> QED BY <2>1, <2>2, <2>3 DEF OneFile
<1>6. Shared(p) => Turn(p)
    <2>1. ExclusiveLock(p) \/ Replace(p) \/ Complete(p) \/ WriteOnce(p) => Turn(p)
        BY <1>1 DEF ExclusiveLock, Replace, Complete, WriteOnce, Turn
    <2>2. RollbackInspect(p) \/ RollbackRestore(p) \/ RollbackConfirm(p) \/ RollbackConclude(p)
            => Turn(p)
        BY <1>1 DEF RollbackInspect, RollbackRestore, RollbackConfirm, RollbackConclude, Turn
    <2> QED BY <2>1, <2>2 DEF Shared
<1>7. Fault(p) \/ FaultAfterReceipt(p) \/ Crash(p) => Turn(p)
    BY <1>1 DEF Fault, FaultAfterReceipt, Crash, Turn
<1> QED BY <1>2, <1>3, <1>4, <1>5, <1>6, <1>7

\* The answer "deployed" is given in one of these steps only.
LEMMA AnswerSteps ==
    ASSUME Inv, [Next]_vars, NEW p \in Procs, Answers(p, "deployed")
    PROVE  AuthorityReplay(p) \/ PolicyReplay(p) \/ BomReplay(p) \/ WriteOnce(p)
<1>1. proc[p].pc # "idle" /\ proc'[p].pc = "idle" /\ ~Quiet(p) BY DEF Answers, Quiet
<1>2. ASSUME NEW q \in Procs, Turn(q) PROVE q = p
    BY <1>1, <1>2 DEF Turn, Becomes, Inv, TypeInv
<1>3. ASSUME NEW f \in File, NEW b \in {0, Foreign}, Edit(f, b) PROVE FALSE
    <2>1. proc'[p] = [proc[p] EXCEPT !.seen = proc[p].seen \cup {f}] BY <1>1, <1>3 DEF Edit
    <2> QED BY <1>1, <2>1 DEF Inv, TypeInv, Process
<1>4. ASSUME NEW part \in setting.parts, Drift(part) PROVE FALSE
    <2>1. proc'[p] = [proc[p] EXCEPT !.moved = proc[p].moved \cup {part}] BY <1>1, <1>4 DEF Drift
    <2> QED BY <1>1, <2>1 DEF Inv, TypeInv, Process
<1>5. ASSUME NEW r \in setting.requests, Start(p, r) PROVE FALSE BY <1>1, <1>5 DEF Start
<1>6. Next BY <1>1 DEF vars
<1>7. \/ \E r \in setting.requests : Start(p, r)
      \/ Opening(p) \/ Authority(p) \/ OneFile(p) \/ Shared(p)
      \/ Fault(p) \/ FaultAfterReceipt(p) \/ Crash(p)
    BY <1>2, <1>3, <1>4, <1>6, Turns DEF Next
<1> QED BY <1>1, <1>5, <1>7, OpeningQuiet, AuthorityQuiet, OneFileQuiet, SharedQuiet, FaultQuiet

Whole(p) ==
    /\ \A f \in File : live[f] = New(p, f) \/ (f \in proc[p].seen /\ proc[p].pc # "open")
    /\ world \subseteq proc[p].moved

\* A repeated answer looks at the files in the step that gives it.
LEMMA ReplayWhole ==
    ASSUME Inv, NEW p \in Procs, AuthorityReplay(p) \/ PolicyReplay(p) \/ BomReplay(p),
           Answers(p, "deployed")
    PROVE  Whole(p)
<1> DEFINE g == receipt[Tx(p)]
<1>1. /\ setting \in Settings /\ world \subseteq proc[p].moved /\ proc \in [Procs -> Process]
    BY DEF Inv, TypeInv, WorkerInv, Worker, Seen, Answers
<1>2. PICK h \in BOOLEAN :
         /\ Ends(p, IF Bound(p, g.journal) /\ VerifyReceiptDigest(Tx(p)) /\ h
                    THEN g.outcome ELSE "error")
         /\ h => \/ Program = "authority" /\ VerifyReplayState(Tx(p))
                 \/ Program = "policy" /\ PolicyReplayState(Tx(p))
                 \/ Program = "bom" /\ BomReplayState(Tx(p))
    <2>1. VerifyReplayState(Tx(p)) \in BOOLEAN /\ PolicyReplayState(Tx(p)) \in BOOLEAN
        BY DEF VerifyReplayState, PolicyReplayState
    <2>2. (ValidateCandidate /\ BomReplayState(Tx(p))) \in BOOLEAN OBVIOUS
    <2> QED BY <2>1, <2>2 DEF AuthorityReplay, PolicyReplay, BomReplay, Replay
<1>3. Bound(p, g.journal) /\ h /\ g.outcome = "deployed"
    BY <1>1, <1>2 DEF Ends, Becomes, Idle, Answers
<1>4. g.journal.request = proc[p].request BY <1>3 DEF Bound
<1>5. Program # "authority" => File = {1} BY <1>1, SettingFacts
<1>6. \A f \in File : live[f] = New(p, f)
    <2>1. CASE Program = "authority"
        BY <1>2, <1>3, <1>4, <2>1 DEF VerifyReplayState, New
    <2>2. CASE Program = "policy"
        BY <1>2, <1>3, <1>4, <1>5, <2>2 DEF PolicyReplayState, New
    <2>3. CASE Program = "bom" BY <1>2, <1>3, <1>4, <1>5, <2>3 DEF BomReplayState, New
    <2> QED BY <1>2, <1>3, <2>1, <2>2, <2>3
<1> QED BY <1>1, <1>6 DEF Whole

LEMMA ReceiptWhole ==
    ASSUME Inv, NEW p \in Procs, WriteOnce(p), Answers(p, "deployed")
    PROVE  Whole(p)
<1>1. proc[p].pc \in {"receipt", "settle"} /\ Working(p) BY DEF WriteOnce, Working
<1>2. Ends(p, Reported(Outcome(p)))
    <2>1. proc \in [Procs -> Process] BY DEF Inv, TypeInv
    <2>2. ~Ends(p, "error") BY <2>1 DEF Ends, Becomes, Idle, Answers
    <2> QED BY <2>2 DEF WriteOnce
<1>3. Reported(Outcome(p)) = "deployed"
    BY <1>2 DEF Ends, Becomes, Idle, Answers, Inv, TypeInv
<1>4. proc[p].pc = "receipt" BY <1>1, <1>3, OutcomeFacts
<1> QED BY <1>1, <1>4, Within DEF Seen, Whole

\* Whoever is answered "deployed" finds the whole bundle and the reviewed facts in
\* force, but for what another hand changed after the program's last look, and a
\* repeated answer is as good (the verification before the receipt, the replay of
\* a stored receipt).
THEOREM DeployedWholeAlways == Spec => DeployedWhole
<1>1. Inv /\ [Next]_vars =>
        [\A p \in Procs : Answers(p, "deployed") =>
           /\ \A f \in File : live[f] = New(p, f) \/ (f \in proc[p].seen /\ proc[p].pc # "open")
           /\ world \subseteq proc[p].moved]_vars
    BY AnswerSteps, ReplayWhole, ReceiptWhole DEF Whole
<1> QED BY <1>1, InitEstablishes, StepKeeps, PTL DEF Spec, DeployedWhole
===============================================================================
