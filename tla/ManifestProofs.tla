----------------------------- MODULE ManifestProofs -----------------------------
(***************************************************************************)
(* Proofs that the generations of the manifest form one chain and that the *)
(* records of its transactions tell the truth, for any processes,          *)
(* transactions, authorities and bounds.                                   *)
(***************************************************************************)
EXTENDS Manifest, TLAPS

Operations == {"recover", "render", "apply"}
Pcs == {"idle", "load", "prelim", "current", "context", "build", "inspect", "final",
        "check", "record", "receipt", "txcand", "begin", "promote", "reread", "swap",
        "copy", "close", "replay"}
\* Between the compare-and-swap of the predecessor and the swap of the pointer.
Committing == {"reread", "swap"}
\* Places at which the process has a candidate.
HasCandidate == {"inspect", "final", "check", "record", "receipt", "txcand", "begin",
                 "promote", "reread", "swap", "copy"}

Gen == [op: Operations, tx: Tx \cup {None}, prev: 0 .. MaxBuilds, seq: Nat,
        receipt: Versions, same: BOOLEAN]
Job == [op: Operations \cup {"none"}, pc: Pcs, tx: Tx \cup {None},
        want: Versions \cup {None}, cand: 0 .. MaxBuilds,
        authz: Authorizations \cup {None}, first: Versions \cup {None},
        cur: Versions \cup {None}, prev: 0 .. MaxBuilds,
        status: {"error", "denied", "committed"}]

\* A call knows its operation, its predecessor exists, and so does the candidate
\* it works on, when it has one; n candidates were built.
JobOk(j, n) ==
  /\ j.pc # "idle" => j.op # "none"
  /\ j.prev \in 0 .. n
  /\ j.pc \in HasCandidate \/ j.op = "apply" => j.cand \in 1 .. n

ChainType ==
  /\ setting \in Settings
  /\ auth \in Versions
  /\ gens \in Seq(Gen) /\ Len(gens) \in 0 .. MaxBuilds
  /\ pointer \in 0 .. Len(gens)
  /\ genfile \in [Builds -> {"none", "torn", "done"}]
  /\ job \in [Procs -> Job]
  /\ \A p \in Procs : JobOk(job[p], Len(gens))
  /\ log \in Seq(1 .. Len(gens))

\* Whoever is inside a call holds the mutex: two calls never overlap.
MutexHeld == \A p \in Procs : job[p].pc # "idle" => mutex = p

\* A process about to swap still works for the current predecessor, with a
\* candidate that follows it and is durable.
Follows ==
  \A p \in Procs : job[p].pc \in Committing =>
    LET c == job[p].cand IN
    /\ pointer = job[p].prev
    /\ gens[c].prev = pointer
    /\ gens[c].seq = SequenceOf(pointer) + 1
    /\ genfile[c] = "done"

ChainInv == ChainType /\ MutexHeld /\ Follows /\ GenerationChain

-----------------------------------------------------------------------------
LEMMA ChainInit == Init => ChainInv
<1> SUFFICES ASSUME Init PROVE ChainInv OBVIOUS
<1>1. \A p \in Procs : job[p] = Idle BY DEF Init
<1>2. Idle \in Job BY ManifestAssumption DEF Idle, Job, Pcs
<1>3. ChainType
  <2>1. setting \in Settings /\ auth \in Versions BY ManifestAssumption DEF Init
  <2>2. gens = << >> /\ log = << >> /\ pointer = 0 /\ Len(gens) = 0 BY DEF Init
  <2>3. genfile \in [Builds -> {"none", "torn", "done"}] BY DEF Init
  <2>4. job \in [Procs -> Job] BY <1>2 DEF Init
  <2>5. \A p \in Procs : JobOk(job[p], Len(gens))
    BY <1>1, <2>2 DEF JobOk, Idle, HasCandidate
  <2> QED BY <2>1, <2>2, <2>3, <2>4, <2>5, ManifestAssumption DEF ChainType
<1>4. MutexHeld BY <1>1 DEF MutexHeld, Idle
<1>5. Follows BY <1>1 DEF Follows, Idle, Committing
<1>6. GenerationChain BY DEF Init, GenerationChain
<1> QED BY <1>3, <1>4, <1>5, <1>6 DEF ChainInv

\* A step of a call that leaves pointer and generations alone: the call returns,
\* or goes on at a place outside the commit.
Quiet(p) ==
  /\ job' \in [Procs -> Job]
  /\ \A q \in Procs \ {p} : job'[q] = job[q]
  /\ \/ job'[p].pc = "idle" /\ mutex' = None
     \/ job'[p].pc \notin Committing \cup {"idle"} /\ mutex' = mutex
  /\ JobOk(job'[p], Len(gens'))

LEMMA ReturnQuiet ==
  ASSUME ChainInv, NEW p \in Procs, NEW s, Return(p, s), gens' = gens
  PROVE  Quiet(p)
<1>1. Idle \in Job BY ManifestAssumption DEF Idle, Job, Pcs
<1>2. job' = [job EXCEPT ![p] = Idle] /\ mutex' = None BY DEF Return
<1>3. job' \in [Procs -> Job] /\ job'[p] = Idle BY <1>1, <1>2 DEF ChainInv, ChainType
<1>4. JobOk(Idle, Len(gens'))
  BY DEF JobOk, Idle, HasCandidate, ChainInv, ChainType
<1> QED BY <1>2, <1>3, <1>4 DEF Quiet, Idle, ChainInv, ChainType

LEMMA ConcludeQuiet ==
  ASSUME ChainInv, NEW p \in Procs, NEW s \in {"error", "denied", "committed"},
         Conclude(p, s), job[p].pc # "idle", gens' = gens
  PROVE  Quiet(p)
<1>1. job' = [job EXCEPT ![p].pc = "close", ![p].status = s] /\ mutex' = mutex BY DEF Conclude
<1>2. job' \in [Procs -> Job]
  <2>1. job[p] \in Job BY DEF ChainInv, ChainType
  <2>2. [job[p] EXCEPT !.pc = "close", !.status = s] \in Job BY <2>1 DEF Job, Pcs
  <2>3. job' = [job EXCEPT ![p] = [job[p] EXCEPT !.pc = "close", !.status = s]]
    BY <1>1 DEF ChainInv, ChainType
  <2> QED BY <2>2, <2>3 DEF ChainInv, ChainType
<1>3. JobOk(job'[p], Len(gens'))
  BY <1>1 DEF ChainInv, ChainType, Job, JobOk, HasCandidate
<1> QED BY <1>1, <1>2, <1>3 DEF Quiet, ChainInv, ChainType, Job, Committing

LEMMA StopQuiet ==
  ASSUME ChainInv, NEW p \in Procs, NEW s \in {"error", "denied"},
         Stop(p, s), job[p].pc # "idle", gens' = gens
  PROVE  Quiet(p)
BY ReturnQuiet, ConcludeQuiet DEF Stop

LEMMA GotoQuiet ==
  ASSUME ChainInv, NEW p \in Procs, NEW pc \in Pcs \ (Committing \cup {"idle"}), Goto(p, pc),
         job[p].pc # "idle", gens' = gens,
         pc \in HasCandidate => job[p].pc \in HasCandidate
  PROVE  Quiet(p)
<1>1. job' = [job EXCEPT ![p].pc = pc] /\ mutex' = mutex BY DEF Goto
<1>2. job' \in [Procs -> Job]
  <2>1. job[p] \in Job BY DEF ChainInv, ChainType
  <2>2. [job[p] EXCEPT !.pc = pc] \in Job BY <2>1 DEF Job
  <2>3. job' = [job EXCEPT ![p] = [job[p] EXCEPT !.pc = pc]] BY <1>1 DEF ChainInv, ChainType
  <2> QED BY <2>2, <2>3 DEF ChainInv, ChainType
<1>3. JobOk(job'[p], Len(gens')) BY <1>1 DEF ChainInv, ChainType, Job, JobOk
<1> QED BY <1>1, <1>2, <1>3 DEF Quiet, ChainInv, ChainType, Job

\* Quiet steps keep the chain.
LEMMA QuietKeeps ==
  ASSUME ChainInv, NEW p \in Procs, job[p].pc # "idle", Quiet(p),
         UNCHANGED <<setting, auth, gens, pointer, genfile, log>>
  PROVE  ChainInv'
<1> USE DEF ChainInv
<1>1. ChainType' BY DEF ChainType, Quiet
<1>2. mutex = p /\ \A q \in Procs \ {p} : job[q].pc = "idle" BY DEF MutexHeld
<1>3. MutexHeld' BY <1>2 DEF MutexHeld, Quiet
<1>4. Follows' BY <1>2 DEF Follows, Quiet, Committing, SequenceOf
<1>5. GenerationChain' BY DEF GenerationChain
<1> QED BY <1>1, <1>3, <1>4, <1>5

\* A quiet step only updates some fields of the process's job.
LEMMA UpdateQuiet ==
  ASSUME ChainInv, NEW p \in Procs, NEW j \in Job, job' = [job EXCEPT ![p] = j],
         mutex' = mutex, j.pc \notin Committing \cup {"idle"}, gens' = gens,
         JobOk(j, Len(gens))
  PROVE  Quiet(p)
BY DEF Quiet, ChainInv, ChainType

-----------------------------------------------------------------------------
\* Calls begin only when nobody holds the mutex.
LEMMA EnterKeeps ==
  ASSUME ChainInv, NEW p \in Procs, NEW r \in Job, r.pc \notin Committing \cup {"idle"},
         JobOk(r, Len(gens)), Enter(p, r)
  PROVE  ChainInv'
<1> USE DEF ChainInv
<1>u. UNCHANGED <<setting, auth, gens, pointer, genfile, log>> BY DEF Enter
<1>1. CASE UNCHANGED <<mutex, job>>
  BY <1>u, <1>1 DEF ChainType, MutexHeld, Follows, SequenceOf, GenerationChain
<1>2. CASE MutexFree /\ mutex' = p /\ job' = [job EXCEPT ![p] = r]
  <2>1. \A q \in Procs : job[q].pc = "idle"
    BY <1>2, ManifestAssumption DEF MutexFree, MutexHeld
  <2>2. \A q \in Procs : job'[q] = IF q = p THEN r ELSE job[q] BY <1>2 DEF ChainType
  <2>3. ChainType' BY <1>u, <1>2, <2>2 DEF ChainType
  <2>4. MutexHeld' BY <1>2, <2>1, <2>2 DEF MutexHeld
  <2>5. Follows' BY <2>1, <2>2 DEF Follows, Committing
  <2>6. GenerationChain' BY <1>u DEF GenerationChain
  <2> QED BY <2>3, <2>4, <2>5, <2>6
<1> QED BY <1>1, <1>2 DEF Enter

LEMMA StartKeeps ==
  ASSUME ChainInv, NEW p \in Procs,
         \/ StartRecover(p)
         \/ \E t \in OpTx, want \in {auth, setting.base} : StartRender(p, t, want)
         \/ \E t \in OpTx, want \in {auth, setting.base}, c \in 1 .. Len(gens),
               a \in Authorizations : StartApply(p, t, want, c, a)
  PROVE  ChainInv'
<1>b. /\ setting.base \in Versions /\ auth \in Versions
      /\ Len(gens) \in 0 .. MaxBuilds /\ MaxBuilds \in Nat
  BY ManifestAssumption DEF ChainInv, ChainType
<1>i. Idle \in Job BY ManifestAssumption DEF Idle, Job, Pcs
<1>1. CASE StartRecover(p)
  <2> DEFINE r == [Idle EXCEPT !.op = "recover", !.pc = "load"]
  <2>1. r \in Job
    <3>1. "recover" \in Operations /\ "load" \in Pcs BY DEF Operations, Pcs
    <3> QED BY <1>i, <3>1 DEF Job
  <2>2. r.pc = "load" /\ JobOk(r, Len(gens)) BY <1>b DEF JobOk, Idle, HasCandidate
  <2>3. Enter(p, r) BY <1>1 DEF StartRecover
  <2> HIDE DEF r
  <2> QED BY <2>1, <2>2, <2>3, EnterKeeps DEF Committing
<1>2. ASSUME NEW t \in OpTx, NEW want \in {auth, setting.base}, StartRender(p, t, want)
      PROVE  ChainInv'
  <2> DEFINE r == [Idle EXCEPT !.op = "render", !.pc = "prelim", !.tx = t, !.want = want]
  <2>1. r \in Job BY <1>b, <1>i DEF Job, Pcs, Operations, Tx
  <2>2. r.pc = "prelim" /\ JobOk(r, Len(gens)) BY <1>b DEF JobOk, Idle, HasCandidate
  <2>3. Enter(p, r) BY <1>2 DEF StartRender
  <2> HIDE DEF r
  <2> QED BY <2>1, <2>2, <2>3, EnterKeeps DEF Committing
<1>3. ASSUME NEW t \in OpTx, NEW want \in {auth, setting.base}, NEW c \in 1 .. Len(gens),
             NEW a \in Authorizations, StartApply(p, t, want, c, a)
      PROVE  ChainInv'
  <2> DEFINE r == [Idle EXCEPT !.op = "apply", !.pc = "replay", !.tx = t,
                               !.want = want, !.cand = c, !.authz = a]
  <2>1. r \in Job
    <3>1. /\ "apply" \in Operations /\ "replay" \in Pcs /\ t \in Tx
          /\ want \in Versions /\ c \in 0 .. MaxBuilds
      BY <1>b DEF Operations, Pcs, Tx
    <3> QED BY <1>i, <3>1 DEF Job
  <2>2. r.pc = "replay" /\ JobOk(r, Len(gens)) BY <1>b DEF JobOk, Idle, HasCandidate
  <2>3. Enter(p, r) BY <1>3 DEF StartApply
  <2> HIDE DEF r
  <2> QED BY <2>1, <2>2, <2>3, EnterKeeps DEF Committing
<1> QED BY <1>1, <1>2, <1>3

\* Loading and the stable readings.
LEMMA ReadKeeps ==
  ASSUME ChainInv, NEW p \in Procs, Load(p) \/ ReadFirst(p) \/ ReadSecond(p) \/ ReadFails(p)
  PROVE  ChainInv'
<1>t. /\ job[p] \in Job /\ JobOk(job[p], Len(gens)) /\ auth \in Versions
      /\ Len(gens) \in 0 .. MaxBuilds /\ MaxBuilds \in Nat /\ job \in [Procs -> Job]
  BY ManifestAssumption DEF ChainInv, ChainType
<1>i. job[p].pc \in {"load", "prelim", "current", "final"}
  BY DEF Load, ReadFirst, ReadSecond, ReadFails, Reading
<1>u. UNCHANGED <<setting, auth, gens, pointer, genfile, log>>
  BY DEF Load, ReadFirst, ReadSecond, ReadFails
<1>1. CASE Load(p)
  <2> DEFINE base == Receipt(pointer)
             j == [job[p] EXCEPT !.pc = "prelim", !.want = base]
  <2>1. base \in Versions
    <3>1. CASE pointer = 0 BY <3>1, ManifestAssumption DEF Receipt, ChainInv, ChainType
    <3>2. CASE pointer # 0
      <4>1. gens[pointer] \in Gen BY <3>2 DEF ChainInv, ChainType
      <4> QED BY <3>2, <4>1 DEF Receipt, Gen
    <3> QED BY <3>1, <3>2
  <2>2. CASE \E s : Return(p, s) BY <1>u, <2>2, ReturnQuiet, QuietKeeps, <1>i
  <2>3. CASE job' = [job EXCEPT ![p].pc = "prelim", ![p].want = base] /\ mutex' = mutex
    <3>1. j \in Job BY <1>t, <2>1 DEF Job, Pcs
    <3>2. job' = [job EXCEPT ![p] = j] BY <2>3, <1>t
    <3>3. j.pc = "prelim" /\ j.op = job[p].op /\ j.cand = job[p].cand /\ j.prev = job[p].prev
      BY <1>t DEF Job
    <3>4. JobOk(j, Len(gens)) BY <1>t, <1>i, <3>3 DEF JobOk, HasCandidate
    <3> HIDE DEF j
    <3> QED BY <1>i, <1>u, <2>3, <3>1, <3>2, <3>3, <3>4, UpdateQuiet, QuietKeeps DEF Committing
  <2> QED BY <1>1, <2>2, <2>3 DEF Load
<1>2. CASE ReadFirst(p)
  <2> DEFINE j == [job[p] EXCEPT !.first = auth]
  <2>1. CASE Stop(p, "denied") BY <1>u, <1>i, <2>1, StopQuiet, QuietKeeps
  <2>2. CASE job' = [job EXCEPT ![p].first = auth] /\ mutex' = mutex
    <3>1. j \in Job BY <1>t DEF Job
    <3>2. job' = [job EXCEPT ![p] = j] BY <2>2, <1>t
    <3>3. j.pc = job[p].pc /\ j.op = job[p].op /\ j.cand = job[p].cand /\ j.prev = job[p].prev
      BY <1>t DEF Job
    <3>4. JobOk(j, Len(gens)) BY <1>t, <3>3 DEF JobOk
    <3> HIDE DEF j
    <3> QED BY <1>i, <1>u, <2>2, <3>1, <3>2, <3>3, <3>4, UpdateQuiet, QuietKeeps DEF Committing
  <2> QED BY <1>2, <2>1, <2>2 DEF ReadFirst
<1>3. CASE ReadSecond(p)
  <2>1. CASE Stop(p, "denied") BY <1>u, <1>i, <2>1, StopQuiet, QuietKeeps
  <2>2. CASE Accepted(p, auth)
    <3>1. PICK next \in {"current", "context", "check", "record", "promote"} :
            /\ job' = [job EXCEPT ![p].pc = next, ![p].first = None, ![p].cur = auth]
            /\ mutex' = mutex
            /\ next \in {"check", "record", "promote"} => job[p].pc = "final"
      <4>1. job[p].pc \in {"prelim", "current", "final"} BY <1>3 DEF ReadSecond, Reading
      <4>2. job[p].op \in Operations BY <1>t, <4>1 DEF JobOk, Job
      <4>3. CASE job[p].pc = "prelim" BY <2>2, <4>3 DEF Accepted
      <4>4. CASE job[p].pc = "current" BY <2>2, <4>4 DEF Accepted
      <4>5. CASE job[p].pc = "final" BY <2>2, <4>2, <4>5 DEF Accepted, Operations
      <4> QED BY <4>1, <4>3, <4>4, <4>5
    <3> DEFINE j == [job[p] EXCEPT !.pc = next, !.first = None, !.cur = auth]
    <3>2. j \in Job BY <1>t DEF Job, Pcs
    <3>3. job' = [job EXCEPT ![p] = j] BY <3>1, <1>t
    <3>4. j.pc = next /\ j.op = job[p].op /\ j.cand = job[p].cand /\ j.prev = job[p].prev
      BY <1>t DEF Job
    <3>5. JobOk(j, Len(gens)) BY <1>t, <1>i, <3>1, <3>4 DEF JobOk, HasCandidate
    <3> HIDE DEF j
    <3> QED BY <1>i, <1>u, <3>1, <3>2, <3>3, <3>4, <3>5, UpdateQuiet, QuietKeeps DEF Committing
  <2> QED BY <1>3, <2>1, <2>2 DEF ReadSecond
<1>4. CASE ReadFails(p) BY <1>4, <1>u, <1>i, StopQuiet, QuietKeeps DEF ReadFails
<1> QED BY <1>1, <1>2, <1>3, <1>4

\* A new candidate is appended: whatever was said of the earlier ones still holds.
LEMMA BuildKeeps ==
  ASSUME ChainInv, NEW p \in Procs, Build(p)
  PROVE  ChainInv'
<1> USE DEF ChainInv
<1> DEFINE n == Len(gens) + 1
           pc == IF job[p].op = "render" THEN "inspect" ELSE "final"
           j == [job[p] EXCEPT !.cand = n, !.pc = pc]
<1>t. /\ job[p] \in Job /\ JobOk(job[p], Len(gens)) /\ auth \in Versions
      /\ Len(gens) \in Nat /\ n \in 1 .. MaxBuilds /\ MaxBuilds \in Nat
      /\ job \in [Procs -> Job] /\ gens \in Seq(Gen) /\ pointer \in 0 .. Len(gens)
  BY ManifestAssumption DEF ChainType, Build
<1>u. UNCHANGED <<setting, auth, pointer, genfile, log, mutex>> BY DEF Build
<1>c. job[p].pc = "build" BY DEF Build
<1>m. mutex = p /\ \A q \in Procs \ {p} : job[q].pc = "idle" BY <1>c DEF MutexHeld
<1>1. PICK g \in Gen : gens' = Append(gens, g)
  <2>1. PICK same \in BOOLEAN :
          gens' = Append(gens, [op |-> job[p].op, tx |-> job[p].tx, prev |-> job[p].prev,
                                seq |-> SequenceOf(job[p].prev) + 1, receipt |-> auth,
                                same |-> same])
    BY DEF Build
  <2>2. job[p].op \in Operations BY <1>t, <1>c DEF JobOk, Job
  <2>3. SequenceOf(job[p].prev) \in Nat
    <3>1. CASE job[p].prev = 0 BY <3>1 DEF SequenceOf
    <3>2. CASE job[p].prev # 0
      <4>1. gens[job[p].prev] \in Gen BY <1>t, <3>2 DEF JobOk
      <4> QED BY <3>2, <4>1 DEF SequenceOf, Gen
    <3> QED BY <3>1, <3>2
  <2>4. SequenceOf(job[p].prev) + 1 \in Nat BY <2>3
  <2>5. job[p].tx \in Tx \cup {None} /\ job[p].prev \in 0 .. MaxBuilds BY <1>t DEF Job
  <2> QED BY <1>t, <2>1, <2>2, <2>4, <2>5 DEF Gen
<1>2. /\ gens' \in Seq(Gen) /\ Len(gens') = n
      /\ \A i \in 1 .. Len(gens) : gens'[i] = gens[i]
  BY <1>t, <1>1
<1>3. job' = [job EXCEPT ![p] = j]
  BY <1>t DEF Build
<1>4. j \in Job
  <2>1. pc \in Pcs /\ n \in 0 .. MaxBuilds BY <1>t DEF Pcs
  <2> HIDE DEF pc, n
  <2> QED BY <1>t, <2>1 DEF Job
<1>5. j.pc = pc /\ j.cand = n /\ j.op = job[p].op /\ j.prev = job[p].prev BY <1>t DEF Job
<1>6. pc \in {"inspect", "final"} OBVIOUS
<1>7. JobOk(j, n) /\ \A q \in Procs : JobOk(job[q], n)
  <2>1. \A q \in Procs : JobOk(job[q], Len(gens)) BY DEF ChainType
  <2>2. \A q \in Procs : JobOk(job[q], n) BY <1>t, <2>1 DEF JobOk
  <2> HIDE DEF pc
  <2>3. JobOk(j, n) BY <1>t, <1>c, <1>5, <1>6, <2>2 DEF JobOk
  <2> QED BY <2>2, <2>3
<1> HIDE DEF j, pc
<1>8. ChainType'
  <2>1. log' \in Seq(1 .. Len(gens'))
    <3>1. log \in Seq(1 .. Len(gens)) /\ 1 .. Len(gens) \subseteq 1 .. n
      BY <1>t DEF ChainType
    <3> QED BY <1>u, <1>2, <3>1
  <2>2. job' \in [Procs -> Job] /\ \A q \in Procs : JobOk(job'[q], Len(gens'))
    BY <1>t, <1>2, <1>3, <1>4, <1>7
  <2>3. pointer' \in 0 .. Len(gens') BY <1>t, <1>u, <1>2
  <2> QED BY <1>t, <1>u, <1>2, <2>1, <2>2, <2>3 DEF ChainType
<1>9. MutexHeld' BY <1>m, <1>t, <1>u, <1>3 DEF MutexHeld
<1>10. Follows' BY <1>m, <1>t, <1>3, <1>5, <1>6 DEF Follows, Committing
<1>11. GenerationChain'
  <2>1. \A i \in 1 .. Len(log) : log[i] \in 1 .. Len(gens) BY DEF ChainType
  <2> QED BY <1>u, <1>2, <2>1 DEF GenerationChain
<1> QED BY <1>8, <1>9, <1>10, <1>11

\* The context, the review and the begin record.
LEMMA PrepareKeeps ==
  ASSUME ChainInv, NEW p \in Procs,
         \/ BeginAutomatic(p) \/ RenderContext(p) \/ ApplyContext(p) \/ BuildFails(p)
         \/ Inspect(p) \/ WriteCandidate(p) \/ WriteReview(p) \/ KeepCandidate(p)
         \/ BeginOperator(p) \/ EarlyWriteFails(p)
  PROVE  ChainInv'
<1>t. /\ job[p] \in Job /\ JobOk(job[p], Len(gens)) /\ job \in [Procs -> Job]
      /\ Len(gens) \in 0 .. MaxBuilds /\ MaxBuilds \in Nat /\ pointer \in 0 .. Len(gens)
  BY ManifestAssumption DEF ChainInv, ChainType
<1>i. job[p].pc # "idle"
  BY DEF BeginAutomatic, RenderContext, ApplyContext, BuildFails, Inspect, WriteCandidate,
         WriteReview, KeepCandidate, BeginOperator, EarlyWriteFails
<1>u. UNCHANGED <<setting, auth, gens, pointer, genfile, log>>
  BY DEF BeginAutomatic, RenderContext, ApplyContext, BuildFails, Inspect, WriteCandidate,
         WriteReview, KeepCandidate, BeginOperator, EarlyWriteFails
<1> SUFFICES Quiet(p) BY <1>i, <1>u, QuietKeeps
<1>1. CASE BeginAutomatic(p)
  <2> DEFINE unused == {t \in AutoTx : begin[t] = NoBegin}
             t == CHOOSE t \in unused : TRUE
             j == [job[p] EXCEPT !.pc = "build", !.tx = t, !.prev = pointer]
  <2>1. t \in Tx BY <1>1 DEF BeginAutomatic, Tx
  <2>2. job' = [job EXCEPT ![p] = j] /\ mutex' = mutex BY <1>1, <1>t DEF BeginAutomatic
  <2> HIDE DEF t
  <2>3. j \in Job
    <3>1. "build" \in Pcs /\ pointer \in 0 .. MaxBuilds BY <1>t DEF Pcs
    <3> QED BY <1>t, <2>1, <3>1 DEF Job
  <2>4. j.pc = "build" /\ j.op = job[p].op /\ j.cand = job[p].cand /\ j.prev = pointer
    BY <1>t DEF Job
  <2>5. JobOk(j, Len(gens)) BY <1>t, <1>i, <2>4 DEF JobOk, HasCandidate
  <2> HIDE DEF j
  <2> QED BY <1>u, <2>2, <2>3, <2>4, <2>5, UpdateQuiet DEF Committing
<1>2. CASE RenderContext(p)
  <2> DEFINE j == [job[p] EXCEPT !.pc = "build", !.prev = pointer]
  <2>1. CASE \E s : Return(p, s) BY <1>u, <2>1, ReturnQuiet
  <2>2. CASE job' = [job EXCEPT ![p].pc = "build", ![p].prev = pointer] /\ mutex' = mutex
    <3>1. job' = [job EXCEPT ![p] = j] BY <2>2, <1>t
    <3>2. j \in Job
      <4>1. "build" \in Pcs /\ pointer \in 0 .. MaxBuilds BY <1>t DEF Pcs
      <4> QED BY <1>t, <4>1 DEF Job
    <3>3. j.pc = "build" /\ j.op = job[p].op /\ j.cand = job[p].cand /\ j.prev = pointer
      BY <1>t DEF Job
    <3>4. JobOk(j, Len(gens)) BY <1>t, <1>i, <3>3 DEF JobOk, HasCandidate
    <3> HIDE DEF j
    <3> QED BY <1>u, <2>2, <3>1, <3>2, <3>3, <3>4, UpdateQuiet DEF Committing
  <2> QED BY <1>2, <2>1, <2>2 DEF RenderContext
<1>3. CASE ApplyContext(p)
  <2> DEFINE j == [job[p] EXCEPT !.pc = "txcand", !.prev = pointer]
  <2>1. CASE Return(p, "denied") BY <1>u, <2>1, ReturnQuiet
  <2>2. CASE job' = [job EXCEPT ![p].pc = "txcand", ![p].prev = pointer] /\ mutex' = mutex
    <3>1. job' = [job EXCEPT ![p] = j] BY <2>2, <1>t
    <3>2. j \in Job
      <4>1. "txcand" \in Pcs /\ pointer \in 0 .. MaxBuilds BY <1>t DEF Pcs
      <4> QED BY <1>t, <4>1 DEF Job
    <3>3. j.pc = "txcand" /\ j.op = "apply" /\ j.op = job[p].op /\ j.cand = job[p].cand
          /\ j.prev = pointer
      BY <1>3, <1>t DEF ApplyContext, Job
    <3>4. JobOk(j, Len(gens)) BY <1>t, <3>3 DEF JobOk
    <3> HIDE DEF j
    <3> QED BY <1>u, <2>2, <3>1, <3>2, <3>3, <3>4, UpdateQuiet DEF Committing
  <2> QED BY <1>3, <2>1, <2>2 DEF ApplyContext
<1>4. CASE BuildFails(p) BY <1>4, <1>i, <1>u, StopQuiet DEF BuildFails
<1>5. CASE Inspect(p)
  <2>1. CASE Goto(p, "final")
    BY <1>5, <1>u, <2>1, GotoQuiet DEF Inspect, Pcs, Committing, HasCandidate
  <2>2. CASE Return(p, "denied") BY <1>u, <2>2, ReturnQuiet
  <2> QED BY <1>5, <2>1, <2>2 DEF Inspect
<1>6. CASE WriteCandidate(p)
  BY <1>6, <1>u, GotoQuiet DEF WriteCandidate, Pcs, Committing, HasCandidate
<1>7. CASE WriteReview(p) BY <1>7, <1>u, ReturnQuiet DEF WriteReview
<1>8. CASE KeepCandidate(p)
  <2>1. CASE Goto(p, "begin")
    BY <1>8, <1>u, <2>1, GotoQuiet DEF KeepCandidate, Pcs, Committing, HasCandidate
  <2>2. CASE Return(p, "error") BY <1>u, <2>2, ReturnQuiet
  <2> QED BY <1>8, <2>1, <2>2 DEF KeepCandidate
<1>9. CASE BeginOperator(p)
  BY <1>9, <1>u, GotoQuiet DEF BeginOperator, Pcs, Committing, HasCandidate
<1>10. CASE EarlyWriteFails(p) BY <1>10, <1>u, ReturnQuiet DEF EarlyWriteFails
<1> QED BY <1>1, <1>2, <1>3, <1>4, <1>5, <1>6, <1>7, <1>8, <1>9, <1>10

\* The last check, the failures of the promotion, and the ends of a transaction.
LEMMA ConclusionKeeps ==
  ASSUME ChainInv, NEW p \in Procs,
         Check(p) \/ PromotionFails(p) \/ Repair(p) \/ Close(p) \/ Replay(p)
  PROVE  ChainInv'
<1>i. job[p].pc # "idle" BY DEF Check, PromotionFails, Repair, Close, Replay
<1>u. UNCHANGED <<setting, auth, gens, pointer, genfile, log>>
  BY DEF Check, PromotionFails, Repair, Close, Replay
<1> SUFFICES Quiet(p) BY <1>i, <1>u, QuietKeeps
<1>1. CASE Check(p)
  <2>1. CASE Goto(p, "promote")
    BY <1>1, <1>u, <2>1, GotoQuiet DEF Check, Pcs, Committing, HasCandidate
  <2>2. CASE Conclude(p, "denied") BY <1>i, <1>u, <2>2, ConcludeQuiet
  <2> QED BY <1>1, <2>1, <2>2 DEF Check
<1>2. CASE PromotionFails(p) BY <1>2, <1>i, <1>u, ConcludeQuiet DEF PromotionFails
<1>3. CASE Repair(p) BY <1>3, <1>i, <1>u, ConcludeQuiet DEF Repair, Validated
<1>4. CASE Close(p) BY <1>4, <1>u, ReturnQuiet DEF Close
<1>5. CASE Replay(p)
  <2>1. CASE Goto(p, "prelim")
    BY <1>i, <1>u, <2>1, GotoQuiet DEF Pcs, Committing, HasCandidate
  <2>2. CASE \E s : Return(p, s) BY <1>u, <2>2, ReturnQuiet
  <2> QED BY <1>5, <2>1, <2>2 DEF Replay
<1> QED BY <1>1, <1>2, <1>3, <1>4, <1>5

\* The candidate's file is written and the call goes on to the commit, with the
\* predecessor and the number it was just found to have.
LEMMA PromoteKeeps ==
  ASSUME ChainInv, NEW p \in Procs, Promote(p)
  PROVE  ChainInv'
<1> USE DEF ChainInv
<1> DEFINE c == job[p].cand
<1>i. job[p].pc = "promote" BY DEF Promote
<1>u. UNCHANGED <<setting, auth, gens, pointer, log>> BY DEF Promote
<1>m. mutex = p /\ \A q \in Procs \ {p} : job[q].pc = "idle" BY <1>i DEF MutexHeld
<1>1. CASE Conclude(p, "error") /\ genfile' = genfile
  BY <1>1, <1>i, <1>u, ConcludeQuiet, QuietKeeps
<1>2. CASE /\ pointer = job[p].prev /\ gens[c].prev = job[p].prev
           /\ gens[c].seq = NextSequence
           /\ genfile' = [genfile EXCEPT ![c] = "done"]
           /\ Goto(p, "reread")
  <2> DEFINE j == [job[p] EXCEPT !.pc = "reread"]
  <2>t. job[p] \in Job /\ JobOk(job[p], Len(gens)) /\ job \in [Procs -> Job]
    BY DEF ChainType
  <2>1. job' = [job EXCEPT ![p] = j] /\ mutex' = mutex BY <1>2, <2>t DEF Goto
  <2>2. j \in Job BY <2>t DEF Job, Pcs
  <2>3. j.pc = "reread" /\ j.op = job[p].op /\ j.cand = c /\ j.prev = job[p].prev
    BY <2>t DEF Job
  <2>4. c \in 1 .. Len(gens) /\ JobOk(j, Len(gens))
    BY <1>i, <2>t, <2>3 DEF JobOk, HasCandidate
  <2>5. c \in Builds
    <3>1. MaxBuilds \in Nat /\ Len(gens) \in 0 .. MaxBuilds BY ManifestAssumption DEF ChainType
    <3> QED BY <2>4, <3>1 DEF Builds
  <2>6. genfile'[c] = "done" /\ \A d \in Builds : genfile[d] = "done" => genfile'[d] = "done"
    BY <1>2, <2>5 DEF ChainType
  <2> HIDE DEF j
  <2>7. \A q \in Procs : job'[q] = IF q = p THEN j ELSE job[q] BY <2>1, <2>t
  <2>8. ChainType'
    <3>1. genfile' \in [Builds -> {"none", "torn", "done"}] BY <1>2 DEF ChainType
    <3> QED BY <1>u, <2>1, <2>2, <2>4, <2>7, <3>1 DEF ChainType
  <2>9. MutexHeld' BY <1>m, <2>1, <2>7 DEF MutexHeld
  <2>10. Follows'
    <3>1. \A q \in Procs : job'[q].pc \in Committing => q = p
      BY <1>m, <2>7 DEF Committing
    <3>2. pointer = j.prev /\ gens[j.cand].prev = pointer
          /\ gens[j.cand].seq = SequenceOf(pointer) + 1
      BY <1>2, <2>3 DEF NextSequence
    <3> QED BY <1>u, <2>3, <2>6, <2>7, <3>1, <3>2 DEF Follows, SequenceOf
  <2>11. GenerationChain'
    <3>1. \A i \in 1 .. Len(log) : log[i] \in Builds
      <4>1. MaxBuilds \in Nat /\ Len(gens) \in 0 .. MaxBuilds BY ManifestAssumption DEF ChainType
      <4>2. \A i \in 1 .. Len(log) : log[i] \in 1 .. Len(gens) BY DEF ChainType
      <4> QED BY <4>1, <4>2 DEF Builds
    <3> QED BY <1>u, <2>6, <3>1 DEF GenerationChain
  <2> QED BY <2>8, <2>9, <2>10, <2>11
<1> QED BY <1>1, <1>2 DEF Promote

LEMMA RereadKeeps ==
  ASSUME ChainInv, NEW p \in Procs, Reread(p)
  PROVE  ChainInv'
<1> USE DEF ChainInv
<1>i. job[p].pc = "reread" BY DEF Reread
<1>u. UNCHANGED <<setting, auth, gens, pointer, genfile, log>> BY DEF Reread
<1>m. mutex = p /\ \A q \in Procs \ {p} : job[q].pc = "idle" BY <1>i DEF MutexHeld
<1>1. CASE Conclude(p, "error") BY <1>1, <1>i, <1>u, ConcludeQuiet, QuietKeeps
<1>2. CASE Goto(p, "swap")
  <2> DEFINE j == [job[p] EXCEPT !.pc = "swap"]
  <2>t. job[p] \in Job /\ JobOk(job[p], Len(gens)) /\ job \in [Procs -> Job]
    BY DEF ChainType
  <2>1. job' = [job EXCEPT ![p] = j] /\ mutex' = mutex BY <1>2, <2>t DEF Goto
  <2>2. j \in Job BY <2>t DEF Job, Pcs
  <2>3. j.pc = "swap" /\ j.op = job[p].op /\ j.cand = job[p].cand /\ j.prev = job[p].prev
    BY <2>t DEF Job
  <2>4. JobOk(j, Len(gens)) BY <1>i, <2>t, <2>3 DEF JobOk, HasCandidate
  <2> HIDE DEF j
  <2>5. \A q \in Procs : job'[q] = IF q = p THEN j ELSE job[q] BY <2>1, <2>t
  <2>6. ChainType' BY <1>u, <2>1, <2>2, <2>4, <2>5 DEF ChainType
  <2>7. MutexHeld' BY <1>m, <2>1, <2>5 DEF MutexHeld
  <2>8. Follows' BY <1>i, <1>m, <1>u, <2>3, <2>5 DEF Follows, Committing, SequenceOf
  <2>9. GenerationChain' BY <1>u DEF GenerationChain
  <2> QED BY <2>6, <2>7, <2>8, <2>9
<1> QED BY <1>1, <1>2 DEF Reread

\* The commit: the chain grows by the candidate.
LEMMA SwapKeeps ==
  ASSUME ChainInv, NEW p \in Procs, Swap(p)
  PROVE  ChainInv'
<1> USE DEF ChainInv
<1> DEFINE c == job[p].cand
           j == [job[p] EXCEPT !.pc = "copy"]
<1>i. job[p].pc = "swap" /\ UNCHANGED <<setting, auth, gens, genfile>>
  BY DEF Swap
<1>s. pointer' = c /\ log' = Append(log, c) BY DEF Swap
<1>m. mutex = p /\ \A q \in Procs \ {p} : job[q].pc = "idle" BY <1>i DEF MutexHeld
<1>t. /\ job[p] \in Job /\ JobOk(job[p], Len(gens)) /\ job \in [Procs -> Job]
      /\ log \in Seq(1 .. Len(gens)) /\ Len(log) \in Nat
  BY DEF ChainType
<1>1. job' = [job EXCEPT ![p] = j] /\ mutex' = mutex BY <1>t DEF Swap, Goto
<1>2. j \in Job BY <1>t DEF Job, Pcs
<1>3. j.pc = "copy" /\ j.op = job[p].op /\ j.cand = c /\ j.prev = job[p].prev
  BY <1>t DEF Job
<1>4. c \in 1 .. Len(gens) /\ JobOk(j, Len(gens))
  BY <1>i, <1>t, <1>3 DEF JobOk, HasCandidate
<1>f. /\ pointer = job[p].prev /\ gens[c].prev = pointer
      /\ gens[c].seq = SequenceOf(pointer) + 1 /\ genfile[c] = "done"
  BY <1>i DEF Follows, Committing
<1> HIDE DEF j, c
<1>5. \A q \in Procs : job'[q] = IF q = p THEN j ELSE job[q] BY <1>1, <1>t
<1>6. /\ log' \in Seq(1 .. Len(gens)) /\ Len(log') = Len(log) + 1 /\ log' # << >>
      /\ log'[Len(log) + 1] = c
      /\ \A i \in 1 .. Len(log) : log'[i] = log[i]
  BY <1>s, <1>t, <1>4
<1>7. ChainType'
  <2>1. pointer' \in 0 .. Len(gens) BY <1>s, <1>4 DEF ChainType
  <2> QED BY <1>i, <1>1, <1>2, <1>4, <1>5, <1>6, <2>1 DEF ChainType
<1>8. MutexHeld' BY <1>m, <1>1, <1>5 DEF MutexHeld
<1>9. Follows' BY <1>m, <1>3, <1>5 DEF Follows, Committing
<1>10. SequenceOf(pointer) = Len(log)
  <2>1. CASE log = << >> BY <2>1 DEF GenerationChain, SequenceOf
  <2>2. CASE log # << >>
    <3>1. Len(log) \in 1 .. Len(log) BY <1>t, <2>2
    <3>2. pointer = log[Len(log)] /\ pointer # 0 BY <1>t, <2>2, <3>1 DEF GenerationChain
    <3> QED BY <3>1, <3>2 DEF GenerationChain, SequenceOf
  <2> QED BY <2>1, <2>2
<1>11. GenerationChain'
  <2>1. ASSUME NEW i \in 1 .. Len(log')
        PROVE  /\ gens[log'[i]].prev = (IF i = 1 THEN 0 ELSE log'[i - 1])
               /\ gens[log'[i]].seq = i
               /\ genfile[log'[i]] = "done"
    <3>1. CASE i \in 1 .. Len(log)
      <4>1. i # 1 => i - 1 \in 1 .. Len(log) BY <3>1, <1>t
      <4> QED BY <1>6, <3>1, <4>1 DEF GenerationChain
    <3>2. CASE i = Len(log) + 1
      <4>1. gens[c].seq = i /\ genfile[c] = "done" /\ log'[i] = c
        BY <1>f, <1>6, <1>10, <3>2
      <4>2. CASE log = << >> BY <1>f, <3>2, <4>1, <4>2 DEF GenerationChain
      <4>3. CASE log # << >>
        <5>1. Len(log) \in 1 .. Len(log) /\ i - 1 = Len(log) /\ i # 1
          BY <1>t, <3>2, <4>3
        <5>2. log'[i - 1] = pointer BY <1>6, <4>3, <5>1 DEF GenerationChain
        <5> QED BY <1>f, <4>1, <5>1, <5>2
      <4> QED BY <4>2, <4>3
    <3> QED BY <1>t, <1>6, <3>1, <3>2
  <2> QED BY <1>i, <1>s, <1>6, <2>1 DEF GenerationChain
<1> QED BY <1>7, <1>8, <1>9, <1>11

\* A death ends a call wherever it is; the files of the chain are complete, and
\* a file of the chain is never written again.
LEMMA DieKeeps ==
  ASSUME ChainInv, NEW p \in Procs, Crash(p) \/ CrashWriting(p)
  PROVE  ChainInv'
<1> USE DEF ChainInv
<1>u. /\ UNCHANGED <<setting, auth, gens, pointer, log>>
      /\ job' = [job EXCEPT ![p] = Idle]
      /\ mutex' = IF mutex = p THEN None ELSE mutex
  BY DEF Crash, CrashWriting, Die
<1>1. \A q \in Procs : job'[q] = IF q = p THEN Idle ELSE job[q] BY <1>u DEF ChainType
<1>2. Idle \in Job BY ManifestAssumption DEF Idle, Job, Pcs
<1>3. JobOk(Idle, Len(gens)) BY DEF JobOk, Idle, HasCandidate, ChainType
<1>g. /\ genfile' \in [Builds -> {"none", "torn", "done"}]
      /\ \A d \in Builds : genfile[d] = "done" => genfile'[d] = "done"
  <2>1. CASE genfile' = genfile BY <2>1 DEF ChainType
  <2>2. CASE genfile[job[p].cand] = "none"
             /\ genfile' = [genfile EXCEPT ![job[p].cand] = "torn"]
    BY <2>2 DEF ChainType
  <2> QED BY <2>1, <2>2 DEF Crash, CrashWriting
<1>b. \A d \in 1 .. Len(gens) : d \in Builds
  <2>1. MaxBuilds \in Nat /\ Len(gens) \in 0 .. MaxBuilds BY ManifestAssumption DEF ChainType
  <2> QED BY <2>1 DEF Builds
<1>4. ChainType' BY <1>u, <1>1, <1>2, <1>3, <1>g DEF ChainType
<1>5. MutexHeld' BY <1>u, <1>1 DEF MutexHeld, Idle
<1>6. Follows'
  <2>1. ASSUME NEW q \in Procs, job'[q].pc \in Committing
        PROVE  job'[q] = job[q] /\ job[q].cand \in Builds
    <3>1. job'[q] = job[q] BY <1>1, <2>1 DEF Idle, Committing
    <3>2. job[q].cand \in 1 .. Len(gens)
      BY <2>1, <3>1 DEF ChainType, JobOk, Committing, HasCandidate
    <3> QED BY <1>b, <3>1, <3>2
  <2> QED BY <1>u, <1>g, <2>1 DEF Follows, SequenceOf
<1>7. GenerationChain'
  <2>1. \A i \in 1 .. Len(log) : log[i] \in 1 .. Len(gens) BY DEF ChainType
  <2> QED BY <1>b, <1>g, <1>u, <2>1 DEF GenerationChain
<1> QED BY <1>4, <1>5, <1>6, <1>7

LEMMA DriftsKeeps == ChainInv /\ Drifts => ChainInv'
<1> SUFFICES ASSUME ChainInv, Drifts PROVE ChainInv' OBVIOUS
<1> USE DEF ChainInv
<1>u. UNCHANGED <<setting, gens, pointer, genfile, job, mutex, log>> BY DEF Drifts
<1>1. auth' \in Versions
  <2>1. setting.versions \subseteq Versions BY ManifestAssumption DEF ChainType
  <2> QED BY <2>1 DEF Drifts
<1>2. ChainType' BY <1>u, <1>1 DEF ChainType
<1> QED BY <1>u, <1>2 DEF MutexHeld, Follows, SequenceOf, GenerationChain

LEMMA ChainNext == ChainInv /\ [Next]_vars => ChainInv'
<1> SUFFICES ASSUME ChainInv, [Next]_vars PROVE ChainInv' OBVIOUS
<1>1. CASE UNCHANGED vars
  <2>1. UNCHANGED <<setting, auth, gens, pointer, genfile, job, mutex, log>>
    BY <1>1 DEF vars
  <2> QED BY <2>1 DEF ChainInv, ChainType, MutexHeld, Follows, SequenceOf, GenerationChain
<1>2. CASE Drifts BY <1>2, DriftsKeeps
<1>3. ASSUME NEW p \in Procs,
             \/ StartRecover(p) \/ Load(p) \/ ReadFirst(p) \/ ReadSecond(p) \/ ReadFails(p)
             \/ \E t \in OpTx, want \in {auth, setting.base} :
                  setting.operator /\ StartRender(p, t, want)
             \/ \E t \in OpTx, want \in {auth, setting.base}, c \in 1 .. Len(gens),
                   a \in Authorizations : StartApply(p, t, want, c, a)
             \/ BeginAutomatic(p) \/ RenderContext(p) \/ ApplyContext(p) \/ Build(p)
             \/ BuildFails(p) \/ Inspect(p) \/ WriteCandidate(p) \/ WriteReview(p)
             \/ KeepCandidate(p) \/ BeginOperator(p) \/ EarlyWriteFails(p)
             \/ Check(p) \/ Promote(p) \/ Reread(p) \/ Swap(p) \/ PromotionFails(p)
             \/ Repair(p) \/ Close(p) \/ Replay(p) \/ Crash(p) \/ CrashWriting(p)
      PROVE  ChainInv'
  <2>1. CASE \/ StartRecover(p)
             \/ \E t \in OpTx, want \in {auth, setting.base} : StartRender(p, t, want)
             \/ \E t \in OpTx, want \in {auth, setting.base}, c \in 1 .. Len(gens),
                   a \in Authorizations : StartApply(p, t, want, c, a)
    BY <2>1, StartKeeps
  <2>2. CASE Load(p) \/ ReadFirst(p) \/ ReadSecond(p) \/ ReadFails(p) BY <2>2, ReadKeeps
  <2>3. CASE Build(p) BY <2>3, BuildKeeps
  <2>4. CASE \/ BeginAutomatic(p) \/ RenderContext(p) \/ ApplyContext(p) \/ BuildFails(p)
             \/ Inspect(p) \/ WriteCandidate(p) \/ WriteReview(p) \/ KeepCandidate(p)
             \/ BeginOperator(p) \/ EarlyWriteFails(p)
    BY <2>4, PrepareKeeps
  <2>5. CASE Check(p) \/ PromotionFails(p) \/ Repair(p) \/ Close(p) \/ Replay(p)
    BY <2>5, ConclusionKeeps
  <2>6. CASE Promote(p) BY <2>6, PromoteKeeps
  <2>7. CASE Reread(p) BY <2>7, RereadKeeps
  <2>8. CASE Swap(p) BY <2>8, SwapKeeps
  <2>9. CASE Crash(p) \/ CrashWriting(p) BY <2>9, DieKeeps
  <2> QED BY <1>3, <2>1, <2>2, <2>3, <2>4, <2>5, <2>6, <2>7, <2>8, <2>9
<1> QED BY <1>1, <1>2, <1>3 DEF Next

-----------------------------------------------------------------------------
\* promote_manifest_generation: whichever processes overlap or die, and whatever
\* the live authority does meanwhile, each generation names the one it replaced
\* as its predecessor, is numbered after it, and was durable before the pointer
\* named it.
THEOREM GenerationChainAlways == Spec => []GenerationChain
<1>1. ChainInv => GenerationChain BY DEF ChainInv
<1> QED BY ChainInit, ChainNext, <1>1, PTL DEF Spec

-----------------------------------------------------------------------------
(* The records of the transactions and the answers given to operators tell *)
(* the truth, from the chain of generations and the exclusion of calls.    *)

Begins == [st: {"none", "done", "torn"}, prev: 0 .. MaxBuilds, snap: Versions \cup {None},
           cand: 0 .. MaxBuilds, authz: Authorizations \cup {None}]
Terminals == [st: {"none", "done", "torn"}, status: {"error", "denied", "committed"},
              gen: 0 .. MaxBuilds]
Reviews == [cfile: {Torn} \cup 0 .. MaxBuilds, rfile: {"none", "done", "torn"},
            snap: Versions \cup {None}, cand: 0 .. MaxBuilds, prev: 0 .. MaxBuilds]

TablesType ==
  /\ begin \in [Tx -> Begins]
  /\ terminal \in [Tx -> Terminals]
  /\ review \in [OpTx -> Reviews]

\* Nothing is recorded of a transaction, and nothing came of it, before it began.
Unbegun ==
  \A t \in Tx : begin[t].st = "none" => terminal[t].st = "none" /\ ~Swapped(t)

\* What began an operator's transaction is its complete review.
Reviewed ==
  \A t \in OpTx : begin[t].st = "done" =>
    /\ review[t].rfile = "done"
    /\ review[t].cand = begin[t].cand
    /\ review[t].prev = begin[t].prev

AnswerOk ==
  answer.status = "rebuilt" /\ answer.tx \in OpTx =>
    /\ begin[answer.tx].st = "done"
    /\ begin[answer.tx].authz = answer.authz
    /\ begin[answer.tx].cand = answer.cand
    /\ \E i \in 1 .. Len(log) : log[i] = answer.cand
    /\ gens[answer.cand].prev = begin[answer.tx].prev

\* A call that has begun its transaction, one that prepares a review, and an
\* operator's call that has not begun yet.
Started(j) ==
  \/ j.pc \in {"check", "promote", "reread", "swap", "copy", "close"}
  \/ j.pc \in {"build", "final"} /\ j.op # "render"
Rendering(j) ==
  j.op = "render" /\ j.pc \in {"build", "inspect", "final", "record", "receipt"}
BeforeBegin(j) ==
  j.op = "apply" /\ j.pc \in {"prelim", "current", "context", "txcand", "begin"}

\* The transaction of a call between its begin record and its terminal: it has
\* reached the pointer exactly if the call got past the swap.
Underway(j) ==
  LET t == j.tx IN
  /\ t \in Tx
  /\ begin[t].st = "done"
  /\ terminal[t].st = "none"
  /\ j.op # "apply" => t \in AutoTx
  /\ j.op = "apply" => begin[t].cand = j.cand /\ begin[t].prev = j.prev
                       /\ begin[t].authz = j.authz
  /\ j.pc \notin {"copy", "close"} => ~Swapped(t)
  /\ j.pc \in Committing => gens[j.cand].tx = t
  /\ j.pc = "close" /\ j.status = "denied" => ~Swapped(t)
  /\ j.pc = "copy" \/ (j.pc = "close" /\ j.status = "committed") =>
       /\ Swapped(t)
       /\ gens[j.cand].prev = j.prev
       /\ \E i \in 1 .. Len(log) : log[i] = j.cand

\* Which operation passes which place.
Places(j) ==
  /\ j.op \in {"render", "apply"} => j.tx \in OpTx
  /\ j.pc \in {"load", "check"} => j.op = "recover"
  /\ j.pc \in {"inspect", "record", "receipt"} => j.op = "render"
  /\ j.pc \in {"txcand", "begin", "replay"} => j.op = "apply"
  /\ j.pc = "build" => j.op # "apply"
  /\ j.pc \in {"promote", "reread", "swap", "copy", "close"} => j.op # "render"

JobTx(j) ==
  j.pc # "idle" =>
    /\ Places(j)
    /\ Started(j) => Underway(j)
    /\ Rendering(j) => review[j.tx].rfile # "done"
    /\ BeforeBegin(j) => begin[j.tx].st = "none"
    /\ j.pc \in {"txcand", "begin"} =>
         /\ review[j.tx].rfile = "done"
         /\ review[j.tx].cand = j.cand
         /\ review[j.tx].prev = j.prev

TxInv ==
  /\ TablesType /\ Unbegun /\ Reviewed /\ AnswerOk /\ TerminalTruth
  /\ \A p \in Procs : JobTx(job[p])

-----------------------------------------------------------------------------
LEMMA TxInit == Init => TxInv
<1> SUFFICES ASSUME Init PROVE TxInv OBVIOUS
<1>1. 0 \in 0 .. MaxBuilds BY ManifestAssumption
<1>2. /\ begin = [t \in Tx |-> NoBegin] /\ terminal = [t \in Tx |-> NoTerminal]
      /\ review = [t \in OpTx |-> NoReview] /\ log = << >> /\ answer = NoAnswer
  BY DEF Init
<1>3. NoBegin \in Begins BY <1>1 DEF NoBegin, Begins
<1>4. NoTerminal \in Terminals BY <1>1 DEF NoTerminal, Terminals
<1>5. NoReview \in Reviews BY <1>1 DEF NoReview, Reviews
<1>6. TablesType BY <1>2, <1>3, <1>4, <1>5 DEF TablesType
<1>7. \A t \in Tx : begin[t].st = "none" /\ terminal[t].st = "none" /\ ~Swapped(t)
  BY <1>2 DEF NoBegin, NoTerminal, Swapped
<1>8. Unbegun /\ Reviewed /\ TerminalTruth
  BY <1>7 DEF Unbegun, Reviewed, TerminalTruth, Tx
<1>9. AnswerOk BY <1>2 DEF AnswerOk, NoAnswer
<1>10. \A p \in Procs : JobTx(job[p]) BY DEF Init, Idle, JobTx
<1> QED BY <1>6, <1>8, <1>9, <1>10 DEF TxInv

\* A step that writes none of the tables keeps what they say; it must answer for
\* the calls, and for its own answer.
LEMMA TablesKept ==
  ASSUME TxInv, UNCHANGED <<gens, begin, terminal, review, log>>,
         \A q \in Procs : JobTx(job'[q]),
         answer' = answer \/ answer'.status # "rebuilt"
  PROVE  TxInv'
<1>1. TablesType' /\ Unbegun' /\ Reviewed' /\ TerminalTruth'
  BY DEF TxInv, TablesType, Unbegun, Reviewed, TerminalTruth, Swapped
<1>2. AnswerOk' BY DEF TxInv, AnswerOk
<1>3. (\A q \in Procs : JobTx(job[q]))'
  BY DEF JobTx, Places, Started, Underway, Swapped, Rendering, BeforeBegin
<1> QED BY <1>1, <1>2, <1>3 DEF TxInv

\* Whoever is inside a call is alone.
LEMMA Alone ==
  ASSUME ChainInv, NEW p \in Procs, job[p].pc # "idle"
  PROVE  \A q \in Procs \ {p} : job[q].pc = "idle"
BY DEF ChainInv, MutexHeld

\* A step of one call that writes none of the tables.
LEMMA CallKeeps ==
  ASSUME ChainInv, TxInv, NEW p \in Procs, NEW j, JobTx(j),
         job' = [job EXCEPT ![p] = j],
         UNCHANGED <<gens, begin, terminal, review, log>>,
         answer' = answer \/ answer'.status # "rebuilt"
  PROVE  TxInv'
<1>1. \A q \in Procs : job'[q] = IF q = p THEN j ELSE job[q] BY DEF ChainInv, ChainType
<1>2. \A q \in Procs : JobTx(job'[q]) BY <1>1 DEF TxInv
<1> QED BY <1>2, TablesKept

LEMMA ReturnKeeps ==
  ASSUME ChainInv, TxInv, NEW p \in Procs, NEW s, s # "rebuilt", Return(p, s),
         UNCHANGED <<gens, begin, terminal, review, log>>
  PROVE  TxInv'
<1>1. JobTx(Idle) BY DEF JobTx, Idle
<1>2. job' = [job EXCEPT ![p] = Idle] /\ answer'.status = s BY DEF Return, NoAnswer
<1> QED BY <1>1, <1>2, CallKeeps

\* A begun transaction that is given up, or finished, goes to its terminal.
LEMMA ConcludeKeeps ==
  ASSUME ChainInv, TxInv, NEW p \in Procs, NEW s \in {"error", "denied", "committed"},
         Conclude(p, s), Started(job[p]),
         s = "committed" => job[p].pc = "copy", job[p].pc = "copy" => s # "denied",
         job[p].pc # "close",
         UNCHANGED <<gens, begin, terminal, review, log>>
  PROVE  TxInv'
<1> DEFINE j == [job[p] EXCEPT !.pc = "close", !.status = s]
<1>t. job[p] \in Job /\ job \in [Procs -> Job] /\ JobOk(job[p], Len(gens))
  BY DEF ChainInv, ChainType
<1>1. job' = [job EXCEPT ![p] = j] /\ answer' = answer BY <1>t DEF Conclude
<1>2. /\ j.pc = "close" /\ j.status = s /\ j.op = job[p].op /\ j.tx = job[p].tx
      /\ j.cand = job[p].cand /\ j.prev = job[p].prev /\ j.authz = job[p].authz
  BY <1>t DEF Job
<1>3. job[p].pc # "idle" /\ Places(job[p]) /\ Underway(job[p])
  BY DEF TxInv, JobTx, Started
<1>4. job[p].op # "render" BY <1>3 DEF Started, Places
<1>5. Places(j) BY <1>2, <1>3, <1>4 DEF Places
<1>6. Underway(j) BY <1>2, <1>3 DEF Underway, Committing
<1>7. JobTx(j) BY <1>2, <1>5, <1>6 DEF JobTx, Rendering, BeforeBegin
<1> HIDE DEF j
<1> QED BY <1>1, <1>7, CallKeeps

LEMMA StopKeeps ==
  ASSUME ChainInv, TxInv, NEW p \in Procs, NEW s \in {"error", "denied"}, Stop(p, s),
         UNCHANGED <<gens, begin, terminal, review, log>>
  PROVE  TxInv'
<1>1. CASE Begun(job[p])
  <2>1. Conclude(p, s) BY <1>1 DEF Stop
  <2>2. Started(job[p]) /\ job[p].pc # "copy" /\ job[p].pc # "close"
    BY <1>1 DEF Begun, Started
  <2> QED BY <2>1, <2>2, ConcludeKeeps
<1>2. CASE ~Begun(job[p]) BY <1>2, ReturnKeeps DEF Stop
<1> QED BY <1>1, <1>2

\* A call that goes on with the same transaction, candidate and predecessor.
LEMMA GotoKeeps ==
  ASSUME ChainInv, TxInv, NEW p \in Procs, NEW pc \in Pcs, Goto(p, pc),
         JobTx([job[p] EXCEPT !.pc = pc]),
         UNCHANGED <<gens, begin, terminal, review, log>>
  PROVE  TxInv'
<1>1. job' = [job EXCEPT ![p] = [job[p] EXCEPT !.pc = pc]] /\ answer' = answer
  BY DEF Goto, ChainInv, ChainType
<1> QED BY <1>1, CallKeeps

-----------------------------------------------------------------------------
\* The first lines of a call.
LEMMA StartTx ==
  ASSUME ChainInv, TxInv, NEW p \in Procs,
         \/ StartRecover(p)
         \/ \E t \in OpTx, want \in {auth, setting.base} : StartRender(p, t, want)
         \/ \E t \in OpTx, want \in {auth, setting.base}, c \in 1 .. Len(gens),
               a \in Authorizations : StartApply(p, t, want, c, a)
  PROVE  TxInv'
<1>1. ASSUME NEW r, JobTx(r), Enter(p, r) PROVE TxInv'
  <2>1. UNCHANGED <<gens, begin, terminal, review, log>> BY <1>1 DEF Enter
  <2>2. answer'.status # "rebuilt" BY <1>1 DEF Enter, NoAnswer
  <2>3. CASE job' = job BY <2>1, <2>2, <2>3, TablesKept DEF TxInv
  <2>4. CASE job' = [job EXCEPT ![p] = r] BY <1>1, <2>1, <2>2, <2>4, CallKeeps
  <2> QED BY <1>1, <2>3, <2>4 DEF Enter
<1>2. CASE StartRecover(p)
  <2>1. JobTx([Idle EXCEPT !.op = "recover", !.pc = "load"])
    BY DEF Idle, JobTx, Places, Started, Rendering, BeforeBegin
  <2> QED BY <1>1, <1>2, <2>1 DEF StartRecover
<1>3. ASSUME NEW t \in OpTx, NEW want \in {auth, setting.base}, StartRender(p, t, want)
      PROVE  TxInv'
  <2>1. JobTx([Idle EXCEPT !.op = "render", !.pc = "prelim", !.tx = t, !.want = want])
    BY DEF Idle, JobTx, Places, Started, Rendering, BeforeBegin
  <2> QED BY <1>1, <1>3, <2>1 DEF StartRender
<1>4. ASSUME NEW t \in OpTx, NEW want \in {auth, setting.base}, NEW c \in 1 .. Len(gens),
             NEW a \in Authorizations, StartApply(p, t, want, c, a)
      PROVE  TxInv'
  <2>1. JobTx([Idle EXCEPT !.op = "apply", !.pc = "replay", !.tx = t,
                           !.want = want, !.cand = c, !.authz = a])
    BY DEF Idle, JobTx, Places, Started, Rendering, BeforeBegin
  <2> QED BY <1>1, <1>4, <2>1 DEF StartApply
<1> QED BY <1>2, <1>3, <1>4

\* What TxInv says of the call of a process that is inside one.
LEMMA CallFacts ==
  ASSUME ChainInv, TxInv, NEW p \in Procs, job[p].pc # "idle"
  PROVE  /\ job[p] \in Job /\ job \in [Procs -> Job] /\ JobOk(job[p], Len(gens))
         /\ job[p].op \in Operations
         /\ Places(job[p]) /\ JobTx(job[p])
         /\ Started(job[p]) => Underway(job[p])
BY DEF ChainInv, ChainType, TxInv, JobTx, JobOk, Job

\* Loading and the stable readings.
LEMMA ReadTx ==
  ASSUME ChainInv, TxInv, NEW p \in Procs,
         Load(p) \/ ReadFirst(p) \/ ReadSecond(p) \/ ReadFails(p)
  PROVE  TxInv'
<1>u. UNCHANGED <<gens, begin, terminal, review, log>>
  BY DEF Load, ReadFirst, ReadSecond, ReadFails
<1>i. job[p].pc \in {"load", "prelim", "current", "final"}
  BY DEF Load, ReadFirst, ReadSecond, ReadFails, Reading
<1>t. /\ job[p] \in Job /\ job \in [Procs -> Job] /\ job[p].op \in Operations
      /\ Places(job[p]) /\ JobTx(job[p])
  BY <1>i, CallFacts
<1>1. CASE Load(p)
  <2> DEFINE j == [job[p] EXCEPT !.pc = "prelim", !.want = Receipt(pointer)]
  <2>1. CASE Return(p, "noop") \/ Return(p, "denied") BY <1>u, <2>1, ReturnKeeps
  <2>2. CASE /\ job' = [job EXCEPT ![p].pc = "prelim", ![p].want = Receipt(pointer)]
             /\ answer' = answer
    <3>1. job' = [job EXCEPT ![p] = j] BY <1>t, <2>2
    <3>2. j.pc = "prelim" /\ j.op = job[p].op BY <1>t DEF Job
    <3>3. j.op = "recover" BY <1>1, <1>t, <3>2 DEF Places, Load
    <3>4. JobTx(j) BY <3>2, <3>3 DEF JobTx, Places, Started, Rendering, BeforeBegin
    <3> HIDE DEF j
    <3> QED BY <1>u, <2>2, <3>1, <3>4, CallKeeps
  <2> QED BY <1>1, <2>1, <2>2 DEF Load
<1>2. CASE ReadFirst(p)
  <2> DEFINE j == [job[p] EXCEPT !.first = auth]
  <2>1. CASE Stop(p, "denied") BY <1>u, <2>1, StopKeeps
  <2>2. CASE job' = [job EXCEPT ![p].first = auth] /\ answer' = answer
    <3>1. job' = [job EXCEPT ![p] = j] BY <1>t, <2>2
    <3>2. /\ j.pc = job[p].pc /\ j.op = job[p].op /\ j.tx = job[p].tx /\ j.cand = job[p].cand
          /\ j.prev = job[p].prev /\ j.authz = job[p].authz /\ j.status = job[p].status
      BY <1>t DEF Job
    <3>3. JobTx(j)
      BY <1>t, <3>2 DEF JobTx, Places, Started, Underway, Rendering, BeforeBegin
    <3> HIDE DEF j
    <3> QED BY <1>u, <2>2, <3>1, <3>3, CallKeeps
  <2> QED BY <1>2, <2>1, <2>2 DEF ReadFirst
<1>3. CASE ReadSecond(p)
  <2>1. CASE Stop(p, "denied") BY <1>u, <2>1, StopKeeps
  <2>2. CASE Accepted(p, auth)
    <3>1. PICK next \in Pcs :
            /\ job' = [job EXCEPT ![p].pc = next, ![p].first = None, ![p].cur = auth]
            /\ answer' = answer
            /\ \/ job[p].pc \in {"prelim", "current"} /\ next \in {"current", "context"}
               \/ job[p].pc = "final" /\ job[p].op = "recover" /\ next = "check"
               \/ job[p].pc = "final" /\ job[p].op = "render" /\ next = "record"
               \/ job[p].pc = "final" /\ job[p].op = "apply" /\ next = "promote"
      <4>1. job[p].pc \in {"prelim", "current", "final"} BY <1>3 DEF ReadSecond, Reading
      <4>2. CASE job[p].pc = "prelim" BY <2>2, <4>2 DEF Accepted, Pcs
      <4>3. CASE job[p].pc = "current" BY <2>2, <4>3 DEF Accepted, Pcs
      <4>4. CASE job[p].pc = "final" BY <1>t, <2>2, <4>4 DEF Accepted, Operations, Pcs
      <4> QED BY <4>1, <4>2, <4>3, <4>4
    <3> DEFINE j == [job[p] EXCEPT !.pc = next, !.first = None, !.cur = auth]
    <3>2. job' = [job EXCEPT ![p] = j] BY <1>t, <3>1
    <3>3. /\ j.pc = next /\ j.op = job[p].op /\ j.tx = job[p].tx /\ j.cand = job[p].cand
          /\ j.prev = job[p].prev /\ j.authz = job[p].authz /\ j.status = job[p].status
      BY <1>t DEF Job
    <3>4. JobTx(j)
      <4>1. CASE job[p].pc \in {"prelim", "current"} /\ next \in {"current", "context"}
        BY <1>t, <3>3, <4>1 DEF JobTx, Places, Started, Rendering, BeforeBegin
      <4>2. CASE job[p].pc = "final" /\ job[p].op = "recover" /\ next = "check"
        BY <1>t, <3>3, <4>2
        DEF JobTx, Places, Started, Underway, Rendering, BeforeBegin, Committing
      <4>3. CASE job[p].pc = "final" /\ job[p].op = "render" /\ next = "record"
        BY <1>t, <3>3, <4>3 DEF JobTx, Places, Started, Rendering, BeforeBegin
      <4>4. CASE job[p].pc = "final" /\ job[p].op = "apply" /\ next = "promote"
        BY <1>t, <3>3, <4>4
        DEF JobTx, Places, Started, Underway, Rendering, BeforeBegin, Committing
      <4> QED BY <3>1, <4>1, <4>2, <4>3, <4>4
    <3> HIDE DEF j
    <3> QED BY <1>u, <3>1, <3>2, <3>4, CallKeeps
  <2> QED BY <1>3, <2>1, <2>2 DEF ReadSecond
<1>4. CASE ReadFails(p) BY <1>4, <1>u, StopKeeps DEF ReadFails
<1> QED BY <1>1, <1>2, <1>3, <1>4

\* The contexts, the inspection, the copy of the reviewed bytes, and the failures
\* and checks that only move the call.
LEMMA PrepareTx ==
  ASSUME ChainInv, TxInv, NEW p \in Procs,
         \/ RenderContext(p) \/ ApplyContext(p) \/ BuildFails(p) \/ Inspect(p)
         \/ KeepCandidate(p) \/ EarlyWriteFails(p)
  PROVE  TxInv'
<1>u. UNCHANGED <<gens, begin, terminal, review, log>>
  BY DEF RenderContext, ApplyContext, BuildFails, Inspect, KeepCandidate, EarlyWriteFails
<1>i. job[p].pc # "idle"
  BY DEF RenderContext, ApplyContext, BuildFails, Inspect, KeepCandidate, EarlyWriteFails
<1>t. /\ job[p] \in Job /\ job \in [Procs -> Job] /\ job[p].op \in Operations
      /\ Places(job[p]) /\ JobTx(job[p])
  BY <1>i, CallFacts
<1>1. CASE RenderContext(p)
  <2> DEFINE j == [job[p] EXCEPT !.pc = "build", !.prev = pointer]
  <2>1. CASE Return(p, "rendered") \/ Return(p, "error") BY <1>u, <2>1, ReturnKeeps
  <2>2. CASE /\ review[job[p].tx] = NoReview
             /\ job' = [job EXCEPT ![p].pc = "build", ![p].prev = pointer]
             /\ answer' = answer
    <3>1. job' = [job EXCEPT ![p] = j] BY <1>t, <2>2
    <3>2. j.pc = "build" /\ j.op = "render" /\ j.op = job[p].op /\ j.tx = job[p].tx
      BY <1>1, <1>t DEF Job, RenderContext
    <3>3. JobTx(j)
      BY <1>t, <2>2, <3>2 DEF JobTx, Places, Started, Rendering, BeforeBegin, NoReview
    <3> HIDE DEF j
    <3> QED BY <1>u, <2>2, <3>1, <3>3, CallKeeps
  <2> QED BY <1>1, <2>1, <2>2 DEF RenderContext
<1>2. CASE ApplyContext(p)
  <2> DEFINE j == [job[p] EXCEPT !.pc = "txcand", !.prev = pointer]
  <2>1. CASE Return(p, "denied") BY <1>u, <2>1, ReturnKeeps
  <2>2. CASE /\ ValidReview(job[p].tx, job[p].want, job[p].cand, pointer)
             /\ job' = [job EXCEPT ![p].pc = "txcand", ![p].prev = pointer]
             /\ answer' = answer
    <3>1. job' = [job EXCEPT ![p] = j] BY <1>t, <2>2
    <3>2. /\ j.pc = "txcand" /\ j.op = "apply" /\ j.op = job[p].op /\ j.tx = job[p].tx
          /\ j.cand = job[p].cand /\ j.prev = pointer /\ job[p].pc = "context"
      BY <1>2, <1>t DEF Job, ApplyContext
    <3>3. /\ review[j.tx].rfile = "done" /\ review[j.tx].cand = j.cand
          /\ review[j.tx].prev = j.prev
      BY <2>2, <3>2 DEF ValidReview
    <3>4. JobTx(j)
      BY <1>t, <3>2, <3>3 DEF JobTx, Places, Started, Rendering, BeforeBegin
    <3> HIDE DEF j
    <3> QED BY <1>u, <2>2, <3>1, <3>4, CallKeeps
  <2> QED BY <1>2, <2>1, <2>2 DEF ApplyContext
<1>3. CASE BuildFails(p) BY <1>3, <1>u, StopKeeps DEF BuildFails
<1>4. CASE Inspect(p)
  <2>1. CASE Return(p, "denied") BY <1>u, <2>1, ReturnKeeps
  <2>2. CASE Goto(p, "final")
    <3> DEFINE j == [job[p] EXCEPT !.pc = "final"]
    <3>1. j.pc = "final" /\ j.op = job[p].op /\ j.tx = job[p].tx /\ job[p].pc = "inspect"
      BY <1>4, <1>t DEF Job, Inspect
    <3>2. JobTx(j) BY <1>t, <3>1 DEF JobTx, Places, Started, Rendering, BeforeBegin
    <3> QED BY <1>u, <2>2, <3>2, GotoKeeps DEF Pcs
  <2> QED BY <1>4, <2>1, <2>2 DEF Inspect
<1>5. CASE KeepCandidate(p)
  <2>1. CASE Return(p, "error") BY <1>u, <2>1, ReturnKeeps
  <2>2. CASE Goto(p, "begin")
    <3> DEFINE j == [job[p] EXCEPT !.pc = "begin"]
    <3>1. /\ j.pc = "begin" /\ j.op = job[p].op /\ j.tx = job[p].tx /\ j.cand = job[p].cand
          /\ j.prev = job[p].prev /\ job[p].pc = "txcand"
      BY <1>5, <1>t DEF Job, KeepCandidate
    <3>2. JobTx(j) BY <1>t, <3>1 DEF JobTx, Places, Started, Rendering, BeforeBegin
    <3> QED BY <1>u, <2>2, <3>2, GotoKeeps DEF Pcs
  <2> QED BY <1>5, <2>1, <2>2 DEF KeepCandidate
<1>6. CASE EarlyWriteFails(p) BY <1>6, <1>u, ReturnKeeps DEF EarlyWriteFails
<1> QED BY <1>1, <1>2, <1>3, <1>4, <1>5, <1>6

-----------------------------------------------------------------------------
\* A step of one call that writes the tables: the others are outside of calls.
LEMMA OthersIdle ==
  ASSUME ChainInv, TxInv, NEW p \in Procs, job[p].pc # "idle", NEW j,
         job' = [job EXCEPT ![p] = j], JobTx(job[p])'
  PROVE  (\A q \in Procs : JobTx(job[q]))'
<1>1. \A q \in Procs \ {p} : job'[q] = job[q] /\ job[q].pc = "idle"
  BY Alone DEF ChainInv, ChainType
<1>2. \A q \in Procs \ {p} : JobTx(job[q])' BY <1>1 DEF JobTx
<1> QED BY <1>2

\* The begin records.
LEMMA BeginTx ==
  ASSUME ChainInv, TxInv, NEW p \in Procs, BeginAutomatic(p) \/ BeginOperator(p)
  PROVE  TxInv'
<1>u. UNCHANGED <<gens, terminal, review, log, answer>>
  BY DEF BeginAutomatic, BeginOperator, Goto
<1>i. job[p].pc # "idle" BY DEF BeginAutomatic, BeginOperator
<1>t. /\ job[p] \in Job /\ job \in [Procs -> Job] /\ job[p].op \in Operations
      /\ Places(job[p]) /\ JobTx(job[p])
      /\ TablesType /\ Unbegun /\ Reviewed /\ AnswerOk /\ TerminalTruth
  BY <1>i, CallFacts DEF TxInv
<1>m. pointer \in 0 .. MaxBuilds /\ 0 \in 0 .. MaxBuilds
  BY ManifestAssumption DEF ChainInv, ChainType
\* Both write the record of a transaction that had none, and go on with it.
<1>1. ASSUME NEW t \in Tx, begin[t].st = "none", NEW b \in Begins, b.st = "done",
             begin' = [begin EXCEPT ![t] = b],
             t \in OpTx => /\ review[t].rfile = "done" /\ review[t].cand = b.cand
                           /\ review[t].prev = b.prev,
             NEW j \in Job, job' = [job EXCEPT ![p] = j], j.tx = t, Places(j),
             \/ j.pc = "build" /\ j.op = "recover" /\ t \in AutoTx
             \/ j.pc = "final" /\ j.op = "apply" /\ b.cand = j.cand /\ b.prev = j.prev
                               /\ b.authz = j.authz
      PROVE  TxInv'
  <2>1. \A x \in Tx : begin'[x] = IF x = t THEN b ELSE begin[x] BY <1>1, <1>t DEF TablesType
  <2>2. TablesType' BY <1>1, <1>t, <1>u DEF TablesType
  <2>3. Unbegun' BY <1>1, <1>t, <1>u, <2>1 DEF Unbegun, Swapped
  <2>4. Reviewed' BY <1>1, <1>t, <1>u, <2>1 DEF Reviewed, Tx
  <2>5. AnswerOk' BY <1>1, <1>t, <1>u, <2>1 DEF AnswerOk, Tx
  <2>6. TerminalTruth' BY <1>t, <1>u DEF TerminalTruth, Swapped
  <2>7. JobTx(job[p])'
    <3>1. job'[p] = j BY <1>1, <1>t
    <3>2. terminal[t].st = "none" /\ ~Swapped(t) BY <1>1, <1>t DEF Unbegun
    <3>3. Underway(job[p])'
      BY <1>1, <1>u, <2>1, <3>1, <3>2 DEF Underway, Swapped, Committing
    <3> QED BY <1>1, <3>1, <3>3 DEF JobTx, Places, Rendering, BeforeBegin
  <2> QED BY <1>1, <1>i, <2>2, <2>3, <2>4, <2>5, <2>6, <2>7, OthersIdle DEF TxInv
<1>2. CASE BeginAutomatic(p)
  <2> DEFINE unused == {t \in AutoTx : begin[t] = NoBegin}
             t == CHOOSE t \in unused : TRUE
             b == [NoBegin EXCEPT !.st = "done", !.prev = pointer, !.snap = job[p].cur]
             j == [job[p] EXCEPT !.pc = "build", !.tx = t, !.prev = pointer]
  <2>1. /\ t \in AutoTx /\ begin[t] = NoBegin
        /\ begin' = [begin EXCEPT ![t] = b] /\ job' = [job EXCEPT ![p] = j]
    BY <1>2, <1>t DEF BeginAutomatic
  <2> HIDE DEF t
  <2>2. t \in Tx /\ t \notin OpTx /\ begin[t].st = "none"
    BY <2>1, ManifestAssumption DEF Tx, NoBegin
  <2>3. b \in Begins /\ b.st = "done" BY <1>m, <1>t DEF Begins, NoBegin, Job
  <2>4. j \in Job BY <1>m, <1>t, <2>2 DEF Job, Pcs
  <2>5. j.pc = "build" /\ j.op = "recover" /\ j.tx = t
    BY <1>2, <1>t DEF Job, BeginAutomatic
  <2>6. Places(j) BY <2>5 DEF Places
  <2> HIDE DEF b, j
  <2> QED BY <1>1, <2>1, <2>2, <2>3, <2>4, <2>5, <2>6
<1>3. CASE BeginOperator(p)
  <2> DEFINE t == job[p].tx
             b == [st |-> "done", prev |-> job[p].prev, snap |-> job[p].want,
                   cand |-> job[p].cand, authz |-> job[p].authz]
             j == [job[p] EXCEPT !.pc = "final"]
  <2>1. /\ begin' = [begin EXCEPT ![t] = b] /\ job' = [job EXCEPT ![p] = j]
        /\ job[p].pc = "begin" /\ job[p].op = "apply"
    BY <1>3, <1>t DEF BeginOperator, Goto, Places
  <2>2. t \in OpTx /\ t \in Tx BY <1>t, <2>1 DEF Places, Tx
  <2>3. /\ begin[t].st = "none" /\ review[t].rfile = "done"
        /\ review[t].cand = job[p].cand /\ review[t].prev = job[p].prev
    BY <1>t, <2>1 DEF JobTx, BeforeBegin
  <2>4. b \in Begins BY <1>t DEF Begins, Job
  <2>5. j \in Job BY <1>t DEF Job, Pcs
  <2>6. /\ j.pc = "final" /\ j.op = "apply" /\ j.tx = t /\ j.cand = job[p].cand
        /\ j.prev = job[p].prev /\ j.authz = job[p].authz
    BY <1>t, <2>1 DEF Job
  <2>7. Places(j) BY <2>2, <2>6 DEF Places
  <2>8. b.st = "done" /\ b.cand = j.cand /\ b.prev = j.prev /\ b.authz = j.authz
    BY <2>6
  <2> HIDE DEF b, j
  <2>9. /\ review[t].cand = b.cand /\ review[t].prev = b.prev BY <2>3, <2>6, <2>8
  <2> QED BY <1>1, <2>1, <2>2, <2>3, <2>4, <2>5, <2>6, <2>7, <2>8, <2>9
<1> QED BY <1>2, <1>3

\* A new candidate says nothing of the earlier ones.
LEMMA BuildTx ==
  ASSUME ChainInv, TxInv, NEW p \in Procs, Build(p)
  PROVE  TxInv'
<1> DEFINE j == [job[p] EXCEPT !.cand = Len(gens) + 1,
                               !.pc = IF job[p].op = "render" THEN "inspect" ELSE "final"]
<1>u. UNCHANGED <<begin, terminal, review, log, answer>> BY DEF Build
<1>i. job[p].pc = "build" BY DEF Build
<1>t. /\ job[p] \in Job /\ job \in [Procs -> Job] /\ job[p].op \in Operations
      /\ Places(job[p]) /\ JobTx(job[p]) /\ (Started(job[p]) => Underway(job[p]))
      /\ TablesType /\ Unbegun /\ Reviewed /\ AnswerOk /\ TerminalTruth
  BY <1>i, CallFacts DEF TxInv
<1>1. /\ \A c \in 1 .. Len(gens) : gens'[c] = gens[c]
      /\ \A i \in 1 .. Len(log) : log[i] \in 1 .. Len(gens)
  BY DEF Build, ChainInv, ChainType
<1>2. \A t : Swapped(t)' <=> Swapped(t) BY <1>u, <1>1 DEF Swapped
<1>3. TablesType' /\ Unbegun' /\ Reviewed' /\ TerminalTruth'
  BY <1>t, <1>u, <1>2 DEF TablesType, Unbegun, Reviewed, TerminalTruth
<1>4. AnswerOk' BY <1>t, <1>u, <1>1 DEF AnswerOk
<1>5. job' = [job EXCEPT ![p] = j] BY <1>t DEF Build
<1>6. /\ j.op = job[p].op /\ j.tx = job[p].tx
      /\ j.pc = IF job[p].op = "render" THEN "inspect" ELSE "final"
  BY <1>t DEF Job
<1> HIDE DEF j
<1>7. JobTx(job[p])'
  <2>1. job'[p] = j /\ job[p].op # "apply" BY <1>i, <1>t, <1>5 DEF Places
  <2>2. CASE job[p].op = "render"
    <3>1. review[j.tx].rfile # "done" BY <1>i, <1>t, <1>6, <2>2 DEF JobTx, Rendering
    <3>2. Places(j) BY <1>t, <1>6, <2>2 DEF Places
    <3> QED BY <1>u, <1>6, <2>1, <2>2, <3>1, <3>2
        DEF JobTx, Places, Started, Rendering, BeforeBegin
  <2>3. CASE job[p].op # "render"
    <3>1. Underway(job[p]) BY <1>i, <1>t, <2>3 DEF Started
    <3>2. Underway(job[p])'
      BY <1>i, <1>u, <1>2, <1>6, <2>1, <2>3, <3>1 DEF Underway, Committing
    <3>3. Places(j) BY <1>t, <1>6, <2>1, <2>3 DEF Places
    <3> QED BY <1>u, <1>6, <2>1, <2>3, <3>2, <3>3
        DEF JobTx, Places, Started, Rendering, BeforeBegin
  <2> QED BY <2>2, <2>3
<1> QED BY <1>i, <1>3, <1>4, <1>5, <1>7, OthersIdle DEF TxInv

\* The two files of a review: no transaction of its identifier has begun.
LEMMA ReviewTx ==
  ASSUME ChainInv, TxInv, NEW p \in Procs, NEW t \in OpTx, t = job[p].tx,
         job[p].pc \in {"record", "receipt"}, NEW r \in Reviews,
         review' = [review EXCEPT ![t] = r],
         \/ r.rfile = review[t].rfile /\ r.cand = review[t].cand /\ r.prev = review[t].prev
         \/ job[p].pc = "receipt",
         UNCHANGED <<gens, begin, terminal, log>>,
         answer' = answer \/ answer'.status # "rebuilt",
         NEW j, job' = [job EXCEPT ![p] = j],
         \/ j.pc = "idle"
         \/ j = [job[p] EXCEPT !.pc = "receipt"] /\ job[p].pc = "record"
            /\ r.rfile = review[t].rfile
  PROVE  TxInv'
<1>t. /\ job[p] \in Job /\ job \in [Procs -> Job] /\ job[p].op \in Operations
      /\ Places(job[p]) /\ JobTx(job[p])
      /\ TablesType /\ Unbegun /\ Reviewed /\ AnswerOk /\ TerminalTruth
  BY CallFacts DEF TxInv
<1>1. job[p].op = "render" /\ review[t].rfile # "done"
  BY <1>t DEF Places, JobTx, Rendering
<1>2. begin[t].st # "done" BY <1>t, <1>1 DEF Reviewed
<1>3. \A x \in OpTx : review'[x] = IF x = t THEN r ELSE review[x] BY <1>t DEF TablesType
<1>4. TablesType' BY <1>t DEF TablesType
<1>5. Unbegun' /\ TerminalTruth' BY <1>t DEF Unbegun, TerminalTruth, Swapped
<1>6. Reviewed' BY <1>t, <1>2, <1>3 DEF Reviewed
<1>7. AnswerOk' BY <1>t DEF AnswerOk
<1>8. JobTx(job[p])'
  <2>1. job'[p] = j BY <1>t
  <2>2. CASE j.pc = "idle" BY <2>1, <2>2 DEF JobTx
  <2>3. CASE j = [job[p] EXCEPT !.pc = "receipt"] /\ r.rfile = review[t].rfile
    <3>1. j.pc = "receipt" /\ j.op = "render" /\ j.tx = t BY <1>t, <1>1, <2>3 DEF Job
    <3> QED BY <1>1, <1>3, <2>1, <2>3, <3>1
        DEF JobTx, Places, Started, Rendering, BeforeBegin
  <2> QED BY <2>2, <2>3
<1> QED BY <1>4, <1>5, <1>6, <1>7, <1>8, OthersIdle DEF TxInv

LEMMA WriteReviewTx ==
  ASSUME ChainInv, TxInv, NEW p \in Procs, WriteCandidate(p) \/ WriteReview(p)
  PROVE  TxInv'
<1> DEFINE t == job[p].tx
<1>i. job[p].pc \in {"record", "receipt"} BY DEF WriteCandidate, WriteReview
<1>t. /\ job[p] \in Job /\ job \in [Procs -> Job] /\ t \in OpTx
      /\ review \in [OpTx -> Reviews] /\ review[t] \in Reviews
  BY <1>i, CallFacts DEF TxInv, TablesType, Places
<1>u. UNCHANGED <<gens, begin, terminal, log>> BY DEF WriteCandidate, WriteReview
<1>1. CASE WriteCandidate(p)
  <2> DEFINE r == [review[t] EXCEPT !.cfile = job[p].cand]
             j == [job[p] EXCEPT !.pc = "receipt"]
  <2>1. r \in Reviews BY <1>t DEF Reviews, Job
  <2>2. /\ r.rfile = review[t].rfile /\ r.cand = review[t].cand /\ r.prev = review[t].prev
    BY <1>t DEF Reviews
  <2>3. /\ review' = [review EXCEPT ![t] = r] /\ job' = [job EXCEPT ![p] = j]
        /\ answer' = answer /\ job[p].pc = "record"
    BY <1>1, <1>t DEF WriteCandidate, Goto
  <2> HIDE DEF r
  <2> QED BY <1>i, <1>t, <1>u, <2>1, <2>2, <2>3, ReviewTx
<1>2. CASE WriteReview(p)
  <2> DEFINE r == [review[t] EXCEPT !.rfile = "done", !.snap = job[p].want,
                                    !.cand = job[p].cand, !.prev = job[p].prev]
  <2>1. r \in Reviews BY <1>t DEF Reviews, Job
  <2>2. /\ review' = [review EXCEPT ![t] = r] /\ job' = [job EXCEPT ![p] = Idle]
        /\ answer'.status # "rebuilt" /\ job[p].pc = "receipt"
    BY <1>2, <1>t DEF WriteReview, Return, NoAnswer
  <2> HIDE DEF r
  <2> QED BY <1>i, <1>t, <1>u, <2>1, <2>2, ReviewTx DEF Idle
<1> QED BY <1>1, <1>2

-----------------------------------------------------------------------------
\* The promotion up to the swap, and the repair after it, write no table.
LEMMA PromoteTx ==
  ASSUME ChainInv, TxInv, NEW p \in Procs,
         Check(p) \/ Promote(p) \/ Reread(p) \/ PromotionFails(p) \/ Repair(p)
  PROVE  TxInv'
<1>u. UNCHANGED <<gens, begin, terminal, review, log>>
  BY DEF Check, Promote, Reread, PromotionFails, Repair
<1>i. job[p].pc \in {"check", "promote", "reread", "swap", "copy"}
  BY DEF Check, Promote, Reread, PromotionFails, Repair
<1>s. Started(job[p]) BY <1>i DEF Started
<1>t. /\ job[p] \in Job /\ Places(job[p]) /\ Underway(job[p])
  BY <1>i, <1>s, CallFacts
\* Going on towards the swap.
<1>g. ASSUME NEW pc \in {"promote", "reread", "swap"}, Goto(p, pc), job[p].pc # "copy",
             pc \in Committing => gens[job[p].cand].tx = job[p].tx
      PROVE  TxInv'
  <2> DEFINE j == [job[p] EXCEPT !.pc = pc]
  <2>1. /\ j.pc = pc /\ j.op = job[p].op /\ j.tx = job[p].tx /\ j.cand = job[p].cand
        /\ j.prev = job[p].prev /\ j.authz = job[p].authz /\ j.status = job[p].status
    BY <1>t DEF Job
  <2>2. Places(j) BY <1>i, <1>t, <2>1 DEF Places
  <2>3. Underway(j) BY <1>g, <1>i, <1>t, <2>1 DEF Underway
  <2>4. JobTx(j) BY <2>1, <2>2, <2>3 DEF JobTx, Rendering, BeforeBegin
  <2> QED BY <1>g, <1>u, <2>4, GotoKeeps DEF Pcs
<1>1. CASE Check(p)
  <2>1. CASE Goto(p, "promote") BY <1>1, <1>g, <2>1 DEF Check, Committing
  <2>2. CASE Conclude(p, "denied") BY <1>1, <1>s, <1>u, <2>2, ConcludeKeeps DEF Check
  <2> QED BY <1>1, <2>1, <2>2 DEF Check
<1>2. CASE Promote(p)
  <2>1. CASE Goto(p, "reread") /\ gens[job[p].cand].tx = job[p].tx
    BY <1>2, <1>g, <2>1 DEF Promote
  <2>2. CASE Conclude(p, "error") BY <1>2, <1>s, <1>u, <2>2, ConcludeKeeps DEF Promote
  <2> QED BY <1>2, <2>1, <2>2 DEF Promote
<1>3. CASE Reread(p)
  <2>1. CASE Goto(p, "swap") BY <1>3, <1>g, <1>t, <2>1 DEF Reread, Underway, Committing
  <2>2. CASE Conclude(p, "error") BY <1>3, <1>s, <1>u, <2>2, ConcludeKeeps DEF Reread
  <2> QED BY <1>3, <2>1, <2>2 DEF Reread
<1>4. CASE PromotionFails(p) BY <1>4, <1>s, <1>u, ConcludeKeeps DEF PromotionFails
<1>5. CASE Repair(p)
  <2>1. job[p].pc = "copy" /\ (Conclude(p, "committed") \/ Conclude(p, "error"))
    BY <1>5 DEF Repair, Validated
  <2> QED BY <1>s, <1>u, <2>1, ConcludeKeeps
<1> QED BY <1>1, <1>2, <1>3, <1>4, <1>5

\* The swap: of all transactions, exactly the one of the call reaches the pointer.
LEMMA SwapTx ==
  ASSUME ChainInv, TxInv, NEW p \in Procs, Swap(p)
  PROVE  TxInv'
<1> DEFINE c == job[p].cand
           t == job[p].tx
           j == [job[p] EXCEPT !.pc = "copy"]
<1>i. job[p].pc = "swap" BY DEF Swap
<1>u. UNCHANGED <<gens, begin, terminal, review, answer>> /\ log' = Append(log, c)
  BY DEF Swap, Goto
<1>t. /\ job[p] \in Job /\ job \in [Procs -> Job] /\ Places(job[p]) /\ Underway(job[p])
      /\ TablesType /\ Unbegun /\ Reviewed /\ AnswerOk /\ TerminalTruth
      /\ log \in Seq(1 .. Len(gens)) /\ Len(log) \in Nat /\ c \in 1 .. Len(gens)
  BY <1>i, CallFacts DEF TxInv, Started, ChainInv, ChainType, JobOk, HasCandidate
<1>f. gens[c].prev = job[p].prev BY <1>i DEF ChainInv, Follows, Committing
<1>g. /\ gens[c].tx = t /\ begin[t].st = "done" /\ terminal[t].st = "none" /\ t \in Tx
  BY <1>i, <1>t DEF Underway, Committing
<1>1. job' = [job EXCEPT ![p] = j] BY <1>t DEF Swap, Goto
<1>2. /\ j.pc = "copy" /\ j.op = job[p].op /\ j.tx = t /\ j.cand = c
      /\ j.prev = job[p].prev /\ j.authz = job[p].authz
  BY <1>t DEF Job
<1> HIDE DEF c, t, j
<1>3. /\ Len(log') = Len(log) + 1 /\ log'[Len(log) + 1] = c
      /\ \A i \in 1 .. Len(log) : log'[i] = log[i]
  BY <1>t, <1>u
<1>4. /\ \A x : x = t => Swapped(x)'
      /\ \E i \in 1 .. Len(log') : log'[i] = c
  <2>1. Len(log) + 1 \in 1 .. Len(log') BY <1>t, <1>3
  <2>2. ASSUME NEW x, x = t PROVE Swapped(x)'
    BY <1>g, <1>u, <1>3, <2>1, <2>2 DEF Swapped
  <2> QED BY <1>3, <2>1, <2>2
<1>5. \A x : x # t => (Swapped(x)' <=> Swapped(x))
  <2> SUFFICES ASSUME NEW x, x # t PROVE Swapped(x)' <=> Swapped(x) OBVIOUS
  <2>1. ASSUME Swapped(x) PROVE Swapped(x)'
    <3>1. PICK i \in 1 .. Len(log) : gens[log[i]].tx = x BY <2>1 DEF Swapped
    <3>2. i \in 1 .. Len(log') /\ log'[i] = log[i] BY <1>t, <1>3
    <3> QED BY <1>u, <3>1, <3>2 DEF Swapped
  <2>2. ASSUME Swapped(x)' PROVE Swapped(x)
    <3>1. PICK i \in 1 .. Len(log') : gens[log'[i]].tx = x BY <1>u, <2>2 DEF Swapped
    <3>2. i # Len(log) + 1 BY <1>g, <1>3, <3>1
    <3>3. i \in 1 .. Len(log) BY <1>t, <1>3, <3>2
    <3> QED BY <1>3, <3>1, <3>3 DEF Swapped
  <2> QED BY <2>1, <2>2
<1>6. TablesType' /\ Reviewed' BY <1>t, <1>u DEF TablesType, Reviewed
<1>7. Unbegun' /\ TerminalTruth'
  BY <1>g, <1>t, <1>u, <1>5 DEF Unbegun, TerminalTruth
<1>8. AnswerOk'
  <2>1. ASSUME NEW i \in 1 .. Len(log) PROVE i \in 1 .. Len(log') /\ log'[i] = log[i]
    BY <1>t, <1>3
  <2> QED BY <1>t, <1>u, <2>1 DEF AnswerOk
<1>9. JobTx(job[p])'
  <2>1. job'[p] = j BY <1>1, <1>t
  <2>2. Places(j) BY <1>i, <1>t, <1>2 DEF Places, t
  <2>3. Underway(job[p])'
    <3>1. j.op = "apply" => begin[t].cand = c /\ begin[t].prev = j.prev
                            /\ begin[t].authz = j.authz
      BY <1>t, <1>2 DEF Underway, c, t
    <3>2. j.op # "apply" => t \in AutoTx BY <1>t, <1>2 DEF Underway, t
    <3>3. /\ job'[p].pc = "copy" /\ job'[p].op = j.op /\ job'[p].tx = t
          /\ job'[p].cand = c /\ job'[p].prev = j.prev /\ job'[p].authz = j.authz
      BY <1>2, <2>1
    <3>4. Swapped(job[p].tx)' BY <1>4, <3>3 DEF Swapped
    <3>5. /\ t \in Tx /\ begin'[t].st = "done" /\ terminal'[t].st = "none"
          /\ gens'[c].prev = j.prev
      BY <1>f, <1>g, <1>u, <1>2
    <3> QED BY <1>u, <1>4, <3>1, <3>2, <3>3, <3>4, <3>5 DEF Underway, Committing
  <2> QED BY <1>2, <2>1, <2>2, <2>3 DEF JobTx, Places, Rendering, BeforeBegin
<1> QED BY <1>i, <1>1, <1>6, <1>7, <1>8, <1>9, OthersIdle DEF TxInv

\* A terminal record is written for a transaction that began and has none, or is
\* cut short; it says what became of the transaction.
LEMMA TerminalKeeps ==
  ASSUME ChainInv, TxInv, NEW p \in Procs, job[p].pc # "idle", NEW t \in Tx,
         begin[t].st # "none", terminal[t].st = "none", NEW r \in Terminals,
         r.st # "none", terminal' = [terminal EXCEPT ![t] = r],
         r.st = "done" => /\ r.status = "denied" => ~Swapped(t)
                          /\ r.status = "committed" => Swapped(t),
         UNCHANGED <<gens, begin, review, log>>,
         job' = [job EXCEPT ![p] = Idle], AnswerOk'
  PROVE  TxInv'
<1>t. TablesType /\ Unbegun /\ Reviewed /\ TerminalTruth BY DEF TxInv
<1>1. \A x \in Tx : terminal'[x] = IF x = t THEN r ELSE terminal[x] BY <1>t DEF TablesType
<1>2. TablesType' /\ Reviewed' BY <1>t DEF TablesType, Reviewed
<1>3. Unbegun' /\ TerminalTruth' BY <1>t, <1>1 DEF Unbegun, TerminalTruth, Swapped
<1>4. JobTx(job[p])' BY DEF ChainInv, ChainType, JobTx, Idle
<1> QED BY <1>2, <1>3, <1>4, OthersIdle DEF TxInv

\* The end of a transaction.
LEMMA CloseTx ==
  ASSUME ChainInv, TxInv, NEW p \in Procs, Close(p)
  PROVE  TxInv'
<1> DEFINE j == job[p]
           t == job[p].tx
<1>i. job[p].pc = "close" BY DEF Close
<1>u. UNCHANGED <<gens, begin, review, log>> BY DEF Close
<1>t. j \in Job /\ job \in [Procs -> Job] /\ Places(j) /\ Underway(j)
      /\ j.op \in Operations /\ TablesType
  BY <1>i, CallFacts DEF TxInv, Started
<1>1. AnswerOk'
  <2>1. \/ /\ answer' = [tx |-> t, status |-> "rebuilt", cand |-> j.cand, authz |-> j.authz]
           /\ j.status = "committed"
        \/ answer'.status # "rebuilt"
    BY <1>t DEF Close, Return, Reported, NoAnswer, Job
  <2>2. CASE answer' = [tx |-> t, status |-> "rebuilt", cand |-> j.cand, authz |-> j.authz]
             /\ j.status = "committed"
    <3>1. /\ answer'.tx = t /\ answer'.cand = j.cand /\ answer'.authz = j.authz BY <2>2
    <3>2. t \in OpTx => j.op = "apply" BY <1>t, ManifestAssumption DEF Underway
    <3>3. /\ begin[t].st = "done" /\ \E i \in 1 .. Len(log) : log[i] = j.cand
          /\ gens[j.cand].prev = j.prev
          /\ j.op = "apply" => begin[t].cand = j.cand /\ begin[t].prev = j.prev
                               /\ begin[t].authz = j.authz
      BY <1>i, <1>t, <2>2 DEF Underway
    <3> HIDE DEF j, t
    <3> QED BY <1>u, <3>1, <3>2, <3>3 DEF AnswerOk
  <2>3. CASE answer'.status # "rebuilt" BY <2>3 DEF AnswerOk
  <2> QED BY <2>1, <2>2, <2>3
<1>2. job' = [job EXCEPT ![p] = Idle] BY DEF Close, Return
<1>3. CASE terminal' = terminal
  <2>1. TablesType' /\ Unbegun' /\ Reviewed' /\ TerminalTruth'
    BY <1>3, <1>u DEF TxInv, TablesType, Unbegun, Reviewed, TerminalTruth, Swapped
  <2>2. JobTx(job[p])' BY <1>2, <1>t DEF JobTx, Idle
  <2> QED BY <1>i, <1>1, <1>2, <2>1, <2>2, OthersIdle DEF TxInv
<1>4. CASE terminal' = [terminal EXCEPT ![t] =
             [st |-> "done", status |-> j.status,
              gen |-> IF pointer = j.cand THEN j.cand ELSE 0]]
  <2> DEFINE r == [st |-> "done", status |-> j.status,
                   gen |-> IF pointer = j.cand THEN j.cand ELSE 0]
  <2>1. r \in Terminals
    <3>1. 0 \in 0 .. MaxBuilds BY ManifestAssumption
    <3> QED BY <1>t, <3>1 DEF Terminals, Job
  <2>2. /\ t \in Tx /\ begin[t].st # "none" /\ terminal[t].st = "none"
        /\ r.status = "denied" => ~Swapped(t)
        /\ r.status = "committed" => Swapped(t)
    BY <1>i, <1>t DEF Underway
  <2>3. r.st = "done" OBVIOUS
  <2>4. terminal' = [terminal EXCEPT ![t] = r] BY <1>4
  <2> HIDE DEF r
  <2> QED BY <1>i, <1>u, <1>1, <1>2, <2>1, <2>2, <2>3, <2>4, TerminalKeeps
<1> QED BY <1>3, <1>4 DEF Close

\* A replay answers, and records, what the pointer says.
LEMMA ReplayTx ==
  ASSUME ChainInv, TxInv, NEW p \in Procs, Replay(p)
  PROVE  TxInv'
<1> DEFINE j == job[p]
           t == job[p].tx
<1>i. job[p].pc = "replay" BY DEF Replay
<1>u. UNCHANGED <<gens, begin, review, log, pointer>> BY DEF Replay
<1>t. /\ j \in Job /\ job \in [Procs -> Job] /\ Places(j) /\ j.op = "apply"
      /\ t \in OpTx /\ t \in Tx /\ TablesType
  BY <1>i, CallFacts DEF TxInv, Places, Tx
\* What the pointer names was swapped in.
<1>r. Reconciled(t) =>
        /\ Swapped(t) /\ pointer = begin[t].cand /\ gens[pointer].prev = begin[t].prev
        /\ \E i \in 1 .. Len(log) : log[i] = pointer
  <2> SUFFICES ASSUME Reconciled(t)
               PROVE  /\ Swapped(t) /\ pointer = begin[t].cand
                      /\ gens[pointer].prev = begin[t].prev
                      /\ \E i \in 1 .. Len(log) : log[i] = pointer
    OBVIOUS
  <2>1. log # << >> /\ pointer = log[Len(log)]
    BY DEF Reconciled, ChainInv, GenerationChain
  <2>2. Len(log) \in 1 .. Len(log) BY <2>1 DEF ChainInv, ChainType
  <2> QED BY <2>1, <2>2 DEF Reconciled, Swapped
\* An answer "rebuilt" is given for what the pointer names.
<1>a. ASSUME NEW s, Return(p, s), begin[t].st = "done", Replays(j),
             s = "rebuilt" => Reconciled(t)
      PROVE  AnswerOk'
  <2>1. CASE s = "rebuilt"
    <3>1. /\ answer'.tx = t /\ answer'.cand = j.cand /\ answer'.authz = j.authz
      BY <1>a, <2>1 DEF Return
    <3>2. begin[t].cand = j.cand /\ begin[t].authz = j.authz BY <1>a DEF Replays
    <3>3. /\ pointer = j.cand /\ gens[j.cand].prev = begin[t].prev
          /\ \E i \in 1 .. Len(log) : log[i] = j.cand
      BY <1>a, <1>r, <2>1, <3>2
    <3> HIDE DEF j, t
    <3> QED BY <1>a, <1>u, <3>1, <3>2, <3>3 DEF AnswerOk
  <2>2. CASE s # "rebuilt"
    <3>1. answer'.status = s BY <1>a, <2>2 DEF Return, NoAnswer
    <3> QED BY <2>2, <3>1 DEF AnswerOk
  <2> QED BY <2>1, <2>2
\* No terminal is written.
<1>k. ASSUME NEW s, Return(p, s), terminal' = terminal, AnswerOk' PROVE TxInv'
  <2>1. TablesType' /\ Unbegun' /\ Reviewed' /\ TerminalTruth'
    BY <1>k, <1>u DEF TxInv, TablesType, Unbegun, Reviewed, TerminalTruth, Swapped
  <2>2. job' = [job EXCEPT ![p] = Idle] BY <1>k DEF Return
  <2>3. JobTx(job[p])' BY <1>t, <2>2 DEF JobTx, Idle
  <2> QED BY <1>i, <1>k, <2>1, <2>2, <2>3, OthersIdle DEF TxInv
<1>1. CASE begin[t].st = "none" /\ Goto(p, "prelim") /\ terminal' = terminal
  <2> DEFINE n == [job[p] EXCEPT !.pc = "prelim"]
  <2>1. n.pc = "prelim" /\ n.op = "apply" /\ n.tx = t BY <1>t DEF Job
  <2>2. JobTx(n) BY <1>1, <1>t, <2>1 DEF JobTx, Places, Started, Rendering, BeforeBegin
  <2> QED BY <1>1, <1>u, <2>2, GotoKeeps DEF Pcs
<1>2. CASE (Return(p, "error") \/ Return(p, "denied")) /\ terminal' = terminal
  BY <1>2, <1>u, ReturnKeeps
<1>3. CASE /\ begin[t].st = "done" /\ Replays(j) /\ terminal[t].st = "done"
           /\ Return(p, RecordedAnswer(t)) /\ terminal' = terminal
  <2>1. RecordedAnswer(t) = "rebuilt" => Reconciled(t)
    <3>1. terminal[t].status \in {"error", "denied", "committed"}
      BY <1>t DEF TablesType, Terminals
    <3> QED BY <3>1 DEF RecordedAnswer
  <2> HIDE DEF t
  <2>2. AnswerOk' BY <1>3, <1>a, <2>1
  <2> QED BY <1>3, <1>k, <2>2
<1>4. CASE /\ begin[t].st = "done" /\ Replays(j) /\ terminal[t].st = "none"
           /\ terminal' = [terminal EXCEPT ![t] =
                [st |-> "done",
                 status |-> IF Reconciled(t) THEN "committed" ELSE "error",
                 gen |-> IF Reconciled(t) THEN pointer ELSE 0]]
           /\ Return(p, Reported(IF Reconciled(t) THEN "committed" ELSE "error"))
  <2> DEFINE r == [st |-> "done",
                   status |-> IF Reconciled(t) THEN "committed" ELSE "error",
                   gen |-> IF Reconciled(t) THEN pointer ELSE 0]
             s == Reported(IF Reconciled(t) THEN "committed" ELSE "error")
  <2>1. r \in Terminals
    <3>1. pointer \in 0 .. MaxBuilds /\ 0 \in 0 .. MaxBuilds
      BY ManifestAssumption DEF ChainInv, ChainType
    <3> QED BY <3>1 DEF Terminals
  <2>2. r.st = "done" /\ r.status # "denied" /\ (r.status = "committed" => Swapped(t))
    BY <1>r
  <2>3. s = "rebuilt" => Reconciled(t) BY DEF Reported
  <2>4. Return(p, s) /\ terminal' = [terminal EXCEPT ![t] = r] BY <1>4
  <2> HIDE DEF r, s
  <2>5. AnswerOk' BY <1>4, <1>a, <2>3, <2>4
  <2>6. job' = [job EXCEPT ![p] = Idle] BY <2>4 DEF Return
  <2> HIDE DEF t
  <2> QED BY <1>4, <1>i, <1>t, <1>u, <2>1, <2>2, <2>4, <2>5, <2>6, TerminalKeeps
<1> QED BY <1>1, <1>2, <1>3, <1>4 DEF Replay

-----------------------------------------------------------------------------
\* A death leaves a record cut short where the call was writing one, and only
\* there.
LEMMA DieTx ==
  ASSUME ChainInv, TxInv, NEW p \in Procs, Crash(p) \/ CrashWriting(p)
  PROVE  TxInv'
<1> DEFINE t == job[p].tx
<1>u. UNCHANGED <<gens, log, answer>> /\ job' = [job EXCEPT ![p] = Idle]
  BY DEF Crash, CrashWriting, Die
<1>0. CASE UNCHANGED <<begin, terminal, review>>
  <2>1. JobTx(Idle) BY DEF JobTx, Idle
  <2> QED BY <1>0, <1>u, <2>1, CallKeeps
<1>a. UNCHANGED <<begin, gens, log>> => AnswerOk'
  BY <1>u DEF TxInv, AnswerOk
<1>1. CASE /\ job[p].pc = "begin" /\ begin' = [begin EXCEPT ![t].st = "torn"]
           /\ UNCHANGED <<terminal, review>>
  <2>t. /\ Places(job[p]) /\ JobTx(job[p]) /\ job \in [Procs -> Job]
        /\ TablesType /\ Unbegun /\ Reviewed /\ AnswerOk /\ TerminalTruth
    BY <1>1, CallFacts DEF TxInv
  <2>1. t \in OpTx /\ t \in Tx /\ begin[t].st = "none"
    BY <1>1, <2>t DEF Places, JobTx, BeforeBegin, Tx
  <2> DEFINE b == [begin[t] EXCEPT !.st = "torn"]
  <2>2. b \in Begins /\ b.st = "torn" BY <2>1, <2>t DEF TablesType, Begins
  <2>3. begin' = [begin EXCEPT ![t] = b] BY <1>1, <2>1, <2>t DEF TablesType
  <2> HIDE DEF b, t
  <2>4. \A x \in Tx : begin'[x] = IF x = t THEN b ELSE begin[x] BY <2>3, <2>t DEF TablesType
  <2>5. TablesType' BY <1>1, <2>1, <2>2, <2>3, <2>t DEF TablesType
  <2>6. Unbegun' /\ TerminalTruth'
    BY <1>1, <1>u, <2>2, <2>4, <2>t DEF Unbegun, TerminalTruth, Swapped
  <2>7. Reviewed' /\ AnswerOk'
    BY <1>1, <1>u, <2>1, <2>2, <2>4, <2>t DEF Reviewed, AnswerOk, Tx
  <2>8. JobTx(job[p])' BY <1>u, <2>t DEF JobTx, Idle
  <2> QED BY <1>1, <1>u, <2>5, <2>6, <2>7, <2>8, OthersIdle DEF TxInv
<1>2. CASE /\ job[p].pc = "close" \/ (job[p].pc = "replay" /\ begin[t].st = "done")
           /\ terminal[t].st = "none" /\ terminal' = [terminal EXCEPT ![t].st = "torn"]
           /\ UNCHANGED <<begin, review>>
  <2>1. t \in Tx /\ begin[t].st # "none" /\ TablesType
    <3>1. CASE job[p].pc = "close"
      BY <3>1, CallFacts DEF Started, Underway, TxInv
    <3>2. CASE job[p].pc = "replay" /\ begin[t].st = "done"
      <4>1. Places(job[p]) /\ TablesType BY <3>2, CallFacts DEF TxInv
      <4> QED BY <3>2, <4>1 DEF Places, Tx
    <3> QED BY <1>2, <3>1, <3>2
  <2> DEFINE r == [terminal[t] EXCEPT !.st = "torn"]
  <2>2. r \in Terminals /\ r.st = "torn" BY <2>1 DEF TablesType, Terminals
  <2>3. terminal' = [terminal EXCEPT ![t] = r] BY <1>2, <2>1 DEF TablesType
  <2>4. AnswerOk' BY <1>2, <1>a, <1>u
  <2> HIDE DEF r
  <2> QED BY <1>2, <1>u, <2>1, <2>2, <2>3, <2>4, TerminalKeeps
<1>3. CASE /\ job[p].pc \in {"record", "receipt"}
           /\ \/ job[p].pc = "record" /\ review' = [review EXCEPT ![t].cfile = Torn]
              \/ job[p].pc = "receipt" /\ review' = [review EXCEPT ![t].rfile = "torn"]
           /\ UNCHANGED <<begin, terminal>>
  <2>t. t \in OpTx /\ TablesType BY <1>3, CallFacts DEF TxInv, Places
  <2>1. PICK r \in Reviews :
          /\ review' = [review EXCEPT ![t] = r]
          /\ \/ r.rfile = review[t].rfile /\ r.cand = review[t].cand /\ r.prev = review[t].prev
             \/ job[p].pc = "receipt"
    <3>t. review \in [OpTx -> Reviews] /\ review[t] \in Reviews BY <2>t DEF TablesType
    <3>1. CASE job[p].pc = "record" /\ review' = [review EXCEPT ![t].cfile = Torn]
      <4> DEFINE r == [review[t] EXCEPT !.cfile = Torn]
      <4>1. r \in Reviews BY <3>t DEF Reviews
      <4>2. r.rfile = review[t].rfile /\ r.cand = review[t].cand /\ r.prev = review[t].prev
        BY <3>t DEF Reviews
      <4>3. review' = [review EXCEPT ![t] = r] BY <3>1, <3>t, <2>t
      <4> QED BY <4>1, <4>2, <4>3
    <3>2. CASE job[p].pc = "receipt" /\ review' = [review EXCEPT ![t].rfile = "torn"]
      <4> DEFINE r == [review[t] EXCEPT !.rfile = "torn"]
      <4>1. r \in Reviews BY <3>t DEF Reviews
      <4>2. review' = [review EXCEPT ![t] = r] BY <3>2, <3>t, <2>t
      <4> QED BY <3>2, <4>1, <4>2
    <3> QED BY <1>3, <3>1, <3>2
  <2>2. Idle.pc = "idle" BY DEF Idle
  <2>3. t = job[p].tx /\ t \in OpTx /\ job[p].pc \in {"record", "receipt"} BY <1>3, <2>t
  <2>4. UNCHANGED <<gens, begin, terminal, log>> /\ answer' = answer BY <1>3, <1>u
  <2>5. job' = [job EXCEPT ![p] = Idle] BY <1>u
  <2> HIDE DEF t
  <2> QED BY <2>1, <2>2, <2>3, <2>4, <2>5, ReviewTx
<1> QED BY <1>0, <1>1, <1>2, <1>3 DEF Crash, CrashWriting

LEMMA DriftsTx == TxInv /\ Drifts => TxInv'
<1> SUFFICES ASSUME TxInv, Drifts PROVE TxInv' OBVIOUS
<1>1. UNCHANGED <<gens, begin, terminal, review, log, job, answer>> BY DEF Drifts
<1> QED BY <1>1, TablesKept DEF TxInv

LEMMA TxNext == ChainInv /\ TxInv /\ [Next]_vars => TxInv'
<1> SUFFICES ASSUME ChainInv, TxInv, [Next]_vars PROVE TxInv' OBVIOUS
<1>1. CASE UNCHANGED vars
  <2>1. UNCHANGED <<gens, begin, terminal, review, log, job, answer>> BY <1>1 DEF vars
  <2> QED BY <2>1, TablesKept DEF TxInv
<1>2. CASE Drifts BY <1>2, DriftsTx
<1>3. ASSUME NEW p \in Procs,
             \/ StartRecover(p) \/ Load(p) \/ ReadFirst(p) \/ ReadSecond(p) \/ ReadFails(p)
             \/ \E t \in OpTx, want \in {auth, setting.base} :
                  setting.operator /\ StartRender(p, t, want)
             \/ \E t \in OpTx, want \in {auth, setting.base}, c \in 1 .. Len(gens),
                   a \in Authorizations : StartApply(p, t, want, c, a)
             \/ BeginAutomatic(p) \/ RenderContext(p) \/ ApplyContext(p) \/ Build(p)
             \/ BuildFails(p) \/ Inspect(p) \/ WriteCandidate(p) \/ WriteReview(p)
             \/ KeepCandidate(p) \/ BeginOperator(p) \/ EarlyWriteFails(p)
             \/ Check(p) \/ Promote(p) \/ Reread(p) \/ Swap(p) \/ PromotionFails(p)
             \/ Repair(p) \/ Close(p) \/ Replay(p) \/ Crash(p) \/ CrashWriting(p)
      PROVE  TxInv'
  <2>1. CASE \/ StartRecover(p)
             \/ \E t \in OpTx, want \in {auth, setting.base} : StartRender(p, t, want)
             \/ \E t \in OpTx, want \in {auth, setting.base}, c \in 1 .. Len(gens),
                   a \in Authorizations : StartApply(p, t, want, c, a)
    BY <2>1, StartTx
  <2>2. CASE Load(p) \/ ReadFirst(p) \/ ReadSecond(p) \/ ReadFails(p) BY <2>2, ReadTx
  <2>3. CASE Build(p) BY <2>3, BuildTx
  <2>4. CASE \/ RenderContext(p) \/ ApplyContext(p) \/ BuildFails(p) \/ Inspect(p)
             \/ KeepCandidate(p) \/ EarlyWriteFails(p)
    BY <2>4, PrepareTx
  <2>5. CASE BeginAutomatic(p) \/ BeginOperator(p) BY <2>5, BeginTx
  <2>6. CASE WriteCandidate(p) \/ WriteReview(p) BY <2>6, WriteReviewTx
  <2>7. CASE Check(p) \/ Promote(p) \/ Reread(p) \/ PromotionFails(p) \/ Repair(p)
    BY <2>7, PromoteTx
  <2>8. CASE Swap(p) BY <2>8, SwapTx
  <2>9. CASE Close(p) BY <2>9, CloseTx
  <2>10. CASE Replay(p) BY <2>10, ReplayTx
  <2>11. CASE Crash(p) \/ CrashWriting(p) BY <2>11, DieTx
  <2> QED BY <1>3, <2>1, <2>2, <2>3, <2>4, <2>5, <2>6, <2>7, <2>8, <2>9, <2>10, <2>11
<1> QED BY <1>1, <1>2, <1>3 DEF Next

LEMMA TransactionInvariance == Spec => [](ChainInv /\ TxInv)
BY ChainInit, TxInit, ChainNext, TxNext, PTL DEF Spec

-----------------------------------------------------------------------------
\* The finally clauses and replay_operator_transaction: whatever overlaps, fails
\* or dies, a transaction whose terminal says denied never reached the pointer,
\* and one whose terminal says committed did.
THEOREM TerminalTruthAlways == Spec => []TerminalTruth
<1>1. TxInv => TerminalTruth BY DEF TxInv
<1> QED BY TransactionInvariance, <1>1, PTL

\* operator_rebaseline: the answer "rebuilt", to a call or to its replay, is given
\* only to the authorization that began the transaction, for the candidate its
\* review names, and after that candidate replaced the reviewed predecessor.
THEOREM AnswerIsReviewedAlways == Spec => []AnswerIsReviewed
<1>1. TxInv => AnswerIsReviewed BY DEF TxInv, AnswerOk, Reviewed, AnswerIsReviewed
<1> QED BY TransactionInvariance, <1>1, PTL

-----------------------------------------------------------------------------
(***************************************************************************)
(* Proofs about drift, for any authorities: no lane widens what the        *)
(* capability router offers, so neither does a recovery that commits       *)
(* without a human; and what is served across a drift is intact.           *)
(***************************************************************************)

LEMMA ShapedFacts ==
  ASSUME NEW d, Shaped(d), NEW k \in Cached(d)
  PROVE  /\ k = <<Family(k), Name(k), Version(k)>>
         /\ Version(k) \in Int
         /\ Family(k) = "curated" => Name(k) \notin AllowedLeaves
BY DEF Shaped

\* Rows that are not among the changed ones are equal.
LEMMA SameRows ==
  ASSUME NEW p, NEW c, NEW k, k \notin ChangedKeys(Rows(p), Rows(c)),
         k \in Cached(p) \/ k \in Cached(c)
  PROVE  /\ k \in Cached(p) /\ k \in Cached(c)
         /\ p.cache[k].content = c.cache[k].content
         /\ Surface(p, k) = Surface(c, k)
<1>1. DOMAIN Rows(p) = Cached(p) /\ DOMAIN Rows(c) = Cached(c) BY DEF Rows
<1>2. k \in Cached(p) /\ k \in Cached(c) BY <1>1 DEF ChangedKeys
<1>3. Rows(p)[k] = p.cache[k].content /\ Rows(c)[k] = c.cache[k].content BY <1>2 DEF Rows
<1>4. Rows(p)[k] = Rows(c)[k] BY <1>1, <1>2 DEF ChangedKeys
<1> QED BY <1>2, <1>3, <1>4 DEF Surface

\* What is offered grows with the packages offered.
LEMMA OfferedGrows ==
  ASSUME NEW p, NEW d,
         \A k \in Cached(p) : (Family(k) = "curated" => Enabled(p, Name(k))) =>
            Surface(p, k) \subseteq Offered(d)
  PROVE  Offered(p) \subseteq Offered(d)
<1>1. NodeRepl \in Offered(d) BY DEF Offered
<1> QED BY <1>1 DEF Offered

LEMMA OfferedHas ==
  ASSUME NEW p, NEW k \in Cached(p), Family(k) = "curated" => Enabled(p, Name(k))
  PROVE  Surface(p, k) \subseteq Offered(p)
BY DEF Offered

\* A cached package of the bundle's family is the bundle's.
LEMMA BundledIsBundle ==
  ASSUME NEW d, Shaped(d), Captured(d), NEW k \in Cached(d), Family(k) = "bundled"
  PROVE  Name(k) \in DOMAIN d.bundle.packages /\ k = BundlePackage(d, Name(k))
<1>1. k \in Of(d, "bundled") BY DEF Of
<1>2. /\ Name(k) \in DOMAIN d.bundle.packages
      /\ Version(k) = d.bundle.packages[Name(k)].version
  BY <1>1 DEF Captured, BundleCoherent
<1> QED BY <1>2, ShapedFacts DEF BundlePackage

-----------------------------------------------------------------------------
(* Each lane.                                                              *)

LEMMA AppNarrows ==
  ASSUME NEW p, NEW c, Shaped(p), Shaped(c), Captured(p), Captured(c), AppUpdate(p, c)
  PROVE  Narrower(p, c)
<1>u. /\ OnlyPackages(p, c, Of(p, "bundled") \cup Of(c, "bundled"))
      /\ \A n \in DOMAIN p.bundle.packages : BundleAdvances(p, c, n)
      /\ DOMAIN p.bundle.packages = DOMAIN c.bundle.packages
      /\ ChangedKeys(p.config, c.config) \subseteq AllowedLeaves
  BY DEF AppUpdate
<1>1. \A k \in Cached(c) : Family(k) # "bundled" =>
        k \in Cached(p) /\ Surface(p, k) = Surface(c, k)
  <2> SUFFICES ASSUME NEW k \in Cached(c), Family(k) # "bundled"
               PROVE  k \in Cached(p) /\ Surface(p, k) = Surface(c, k)
    OBVIOUS
  <2>1. k \notin ChangedKeys(Rows(p), Rows(c)) BY <1>u DEF OnlyPackages, Of
  <2> QED BY <2>1, SameRows
<1>2. \A k \in Cached(c) : Family(k) = "curated" =>
        (Enabled(c, Name(k)) => Enabled(p, Name(k)))
  BY <1>u, ShapedFacts DEF ChangedKeys, Enabled
<1>3. Offered(c) \subseteq Offered(p)
  <2> SUFFICES ASSUME NEW k \in Cached(c), Family(k) = "curated" => Enabled(c, Name(k))
               PROVE  Surface(c, k) \subseteq Offered(p)
    BY OfferedGrows
  <2>1. CASE Family(k) # "bundled" BY <1>1, <1>2, <2>1, OfferedHas
  <2>2. CASE Family(k) = "bundled"
    <3> DEFINE n == Name(k)
    <3>1. n \in DOMAIN c.bundle.packages /\ k = BundlePackage(c, n)
      BY <2>2, BundledIsBundle
    <3>2. IsCached(c, n) BY <3>1 DEF IsCached
    <3>3. /\ IsCached(p, n)
          /\ Surface(p, BundlePackage(p, n)) = Surface(c, BundlePackage(c, n))
      BY <1>u, <3>1, <3>2 DEF BundleAdvances
    <3>4. BundlePackage(p, n) \in Cached(p) /\ Family(BundlePackage(p, n)) = "bundled"
      BY <3>3 DEF IsCached, BundlePackage, Family
    <3>5. Surface(p, BundlePackage(p, n)) \subseteq Offered(p) BY <3>4, OfferedHas
    <3> QED BY <3>1, <3>3, <3>5
  <2> QED BY <2>1, <2>2
<1>4. p.rest = c.rest BY DEF AppUpdate, Sources
<1>5. c.config["version"] >= p.config["version"]
  <2>1. /\ "version" \in DOMAIN p.config /\ "version" \in DOMAIN c.config
        BY DEF Captured, RequiredLeaves
  <2>2. c.config["version"] > p.config["version"] BY DEF AppUpdate, Identity
  <2> QED BY <2>1, <2>2 DEF Shaped
<1>6. c.primary.version >= p.primary.version BY DEF AppUpdate, Shaped
<1>7. \A j \in Of(c, "curated") : \E k \in Of(p, "curated") :
        /\ Name(j) = Name(k) /\ Version(j) >= Version(k)
        /\ j # k => p.cache[k].origin.id = c.cache[j].origin.id
  <2> SUFFICES ASSUME NEW j \in Of(c, "curated")
               PROVE  j \in Of(p, "curated") /\ Version(j) >= Version(j)
    OBVIOUS
  <2>1. j \in Cached(c) /\ Family(j) = "curated" BY DEF Of
  <2>2. Version(j) \in Int BY <2>1, ShapedFacts
  <2> QED BY <1>1, <2>1, <2>2 DEF Of
<1> QED BY <1>3, <1>4, <1>5, <1>6, <1>7 DEF Narrower

LEMMA PrimaryNarrows ==
  ASSUME NEW p, NEW c, Shaped(p), Shaped(c), Captured(p), Captured(c), PrimaryUpdate(p, c)
  PROVE  Narrower(p, c)
<1>u. /\ ChangedKeys(Rows(p), Rows(c)) = Of(p, "primary") \cup Of(c, "primary")
      /\ DOMAIN p.primary.packages = DOMAIN c.primary.packages
      /\ p.config = c.config
  BY DEF PrimaryUpdate
<1>1. \A k \in Cached(c) : Family(k) # "primary" =>
        k \in Cached(p) /\ Surface(p, k) = Surface(c, k)
  <2> SUFFICES ASSUME NEW k \in Cached(c), Family(k) # "primary"
               PROVE  k \in Cached(p) /\ Surface(p, k) = Surface(c, k)
    OBVIOUS
  <2>1. k \notin ChangedKeys(Rows(p), Rows(c)) BY <1>u DEF Of
  <2> QED BY <2>1, SameRows
<1>3. Offered(c) \subseteq Offered(p)
  <2> SUFFICES ASSUME NEW k \in Cached(c), Family(k) = "curated" => Enabled(c, Name(k))
               PROVE  Surface(c, k) \subseteq Offered(p)
    BY OfferedGrows
  <2>1. CASE Family(k) # "primary" BY <1>1, <1>u, <2>1, OfferedHas DEF Enabled
  <2>2. CASE Family(k) = "primary"
    <3>1. PICK n \in DOMAIN c.primary.packages : k = PrimaryPackage(c, n)
      BY <2>2 DEF Captured, PrimaryCoherent, Of
    <3>2. Surface(p, PrimaryPackage(p, n)) = Surface(c, PrimaryPackage(c, n))
      BY <1>u DEF PrimaryUpdate
    <3>3. PrimaryPackage(p, n) \in Of(p, "primary")
      BY <1>u DEF Captured, PrimaryCoherent
    <3>4. Surface(p, PrimaryPackage(p, n)) \subseteq Offered(p)
      BY <3>3, OfferedHas DEF Of
    <3> QED BY <3>1, <3>2, <3>4
  <2> QED BY <2>1, <2>2
<1>4. p.rest = c.rest BY DEF PrimaryUpdate, Sources
<1>5. c.config["version"] >= p.config["version"]
  <2>1. "version" \in DOMAIN p.config BY DEF Captured, RequiredLeaves
  <2> QED BY <1>u, <2>1 DEF Shaped
<1>6. c.primary.version >= p.primary.version BY DEF PrimaryUpdate, Shaped
<1>7. \A j \in Of(c, "curated") : \E k \in Of(p, "curated") :
        /\ Name(j) = Name(k) /\ Version(j) >= Version(k)
        /\ j # k => p.cache[k].origin.id = c.cache[j].origin.id
  <2> SUFFICES ASSUME NEW j \in Of(c, "curated")
               PROVE  j \in Of(p, "curated") /\ Version(j) >= Version(j)
    OBVIOUS
  <2>1. j \in Cached(c) /\ Family(j) = "curated" BY DEF Of
  <2>2. Version(j) \in Int BY <2>1, ShapedFacts
  <2> QED BY <1>1, <2>1, <2>2 DEF Of
<1> QED BY <1>3, <1>4, <1>5, <1>6, <1>7 DEF Narrower

\* An authority with the same packages, toggles, versions and sources offers the
\* same.
LEMMA SameNarrows ==
  ASSUME NEW p, NEW c, Shaped(p), Shaped(c), Captured(p), p.cache = c.cache,
         p.rest = c.rest, p.primary = c.primary,
         c.config["version"] = p.config["version"],
         \A k \in Cached(c) : Family(k) = "curated" =>
           (Enabled(c, Name(k)) => Enabled(p, Name(k)))
  PROVE  Narrower(p, c)
<1>1. Offered(c) \subseteq Offered(p)
  <2> SUFFICES ASSUME NEW k \in Cached(c), Family(k) = "curated" => Enabled(c, Name(k))
               PROVE  Surface(c, k) \subseteq Offered(p)
    BY OfferedGrows
  <2>1. k \in Cached(p) /\ Surface(p, k) = Surface(c, k) BY DEF Cached, Surface
  <2> QED BY <2>1, OfferedHas
<1>2. c.config["version"] >= p.config["version"]
  <2>1. "version" \in DOMAIN p.config BY DEF Captured, RequiredLeaves
  <2> QED BY <2>1 DEF Shaped
<1>3. c.primary.version >= p.primary.version BY DEF Shaped
<1>4. \A j \in Of(c, "curated") : j \in Of(p, "curated") /\ Version(j) >= Version(j)
  <2> SUFFICES ASSUME NEW j \in Of(c, "curated")
               PROVE  j \in Of(p, "curated") /\ Version(j) >= Version(j)
    OBVIOUS
  <2>1. j \in Cached(c) /\ Family(j) = "curated" BY DEF Of
  <2>2. Version(j) \in Int BY <2>1, ShapedFacts
  <2> QED BY <2>1, <2>2 DEF Of, Cached
<1> QED BY <1>1, <1>2, <1>3, <1>4 DEF Narrower

LEMMA ConfigNarrows ==
  ASSUME NEW p, NEW c, Shaped(p), Shaped(c), Captured(p), ConfigUpdate(p, c)
  PROVE  Narrower(p, c)
<1>1. /\ p.cache = c.cache /\ p.rest = c.rest /\ p.primary = c.primary
      /\ c.config["version"] = p.config["version"]
  BY DEF ConfigUpdate, Sources, Identity
<1>2. \A n : Enabled(c, n) => Enabled(p, n)
  <2> SUFFICES ASSUME NEW n, Enabled(c, n) PROVE Enabled(p, n) OBVIOUS
  <2>1. n \in DOMAIN c.config /\ c.config[n] = 1 BY DEF Enabled
  <2>2. n \notin ChangedKeys(p.config, c.config)
    BY <2>1 DEF ConfigUpdate, SwitchedOff
  <2> QED BY <2>1, <2>2 DEF ChangedKeys, Enabled
<1> QED BY <1>1, <1>2, SameNarrows

LEMMA BomNarrows ==
  ASSUME NEW p, NEW c, Shaped(p), Shaped(c), Captured(p), BomUpdate(p, c)
  PROVE  Narrower(p, c)
<1> DEFINE q == [p EXCEPT !.bom = c.bom, !.catalog = c.catalog]
<1>1. [q EXCEPT !.catalog = << >>] = [c EXCEPT !.catalog = << >>]
  BY DEF BomUpdate, Snapshot
<1>2. /\ p.cache = c.cache /\ p.rest = c.rest /\ p.primary = c.primary
      /\ p.config = c.config
  <2>1. /\ [q EXCEPT !.catalog = << >>].cache = p.cache
        /\ [q EXCEPT !.catalog = << >>].rest = p.rest
        /\ [q EXCEPT !.catalog = << >>].primary = p.primary
        /\ [q EXCEPT !.catalog = << >>].config = p.config
    BY DEF Shaped
  <2>2. /\ [c EXCEPT !.catalog = << >>].cache = c.cache
        /\ [c EXCEPT !.catalog = << >>].rest = c.rest
        /\ [c EXCEPT !.catalog = << >>].primary = c.primary
        /\ [c EXCEPT !.catalog = << >>].config = c.config
    BY DEF Shaped
  <2> QED BY <1>1, <2>1, <2>2
<1> QED BY <1>2, SameNarrows DEF Enabled

LEMMA PluginNarrows ==
  ASSUME NEW p, NEW c, Shaped(p), Shaped(c), Captured(p), PluginReplacement(p, c)
  PROVE  Narrower(p, c)
<1>1. PICK new \in Cached(c) : Cached(c) \ Cached(p) = {new} /\ Replaces(p, c, new)
  BY DEF PluginReplacement
<1>2. PICK old \in Of(p, "curated") :
        /\ Name(old) = Name(new) /\ Version(new) > Version(old)
        /\ Enabled(p, Name(new))
        /\ SameOrigin(p.cache[old].origin, c.cache[new].origin)
        /\ Surface(p, old) = Surface(c, new)
  BY <1>1 DEF Replaces
<1>3. \A k \in Cached(c) \ {new} : k \in Cached(p) /\ Surface(p, k) = Surface(c, k)
  BY <1>1 DEF PluginReplacement, Surface
<1>4. /\ p.rest = c.rest /\ p.primary = c.primary /\ p.config = c.config
  BY DEF PluginReplacement, Sources
<1>5. Offered(c) \subseteq Offered(p)
  <2> SUFFICES ASSUME NEW k \in Cached(c), Family(k) = "curated" => Enabled(c, Name(k))
               PROVE  Surface(c, k) \subseteq Offered(p)
    BY OfferedGrows
  <2>1. CASE k = new
    <3>1. Surface(p, old) \subseteq Offered(p) BY <1>2, OfferedHas DEF Of
    <3> QED BY <1>2, <2>1, <3>1
  <2>2. CASE k # new BY <1>3, <1>4, <2>2, OfferedHas DEF Enabled
  <2> QED BY <2>1, <2>2
<1>6. /\ c.config["version"] >= p.config["version"]
      /\ c.primary.version >= p.primary.version
  <2>1. "version" \in DOMAIN p.config BY DEF Captured, RequiredLeaves
  <2> QED BY <1>4, <2>1 DEF Shaped
<1>7. \A j \in Of(c, "curated") : \E k \in Of(p, "curated") :
        /\ Name(j) = Name(k) /\ Version(j) >= Version(k)
        /\ j # k => p.cache[k].origin.id = c.cache[j].origin.id
  <2> TAKE j \in Of(c, "curated")
  <2>1. j \in Cached(c) /\ Family(j) = "curated" /\ Version(j) \in Int
    BY ShapedFacts DEF Of
  <2>2. CASE j = new
    <3>1. Version(old) \in Int BY ShapedFacts DEF Of
    <3>2. Version(j) >= Version(old) BY <1>2, <2>1, <2>2, <3>1
    <3>3. p.cache[old].origin.id = c.cache[j].origin.id BY <1>2, <2>2 DEF SameOrigin
    <3> QED BY <1>2, <2>2, <3>2, <3>3
  <2>3. CASE j # new
    <3>1. j \in Of(p, "curated") BY <1>3, <2>1, <2>3 DEF Of
    <3>2. Version(j) >= Version(j) BY <2>1
    <3> QED BY <3>1, <3>2
  <2> QED BY <2>2, <2>3
<1> QED BY <1>4, <1>5, <1>6, <1>7 DEF Narrower

\* The packages of p outside of a family, and those of c in it.
LEMMA MixedPackages ==
  ASSUME NEW p, NEW c, Shaped(p), NEW families
  PROVE  LET w == WithPackages(p, c, families).cache IN
         /\ DOMAIN w = {k \in Cached(p) : Family(k) \notin families}
                         \cup {k \in Cached(c) : Family(k) \in families}
         /\ \A k \in DOMAIN w :
              w[k] = IF Family(k) \in families THEN c.cache[k] ELSE p.cache[k]
         /\ WithPackages(p, c, families) =
              [config |-> p.config, cache |-> w, bundle |-> p.bundle,
               primary |-> p.primary, client |-> p.client, catalog |-> p.catalog,
               bom |-> p.bom, rest |-> p.rest]
<1> DEFINE w == WithPackages(p, c, families).cache
           kept == {k \in Cached(p) : Family(k) \notin families}
           taken == {k \in Cached(c) : Family(k) \in families}
           mixed == [k \in kept \cup taken |-> IF k \in taken THEN c.cache[k] ELSE p.cache[k]]
<1>1. WithPackages(p, c, families) = [p EXCEPT !.cache = mixed] BY DEF WithPackages
<1>2. /\ DOMAIN mixed = kept \cup taken
      /\ \A k \in DOMAIN mixed :
           mixed[k] = IF Family(k) \in families THEN c.cache[k] ELSE p.cache[k]
  OBVIOUS
<1> HIDE DEF mixed
<1>3. [p EXCEPT !.cache = mixed].cache = mixed BY DEF Shaped
<1>4. [p EXCEPT !.cache = mixed] =
        [config |-> p.config, cache |-> mixed, bundle |-> p.bundle, primary |-> p.primary,
         client |-> p.client, catalog |-> p.catalog, bom |-> p.bom, rest |-> p.rest]
  BY DEF Shaped
<1>5. w = mixed BY <1>1, <1>3
<1> QED BY <1>1, <1>2, <1>4, <1>5

\* Replacing fields of an authority.
LEMMA AppFields ==
  ASSUME NEW q, NEW y,
         q \in [config: {q.config}, cache: {q.cache}, bundle: {q.bundle},
               primary: {q.primary}, client: {q.client}, catalog: {q.catalog},
               bom: {q.bom}, rest: {q.rest}]
  PROVE  [q EXCEPT !.config = y.config, !.client = y.client, !.bundle = y.bundle,
                   !.catalog = y.catalog]
              = [config |-> y.config, cache |-> q.cache, bundle |-> y.bundle,
                 primary |-> q.primary, client |-> y.client, catalog |-> y.catalog,
                 bom |-> q.bom, rest |-> q.rest]
<1> DEFINE e == [q EXCEPT !.config = y.config, !.client = y.client, !.bundle = y.bundle,
                          !.catalog = y.catalog]
<1>1. e \in [config: {y.config}, cache: {q.cache}, bundle: {y.bundle},
            primary: {q.primary}, client: {y.client}, catalog: {y.catalog},
            bom: {q.bom}, rest: {q.rest}]
  OBVIOUS
<1> HIDE DEF e
<1> QED BY <1>1

LEMMA PrimaryFields ==
  ASSUME NEW q, NEW y,
         q \in [config: {q.config}, cache: {q.cache}, bundle: {q.bundle},
               primary: {q.primary}, client: {q.client}, catalog: {q.catalog},
               bom: {q.bom}, rest: {q.rest}]
  PROVE  [q EXCEPT !.primary = y.primary, !.catalog = y.catalog]
              = [config |-> q.config, cache |-> q.cache, bundle |-> q.bundle,
                 primary |-> y.primary, client |-> q.client, catalog |-> y.catalog,
                 bom |-> q.bom, rest |-> q.rest]
<1> DEFINE e == [q EXCEPT !.primary = y.primary, !.catalog = y.catalog]
<1>1. e \in [config: {q.config}, cache: {q.cache}, bundle: {q.bundle},
            primary: {y.primary}, client: {q.client}, catalog: {y.catalog},
            bom: {q.bom}, rest: {q.rest}]
  OBVIOUS
<1> HIDE DEF e
<1> QED BY <1>1

LEMMA CompoundNarrows ==
  ASSUME NEW p, NEW c, Shaped(p), Shaped(c), Captured(p), Captured(c), CompoundUpdate(p, c)
  PROVE  Narrower(p, c)
<1> DEFINE app == AppPart(p, c)
           pri == PrimaryPart(p, c)
           a == WithPackages(p, c, {"bundled"}).cache
           r == WithPackages(p, c, {"primary"}).cache
           w == WithPackages(app, c, {"primary"}).cache
\* The parts are made of the packages of both authorities.
<1>1. /\ DOMAIN a = {k \in Cached(p) : Family(k) \notin {"bundled"}}
                      \cup {k \in Cached(c) : Family(k) \in {"bundled"}}
      /\ WithPackages(p, c, {"bundled"}) =
           [config |-> p.config, cache |-> a, bundle |-> p.bundle, primary |-> p.primary,
            client |-> p.client, catalog |-> p.catalog, bom |-> p.bom, rest |-> p.rest]
  BY MixedPackages, Zenon
<1>2. /\ DOMAIN r = {k \in Cached(p) : Family(k) \notin {"primary"}}
                      \cup {k \in Cached(c) : Family(k) \in {"primary"}}
      /\ \A k \in DOMAIN r : r[k] = IF Family(k) \in {"primary"} THEN c.cache[k] ELSE p.cache[k]
      /\ WithPackages(p, c, {"primary"}) =
           [config |-> p.config, cache |-> r, bundle |-> p.bundle, primary |-> p.primary,
            client |-> p.client, catalog |-> p.catalog, bom |-> p.bom, rest |-> p.rest]
  BY MixedPackages, Zenon
<1> HIDE DEF a, r
<1>3. app = [config |-> c.config, cache |-> a, bundle |-> c.bundle, primary |-> p.primary,
             client |-> c.client, catalog |-> c.catalog, bom |-> p.bom, rest |-> p.rest]
  <2> DEFINE q == WithPackages(p, c, {"bundled"})
  <2>1. /\ q \in [config: {q.config}, cache: {q.cache}, bundle: {q.bundle},
                  primary: {q.primary}, client: {q.client}, catalog: {q.catalog},
                  bom: {q.bom}, rest: {q.rest}]
        /\ q.config = p.config /\ q.cache = a /\ q.bundle = p.bundle
        /\ q.primary = p.primary /\ q.client = p.client /\ q.bom = p.bom /\ q.rest = p.rest
    BY <1>1
  <2>2. app = [q EXCEPT !.config = c.config, !.client = c.client, !.bundle = c.bundle,
                       !.catalog = c.catalog] BY DEF AppPart
  <2> HIDE DEF q, app
  <2> QED BY <2>1, <2>2, AppFields
<1>4. pri = [config |-> p.config, cache |-> r, bundle |-> p.bundle, primary |-> c.primary,
             client |-> p.client, catalog |-> c.catalog, bom |-> p.bom, rest |-> p.rest]
  <2> DEFINE q == WithPackages(p, c, {"primary"})
  <2>1. /\ q \in [config: {q.config}, cache: {q.cache}, bundle: {q.bundle},
                  primary: {q.primary}, client: {q.client}, catalog: {q.catalog},
                  bom: {q.bom}, rest: {q.rest}]
        /\ q.config = p.config /\ q.cache = r /\ q.bundle = p.bundle
        /\ q.primary = p.primary /\ q.client = p.client /\ q.bom = p.bom /\ q.rest = p.rest
    BY <1>2
  <2>2. pri = [q EXCEPT !.primary = c.primary, !.catalog = c.catalog] BY DEF PrimaryPart
  <2> HIDE DEF q, pri
  <2> QED BY <2>1, <2>2, PrimaryFields
<1>d. PrimaryPart(app, c) =
        [WithPackages(app, c, {"primary"}) EXCEPT !.primary = c.primary, !.catalog = c.catalog]
  BY DEF PrimaryPart
<1>c. /\ Captured(app) /\ AppUpdate(p, app) /\ Captured(pri) /\ PrimaryUpdate(p, pri)
      /\ Snapshot(PrimaryPart(app, c)) = Snapshot(c)
  BY DEF CompoundUpdate
<1> HIDE DEF app, pri
<1>5. Shaped(app)
  <2>1. \A k \in Cached(app) : k \in Cached(p) \/ k \in Cached(c) BY <1>1, <1>3 DEF Cached
  <2>2. /\ app \in [config: {app.config}, cache: {app.cache}, bundle: {app.bundle},
                    primary: {app.primary}, client: {app.client}, catalog: {app.catalog},
                    bom: {app.bom}, rest: {app.rest}]
        /\ app.config = c.config /\ app.primary = p.primary
    BY <1>3
  <2> QED BY <2>1, <2>2, ShapedFacts DEF Shaped
<1>6. Shaped(pri)
  <2>1. \A k \in Cached(pri) : k \in Cached(p) \/ k \in Cached(c) BY <1>2, <1>4 DEF Cached
  <2>2. /\ pri \in [config: {pri.config}, cache: {pri.cache}, bundle: {pri.bundle},
                    primary: {pri.primary}, client: {pri.client}, catalog: {pri.catalog},
                    bom: {pri.bom}, rest: {pri.rest}]
        /\ pri.config = p.config /\ pri.primary = c.primary
    BY <1>4
  <2> QED BY <2>1, <2>2, ShapedFacts DEF Shaped
<1>7. Narrower(p, app) BY <1>5, <1>c, AppNarrows
<1>8. Narrower(p, pri) BY <1>6, <1>c, PrimaryNarrows
\* The live authority is nothing but the two parts.
<1>w. /\ DOMAIN w = {k \in Cached(app) : Family(k) \notin {"primary"}}
                      \cup {k \in Cached(c) : Family(k) \in {"primary"}}
      /\ \A k \in DOMAIN w : w[k] = IF Family(k) \in {"primary"} THEN c.cache[k] ELSE app.cache[k]
      /\ WithPackages(app, c, {"primary"}) =
           [config |-> app.config, cache |-> w, bundle |-> app.bundle,
            primary |-> app.primary, client |-> app.client, catalog |-> app.catalog,
            bom |-> app.bom, rest |-> app.rest]
  BY <1>5, MixedPackages, Zenon
<1> HIDE DEF w
<1>9. c.cache = w /\ c.rest = p.rest
  <2> DEFINE both == PrimaryPart(app, c)
  <2>1. [both EXCEPT !.catalog = << >>] = [c EXCEPT !.catalog = << >>]
    BY <1>c DEF Snapshot
  <2>2. [both EXCEPT !.catalog = << >>].cache = w BY <1>d, <1>w
  <2>3. [c EXCEPT !.catalog = << >>].cache = c.cache BY DEF Shaped
  <2>4. p.rest = c.rest BY DEF CompoundUpdate, Sources
  <2> QED BY <2>1, <2>2, <2>3, <2>4
<1>10. app.config = c.config /\ app.cache = a BY <1>3
<1>11. pri.primary = c.primary /\ pri.cache = r BY <1>4
<1>12. \A k \in Cached(c) : Family(k) # "primary" => k \in Cached(app) /\ app.cache[k] = c.cache[k]
  BY <1>9, <1>w DEF Cached
<1>13. \A k \in Cached(c) : Family(k) = "primary" => k \in Cached(pri) /\ pri.cache[k] = c.cache[k]
  BY <1>2, <1>11 DEF Cached
<1>14. Offered(c) \subseteq Offered(p)
  <2> SUFFICES ASSUME NEW k \in Cached(c), Family(k) = "curated" => Enabled(c, Name(k))
               PROVE  Surface(c, k) \subseteq Offered(p)
    BY OfferedGrows
  <2>1. CASE Family(k) # "primary"
    <3>1. k \in Cached(app) /\ Surface(app, k) = Surface(c, k) BY <1>12, <2>1 DEF Surface
    <3>2. Surface(app, k) \subseteq Offered(app) BY <1>10, <3>1, OfferedHas DEF Enabled
    <3> QED BY <1>7, <3>1, <3>2 DEF Narrower
  <2>2. CASE Family(k) = "primary"
    <3>1. k \in Cached(pri) /\ Surface(pri, k) = Surface(c, k) BY <1>13, <2>2 DEF Surface
    <3>2. Surface(pri, k) \subseteq Offered(pri) BY <2>2, <3>1, OfferedHas
    <3> QED BY <1>8, <3>1, <3>2 DEF Narrower
  <2> QED BY <2>1, <2>2
<1>15. /\ c.config["version"] >= p.config["version"]
       /\ c.primary.version >= p.primary.version
  BY <1>7, <1>8, <1>10, <1>11 DEF Narrower
<1>16. \A j \in Of(c, "curated") : \E k \in Of(p, "curated") :
         /\ Name(j) = Name(k) /\ Version(j) >= Version(k)
         /\ j # k => p.cache[k].origin.id = c.cache[j].origin.id
  <2> TAKE j \in Of(c, "curated")
  <2>1. j \in Of(app, "curated") /\ app.cache[j] = c.cache[j] BY <1>12 DEF Of
  <2> QED BY <1>7, <2>1 DEF Narrower
<1> QED BY <1>9, <1>14, <1>15, <1>16 DEF Narrower

-----------------------------------------------------------------------------
\* classify_authority_update: whatever change of the live authority a lane
\* recognises, for all authorities: no identifier is offered that was not, no
\* version goes back, and no plugin is taken over by another publisher.
THEOREM LaneNarrows ==
  ASSUME NEW p, NEW c, Shaped(p), Shaped(c), Lane(p, c) # "none"
  PROVE  Narrower(p, c)
<1>1. Captured(p) /\ Captured(c) BY DEF Lane
<1>2. \/ AppUpdate(p, c) \/ PrimaryUpdate(p, c) \/ BomUpdate(p, c)
      \/ CompoundUpdate(p, c) \/ PluginReplacement(p, c) \/ ConfigUpdate(p, c)
  BY <1>1 DEF Lane
<1> QED BY <1>1, <1>2, AppNarrows, PrimaryNarrows, BomNarrows, CompoundNarrows,
           PluginNarrows, ConfigNarrows
-----------------------------------------------------------------------------
(* What a call and a generation know of the live authority.                *)

\* attempt_recovery works from the receipt of the current manifest, towards an
\* authority some lane recognises, and promotes what the lane allowed; the
\* operator's call works on rendered bytes.  Readings are captured authorities.
Fixed == {"promote", "reread", "swap"}
Aimed == {"context", "build", "final", "check"} \cup Fixed
Based == {"prelim", "current"} \cup Aimed

LaneJob(j) ==
  /\ j.first \in Capturable \cup {None}
  /\ j.cur \in Capturable \cup {None}
  /\ j.op = "recover" =>
       /\ j.pc \in Based => j.want = Receipt(pointer)
       /\ j.pc \in Aimed => <<j.want, j.cur>> \in Recognized
       /\ j.pc \in Fixed => gens[j.cand].receipt = j.cur /\ gens[j.cand].same
  /\ j.op = "apply" /\ j.pc \in {"txcand", "begin", "final"} \cup Fixed =>
       gens[j.cand].op = "render"

LaneInv ==
  /\ auth \in setting.versions
  /\ \A i \in 1 .. Len(gens) : gens[i].receipt \in setting.versions \cap Capturable
  /\ \A p \in Procs : LaneJob(job[p])

-----------------------------------------------------------------------------
LEMMA LaneInit == Init => LaneInv
<1> SUFFICES ASSUME Init PROVE LaneInv OBVIOUS
<1>1. auth \in setting.versions BY ManifestAssumption DEF Init
<1>2. \A p \in Procs : LaneJob(job[p]) BY DEF Init, Idle, LaneJob
<1>3. Len(gens) = 0 BY DEF Init
<1> QED BY <1>1, <1>2, <1>3 DEF LaneInv

\* What a call knows does not change when candidates are built beside it.
LEMMA LaneFrame ==
  ASSUME LaneInv, UNCHANGED <<setting, pointer, gens>>, auth' \in setting.versions,
         \A q \in Procs : LaneJob(job'[q])
  PROVE  LaneInv'
<1>1. (\A q \in Procs : LaneJob(job[q]))' BY DEF LaneJob, Receipt
<1> QED BY <1>1 DEF LaneInv

\* A step of one call that builds nothing.
LEMMA LaneCall ==
  ASSUME ChainInv, LaneInv, NEW p \in Procs, NEW j, LaneJob(j),
         job' = [job EXCEPT ![p] = j], UNCHANGED <<setting, auth, pointer, gens>>
  PROVE  LaneInv'
<1>1. \A q \in Procs : job'[q] = IF q = p THEN j ELSE job[q] BY DEF ChainInv, ChainType
<1>2. \A q \in Procs : LaneJob(job'[q]) BY <1>1 DEF LaneInv
<1> QED BY <1>2, LaneFrame DEF LaneInv

LEMMA ReturnLane ==
  ASSUME ChainInv, LaneInv, NEW p \in Procs, NEW s, Return(p, s),
         UNCHANGED <<setting, auth, pointer, gens>>
  PROVE  LaneInv'
<1>1. LaneJob(Idle) BY DEF LaneJob, Idle
<1>2. job' = [job EXCEPT ![p] = Idle] BY DEF Return
<1> QED BY <1>1, <1>2, LaneCall

LEMMA ConcludeLane ==
  ASSUME ChainInv, LaneInv, NEW p \in Procs, NEW s, Conclude(p, s),
         UNCHANGED <<setting, auth, pointer, gens>>
  PROVE  LaneInv'
<1> DEFINE j == [job[p] EXCEPT !.pc = "close", !.status = s]
<1>t. job[p] \in Job /\ job \in [Procs -> Job] BY DEF ChainInv, ChainType
<1>1. job' = [job EXCEPT ![p] = j] BY <1>t DEF Conclude
<1>2. /\ j.pc = "close" /\ j.first = job[p].first /\ j.cur = job[p].cur
  BY <1>t DEF Job
<1>3. LaneJob(j) BY <1>2 DEF LaneInv, LaneJob, Based, Aimed, Fixed
<1> HIDE DEF j
<1> QED BY <1>1, <1>3, LaneCall

LEMMA StopLane ==
  ASSUME ChainInv, LaneInv, NEW p \in Procs, NEW s, Stop(p, s),
         UNCHANGED <<setting, auth, pointer, gens>>
  PROVE  LaneInv'
BY ReturnLane, ConcludeLane DEF Stop

\* A call that goes on: it must know what the next place asks for.
LEMMA GotoLane ==
  ASSUME ChainInv, LaneInv, NEW p \in Procs, NEW pc, Goto(p, pc),
         LaneJob([job[p] EXCEPT !.pc = pc]), UNCHANGED <<setting, auth, pointer, gens>>
  PROVE  LaneInv'
<1>1. job' = [job EXCEPT ![p] = [job[p] EXCEPT !.pc = pc]]
  BY DEF Goto, ChainInv, ChainType
<1> QED BY <1>1, LaneCall

-----------------------------------------------------------------------------
LEMMA StartLane ==
  ASSUME ChainInv, LaneInv, NEW p \in Procs,
         \/ StartRecover(p)
         \/ \E t \in OpTx, want \in {auth, setting.base} : StartRender(p, t, want)
         \/ \E t \in OpTx, want \in {auth, setting.base}, c \in 1 .. Len(gens),
               a \in Authorizations : StartApply(p, t, want, c, a)
  PROVE  LaneInv'
<1>1. ASSUME NEW r, LaneJob(r), Enter(p, r) PROVE LaneInv'
  <2>1. UNCHANGED <<setting, auth, pointer, gens>> BY <1>1 DEF Enter
  <2>2. CASE job' = job BY <2>1, <2>2, LaneFrame DEF LaneInv
  <2>3. CASE job' = [job EXCEPT ![p] = r] BY <1>1, <2>1, <2>3, LaneCall
  <2> QED BY <1>1, <2>2, <2>3 DEF Enter
<1>2. CASE StartRecover(p)
  <2>1. LaneJob([Idle EXCEPT !.op = "recover", !.pc = "load"])
    BY DEF Idle, LaneJob, Based, Aimed, Fixed
  <2> QED BY <1>1, <1>2, <2>1 DEF StartRecover
<1>3. ASSUME NEW t \in OpTx, NEW want \in {auth, setting.base}, StartRender(p, t, want)
      PROVE  LaneInv'
  <2>1. LaneJob([Idle EXCEPT !.op = "render", !.pc = "prelim", !.tx = t, !.want = want])
    BY DEF Idle, LaneJob
  <2> QED BY <1>1, <1>3, <2>1 DEF StartRender
<1>4. ASSUME NEW t \in OpTx, NEW want \in {auth, setting.base}, NEW c \in 1 .. Len(gens),
             NEW a \in Authorizations, StartApply(p, t, want, c, a)
      PROVE  LaneInv'
  <2>1. LaneJob([Idle EXCEPT !.op = "apply", !.pc = "replay", !.tx = t,
                             !.want = want, !.cand = c, !.authz = a])
    BY DEF Idle, LaneJob, Fixed
  <2> QED BY <1>1, <1>4, <2>1 DEF StartApply
<1> QED BY <1>2, <1>3, <1>4

\* What the invariants say of the call of a process that is inside one.
LEMMA LaneFacts ==
  ASSUME ChainInv, TxInv, LaneInv, NEW p \in Procs, job[p].pc # "idle"
  PROVE  /\ job[p] \in Job /\ job \in [Procs -> Job] /\ JobOk(job[p], Len(gens))
         /\ job[p].op \in Operations
         /\ Places(job[p]) /\ LaneJob(job[p])
BY CallFacts DEF LaneInv

\* The stable readings: attempt_recovery classifies what it read.
LEMMA ReadLane ==
  ASSUME ChainInv, TxInv, LaneInv, NEW p \in Procs,
         Load(p) \/ ReadFirst(p) \/ ReadSecond(p) \/ ReadFails(p)
  PROVE  LaneInv'
<1>u. UNCHANGED <<setting, auth, pointer, gens>>
  BY DEF Load, ReadFirst, ReadSecond, ReadFails
<1>i. job[p].pc \in {"load", "prelim", "current", "final"}
  BY DEF Load, ReadFirst, ReadSecond, ReadFails, Reading
<1>t. /\ job[p] \in Job /\ job \in [Procs -> Job] /\ job[p].op \in Operations
      /\ Places(job[p]) /\ LaneJob(job[p])
  BY <1>i, LaneFacts
<1>1. CASE Load(p)
  <2> DEFINE j == [job[p] EXCEPT !.pc = "prelim", !.want = Receipt(pointer)]
  <2>1. CASE Return(p, "noop") \/ Return(p, "denied") BY <1>u, <2>1, ReturnLane
  <2>2. CASE job' = [job EXCEPT ![p].pc = "prelim", ![p].want = Receipt(pointer)]
    <3>1. job' = [job EXCEPT ![p] = j] BY <1>t, <2>2
    <3>2. /\ j.pc = "prelim" /\ j.want = Receipt(pointer) /\ j.first = job[p].first
          /\ j.cur = job[p].cur
      BY <1>t DEF Job
    <3>3. LaneJob(j) BY <1>t, <3>2 DEF LaneJob, Aimed, Fixed
    <3> HIDE DEF j
    <3> QED BY <1>u, <3>1, <3>3, LaneCall
  <2> QED BY <1>1, <2>1, <2>2 DEF Load
<1>2. CASE ReadFirst(p)
  <2> DEFINE j == [job[p] EXCEPT !.first = auth]
  <2>1. CASE Stop(p, "denied") BY <1>u, <2>1, StopLane
  <2>2. CASE auth \in Capturable /\ job' = [job EXCEPT ![p].first = auth]
    <3>1. job' = [job EXCEPT ![p] = j] BY <1>t, <2>2
    <3>2. /\ j.pc = job[p].pc /\ j.op = job[p].op /\ j.want = job[p].want
          /\ j.first = auth /\ j.cur = job[p].cur /\ j.cand = job[p].cand
      BY <1>t DEF Job
    <3>3. LaneJob(j) BY <1>t, <2>2, <3>2 DEF LaneJob
    <3> HIDE DEF j
    <3> QED BY <1>u, <3>1, <3>3, LaneCall
  <2> QED BY <1>2, <2>1, <2>2 DEF ReadFirst
<1>3. CASE ReadSecond(p)
  <2>1. CASE Stop(p, "denied") BY <1>u, <2>1, StopLane
  <2>2. CASE /\ Accepted(p, auth)
             /\ job[p].first = auth /\ job[p].first # None
             /\ job[p].pc = "final" => auth = job[p].cur
             /\ job[p].pc # "final" => Acceptable(job[p], auth)
    <3>1. PICK next \in Pcs :
            /\ job' = [job EXCEPT ![p].pc = next, ![p].first = None, ![p].cur = auth]
            /\ \/ job[p].pc = "prelim" /\ next = "current"
               \/ job[p].pc = "current" /\ next = "context"
               \/ job[p].pc = "final" /\ job[p].op = "recover" /\ next = "check"
               \/ job[p].pc = "final" /\ job[p].op = "render" /\ next = "record"
               \/ job[p].pc = "final" /\ job[p].op = "apply" /\ next = "promote"
      <4>1. job[p].pc \in {"prelim", "current", "final"} BY <1>3 DEF ReadSecond, Reading
      <4>2. CASE job[p].pc = "prelim" BY <2>2, <4>2 DEF Accepted, Pcs
      <4>3. CASE job[p].pc = "current" BY <2>2, <4>3 DEF Accepted, Pcs
      <4>4. CASE job[p].pc = "final" BY <1>t, <2>2, <4>4 DEF Accepted, Operations, Pcs
      <4> QED BY <4>1, <4>2, <4>3, <4>4
    <3> DEFINE j == [job[p] EXCEPT !.pc = next, !.first = None, !.cur = auth]
    <3>2. job' = [job EXCEPT ![p] = j] BY <1>t, <3>1
    <3>3. /\ j.pc = next /\ j.op = job[p].op /\ j.want = job[p].want
          /\ j.first = None /\ j.cur = auth /\ j.cand = job[p].cand
      BY <1>t DEF Job
    <3>4. auth \in Capturable BY <1>t, <2>2 DEF LaneJob
    <3>5. LaneJob(j)
      <4>1. CASE job[p].pc \in {"prelim", "current"} /\ next \in {"current", "context"}
        BY <1>t, <2>2, <3>3, <3>4, <4>1 DEF LaneJob, Acceptable, Based, Aimed, Fixed
      <4>2. CASE job[p].pc = "final" /\ next \in {"check", "record", "promote"}
        BY <1>t, <2>2, <3>1, <3>3, <3>4, <4>2 DEF LaneJob, Based, Aimed, Fixed
      <4> QED BY <3>1, <4>1, <4>2
    <3> HIDE DEF j
    <3> QED BY <1>u, <3>2, <3>5, LaneCall
  <2> QED BY <1>3, <2>1, <2>2 DEF ReadSecond
<1>4. CASE ReadFails(p) BY <1>4, <1>u, StopLane DEF ReadFails
<1> QED BY <1>1, <1>2, <1>3, <1>4

\* A call of render learns nothing a lane asks for.
LEMMA RenderLane ==
  ASSUME ChainInv, TxInv, LaneInv, NEW p \in Procs,
         RenderContext(p) \/ Inspect(p) \/ WriteCandidate(p) \/ WriteReview(p)
  PROVE  LaneInv'
<1>u. UNCHANGED <<setting, auth, pointer, gens>>
  BY DEF RenderContext, Inspect, WriteCandidate, WriteReview
<1>i. job[p].pc \in {"context", "inspect", "record", "receipt"}
  BY DEF RenderContext, Inspect, WriteCandidate, WriteReview
<1>t. /\ job[p] \in Job /\ job \in [Procs -> Job] /\ Places(job[p]) /\ LaneJob(job[p])
  BY <1>i, LaneFacts
<1>r. job[p].op = "render"
  BY <1>t DEF RenderContext, Inspect, WriteCandidate, WriteReview, Places
<1>1. \A pc : LaneJob([job[p] EXCEPT !.pc = pc])
  <2> TAKE pc
  <2> DEFINE j == [job[p] EXCEPT !.pc = pc]
  <2>1. j.op = "render" /\ j.first = job[p].first /\ j.cur = job[p].cur BY <1>t, <1>r DEF Job
  <2> QED BY <1>t, <2>1 DEF LaneJob
<1>2. CASE \E s : Return(p, s) BY <1>2, <1>u, ReturnLane
<1>3. CASE \E pc : Goto(p, pc) BY <1>1, <1>3, <1>u, GotoLane
<1>4. CASE job' = [job EXCEPT ![p].pc = "build", ![p].prev = pointer]
  <2> DEFINE j == [job[p] EXCEPT !.pc = "build", !.prev = pointer]
  <2>1. j.op = "render" /\ j.first = job[p].first /\ j.cur = job[p].cur BY <1>t, <1>r DEF Job
  <2>2. LaneJob(j) BY <1>t, <2>1 DEF LaneJob
  <2>3. job' = [job EXCEPT ![p] = j] BY <1>4, <1>t
  <2> HIDE DEF j
  <2> QED BY <1>u, <2>2, <2>3, LaneCall
<1> QED BY <1>2, <1>3, <1>4 DEF RenderContext, Inspect, WriteCandidate, WriteReview

\* The contexts and begin records of recovery and of the operator's call.
LEMMA PrepareLane ==
  ASSUME ChainInv, TxInv, LaneInv, NEW p \in Procs,
         \/ BeginAutomatic(p) \/ ApplyContext(p) \/ BuildFails(p) \/ KeepCandidate(p)
         \/ BeginOperator(p) \/ EarlyWriteFails(p)
  PROVE  LaneInv'
<1>u. UNCHANGED <<setting, auth, pointer, gens>>
  BY DEF BeginAutomatic, ApplyContext, BuildFails, KeepCandidate, BeginOperator,
         EarlyWriteFails
<1>i. job[p].pc # "idle"
  BY DEF BeginAutomatic, ApplyContext, BuildFails, KeepCandidate, BeginOperator,
         EarlyWriteFails
<1>t. /\ job[p] \in Job /\ job \in [Procs -> Job] /\ Places(job[p]) /\ LaneJob(job[p])
  BY <1>i, LaneFacts
<1>1. CASE BeginAutomatic(p)
  <2>1. PICK t : job' = [job EXCEPT ![p].pc = "build", ![p].tx = t, ![p].prev = pointer]
    BY <1>1 DEF BeginAutomatic
  <2> DEFINE j == [job[p] EXCEPT !.pc = "build", !.tx = t, !.prev = pointer]
  <2>2. /\ j.pc = "build" /\ j.op = job[p].op /\ j.want = job[p].want
        /\ j.first = job[p].first /\ j.cur = job[p].cur /\ job[p].pc = "context"
        /\ job[p].op = "recover"
    BY <1>1, <1>t DEF Job, BeginAutomatic
  <2>3. LaneJob(j) BY <1>t, <2>2 DEF LaneJob, Based, Aimed, Fixed
  <2>4. job' = [job EXCEPT ![p] = j] BY <1>t, <2>1
  <2> HIDE DEF j
  <2> QED BY <1>u, <2>3, <2>4, LaneCall
<1>2. CASE ApplyContext(p)
  <2>1. CASE Return(p, "denied") BY <1>u, <2>1, ReturnLane
  <2>2. CASE /\ ValidReview(job[p].tx, job[p].want, job[p].cand, pointer)
             /\ job' = [job EXCEPT ![p].pc = "txcand", ![p].prev = pointer]
    <3> DEFINE j == [job[p] EXCEPT !.pc = "txcand", !.prev = pointer]
    <3>1. /\ j.op = "apply" /\ j.first = job[p].first /\ j.cur = job[p].cur
          /\ j.cand = job[p].cand
      BY <1>2, <1>t DEF Job, ApplyContext
    <3>2. gens[j.cand].op = "render" BY <2>2, <3>1 DEF ValidReview
    <3>3. LaneJob(j) BY <1>t, <3>1, <3>2 DEF LaneJob
    <3>4. job' = [job EXCEPT ![p] = j] BY <1>t, <2>2
    <3> HIDE DEF j
    <3> QED BY <1>u, <3>3, <3>4, LaneCall
  <2> QED BY <1>2, <2>1, <2>2 DEF ApplyContext
<1>3. CASE BuildFails(p) BY <1>3, <1>u, StopLane DEF BuildFails
<1>4. CASE KeepCandidate(p) \/ BeginOperator(p)
  <2>1. CASE \E s : Return(p, s) BY <1>u, <2>1, ReturnLane
  <2>2. ASSUME NEW pc \in {"begin", "final"}, Goto(p, pc) PROVE LaneInv'
    <3> DEFINE j == [job[p] EXCEPT !.pc = pc]
    <3>1. /\ j.op = "apply" /\ j.op = job[p].op /\ j.first = job[p].first
          /\ j.cur = job[p].cur /\ j.cand = job[p].cand
          /\ job[p].pc \in {"txcand", "begin"}
      BY <1>4, <1>t DEF Job, KeepCandidate, BeginOperator, Places
    <3>2. LaneJob(j) BY <1>t, <3>1 DEF LaneJob
    <3> QED BY <1>u, <2>2, <3>2, GotoLane
  <2> QED BY <1>4, <2>1, <2>2 DEF KeepCandidate, BeginOperator
<1>5. CASE EarlyWriteFails(p) BY <1>5, <1>u, ReturnLane DEF EarlyWriteFails
<1> QED BY <1>1, <1>2, <1>3, <1>4, <1>5

\* The builder captures the authority it was told to expect.
LEMMA BuildLane ==
  ASSUME ChainInv, TxInv, LaneInv, NEW p \in Procs, Build(p)
  PROVE  LaneInv'
<1> DEFINE n == Len(gens) + 1
           pc == IF job[p].op = "render" THEN "inspect" ELSE "final"
           j == [job[p] EXCEPT !.cand = n, !.pc = pc]
<1>u. UNCHANGED <<setting, auth, pointer>> /\ job[p].pc = "build" /\ auth = job[p].cur
  BY DEF Build
<1>t. /\ job[p] \in Job /\ job \in [Procs -> Job] /\ Places(job[p]) /\ LaneJob(job[p])
      /\ gens \in Seq(Gen) /\ Len(gens) \in Nat /\ pointer \in 0 .. Len(gens)
      /\ auth \in Versions
  BY <1>u, LaneFacts DEF ChainInv, ChainType
<1>1. PICK g : gens' = Append(gens, g) /\ g.receipt = auth BY DEF Build
<1>2. /\ Len(gens') = n /\ gens'[n] = g
      /\ \A i \in 1 .. Len(gens) : gens'[i] = gens[i]
  BY <1>t, <1>1
<1>3. auth \in Capturable BY <1>t, <1>u, ManifestAssumption DEF LaneJob
<1>4. (\A i \in 1 .. Len(gens) : gens[i].receipt \in setting.versions \cap Capturable)'
  BY <1>t, <1>u, <1>1, <1>2, <1>3 DEF LaneInv
<1>5. \A q \in Procs : job'[q] = IF q = p THEN j ELSE job[q]
  BY <1>t DEF Build
<1>6. /\ j.pc = pc /\ j.op = job[p].op /\ j.want = job[p].want /\ j.first = job[p].first
      /\ j.cur = job[p].cur
  BY <1>t DEF Job
<1>7. Receipt(pointer)' = Receipt(pointer)
  BY <1>t, <1>u, <1>2 DEF Receipt
<1> HIDE DEF j
<1>8. LaneJob(job[p])'
  BY <1>t, <1>u, <1>5, <1>6, <1>7 DEF LaneJob, Based, Aimed, Fixed, Places
<1>9. \A q \in Procs \ {p} : LaneJob(job[q])'
  <2> TAKE q \in Procs \ {p}
  <2>1. job[q].pc = "idle" /\ job'[q] = job[q] BY <1>5, <1>u, Alone
  <2>2. LaneJob(job[q]) BY DEF LaneInv
  <2> QED BY <2>1, <2>2 DEF LaneJob, Based, Aimed, Fixed
<1> QED BY <1>u, <1>4, <1>8, <1>9 DEF LaneInv

\* Up to the swap.
LEMMA PromoteLane ==
  ASSUME ChainInv, TxInv, LaneInv, NEW p \in Procs,
         \/ Check(p) \/ Promote(p) \/ Reread(p) \/ PromotionFails(p) \/ Repair(p)
         \/ Close(p) \/ Replay(p)
  PROVE  LaneInv'
<1>u. UNCHANGED <<setting, auth, pointer, gens>>
  BY DEF Check, Promote, Reread, PromotionFails, Repair, Close, Replay
<1>i. job[p].pc \in {"check", "promote", "reread", "swap", "copy", "close", "replay"}
  BY DEF Check, Promote, Reread, PromotionFails, Repair, Close, Replay
<1>t. /\ job[p] \in Job /\ job \in [Procs -> Job] /\ Places(job[p]) /\ LaneJob(job[p])
  BY <1>i, LaneFacts
<1>1. CASE \E s : Return(p, s) BY <1>1, <1>u, ReturnLane
<1>2. CASE \E s : Conclude(p, s) BY <1>2, <1>u, ConcludeLane
<1>3. ASSUME NEW pc, Goto(p, pc),
             \/ job[p].pc = "check" /\ Promotable(job[p]) /\ pc = "promote"
             \/ job[p].pc \in {"promote", "reread"} /\ pc \in {"reread", "swap"}
             \/ job[p].pc = "replay" /\ pc = "prelim"
      PROVE  LaneInv'
  <2> DEFINE j == [job[p] EXCEPT !.pc = pc]
  <2>1. /\ j.pc = pc /\ j.op = job[p].op /\ j.first = job[p].first /\ j.cur = job[p].cur
        /\ j.cand = job[p].cand /\ j.want = job[p].want
    BY <1>t DEF Job
  <2>2. LaneJob(j)
    <3>1. CASE job[p].pc = "check"
      BY <1>t, <1>3, <2>1, <3>1 DEF LaneJob, Places, Promotable, Based, Aimed, Fixed
    <3>2. CASE job[p].pc \in {"promote", "reread"}
      BY <1>t, <1>3, <2>1, <3>2 DEF LaneJob, Based, Aimed, Fixed
    <3>3. CASE job[p].pc = "replay"
      BY <1>t, <1>3, <2>1, <3>3 DEF LaneJob, Places, Fixed
    <3> QED BY <1>3, <3>1, <3>2, <3>3
  <2> QED BY <1>u, <1>3, <2>2, GotoLane
<1>4. CASE Check(p) BY <1>2, <1>3, <1>4 DEF Check
<1>5. CASE Promote(p) \/ Reread(p) \/ PromotionFails(p) \/ Repair(p)
  BY <1>2, <1>3, <1>5 DEF Promote, Reread, PromotionFails, Repair
<1>6. CASE Close(p) \/ Replay(p) BY <1>1, <1>3, <1>6 DEF Close, Replay
<1> QED BY <1>4, <1>5, <1>6

\* The pointer moves: nobody else is inside a call.
LEMMA SwapLane ==
  ASSUME ChainInv, TxInv, LaneInv, NEW p \in Procs, Swap(p)
  PROVE  LaneInv'
<1> DEFINE j == [job[p] EXCEPT !.pc = "copy"]
<1>u. UNCHANGED <<setting, auth, gens>> /\ job[p].pc = "swap" BY DEF Swap
<1>t. job[p] \in Job /\ job \in [Procs -> Job] /\ LaneJob(job[p]) BY <1>u, LaneFacts
<1>1. \A q \in Procs : job'[q] = IF q = p THEN j ELSE job[q] BY <1>t DEF Swap, Goto
<1>2. j.pc = "copy" /\ j.first = job[p].first /\ j.cur = job[p].cur BY <1>t DEF Job
<1> HIDE DEF j
<1>3. LaneJob(job[p])' BY <1>t, <1>1, <1>2 DEF LaneJob, Based, Aimed, Fixed
<1>4. \A q \in Procs \ {p} : LaneJob(job[q])'
  <2> TAKE q \in Procs \ {p}
  <2>1. job[q].pc = "idle" /\ job'[q] = job[q] BY <1>1, <1>u, Alone
  <2>2. LaneJob(job[q]) BY DEF LaneInv
  <2> QED BY <2>1, <2>2 DEF LaneJob, Based, Aimed, Fixed
<1> QED BY <1>u, <1>3, <1>4 DEF LaneInv

LEMMA DieLane ==
  ASSUME ChainInv, LaneInv, NEW p \in Procs, Crash(p) \/ CrashWriting(p)
  PROVE  LaneInv'
<1>1. LaneJob(Idle) BY DEF LaneJob, Idle
<1>2. /\ job' = [job EXCEPT ![p] = Idle]
      /\ UNCHANGED <<setting, auth, pointer, gens>>
  BY DEF Crash, CrashWriting, Die
<1> QED BY <1>1, <1>2, LaneCall

LEMMA DriftsLane == ChainInv /\ LaneInv /\ Drifts => LaneInv'
<1> SUFFICES ASSUME ChainInv, LaneInv, Drifts PROVE LaneInv' OBVIOUS
<1>1. UNCHANGED <<setting, pointer, gens, job>> /\ auth' \in setting.versions BY DEF Drifts
<1> QED BY <1>1, LaneFrame DEF LaneInv

LEMMA LaneNext == ChainInv /\ TxInv /\ LaneInv /\ [Next]_vars => LaneInv'
<1> SUFFICES ASSUME ChainInv, TxInv, LaneInv, [Next]_vars PROVE LaneInv' OBVIOUS
<1>1. CASE UNCHANGED vars
  <2>1. UNCHANGED <<setting, auth, pointer, gens, job>> BY <1>1 DEF vars
  <2> QED BY <2>1, LaneFrame DEF LaneInv
<1>2. CASE Drifts BY <1>2, DriftsLane
<1>3. ASSUME NEW p \in Procs,
             \/ StartRecover(p) \/ Load(p) \/ ReadFirst(p) \/ ReadSecond(p) \/ ReadFails(p)
             \/ \E t \in OpTx, want \in {auth, setting.base} :
                  setting.operator /\ StartRender(p, t, want)
             \/ \E t \in OpTx, want \in {auth, setting.base}, c \in 1 .. Len(gens),
                   a \in Authorizations : StartApply(p, t, want, c, a)
             \/ BeginAutomatic(p) \/ RenderContext(p) \/ ApplyContext(p) \/ Build(p)
             \/ BuildFails(p) \/ Inspect(p) \/ WriteCandidate(p) \/ WriteReview(p)
             \/ KeepCandidate(p) \/ BeginOperator(p) \/ EarlyWriteFails(p)
             \/ Check(p) \/ Promote(p) \/ Reread(p) \/ Swap(p) \/ PromotionFails(p)
             \/ Repair(p) \/ Close(p) \/ Replay(p) \/ Crash(p) \/ CrashWriting(p)
      PROVE  LaneInv'
  <2>1. CASE \/ StartRecover(p)
             \/ \E t \in OpTx, want \in {auth, setting.base} : StartRender(p, t, want)
             \/ \E t \in OpTx, want \in {auth, setting.base}, c \in 1 .. Len(gens),
                   a \in Authorizations : StartApply(p, t, want, c, a)
    BY <2>1, StartLane
  <2>2. CASE Load(p) \/ ReadFirst(p) \/ ReadSecond(p) \/ ReadFails(p) BY <2>2, ReadLane
  <2>3. CASE Build(p) BY <2>3, BuildLane
  <2>4. CASE RenderContext(p) \/ Inspect(p) \/ WriteCandidate(p) \/ WriteReview(p)
    BY <2>4, RenderLane
  <2>5. CASE \/ BeginAutomatic(p) \/ ApplyContext(p) \/ BuildFails(p) \/ KeepCandidate(p)
             \/ BeginOperator(p) \/ EarlyWriteFails(p)
    BY <2>5, PrepareLane
  <2>6. CASE \/ Check(p) \/ Promote(p) \/ Reread(p) \/ PromotionFails(p) \/ Repair(p)
             \/ Close(p) \/ Replay(p)
    BY <2>6, PromoteLane
  <2>7. CASE Swap(p) BY <2>7, SwapLane
  <2>8. CASE Crash(p) \/ CrashWriting(p) BY <2>8, DieLane
  <2> QED BY <1>3, <2>1, <2>2, <2>3, <2>4, <2>5, <2>6, <2>7, <2>8
<1> QED BY <1>1, <1>2, <1>3 DEF Next

LEMMA LaneInvariance == Spec => [](ChainInv /\ TxInv /\ LaneInv)
BY ChainInit, TxInit, LaneInit, ChainNext, TxNext, LaneNext, PTL DEF Spec

-----------------------------------------------------------------------------
\* The receipt of the current manifest is the one of a captured authority.
LEMMA ReceiptKnown ==
  ASSUME ChainInv, LaneInv
  PROVE  Receipt(pointer) \in setting.versions \cap Capturable
<1>1. setting.base \in setting.versions \cap Capturable
  BY ManifestAssumption DEF ChainInv, ChainType, Capturable
<1>2. CASE pointer = 0 BY <1>1, <1>2 DEF Receipt
<1>3. CASE pointer # 0
  <2>1. pointer \in 1 .. Len(gens) BY <1>3 DEF ChainInv, ChainType
  <2> QED BY <1>3, <2>1 DEF LaneInv, Receipt
<1> QED BY <1>2, <1>3

\* Nothing but a swap moves the pointer.
LEMMA OnlySwap ==
  ASSUME [Next]_vars, pointer' # pointer
  PROVE  \E p \in Procs : Swap(p)
<1>1. CASE UNCHANGED vars BY <1>1 DEF vars
<1>2. CASE Drifts BY <1>2 DEF Drifts
<1>3. ASSUME NEW p \in Procs,
             \/ StartRecover(p)
             \/ \E t \in OpTx, want \in {auth, setting.base} :
                  setting.operator /\ StartRender(p, t, want)
             \/ \E t \in OpTx, want \in {auth, setting.base}, c \in 1 .. Len(gens),
                   a \in Authorizations : StartApply(p, t, want, c, a)
      PROVE  FALSE
  <2>1. \A r : Enter(p, r) => pointer' = pointer BY DEF Enter
  <2> QED BY <1>3, <2>1 DEF StartRecover, StartRender, StartApply
<1>4. ASSUME NEW p \in Procs,
             \/ Load(p) \/ ReadFirst(p) \/ ReadSecond(p) \/ ReadFails(p)
             \/ BeginAutomatic(p) \/ RenderContext(p) \/ ApplyContext(p) \/ Build(p)
             \/ BuildFails(p) \/ Inspect(p) \/ WriteCandidate(p) \/ WriteReview(p)
      PROVE  FALSE
  BY <1>4 DEF Load, ReadFirst, ReadSecond, ReadFails, BeginAutomatic, RenderContext,
              ApplyContext, Build, BuildFails, Inspect, WriteCandidate, WriteReview
<1>5. ASSUME NEW p \in Procs,
             \/ KeepCandidate(p) \/ BeginOperator(p) \/ EarlyWriteFails(p)
             \/ Check(p) \/ Promote(p) \/ Reread(p) \/ PromotionFails(p)
             \/ Repair(p) \/ Close(p) \/ Replay(p) \/ Crash(p) \/ CrashWriting(p)
      PROVE  FALSE
  BY <1>5 DEF KeepCandidate, BeginOperator, EarlyWriteFails, Check, Promote, Reread,
              PromotionFails, Repair, Close, Replay, Crash, CrashWriting, Die
<1> QED BY <1>1, <1>2, <1>3, <1>4, <1>5 DEF Next

\* attempt_recovery: whatever the live authority does between its readings, and
\* whichever processes overlap or die, a generation committed without a human
\* carries a receipt some lane recognises as an update of the one it replaces,
\* and offers no identifier more, no older version and no other publisher.
THEOREM NoWideningAlways == Spec => NoWidening
<1>1. ASSUME ChainInv, TxInv, LaneInv, [Next]_vars, pointer' # pointer,
             gens[pointer'].op = "recover"
      PROVE  /\ <<Receipt(pointer), Receipt(pointer')>> \in Recognized
             /\ gens[pointer'].same
             /\ Narrower(Disks[Receipt(pointer)], Disks[Receipt(pointer')])
  <2>1. PICK p \in Procs : Swap(p) BY <1>1, OnlySwap
  <2> DEFINE c == job[p].cand
             old == Receipt(pointer)
             new == Receipt(c)
  <2>2. job[p].pc = "swap" /\ pointer' = c BY <2>1 DEF Swap
  <2>3. /\ JobOk(job[p], Len(gens)) /\ job[p].op \in Operations /\ Places(job[p])
        /\ LaneJob(job[p])
    BY <1>1, <2>2, LaneFacts
  <2>4. c \in 1 .. Len(gens) BY <2>2, <2>3 DEF JobOk, HasCandidate
  <2>5. new = gens[c].receipt
    <3>1. c # 0 BY <1>1, <2>4 DEF ChainInv, ChainType
    <3> QED BY <3>1 DEF Receipt
  <2>6. job[p].op = "recover"
    BY <1>1, <2>2, <2>3 DEF LaneJob, Fixed, Places, Operations
  <2>7. <<old, new>> \in Recognized /\ gens[c].same
    BY <2>2, <2>3, <2>5, <2>6 DEF LaneJob, Based, Aimed, Fixed
  <2>8. old \in Versions /\ new \in Versions
    BY <1>1, <2>4, <2>5, ReceiptKnown DEF LaneInv, Capturable
  <2> HIDE DEF old, new, c
  <2>9. Lane(Disks[old], Disks[new]) # "none" BY <2>7 DEF Recognized
  <2>10. Shaped(Disks[old]) /\ Shaped(Disks[new])
    BY <2>8, ManifestAssumption DEF WellFormed
  <2>11. Narrower(Disks[old], Disks[new]) BY <2>9, <2>10, LaneNarrows
  <2> QED BY <2>2, <2>7, <2>11 DEF old, new
<1>2. ChainInv /\ TxInv /\ LaneInv /\ [Next]_vars
        => [pointer' # pointer /\ gens[pointer'].op = "recover"
              => /\ <<Receipt(pointer), Receipt(pointer')>> \in Recognized
                 /\ gens[pointer'].same
                 /\ Narrower(Disks[Receipt(pointer)], Disks[Receipt(pointer')])]_vars
  BY <1>1
<1> QED BY <1>2, LaneInvariance, PTL DEF Spec, NoWidening

-----------------------------------------------------------------------------
\* load_active_capabilities: what is served from a manifest whose authority has
\* drifted, captured or not, is what the manifest was built from.
LEMMA ServedIntact ==
  ASSUME NEW p, NEW d, WellFormed(p), Captured(p), NEW id \in Served(p, d)
  PROVE  Intact(p, d, id)
<1>1. ~Unscoped(p, d) /\ id \in Offered(p) /\ id \notin Quarantined(p, d)
  BY DEF Served
<1>2. p.rest = d.rest
  <2>1. "rest" \notin Mismatches(p, d) BY <1>1 DEF Unscoped, Recoverable
  <2> QED BY <2>1 DEF Mismatches
\* A package of which nothing changed is cached as it was.
<1>3. ASSUME NEW k \in Cached(p), \A j \in ChangedPackages(p, d) : Name(j) # Name(k)
      PROVE  /\ {j \in Cached(d) : Name(j) = Name(k)} = {j \in Cached(p) : Name(j) = Name(k)}
             /\ p.cache[k].content = d.cache[k].content
  <2>1. \A j \in Cached(p) \cup Cached(d) : Name(j) = Name(k) =>
          j \in Cached(p) /\ j \in Cached(d) /\ p.cache[j].content = d.cache[j].content
    BY <1>3 DEF ChangedPackages, ChangedKeys, Rows
  <2> QED BY <2>1
<1>4. \A leaf \in DOMAIN p.config : leaf \notin ChangedLeaves(p, d) =>
        leaf \in DOMAIN d.config /\ d.config[leaf] = p.config[leaf]
  BY DEF ChangedLeaves, ChangedKeys
<1>5. CASE ~BundledRuntime(p, d)
  <2>1. \A k \in Cached(p) : id \in Surface(p, k) =>
          \A j \in ChangedPackages(p, d) : Name(j) # Name(k)
    BY <1>1, <1>5 DEF Quarantined, SamePlugin
  <2>2. \A leaf \in ChangedLeaves(p, d) : id \notin Control(p, leaf).ids
    BY <1>1, <1>5 DEF Quarantined
  <2> QED BY <1>2, <1>3, <1>4, <2>1, <2>2 DEF Intact
<1>6. CASE BundledRuntime(p, d)
  <2>1. \A leaf \in ChangedLeaves(p, d) : Control(p, leaf).kind # "plugin"
    BY <1>6 DEF BundledRuntime
  <2>2. ASSUME NEW k \in Cached(p), id \in Surface(p, k),
               NEW j \in ChangedPackages(p, d), Name(j) = Name(k)
        PROVE  Vouched(p, d, Name(k)) /\ id \in SurfaceOf(d, Name(k))
    <3> DEFINE n == Name(k)
               was == BundlePackage(p, n)
               is == BundlePackage(d, n)
    <3>1. n \in Rebundled(p, d) BY <1>6, <2>2 DEF BundledRuntime
    <3>2. /\ n \in DOMAIN p.bundle.packages /\ n \in DOMAIN d.bundle.packages
          /\ was \in Cached(p) /\ is \in Cached(d)
          /\ d.cache[is].content = d.bundle.packages[n].content
          /\ Surface(d, is) = Surface(p, was)
      BY <1>6, <3>1 DEF BundledRuntime, Rebundled, BundleMatches, IsCached
    <3>3. /\ Family(was) = "bundled" /\ Name(was) = n
          /\ Version(was) = p.bundle.packages[n].version
          /\ Name(is) = n
      BY DEF BundlePackage, Family, Name, Version
    <3>4. Family(k) = "bundled" BY <3>2, <3>3 DEF WellFormed
    <3>5. Version(k) = p.bundle.packages[n].version
      BY <3>4 DEF Captured, BundleCoherent, Of
    <3>6. k = was BY <3>4, <3>5 DEF WellFormed, Shaped, BundlePackage
    <3>7. id \in Surface(d, is) BY <2>2, <3>2, <3>6
    <3>8. Vouched(p, d, n) BY <3>2 DEF Vouched, BundlePackage
    <3> QED BY <3>2, <3>3, <3>7, <3>8 DEF SurfaceOf
  <2>3. \A leaf \in DOMAIN p.config :
          Control(p, leaf).kind = "plugin" => leaf \notin ChangedLeaves(p, d)
    BY <2>1
  <2> QED BY <1>2, <1>3, <1>4, <2>2, <2>3 DEF Intact
<1> QED BY <1>5, <1>6

\* load_active_capabilities, with attempt_recovery and the operators at work:
\* whatever the live authority has become, captured or not, an entry is served
\* only if none of its packages, sibling versions and toggles moved since the
\* current manifest was built, or the first-party tree vouches for them.
THEOREM ServedUnchangedAlways == Spec => []ServedUnchanged
<1>1. ASSUME ChainInv, LaneInv PROVE ServedUnchanged
  <2> DEFINE v == Receipt(pointer)
  <2>1. v \in setting.versions \cap Capturable BY <1>1, ReceiptKnown
  <2>2. auth \in setting.versions /\ setting \in Settings
    BY <1>1 DEF ChainInv, ChainType, LaneInv
  <2>3. <<v, auth>> \in Pairs BY <2>1, <2>2 DEF Pairs
  <2>4. Captured(Disks[v]) /\ WellFormed(Disks[v])
    BY <2>1, ManifestAssumption DEF Capturable
  <2> HIDE DEF v
  <2>5. \A id \in Served(Disks[v], Disks[auth]) : Intact(Disks[v], Disks[auth], id)
    BY <2>4, ServedIntact
  <2>6. <<v, auth>> \in TruthfulPairs BY <2>3, <2>5 DEF TruthfulPairs
  <2> QED BY <2>6 DEF v, ServedUnchanged
<1>2. ChainInv /\ LaneInv => ServedUnchanged BY <1>1
<1> QED BY <1>2, LaneInvariance, PTL
===============================================================================
