------------------------------ MODULE Manifest ------------------------------
(***************************************************************************)
(* The authority manifest of the capability router, its immutable          *)
(* generations and the transactions that promote one                       *)
(* (src/capability-routing/reference-runtime/                              *)
(* capability_manifest_recovery.py).  The live authority (configuration,   *)
(* plugin cache, runtimes) changes under the program's feet; three         *)
(* operations bring the manifest back in step with it: attempt_recovery    *)
(* rebuilds it for a recognised update, render_operator_rebaseline_        *)
(* candidate prepares bytes for a human to review, operator_rebaseline     *)
(* applies the reviewed bytes.  They exclude each other by a named mutex,  *)
(* and commit by swapping one pointer file.                                *)
(*                                                                         *)
(* A receipt of the live authority is a version; a candidate's bytes (and  *)
(* with them its hash and its generation identifier) are a number, 0 being *)
(* "none" or the manifest that precedes the first generation.  Files are   *)
(* written in the code's order; a process may die at any step, inside the  *)
(* write of an immutable file too, which leaves the file torn.             *)
(***************************************************************************)
EXTENDS Drift, Sequences

CONSTANTS
  Procs,          \* processes that run the three operations
  OpTx,           \* transaction identifiers an operator may name
  AutoTx,         \* the fresh identifiers attempt_recovery draws from
  Authorizations, \* authorization identifiers an operator may present
  Disks,          \* the live authorities, by version
  Settings,       \* the settings explored, see below
  MaxBuilds,      \* bound: candidates the builder produces
  None            \* no process, no version, no transaction

Versions == DOMAIN Disks

\* A setting: the authority the first manifest was built for and whether it is
\* older than the generation contract, the authorities there can be, whether
\* operators are at work, and two bounds: the changes of the authority, and the
\* crashes, failed writes, failed builds and denials.
\* No two authorities have one receipt, and a manifest was built for a captured
\* one.
ASSUME ManifestAssumption ==
  /\ \A v \in Versions : WellFormed(Disks[v])
  /\ \A s \in Settings :
       /\ s.base \in s.versions
       /\ Captured(Disks[s.base])
       /\ s.versions \subseteq Versions
       /\ s.legacy \in BOOLEAN /\ s.operator \in BOOLEAN
       /\ s.drifts \in Nat
       /\ s.faults \in Nat
  /\ \A v, w \in Versions : Snapshot(Disks[v]) = Snapshot(Disks[w]) => v = w
  /\ OpTx \cap AutoTx = {}
  /\ MaxBuilds \in Nat
  /\ None \notin Procs \cup OpTx \cup AutoTx \cup Versions

VARIABLES
  setting,    \* the setting, chosen once
  auth,       \* the live authority
  gens,       \* what each candidate built so far contains
  pointer,    \* current-generation.json: the generation named, 0 if absent
  copy,       \* active-capabilities.json, the compatibility copy
  genfile,    \* generations/generation-<id>.json of each candidate
  begin,      \* <tx>.begin.json
  terminal,   \* <tx>.terminal.json
  txcand,     \* <tx>.candidate.json
  review,     \* the review directory of an operator transaction
  mutex,      \* the holder of the named mutex
  abandoned,  \* its holder died; the next one is told so
  job,        \* what each process is doing
  answer,     \* what the last finished call returned
  log,        \* history: the generations the pointer was swapped to
  drifts,     \* changes of the authority so far
  faults      \* faults so far

vars == <<setting, auth, gens, pointer, copy, genfile, begin, terminal, txcand, review,
          mutex, abandoned, job, answer, log, drifts, faults>>

Tx == OpTx \cup AutoTx
Builds == 1 .. MaxBuilds
Torn == -1                \* a candidate file cut short by a crash

Idle == [op |-> "none", pc |-> "idle", tx |-> None, want |-> None, cand |-> 0,
         authz |-> None, first |-> None, cur |-> None, prev |-> 0,
         status |-> "error"]
NoBegin == [st |-> "none", prev |-> 0, snap |-> None, cand |-> 0, authz |-> None]
NoTerminal == [st |-> "none", status |-> "error", gen |-> 0]
NoReview == [cfile |-> 0, rfile |-> "none", snap |-> None, cand |-> 0, prev |-> 0]
NoAnswer == [tx |-> None, status |-> "none", cand |-> 0, authz |-> None]

Init ==
  /\ setting \in Settings
  /\ auth = setting.base
  /\ gens = << >>
  /\ pointer = 0
  /\ copy = 0
  /\ genfile = [c \in Builds |-> "none"]
  /\ begin = [t \in Tx |-> NoBegin]
  /\ terminal = [t \in Tx |-> NoTerminal]
  /\ txcand = [t \in OpTx |-> 0]
  /\ review = [t \in OpTx |-> NoReview]
  /\ mutex = None
  /\ abandoned = FALSE
  /\ job = [p \in Procs |-> Idle]
  /\ answer = NoAnswer
  /\ log = << >>
  /\ drifts = 0
  /\ faults = 0

-----------------------------------------------------------------------------
(* What the loader reads.                                                  *)

\* What Drift says of two authorities of one setting, evaluated once.
Pairs == UNION {s.versions \X s.versions : s \in Settings}
Capturable == {v \in Versions : Captured(Disks[v])}
Recognized == {e \in Pairs : Lane(Disks[e[1]], Disks[e[2]]) # "none"}
FreshPairs == {e \in Pairs : Fresh(Disks[e[1]], Disks[e[2]])}
RecoverablePairs == {e \in Pairs : Recoverable(Disks[e[1]], Disks[e[2]])}

\* The authority receipt a manifest carries.
Receipt(c) == IF c = 0 THEN setting.base ELSE gens[c].receipt

\* A manifest that declares the generation contract is loaded only where the
\* pointer names it; one that does not is read as it is.
Loadable == pointer # 0 \/ setting.legacy

\* load_active_capabilities calls the manifest fresh.
IsFresh(c) == <<Receipt(c), auth>> \in FreshPairs

\* _generation_context: what a new generation must follow, and its number.
SequenceOf(c) == IF c = 0 THEN 0 ELSE gens[c].seq
NextSequence == SequenceOf(pointer) + 1

\* mutant: the update is not classified again on the second stable read.
Acceptable_Once(j, v) ==
  IF j.op = "recover" THEN j.pc = "current" \/ <<j.want, v>> \in Recognized
  ELSE v = j.want

\* What a stable reading must be for the operation to go on: a recognised
\* update of the baseline, or the snapshot the operator named.
Acceptable(j, v) ==
  IF j.op = "recover" THEN <<j.want, v>> \in Recognized ELSE v = j.want

-----------------------------------------------------------------------------
(* Ends of a call.                                                         *)

\* The call returns: the mutex is released.
Return(p, status) ==
  /\ answer' = IF status = "rebuilt"
               THEN [tx |-> job[p].tx, status |-> status, cand |-> job[p].cand,
                     authz |-> job[p].authz]
               ELSE [NoAnswer EXCEPT !.status = status]
  /\ job' = [job EXCEPT ![p] = Idle]
  /\ mutex' = None

Goto(p, pc) ==
  /\ job' = [job EXCEPT ![p].pc = pc]
  /\ UNCHANGED <<mutex, answer>>

\* A begun transaction ends: its terminal is still to be written.
Conclude(p, status) ==
  /\ job' = [job EXCEPT ![p].pc = "close", ![p].status = status]
  /\ UNCHANGED <<mutex, answer>>

\* Before a transaction has begun a failure is answered at once.
Begun(j) == /\ j.op # "render"
            /\ j.pc \in {"build", "final", "check", "promote", "reread", "swap"}
Stop(p, status) ==
  IF Begun(job[p]) THEN Conclude(p, status) ELSE Return(p, status)

Fault == /\ faults < setting.faults
         /\ faults' = faults + 1

-----------------------------------------------------------------------------
(* The mutex, and the first lines of each operation.                       *)

MutexFree == mutex = None

\* WindowsNamedMutex: an abandoned one denies the call (and is released by
\* its exit), a busy one makes it a no-op, otherwise the call owns it.
Enter(p, request) ==
  /\ job[p] = Idle
  /\ \/ /\ abandoned
        /\ abandoned' = FALSE
        /\ answer' = [NoAnswer EXCEPT !.status = "denied"]
        /\ UNCHANGED <<mutex, job>>
     \/ /\ ~abandoned
        /\ ~MutexFree
        /\ answer' = [NoAnswer EXCEPT !.status = "noop"]
        /\ UNCHANGED <<mutex, job, abandoned>>
     \/ /\ ~abandoned
        /\ MutexFree
        /\ mutex' = p
        /\ job' = [job EXCEPT ![p] = request]
        /\ answer' = NoAnswer
        /\ UNCHANGED abandoned
  /\ UNCHANGED <<setting, auth, gens, pointer, copy, genfile, begin, terminal, txcand,
                 review, log, drifts, faults>>

StartRecover(p) ==
  Enter(p, [Idle EXCEPT !.op = "recover", !.pc = "load"])

StartRender(p, t, want) ==
  Enter(p, [Idle EXCEPT !.op = "render", !.pc = "prelim", !.tx = t, !.want = want])

\* The operator passes a snapshot, a candidate's hash and an authorization;
\* only the hash of something that was built can ever match.
StartApply(p, t, want, c, a) ==
  Enter(p, [Idle EXCEPT !.op = "apply", !.pc = "replay", !.tx = t,
                        !.want = want, !.cand = c, !.authz = a])

\* attempt_recovery: nothing to do, or a drift it may look at; the receipt of
\* the manifest is the baseline of the classification.
Load(p) ==
  LET base == Receipt(pointer) IN
  /\ job[p].pc = "load"
  /\ \/ /\ Loadable /\ IsFresh(pointer)
        /\ Return(p, "noop")
     \/ /\ Loadable => ~IsFresh(pointer) /\ <<base, auth>> \notin RecoverablePairs
        /\ Return(p, "denied")
     \/ /\ Loadable /\ ~IsFresh(pointer)
        /\ <<base, auth>> \in RecoverablePairs
        /\ job' = [job EXCEPT ![p].pc = "prelim", ![p].want = base]
        /\ UNCHANGED <<mutex, answer>>
  /\ UNCHANGED <<setting, auth, gens, pointer, copy, genfile, begin, terminal, txcand,
                 review, abandoned, log, drifts, faults>>

-----------------------------------------------------------------------------
(* Stable readings of the live authority: two equal ones, some time apart. *)

Reading == {"prelim", "current", "final"}

\* stable_two_read, the first reading; an authority that cannot be captured
\* ends the call.
ReadFirst(p) ==
  /\ job[p].pc \in Reading
  /\ job[p].first = None
  /\ IF auth \in Capturable
     THEN /\ job' = [job EXCEPT ![p].first = auth]
          /\ UNCHANGED <<mutex, answer>>
     ELSE Stop(p, "denied")
  /\ UNCHANGED <<setting, auth, gens, pointer, copy, genfile, begin, terminal, txcand,
                 review, abandoned, log, drifts, faults>>

\* What follows a stable reading v that the operation accepts.
Accepted(p, v) ==
  LET j == job[p]
      next == CASE j.pc = "prelim" -> "current"
                [] j.pc = "current" -> "context"
                [] j.pc = "final" /\ j.op = "recover" -> "check"
                [] j.pc = "final" /\ j.op = "render" -> "record"
                [] j.pc = "final" /\ j.op = "apply" -> "promote"
  IN /\ job' = [job EXCEPT ![p].pc = next, ![p].first = None, ![p].cur = v]
     /\ UNCHANGED <<mutex, answer>>

\* stable_two_read, the second reading, and what each operation asks of the
\* result: the last reading must repeat the one the work was done for.
ReadSecond(p) ==
  LET j == job[p]
      fits == j.first = auth /\ IF j.pc = "final" THEN auth = j.cur
                                ELSE Acceptable(j, auth)
  IN
  /\ j.pc \in Reading
  /\ j.first # None
  /\ IF fits THEN Accepted(p, auth) ELSE Stop(p, "denied")
  /\ UNCHANGED <<setting, auth, gens, pointer, copy, genfile, begin, terminal, txcand,
                 review, abandoned, log, drifts, faults>>

\* The authority does not become quiet, the inventories cannot be prepared, or
\* a snapshot cannot be captured.
ReadFails(p) ==
  /\ job[p].pc \in Reading
  /\ Fault
  /\ \E status \in {"denied", "error"} : Stop(p, status)
  /\ UNCHANGED <<setting, auth, gens, pointer, copy, genfile, begin, terminal, txcand,
                 review, abandoned, log, drifts>>

-----------------------------------------------------------------------------
(* The transaction's context, its candidate and its review.                *)

\* What _validate_operator_review asks of the review directory of t: a receipt
\* that binds the snapshot, the candidate and the predecessor, the candidate's
\* bytes, and a candidate built for exactly this transaction and still fresh.
ValidReview(t, snap, c, prev) ==
  /\ review[t].rfile = "done"
  /\ review[t].snap = snap
  /\ review[t].cand = c
  /\ review[t].prev = prev
  /\ review[t].cfile = c
  /\ gens[c].op = "render"
  /\ gens[c].tx = t
  /\ gens[c].prev = prev
  /\ gens[c].seq = SequenceOf(prev) + 1
  /\ gens[c].receipt = snap
  /\ IsFresh(c)

\* attempt_recovery reads the generation context and writes the begin record
\* of a fresh transaction.
BeginAutomatic(p) ==
  LET unused == {t \in AutoTx : begin[t] = NoBegin}
      t == CHOOSE t \in unused : TRUE
  IN
  /\ job[p].op = "recover"
  /\ job[p].pc = "context"
  /\ unused # {}
  /\ begin' = [begin EXCEPT ![t] = [NoBegin EXCEPT !.st = "done", !.prev = pointer,
                                                   !.snap = job[p].cur]]
  /\ job' = [job EXCEPT ![p].pc = "build", ![p].tx = t, ![p].prev = pointer]
  /\ UNCHANGED <<setting, auth, gens, pointer, copy, genfile, terminal, txcand, review,
                 mutex, abandoned, answer, log, drifts, faults>>

\* render: what was rendered before is returned if it is complete and still
\* valid; otherwise a candidate is built.
RenderContext(p) ==
  LET j == job[p]
      r == review[j.tx]
  IN
  /\ j.op = "render"
  /\ j.pc = "context"
  /\ IF r = NoReview
     THEN /\ job' = [job EXCEPT ![p].pc = "build", ![p].prev = pointer]
          /\ UNCHANGED <<mutex, answer>>
     ELSE Return(p, IF r.cfile > 0 /\ ValidReview(j.tx, j.want, r.cand, pointer)
                    THEN "rendered" ELSE "error")
  /\ UNCHANGED <<setting, auth, gens, pointer, copy, genfile, begin, terminal, txcand,
                 review, abandoned, log, drifts, faults>>

\* apply: the reviewed bytes must be exactly what the operator names.
ApplyContext(p) ==
  LET j == job[p] IN
  /\ j.op = "apply"
  /\ j.pc = "context"
  /\ IF ValidReview(j.tx, j.want, j.cand, pointer)
     THEN /\ job' = [job EXCEPT ![p].pc = "txcand", ![p].prev = pointer]
          /\ UNCHANGED <<mutex, answer>>
     ELSE Return(p, "denied")
  /\ UNCHANGED <<setting, auth, gens, pointer, copy, genfile, begin, terminal, txcand,
                 review, abandoned, log, drifts, faults>>

\* run_builder_candidate: the builder captures the live authority itself and
\* refuses another snapshot than the expected one.  "same": the entries differ
\* from the baseline's only as the lane allows.
Build(p) ==
  LET j == job[p] IN
  /\ j.pc = "build"
  /\ Len(gens) < MaxBuilds
  /\ \E same \in BOOLEAN :
       /\ same \/ j.op = "recover"
       /\ gens' = Append(gens, [op |-> j.op, tx |-> j.tx, prev |-> j.prev,
                                seq |-> SequenceOf(j.prev) + 1, receipt |-> auth,
                                same |-> same])
  /\ auth = j.cur
  /\ job' = [job EXCEPT ![p].cand = Len(gens) + 1,
                        ![p].pc = IF j.op = "render" THEN "inspect" ELSE "final"]
  /\ UNCHANGED <<setting, auth, pointer, copy, genfile, begin, terminal, txcand, review,
                 mutex, abandoned, answer, log, drifts, faults>>

\* The builder fails, times out, or finds another authority than expected.
BuildFails(p) ==
  /\ job[p].pc = "build"
  /\ IF auth = job[p].cur THEN Fault ELSE UNCHANGED faults
  /\ Stop(p, "error")
  /\ UNCHANGED <<setting, auth, gens, pointer, copy, genfile, begin, terminal, txcand,
                 review, abandoned, log, drifts>>

\* render: the candidate is loaded from a temporary file before it is kept.
Inspect(p) ==
  /\ job[p].pc = "inspect"
  /\ IF IsFresh(job[p].cand) /\ gens[job[p].cand].receipt = job[p].cur
     THEN Goto(p, "final") ELSE Return(p, "denied")
  /\ UNCHANGED <<setting, auth, gens, pointer, copy, genfile, begin, terminal, txcand,
                 review, abandoned, log, drifts, faults>>

\* render: candidate.json, then review.json, each written once.
WriteCandidate(p) ==
  /\ job[p].pc = "record"
  /\ review' = [review EXCEPT ![job[p].tx].cfile = job[p].cand]
  /\ Goto(p, "receipt")
  /\ UNCHANGED <<setting, auth, gens, pointer, copy, genfile, begin, terminal, txcand,
                 abandoned, log, drifts, faults>>

WriteReview(p) ==
  LET j == job[p] IN
  /\ j.pc = "receipt"
  /\ review' = [review EXCEPT ![j.tx] =
       [@ EXCEPT !.rfile = "done", !.snap = j.want, !.cand = j.cand, !.prev = j.prev]]
  /\ Return(p, "rendered")
  /\ UNCHANGED <<setting, auth, gens, pointer, copy, genfile, begin, terminal, txcand,
                 abandoned, log, drifts, faults>>

\* apply: the reviewed bytes are copied beside the transaction, once; a torn or
\* different copy of an earlier attempt refuses the write.
KeepCandidate(p) ==
  LET j == job[p] IN
  /\ j.pc = "txcand"
  /\ IF txcand[j.tx] \in {0, j.cand}
     THEN /\ txcand' = [txcand EXCEPT ![j.tx] = j.cand]
          /\ Goto(p, "begin")
     ELSE /\ Return(p, "error")
          /\ UNCHANGED txcand
  /\ UNCHANGED <<setting, auth, gens, pointer, copy, genfile, begin, terminal, review,
                 abandoned, log, drifts, faults>>

BeginOperator(p) ==
  LET j == job[p] IN
  /\ j.pc = "begin"
  /\ begin' = [begin EXCEPT ![j.tx] =
       [st |-> "done", prev |-> j.prev, snap |-> j.want, cand |-> j.cand,
        authz |-> j.authz]]
  /\ Goto(p, "final")
  /\ UNCHANGED <<setting, auth, gens, pointer, copy, genfile, terminal, txcand, review,
                 abandoned, log, drifts, faults>>

\* A write before the transaction has begun fails: nothing is left behind.
EarlyWriteFails(p) ==
  /\ \/ job[p].pc \in {"record", "receipt", "txcand", "begin"}
     \/ job[p].pc = "context" /\ job[p].op = "recover"
  /\ Fault
  /\ Return(p, "error")
  /\ UNCHANGED <<setting, auth, gens, pointer, copy, genfile, begin, terminal, txcand,
                 review, abandoned, log, drifts>>

-----------------------------------------------------------------------------
(* Promotion.                                                              *)

\* attempt_recovery, after the last reading: the candidate carries the receipt
\* it was built for, is fresh now, and changes what its lane may change.
Promotable(j) ==
  gens[j.cand].receipt = j.cur /\ IsFresh(j.cand) /\ gens[j.cand].same

Check(p) ==
  /\ job[p].pc = "check"
  /\ IF Promotable(job[p]) THEN Goto(p, "promote") ELSE Conclude(p, "denied")
  /\ UNCHANGED <<setting, auth, gens, pointer, copy, genfile, begin, terminal, txcand,
                 review, abandoned, log, drifts, faults>>

\* mutant: the generation's file is left to be written after the swap.
Promote_Late(p) ==
  LET j == job[p]
      c == j.cand
  IN
  /\ j.pc = "promote"
  /\ IF /\ pointer = j.prev
        /\ gens[c].prev = j.prev
        /\ gens[c].seq = NextSequence
        /\ gens[c].tx = j.tx
        /\ j.op = "apply" => txcand[j.tx] = c
        /\ genfile[c] # "torn"
     THEN Goto(p, "reread")
     ELSE Conclude(p, "error")
  /\ UNCHANGED <<setting, auth, gens, pointer, copy, genfile, begin, terminal, txcand, review,
                 abandoned, log, drifts, faults>>

\* promote_manifest_generation up to the immutable generation file: the
\* compare-and-swap of the predecessor, the sequence, the reviewed bytes.
Promote(p) ==
  LET j == job[p]
      c == j.cand
  IN
  /\ j.pc = "promote"
  /\ IF /\ pointer = j.prev
        /\ gens[c].prev = j.prev
        /\ gens[c].seq = NextSequence
        /\ gens[c].tx = j.tx
        /\ j.op = "apply" => txcand[j.tx] = c
        /\ genfile[c] # "torn"
     THEN /\ genfile' = [genfile EXCEPT ![c] = "done"]
          /\ Goto(p, "reread")
     ELSE /\ Conclude(p, "error")
          /\ UNCHANGED genfile
  /\ UNCHANGED <<setting, auth, gens, pointer, copy, begin, terminal, txcand, review,
                 abandoned, log, drifts, faults>>

\* The pointer is read again just before it is replaced.
Reread(p) ==
  /\ job[p].pc = "reread"
  /\ IF pointer = job[p].prev THEN Goto(p, "swap") ELSE Conclude(p, "error")
  /\ UNCHANGED <<setting, auth, gens, pointer, copy, genfile, begin, terminal, txcand,
                 review, abandoned, log, drifts, faults>>

\* The one commit point.
Swap(p) ==
  /\ job[p].pc = "swap"
  /\ pointer' = job[p].cand
  /\ log' = Append(log, job[p].cand)
  /\ Goto(p, "copy")
  /\ UNCHANGED <<setting, auth, gens, copy, genfile, begin, terminal, txcand, review,
                 abandoned, drifts, faults>>

\* A write of the promotion, or the swap, fails.
PromotionFails(p) ==
  /\ job[p].pc \in {"promote", "swap"}
  /\ Fault
  /\ Conclude(p, "error")
  /\ UNCHANGED <<setting, auth, gens, pointer, copy, genfile, begin, terminal, txcand,
                 review, abandoned, log, drifts>>

\* mutant: an installed manifest that is not fresh denies the transaction.
Validated_Strict(c) == IF IsFresh(c) THEN "committed" ELSE "denied"

\* Whatever the validation of the installed manifest finds, and whatever
\* becomes of the compatibility copy: the transaction is committed.
Validated(c) == "committed"

\* The compatibility copy is repaired as far as possible, then the installed
\* manifest is validated.  attempt_recovery does not catch every error the
\* validation can raise: its commit is then recorded as an error.
Repair(p) ==
  /\ job[p].pc = "copy"
  /\ \/ /\ copy' = job[p].cand /\ UNCHANGED faults
        /\ Conclude(p, Validated(job[p].cand))
     \/ /\ Fault /\ UNCHANGED copy
        /\ Conclude(p, Validated(job[p].cand))
     \/ /\ job[p].op = "recover"
        /\ Fault /\ copy' = job[p].cand
        /\ Conclude(p, "error")
  /\ UNCHANGED <<setting, auth, gens, pointer, genfile, begin, terminal, txcand, review,
                 abandoned, log, drifts>>

Reported(status) == IF status = "committed" THEN "rebuilt" ELSE status

\* The finally clause: the terminal record, and the answer.  When the record
\* cannot be written a commit is still a commit, anything else an error.
Close(p) ==
  LET j == job[p] IN
  /\ j.pc = "close"
  /\ \/ /\ terminal' = [terminal EXCEPT ![j.tx] =
             [st |-> "done", status |-> j.status,
              gen |-> IF pointer = j.cand THEN j.cand ELSE 0]]
        /\ Return(p, Reported(j.status))
        /\ UNCHANGED faults
     \/ /\ Fault
        /\ Return(p, IF j.status = "committed" THEN "rebuilt" ELSE "error")
        /\ UNCHANGED terminal
  /\ UNCHANGED <<setting, auth, gens, pointer, copy, genfile, begin, txcand, review,
                 abandoned, log, drifts>>

-----------------------------------------------------------------------------
(* Replay of an operator transaction.                                      *)

\* mutant: the authorization of a replay is not compared.
Replays_Any(j) == /\ begin[j.tx].snap = j.want
                  /\ begin[j.tx].cand = j.cand

\* The call repeats the one that began the transaction.
Replays(j) == /\ begin[j.tx].snap = j.want
              /\ begin[j.tx].cand = j.cand
              /\ begin[j.tx].authz = j.authz

\* _committed_generation_matches_transaction: the pointer still names the
\* generation of this transaction, and it is fresh.
Reconciled(t) ==
  /\ pointer # 0
  /\ gens[pointer].tx = t
  /\ terminal[t].gen \in {0, pointer}
  /\ gens[pointer].prev = begin[t].prev
  /\ gens[pointer].receipt = begin[t].snap
  /\ pointer = begin[t].cand
  /\ IsFresh(pointer)

\* What a terminal that exists answers to a replay.
RecordedAnswer(t) ==
  CASE Reconciled(t) -> "rebuilt"
    [] ~Reconciled(t) /\ terminal[t].status = "committed" -> "error"
    [] OTHER -> terminal[t].status

\* replay_operator_transaction: no begin, another one, a recorded end, or an
\* interrupted transaction, which is closed by what the pointer says.  A record
\* cut short is read as an empty one, which conflicts with the call.
Replay(p) ==
  LET j == job[p]
      t == j.tx
      repaired == IF Reconciled(t) THEN pointer ELSE copy
      ended == IF Reconciled(t) THEN "committed" ELSE "error"
  IN
  /\ j.pc = "replay"
  /\ \/ /\ begin[t].st = "none"
        /\ Goto(p, "prelim")
        /\ UNCHANGED <<terminal, copy>>
     \/ /\ begin[t].st # "none"
        /\ begin[t].st = "done" /\ Replays(j) => terminal[t].st = "torn"
        /\ Return(p, "denied")
        /\ UNCHANGED <<terminal, copy>>
     \/ /\ begin[t].st = "done"
        /\ Replays(j)
        /\ terminal[t].st = "done"
        /\ copy' = repaired
        /\ Return(p, RecordedAnswer(t))
        /\ UNCHANGED terminal
     \/ /\ begin[t].st = "done"
        /\ Replays(j)
        /\ terminal[t].st = "none"
        /\ copy' = repaired
        /\ terminal' = [terminal EXCEPT ![t] =
             [st |-> "done", status |-> ended,
              gen |-> IF Reconciled(t) THEN pointer ELSE 0]]
        /\ Return(p, Reported(ended))
  /\ UNCHANGED <<setting, auth, gens, pointer, genfile, begin, txcand, review, abandoned,
                 log, drifts, faults>>

-----------------------------------------------------------------------------
(* The environment.                                                        *)

\* A process dies.  Windows tells the next caller that the mutex was
\* abandoned only if something else kept its handle open.
Die(p) ==
  /\ job[p].op # "none"
  /\ Fault
  /\ job' = [job EXCEPT ![p] = Idle]
  /\ mutex' = IF mutex = p THEN None ELSE mutex
  /\ abandoned' \in (IF mutex = p THEN BOOLEAN ELSE {abandoned})
  /\ UNCHANGED <<setting, auth, gens, pointer, copy, answer, log, drifts>>

Crash(p) ==
  /\ Die(p)
  /\ UNCHANGED <<genfile, begin, terminal, txcand, review>>

\* It dies inside the write of an immutable file, which stays cut short.
CrashWriting(p) ==
  LET j == job[p]
      t == j.tx
  IN
  /\ Die(p)
  /\ \/ /\ j.pc = "promote" /\ genfile[j.cand] = "none"
        /\ genfile' = [genfile EXCEPT ![j.cand] = "torn"]
        /\ UNCHANGED <<begin, terminal, txcand, review>>
     \/ /\ j.pc = "begin"
        /\ begin' = [begin EXCEPT ![t].st = "torn"]
        /\ UNCHANGED <<genfile, terminal, txcand, review>>
     \/ /\ j.pc = "close" \/ (j.pc = "replay" /\ begin[t].st = "done" /\ Replays(j))
        /\ terminal[t].st = "none"
        /\ terminal' = [terminal EXCEPT ![t].st = "torn"]
        /\ UNCHANGED <<genfile, begin, txcand, review>>
     \/ /\ j.pc = "txcand" /\ txcand[t] = 0
        /\ txcand' = [txcand EXCEPT ![t] = Torn]
        /\ UNCHANGED <<genfile, begin, terminal, review>>
     \/ /\ j.pc = "record"
        /\ review' = [review EXCEPT ![t].cfile = Torn]
        /\ UNCHANGED <<genfile, begin, terminal, txcand>>
     \/ /\ j.pc = "receipt"
        /\ review' = [review EXCEPT ![t].rfile = "torn"]
        /\ UNCHANGED <<genfile, begin, terminal, txcand>>

\* Configuration, plugins or runtimes change.
Drifts ==
  /\ drifts < setting.drifts
  /\ drifts' = drifts + 1
  /\ \E v \in setting.versions \ {auth} : auth' = v
  /\ UNCHANGED <<setting, gens, pointer, copy, genfile, begin, terminal, txcand, review,
                 mutex, abandoned, job, answer, log, faults>>

Next ==
  \/ Drifts
  \/ \E p \in Procs :
       \/ StartRecover(p) \/ Load(p) \/ ReadFirst(p) \/ ReadSecond(p) \/ ReadFails(p)
       \/ \E t \in OpTx, want \in {auth, setting.base} :
            setting.operator /\ StartRender(p, t, want)
       \/ \E t \in OpTx, want \in {auth, setting.base}, c \in 1 .. Len(gens),
             a \in Authorizations : StartApply(p, t, want, c, a)
       \/ BeginAutomatic(p)
       \/ RenderContext(p) \/ ApplyContext(p) \/ Build(p) \/ BuildFails(p)
       \/ Inspect(p) \/ WriteCandidate(p) \/ WriteReview(p)
       \/ KeepCandidate(p) \/ BeginOperator(p) \/ EarlyWriteFails(p)
       \/ Check(p) \/ Promote(p) \/ Reread(p) \/ Swap(p) \/ PromotionFails(p)
       \/ Repair(p) \/ Close(p) \/ Replay(p) \/ Crash(p) \/ CrashWriting(p)

Spec == Init /\ [][Next]_vars

-----------------------------------------------------------------------------
(* Properties.                                                             *)

\* attempt_recovery commits without a human: whatever the live authority does
\* between its readings, the manifest moves across a pair of receipts some lane
\* recognises, the entries change as that lane says, and what is offered grows
\* neither by an identifier nor by an older version or another publisher.
NoWidening ==
  [][pointer' # pointer /\ gens[pointer'].op = "recover"
       => /\ <<Receipt(pointer), Receipt(pointer')>> \in Recognized
          /\ gens[pointer'].same
          /\ Narrower(Disks[Receipt(pointer)], Disks[Receipt(pointer')])]_vars

TruthfulPairs ==
  {e \in Pairs : \A id \in Served(Disks[e[1]], Disks[e[2]]) :
                    Intact(Disks[e[1]], Disks[e[2]], id)}

\* load_active_capabilities serves from a manifest whose authority has drifted
\* only entries none of whose packages, sibling versions and toggles moved, or
\* that the first-party tree vouches for.
ServedUnchanged == Loadable => <<Receipt(pointer), auth>> \in TruthfulPairs

\* promote_manifest_generation: the generations form one chain.  Each names the
\* one it replaced as its predecessor, is numbered after it, and is durable
\* before the pointer names it, whichever processes overlapped or died.
GenerationChain ==
  /\ \A i \in 1 .. Len(log) :
       /\ gens[log[i]].prev = (IF i = 1 THEN 0 ELSE log[i - 1])
       /\ gens[log[i]].seq = i
       /\ genfile[log[i]] = "done"
  /\ pointer = (IF log = << >> THEN 0 ELSE log[Len(log)])

Swapped(t) == \E i \in 1 .. Len(log) : gens[log[i]].tx = t

\* The terminal records: a transaction recorded as denied never reached the
\* pointer, one recorded as committed did.  (One recorded as an error may have:
\* a replay finds it superseded or no longer fresh, or attempt_recovery did not
\* catch what the validation of the installed manifest raised.)
TerminalTruth ==
  \A t \in Tx : terminal[t].st = "done" =>
    /\ terminal[t].status = "denied" => ~Swapped(t)
    /\ terminal[t].status = "committed" => Swapped(t)

\* operator_rebaseline answers "rebuilt" only to the authorization that began
\* the transaction, for the candidate it reviewed, and after that candidate
\* replaced the predecessor named in its review.
AnswerIsReviewed ==
  answer.status = "rebuilt" /\ answer.tx \in OpTx =>
    /\ begin[answer.tx].authz = answer.authz
    /\ review[answer.tx].cand = answer.cand
    /\ \E i \in 1 .. Len(log) : log[i] = answer.cand
    /\ gens[answer.cand].prev = review[answer.tx].prev
=============================================================================
