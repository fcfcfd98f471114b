----------------------------- MODULE InstallProofs -----------------------------
(***************************************************************************)
(* Proofs about Install, for any targets, bundles and bounds: the type,    *)
(* OneTransaction, RuntimeRecorded, RollbackExact and the refinement of    *)
(* AllOrNothing; then about ExactFile, the driver of the user files that   *)
(* stay: an unconfirmed replacement can be undone, and only bytes that     *)
(* were approved, or written during the call, are overwritten.             *)
(***************************************************************************)
EXTENDS Install, ExactFile, FiniteSetTheorems, TLAPS
\* Places of a command.
BeforePlan == {"preflight", "stage", "staged", "noop"}
Promoting == {"promote", "copying", "moved", "check"}
Recording == {"record", "recorded"}
Retaining == {"retain", "retaining"}
Cleaning == {"clean_stage", "clean_rollback", "clean_workspace", "closing"}
AtTarget == Promoting \cup Retaining \cup {"removing", "restore"}
Working == BeforePlan \cup Promoting \cup {"verify", "commit"} \cup Recording \cup Retaining
             \cup Cleaning \cup {"decide"} \cup RollbackPlaces

Hooks == {t \in Targets : Kind[t] = "hooks"}

\* The command in progress has its type.
RunType ==
  run \in [pc: {"idle", "locked", "begin"} \cup Working, tx: 0 .. MaxTx, at: Places,
           op: {"install", "uninstall"}, bundle: {0} \cup Bundles,
           policy: {"install", "preserve", "remove"}, migrate: BOOLEAN, handling: BOOLEAN,
           recovering: BOOLEAN, seen: {Absent} \cup [Hooks -> Contents]]
ManifestInv ==
  /\ manifest = [x \in 0 .. MaxTx |-> manifest[x]] /\ manifest[0].version = 2
  /\ \A x \in 0 .. MaxTx : manifest[x].owns \subseteq Targets

\* An edition that is kept anywhere was the latest one of its target at some time.
Known(c, t) == Edits(c) <= edits[t]
EditsInv ==
  \A t \in Targets :
    /\ Known(live[t], t)
    /\ \A x \in Txs : /\ Known(stage[x][t], t) /\ Known(rollback[x][t], t)
                      /\ Known(journal[x].prior[t], t) /\ Known(journal[x].new[t], t)

\* One transaction is unfinished, and it is that of the command that works.
OneUnfinished == \A x, y \in Unfinished : x = y
UnfinishedInv ==
  /\ OneUnfinished
  /\ Failed # {} => run.pc \in {"idle", "locked"}
  /\ run.pc = "begin" => Unfinished = {}
  /\ run.pc \in Working => X \in Txs /\ Unfinished \subseteq {X}

\* What current.json names was promoted, and the store lists what it named.
PointerInv ==
  /\ pointer.status = "none" <=> pointer.tx = 0
  /\ pointer.tx # 0 =>
       /\ journal[pointer.tx].status \in {"IN_PROGRESS", "COMMITTED", "RECOVERY_FAILED"}
       /\ journal[pointer.tx].planned # {}
       /\ journal[pointer.tx].op = IF pointer.status = "committed" THEN "install" ELSE "uninstall"
  /\ \A x \in runtime : journal[x].op = "install"
                        /\ journal[x].status \in {"IN_PROGRESS", "COMMITTED", "RECOVERY_FAILED"}
  /\ \A x \in runtime \cap Pending : x = pointer.tx
  /\ \A x \in Txs : /\ journal[x].finalized => x \in runtime
                    /\ journal[x].op = "install" /\ journal[x].status = "COMMITTED" => x \in runtime

\* Where the transaction of the command is.
Listed == journal[X].op = "install" => X \in runtime
PlaceInv ==
  LET pc == run.pc  status == journal[X].status  planned == journal[X].planned IN
  /\ pc \in BeforePlan => status = "IN_PROGRESS" /\ planned = {}
  /\ pc \in Promoting \cup {"verify", "commit"} => status = "IN_PROGRESS" /\ planned # {}
  /\ pc \in Recording => journal[X].op = "install" /\ (pc = "recorded" => Listed)
  /\ pc \in Retaining => Listed
  /\ pc \in Recording \cup Retaining => status = "IN_PROGRESS" /\ pointer.tx = X
  /\ pc \in Cleaning =>
       \/ status \in {"NOOP", "ROLLED_BACK"}
       \/ status = "IN_PROGRESS" /\ pointer.tx = X /\ Listed
  /\ pc \in {"decide"} \cup RollbackPlaces =>
       \/ status = "IN_PROGRESS"
       \/ status = "NOOP" /\ planned = {}
  /\ pc \in BeforePlan \cup Promoting \cup {"verify", "commit"} \cup RollbackPlaces
       => pointer.tx # X
  /\ pc \in BeforePlan \cup Promoting \cup {"verify", "commit"} => journal[X].op = run.op
  /\ pc \in AtTarget \/ (pc = "rollback" /\ run.at # 0) =>
       run.at # 0 /\ T \in planned
  /\ pc \in Cleaning /\ status = "NOOP" => planned = {}
  /\ pc \in Cleaning /\ status = "ROLLED_BACK" => run.handling
  /\ pc \in {"decide"} \cup RollbackPlaces => run.handling
  /\ pc \in BeforePlan /\ run.op = "install" => run.bundle \in Bundles

\* A target is as it was before transaction x, up to the user's later edits.
Restored(x, t) ==
  /\ Part(live[t]) = Part(journal[x].prior[t])
  /\ Edits(live[t]) >= Edits(journal[x].prior[t])
\* What a rollback leaves behind is restored, and its slot holds what it restores.
RollbackInv ==
  /\ run.pc \in RollbackPlaces =>
       \A i \in 1 .. Len(Order) :
         i > run.at /\ Order[i] \in journal[X].planned => Restored(X, Order[i])
  /\ run.pc = "removing" => rollback[X][T] \in {Absent, journal[X].prior[T]}
                            /\ (rollback[X][T] = Absent => journal[X].prior[T] = Absent)
  /\ run.pc = "restore" => rollback[X][T] = journal[X].prior[T]

\* Before the first commit nothing that may be relied on is of a transaction.
OriginInv == pointer.status = "none" => \A t \in Targets : Relied(t)[2] = 0

InstallInv ==
  /\ TypeOK /\ RunType /\ ManifestInv /\ EditsInv /\ UnfinishedInv /\ PointerInv
  /\ PlaceInv /\ RollbackInv /\ OriginInv
-----------------------------------------------------------------------------
(* The targets, and what their contents say.                               *)

LEMMA OrderFacts ==
  /\ Len(Order) \in Nat
  /\ \A i \in Places : i # 0 => i \in 1 .. Len(Order) /\ Order[i] \in Targets
  /\ \A t \in Targets : \E i \in 1 .. Len(Order) : Order[i] = t
  /\ \A i, j \in 1 .. Len(Order) : Order[i] = Order[j] => i = j
<1>1. Len(Order) \in Nat BY InstallAssumption
<1>2. Targets = {Order[i] : i \in 1 .. Len(Order)} BY DEF Targets
<1>3. \A i, j \in 1 .. Len(Order) : Order[i] = Order[j] => i = j BY InstallAssumption
<1>4. \A i \in Places : i # 0 => i \in 1 .. Len(Order) BY <1>1 DEF Places
<1> QED BY <1>1, <1>2, <1>3, <1>4

LEMMA SupportFacts == SupportTarget \in Targets /\ Kind[SupportTarget] = "support"
<1>1. \E t \in Targets : Kind[t] = "support" BY InstallAssumption
<1>2. \E t : Kind[t] = "support" BY <1>1
<1> QED BY <1>1 DEF SupportTarget

LEMMA ContentFacts ==
  /\ Absent \notin Content /\ Partial \notin Content /\ Absent # Partial
  /\ \A c \in Contents : Present(c) <=> c \in Content
  /\ \A c \in Content : c = [user |-> c.user, bundle |-> c.bundle, tx |-> c.tx]
                        /\ c.user \in 0 .. MaxEdits
  /\ \A c \in Contents : Edits(c) \in Nat
  /\ Edits(Absent) = 0 /\ Edits(Partial) = 0
  /\ MaxTx \in Nat /\ MaxEdits \in Nat
  /\ Part(Absent) = <<0, 0>>
BY InstallAssumption DEF Content, Contents, Present, Edits, Part

LEMMA FollowingFacts ==
  ASSUME NEW S \in SUBSET Targets, NEW at \in Places, NEW i \in Places, Following(S, at, i)
  PROVE  /\ i # 0 => Order[i] \in S
         /\ at = 0 /\ S # {} => i # 0
<1>1. i # 0 => Order[i] \in S BY OrderFacts DEF Following, Places
<1>2. ASSUME at = 0, S # {} PROVE i # 0
  <2>1. PICK t \in S : TRUE BY <1>2
  <2>2. PICK j \in 1 .. Len(Order) : Order[j] = t BY <2>1, OrderFacts
  <2>3. j > at BY <1>2, <2>2, OrderFacts
  <2> DEFINE ahead == {k \in 1 .. Len(Order) : k > at /\ Order[k] \in S}
  <2>4. j \in ahead BY <2>1, <2>2, <2>3
  <2>5. i \in ahead BY <2>4 DEF Following
  <2> QED BY <2>5, OrderFacts
<1> QED BY <1>1, <1>2

LEMMA PrecedingFacts ==
  ASSUME NEW S \in SUBSET Targets, NEW at \in 0 .. Len(Order) + 1, NEW i \in Places,
         Preceding(S, at, i)
  PROVE  /\ i # 0 => Order[i] \in S
         /\ \A j \in 1 .. Len(Order) : j < at /\ Order[j] \in S => j <= i
<1> DEFINE behind == {j \in 1 .. Len(Order) : j < at /\ Order[j] \in S}
<1>1. CASE behind = {}
  <2>1. i = 0 BY <1>1 DEF Preceding
  <2>2. \A j \in 1 .. Len(Order) : ~(j < at /\ Order[j] \in S) BY <1>1
  <2> QED BY <2>1, <2>2
<1>2. CASE behind # {}
  <2>1. i \in behind /\ \A j \in behind : i >= j BY <1>2 DEF Preceding
  <2>2. \A j \in behind : j <= i BY <2>1, OrderFacts
  <2> QED BY <2>1, <2>2
<1> QED BY <1>1, <1>2

-----------------------------------------------------------------------------
(* The command in progress.                                                *)

Pcs == {"idle", "locked", "begin"} \cup Working

LEMMA StopFacts ==
  ASSUME Stop PROVE RunType' /\ run'.pc = "idle"
<1>1. 0 \in Places /\ 0 \in 0 .. MaxTx BY OrderFacts, ContentFacts DEF Places
<1> QED BY <1>1 DEF Stop, Idle, RunType

LEMMA GotoFacts ==
  ASSUME RunType, NEW pc \in Pcs, Goto(pc)
  PROVE  /\ RunType' /\ run'.pc = pc /\ run'.tx = run.tx /\ run'.at = run.at /\ run'.op = run.op
         /\ run'.handling = run.handling /\ run'.bundle = run.bundle
         /\ run'.recovering = run.recovering
BY DEF RunType, Goto, Pcs

LEMMA GotoAtFacts ==
  ASSUME RunType, NEW pc \in Pcs, NEW i \in Places, GotoAt(pc, i)
  PROVE  /\ RunType' /\ run'.pc = pc /\ run'.tx = run.tx /\ run'.at = i /\ run'.op = run.op
         /\ run'.handling = run.handling /\ run'.bundle = run.bundle
         /\ run'.recovering = run.recovering
BY DEF RunType, GotoAt, Pcs

LEMMA RaiseFacts ==
  ASSUME RunType, Raise
  PROVE  /\ RunType'
         /\ \/ run'.pc = "idle"
            \/ run'.pc = "decide" /\ run'.tx = run.tx /\ run'.at = run.at /\ run'.handling
<1>1. CASE run.handling BY <1>1, StopFacts DEF Raise
<1>2. CASE ~run.handling BY <1>2 DEF Raise, RunType, Working
<1> QED BY <1>1, <1>2

LEMMA RunFacts ==
  ASSUME RunType PROVE run.pc \in Pcs /\ run.at \in Places /\ run.tx \in 0 .. MaxTx
BY DEF RunType, Pcs

\* The target a command is at.
LEMMA TargetFacts ==
  ASSUME TypeOK, RunType, PlaceInv, UnfinishedInv,
         run.pc \in AtTarget \/ (run.pc = "rollback" /\ run.at # 0)
  PROVE  /\ X \in Txs /\ T \in Targets /\ T \in journal[X].planned
         /\ run.at \in 1 .. Len(Order)
<1>1. run.pc \in Working
  BY DEF AtTarget, Working, Promoting, Retaining, RollbackPlaces
<1>2. X \in Txs BY <1>1 DEF UnfinishedInv
<1>3. run.at # 0 /\ T \in journal[X].planned BY DEF PlaceInv
<1> QED BY <1>2, <1>3, RunFacts, OrderFacts DEF T

\* Moving on to the next target.
LEMMA OnwardFacts ==
  ASSUME TypeOK, RunType, X \in Txs, NEW pc \in Pcs, NEW end \in Pcs, Onward(pc, end)
  PROVE  /\ RunType' /\ run'.tx = run.tx /\ run'.op = run.op /\ run'.handling = run.handling
         /\ run'.recovering = run.recovering
         /\ \/ run'.pc = end
            \/ run'.pc = pc /\ run'.at # 0 /\ Order[run'.at] \in journal[X].planned
<1>1. PICK i \in Places : Following(journal[X].planned, run.at, i)
                          /\ IF i = 0 THEN Goto(end) ELSE GotoAt(pc, i)
  BY DEF Onward
<1>2. journal[X].planned \in SUBSET Targets BY DEF TypeOK, Journals
<1>3. i # 0 => Order[i] \in journal[X].planned BY <1>1, <1>2, RunFacts, FollowingFacts
<1> QED BY <1>1, <1>3, GotoFacts, GotoAtFacts

LEMMA StartRetainFacts ==
  ASSUME TypeOK, RunType, X \in Txs, journal[X].planned # {}, StartRetain
  PROVE  /\ RunType' /\ run'.tx = run.tx /\ run'.op = run.op /\ run'.handling = run.handling
         /\ run'.recovering = run.recovering
         /\ run'.pc = "retain" /\ run'.at # 0 /\ Order[run'.at] \in journal[X].planned
<1>1. PICK i \in Places : Following(journal[X].planned, 0, i) /\ GotoAt("retain", i)
  BY DEF StartRetain
<1>2. journal[X].planned \in SUBSET Targets BY DEF TypeOK, Journals
<1>3. 0 \in Places BY OrderFacts DEF Places
<1>4. i # 0 /\ Order[i] \in journal[X].planned BY <1>1, <1>2, <1>3, FollowingFacts
<1>5. "retain" \in Pcs BY DEF Pcs, Working, Retaining
<1> QED BY <1>1, <1>4, <1>5, GotoAtFacts

LEMMA BackFacts ==
  ASSUME TypeOK, RunType, X \in Txs, NEW at \in 0 .. Len(Order) + 1, BackFrom(at)
  PROVE  /\ RunType' /\ run'.tx = run.tx /\ run'.op = run.op /\ run'.handling = run.handling
         /\ run'.recovering = run.recovering
         /\ run'.pc = "rollback" /\ run'.at \in Places
         /\ run'.at # 0 => Order[run'.at] \in journal[X].planned
         /\ \A j \in 1 .. Len(Order) : j < at /\ Order[j] \in journal[X].planned => j <= run'.at
<1>1. PICK i \in Places : Preceding(journal[X].planned, at, i) /\ GotoAt("rollback", i)
  BY DEF BackFrom
<1>2. journal[X].planned \in SUBSET Targets BY DEF TypeOK, Journals
<1>3. "rollback" \in Pcs BY DEF Pcs, Working, RollbackPlaces
<1>4. /\ i # 0 => Order[i] \in journal[X].planned
      /\ \A j \in 1 .. Len(Order) : j < at /\ Order[j] \in journal[X].planned => j <= i
  BY <1>1, <1>2, PrecedingFacts
<1> QED BY <1>1, <1>3, <1>4, GotoAtFacts

-----------------------------------------------------------------------------
(* Editions of the user.                                                   *)

LEMMA EditionFacts ==
  ASSUME TypeOK
  PROVE  /\ Edition \in Nat
         /\ \A t \in Targets : Edition > edits[t]
<1> DEFINE S == {n \in 1 .. MaxEdits : \E t \in Targets : edits[t] >= n}
<1>0. MaxEdits \in Nat BY InstallAssumption
<1>1. IsFiniteSet(1 .. MaxEdits) BY <1>0, FS_Interval
<1>2. IsFiniteSet(S) /\ Cardinality(S) \in Nat
  <2>1. S \subseteq 1 .. MaxEdits OBVIOUS
  <2>2. IsFiniteSet(S) BY <1>1, <2>1, FS_Subset
  <2> QED BY <2>2, FS_CardinalityType
<1>3. Edition = 1 + Cardinality(S) BY DEF Edition
<1>4. ASSUME NEW t \in Targets PROVE Cardinality(S) >= edits[t]
  <2>1. edits[t] \in 0 .. MaxEdits BY DEF TypeOK
  <2>2. 1 .. edits[t] \subseteq S BY <1>0, <2>1
  <2>3. edits[t] \in Nat BY <1>0, <2>1
  <2>4. IsFiniteSet(1 .. edits[t]) BY <2>3, FS_Interval
  <2>5. Cardinality(1 .. edits[t]) = edits[t]
    <3>1. Cardinality(1 .. edits[t]) = IF 1 > edits[t] THEN 0 ELSE edits[t] - 1 + 1
      BY <2>3, FS_Interval
    <3> QED BY <2>3, <3>1
  <2>6. Cardinality(1 .. edits[t]) <= Cardinality(S) BY <1>2, <2>2, FS_Subset
  <2> QED BY <1>2, <2>3, <2>5, <2>6
<1>5. \A t \in Targets : edits[t] \in Nat BY <1>0 DEF TypeOK
<1> HIDE DEF S
<1> QED BY <1>2, <1>3, <1>4, <1>5

\* An edit changes nothing of the installer's part.
LEMMA EditFacts ==
  ASSUME TypeOK, EditsInv, NEW t \in Targets, Edit(t)
  PROVE  /\ live' \in [Targets -> Contents] /\ edits' \in [Targets -> 0 .. MaxEdits]
         /\ \A u \in Targets : edits'[u] >= edits[u] /\ Part(live'[u]) = Part(live[u])
         /\ \A u \in Targets : Edits(live'[u]) <= edits'[u] /\ Edits(live'[u]) >= Edits(live[u])
<1>0. MaxEdits \in Nat /\ \A u \in Targets : edits[u] \in Nat
  BY InstallAssumption DEF TypeOK
<1>1. Edition \in 1 .. MaxEdits /\ Edition > edits[t]
  BY <1>0, EditionFacts DEF Edit
<1>2. edits' \in [Targets -> 0 .. MaxEdits] /\ edits'[t] = Edition
      /\ \A u \in Targets \ {t} : edits'[u] = edits[u]
  BY <1>0, <1>1 DEF Edit, TypeOK
<1>3. /\ live'[t] \in Content /\ Part(live'[t]) = Part(live[t]) /\ Edits(live'[t]) = Edition
      /\ live' = [live EXCEPT ![t] = live'[t]]
  <2>1. CASE Present(live[t])
    <3>1. live'[t] = [live[t] EXCEPT !.user = Edition] /\ live' = [live EXCEPT ![t] = live'[t]]
      BY <2>1 DEF Edit, TypeOK
    <3>2. live[t] \in Content BY <2>1, ContentFacts DEF TypeOK
    <3>3. live'[t] \in Content BY <1>1, <3>1, <3>2 DEF Content
    <3>4. live'[t].user = Edition /\ live'[t].bundle = live[t].bundle /\ live'[t].tx = live[t].tx
      BY <3>1, <3>2 DEF Content
    <3>5. live[t] \notin {Absent, Partial} /\ live'[t] \notin {Absent, Partial}
      BY <3>2, <3>3, ContentFacts
    <3> QED BY <3>1, <3>3, <3>4, <3>5 DEF Part, Edits, Present
  <2>2. CASE ~Present(live[t])
    <3>1. live[t] = Absent /\ live'[t] = [user |-> Edition, bundle |-> 0, tx |-> 0]
          /\ live' = [live EXCEPT ![t] = live'[t]]
      BY <2>2 DEF Edit, TypeOK
    <3>2. live'[t] \in Content BY <1>1, <3>1, ContentFacts DEF Content
    <3>3. live'[t] \notin {Absent, Partial} BY <3>2, ContentFacts
    <3> QED BY <3>1, <3>2, <3>3 DEF Part, Edits, Present
  <2> QED BY <2>1, <2>2
<1>4. \A u \in Targets \ {t} : live'[u] = live[u] BY <1>3 DEF TypeOK
<1>5. live' \in [Targets -> Contents] BY <1>3 DEF TypeOK, Contents
<1>6. \A u \in Targets : Edits(live[u]) \in Nat /\ Edits(live[u]) <= edits[u]
  BY ContentFacts DEF TypeOK, EditsInv, Known
<1>7. Edits(live'[t]) <= edits'[t] /\ Edits(live'[t]) >= Edits(live[t]) /\ edits'[t] >= edits[t]
  BY <1>0, <1>1, <1>2, <1>3, <1>6
<1> QED BY <1>0, <1>2, <1>3, <1>4, <1>5, <1>6, <1>7

-----------------------------------------------------------------------------
(* What may be relied on, and what a step does to it.                      *)

Still == \A t \in Targets : Relied(t)' = Relied(t)
\* A step keeps the image, or is that of the pointer.
RefStep ==
  \/ pointer' = pointer /\ Still
  \/ pointer' # pointer /\ pointer'.status # "none" /\ Unfinished # {} /\ Unfinished' # {}

LEMMA ReliedFacts ==
  ASSUME OneUnfinished, NEW t \in Targets
  PROVE  /\ \A x \in Unfinished : x # pointer.tx /\ t \in journal[x].planned
              => Relied(t) = Part(journal[x].prior[t])
         /\ (\A x \in Unfinished : x = pointer.tx \/ t \notin journal[x].planned)
              => Relied(t) = Part(live[t])
<1>1. ASSUME NEW x \in Unfinished, x # pointer.tx, t \in journal[x].planned
      PROVE  Relied(t) = Part(journal[x].prior[t])
  <2> DEFINE c == CHOOSE y \in Unfinished : y # pointer.tx
  <2>1. c = x BY <1>1 DEF OneUnfinished
  <2> HIDE DEF c
  <2>2. Relied(t) = Part(journal[c].prior[t]) BY <1>1 DEF Relied, c
  <2> QED BY <2>1, <2>2
<1>2. ASSUME \A x \in Unfinished : x = pointer.tx \/ t \notin journal[x].planned
      PROVE  Relied(t) = Part(live[t])
  <2>1. ~\E x \in Unfinished : x # pointer.tx /\ t \in journal[x].planned BY <1>2
  <2> QED BY <2>1 DEF Relied
<1> QED BY <1>1, <1>2

LEMMA ReliedNextFacts ==
  ASSUME OneUnfinished', NEW t \in Targets
  PROVE  /\ \A x \in Unfinished' : x # pointer'.tx /\ t \in journal'[x].planned
              => Relied(t)' = Part(journal'[x].prior[t])
         /\ (\A x \in Unfinished' : x = pointer'.tx \/ t \notin journal'[x].planned)
              => Relied(t)' = Part(live'[t])
<1>1. ASSUME NEW x \in Unfinished', x # pointer'.tx, t \in journal'[x].planned
      PROVE  Relied(t)' = Part(journal'[x].prior[t])
  <2> DEFINE c == CHOOSE y \in Unfinished' : y # pointer'.tx
  <2>1. c = x BY <1>1 DEF OneUnfinished
  <2> HIDE DEF c
  <2>2. Relied(t)' = Part(journal'[c].prior[t]) BY <1>1 DEF Relied, c, Part
  <2> QED BY <2>1, <2>2
<1>2. ASSUME \A x \in Unfinished' : x = pointer'.tx \/ t \notin journal'[x].planned
      PROVE  Relied(t)' = Part(live'[t])
  <2>1. ~\E x \in Unfinished' : x # pointer'.tx /\ t \in journal'[x].planned BY <1>2
  <2> QED BY <2>1 DEF Relied, Part
<1> QED BY <1>1, <1>2

\* Transactions whose plan and records stay; one of them may begin or end, if it
\* changes nothing, was committed, or every target is as it was.
LEMMA RowStill ==
  ASSUME TypeOK, OneUnfinished, OneUnfinished', UNCHANGED <<live, pointer>>, NEW x \in Txs,
         \A y \in Txs \ {x} : journal'[y] = journal[y],
         journal'[x].planned = journal[x].planned,
         \A t \in journal[x].planned : journal'[x].prior[t] = journal[x].prior[t],
         \/ x \in Unfinished <=> x \in Unfinished'
         \/ journal[x].planned = {}
         \/ x = pointer.tx
         \/ \A t \in journal[x].planned : Part(live[t]) = Part(journal[x].prior[t])
  PROVE  Still
<1> SUFFICES ASSUME NEW t \in Targets PROVE Relied(t)' = Relied(t) BY DEF Still
<1>1. \A y \in Txs \ {x} : y \in Unfinished <=> y \in Unfinished'
  BY DEF Unfinished, Pending, Failed
<1>2. Unfinished \subseteq Txs /\ Unfinished' \subseteq Txs
  BY DEF Unfinished, Pending, Failed
<1>3. pointer'.tx = pointer.tx /\ live'[t] = live[t] OBVIOUS
<1>4. CASE \E y \in Unfinished \ {x} : y # pointer.tx /\ t \in journal[y].planned
  <2>1. PICK y \in Unfinished \ {x} : y # pointer.tx /\ t \in journal[y].planned BY <1>4
  <2>2. y \in Unfinished' /\ journal'[y] = journal[y] BY <1>1, <1>2, <2>1
  <2> QED BY <1>3, <2>1, <2>2, ReliedFacts, ReliedNextFacts
<1>5. CASE ~\E y \in Unfinished \ {x} : y # pointer.tx /\ t \in journal[y].planned
  <2>1. \A y \in Unfinished' \ {x} : y = pointer'.tx \/ t \notin journal'[y].planned
    BY <1>1, <1>2, <1>3, <1>5
  <2>2. CASE x = pointer.tx \/ t \notin journal[x].planned
    <3>1. Relied(t) = Part(live[t]) BY <1>5, <2>2, ReliedFacts
    <3>2. Relied(t)' = Part(live'[t]) BY <1>3, <2>1, <2>2, ReliedNextFacts
    <3> QED BY <1>3, <3>1, <3>2
  <2>3. CASE x # pointer.tx /\ t \in journal[x].planned
    <3>1. x \in Unfinished => Relied(t) = Part(journal[x].prior[t]) BY <2>3, ReliedFacts
    <3>2. x \in Unfinished' => Relied(t)' = Part(journal[x].prior[t])
      BY <1>3, <2>3, ReliedNextFacts
    <3>3. x \notin Unfinished => Relied(t) = Part(live[t]) BY <1>5, ReliedFacts
    <3>4. x \notin Unfinished' => Relied(t)' = Part(live[t]) BY <1>3, <2>1, ReliedNextFacts
    <3> QED BY <2>3, <3>1, <3>2, <3>3, <3>4
  <2> QED BY <2>2, <2>3
<1> QED BY <1>4, <1>5

\* The targets of an unfinished, uncommitted transaction are covered by what it recorded.
LEMMA LiveStill ==
  ASSUME TypeOK, OneUnfinished, UNCHANGED <<pointer, journal>>, NEW x \in Unfinished,
         x # pointer.tx, NEW t \in journal[x].planned,
         \A u \in Targets \ {t} : live'[u] = live[u]
  PROVE  Still
<1> SUFFICES ASSUME NEW u \in Targets PROVE Relied(u)' = Relied(u) BY DEF Still
<1>1. Unfinished' = Unfinished BY DEF Unfinished, Pending, Failed
<1>2. OneUnfinished' BY <1>1 DEF OneUnfinished
<1>3. CASE u \in journal[x].planned
  BY <1>1, <1>2, <1>3, ReliedFacts, ReliedNextFacts
<1>4. CASE u \notin journal[x].planned
  <2>1. \A y \in Unfinished : y = x BY DEF OneUnfinished
  <2>2. live'[u] = live[u] BY <1>4
  <2> QED BY <1>1, <1>2, <1>4, <2>1, <2>2, ReliedFacts, ReliedNextFacts
<1> QED BY <1>3, <1>4

-----------------------------------------------------------------------------
(* Steps that leave the files alone.                                       *)

Good == InstallInv' /\ RefStep

LEMMA OriginNext ==
  ASSUME InstallInv, RefStep PROVE OriginInv'
<1>1. CASE pointer' = pointer /\ Still BY <1>1 DEF InstallInv, OriginInv, Still
<1>2. CASE pointer'.status # "none" BY <1>2 DEF OriginInv
<1> QED BY <1>1, <1>2 DEF RefStep

LEMMA Combine ==
  ASSUME InstallInv, TypeOK', RunType', ManifestInv', EditsInv', UnfinishedInv', PointerInv',
         PlaceInv', RollbackInv', RefStep
  PROVE  Good
BY OriginNext DEF Good, InstallInv

\* Nothing but the command changes.
LEMMA RunOnly ==
  ASSUME InstallInv, UNCHANGED <<live, pointer, journal, manifest, files, runtime, edits>>
  PROVE  /\ TypeOK' /\ ManifestInv' /\ EditsInv' /\ PointerInv' /\ RefStep /\ OneUnfinished'
         /\ Unfinished' = Unfinished
<1> USE DEF InstallInv
<1>1. TypeOK' BY DEF TypeOK, files
<1>2. ManifestInv' BY DEF ManifestInv
<1>3. EditsInv' BY DEF EditsInv, Known, files
<1>4. PointerInv' BY DEF PointerInv, Pending
<1>5. Unfinished' = Unfinished BY DEF Unfinished, Pending, Failed
<1>6. OneUnfinished' BY <1>5 DEF OneUnfinished, UnfinishedInv
<1>7. Still BY DEF Still, Relied, Unfinished, Pending, Failed
<1> QED BY <1>1, <1>2, <1>3, <1>4, <1>5, <1>6, <1>7 DEF RefStep

\* Only row x of the journals changes besides the command, and not its plan.
LEMMA RowOnly ==
  ASSUME InstallInv, UNCHANGED <<live, pointer, manifest, files, edits>>,
         NEW x \in Txs, journal' \in [Txs -> Journals],
         \A y \in Txs \ {x} : journal'[y] = journal[y],
         journal'[x].planned = journal[x].planned, journal'[x].prior = journal[x].prior,
         journal'[x].new = journal[x].new,
         runtime' \subseteq Txs
  PROVE  TypeOK' /\ ManifestInv' /\ EditsInv'
<1> USE DEF InstallInv
<1>1. TypeOK' BY DEF TypeOK, files
<1>2. ManifestInv' BY DEF ManifestInv
<1>3. \A y \in Txs : journal'[y].prior = journal[y].prior /\ journal'[y].new = journal[y].new
  OBVIOUS
<1>4. EditsInv' BY <1>3 DEF EditsInv, Known, files
<1> QED BY <1>1, <1>2, <1>4

LEMMA StatusFacts ==
  ASSUME TypeOK, NEW x \in Txs, NEW s \in JournalStates, Status(x, s)
  PROVE  /\ journal' \in [Txs -> Journals]
         /\ \A y \in Txs \ {x} : journal'[y] = journal[y]
         /\ journal'[x].status = s /\ journal'[x].op = journal[x].op
         /\ journal'[x].planned = journal[x].planned /\ journal'[x].prior = journal[x].prior
         /\ journal'[x].new = journal[x].new /\ journal'[x].finalized = journal[x].finalized
<1>1. journal \in [Txs -> Journals] BY DEF TypeOK
<1>2. journal' = [journal EXCEPT ![x] = [journal[x] EXCEPT !.status = s]]
  BY <1>1 DEF Status
<1>3. journal'[x] = [journal[x] EXCEPT !.status = s] /\ journal[x] \in Journals
  BY <1>1, <1>2
<1>4. journal'[x] \in Journals /\ journal'[x].status = s /\ journal'[x].op = journal[x].op
      /\ journal'[x].planned = journal[x].planned /\ journal'[x].prior = journal[x].prior
      /\ journal'[x].new = journal[x].new /\ journal'[x].finalized = journal[x].finalized
  BY <1>3 DEF Journals
<1>5. journal' \in [Txs -> Journals] BY <1>1, <1>2, <1>4
<1> QED BY <1>1, <1>2, <1>4, <1>5

LEMMA PlacesApart ==
  /\ "idle" \notin Working /\ "locked" \notin Working /\ "begin" \notin Working
  /\ Pcs = {"idle", "locked", "begin"} \cup Working
BY DEF Working, Pcs, BeforePlan, Promoting, Recording, Retaining, Cleaning, RollbackPlaces

\* A command that ends holds nothing.
LEMMA Ending ==
  ASSUME InstallInv, run'.pc \in {"idle", "locked"}, OneUnfinished'
  PROVE  UnfinishedInv' /\ PlaceInv' /\ RollbackInv'
<1> USE DEF BeforePlan, Promoting, Recording, Retaining, Cleaning, RollbackPlaces, AtTarget
<1>1. UnfinishedInv' BY PlacesApart DEF UnfinishedInv
<1>2. PlaceInv' BY DEF PlaceInv
<1>3. RollbackInv' BY DEF RollbackInv
<1> QED BY <1>1, <1>2, <1>3

\* A command that goes on works on the same transaction.
LEMMA Continuing ==
  ASSUME InstallInv, run.pc \in Working, run'.pc \in Working, run'.tx = run.tx,
         Unfinished' \subseteq Unfinished, Failed' = Failed
  PROVE  UnfinishedInv' /\ OneUnfinished'
<1>1. X' = X /\ X \in Txs /\ Unfinished \subseteq {X} BY DEF X, InstallInv, UnfinishedInv
<1>2. Failed = {} BY PlacesApart DEF InstallInv, UnfinishedInv
<1>3. OneUnfinished' BY <1>1 DEF OneUnfinished
<1>4. run'.pc # "begin" BY PlacesApart
<1> QED BY <1>1, <1>2, <1>3, <1>4 DEF UnfinishedInv

\* An exception is possible while the transaction is open or found nothing to do.
LEMMA Raising ==
  ASSUME InstallInv, run.pc \in Working, Raise, UNCHANGED <<pointer, journal>>,
         \/ journal[X].status = "IN_PROGRESS"
         \/ journal[X].status = "NOOP" /\ journal[X].planned = {}
  PROVE  RunType' /\ UnfinishedInv' /\ PlaceInv' /\ RollbackInv'
<1>0. RunType BY DEF InstallInv
<1>1. Unfinished' = Unfinished /\ Failed' = Failed BY DEF Unfinished, Pending, Failed
<1>2. OneUnfinished' BY <1>1 DEF OneUnfinished, InstallInv, UnfinishedInv
<1>3. RunType' BY <1>0, RaiseFacts
<1>4. CASE run'.pc = "idle" BY <1>2, <1>3, <1>4, Ending
<1>5. CASE run'.pc = "decide" /\ run'.tx = run.tx /\ run'.handling
  <2>1. run'.pc \in Working BY <1>5 DEF Working
  <2>2. UnfinishedInv' BY <1>1, <1>5, <2>1, Continuing
  <2>3. X' = X BY <1>5 DEF X
  <2>4. PlaceInv'
    BY <1>5, <2>3 DEF PlaceInv, BeforePlan, Promoting, Recording, Retaining, Cleaning,
      RollbackPlaces, AtTarget
  <2>5. RollbackInv' BY <1>5 DEF RollbackInv, RollbackPlaces
  <2> QED BY <1>3, <2>2, <2>4, <2>5
<1> QED BY <1>0, <1>4, <1>5, RaiseFacts

\* A rollback that cannot go on leaves its transaction to a human.
LEMMA GivingUp ==
  ASSUME InstallInv, run.pc \in RollbackPlaces \cup {"decide"}, GiveUp,
         journal[X].status = "IN_PROGRESS" \/ pointer.tx # X,
         UNCHANGED <<live, pointer, manifest, files, runtime, edits>>
  PROVE  Good
<1> USE DEF InstallInv
<1>0. run.pc \in Working /\ X \in Txs /\ Unfinished \subseteq {X}
      /\ "RECOVERY_FAILED" \in JournalStates
  BY DEF Working, UnfinishedInv, JournalStates, RollbackPlaces
<1>1. journal[X].status = "IN_PROGRESS" \/ (journal[X].status = "NOOP" /\ journal[X].planned = {})
  BY DEF PlaceInv
<1>2. /\ journal' \in [Txs -> Journals]
      /\ \A y \in Txs \ {X} : journal'[y] = journal[y]
      /\ journal'[X].status = "RECOVERY_FAILED" /\ journal'[X].op = journal[X].op
      /\ journal'[X].planned = journal[X].planned /\ journal'[X].prior = journal[X].prior
      /\ journal'[X].new = journal[X].new /\ journal'[X].finalized = journal[X].finalized
  BY <1>0, StatusFacts DEF GiveUp
<1>3. RunType' /\ run'.pc = "idle" BY StopFacts DEF GiveUp
<1>4. runtime' \subseteq Txs BY DEF TypeOK
<1>5. TypeOK' /\ ManifestInv' /\ EditsInv' BY <1>0, <1>2, <1>4, RowOnly
<1>6. Unfinished' = {X} BY <1>0, <1>2 DEF Unfinished, Pending, Failed
<1>7. OneUnfinished' BY <1>6 DEF OneUnfinished
<1>8. UnfinishedInv' /\ PlaceInv' /\ RollbackInv' BY <1>3, <1>7, Ending
<1>10. PointerInv'
  <2>1. \A y \in Txs : /\ journal'[y].op = journal[y].op
                       /\ journal'[y].planned = journal[y].planned
                       /\ journal'[y].finalized = journal[y].finalized
                       /\ journal'[y].status \in {journal[y].status, "RECOVERY_FAILED"}
    BY <1>2
  <2>2. pointer.tx # 0 => pointer.tx \in Txs BY ContentFacts DEF TypeOK, Pointers, Txs
  <2>3. runtime \subseteq Txs /\ runtime' = runtime /\ pointer' = pointer BY DEF TypeOK
  <2>4. Pending' \subseteq Pending BY <2>1 DEF Pending
  <2> QED BY <2>1, <2>2, <2>3, <2>4 DEF PointerInv
<1>12. Still
  <2>1. (X \in Unfinished <=> X \in Unfinished') \/ journal[X].planned = {}
    BY <1>0, <1>1, <1>6 DEF Unfinished, Pending
  <2>2. OneUnfinished BY DEF UnfinishedInv
  <2> QED BY <1>0, <1>2, <1>7, <2>1, <2>2, RowStill
<1>13. RefStep BY <1>12 DEF RefStep
<1> QED BY <1>3, <1>5, <1>8, <1>10, <1>13, Combine

-----------------------------------------------------------------------------
(* Lock, recovery and the decision.                                        *)

LEMMA LockStep == ASSUME InstallInv, Lock PROVE Good
<1>1. /\ TypeOK' /\ ManifestInv' /\ EditsInv' /\ PointerInv' /\ RefStep /\ OneUnfinished'
  BY RunOnly DEF Lock
<1>2. RunType' /\ run'.pc = "locked"
  <2>1. 0 \in Places /\ 0 \in 0 .. MaxTx BY OrderFacts, ContentFacts DEF Places
  <2> QED BY <2>1 DEF Lock, Idle, RunType
<1> QED BY <1>1, <1>2, Ending, Combine

LEMMA CrashStep == ASSUME InstallInv, Crash PROVE Good
<1>1. /\ TypeOK' /\ ManifestInv' /\ EditsInv' /\ PointerInv' /\ RefStep /\ OneUnfinished'
  BY RunOnly DEF Crash
<1>2. RunType' /\ run'.pc = "idle" BY StopFacts DEF Crash
<1> QED BY <1>1, <1>2, Ending, Combine

LEMMA RecoverStep == ASSUME InstallInv, Recover PROVE Good
<1> USE DEF InstallInv
<1>l. run.pc = "locked" BY DEF Recover, Now
<1>1. CASE UNCHANGED journal /\ Stop
  <2>1. /\ TypeOK' /\ ManifestInv' /\ EditsInv' /\ PointerInv' /\ RefStep /\ OneUnfinished'
    BY <1>1, RunOnly DEF Recover
  <2> QED BY <1>1, <2>1, StopFacts, Ending, Combine
<1>2. CASE UNCHANGED journal /\ Failed = {} /\ Pending = {} /\ Goto("begin")
  <2>1. /\ TypeOK' /\ ManifestInv' /\ EditsInv' /\ PointerInv' /\ RefStep /\ OneUnfinished'
        /\ Unfinished' = Unfinished
    BY <1>2, RunOnly DEF Recover
  <2>2. RunType' /\ run'.pc = "begin" BY <1>2, GotoFacts DEF Pcs
  <2>3. Failed' = {} BY <1>2 DEF Failed
  <2>4. UnfinishedInv' BY <1>2, <2>1, <2>2, <2>3, PlacesApart DEF UnfinishedInv, Unfinished
  <2>5. PlaceInv' /\ RollbackInv'
    BY <2>2 DEF PlaceInv, RollbackInv, BeforePlan, Promoting, Recording, Retaining, Cleaning,
      RollbackPlaces, AtTarget
  <2> QED BY <2>1, <2>2, <2>4, <2>5, Combine
<1>3. ASSUME NEW x \in Pending, Failed = {}, Status(x, "RECOVERY_FAILED"), Stop PROVE Good
  <2>0. x \in Txs /\ "RECOVERY_FAILED" \in JournalStates /\ journal[x].status = "IN_PROGRESS"
    BY DEF Pending, JournalStates
  <2>1. /\ journal' \in [Txs -> Journals]
        /\ \A y \in Txs \ {x} : journal'[y] = journal[y]
        /\ journal'[x].status = "RECOVERY_FAILED" /\ journal'[x].op = journal[x].op
        /\ journal'[x].planned = journal[x].planned /\ journal'[x].prior = journal[x].prior
        /\ journal'[x].new = journal[x].new /\ journal'[x].finalized = journal[x].finalized
    BY <1>3, <2>0, StatusFacts
  <2>2. UNCHANGED <<live, pointer, manifest, files, runtime, edits>> /\ runtime' \subseteq Txs
    BY DEF Recover, TypeOK
  <2>3. TypeOK' /\ ManifestInv' /\ EditsInv' BY <2>0, <2>1, <2>2, RowOnly
  <2>4. Unfinished' = Unfinished /\ OneUnfinished /\ OneUnfinished'
    <3>1. Unfinished' = Unfinished BY <2>0, <2>1 DEF Unfinished, Pending, Failed
    <3> QED BY <3>1 DEF OneUnfinished, UnfinishedInv
  <2>5. PointerInv'
    <3>1. \A y \in Txs : /\ journal'[y].op = journal[y].op
                         /\ journal'[y].planned = journal[y].planned
                         /\ journal'[y].finalized = journal[y].finalized
                         /\ journal'[y].status \in {journal[y].status, "RECOVERY_FAILED"}
      BY <2>1
    <3>2. pointer.tx # 0 => pointer.tx \in Txs BY ContentFacts DEF TypeOK, Pointers, Txs
    <3>3. runtime \subseteq Txs /\ Pending' \subseteq Pending BY <3>1 DEF TypeOK, Pending
    <3> QED BY <2>2, <3>1, <3>2, <3>3 DEF PointerInv
  <2>6. Still BY <2>0, <2>1, <2>2, <2>4, RowStill
  <2> QED BY <1>3, <2>2, <2>3, <2>4, <2>5, <2>6, StopFacts, Ending, Combine DEF RefStep
<1>4. ASSUME NEW x \in Pending, Failed = {},
             journal' = [journal EXCEPT ![x].attempted = TRUE],
             run' = [run EXCEPT !.pc = "decide", !.tx = x, !.handling = TRUE, !.recovering = TRUE]
      PROVE  Good
  <2>0. x \in Txs /\ journal[x].status = "IN_PROGRESS" BY DEF Pending
  <2>1. /\ journal' \in [Txs -> Journals]
        /\ \A y \in Txs \ {x} : journal'[y] = journal[y]
        /\ journal'[x].status = journal[x].status /\ journal'[x].op = journal[x].op
        /\ journal'[x].planned = journal[x].planned /\ journal'[x].prior = journal[x].prior
        /\ journal'[x].new = journal[x].new /\ journal'[x].finalized = journal[x].finalized
    <3>1. journal \in [Txs -> Journals] BY DEF TypeOK
    <3>2. journal' = [journal EXCEPT ![x] = [journal[x] EXCEPT !.attempted = TRUE]]
      BY <1>4, <2>0, <3>1
    <3>3. journal'[x] = [journal[x] EXCEPT !.attempted = TRUE] /\ journal[x] \in Journals
      BY <2>0, <3>1, <3>2
    <3>4. /\ journal'[x] \in Journals
          /\ journal'[x].status = journal[x].status /\ journal'[x].op = journal[x].op
          /\ journal'[x].planned = journal[x].planned /\ journal'[x].prior = journal[x].prior
          /\ journal'[x].new = journal[x].new /\ journal'[x].finalized = journal[x].finalized
      BY <3>3 DEF Journals
    <3> QED BY <3>1, <3>2, <3>4
  <2>2. UNCHANGED <<live, pointer, manifest, files, runtime, edits>> /\ runtime' \subseteq Txs
    BY DEF Recover, TypeOK
  <2>3. TypeOK' /\ ManifestInv' /\ EditsInv' BY <2>0, <2>1, <2>2, RowOnly
  <2>4. Unfinished' = Unfinished /\ Failed' = Failed /\ Pending' = Pending
        /\ OneUnfinished /\ OneUnfinished'
    <3>1. Failed' = Failed /\ Pending' = Pending BY <2>0, <2>1 DEF Pending, Failed
    <3> QED BY <3>1 DEF OneUnfinished, UnfinishedInv, Unfinished
  <2>5. PointerInv'
    <3>1. \A y \in Txs : /\ journal'[y].op = journal[y].op
                         /\ journal'[y].planned = journal[y].planned
                         /\ journal'[y].finalized = journal[y].finalized
                         /\ journal'[y].status = journal[y].status
      BY <2>1
    <3>2. pointer.tx # 0 => pointer.tx \in Txs BY ContentFacts DEF TypeOK, Pointers, Txs
    <3>3. runtime \subseteq Txs BY DEF TypeOK
    <3> QED BY <2>2, <2>4, <3>1, <3>2, <3>3 DEF PointerInv
  <2>6. Still BY <2>0, <2>1, <2>2, <2>4, RowStill
  <2>7. RunType' /\ run'.pc = "decide" /\ run'.tx = x /\ run'.handling
    <3>1. x \in 0 .. MaxTx BY <2>0, ContentFacts DEF Txs
    <3>2. "decide" \in Working BY DEF Working
    <3> QED BY <1>4, <3>1, <3>2 DEF RunType
  <2>8. UnfinishedInv'
    <3>1. Unfinished' \subseteq {x} BY <2>4 DEF OneUnfinished, Unfinished
    <3>2. X' = x BY <2>7 DEF X
    <3> QED BY <1>4, <2>0, <2>4, <2>7, <3>1, <3>2 DEF UnfinishedInv
  <2>9. PlaceInv'
    <3>1. X' = x BY <2>7 DEF X
    <3> QED BY <2>0, <2>1, <2>7, <3>1 DEF PlaceInv, BeforePlan, Promoting, Recording,
          Retaining, Cleaning, RollbackPlaces, AtTarget
  <2>10. RollbackInv' BY <2>7 DEF RollbackInv, RollbackPlaces
  <2> QED BY <2>2, <2>3, <2>5, <2>6, <2>7, <2>8, <2>9, <2>10, Combine DEF RefStep
<1>5. CASE Failed # {} \/ Cardinality(Pending) > 1
  BY <1>1, <1>5 DEF Recover
<1>6. CASE Failed = {} /\ Pending = {} /\ ~(Cardinality(Pending) > 1)
  BY <1>2, <1>6 DEF Recover
<1>7. CASE Failed = {} /\ Pending # {} /\ ~(Cardinality(Pending) > 1)
  <2> DEFINE x == CHOOSE y \in Pending : TRUE
  <2>1. x \in Pending BY <1>7
  <2>2. IF journal[x].attempted
        THEN Status(x, "RECOVERY_FAILED") /\ Stop
        ELSE /\ journal' = [journal EXCEPT ![x].attempted = TRUE]
             /\ run' = [run EXCEPT !.pc = "decide", !.tx = x, !.handling = TRUE, !.recovering = TRUE]
    BY <1>7 DEF Recover
  <2> HIDE DEF x
  <2> QED BY <1>3, <1>4, <1>7, <2>1, <2>2
<1> QED BY <1>5, <1>6, <1>7

LEMMA DecideStep == ASSUME InstallInv, Decide PROVE Good
<1> USE DEF InstallInv
<1>0. run.pc = "decide" /\ run.pc \in Working BY DEF Decide, Now, Working
<1>1. X \in Txs BY <1>0 DEF UnfinishedInv
<1>2. \/ journal[X].status = "IN_PROGRESS"
      \/ journal[X].status = "NOOP" /\ journal[X].planned = {}
  BY <1>0 DEF PlaceInv
<1>u. UNCHANGED <<live, pointer, manifest, files, runtime, edits>> BY DEF Decide
<1>3. CASE pointer.tx = X
  <2>1. journal[X].status = "IN_PROGRESS" /\ journal[X].planned # {}
    <3>1. X # 0 BY <1>1 DEF Txs
    <3> QED BY <1>2, <1>3, <3>1 DEF PointerInv
  <2>2. CASE GiveUp BY <1>0, <1>u, <2>1, <2>2, GivingUp
  <2>3. CASE ~GiveUp
    <3>1. UNCHANGED journal
      BY <1>3, <2>3 DEF Decide, GiveUp
    <3>2. /\ TypeOK' /\ ManifestInv' /\ EditsInv' /\ PointerInv' /\ RefStep /\ OneUnfinished'
          /\ Unfinished' = Unfinished /\ Failed' = Failed
      BY <1>u, <3>1, RunOnly DEF Failed
    <3>3. IF journal[X].op = "install" /\ ~journal[X].finalized THEN Goto("record") ELSE StartRetain
      BY <1>3, <2>3 DEF Decide, GiveUp
    <3>4. CASE journal[X].op = "install" /\ Goto("record")
      <4>1. RunType' /\ run'.pc = "record" /\ run'.tx = run.tx /\ run'.pc \in Working
        BY <3>4, GotoFacts DEF Pcs, Working, Recording
      <4>2. UnfinishedInv' BY <1>0, <3>2, <4>1, Continuing
      <4>3. X' = X BY <4>1 DEF X
      <4>4. PlaceInv'
        BY <1>3, <1>u, <2>1, <3>1, <3>4, <4>1, <4>3 DEF PlaceInv, BeforePlan, Promoting,
          Recording, Retaining, Cleaning, RollbackPlaces, AtTarget
      <4>5. RollbackInv' BY <4>1 DEF RollbackInv, RollbackPlaces
      <4> QED BY <3>2, <4>1, <4>2, <4>4, <4>5, Combine
    <3>5. CASE StartRetain /\ (journal[X].op = "install" => journal[X].finalized)
      <4>1. /\ RunType' /\ run'.pc = "retain" /\ run'.tx = run.tx /\ run'.pc \in Working
            /\ run'.at # 0 /\ Order[run'.at] \in journal[X].planned
        BY <1>1, <2>1, <3>5, StartRetainFacts DEF Working, Retaining
      <4>2. UnfinishedInv' BY <1>0, <3>2, <4>1, Continuing
      <4>3. X' = X /\ T' = Order[run'.at] BY <4>1 DEF X, T
      <4>4. Listed' BY <1>1, <1>u, <3>1, <3>5, <4>3 DEF Listed, PointerInv
      <4>5. PlaceInv'
        BY <1>3, <1>u, <2>1, <3>1, <4>1, <4>3, <4>4 DEF PlaceInv, BeforePlan, Promoting,
          Recording, Retaining, Cleaning, RollbackPlaces, AtTarget
      <4>6. RollbackInv' BY <4>1 DEF RollbackInv, RollbackPlaces
      <4> QED BY <3>2, <4>1, <4>2, <4>5, <4>6, Combine
    <3> QED BY <3>3, <3>4, <3>5
  <2> QED BY <2>2, <2>3
<1>4. CASE pointer.tx # X
  <2>1. StartRollback /\ UNCHANGED journal BY <1>4 DEF Decide
  <2>2. /\ TypeOK' /\ ManifestInv' /\ EditsInv' /\ PointerInv' /\ RefStep /\ OneUnfinished'
        /\ Unfinished' = Unfinished /\ Failed' = Failed
    BY <1>u, <2>1, RunOnly DEF Failed
  <2>3. Len(Order) + 1 \in 0 .. Len(Order) + 1 BY OrderFacts
  <2>4. /\ RunType' /\ run'.pc = "rollback" /\ run'.tx = run.tx /\ run'.handling = run.handling
        /\ run'.at \in Places
        /\ run'.at # 0 => Order[run'.at] \in journal[X].planned
        /\ \A j \in 1 .. Len(Order) :
             j < Len(Order) + 1 /\ Order[j] \in journal[X].planned => j <= run'.at
    BY <1>1, <2>1, <2>3, BackFacts DEF StartRollback
  <2>5. run'.pc \in Working BY <2>4 DEF Working, RollbackPlaces
  <2>6. UnfinishedInv' BY <1>0, <2>2, <2>4, <2>5, Continuing
  <2>7. X' = X /\ T' = Order[run'.at] BY <2>4 DEF X, T
  <2>8. run.handling BY <1>0 DEF PlaceInv
  <2>9. PlaceInv'
    BY <1>2, <1>4, <1>u, <2>1, <2>4, <2>7, <2>8 DEF PlaceInv, BeforePlan, Promoting,
      Recording, Retaining, Cleaning, RollbackPlaces, AtTarget
  <2>10. RollbackInv'
    <3>1. \A j \in 1 .. Len(Order) : Order[j] \in journal[X].planned => ~(j > run'.at)
      BY <2>4, OrderFacts DEF Places
    <3> QED BY <2>1, <2>4, <2>7, <3>1 DEF RollbackInv
  <2> QED BY <2>2, <2>4, <2>6, <2>9, <2>10, Combine
<1> QED BY <1>3, <1>4

-----------------------------------------------------------------------------
(* Up to the promotion.                                                    *)

\* What a previous installation owns are targets.
LEMMA PreviousFacts ==
  ASSUME TypeOK, ManifestInv PROVE Previous.owns \subseteq Targets
<1>1. NoManifest.owns = {} BY DEF NoManifest
<1>2. pointer.tx \in 0 .. MaxTx BY DEF TypeOK, Pointers
<1>3. Present(live[SupportTarget]) => live[SupportTarget].tx \in 0 .. MaxTx
  <2> SUFFICES ASSUME Present(live[SupportTarget]) PROVE live[SupportTarget].tx \in 0 .. MaxTx
    OBVIOUS
  <2>1. live[SupportTarget] \in Content BY SupportFacts, ContentFacts DEF TypeOK
  <2> QED BY <2>1 DEF Content
<1>4. pointer.status \in {"none", "committed", "uninstalled"} BY DEF TypeOK, Pointers
<1> QED BY <1>1, <1>2, <1>3, <1>4 DEF Previous, HasPrevious, ManifestInv

LEMMA PlanFacts ==
  ASSUME TypeOK, ManifestInv
  PROVE  /\ \A b \in Bundles, policy \in {"install", "preserve", "remove"} :
              InstallPlan(b, policy) \subseteq Targets /\ InstallPlan(b, policy) # {}
         /\ UninstallPlan \subseteq Targets /\ UninstallPlan # {}
<1>1. \A b \in Bundles, policy \in {"install", "preserve", "remove"} :
        SupportTarget \in InstallPlan(b, policy)
  BY SupportFacts DEF InstallPlan
<1>2. SupportTarget \in UninstallPlan BY SupportFacts DEF UninstallPlan
<1>3. UninstallPlan \subseteq Targets BY PreviousFacts DEF UninstallPlan
<1> QED BY <1>1, <1>2, <1>3 DEF InstallPlan

\* What is staged for a target is a content of no later edition than the live one.
LEMMA InstalledFacts ==
  ASSUME TypeOK, EditsInv, NEW t \in Targets, NEW b \in {0} \cup Bundles, NEW x \in 0 .. MaxTx
  PROVE  Installed(t, b, x) \in Content /\ Known(Installed(t, b, x), t)
<1>1. live[t] \in Contents BY DEF TypeOK
<1>2. Mark(t, b) \in {0} \cup Bundles BY DEF Mark
<1> DEFINE u == IF Merged(t) /\ Present(live[t]) THEN live[t].user ELSE 0
<1>3. u \in 0 .. MaxEdits
  <2>1. 0 \in 0 .. MaxEdits BY ContentFacts
  <2> QED BY <1>1, <2>1, ContentFacts
<1>4. (IF Kind[t] = "support" THEN x ELSE 0) \in 0 .. MaxTx BY ContentFacts
<1>5. Installed(t, b, x) = [user |-> u, bundle |-> Mark(t, b),
                            tx |-> IF Kind[t] = "support" THEN x ELSE 0]
  BY DEF Installed
<1>6. Installed(t, b, x) \in Content BY <1>2, <1>3, <1>4, <1>5 DEF Content
<1>7. Edits(Installed(t, b, x)) = u BY <1>5, <1>6, ContentFacts DEF Edits, Present
<1>8. u <= edits[t]
  <2>1. Edits(live[t]) <= edits[t] BY DEF EditsInv, Known
  <2>2. edits[t] \in Nat BY ContentFacts DEF TypeOK
  <2>3. Present(live[t]) => Edits(live[t]) = live[t].user BY DEF Edits
  <2> QED BY <2>1, <2>2, <2>3
<1> QED BY <1>6, <1>7, <1>8 DEF Known

LEMMA StageFacts ==
  ASSUME TypeOK, EditsInv
  PROVE  /\ \A b \in Bundles, policy \in {"install", "preserve", "remove"}, x \in Txs :
              /\ InstallStage(b, policy, x) \in [Targets -> Content \cup {Absent}]
              /\ \A t \in Targets : Known(InstallStage(b, policy, x)[t], t)
         /\ UninstallStage \in [Targets -> Content \cup {Absent}]
         /\ \A t \in Targets : Known(UninstallStage[t], t)
<1>1. \A t \in Targets : Known(Absent, t)
  <2>1. \A t \in Targets : edits[t] \in Nat BY ContentFacts DEF TypeOK
  <2> QED BY <2>1, ContentFacts DEF Known
<1>2. ASSUME NEW b \in Bundles, NEW policy \in {"install", "preserve", "remove"}, NEW x \in Txs
      PROVE  /\ InstallStage(b, policy, x) \in [Targets -> Content \cup {Absent}]
             /\ \A t \in Targets : Known(InstallStage(b, policy, x)[t], t)
  <2> DEFINE s == InstallStage(b, policy, x)
  <2>0. x \in 0 .. MaxTx BY ContentFacts DEF Txs
  <2>1. ASSUME NEW t \in Targets
        PROVE  s[t] \in Content \cup {Absent} /\ Known(s[t], t)
    <3>1. s[t] \in {Absent, Installed(t, b, x), Installed(t, 0, x)}
      BY DEF InstallStage
    <3> HIDE DEF s
    <3> QED BY <1>1, <2>0, <3>1, InstalledFacts
  <2>2. s = [t \in Targets |-> s[t]] BY DEF InstallStage
  <2> HIDE DEF s
  <2>3. s \in [Targets -> Content \cup {Absent}] BY <2>1, <2>2
  <2> QED BY <2>1, <2>3 DEF s
<1>3. ASSUME NEW t \in Targets
      PROVE  UninstallStage[t] \in Content \cup {Absent} /\ Known(UninstallStage[t], t)
  <2>0. 0 \in 0 .. MaxTx BY ContentFacts
  <2>1. UninstallStage[t] \in {Absent, Installed(t, 0, 0)} BY DEF UninstallStage
  <2> QED BY <1>1, <2>0, <2>1, InstalledFacts
<1>4. UninstallStage = [t \in Targets |-> UninstallStage[t]] BY DEF UninstallStage
<1>5. UninstallStage \in [Targets -> Content \cup {Absent}] BY <1>3, <1>4
<1> QED BY <1>2, <1>3, <1>5

LEMMA BeginStep ==
  ASSUME InstallInv, NEW op \in {"install", "uninstall"}, NEW b \in {0} \cup Bundles,
         op = "install" => b \in Bundles, NEW option \in Options, Begin(op, b, option)
  PROVE  Good
<1> USE DEF InstallInv
<1>0. run.pc = "begin" /\ UNCHANGED <<live, pointer, manifest, files, runtime, edits>>
  BY DEF Begin, Now
<1>1. CASE Stop /\ UNCHANGED journal
  <2>1. /\ TypeOK' /\ ManifestInv' /\ EditsInv' /\ PointerInv' /\ RefStep /\ OneUnfinished'
    BY <1>0, <1>1, RunOnly
  <2> QED BY <1>1, <2>1, StopFacts, Ending, Combine
<1>2. ASSUME NEW x \in Txs, journal[x].status = "NONE",
             journal' = [journal EXCEPT ![x] =
                           [NoJournal EXCEPT !.status = "IN_PROGRESS", !.op = op]],
             run' = [Idle EXCEPT !.pc = "preflight", !.tx = x, !.op = op, !.bundle = b,
                                 !.policy = option.policy, !.migrate = option.migrate]
      PROVE  Good
  <2>1. /\ journal' \in [Txs -> Journals]
        /\ \A y \in Txs \ {x} : journal'[y] = journal[y]
        /\ journal'[x].status = "IN_PROGRESS" /\ journal'[x].op = op
        /\ journal'[x].planned = {} /\ ~journal'[x].finalized
        /\ journal'[x].prior = Empty /\ journal'[x].new = Empty
    <3>1. [NoJournal EXCEPT !.status = "IN_PROGRESS", !.op = op] \in Journals
      BY DEF NoJournal, Journals, JournalStates, Empty, Contents
    <3>2. journal' \in [Txs -> Journals] BY <1>2, <3>1 DEF TypeOK
    <3> QED BY <1>2, <3>2 DEF TypeOK, NoJournal
  <2>2. RunType' /\ run'.pc = "preflight" /\ run'.tx = x /\ run'.op = op /\ run'.bundle = b
    <3>1. x \in 0 .. MaxTx /\ 0 \in Places BY ContentFacts, OrderFacts DEF Txs, Places
    <3>2. "preflight" \in Working BY DEF Working, BeforePlan
    <3>3. option.policy \in {"install", "preserve", "remove"} /\ option.migrate \in BOOLEAN
      BY InstallAssumption
    <3> QED BY <1>2, <3>1, <3>2, <3>3 DEF RunType, Idle
  <2>3. TypeOK' BY <1>0, <2>1 DEF TypeOK, files
  <2>4. ManifestInv' BY <1>0 DEF ManifestInv
  <2>5. EditsInv'
    <3>1. \A t \in Targets : Known(Empty[t], t)
      <4>1. \A t \in Targets : edits[t] \in Nat BY ContentFacts DEF TypeOK
      <4> QED BY <4>1, ContentFacts DEF Known, Empty
    <3>2. \A y \in Txs, t \in Targets :
            Known(journal'[y].prior[t], t) /\ Known(journal'[y].new[t], t)
      BY <2>1, <3>1 DEF EditsInv
    <3> QED BY <1>0, <3>2 DEF EditsInv, Known, files
  <2>6. Unfinished = {} /\ Unfinished' = {x} /\ Failed' = {} /\ Pending' = {x}
    <3>1. Unfinished = {} BY <1>0 DEF UnfinishedInv
    <3>2. Failed' = {} /\ Pending' = {x} BY <2>1, <3>1 DEF Unfinished, Pending, Failed
    <3> QED BY <3>1, <3>2 DEF Unfinished
  <2>7. UnfinishedInv' /\ OneUnfinished'
    <3>1. X' = x BY <2>2 DEF X
    <3>2. OneUnfinished' BY <2>6 DEF OneUnfinished
    <3> QED BY <2>2, <2>6, <3>1, <3>2 DEF UnfinishedInv
  <2>8. pointer.tx # x /\ x \notin runtime BY <1>2 DEF PointerInv, Txs
  <2>9. PointerInv'
    <3>1. \A y \in Txs \ {x} : journal'[y] = journal[y] BY <2>1
    <3>2. pointer.tx # 0 => pointer.tx \in Txs \ {x}
      BY <2>8, ContentFacts DEF TypeOK, Pointers, Txs
    <3>3. runtime \subseteq Txs \ {x} BY <2>8 DEF TypeOK
    <3>4. pointer' = pointer /\ runtime' = runtime BY <1>0
    <3>5. runtime' \cap Pending' = {} BY <2>6, <3>3, <3>4
    <3> QED BY <2>1, <3>1, <3>2, <3>3, <3>4, <3>5 DEF PointerInv
  <2>10. PlaceInv'
    <3>1. X' = x BY <2>2 DEF X
    <3> QED BY <1>0, <2>1, <2>2, <2>8, <3>1 DEF PlaceInv, BeforePlan, Promoting, Recording,
          Retaining, Cleaning, RollbackPlaces, AtTarget
  <2>11. RollbackInv' BY <2>2 DEF RollbackInv, RollbackPlaces
  <2>12. Still
    <3> SUFFICES ASSUME NEW t \in Targets PROVE Relied(t)' = Relied(t) BY DEF Still
    <3>1. Relied(t) = Part(live[t]) BY <2>6 DEF Relied
    <3>2. Relied(t)' = Part(live'[t]) BY <2>1, <2>6, <2>7, ReliedNextFacts
    <3> QED BY <1>0, <3>1, <3>2
  <2> QED BY <1>0, <2>2, <2>3, <2>4, <2>5, <2>7, <2>9, <2>10, <2>11, <2>12, Combine
        DEF RefStep
<1> QED
  <2>1. CASE Stop /\ UNCHANGED journal BY <1>1, <2>1
  <2>2. CASE ~(Stop /\ UNCHANGED journal)
    <3>1. PICK x \in Txs :
            /\ \A y \in Txs : journal[y].status = "NONE" <=> y >= x
            /\ journal' = [journal EXCEPT ![x] =
                             [NoJournal EXCEPT !.status = "IN_PROGRESS", !.op = op]]
            /\ run' = [Idle EXCEPT !.pc = "preflight", !.tx = x, !.op = op, !.bundle = b,
                                   !.policy = option.policy, !.migrate = option.migrate]
      BY <2>2 DEF Begin
    <3>2. x >= x BY ContentFacts DEF Txs
    <3>3. journal[x].status = "NONE" BY <3>1, <3>2
    <3> QED BY <1>2, <3>1, <3>3
  <2> QED BY <2>1, <2>2

\* A step to the next place whose command stays what it is.
LEMMA PreflightStep == ASSUME InstallInv, Preflight PROVE Good
<1> USE DEF InstallInv
<1>0. run.pc = "preflight" /\ run.pc \in Working
      /\ UNCHANGED <<live, pointer, journal, manifest, files, runtime, edits>>
  BY DEF Preflight, Now, Working, BeforePlan
<1>1. /\ TypeOK' /\ ManifestInv' /\ EditsInv' /\ PointerInv' /\ RefStep /\ OneUnfinished'
      /\ Unfinished' = Unfinished /\ Failed' = Failed
  BY <1>0, RunOnly DEF Failed
<1>2. journal[X].status = "IN_PROGRESS" BY <1>0 DEF PlaceInv, BeforePlan
<1>3. CASE Raise BY <1>0, <1>1, <1>2, <1>3, Raising, Combine
<1>4. CASE Goto("stage")
  <2>1. /\ RunType' /\ run'.pc = "stage" /\ run'.tx = run.tx /\ run'.op = run.op
        /\ run'.bundle = run.bundle /\ run'.pc \in Working
    BY <1>4, GotoFacts DEF Pcs, Working, BeforePlan
  <2>2. UnfinishedInv' BY <1>0, <1>1, <2>1, Continuing
  <2>3. X' = X BY <2>1 DEF X
  <2>4. PlaceInv'
    BY <1>0, <2>1, <2>3 DEF PlaceInv, BeforePlan, Promoting, Recording, Retaining, Cleaning,
      RollbackPlaces, AtTarget
  <2>5. RollbackInv' BY <2>1 DEF RollbackInv, RollbackPlaces
  <2> QED BY <1>1, <2>1, <2>2, <2>4, <2>5, Combine
<1> QED BY <1>3, <1>4 DEF Preflight

LEMMA StageStep == ASSUME InstallInv, Stage PROVE Good
<1> USE DEF InstallInv
<1>0. run.pc = "stage" /\ run.pc \in Working
      /\ UNCHANGED <<live, pointer, journal, rollback, retained, runtime, edits>>
  BY DEF Stage, Now, Working, BeforePlan
<1>1. X \in Txs /\ (run.op = "install" => run.bundle \in Bundles)
      /\ run.policy \in {"install", "preserve", "remove"} /\ run.op \in {"install", "uninstall"}
  BY <1>0 DEF UnfinishedInv, PlaceInv, BeforePlan, RunType
<1>2. PICK s \in [Targets -> Content \cup {Absent}] :
        stage' = [stage EXCEPT ![X] = s] /\ \A t \in Targets : Known(s[t], t)
  <2>1. CASE run.op = "install" BY <1>1, <2>1, StageFacts DEF Stage
  <2>2. CASE run.op # "install" BY <1>1, <2>2, StageFacts DEF Stage
  <2> QED BY <2>1, <2>2
<1>3. ManifestInv'
  <2>1. CASE UNCHANGED manifest BY <2>1 DEF ManifestInv
  <2>2. CASE run.op = "install"
    <3>1. X \in 0 .. MaxTx /\ X # 0 /\ 0 \in 0 .. MaxTx BY <1>1, ContentFacts DEF Txs
    <3>2. /\ manifest' = [x \in 0 .. MaxTx |-> manifest'[x]]
          /\ \A x \in 0 .. MaxTx \ {X} : manifest'[x] = manifest[x]
      BY <2>2, <3>1 DEF Stage, ManifestInv
    <3>3. manifest'[X].owns = Ships[run.bundle]
      <4> DEFINE m == [version |-> 3, bundle |-> run.bundle,
                       policy |-> run.policy = "install" \/ (run.policy = "preserve" /\ Previous.policy),
                       hadHooks |-> IF Previous.version = 3 THEN Previous.hadHooks
                                    ELSE \E t \in Targets : Kind[t] = "hooks" /\ live[t] # Absent,
                       migrated |-> run.migrate \/ Previous.migrated,
                       owns |-> Ships[run.bundle]]
      <4>1. manifest' = [manifest EXCEPT ![X] = m] BY <2>2 DEF Stage
      <4>2. m.owns = Ships[run.bundle] OBVIOUS
      <4> HIDE DEF m
      <4> QED BY <3>1, <4>1, <4>2 DEF ManifestInv
    <3>4. Ships[run.bundle] \subseteq Targets BY <1>1, <2>2, InstallAssumption
    <3> QED BY <3>1, <3>2, <3>3, <3>4 DEF ManifestInv
  <2> QED BY <1>1, <2>1, <2>2 DEF Stage
<1>4. /\ RunType' /\ run'.pc = "staged" /\ run'.tx = run.tx /\ run'.op = run.op
      /\ run'.bundle = run.bundle /\ run'.pc \in Working
  <2>1. run' = [run EXCEPT !.pc = "staged",
                  !.seen = [t \in {u \in Targets : Kind[u] = "hooks"} |-> live[t]]]
    BY DEF Stage
  <2>2. [t \in {u \in Targets : Kind[u] = "hooks"} |-> live[t]] \in [Hooks -> Contents]
    BY DEF Hooks, TypeOK
  <2>3. "staged" \in Working BY DEF Working, BeforePlan
  <2> QED BY <2>1, <2>2, <2>3 DEF RunType
<1>5. TypeOK' BY <1>0, <1>1, <1>2 DEF TypeOK, Stage
<1>6. EditsInv'
  <2>1. \A x \in Txs, t \in Targets : Known(stage'[x][t], t) BY <1>2 DEF EditsInv, TypeOK
  <2> QED BY <1>0, <2>1 DEF EditsInv, Known
<1>7. PointerInv' /\ Unfinished' = Unfinished /\ Failed' = Failed
  BY <1>0 DEF PointerInv, Pending, Unfinished, Failed
<1>8. UnfinishedInv' BY <1>0, <1>4, <1>7, Continuing
<1>9. RefStep BY <1>0 DEF RefStep, Still, Relied, Unfinished, Pending, Failed
<1>10. X' = X BY <1>4 DEF X
<1>11. PlaceInv'
  BY <1>0, <1>4, <1>10 DEF PlaceInv, BeforePlan, Promoting, Recording, Retaining, Cleaning,
    RollbackPlaces, AtTarget
<1>12. RollbackInv' BY <1>4 DEF RollbackInv, RollbackPlaces
<1> QED BY <1>3, <1>4, <1>5, <1>6, <1>7, <1>8, <1>9, <1>11, <1>12, Combine

LEMMA NoopRecordStep == ASSUME InstallInv, NoopRecord PROVE Good
<1> USE DEF InstallInv
<1>0. run.pc = "staged" /\ run.pc \in Working
      /\ UNCHANGED <<live, pointer, journal, manifest, files, edits>>
      /\ runtime' = runtime \cup {pointer.tx} /\ Goto("noop")
  BY DEF NoopRecord, Now, Working, BeforePlan
<1>1. X \in Txs /\ Unfinished \subseteq {X} BY <1>0 DEF UnfinishedInv
<1>2. /\ journal[X].status = "IN_PROGRESS" /\ journal[X].planned = {} /\ pointer.tx # X
  BY <1>0 DEF PlaceInv, BeforePlan
\* The installation that was found is the committed one: before the first commit
\* the support tree is of no transaction, and not of version 3.
<1>3. pointer.status = "committed"
  <2>1. HasPrevious /\ Previous.version = 3 BY DEF NoopRecord, AlreadyInstalled
  <2> SUFFICES ASSUME pointer.status = "none", Present(live[SupportTarget]) PROVE FALSE
    BY <2>1 DEF HasPrevious
  <2>2. live[SupportTarget] \in Content BY SupportFacts, ContentFacts DEF TypeOK
  <2>3. Relied(SupportTarget) = Part(live[SupportTarget])
    <3>1. \A x \in Unfinished : SupportTarget \notin journal[x].planned BY <1>1, <1>2
    <3> QED BY <3>1, SupportFacts, ReliedFacts DEF UnfinishedInv
  <2>4. Part(live[SupportTarget])[2] = 0 BY <2>3, SupportFacts DEF OriginInv
  <2>5. live[SupportTarget].tx = 0 BY <2>2, <2>4, ContentFacts DEF Part
  <2>6. Previous = manifest[0] BY <2>1, <2>5 DEF Previous
  <2> QED BY <2>1, <2>6 DEF ManifestInv
<1>4. pointer.tx \in Txs /\ journal[pointer.tx].op = "install"
      /\ journal[pointer.tx].status \in {"IN_PROGRESS", "COMMITTED", "RECOVERY_FAILED"}
  BY <1>3, ContentFacts DEF PointerInv, TypeOK, Pointers, Txs
<1>5. pointer.tx \notin Pending BY <1>1, <1>2 DEF Unfinished
<1>6. TypeOK' /\ ManifestInv' /\ EditsInv'
  <2>1. journal \in [Txs -> Journals] /\ runtime' \subseteq Txs BY <1>0, <1>4 DEF TypeOK
  <2> QED BY <1>0, <1>1, <2>1, RowOnly
<1>7. PointerInv' /\ Unfinished' = Unfinished /\ Failed' = Failed
  <2>1. Pending' = Pending /\ Unfinished' = Unfinished /\ Failed' = Failed
    BY <1>0 DEF Pending, Unfinished, Failed
  <2>2. runtime' \cap Pending = runtime \cap Pending BY <1>0, <1>5
  <2> QED BY <1>0, <1>4, <2>1, <2>2 DEF PointerInv
<1>8. /\ RunType' /\ run'.pc = "noop" /\ run'.tx = run.tx /\ run'.op = run.op
      /\ run'.bundle = run.bundle /\ run'.pc \in Working
  BY <1>0, GotoFacts DEF Pcs, Working, BeforePlan
<1>9. UnfinishedInv' BY <1>0, <1>7, <1>8, Continuing
<1>10. RefStep BY <1>0 DEF RefStep, Still, Relied, Unfinished, Pending, Failed
<1>11. X' = X BY <1>8 DEF X
<1>12. PlaceInv'
  BY <1>0, <1>8, <1>11 DEF PlaceInv, BeforePlan, Promoting, Recording, Retaining, Cleaning,
    RollbackPlaces, AtTarget
<1>13. RollbackInv' BY <1>8 DEF RollbackInv, RollbackPlaces
<1> QED BY <1>6, <1>7, <1>8, <1>9, <1>10, <1>12, <1>13, Combine

\* The transaction of the command ends: what is left to do is cleaning.
LEMMA EndingStep ==
  ASSUME InstallInv, run.pc \in Working, X \in Txs,
         NEW s \in {"NOOP", "ROLLED_BACK", "COMMITTED"}, Status(X, s),
         UNCHANGED <<live, pointer, manifest, files, runtime, edits>>,
         s # "COMMITTED" => X # pointer.tx /\ X \notin runtime,
         s = "COMMITTED" => Listed /\ X = pointer.tx,
         \/ journal[X].planned = {}
         \/ X = pointer.tx
         \/ \A t \in journal[X].planned : Part(live[t]) = Part(journal[X].prior[t])
  PROVE  /\ TypeOK' /\ ManifestInv' /\ EditsInv' /\ PointerInv' /\ RefStep
         /\ Unfinished' = {} /\ Failed' = {} /\ OneUnfinished'
         /\ journal'[X].status = s /\ journal'[X].planned = journal[X].planned
         /\ journal'[X].op = journal[X].op
<1> USE DEF InstallInv
<1>0. Unfinished \subseteq {X} /\ s \in JournalStates BY DEF UnfinishedInv, JournalStates
<1>1. /\ journal' \in [Txs -> Journals]
      /\ \A y \in Txs \ {X} : journal'[y] = journal[y]
      /\ journal'[X].status = s /\ journal'[X].op = journal[X].op
      /\ journal'[X].planned = journal[X].planned /\ journal'[X].prior = journal[X].prior
      /\ journal'[X].new = journal[X].new /\ journal'[X].finalized = journal[X].finalized
  BY <1>0, StatusFacts
<1>2. runtime' \subseteq Txs BY DEF TypeOK
<1>3. TypeOK' /\ ManifestInv' /\ EditsInv' BY <1>1, <1>2, RowOnly
<1>4. Unfinished' = {} /\ Failed' = {} /\ Pending' = {}
  BY <1>0, <1>1 DEF Unfinished, Pending, Failed
<1>5. OneUnfinished' BY <1>4 DEF OneUnfinished
<1>6. PointerInv'
  <2>1. pointer.tx # 0 => pointer.tx \in Txs BY ContentFacts DEF TypeOK, Pointers, Txs
  <2>2. runtime \subseteq Txs BY DEF TypeOK
  <2>3. \A y \in Txs : journal'[y].op = journal[y].op /\ journal'[y].planned = journal[y].planned
                       /\ journal'[y].finalized = journal[y].finalized
                       /\ (y # X => journal'[y].status = journal[y].status)
    BY <1>1
  <2>4. /\ pointer.status = "none" <=> pointer.tx = 0
        /\ pointer.tx # 0 =>
             /\ journal'[pointer.tx].status \in {"IN_PROGRESS", "COMMITTED", "RECOVERY_FAILED"}
             /\ journal'[pointer.tx].planned # {}
             /\ journal'[pointer.tx].op = IF pointer.status = "committed" THEN "install" ELSE "uninstall"
    BY <1>1, <2>1, <2>3 DEF PointerInv
  <2>5. \A x \in runtime : journal'[x].op = "install"
                        /\ journal'[x].status \in {"IN_PROGRESS", "COMMITTED", "RECOVERY_FAILED"}
    BY <1>1, <2>2, <2>3 DEF PointerInv
  <2>6. \A x \in Txs :
          /\ journal'[x].finalized => x \in runtime
          /\ journal'[x].op = "install" /\ journal'[x].status = "COMMITTED" => x \in runtime
    BY <1>1, <2>3 DEF PointerInv, Listed
  <2> QED BY <1>4, <2>4, <2>5, <2>6 DEF PointerInv
<1>7. Still BY <1>1, <1>5, RowStill DEF UnfinishedInv
<1> QED BY <1>1, <1>3, <1>4, <1>5, <1>6, <1>7 DEF RefStep

LEMMA NoopStep == ASSUME InstallInv, Noop PROVE Good
<1> USE DEF InstallInv
<1>0. run.pc = "noop" /\ run.pc \in Working
      /\ UNCHANGED <<live, pointer, manifest, files, runtime, edits>>
      /\ Status(X, "NOOP") /\ Goto("clean_stage")
  BY DEF Noop, Now, Working, BeforePlan
<1>1. X \in Txs BY <1>0 DEF UnfinishedInv
<1>2. /\ journal[X].status = "IN_PROGRESS" /\ journal[X].planned = {} /\ pointer.tx # X
  BY <1>0 DEF PlaceInv, BeforePlan
<1>3. X \notin runtime BY <1>1, <1>2 DEF PointerInv, Pending
<1>4. /\ TypeOK' /\ ManifestInv' /\ EditsInv' /\ PointerInv' /\ RefStep
      /\ Unfinished' = {} /\ Failed' = {} /\ OneUnfinished'
      /\ journal'[X].status = "NOOP" /\ journal'[X].planned = journal[X].planned
  BY <1>0, <1>1, <1>2, <1>3, EndingStep
<1>5. /\ RunType' /\ run'.pc = "clean_stage" /\ run'.tx = run.tx /\ run'.pc \in Working
  BY <1>0, GotoFacts DEF Pcs, Working, Cleaning
<1>6. X' = X BY <1>5 DEF X
<1>7. UnfinishedInv' BY <1>1, <1>4, <1>5, <1>6, PlacesApart DEF UnfinishedInv
<1>8. PlaceInv'
  BY <1>2, <1>4, <1>5, <1>6 DEF PlaceInv, BeforePlan, Promoting, Recording, Retaining,
    Cleaning, RollbackPlaces, AtTarget
<1>9. RollbackInv' BY <1>5 DEF RollbackInv, RollbackPlaces
<1> QED BY <1>4, <1>5, <1>7, <1>8, <1>9, Combine

\* The row of a transaction whose plan is recorded.
Planned(r, plan, prior, new) ==
  [r EXCEPT !.planned = plan, !.prior = prior, !.new = new, !.committing = TRUE]
LEMMA PlannedFacts ==
  ASSUME NEW r \in Journals, NEW plan \in SUBSET Targets, NEW prior \in [Targets -> Contents],
         NEW new \in [Targets -> Content \cup {Absent}]
  PROVE  LET q == Planned(r, plan, prior, new)
         IN  /\ q \in Journals /\ q.status = r.status /\ q.op = r.op
             /\ q.planned = plan /\ q.prior = prior /\ q.new = new /\ q.finalized = r.finalized
BY DEF Planned, Journals

LEMMA PrepareStep == ASSUME InstallInv, Prepare PROVE Good
<1> USE DEF InstallInv
<1>0. run.pc = "staged" /\ run.pc \in Working
      /\ UNCHANGED <<live, pointer, manifest, files, runtime, edits>>
  BY DEF Prepare, Now, Working, BeforePlan
<1>1. X \in Txs /\ Unfinished \subseteq {X} /\ Failed = {}
  BY <1>0, PlacesApart DEF UnfinishedInv
<1>2. /\ journal[X].status = "IN_PROGRESS" /\ journal[X].planned = {} /\ pointer.tx # X
      /\ journal[X].op = run.op /\ (run.op = "install" => run.bundle \in Bundles)
  BY <1>0 DEF PlaceInv, BeforePlan
<1>3. CASE Raise /\ UNCHANGED journal
  <2>1. /\ TypeOK' /\ ManifestInv' /\ EditsInv' /\ PointerInv' /\ RefStep
    BY <1>0, <1>3, RunOnly
  <2> QED BY <1>0, <1>2, <1>3, <2>1, Raising, Combine
<1>4. ASSUME NEW plan \in SUBSET Targets, plan # {},
             journal' = [journal EXCEPT ![X].planned = plan, ![X].prior = live,
                                        ![X].new = stage[X], ![X].committing = TRUE],
             NEW i \in Places, Following(plan, 0, i),
             run' = [Idle EXCEPT !.pc = "promote", !.tx = X, !.at = i, !.op = run.op]
      PROVE  Good
  <2>1. i # 0 /\ Order[i] \in plan
    <3>1. 0 \in Places BY OrderFacts DEF Places
    <3> QED BY <1>4, <3>1, FollowingFacts
  <2>2. /\ journal' \in [Txs -> Journals]
        /\ \A y \in Txs \ {X} : journal'[y] = journal[y]
        /\ journal'[X].status = journal[X].status /\ journal'[X].op = journal[X].op
        /\ journal'[X].planned = plan /\ journal'[X].prior = live
        /\ journal'[X].new = stage[X] /\ journal'[X].finalized = journal[X].finalized
    <3>1. journal \in [Txs -> Journals] BY DEF TypeOK
    <3>2. journal' = [journal EXCEPT ![X] = Planned(journal[X], plan, live, stage[X])]
      BY <1>1, <1>4, <3>1 DEF Planned
    <3>3. journal'[X] = Planned(journal[X], plan, live, stage[X]) /\ journal[X] \in Journals
      BY <1>1, <3>1, <3>2
    <3>4. live \in [Targets -> Contents] /\ stage[X] \in [Targets -> Content \cup {Absent}]
      BY <1>1 DEF TypeOK
    <3>5. /\ journal'[X] \in Journals
          /\ journal'[X].status = journal[X].status /\ journal'[X].op = journal[X].op
          /\ journal'[X].planned = plan /\ journal'[X].prior = live
          /\ journal'[X].new = stage[X] /\ journal'[X].finalized = journal[X].finalized
      BY <3>3, <3>4, PlannedFacts
    <3> QED BY <1>1, <3>1, <3>2, <3>5
  <2>3. TypeOK' BY <1>0, <2>2 DEF TypeOK, files
  <2>4. ManifestInv' BY <1>0 DEF ManifestInv
  <2>5. EditsInv'
    <3>1. \A y \in Txs, t \in Targets :
            Known(journal'[y].prior[t], t) /\ Known(journal'[y].new[t], t)
      BY <1>1, <2>2 DEF EditsInv
    <3> QED BY <1>0, <3>1 DEF EditsInv, Known, files
  <2>6. Unfinished' = Unfinished /\ Failed' = Failed /\ Pending' = Pending
    BY <1>1, <2>2 DEF Unfinished, Pending, Failed
  <2>7. OneUnfinished /\ OneUnfinished' BY <2>6 DEF OneUnfinished, UnfinishedInv
  <2>8. PointerInv'
    <3>1. pointer.tx # 0 => pointer.tx \in Txs \ {X}
      BY <1>2, ContentFacts DEF TypeOK, Pointers, Txs
    <3>2. runtime \subseteq Txs BY DEF TypeOK
    <3>3. \A y \in Txs : journal'[y].op = journal[y].op /\ journal'[y].status = journal[y].status
                         /\ journal'[y].finalized = journal[y].finalized
                         /\ (y # X => journal'[y].planned = journal[y].planned)
      BY <2>2
    <3> QED BY <1>0, <2>6, <3>1, <3>2, <3>3 DEF PointerInv
  <2>9. /\ RunType' /\ run'.pc = "promote" /\ run'.tx = X /\ run'.at = i /\ run'.op = run.op
        /\ run'.pc \in Working
    <3>1. X \in 0 .. MaxTx BY <1>1, ContentFacts DEF Txs
    <3>2. "promote" \in Working BY DEF Working, Promoting
    <3>3. run.op \in {"install", "uninstall"} BY DEF RunType
    <3> QED BY <1>4, <3>1, <3>2, <3>3 DEF RunType, Idle
  <2>10. X' = X /\ T' = Order[i] BY <2>9 DEF X, T
  <2>11. UnfinishedInv' BY <1>0, <2>6, <2>9, <2>10, Continuing DEF X
  <2>12. PlaceInv'
    BY <1>0, <1>2, <1>4, <2>1, <2>2, <2>9, <2>10 DEF PlaceInv, BeforePlan, Promoting,
      Recording, Retaining, Cleaning, RollbackPlaces, AtTarget
  <2>13. RollbackInv' BY <2>9 DEF RollbackInv, RollbackPlaces
  <2>14. Still
    <3> SUFFICES ASSUME NEW t \in Targets PROVE Relied(t)' = Relied(t) BY DEF Still
    <3>1. Unfinished = {X} BY <1>1, <1>2 DEF Unfinished, Pending
    <3>2. Relied(t) = Part(live[t]) BY <1>2, <2>7, <3>1, ReliedFacts
    <3>3. Relied(t)' = Part(live[t])
      <4>1. pointer'.tx # X /\ live' = live BY <1>0, <1>2
      <4> QED BY <2>2, <2>6, <2>7, <3>1, <4>1, ReliedNextFacts
    <3> QED BY <3>2, <3>3
  <2> QED BY <1>0, <2>3, <2>4, <2>5, <2>8, <2>9, <2>11, <2>12, <2>13, <2>14, Combine
        DEF RefStep
<1> QED
  <2> DEFINE plan == IF run.op = "install" THEN InstallPlan(run.bundle, run.policy)
                     ELSE UninstallPlan
  <2>1. plan \in SUBSET Targets /\ plan # {}
    <3>1. run.policy \in {"install", "preserve", "remove"} BY DEF RunType
    <3> QED BY <1>2, <3>1, PlanFacts
  <2>2. \/ Raise /\ UNCHANGED journal
        \/ /\ journal' = [journal EXCEPT ![X].planned = plan, ![X].prior = live,
                                         ![X].new = stage[X], ![X].committing = TRUE]
           /\ \E i \in Places : Following(plan, 0, i)
                /\ run' = [Idle EXCEPT !.pc = "promote", !.tx = X, !.at = i, !.op = run.op]
    BY DEF Prepare
  <2> HIDE DEF plan
  <2> QED BY <1>3, <1>4, <2>1, <2>2

-----------------------------------------------------------------------------
(* Promotion.                                                              *)

LEMMA SlotFacts ==
  ASSUME NEW S, NEW f \in [Txs -> [Targets -> S]], NEW x \in Txs, NEW t \in Targets, NEW c \in S,
         NEW g, g = [f EXCEPT ![x][t] = c]
  PROVE  /\ g \in [Txs -> [Targets -> S]] /\ g[x][t] = c
         /\ \A y \in Txs, u \in Targets : y # x \/ u # t => g[y][u] = f[y][u]
         /\ \A y \in Txs \ {x} : g[y] = f[y]
<1>1. g = [f EXCEPT ![x] = [f[x] EXCEPT ![t] = c]] OBVIOUS
<1>2. [f[x] EXCEPT ![t] = c] \in [Targets -> S] OBVIOUS
<1>3. g[x] = [f[x] EXCEPT ![t] = c] /\ \A y \in Txs \ {x} : g[y] = f[y] BY <1>1
<1>4. g \in [Txs -> [Targets -> S]] BY <1>1, <1>2
<1>5. g[x][t] = c /\ \A u \in Targets \ {t} : g[x][u] = f[x][u] BY <1>3
<1> QED BY <1>3, <1>4, <1>5

\* A step at target T: its live content may change while the transaction is open,
\* and what the workspaces and backups hold.
LEMMA TargetStep ==
  ASSUME InstallInv, X \in Txs, NEW t \in Targets, t \in journal[X].planned,
         UNCHANGED <<pointer, journal, manifest, workspace, runtime, edits>>,
         live' \in [Targets -> Contents], \A u \in Targets \ {t} : live'[u] = live[u],
         Known(live'[t], t),
         live' = live \/ (journal[X].status = "IN_PROGRESS" /\ pointer.tx # X),
         stage' \in [Txs -> [Targets -> Content \cup {Absent}]],
         \A x \in Txs, u \in Targets : Known(stage'[x][u], u),
         rollback' \in [Txs -> [Targets -> Contents]],
         \A x \in Txs, u \in Targets : Known(rollback'[x][u], u),
         retained' \in [Txs -> [Targets -> Contents]]
  PROVE  /\ TypeOK' /\ ManifestInv' /\ EditsInv' /\ PointerInv' /\ RefStep
         /\ Unfinished' = Unfinished /\ Failed' = Failed /\ OneUnfinished'
<1> USE DEF InstallInv
<1>1. TypeOK' BY DEF TypeOK
<1>2. ManifestInv' BY DEF ManifestInv
<1>3. EditsInv'
  <2>1. \A u \in Targets : Known(live'[u], u) BY DEF EditsInv
  <2> QED BY <2>1 DEF EditsInv, Known
<1>4. PointerInv' /\ Unfinished' = Unfinished /\ Failed' = Failed
  BY DEF PointerInv, Pending, Unfinished, Failed
<1>5. OneUnfinished /\ OneUnfinished' BY <1>4 DEF OneUnfinished, UnfinishedInv
<1>6. Still
  <2>1. CASE live' = live BY <2>1 DEF Still, Relied, Unfinished, Pending, Failed
  <2>2. CASE journal[X].status = "IN_PROGRESS" /\ pointer.tx # X
    <3>1. X \in Unfinished BY <2>2 DEF Unfinished, Pending
    <3> QED BY <1>5, <2>2, <3>1, LiveStill
  <2> QED BY <2>1, <2>2
<1> QED BY <1>1, <1>2, <1>3, <1>4, <1>5, <1>6 DEF RefStep

\* On to the next step of the same target.
LEMMA SameTarget ==
  ASSUME InstallInv, UNCHANGED <<pointer, journal, runtime>>, NEW pc, Goto(pc),
         \/ run.pc \in Promoting /\ pc \in Promoting
         \/ run.pc \in Retaining /\ pc \in Retaining
  PROVE  RunType' /\ UnfinishedInv' /\ PlaceInv' /\ RollbackInv'
<1> USE DEF InstallInv
<1>1. run.pc \in Working /\ pc \in Working /\ pc \in Pcs BY DEF Working, Pcs
<1>2. /\ RunType' /\ run'.pc = pc /\ run'.tx = run.tx /\ run'.at = run.at /\ run'.op = run.op
  BY <1>1, GotoFacts
<1>3. Unfinished' = Unfinished /\ Failed' = Failed BY DEF Unfinished, Pending, Failed
<1>4. UnfinishedInv' BY <1>1, <1>2, <1>3, Continuing
<1>5. X' = X /\ T' = T BY <1>2 DEF X, T
<1>6. PlaceInv'
  <2>1. Listed' = Listed BY <1>5 DEF Listed
  <2>2. CASE run.pc \in Promoting /\ pc \in Promoting
    BY <1>2, <1>5, <2>2 DEF PlaceInv, BeforePlan, Promoting, Recording, Retaining,
      Cleaning, RollbackPlaces, AtTarget
  <2>3. CASE run.pc \in Retaining /\ pc \in Retaining
    BY <1>2, <1>5, <2>1, <2>3 DEF PlaceInv, BeforePlan, Promoting, Recording, Retaining,
      Cleaning, RollbackPlaces, AtTarget
  <2> QED BY <2>2, <2>3
<1>7. RollbackInv' BY <1>2 DEF RollbackInv, RollbackPlaces, Promoting, Retaining
<1> QED BY <1>2, <1>4, <1>6, <1>7

\* The transaction while its targets are promoted.
LEMMA PromotingFacts ==
  ASSUME InstallInv, run.pc \in Promoting
  PROVE  /\ run.pc \in Working /\ X \in Txs /\ T \in Targets /\ T \in journal[X].planned
         /\ journal[X].status = "IN_PROGRESS" /\ pointer.tx # X /\ journal[X].op = run.op
         /\ journal[X].prior[T] \in Contents /\ Known(journal[X].prior[T], T)
         /\ journal[X].new[T] \in Content \cup {Absent} /\ Known(journal[X].new[T], T)
<1> USE DEF InstallInv
<1>1. run.pc \in AtTarget /\ run.pc \in Working BY DEF AtTarget, Working
<1>2. X \in Txs /\ T \in Targets /\ T \in journal[X].planned BY <1>1, TargetFacts
<1>3. journal[X].status = "IN_PROGRESS" /\ pointer.tx # X /\ journal[X].op = run.op
  BY DEF PlaceInv
<1>4. journal[X] \in Journals BY <1>2 DEF TypeOK
<1>5. journal[X].prior[T] \in Contents /\ journal[X].new[T] \in Content \cup {Absent}
  BY <1>2, <1>4 DEF Journals
<1> QED BY <1>1, <1>2, <1>3, <1>5 DEF EditsInv

LEMMA KnownNothing ==
  ASSUME TypeOK, NEW t \in Targets PROVE Known(Absent, t) /\ Known(Partial, t)
<1>1. edits[t] \in Nat BY ContentFacts DEF TypeOK
<1> QED BY <1>1, ContentFacts DEF Known

LEMMA MoveOldStep == ASSUME InstallInv, MoveOld PROVE Good
<1> USE DEF InstallInv
<1>0. run.pc = "promote" /\ run.pc \in Promoting
      /\ UNCHANGED <<pointer, journal, manifest, stage, workspace, retained, runtime, edits>>
  BY DEF MoveOld, Now, Promoting
<1>1. /\ run.pc \in Working /\ X \in Txs /\ T \in Targets /\ T \in journal[X].planned
      /\ journal[X].status = "IN_PROGRESS" /\ pointer.tx # X
      /\ journal[X].prior[T] \in Contents /\ Known(journal[X].prior[T], T)
  BY <1>0, PromotingFacts
<1>2. /\ live \in [Targets -> Contents] /\ \A u \in Targets : Known(live[u], u)
      /\ stage \in [Txs -> [Targets -> Content \cup {Absent}]]
      /\ \A x \in Txs, u \in Targets : Known(stage[x][u], u)
      /\ rollback \in [Txs -> [Targets -> Contents]]
      /\ \A x \in Txs, u \in Targets : Known(rollback[x][u], u)
      /\ retained \in [Txs -> [Targets -> Contents]]
  BY DEF TypeOK, EditsInv
<1>3. live' \in [Targets -> Contents] /\ (\A u \in Targets \ {T} : live'[u] = live[u])
      /\ Known(live'[T], T)
  <2>1. live' = live \/ live' = [live EXCEPT ![T] = Absent] BY DEF MoveOld
  <2>2. CASE live' = live BY <1>1, <1>2, <2>2
  <2>3. CASE live' = [live EXCEPT ![T] = Absent]
    BY <1>1, <1>2, <2>3, KnownNothing DEF Contents
  <2> QED BY <2>1, <2>2, <2>3
<1>4. rollback' \in [Txs -> [Targets -> Contents]]
      /\ \A x \in Txs, u \in Targets : Known(rollback'[x][u], u)
  <2>1. rollback' = rollback
        \/ \E c \in {Partial, journal[X].prior[T]} : rollback' = [rollback EXCEPT ![X][T] = c]
    BY DEF MoveOld
  <2>2. CASE rollback' = rollback BY <1>2, <2>2
  <2>3. ASSUME NEW c \in {Partial, journal[X].prior[T]}, rollback' = [rollback EXCEPT ![X][T] = c]
        PROVE  /\ rollback' \in [Txs -> [Targets -> Contents]]
               /\ \A x \in Txs, u \in Targets : Known(rollback'[x][u], u)
    <3>1. c \in Contents /\ Known(c, T) BY <1>1, KnownNothing DEF Contents
    <3>2. /\ rollback' \in [Txs -> [Targets -> Contents]] /\ rollback'[X][T] = c
          /\ \A y \in Txs, u \in Targets : y # X \/ u # T => rollback'[y][u] = rollback[y][u]
      BY <1>1, <1>2, <2>3, <3>1, SlotFacts
    <3> QED BY <1>2, <3>1, <3>2
  <2> QED BY <2>1, <2>2, <2>3
<1>5. /\ TypeOK' /\ ManifestInv' /\ EditsInv' /\ PointerInv' /\ RefStep
  <2>1. \A x \in Txs, u \in Targets : Known(stage'[x][u], u) BY <1>0, <1>2
  <2> QED BY <1>0, <1>1, <1>2, <1>3, <1>4, <2>1, TargetStep
<1>6. RunType' /\ UnfinishedInv' /\ PlaceInv' /\ RollbackInv'
  <2>1. Raise \/ Goto("moved") \/ Goto("copying") BY DEF MoveOld
  <2>2. CASE Raise BY <1>0, <1>1, <2>2, Raising
  <2>3. CASE Goto("moved") BY <1>0, <2>3, SameTarget DEF Promoting
  <2>4. CASE Goto("copying") BY <1>0, <2>4, SameTarget DEF Promoting
  <2> QED BY <2>1, <2>2, <2>3, <2>4
<1> QED BY <1>5, <1>6, Combine

LEMMA CopyOldStep == ASSUME InstallInv, CopyOld PROVE Good
<1> USE DEF InstallInv
<1>0. run.pc = "copying" /\ run.pc \in Promoting
      /\ UNCHANGED <<live, pointer, journal, manifest, stage, workspace, retained, runtime, edits>>
  BY DEF CopyOld, Now, Promoting
<1>1. /\ run.pc \in Working /\ X \in Txs /\ T \in Targets /\ T \in journal[X].planned
      /\ journal[X].status = "IN_PROGRESS"
  BY <1>0, PromotingFacts
<1>2. /\ live \in [Targets -> Contents] /\ \A u \in Targets : Known(live[u], u)
      /\ stage \in [Txs -> [Targets -> Content \cup {Absent}]]
      /\ \A x \in Txs, u \in Targets : Known(stage[x][u], u)
      /\ rollback \in [Txs -> [Targets -> Contents]]
      /\ \A x \in Txs, u \in Targets : Known(rollback[x][u], u)
      /\ retained \in [Txs -> [Targets -> Contents]]
  BY DEF TypeOK, EditsInv
<1>3. rollback' \in [Txs -> [Targets -> Contents]]
      /\ \A x \in Txs, u \in Targets : Known(rollback'[x][u], u)
  <2>1. rollback' = [rollback EXCEPT ![X][T] = live[T]] BY DEF CopyOld
  <2>2. live[T] \in Contents /\ Known(live[T], T) BY <1>1, <1>2
  <2>3. /\ rollback' \in [Txs -> [Targets -> Contents]] /\ rollback'[X][T] = live[T]
        /\ \A y \in Txs, u \in Targets : y # X \/ u # T => rollback'[y][u] = rollback[y][u]
    BY <1>1, <1>2, <2>1, <2>2, SlotFacts
  <2> QED BY <1>2, <2>2, <2>3
<1>4. /\ TypeOK' /\ ManifestInv' /\ EditsInv' /\ PointerInv' /\ RefStep
  <2>1. /\ \A x \in Txs, u \in Targets : Known(stage'[x][u], u)
        /\ live' \in [Targets -> Contents] /\ Known(live'[T], T)
    BY <1>0, <1>1, <1>2
  <2> QED BY <1>0, <1>1, <1>2, <1>3, <2>1, TargetStep
<1>5. RunType' /\ UnfinishedInv' /\ PlaceInv' /\ RollbackInv'
  <2>1. Raise \/ Goto("moved") BY DEF CopyOld
  <2>2. CASE Raise BY <1>0, <1>1, <2>2, Raising
  <2>3. CASE Goto("moved") BY <1>0, <2>3, SameTarget DEF Promoting
  <2> QED BY <2>1, <2>2, <2>3
<1> QED BY <1>4, <1>5, Combine

LEMMA MoveNewStep == ASSUME InstallInv, MoveNew PROVE Good
<1> USE DEF InstallInv
<1>0. run.pc = "moved" /\ run.pc \in Promoting
      /\ UNCHANGED <<pointer, journal, manifest, rollback, workspace, retained, runtime, edits>>
  BY DEF MoveNew, Now, Promoting
<1>1. /\ run.pc \in Working /\ X \in Txs /\ T \in Targets /\ T \in journal[X].planned
      /\ journal[X].status = "IN_PROGRESS" /\ pointer.tx # X
      /\ journal[X].new[T] \in Contents /\ Known(journal[X].new[T], T)
  BY <1>0, PromotingFacts DEF Contents
<1>2. /\ live \in [Targets -> Contents] /\ \A u \in Targets : Known(live[u], u)
      /\ stage \in [Txs -> [Targets -> Content \cup {Absent}]]
      /\ \A x \in Txs, u \in Targets : Known(stage[x][u], u)
      /\ rollback \in [Txs -> [Targets -> Contents]]
      /\ \A x \in Txs, u \in Targets : Known(rollback[x][u], u)
      /\ retained \in [Txs -> [Targets -> Contents]]
  BY DEF TypeOK, EditsInv
<1>3. live' \in [Targets -> Contents] /\ (\A u \in Targets \ {T} : live'[u] = live[u])
      /\ Known(live'[T], T)
  <2>1. live' = live \/ live' = [live EXCEPT ![T] = journal[X].new[T]] BY DEF MoveNew
  <2>2. CASE live' = live BY <1>1, <1>2, <2>2
  <2>3. CASE live' = [live EXCEPT ![T] = journal[X].new[T]] BY <1>1, <1>2, <2>3
  <2> QED BY <2>1, <2>2, <2>3
<1>4. stage' \in [Txs -> [Targets -> Content \cup {Absent}]]
      /\ \A x \in Txs, u \in Targets : Known(stage'[x][u], u)
  <2>1. stage' = stage \/ stage' = [stage EXCEPT ![X][T] = Absent] BY DEF MoveNew
  <2>2. CASE stage' = stage BY <1>2, <2>2
  <2>3. CASE stage' = [stage EXCEPT ![X][T] = Absent]
    <3>1. Absent \in Content \cup {Absent} OBVIOUS
    <3>2. /\ stage' \in [Txs -> [Targets -> Content \cup {Absent}]] /\ stage'[X][T] = Absent
          /\ \A y \in Txs, u \in Targets : y # X \/ u # T => stage'[y][u] = stage[y][u]
      BY <1>1, <1>2, <2>3, <3>1, SlotFacts
    <3> QED BY <1>1, <1>2, <3>2, KnownNothing
  <2> QED BY <2>1, <2>2, <2>3
<1>5. /\ TypeOK' /\ ManifestInv' /\ EditsInv' /\ PointerInv' /\ RefStep
  <2>1. \A x \in Txs, u \in Targets : Known(rollback'[x][u], u) BY <1>0, <1>2
  <2> QED BY <1>0, <1>1, <1>2, <1>3, <1>4, <2>1, TargetStep
<1>6. RunType' /\ UnfinishedInv' /\ PlaceInv' /\ RollbackInv'
  <2>1. Raise \/ Goto("check") BY DEF MoveNew
  <2>2. CASE Raise BY <1>0, <1>1, <2>2, Raising
  <2>3. CASE Goto("check") BY <1>0, <2>3, SameTarget DEF Promoting
  <2> QED BY <2>1, <2>2, <2>3
<1> QED BY <1>5, <1>6, Combine

LEMMA CheckNewStep == ASSUME InstallInv, CheckNew PROVE Good
<1> USE DEF InstallInv
<1>0. run.pc = "check" /\ run.pc \in Promoting
      /\ UNCHANGED <<live, pointer, journal, manifest, files, runtime, edits>>
  BY DEF CheckNew, Now, Promoting
<1>1. /\ run.pc \in Working /\ X \in Txs /\ journal[X].status = "IN_PROGRESS" /\ pointer.tx # X
      /\ journal[X].op = run.op /\ journal[X].planned # {}
  BY <1>0, PromotingFacts
<1>2. /\ TypeOK' /\ ManifestInv' /\ EditsInv' /\ PointerInv' /\ RefStep
      /\ Unfinished' = Unfinished /\ Failed' = Failed
  BY <1>0, RunOnly DEF Failed
<1>3. CASE Raise BY <1>0, <1>1, <1>2, <1>3, Raising, Combine
<1>4. CASE Onward("promote", "verify")
  <2>0. "promote" \in Pcs /\ "verify" \in Pcs BY DEF Pcs, Working, Promoting
  <2>1. /\ RunType' /\ run'.tx = run.tx /\ run'.op = run.op
        /\ \/ run'.pc = "verify"
           \/ run'.pc = "promote" /\ run'.at # 0 /\ Order[run'.at] \in journal[X].planned
    BY <1>1, <1>4, <2>0, OnwardFacts
  <2>2. run'.pc \in Working BY <2>1 DEF Working, Promoting
  <2>3. UnfinishedInv' BY <1>1, <1>2, <2>1, <2>2, Continuing
  <2>4. X' = X /\ T' = Order[run'.at] BY <2>1 DEF X, T
  <2>5. PlaceInv'
    BY <1>0, <1>1, <2>1, <2>4 DEF PlaceInv, BeforePlan, Promoting, Recording, Retaining,
      Cleaning, RollbackPlaces, AtTarget
  <2>6. RollbackInv' BY <2>1 DEF RollbackInv, RollbackPlaces
  <2> QED BY <1>2, <2>1, <2>3, <2>5, <2>6, Combine
<1> QED BY <1>3, <1>4 DEF CheckNew

LEMMA VerifyAllStep == ASSUME InstallInv, VerifyAll PROVE Good
<1> USE DEF InstallInv
<1>0. run.pc = "verify" /\ run.pc \in Working
      /\ UNCHANGED <<live, pointer, journal, manifest, files, runtime, edits>>
  BY DEF VerifyAll, Now, Working
<1>1. /\ journal[X].status = "IN_PROGRESS" /\ pointer.tx # X
      /\ journal[X].op = run.op /\ journal[X].planned # {}
  BY <1>0 DEF PlaceInv
<1>2. /\ TypeOK' /\ ManifestInv' /\ EditsInv' /\ PointerInv' /\ RefStep
      /\ Unfinished' = Unfinished /\ Failed' = Failed
  BY <1>0, RunOnly DEF Failed
<1>3. CASE Raise BY <1>0, <1>1, <1>2, <1>3, Raising, Combine
<1>4. CASE Goto("commit")
  <2>0. "commit" \in Pcs BY DEF Pcs, Working
  <2>1. RunType' /\ run'.pc = "commit" /\ run'.tx = run.tx /\ run'.op = run.op
    BY <1>4, <2>0, GotoFacts
  <2>2. run'.pc \in Working BY <2>1 DEF Working
  <2>3. UnfinishedInv' BY <1>0, <1>2, <2>1, <2>2, Continuing
  <2>4. X' = X BY <2>1 DEF X
  <2>5. PlaceInv'
    BY <1>0, <1>1, <2>1, <2>4 DEF PlaceInv, BeforePlan, Promoting, Recording, Retaining,
      Cleaning, RollbackPlaces, AtTarget
  <2>6. RollbackInv' BY <2>1 DEF RollbackInv, RollbackPlaces
  <2> QED BY <1>2, <2>1, <2>3, <2>5, <2>6, Combine
<1> QED BY <1>3, <1>4 DEF VerifyAll

-----------------------------------------------------------------------------
(* Commit, and what follows it.                                            *)

LEMMA WritePointerStep == ASSUME InstallInv, WritePointer PROVE Good
<1> USE DEF InstallInv
<1>0. run.pc = "commit" /\ run.pc \in Working
      /\ UNCHANGED <<live, journal, manifest, files, runtime, edits>>
  BY DEF WritePointer, Now, Working
<1>1. /\ X \in Txs /\ Unfinished \subseteq {X}
      /\ journal[X].status = "IN_PROGRESS" /\ pointer.tx # X
      /\ journal[X].op = run.op /\ journal[X].planned # {}
  BY <1>0 DEF PlaceInv, UnfinishedInv
<1>2. CASE Raise /\ UNCHANGED pointer
  <2>1. /\ TypeOK' /\ ManifestInv' /\ EditsInv' /\ PointerInv' /\ RefStep BY <1>0, <1>2, RunOnly
  <2> QED BY <1>0, <1>1, <1>2, <2>1, Raising, Combine
<1>3. CASE /\ pointer' = [status |-> IF run.op = "install" THEN "committed" ELSE "uninstalled",
                          tx |-> X]
           /\ IF run.op = "install" THEN Goto("record") ELSE StartRetain
  <2>1. X # 0 /\ X \in 0 .. MaxTx BY <1>1, ContentFacts DEF Txs
  <2>2. /\ pointer' \in Pointers /\ pointer'.tx = X /\ pointer' # pointer
        /\ pointer'.status = IF run.op = "install" THEN "committed" ELSE "uninstalled"
        /\ pointer'.status # "none"
    BY <1>1, <1>3, <2>1 DEF Pointers
  <2>3. run.op \in {"install", "uninstall"} BY DEF RunType
  <2>4. Unfinished' = Unfinished /\ Failed' = Failed /\ Pending' = Pending /\ X \in Unfinished
    BY <1>0, <1>1 DEF Unfinished, Pending, Failed
  <2>5. RefStep BY <2>2, <2>4 DEF RefStep
  <2>6. TypeOK' BY <1>0, <2>2 DEF TypeOK, files
  <2>7. ManifestInv' /\ EditsInv' BY <1>0 DEF ManifestInv, EditsInv, Known, files
  <2>8. PointerInv'
    <3>1. \A x \in runtime \cap Pending : x = X BY <1>1 DEF Unfinished
    <3>2. pointer'.status = "committed" <=> run.op = "install" BY <2>2
    <3> QED BY <1>0, <1>1, <2>1, <2>2, <2>3, <2>4, <3>1, <3>2 DEF PointerInv
  <2>9. /\ RunType' /\ run'.tx = run.tx /\ run'.pc \in Working
        /\ \/ run'.pc = "record" /\ run.op = "install"
           \/ /\ run'.pc = "retain" /\ run'.at # 0 /\ Order[run'.at] \in journal[X].planned
              /\ run.op # "install"
    <3>1. CASE run.op = "install"
      <4>1. "record" \in Pcs /\ "record" \in Working BY DEF Pcs, Working, Recording
      <4> QED BY <1>3, <3>1, <4>1, GotoFacts
    <3>2. CASE run.op # "install"
      <4>1. "retain" \in Working BY DEF Working, Retaining
      <4> QED BY <1>1, <1>3, <3>2, <4>1, StartRetainFacts
    <3> QED BY <3>1, <3>2
  <2>10. UnfinishedInv' BY <1>0, <2>4, <2>9, Continuing
  <2>11. X' = X /\ T' = Order[run'.at] BY <2>9 DEF X, T
  <2>12. PlaceInv'
    <3>1. run.op # "install" => Listed' BY <1>0, <1>1, <2>11 DEF Listed
    <3> QED BY <1>0, <1>1, <2>2, <2>9, <2>11, <3>1 DEF PlaceInv, BeforePlan, Promoting,
          Recording, Retaining, Cleaning, RollbackPlaces, AtTarget
  <2>13. RollbackInv' BY <2>9 DEF RollbackInv, RollbackPlaces
  <2> QED BY <2>5, <2>6, <2>7, <2>8, <2>9, <2>10, <2>12, <2>13, Combine
<1> QED BY <1>2, <1>3 DEF WritePointer

LEMMA RecordStep == ASSUME InstallInv, Record PROVE Good
<1> USE DEF InstallInv
<1>0. run.pc = "record" /\ run.pc \in Working
      /\ UNCHANGED <<live, pointer, journal, manifest, files, edits>>
      /\ runtime' = runtime \cup {X} /\ Goto("recorded")
  BY DEF Record, Now, Working, Recording
<1>1. /\ X \in Txs /\ Unfinished \subseteq {X}
      /\ journal[X].status = "IN_PROGRESS" /\ pointer.tx = X /\ journal[X].op = "install"
  BY <1>0 DEF PlaceInv, UnfinishedInv, Recording
<1>2. TypeOK' /\ ManifestInv' /\ EditsInv'
  <2>1. journal \in [Txs -> Journals] /\ runtime' \subseteq Txs BY <1>0, <1>1 DEF TypeOK
  <2> QED BY <1>0, <1>1, <2>1, RowOnly
<1>3. PointerInv' /\ Unfinished' = Unfinished /\ Failed' = Failed
  <2>1. Pending' = Pending /\ Unfinished' = Unfinished /\ Failed' = Failed
    BY <1>0 DEF Pending, Unfinished, Failed
  <2> QED BY <1>0, <1>1, <2>1 DEF PointerInv
<1>4. RefStep BY <1>0 DEF RefStep, Still, Relied, Unfinished, Pending, Failed
<1>5. /\ RunType' /\ run'.pc = "recorded" /\ run'.tx = run.tx /\ run'.pc \in Working
  <2>1. "recorded" \in Pcs /\ "recorded" \in Working BY DEF Pcs, Working, Recording
  <2> QED BY <1>0, <2>1, GotoFacts
<1>6. UnfinishedInv' BY <1>0, <1>3, <1>5, Continuing
<1>7. X' = X BY <1>5 DEF X
<1>8. PlaceInv'
  <2>1. Listed' BY <1>0, <1>7 DEF Listed
  <2> QED BY <1>0, <1>1, <1>5, <1>7, <2>1 DEF PlaceInv, BeforePlan, Promoting, Recording,
        Retaining, Cleaning, RollbackPlaces, AtTarget
<1>9. RollbackInv' BY <1>5 DEF RollbackInv, RollbackPlaces
<1> QED BY <1>2, <1>3, <1>4, <1>5, <1>6, <1>8, <1>9, Combine

LEMMA FinalizedStep == ASSUME InstallInv, Finalized PROVE Good
<1> USE DEF InstallInv
<1>0. run.pc = "recorded" /\ run.pc \in Working
      /\ UNCHANGED <<live, pointer, manifest, files, runtime, edits>>
      /\ journal' = [journal EXCEPT ![X].finalized = TRUE] /\ StartRetain
  BY DEF Finalized, Now, Working, Recording
<1>1. /\ X \in Txs /\ Unfinished \subseteq {X}
      /\ journal[X].status = "IN_PROGRESS" /\ pointer.tx = X /\ journal[X].op = "install"
      /\ X \in runtime
  BY <1>0 DEF PlaceInv, UnfinishedInv, Recording, Listed
<1>2. /\ journal' \in [Txs -> Journals]
      /\ \A y \in Txs \ {X} : journal'[y] = journal[y]
      /\ journal'[X].status = journal[X].status /\ journal'[X].op = journal[X].op
      /\ journal'[X].planned = journal[X].planned /\ journal'[X].prior = journal[X].prior
      /\ journal'[X].new = journal[X].new
  <2>1. journal \in [Txs -> Journals] BY DEF TypeOK
  <2>2. journal' = [journal EXCEPT ![X] = [journal[X] EXCEPT !.finalized = TRUE]]
    BY <1>0, <1>1, <2>1
  <2>3. journal'[X] = [journal[X] EXCEPT !.finalized = TRUE] /\ journal[X] \in Journals
    BY <1>1, <2>1, <2>2
  <2>4. /\ journal'[X] \in Journals
        /\ journal'[X].status = journal[X].status /\ journal'[X].op = journal[X].op
        /\ journal'[X].planned = journal[X].planned /\ journal'[X].prior = journal[X].prior
        /\ journal'[X].new = journal[X].new
    BY <2>3 DEF Journals
  <2> QED BY <1>1, <2>1, <2>2, <2>4
<1>3. TypeOK' /\ ManifestInv' /\ EditsInv'
  <2>1. runtime' \subseteq Txs BY <1>0 DEF TypeOK
  <2> QED BY <1>0, <1>1, <1>2, <2>1, RowOnly
<1>4. Unfinished' = Unfinished /\ Failed' = Failed /\ Pending' = Pending
      /\ OneUnfinished /\ OneUnfinished'
  <2>1. Failed' = Failed /\ Pending' = Pending BY <1>1, <1>2 DEF Pending, Failed
  <2> QED BY <2>1 DEF OneUnfinished, UnfinishedInv, Unfinished
<1>5. PointerInv'
  <2>1. \A y \in Txs : /\ journal'[y].op = journal[y].op
                       /\ journal'[y].planned = journal[y].planned
                       /\ journal'[y].status = journal[y].status
                       /\ (y # X => journal'[y].finalized = journal[y].finalized)
    BY <1>2
  <2>2. runtime \subseteq Txs BY DEF TypeOK
  <2> QED BY <1>0, <1>1, <1>4, <2>1, <2>2 DEF PointerInv
<1>6. RefStep
  <2>1. Still BY <1>0, <1>1, <1>2, <1>4, RowStill
  <2> QED BY <1>0, <2>1 DEF RefStep
<1>7. /\ RunType' /\ run'.tx = run.tx /\ run'.pc = "retain" /\ run'.at # 0
      /\ Order[run'.at] \in journal[X].planned /\ run'.pc \in Working
  <2>1. journal[X].planned # {}
    <3>1. X # 0 BY <1>1 DEF Txs
    <3> QED BY <1>1, <3>1 DEF PointerInv
  <2>2. "retain" \in Working BY DEF Working, Retaining
  <2> QED BY <1>0, <1>1, <2>1, <2>2, StartRetainFacts
<1>8. UnfinishedInv' BY <1>0, <1>4, <1>7, Continuing
<1>9. X' = X /\ T' = Order[run'.at] BY <1>7 DEF X, T
<1>10. PlaceInv'
  <2>1. Listed' BY <1>0, <1>1, <1>9 DEF Listed
  <2> QED BY <1>0, <1>1, <1>2, <1>7, <1>9, <2>1 DEF PlaceInv, BeforePlan, Promoting,
        Recording, Retaining, Cleaning, RollbackPlaces, AtTarget
<1>11. RollbackInv' BY <1>7 DEF RollbackInv, RollbackPlaces
<1> QED BY <1>3, <1>5, <1>6, <1>7, <1>8, <1>10, <1>11, Combine

-----------------------------------------------------------------------------
(* Retained backups, cleaning and the end.                                 *)

\* On to the next backup, or to the cleaning.
LEMMA RetainingOn ==
  ASSUME InstallInv, run.pc \in Retaining, UNCHANGED <<pointer, journal, runtime>>,
         \/ Onward("retain", "clean_stage")
         \/ Goto("retaining")
         \/ Goto("retain")
         \/ Raise
  PROVE  RunType' /\ UnfinishedInv' /\ PlaceInv' /\ RollbackInv'
<1> USE DEF InstallInv
<1>1. /\ run.pc \in Working /\ X \in Txs /\ Unfinished \subseteq {X}
      /\ journal[X].status = "IN_PROGRESS" /\ pointer.tx = X /\ Listed
  BY DEF PlaceInv, UnfinishedInv, Working
<1>2. CASE Goto("retaining") BY <1>2, SameTarget DEF Retaining
<1>3. CASE Goto("retain") BY <1>3, SameTarget DEF Retaining
<1>4. CASE Raise BY <1>1, <1>4, Raising
<1>5. CASE Onward("retain", "clean_stage")
  <2>0. "retain" \in Pcs /\ "clean_stage" \in Pcs
    BY DEF Pcs, Working, Retaining, Cleaning
  <2>1. /\ RunType' /\ run'.tx = run.tx
        /\ \/ run'.pc = "clean_stage"
           \/ run'.pc = "retain" /\ run'.at # 0 /\ Order[run'.at] \in journal[X].planned
    BY <1>1, <1>5, <2>0, OnwardFacts
  <2>2. run'.pc \in Working BY <2>1 DEF Working, Retaining, Cleaning
  <2>3. Unfinished' = Unfinished /\ Failed' = Failed BY DEF Unfinished, Pending, Failed
  <2>4. UnfinishedInv' BY <1>1, <2>1, <2>2, <2>3, Continuing
  <2>5. X' = X /\ T' = Order[run'.at] BY <2>1 DEF X, T
  <2>6. PlaceInv'
    <3>1. Listed' BY <1>1, <2>5 DEF Listed
    <3> QED BY <1>1, <2>1, <2>5, <3>1 DEF PlaceInv, BeforePlan, Promoting, Recording,
          Retaining, Cleaning, RollbackPlaces, AtTarget
  <2>7. RollbackInv' BY <2>1 DEF RollbackInv, RollbackPlaces
  <2> QED BY <2>1, <2>4, <2>6, <2>7
<1> QED BY <1>2, <1>3, <1>4, <1>5

LEMMA RetainingStep ==
  ASSUME InstallInv, Retain \/ RetainCopy PROVE Good
<1> USE DEF InstallInv
<1>0. run.pc \in Retaining
      /\ UNCHANGED <<live, pointer, journal, manifest, stage, rollback, workspace, runtime, edits>>
  BY DEF Retain, RetainCopy, Now, Retaining
<1>1. X \in Txs /\ T \in Targets /\ T \in journal[X].planned
  BY <1>0, TargetFacts DEF AtTarget
<1>2. /\ live \in [Targets -> Contents] /\ \A u \in Targets : Known(live[u], u)
      /\ stage \in [Txs -> [Targets -> Content \cup {Absent}]]
      /\ \A x \in Txs, u \in Targets : Known(stage[x][u], u)
      /\ rollback \in [Txs -> [Targets -> Contents]]
      /\ \A x \in Txs, u \in Targets : Known(rollback[x][u], u)
      /\ retained \in [Txs -> [Targets -> Contents]]
  BY DEF TypeOK, EditsInv
<1>3. retained' \in [Txs -> [Targets -> Contents]]
  <2>1. retained' = retained
        \/ \E c \in {Partial, rollback[X][T]} : retained' = [retained EXCEPT ![X][T] = c]
    BY DEF Retain, RetainCopy
  <2>2. \A c \in {Partial, rollback[X][T]} : c \in Contents BY <1>1, <1>2 DEF Contents
  <2>3. ASSUME NEW c \in Contents, retained' = [retained EXCEPT ![X][T] = c]
        PROVE  retained' \in [Txs -> [Targets -> Contents]]
    BY <1>1, <1>2, <2>3, SlotFacts
  <2> QED BY <1>2, <2>1, <2>2, <2>3
<1>4. /\ TypeOK' /\ ManifestInv' /\ EditsInv' /\ PointerInv' /\ RefStep
  <2>1. /\ \A x \in Txs, u \in Targets : Known(stage'[x][u], u) /\ Known(rollback'[x][u], u)
        /\ live' \in [Targets -> Contents] /\ Known(live'[T], T)
    BY <1>0, <1>1, <1>2
  <2> QED BY <1>0, <1>1, <1>2, <1>3, <2>1, TargetStep
<1>5. RunType' /\ UnfinishedInv' /\ PlaceInv' /\ RollbackInv'
  <2>1. \/ Onward("retain", "clean_stage") \/ Goto("retaining") \/ Goto("retain") \/ Raise
    BY DEF Retain, RetainCopy
  <2> QED BY <1>0, <2>1, RetainingOn
<1> QED BY <1>4, <1>5, Combine

LEMMA CleaningStep ==
  ASSUME InstallInv, CleanStage \/ CleanRollback \/ CleanWorkspace PROVE Good
<1> USE DEF InstallInv
<1>0. run.pc \in Cleaning /\ run.pc \in Working
      /\ UNCHANGED <<live, pointer, journal, manifest, retained, runtime, edits>>
  BY DEF CleanStage, CleanRollback, CleanWorkspace, Now, Working, Cleaning
<1>1. X \in Txs BY <1>0 DEF UnfinishedInv
<1>2. TypeOK'
  <2>1. Empty \in [Targets -> Content \cup {Absent}] /\ Empty \in [Targets -> Contents]
    BY DEF Empty, Contents
  <2>2. stage' = stage \/ stage' = [stage EXCEPT ![X] = Empty]
    BY DEF CleanStage, CleanRollback, CleanWorkspace
  <2>3. rollback' = rollback \/ rollback' = [rollback EXCEPT ![X] = Empty]
    BY DEF CleanStage, CleanRollback, CleanWorkspace
  <2>4. workspace' = workspace \/ workspace' = [workspace EXCEPT ![X] = FALSE]
    BY DEF CleanStage, CleanRollback, CleanWorkspace
  <2>5. stage' \in [Txs -> [Targets -> Content \cup {Absent}]]
    BY <2>1, <2>2 DEF TypeOK
  <2>6. rollback' \in [Txs -> [Targets -> Contents]] BY <2>1, <2>3 DEF TypeOK
  <2>7. workspace' \in [Txs -> BOOLEAN] BY <2>4 DEF TypeOK
  <2> QED BY <1>0, <2>5, <2>6, <2>7 DEF TypeOK
<1>3. ManifestInv' BY <1>0 DEF ManifestInv
<1>4. EditsInv'
  <2>1. \A x \in Txs : stage'[x] = stage[x] \/ stage'[x] = Empty
    BY DEF CleanStage, CleanRollback, CleanWorkspace, TypeOK
  <2>2. \A x \in Txs : rollback'[x] = rollback[x] \/ rollback'[x] = Empty
    BY DEF CleanStage, CleanRollback, CleanWorkspace, TypeOK
  <2>3. \A t \in Targets : Known(Empty[t], t) BY KnownNothing DEF Empty
  <2>4. \A x \in Txs, t \in Targets : Known(stage'[x][t], t) /\ Known(rollback'[x][t], t)
    BY <2>1, <2>2, <2>3 DEF EditsInv
  <2> QED BY <1>0, <2>4 DEF EditsInv, Known
<1>5. PointerInv' /\ Unfinished' = Unfinished /\ Failed' = Failed
  BY <1>0 DEF PointerInv, Pending, Unfinished, Failed
<1>6. RefStep BY <1>0 DEF RefStep, Still, Relied, Unfinished, Pending, Failed
<1>7. /\ RunType' /\ run'.pc \in Cleaning /\ run'.tx = run.tx /\ run'.handling = run.handling
      /\ run'.pc \in Working
  <2>1. PICK pc \in {"clean_rollback", "clean_workspace", "closing"} : Goto(pc)
    BY DEF CleanStage, CleanRollback, CleanWorkspace
  <2>2. pc \in Cleaning /\ pc \in Working /\ pc \in Pcs BY DEF Pcs, Working, Cleaning
  <2> QED BY <2>1, <2>2, GotoFacts
<1>8. UnfinishedInv' BY <1>0, <1>5, <1>7, Continuing
<1>9. X' = X BY <1>7 DEF X
<1>10. PlaceInv'
  <2>1. Listed' = Listed BY <1>0, <1>9 DEF Listed
  <2> QED BY <1>0, <1>7, <1>9, <2>1 DEF PlaceInv, BeforePlan, Promoting, Recording,
        Retaining, Cleaning, RollbackPlaces, AtTarget
<1>11. RollbackInv' BY <1>7 DEF RollbackInv, RollbackPlaces, Cleaning
<1> QED BY <1>2, <1>3, <1>4, <1>5, <1>6, <1>7, <1>8, <1>10, <1>11, Combine

LEMMA CloseStep == ASSUME InstallInv, Close PROVE Good
<1> USE DEF InstallInv
<1>0. run.pc = "closing" /\ run.pc \in Working /\ run.pc \in Cleaning
      /\ UNCHANGED <<live, pointer, manifest, files, runtime, edits>>
  BY DEF Close, Now, Working, Cleaning
<1>1. X \in Txs /\ Unfinished \subseteq {X} BY <1>0 DEF UnfinishedInv
<1>2. /\ TypeOK' /\ ManifestInv' /\ EditsInv' /\ PointerInv' /\ RefStep
      /\ Unfinished' = {} /\ Failed' = {} /\ OneUnfinished'
  <2>1. CASE journal[X].status = "IN_PROGRESS"
    <3>1. Status(X, "COMMITTED") BY <2>1 DEF Close
    <3>2. pointer.tx = X /\ Listed BY <1>0, <2>1 DEF PlaceInv
    <3> QED BY <1>0, <1>1, <3>1, <3>2, EndingStep
  <2>2. CASE journal[X].status # "IN_PROGRESS"
    <3>1. UNCHANGED journal BY <2>2 DEF Close
    <3>2. journal[X].status \in {"NOOP", "ROLLED_BACK"} BY <1>0, <2>2 DEF PlaceInv
    <3>3. Unfinished = {} BY <1>1, <3>2 DEF Unfinished, Pending, Failed
    <3>4. Failed = {} BY <3>3 DEF Unfinished
    <3>5. Failed' = Failed BY <3>1 DEF Failed
    <3> QED BY <1>0, <3>1, <3>3, <3>4, <3>5, RunOnly
  <2> QED BY <2>1, <2>2
<1>3. CASE Stop BY <1>2, <1>3, StopFacts, Ending, Combine
<1>4. CASE Goto("begin")
  <2>1. RunType' /\ run'.pc = "begin" BY <1>4, GotoFacts DEF Pcs
  <2>2. UnfinishedInv' BY <1>2, <2>1, PlacesApart DEF UnfinishedInv
  <2>3. PlaceInv' /\ RollbackInv'
    BY <2>1 DEF PlaceInv, RollbackInv, BeforePlan, Promoting, Recording, Retaining, Cleaning,
      RollbackPlaces, AtTarget
  <2> QED BY <1>2, <2>1, <2>2, <2>3, Combine
<1> QED BY <1>3, <1>4 DEF Close

-----------------------------------------------------------------------------
(* Rollback.                                                               *)

\* The transaction while its targets are rolled back.
LEMMA RollingFacts ==
  ASSUME InstallInv, run.pc \in {"removing", "restore"} \/ (run.pc = "rollback" /\ run.at # 0)
  PROVE  /\ run.pc \in Working /\ run.pc \in RollbackPlaces
         /\ X \in Txs /\ T \in Targets /\ T \in journal[X].planned
         /\ run.at \in 1 .. Len(Order)
         /\ journal[X].status = "IN_PROGRESS" /\ pointer.tx # X /\ run.handling
         /\ journal[X].prior[T] \in Contents /\ Known(journal[X].prior[T], T)
<1> USE DEF InstallInv
<1>1. run.pc \in RollbackPlaces /\ run.pc \in Working BY DEF RollbackPlaces, Working
<1>2. X \in Txs /\ T \in Targets /\ T \in journal[X].planned /\ run.at \in 1 .. Len(Order)
  BY TargetFacts DEF AtTarget
<1>3. journal[X].status = "IN_PROGRESS" /\ pointer.tx # X /\ run.handling
  BY <1>1, <1>2 DEF PlaceInv
<1>4. journal[X] \in Journals BY <1>2 DEF TypeOK
<1>5. journal[X].prior[T] \in Contents BY <1>2, <1>4 DEF Journals
<1> QED BY <1>1, <1>2, <1>3, <1>5 DEF EditsInv

\* The targets behind the rollback stay restored while it works on another one.
LEMMA BehindFacts ==
  ASSUME InstallInv, run.pc \in {"removing", "restore"} \/ (run.pc = "rollback" /\ run.at # 0),
         UNCHANGED journal, \A u \in Targets \ {T} : live'[u] = live[u]
  PROVE  \A i \in 1 .. Len(Order) :
           i > run.at /\ Order[i] \in journal[X].planned =>
             /\ Part(live'[Order[i]]) = Part(journal[X].prior[Order[i]])
             /\ Edits(live'[Order[i]]) >= Edits(journal[X].prior[Order[i]])
<1> SUFFICES ASSUME NEW i \in 1 .. Len(Order), i > run.at, Order[i] \in journal[X].planned
             PROVE  /\ Part(live'[Order[i]]) = Part(journal[X].prior[Order[i]])
                    /\ Edits(live'[Order[i]]) >= Edits(journal[X].prior[Order[i]])
  OBVIOUS
<1>1. run.pc \in RollbackPlaces /\ run.at \in 1 .. Len(Order) BY RollingFacts
<1>2. Order[i] # T
  <2>1. Order[i] = Order[run.at] => i = run.at BY <1>1, OrderFacts
  <2> QED BY <2>1, <1>1, OrderFacts DEF T
<1>3. Order[i] \in Targets BY OrderFacts DEF Places
<1>4. live'[Order[i]] = live[Order[i]] BY <1>2, <1>3
<1>5. Restored(X, Order[i]) BY <1>1 DEF InstallInv, RollbackInv
<1> QED BY <1>4, <1>5 DEF Restored

\* On to the target before, when this one is back.
LEMMA BackStep ==
  ASSUME InstallInv, run.pc \in {"removing", "restore"} \/ (run.pc = "rollback" /\ run.at # 0),
         UNCHANGED <<pointer, journal, runtime>>, Back,
         \A u \in Targets \ {T} : live'[u] = live[u],
         live'[T] = journal[X].prior[T]
  PROVE  RunType' /\ UnfinishedInv' /\ PlaceInv' /\ RollbackInv'
<1> USE DEF InstallInv
<1>1. /\ run.pc \in Working /\ X \in Txs /\ T \in Targets
      /\ run.at \in 1 .. Len(Order)
      /\ journal[X].status = "IN_PROGRESS" /\ pointer.tx # X /\ run.handling
      /\ journal[X].prior[T] \in Contents
  BY RollingFacts
<1>2. run.at \in 0 .. Len(Order) + 1 BY <1>1, OrderFacts
<1>3. /\ RunType' /\ run'.tx = run.tx /\ run'.handling = run.handling
      /\ run'.pc = "rollback" /\ run'.at \in Places
      /\ run'.at # 0 => Order[run'.at] \in journal[X].planned
      /\ \A j \in 1 .. Len(Order) : j < run.at /\ Order[j] \in journal[X].planned => j <= run'.at
  BY <1>1, <1>2, BackFacts DEF Back
<1>4. Unfinished' = Unfinished /\ Failed' = Failed BY DEF Unfinished, Pending, Failed
<1>5. UnfinishedInv'
  <2>1. run'.pc \in Working BY <1>3 DEF Working, RollbackPlaces
  <2> QED BY <1>1, <1>3, <1>4, <2>1, Continuing
<1>6. X' = X /\ T' = Order[run'.at] BY <1>3 DEF X, T
<1>7. PlaceInv'
  BY <1>1, <1>3, <1>6 DEF PlaceInv, BeforePlan, Promoting, Recording, Retaining, Cleaning,
    RollbackPlaces, AtTarget
<1>8. \A i \in 1 .. Len(Order) :
        i > run'.at /\ Order[i] \in journal[X].planned =>
          /\ Part(live'[Order[i]]) = Part(journal[X].prior[Order[i]])
          /\ Edits(live'[Order[i]]) >= Edits(journal[X].prior[Order[i]])
  <2> SUFFICES ASSUME NEW i \in 1 .. Len(Order), i > run'.at, Order[i] \in journal[X].planned
               PROVE  /\ Part(live'[Order[i]]) = Part(journal[X].prior[Order[i]])
                      /\ Edits(live'[Order[i]]) >= Edits(journal[X].prior[Order[i]])
    OBVIOUS
  <2>1. i >= run.at
    <3>1. i < run.at => i <= run'.at BY <1>3
    <3>2. i \in Int /\ run.at \in Int /\ run'.at \in Int BY <1>1, <1>3, OrderFacts DEF Places
    <3> QED BY <3>1, <3>2
  <2>2. CASE i = run.at
    <3>1. Edits(journal[X].prior[T]) \in Nat BY <1>1, ContentFacts
    <3>2. Order[i] = T BY <2>2 DEF T
    <3>3. Edits(journal[X].prior[T]) >= Edits(journal[X].prior[T]) BY <3>1
    <3> QED BY <3>2, <3>3
  <2>3. CASE i # run.at
    <3>1. i > run.at BY <1>1, <2>1, <2>3, OrderFacts
    <3> QED BY <3>1, BehindFacts
  <2> QED BY <2>2, <2>3
<1>9. RollbackInv' BY <1>3, <1>6, <1>8 DEF RollbackInv, Restored
<1> QED BY <1>3, <1>5, <1>7, <1>9

\* On to the next step of the same target.
LEMMA RollOn ==
  ASSUME InstallInv, run.pc \in {"removing", "restore"} \/ (run.pc = "rollback" /\ run.at # 0),
         UNCHANGED <<pointer, journal, runtime, rollback>>,
         \A u \in Targets \ {T} : live'[u] = live[u],
         NEW pc, Goto(pc),
         \/ pc = "restore" /\ rollback[X][T] = journal[X].prior[T]
         \/ pc = "removing" /\ \/ rollback[X][T] = journal[X].prior[T]
                               \/ rollback[X][T] = Absent /\ journal[X].prior[T] = Absent
  PROVE  RunType' /\ UnfinishedInv' /\ PlaceInv' /\ RollbackInv'
<1> USE DEF InstallInv
<1>1. /\ run.pc \in Working /\ X \in Txs /\ T \in Targets /\ T \in journal[X].planned
      /\ run.at \in 1 .. Len(Order)
      /\ journal[X].status = "IN_PROGRESS" /\ pointer.tx # X /\ run.handling
  BY RollingFacts
<1>2. pc \in Working /\ pc \in Pcs BY DEF Working, Pcs, RollbackPlaces
<1>3. /\ RunType' /\ run'.pc = pc /\ run'.tx = run.tx /\ run'.at = run.at
      /\ run'.handling = run.handling
  BY <1>2, GotoFacts
<1>4. Unfinished' = Unfinished /\ Failed' = Failed BY DEF Unfinished, Pending, Failed
<1>5. UnfinishedInv' BY <1>1, <1>2, <1>3, <1>4, Continuing
<1>6. X' = X /\ T' = T BY <1>3 DEF X, T
<1>7. PlaceInv'
  <2>1. run.at # 0 BY <1>1, OrderFacts
  <2> QED BY <1>1, <1>3, <1>6, <2>1 DEF PlaceInv, BeforePlan, Promoting, Recording,
        Retaining, Cleaning, RollbackPlaces, AtTarget
<1>8. RollbackInv'
  <2>1. \A i \in 1 .. Len(Order) :
          i > run.at /\ Order[i] \in journal[X].planned =>
            /\ Part(live'[Order[i]]) = Part(journal[X].prior[Order[i]])
            /\ Edits(live'[Order[i]]) >= Edits(journal[X].prior[Order[i]])
    BY BehindFacts
  <2> QED BY <1>3, <1>6, <2>1 DEF RollbackInv, Restored
<1> QED BY <1>3, <1>5, <1>7, <1>8

\* What a step of the rollback leaves of the files.
LEMMA RollFiles ==
  ASSUME InstallInv, run.pc \in {"removing", "restore"} \/ (run.pc = "rollback" /\ run.at # 0),
         UNCHANGED <<pointer, journal, manifest, stage, workspace, retained, runtime, edits>>,
         NEW c \in Contents, Known(c, T), live' = [live EXCEPT ![T] = c],
         rollback' = rollback \/ rollback' = [rollback EXCEPT ![X][T] = Absent]
  PROVE  /\ TypeOK' /\ ManifestInv' /\ EditsInv' /\ PointerInv' /\ RefStep
         /\ live'[T] = c /\ \A u \in Targets \ {T} : live'[u] = live[u]
<1> USE DEF InstallInv
<1>1. /\ X \in Txs /\ T \in Targets /\ T \in journal[X].planned
      /\ journal[X].status = "IN_PROGRESS" /\ pointer.tx # X
  BY RollingFacts
<1>2. /\ live \in [Targets -> Contents]
      /\ stage \in [Txs -> [Targets -> Content \cup {Absent}]]
      /\ \A x \in Txs, u \in Targets : Known(stage[x][u], u)
      /\ rollback \in [Txs -> [Targets -> Contents]]
      /\ \A x \in Txs, u \in Targets : Known(rollback[x][u], u)
      /\ retained \in [Txs -> [Targets -> Contents]]
  BY DEF TypeOK, EditsInv
<1>3. live' \in [Targets -> Contents] /\ live'[T] = c /\ \A u \in Targets \ {T} : live'[u] = live[u]
  BY <1>1, <1>2
<1>4. rollback' \in [Txs -> [Targets -> Contents]]
      /\ \A x \in Txs, u \in Targets : Known(rollback'[x][u], u)
  <2>1. CASE rollback' = rollback BY <1>2, <2>1
  <2>2. CASE rollback' = [rollback EXCEPT ![X][T] = Absent]
    <3>1. Absent \in Contents BY DEF Contents
    <3>2. /\ rollback' \in [Txs -> [Targets -> Contents]] /\ rollback'[X][T] = Absent
          /\ \A y \in Txs, u \in Targets : y # X \/ u # T => rollback'[y][u] = rollback[y][u]
      BY <1>1, <1>2, <2>2, <3>1, SlotFacts
    <3> QED BY <1>1, <1>2, <3>2, KnownNothing
  <2> QED BY <2>1, <2>2
<1>5. \A x \in Txs, u \in Targets : Known(stage'[x][u], u) BY <1>2
<1>6. /\ TypeOK' /\ ManifestInv' /\ EditsInv' /\ PointerInv' /\ RefStep
  BY <1>1, <1>2, <1>3, <1>4, <1>5, TargetStep
<1> QED BY <1>3, <1>6

LEMMA RollbackTargetStep == ASSUME InstallInv, RollbackTarget PROVE Good
<1> USE DEF InstallInv
<1> DEFINE prior == journal[X].prior[T]
           slot == rollback[X][T]
<1>0. run.pc = "rollback" /\ run.at # 0
      /\ UNCHANGED <<pointer, manifest, files, runtime, edits>>
  <2>1. run.at \in Nat BY RunFacts, OrderFacts DEF Places
  <2> QED BY <2>1 DEF RollbackTarget, Now
<1>1. /\ run.pc \in Working /\ run.pc \in RollbackPlaces
      /\ X \in Txs /\ T \in Targets /\ T \in journal[X].planned
      /\ journal[X].status = "IN_PROGRESS"
  BY <1>0, RollingFacts
<1>2. CASE GiveUp /\ UNCHANGED live BY <1>0, <1>1, <1>2, GivingUp
<1>3. CASE /\ UNCHANGED <<live, journal>>
           /\ \/ Goto("restore") /\ slot = prior
              \/ Back /\ live[T] = prior
  <2>1. /\ TypeOK' /\ ManifestInv' /\ EditsInv' /\ PointerInv' /\ RefStep BY <1>0, <1>3, RunOnly
  <2>2. /\ rollback' = rollback /\ live'[T] = live[T] /\ \A u \in Targets \ {T} : live'[u] = live[u]
    BY <1>0, <1>3 DEF files
  <2>3. CASE Goto("restore") /\ slot = prior
    BY <1>0, <1>3, <2>1, <2>2, <2>3, RollOn, Combine
  <2>4. CASE Back /\ live[T] = prior
    BY <1>0, <1>3, <2>1, <2>2, <2>4, BackStep, Combine
  <2> QED BY <1>3, <2>3, <2>4
<1>4. CASE /\ UNCHANGED journal /\ Goto("removing")
           /\ live' = [live EXCEPT ![T] = IF Tree(T) THEN Partial ELSE @]
           /\ slot = prior \/ (slot = Absent /\ prior = Absent)
  <2> DEFINE c == IF Tree(T) THEN Partial ELSE live[T]
  <2>1. c \in Contents /\ Known(c, T)
    BY <1>1, KnownNothing DEF TypeOK, EditsInv, Contents
  <2>2. live' = [live EXCEPT ![T] = c] BY <1>4
  <2> HIDE DEF c
  <2>3. rollback' = rollback
        /\ UNCHANGED <<pointer, journal, manifest, stage, workspace, retained, runtime, edits>>
    BY <1>0, <1>4 DEF files
  <2>4. /\ TypeOK' /\ ManifestInv' /\ EditsInv' /\ PointerInv' /\ RefStep
        /\ \A u \in Targets \ {T} : live'[u] = live[u]
    BY <1>0, <2>1, <2>2, <2>3, RollFiles
  <2>5. RunType' /\ UnfinishedInv' /\ PlaceInv' /\ RollbackInv'
    BY <1>0, <1>4, <2>3, <2>4, RollOn
  <2> QED BY <2>4, <2>5, Combine
<1> QED
  <2>1. CASE slot # Absent /\ (slot # prior \/ live[T] \notin {Absent, journal[X].new[T], prior})
    BY <1>2, <2>1 DEF RollbackTarget
  <2>2. CASE slot # Absent /\ slot = prior /\ live[T] \in {Absent, journal[X].new[T], prior}
    <3>1. /\ UNCHANGED journal
          /\ IF live[T] = Absent THEN Goto("restore") /\ UNCHANGED live
             ELSE /\ Goto("removing")
                  /\ live' = [live EXCEPT ![T] = IF Tree(T) THEN Partial ELSE @]
      BY <2>2 DEF RollbackTarget
    <3>2. CASE live[T] = Absent
      <4>1. UNCHANGED <<live, journal>> BY <3>1, <3>2
      <4>2. Goto("restore") /\ slot = prior BY <2>2, <3>1, <3>2
      <4> QED BY <1>3, <4>1, <4>2
    <3>3. CASE live[T] # Absent BY <1>4, <2>2, <3>1, <3>3
    <3> QED BY <3>2, <3>3
  <2>3. CASE slot = Absent
    BY <1>2, <1>3, <1>4, <2>3 DEF RollbackTarget
  <2> QED BY <2>1, <2>2, <2>3

LEMMA RemoveLiveStep == ASSUME InstallInv, RemoveLive PROVE Good
<1> USE DEF InstallInv
<1>0. run.pc = "removing" /\ run.pc \in RollbackPlaces
      /\ live' = [live EXCEPT ![T] = Absent]
      /\ UNCHANGED <<pointer, journal, manifest, stage, workspace, retained, runtime, edits>>
      /\ rollback' = rollback
  BY DEF RemoveLive, Now, RollbackPlaces, files
<1>1. T \in Targets BY <1>0, RollingFacts
<1>2. Absent \in Contents /\ Known(Absent, T) BY <1>1, KnownNothing DEF Contents
<1>3. /\ TypeOK' /\ ManifestInv' /\ EditsInv' /\ PointerInv' /\ RefStep
      /\ live'[T] = Absent /\ \A u \in Targets \ {T} : live'[u] = live[u]
  BY <1>0, <1>2, RollFiles
<1>4. /\ rollback[X][T] \in {Absent, journal[X].prior[T]}
      /\ rollback[X][T] = Absent => journal[X].prior[T] = Absent
  BY <1>0 DEF RollbackInv
<1>5. RunType' /\ UnfinishedInv' /\ PlaceInv' /\ RollbackInv'
  <2>1. CASE rollback[X][T] = Absent
    <3>1. Back BY <2>1 DEF RemoveLive
    <3> QED BY <1>0, <1>3, <1>4, <2>1, <3>1, BackStep
  <2>2. CASE rollback[X][T] # Absent
    <3>1. Goto("restore") BY <2>2 DEF RemoveLive
    <3> QED BY <1>0, <1>3, <1>4, <2>2, <3>1, RollOn
  <2> QED BY <2>1, <2>2
<1> QED BY <1>3, <1>5, Combine

LEMMA RestoreStep == ASSUME InstallInv, Restore PROVE Good
<1> USE DEF InstallInv
<1>0. run.pc = "restore" /\ run.pc \in RollbackPlaces
      /\ UNCHANGED <<pointer, manifest, stage, workspace, retained, runtime, edits>>
  BY DEF Restore, Now, RollbackPlaces
<1>1. /\ T \in Targets /\ journal[X].status = "IN_PROGRESS"
      /\ journal[X].prior[T] \in Contents /\ Known(journal[X].prior[T], T)
  BY <1>0, RollingFacts
<1>2. CASE GiveUp /\ UNCHANGED <<live, rollback>>
  BY <1>0, <1>1, <1>2, GivingUp DEF files
<1>3. CASE /\ live' = [live EXCEPT ![T] = rollback[X][T]]
           /\ rollback' = [rollback EXCEPT ![X][T] = Absent]
           /\ Back /\ UNCHANGED journal
  <2>1. rollback[X][T] = journal[X].prior[T] BY <1>0 DEF RollbackInv
  <2>2. /\ TypeOK' /\ ManifestInv' /\ EditsInv' /\ PointerInv' /\ RefStep
        /\ live'[T] = journal[X].prior[T] /\ \A u \in Targets \ {T} : live'[u] = live[u]
    BY <1>0, <1>1, <1>3, <2>1, RollFiles
  <2>3. RunType' /\ UnfinishedInv' /\ PlaceInv' /\ RollbackInv'
    BY <1>0, <1>3, <2>2, BackStep
  <2> QED BY <2>2, <2>3, Combine
<1> QED BY <1>2, <1>3 DEF Restore

LEMMA RolledBackStep == ASSUME InstallInv, RolledBack PROVE Good
<1> USE DEF InstallInv
<1>0. run.pc = "rollback" /\ run.at = 0 /\ run.pc \in Working /\ run.pc \in RollbackPlaces
      /\ UNCHANGED <<live, pointer, manifest, files, runtime, edits>>
      /\ Status(X, "ROLLED_BACK") /\ Goto("clean_stage")
  BY DEF RolledBack, Now, Working, RollbackPlaces
<1>1. X \in Txs /\ pointer.tx # X /\ run.handling BY <1>0 DEF UnfinishedInv, PlaceInv
<1>2. \/ journal[X].status = "IN_PROGRESS"
      \/ journal[X].status = "NOOP" /\ journal[X].planned = {}
  BY <1>0 DEF PlaceInv
<1>3. X \notin runtime BY <1>1, <1>2 DEF PointerInv, Pending
<1>4. \A t \in journal[X].planned : Restored(X, t)
  <2> SUFFICES ASSUME NEW t \in journal[X].planned PROVE Restored(X, t) OBVIOUS
  <2>1. t \in Targets BY <1>1 DEF TypeOK, Journals
  <2>2. PICK i \in 1 .. Len(Order) : Order[i] = t BY <2>1, OrderFacts
  <2>3. i > run.at BY <1>0, <2>2, OrderFacts
  <2> QED BY <1>0, <2>2, <2>3 DEF RollbackInv
<1>5. /\ TypeOK' /\ ManifestInv' /\ EditsInv' /\ PointerInv' /\ RefStep
      /\ Unfinished' = {} /\ Failed' = {} /\ OneUnfinished'
      /\ journal'[X].status = "ROLLED_BACK"
  BY <1>0, <1>1, <1>3, <1>4, EndingStep DEF Restored
<1>6. /\ RunType' /\ run'.pc = "clean_stage" /\ run'.tx = run.tx /\ run'.handling = run.handling
      /\ run'.pc \in Working
  <2>1. "clean_stage" \in Pcs /\ "clean_stage" \in Working BY DEF Pcs, Working, Cleaning
  <2> QED BY <1>0, <2>1, GotoFacts
<1>7. X' = X BY <1>6 DEF X
<1>8. UnfinishedInv' BY <1>1, <1>5, <1>6, <1>7, PlacesApart DEF UnfinishedInv
<1>9. PlaceInv'
  BY <1>1, <1>5, <1>6, <1>7 DEF PlaceInv, BeforePlan, Promoting, Recording, Retaining,
    Cleaning, RollbackPlaces, AtTarget
<1>10. RollbackInv' BY <1>6 DEF RollbackInv, RollbackPlaces
<1> QED BY <1>5, <1>6, <1>8, <1>9, <1>10, Combine

-----------------------------------------------------------------------------
(* Errors and the user.                                                    *)

LEMMA ErrorStep == ASSUME InstallInv, Error PROVE Good
<1> USE DEF InstallInv
<1>1. CASE run.pc \in TryPlaces /\ ~run.handling /\ Raise /\ UNCHANGED journal
  <2>0. UNCHANGED <<live, pointer, journal, manifest, files, runtime, edits>>
    BY <1>1 DEF Error
  <2>1. run.pc \in Working
    BY <1>1 DEF TryPlaces, Working, BeforePlan, Promoting, Recording, Retaining, Cleaning
  <2>2. \/ journal[X].status = "IN_PROGRESS"
        \/ journal[X].status = "NOOP" /\ journal[X].planned = {}
    <3>1. CASE run.pc \in BeforePlan \cup Promoting \cup {"verify", "commit"} \cup Recording
                 \cup Retaining
      BY <3>1 DEF PlaceInv
    <3>2. CASE run.pc \in Cleaning BY <1>1, <3>2 DEF PlaceInv
    <3> QED BY <1>1, <3>1, <3>2 DEF TryPlaces, BeforePlan, Promoting, Recording, Retaining, Cleaning
  <2>3. /\ TypeOK' /\ ManifestInv' /\ EditsInv' /\ PointerInv' /\ RefStep BY <2>0, RunOnly
  <2> QED BY <1>1, <2>0, <2>1, <2>2, <2>3, Raising, Combine
<1>2. CASE run.pc \in RollbackPlaces /\ GiveUp
  <2>1. pointer.tx # X BY <1>2 DEF PlaceInv
  <2> QED BY <1>2, <2>1, GivingUp DEF Error
<1> QED BY <1>1, <1>2 DEF Error

LEMMA EditStep == ASSUME InstallInv, NEW t \in Targets, Edit(t) PROVE Good
<1> USE DEF InstallInv
<1>0. UNCHANGED <<pointer, journal, manifest, files, runtime, run>> BY DEF Edit
<1>1. /\ live' \in [Targets -> Contents] /\ edits' \in [Targets -> 0 .. MaxEdits]
      /\ \A u \in Targets : edits'[u] >= edits[u] /\ Part(live'[u]) = Part(live[u])
      /\ \A u \in Targets : Edits(live'[u]) <= edits'[u] /\ Edits(live'[u]) >= Edits(live[u])
  BY EditFacts
<1>2. TypeOK' BY <1>0, <1>1 DEF TypeOK, files
<1>3. RunType' BY <1>0 DEF RunType
<1>4. ManifestInv' BY <1>0 DEF ManifestInv
<1>5. EditsInv'
  <2>1. \A u \in Targets : edits[u] \in Int /\ edits'[u] \in Int BY <1>1 DEF TypeOK
  <2>2. ASSUME NEW u \in Targets, NEW c \in Contents, Known(c, u) PROVE Edits(c) <= edits'[u]
    <3>1. Edits(c) \in Nat /\ Edits(c) <= edits[u] BY <2>2, ContentFacts DEF Known
    <3> QED BY <1>1, <2>1, <3>1
  <2>3. \A x \in Txs, u \in Targets :
          /\ stage[x][u] \in Contents /\ rollback[x][u] \in Contents
          /\ journal[x].prior[u] \in Contents /\ journal[x].new[u] \in Contents
    BY DEF TypeOK, Contents, Journals
  <2>4. \A x \in Txs, u \in Targets :
          /\ Edits(stage[x][u]) <= edits'[u] /\ Edits(rollback[x][u]) <= edits'[u]
          /\ Edits(journal[x].prior[u]) <= edits'[u] /\ Edits(journal[x].new[u]) <= edits'[u]
    BY <2>2, <2>3 DEF EditsInv
  <2> QED BY <1>0, <1>1, <2>4 DEF EditsInv, Known, files
<1>6. Unfinished' = Unfinished /\ Failed' = Failed /\ Pending' = Pending
      /\ OneUnfinished /\ OneUnfinished'
  <2>1. Failed' = Failed /\ Pending' = Pending BY <1>0 DEF Pending, Failed
  <2> QED BY <2>1 DEF OneUnfinished, UnfinishedInv, Unfinished
<1>7. PointerInv' BY <1>0, <1>6 DEF PointerInv
<1>8. UnfinishedInv' BY <1>0, <1>6 DEF UnfinishedInv, X
<1>9. X' = X /\ T' = T BY <1>0 DEF X, T
<1>10. PlaceInv' BY <1>0, <1>9 DEF PlaceInv, Listed
<1>11. RollbackInv'
  <2>1. ASSUME NEW i \in 1 .. Len(Order), run.pc \in RollbackPlaces, i > run.at,
               Order[i] \in journal[X].planned
        PROVE  Restored(X, Order[i])'
    <3>1. Restored(X, Order[i]) BY <2>1 DEF RollbackInv
    <3>2. run.pc \in Working BY <2>1 DEF Working
    <3>3. X \in Txs /\ Order[i] \in Targets
      BY <3>2, OrderFacts DEF UnfinishedInv, Places
    <3>4. Edits(journal[X].prior[Order[i]]) \in Nat /\ Edits(live[Order[i]]) \in Nat
          /\ Edits(live'[Order[i]]) \in Nat
      BY <1>1, <3>3, ContentFacts DEF TypeOK, Journals
    <3>5. Part(live'[Order[i]]) = Part(journal[X].prior[Order[i]])
          /\ Edits(live'[Order[i]]) >= Edits(journal[X].prior[Order[i]])
      BY <1>1, <3>1, <3>3, <3>4 DEF Restored
    <3> QED BY <1>0, <1>9, <3>5 DEF Restored, Part, Edits
  <2> QED BY <1>0, <1>9, <2>1 DEF RollbackInv, files
<1>12. Still
  <2> SUFFICES ASSUME NEW u \in Targets PROVE Relied(u)' = Relied(u) BY DEF Still
  <2>1. CASE \E x \in Unfinished : x # pointer.tx /\ u \in journal[x].planned
    BY <1>0, <1>6, <2>1, ReliedFacts, ReliedNextFacts
  <2>2. CASE ~\E x \in Unfinished : x # pointer.tx /\ u \in journal[x].planned
    <3>1. Relied(u) = Part(live[u]) BY <1>6, <2>2, ReliedFacts
    <3>2. Relied(u)' = Part(live'[u]) BY <1>0, <1>6, <2>2, ReliedNextFacts
    <3> QED BY <1>1, <3>1, <3>2
  <2> QED BY <2>1, <2>2
<1>13. RefStep BY <1>0, <1>12 DEF RefStep
<1> QED BY <1>2, <1>3, <1>4, <1>5, <1>7, <1>8, <1>10, <1>11, <1>13, Combine

-----------------------------------------------------------------------------
(* The invariant.                                                          *)

LEMMA InitGood == Init => InstallInv
<1> SUFFICES ASSUME Init PROVE InstallInv OBVIOUS
<1> USE ContentFacts
<1>1. live \in [Targets -> [user: {0}, bundle: {0} \cup Bundles, tx: {0}] \cup {Absent}]
  BY InstallAssumption DEF Init
<1>2. \A t \in Targets : live[t] \in Content \cup {Absent} /\ Edits(live[t]) = 0
                         /\ Part(live[t])[2] = 0
  <2> SUFFICES ASSUME NEW t \in Targets
               PROVE  live[t] \in Content \cup {Absent} /\ Edits(live[t]) = 0 /\ Part(live[t])[2] = 0
    OBVIOUS
  <2>1. CASE live[t] = Absent BY <2>1
  <2>2. CASE live[t] \in [user: {0}, bundle: {0} \cup Bundles, tx: {0}]
    <3>1. live[t] \in Content /\ live[t].user = 0 /\ live[t].tx = 0 BY <2>2 DEF Content
    <3>2. live[t] # Absent /\ live[t] # Partial BY <3>1
    <3> QED BY <3>1, <3>2 DEF Edits, Present, Part
  <2> QED BY <1>1, <2>1, <2>2
<1>3. \A x \in Txs : journal[x] = NoJournal BY DEF Init
<1>4. Empty \in [Targets -> Content \cup {Absent}] /\ Empty \in [Targets -> Contents]
  BY DEF Empty, Contents
<1>5. NoJournal \in Journals
  BY <1>4 DEF NoJournal, Journals, JournalStates
<1>6. TypeOK
  <2>1. live \in [Targets -> Contents] BY <1>1, <1>2 DEF Contents
  <2>2. pointer \in Pointers BY DEF Init, Pointers, NoPointer
  <2>3. edits \in [Targets -> 0 .. MaxEdits] BY DEF Init
  <2> QED BY <1>4, <1>5, <2>1, <2>2, <2>3 DEF TypeOK, Init
<1>7. RunType /\ run.pc = "idle"
  <2>1. 0 \in Places /\ 0 \in 0 .. MaxTx BY OrderFacts DEF Places
  <2> QED BY <2>1 DEF Init, Idle, RunType
<1>8. ManifestInv
  <2>1. manifest = [x \in 0 .. MaxTx |->
          IF x > 0 THEN NoManifest ELSE [NoManifest EXCEPT !.version = 2, !.owns = LegacySkills]]
    BY DEF Init
  <2>2. NoManifest.owns = {} BY DEF NoManifest
  <2>3. [NoManifest EXCEPT !.version = 2, !.owns = LegacySkills].version = 2
        /\ [NoManifest EXCEPT !.version = 2, !.owns = LegacySkills].owns = LegacySkills
    BY DEF NoManifest
  <2>4. LegacySkills \subseteq Targets BY InstallAssumption
  <2>5. \A x \in 0 .. MaxTx : manifest[x].owns \in {{}, LegacySkills} BY <2>1, <2>2, <2>3
  <2>6. manifest[0].version = 2
    <3>1. 0 \in 0 .. MaxTx /\ ~(0 > 0) OBVIOUS
    <3> QED BY <2>1, <2>3, <3>1
  <2> QED BY <2>1, <2>4, <2>5, <2>6 DEF ManifestInv
<1>9. EditsInv
  <2>1. \A t \in Targets : edits[t] = 0 /\ Empty[t] = Absent BY DEF Init, Empty
  <2>2. \A t \in Targets : Known(Absent, t) /\ Known(live[t], t) BY <1>2, <2>1 DEF Known
  <2>3. NoJournal.prior = Empty /\ NoJournal.new = Empty BY DEF NoJournal
  <2>4. \A x \in Txs : stage[x] = Empty /\ rollback[x] = Empty BY DEF Init
  <2> QED BY <1>3, <2>1, <2>2, <2>3, <2>4 DEF EditsInv
<1>10. Unfinished = {} /\ Failed = {} BY <1>3 DEF Unfinished, Pending, Failed, NoJournal
<1>11. UnfinishedInv BY <1>7, <1>10, PlacesApart DEF UnfinishedInv, OneUnfinished
<1>12. pointer.status = "none" /\ pointer.tx = 0 /\ runtime = {} BY DEF Init, NoPointer
<1>13. PointerInv
  <2>1. NoJournal.finalized = FALSE /\ NoJournal.status = "NONE" BY DEF NoJournal
  <2> QED BY <1>3, <1>12, <2>1 DEF PointerInv
<1>14. PlaceInv
  BY <1>7 DEF PlaceInv, BeforePlan, Promoting, Recording, Retaining, Cleaning, RollbackPlaces,
    AtTarget
<1>15. RollbackInv BY <1>7 DEF RollbackInv, RollbackPlaces
<1>16. OriginInv
  <2>1. \A t \in Targets : Relied(t) = Part(live[t])
    BY <1>10, <1>11, ReliedFacts DEF UnfinishedInv
  <2> QED BY <1>2, <2>1 DEF OriginInv
<1> QED BY <1>6, <1>7, <1>8, <1>9, <1>11, <1>13, <1>14, <1>15, <1>16 DEF InstallInv

LEMMA NextGood == ASSUME InstallInv, Next PROVE Good
<1>1. CASE Beginning
  <2>1. ASSUME NEW b \in Bundles, NEW o \in Options, Begin("install", b, o) PROVE Good
    BY <2>1, BeginStep
  <2>2. ASSUME NEW o \in Options, Begin("uninstall", 0, o) PROVE Good
    BY <2>2, BeginStep
  <2> QED BY <1>1, <2>1, <2>2 DEF Beginning
<1>2. CASE \E t \in Targets : Edit(t) BY <1>2, EditStep
<1>3. CASE Recover \/ Decide \/ Preflight \/ Stage \/ NoopRecord \/ Noop \/ Prepare
  BY <1>3, RecoverStep, DecideStep, PreflightStep, StageStep, NoopRecordStep, NoopStep,
    PrepareStep
<1>4. CASE MoveOld \/ CopyOld \/ MoveNew \/ CheckNew \/ VerifyAll \/ WritePointer
  BY <1>4, MoveOldStep, CopyOldStep, MoveNewStep, CheckNewStep, VerifyAllStep, WritePointerStep
<1>5. CASE \/ Record \/ Finalized \/ Retain \/ RetainCopy
           \/ CleanStage \/ CleanRollback \/ CleanWorkspace \/ Close
  BY <1>5, RecordStep, FinalizedStep, RetainingStep, CleaningStep, CloseStep
<1>6. CASE RollbackTarget \/ RemoveLive \/ Restore \/ RolledBack
  BY <1>6, RollbackTargetStep, RemoveLiveStep, RestoreStep, RolledBackStep
<1>7. CASE Lock \/ Error \/ Crash BY <1>7, LockStep, ErrorStep, CrashStep
<1> QED BY <1>1, <1>2, <1>3, <1>4, <1>5, <1>6, <1>7 DEF Next, Command

LEMMA StutterGood == ASSUME InstallInv, UNCHANGED vars PROVE Good
<1> USE DEF InstallInv
<1>0. UNCHANGED <<live, pointer, journal, manifest, files, runtime, edits, run>>
  BY DEF vars
<1>1. TypeOK' /\ ManifestInv' /\ EditsInv' /\ PointerInv' /\ RefStep /\ Unfinished' = Unfinished
  BY <1>0, RunOnly
<1>2. RunType' BY <1>0 DEF RunType
<1>3. X' = X /\ T' = T /\ Failed' = Failed BY <1>0 DEF X, T, Failed
<1>4. UnfinishedInv' BY <1>0, <1>1, <1>3 DEF UnfinishedInv, OneUnfinished
<1>5. PlaceInv' BY <1>0, <1>3 DEF PlaceInv, Listed
<1>6. RollbackInv' BY <1>0, <1>3 DEF RollbackInv, Restored, files
<1> QED BY <1>1, <1>2, <1>4, <1>5, <1>6, Combine

-----------------------------------------------------------------------------
(* Theorems.                                                               *)

\* Every reachable state of the installer satisfies the invariant: the state has its
\* type, one transaction is unfinished and is that of the command, what current.json
\* names was promoted, what a rollback has behind it is restored.
THEOREM InstallInvariance == Spec => []InstallInv
<1>1. InstallInv /\ [Next]_vars => InstallInv' BY NextGood, StutterGood DEF Good
<1> QED BY <1>1, InitGood, PTL DEF Spec

\* The state of the installer has its type.
THEOREM InstallTypeCorrect == Spec => []TypeOK
<1>1. InstallInv => TypeOK BY DEF InstallInv
<1> QED BY <1>1, InstallInvariance, PTL

\* _recover_pending: the lock and recovery never leave two incomplete transactions.
THEOREM OneTransactionAlways == Spec => []OneTransaction
<1>1. ASSUME InstallInv PROVE OneTransaction
  <2>1. OneUnfinished BY <1>1 DEF InstallInv, UnfinishedInv
  <2>2. Cardinality(Pending) <= 1
    <3>1. CASE Pending = {}
      <4>1. Cardinality(Pending) = 0 BY <3>1, FS_EmptySet
      <4> QED BY <4>1
    <3>2. CASE Pending # {}
      <4>1. PICK x \in Pending : TRUE BY <3>2
      <4>2. Pending = {x} BY <2>1, <4>1 DEF OneUnfinished, Unfinished
      <4>3. Cardinality(Pending) = 1 BY <4>2, FS_Singleton
      <4> QED BY <4>3
    <3> QED BY <3>1, <3>2
  <2>3. Failed # {} => Pending \subseteq {X}
    <3>1. \A x \in Failed, y \in Pending : x = y BY <2>1 DEF OneUnfinished, Unfinished
    <3>2. \A x \in Failed : x \notin Pending BY DEF Failed, Pending
    <3> QED BY <3>1, <3>2
  <2> QED BY <2>2, <2>3 DEF OneTransaction
<1> QED BY <1>1, InstallInvariance, PTL

\* _finalize_campaign_runtime: the store lists an installation only if it committed,
\* and every committed install is listed.
THEOREM RuntimeRecordedAlways == Spec => []RuntimeRecorded
<1>1. ASSUME InstallInv PROVE RuntimeRecorded
  BY <1>1 DEF InstallInv, PointerInv, RuntimeRecorded
<1> QED BY <1>1, InstallInvariance, PTL

\* A change of status is that of Status.
LEMMA StatusOf ==
  ASSUME TypeOK, NEW y, NEW s, Status(y, s), NEW x \in Txs
  PROVE  journal'[x].status \in {journal[x].status, s}
<1>1. journal \in [Txs -> Journals] BY DEF TypeOK
<1>2. journal[x] \in Journals BY <1>1
<1>3. CASE x = y
  <2>1. journal' = [journal EXCEPT ![x] = [journal[x] EXCEPT !.status = s]]
    BY <1>1, <1>3 DEF Status
  <2>2. journal'[x] = [journal[x] EXCEPT !.status = s] BY <1>1, <2>1
  <2>3. journal'[x].status = s BY <1>2, <2>2 DEF Journals
  <2> QED BY <2>3
<1>4. CASE x # y
  <2>1. journal'[x] = journal[x] BY <1>1, <1>4 DEF Status
  <2> QED BY <2>1
<1> QED BY <1>3, <1>4

\* Only the end of a rollback records one.
LEMMA OnlyRolledBack ==
  ASSUME TypeOK, NEW x \in Txs, [Next]_vars,
         journal[x].status # "ROLLED_BACK", journal'[x].status = "ROLLED_BACK"
  PROVE  RolledBack /\ x = X
<1> DEFINE Not(s) == s # "ROLLED_BACK"
<1>0. journal \in [Txs -> Journals] /\ journal[x] \in Journals BY DEF TypeOK
<1>1. ~UNCHANGED journal BY DEF TypeOK
<1>2. ASSUME NEW y, NEW s, Status(y, s) PROVE s = "ROLLED_BACK"
  BY <1>2, StatusOf
<1>3. ~(\E y, s : Status(y, s) /\ Not(s)) BY <1>2
<1>4. ~Raise \/ ~UNCHANGED journal BY <1>1
<1>5. ~\E t \in Targets : Edit(t) BY <1>1 DEF Edit
<1>6. ~GiveUp BY <1>2 DEF GiveUp
<1>7. ~Recover
  <2> SUFFICES ASSUME Recover PROVE FALSE OBVIOUS
  <2>1. PICK y : \/ Status(y, "RECOVERY_FAILED")
                 \/ journal' = [journal EXCEPT ![y].attempted = TRUE]
    BY <1>1 DEF Recover
  <2>2. CASE Status(y, "RECOVERY_FAILED") BY <1>2, <2>2
  <2>3. CASE journal' = [journal EXCEPT ![y].attempted = TRUE]
    <3>1. journal'[x] = journal[x] \/ journal'[x] = [journal[x] EXCEPT !.attempted = TRUE]
      BY <1>0, <2>3
    <3> QED BY <1>0, <3>1 DEF Journals
  <2> QED BY <2>1, <2>2, <2>3
<1>8. ~Decide BY <1>1, <1>2 DEF Decide
<1>9. ~Beginning
  <2> SUFFICES ASSUME NEW op, NEW b, NEW o, Begin(op, b, o) PROVE FALSE BY DEF Beginning
  <2>1. PICK y \in Txs : journal' = [journal EXCEPT ![y] =
                           [NoJournal EXCEPT !.status = "IN_PROGRESS", !.op = op]]
    BY <1>1 DEF Begin
  <2>2. journal'[x] = journal[x] \/ journal'[x] = [NoJournal EXCEPT !.status = "IN_PROGRESS", !.op = op]
    BY <1>0, <2>1
  <2> QED BY <2>2 DEF NoJournal
<1>10. ~Noop BY <1>2 DEF Noop
<1>11. ~Prepare
  <2> SUFFICES ASSUME Prepare PROVE FALSE OBVIOUS
  <2>1. PICK plan : journal' = [journal EXCEPT ![X].planned = plan, ![X].prior = live,
                                               ![X].new = stage[X], ![X].committing = TRUE]
    BY <1>1 DEF Prepare
  <2>2. journal'[x].status = journal[x].status
    <3>1. CASE x = X
      <4>1. journal' = [journal EXCEPT ![x] = Planned(journal[x], plan, live, stage[X])]
        BY <1>0, <2>1, <3>1 DEF Planned
      <4>2. journal'[x] = Planned(journal[x], plan, live, stage[X]) BY <1>0, <4>1
      <4>3. \A r \in Journals : Planned(r, plan, live, stage[X]).status = r.status
        BY DEF Planned, Journals
      <4> QED BY <1>0, <4>2, <4>3
    <3>2. CASE x # X
      <4>1. journal'[x] = journal[x] BY <1>0, <2>1, <3>2
      <4> QED BY <4>1
    <3> QED BY <3>1, <3>2
  <2> QED BY <2>2
<1>12. ~Finalized
  <2> SUFFICES ASSUME Finalized PROVE FALSE OBVIOUS
  <2>1. journal'[x] = journal[x] \/ journal'[x] = [journal[x] EXCEPT !.finalized = TRUE]
    BY <1>0 DEF Finalized
  <2> QED BY <1>0, <2>1 DEF Journals
<1>13. ~Close BY <1>1, <1>2 DEF Close
<1>14. ~RollbackTarget /\ ~Restore BY <1>1, <1>6 DEF RollbackTarget, Restore
<1>15. ~Error BY <1>1, <1>6 DEF Error
<1>16. RolledBack
  BY <1>1, <1>5, <1>7, <1>8, <1>9, <1>10, <1>11, <1>12, <1>13, <1>14, <1>15 DEF Next, Command,
    vars, Lock, Crash, Preflight, Stage, NoopRecord, MoveOld, CopyOld, MoveNew, CheckNew, VerifyAll,
    WritePointer, Record, Retain, RetainCopy, CleanStage, CleanRollback, CleanWorkspace, RemoveLive
<1>17. x = X
  <2> SUFFICES ASSUME x # X PROVE FALSE OBVIOUS
  <2>1. journal'[x] = journal[x] BY <1>0, <1>16 DEF RolledBack, Status
  <2> QED BY <2>1
<1> QED BY <1>16, <1>17

\* RolledBack: a transaction is recorded as rolled back only when every target is back,
\* up to the user's later edits, and current.json does not name it.
THEOREM RollbackExactAlways == Spec => RollbackExact
<1> DEFINE Exactly == \A x \in Txs :
       journal[x].status # "ROLLED_BACK" /\ journal'[x].status = "ROLLED_BACK" =>
         /\ pointer.tx # x
         /\ SamePart(live, journal[x].prior, journal[x].planned)
         /\ \A t \in journal[x].planned : Edits(live[t]) >= Edits(journal[x].prior[t])
<1>1. ASSUME InstallInv, [Next]_vars PROVE Exactly
  <2> USE <1>1 DEF InstallInv
  <2> SUFFICES ASSUME NEW x \in Txs,
                      journal[x].status # "ROLLED_BACK", journal'[x].status = "ROLLED_BACK"
               PROVE  /\ pointer.tx # x
                      /\ \A t \in journal[x].planned : Restored(x, t)
    BY DEF SamePart, Restored
  <2>1. RolledBack /\ x = X BY OnlyRolledBack
  <2>2. run.pc = "rollback" /\ run.at = 0 /\ run.pc \in RollbackPlaces
    BY <2>1 DEF RolledBack, Now, RollbackPlaces
  <2>3. pointer.tx # x BY <2>1, <2>2 DEF PlaceInv
  <2>4. ASSUME NEW t \in journal[x].planned PROVE Restored(x, t)
    <3>1. t \in Targets BY DEF TypeOK, Journals
    <3>2. PICK i \in 1 .. Len(Order) : Order[i] = t BY <3>1, OrderFacts
    <3>3. i > run.at BY <2>2, <3>2, OrderFacts
    <3> QED BY <2>1, <2>2, <3>2, <3>3 DEF RollbackInv
  <2> QED BY <2>3, <2>4
<1>2. InstallInv /\ [Next]_vars => [Exactly]_vars BY <1>1
<1> QED BY <1>2, InstallInvariance, PTL DEF Spec, RollbackExact

\* A reader of current.json may rely on all the files of the version it names: install,
\* uninstall and recovery implement the abstract transactional change.
THEOREM AtomicAlways == Spec => AtomicSpec
<1>1. Init => Atomic!Init
  <2> SUFFICES ASSUME Init PROVE Unfinished = {} BY DEF Atomic!Init
  <2> QED BY DEF Init, Unfinished, Pending, Failed, NoJournal
<1>2. ASSUME InstallInv, [Next]_vars PROVE [Atomic!Next]_(Atomic!vars)
  <2>1. RefStep BY <1>2, NextGood, StutterGood DEF Good
  <2>2. CASE pointer' = pointer /\ Still
    <3>1. [t \in Targets |-> Relied(t)'] = [t \in Targets |-> Relied(t)] BY <2>2 DEF Still
    <3> DEFINE was == Unfinished # {}  is == Unfinished' # {}
    <3> QED BY <2>2, <3>1 DEF Atomic!Next, Atomic!Open, Atomic!End, Atomic!vars
  <2>3. CASE pointer' # pointer /\ Unfinished # {} /\ Unfinished' # {}
    BY <2>3 DEF Atomic!Next, Atomic!Commit
  <2> QED BY <2>1, <2>2, <2>3 DEF RefStep
<1> QED BY <1>1, <1>2, InstallInvariance, PTL DEF Spec, AtomicSpec, Atomic!Spec

-----------------------------------------------------------------------------
(* The driver of the user files that stay (ExactFile).                     *)

CallPlaces == {"idle", "open", "observe", "replay", "backup", "copy", "prepare",
           "swap", "verify", "restore", "confirm"}

\* Outside a call there is none; a call is one of the requests.
CallType ==
  \/ call = NoCall
  \/ /\ call \in [pc: CallPlaces, req: Requests]
     /\ call.pc # "idle"

\* A call that got past the journal works for the operation's own replacement,
\* or is the first to ask for it.
JournalBinds ==
  ~(CallAt("idle") \/ CallAt("open")) =>
    \/ records[R.op].state = "NONE"
    \/ records[R.op].state = "PREPARED" /\ Bound(R)

\* Whoever wrote the file last and is an operation left its replacement there.
WriterWrote ==
  \A o \in Ops : writer = o => records[o].state # "NONE" /\ file = records[o].replacement

\* The backup is replaced only while the file holds none of the operation's bytes.
BackupSafe == call.pc \in {"backup", "copy"} => writer # R.op

\* From the verified copy on the backup holds the baseline, and from the swap on
\* the journal is PREPARED for it.
BackupHolds ==
  /\ call.pc \in {"prepare", "swap", "verify", "restore", "confirm"} => backup[R.op] = R.baseline
  /\ call.pc \in {"swap", "verify", "restore", "confirm"} =>
       records[R.op].state = "PREPARED" /\ Bound(R)

\* What a call is about to overwrite is the baseline, or was written meanwhile.
Approved ==
  /\ call.pc \in {"backup", "copy", "prepare", "swap"} => file = R.baseline \/ edited
  /\ call.pc = "verify" => file = R.replacement \/ edited
  /\ call.pc = "restore" => edited

DriverInv ==
  /\ DriverTypeOK /\ CallType /\ JournalBinds /\ WriterWrote
  /\ BackupSafe /\ BackupHolds /\ Approved /\ Undoable

-----------------------------------------------------------------------------
\* What DriverInv says of the request of a call in progress.
LEMMA RequestFacts ==
  ASSUME DriverInv, ~CallAt("idle")
  PROVE  /\ call \in [pc: CallPlaces, req: Requests]
         /\ R \in Requests /\ R.op \in Ops
         /\ R.baseline \in Bytes /\ R.replacement \in Bytes
<1>1. call \in [pc: CallPlaces, req: Requests] BY DEF DriverInv, CallType, NoCall, CallAt
<1>2. R \in Requests BY <1>1 DEF R
<1> QED BY <1>1, <1>2, ExactFileAssumption DEF Ops

LEMMA DriverInitInv == DriverInit => DriverInv
<1> SUFFICES ASSUME DriverInit PROVE DriverInv OBVIOUS
<1>0. writes \in 0 .. MaxWrites /\ crashes \in 0 .. MaxCrashes
  BY ExactFileAssumption DEF DriverInit
<1>1. DriverTypeOK BY <1>0, ExactFileAssumption DEF DriverInit, DriverTypeOK, NoRecord
<1>2. \A o \in Ops : writer # o /\ records[o].state = "NONE"
  BY ExactFileAssumption DEF DriverInit, NoRecord
<1>3. CallType /\ CallAt("idle") BY DEF DriverInit, CallType, CallAt, NoCall
<1>4. JournalBinds /\ BackupSafe /\ BackupHolds /\ Approved
  BY <1>3 DEF JournalBinds, BackupSafe, BackupHolds, Approved, CallAt
<1>5. WriterWrote /\ Undoable BY <1>2 DEF WriterWrote, Undoable
<1> QED BY <1>1, <1>3, <1>4, <1>5 DEF DriverInv

\* A call that goes on keeps its request; one that returns leaves none.
LEMMA CallGotoFacts ==
  ASSUME DriverInv, ~CallAt("idle"), NEW pc \in CallPlaces \ {"idle"}, CallGoto(pc)
  PROVE  /\ call' \in [pc: CallPlaces, req: Requests] /\ call'.pc = pc
         /\ CallType' /\ R' = R
BY RequestFacts DEF CallGoto, CallType, R

LEMMA ReturnFacts ==
  ASSUME Return
  PROVE  CallType' /\ call'.pc = "idle" /\ JournalBinds' /\ BackupSafe' /\ BackupHolds' /\ Approved'
BY DEF Return, NoCall, CallType, JournalBinds, BackupSafe, BackupHolds, Approved, CallAt

\* What a write of the journal leaves.
LEMMA WriteFacts ==
  ASSUME DriverInv, ~CallAt("idle"), NEW s \in {"PREPARED", "CONFIRMED"}, Write(s)
  PROVE  /\ records' \in [Ops -> [state: {"NONE", "PREPARED", "CONFIRMED"},
                                  baseline: Bytes \cup {None}, replacement: Bytes \cup {None}]]
         /\ records'[R.op] = [state |-> s, baseline |-> R.baseline, replacement |-> R.replacement]
         /\ \A o \in Ops \ {R.op} : records'[o] = records[o]
BY RequestFacts DEF Write, DriverInv, DriverTypeOK

LEMMA DriverStepInv == ASSUME DriverInv, Step PROVE DriverInv'
<1> USE DEF DriverInv
<1>i. ~CallAt("idle")
  BY DEF Step, CallAt, Open, Observe, Replay, BackupOpen, BackupCopy, WritePrepared, Swap, Verify,
         RestoreBackup, Confirm
<1>r. /\ call \in [pc: CallPlaces, req: Requests] /\ R \in Requests /\ R.op \in Ops
      /\ R.baseline \in Bytes /\ R.replacement \in Bytes
  BY <1>i, RequestFacts
<1>1. CASE Open
  <2>1. CASE Return
    BY <1>1, <2>1, ReturnFacts DEF Open, DriverTypeOK, WriterWrote, Undoable
  <2>2. CASE CallGoto("observe") /\ (records[R.op].state = "NONE" \/ (Bound(R) /\ records[R.op].state = "PREPARED"))
    <3>1. CallType' /\ call'.pc = "observe" /\ R' = R BY <1>i, <2>2, CallGotoFacts DEF CallPlaces
    <3>2. JournalBinds' BY <1>1, <2>2, <3>1 DEF Open, JournalBinds, Bound
    <3>3. BackupSafe' /\ BackupHolds' /\ Approved' BY <3>1 DEF BackupSafe, BackupHolds, Approved
    <3> QED BY <1>1, <3>1, <3>2, <3>3 DEF Open, DriverTypeOK, WriterWrote, Undoable
  <2> QED BY <1>1, <2>1, <2>2 DEF Open
<1>2. CASE Observe
  <2>b. records[R.op].state = "NONE" \/ (records[R.op].state = "PREPARED" /\ Bound(R))
    BY <1>2 DEF Observe, CallAt, JournalBinds
  <2>u. DriverTypeOK' /\ WriterWrote' /\ Undoable' BY <1>2 DEF Observe, DriverTypeOK, WriterWrote, Undoable
  <2>1. CASE Return
    BY <2>u, <2>1, ReturnFacts
  <2>2. CASE CallGoto("replay")
    <3>1. CallType' /\ call'.pc = "replay" /\ R' = R BY <1>i, <2>2, CallGotoFacts DEF CallPlaces
    <3>2. JournalBinds' BY <1>2, <2>b, <3>1 DEF Observe, JournalBinds, Bound
    <3> QED BY <2>u, <3>1, <3>2 DEF BackupSafe, BackupHolds, Approved
  <2>3. CASE CallGoto("backup") /\ file = R.baseline /\ file # R.replacement
    <3>1. CallType' /\ call'.pc = "backup" /\ R' = R BY <1>i, <2>3, CallGotoFacts DEF CallPlaces
    <3>2. JournalBinds' BY <1>2, <2>b, <3>1 DEF Observe, JournalBinds, Bound
    <3>3. writer # R.op BY <1>r, <2>b, <2>3 DEF WriterWrote, Bound
    <3>4. BackupSafe' /\ BackupHolds' /\ Approved'
      BY <1>2, <2>3, <3>1, <3>3 DEF Observe, BackupSafe, BackupHolds, Approved
    <3> QED BY <2>u, <3>1, <3>2, <3>4
  <2> QED BY <1>2, <2>1, <2>2, <2>3 DEF Observe
<1>3. CASE Replay \/ Confirm
  <2>1. Write("CONFIRMED") /\ Return /\ UNCHANGED <<file, backup, writer, edited, writes, crashes>>
    BY <1>3 DEF Replay, Confirm
  <2>b. records[R.op].state = "NONE" \/ (records[R.op].state = "PREPARED" /\ Bound(R))
    BY <1>3 DEF Replay, Confirm, CallAt, JournalBinds
  <2>2. DriverTypeOK' BY <1>i, <2>1, WriteFacts DEF DriverTypeOK
  <2>3. WriterWrote' BY <1>i, <1>r, <2>1, <2>b, WriteFacts DEF WriterWrote, Bound
  <2>4. Undoable' BY <1>i, <1>r, <2>1, WriteFacts DEF Undoable
  <2> QED BY <2>1, <2>2, <2>3, <2>4, ReturnFacts
<1>4. CASE BackupOpen
  <2>1. CallType' /\ call'.pc = "copy" /\ R' = R
    BY <1>i, <1>4, CallGotoFacts DEF BackupOpen, CallPlaces
  <2>2. JournalBinds' BY <1>4, <2>1 DEF BackupOpen, JournalBinds, CallAt, Bound
  <2>3. BackupSafe' /\ BackupHolds' /\ Approved'
    BY <1>4, <2>1 DEF BackupOpen, BackupSafe, BackupHolds, Approved, CallAt
  <2>4. DriverTypeOK' /\ WriterWrote' BY <1>4 DEF BackupOpen, DriverTypeOK, WriterWrote
  <2>5. Undoable' BY <1>4, <1>r DEF BackupOpen, Undoable, BackupSafe, DriverTypeOK, CallAt
  <2> QED BY <2>1, <2>2, <2>3, <2>4, <2>5
<1>5. CASE BackupCopy
  <2>u. DriverTypeOK' /\ WriterWrote' BY <1>5 DEF BackupCopy, DriverTypeOK, WriterWrote
  <2>v. Undoable' BY <1>5, <1>r DEF BackupCopy, Undoable, BackupSafe, DriverTypeOK, CallAt
  <2>1. CASE Return BY <2>u, <2>v, <2>1, ReturnFacts
  <2>2. CASE CallGoto("prepare") /\ file = R.baseline
    <3>1. CallType' /\ call'.pc = "prepare" /\ R' = R BY <1>i, <2>2, CallGotoFacts DEF CallPlaces
    <3>2. JournalBinds' BY <1>5, <3>1 DEF BackupCopy, JournalBinds, CallAt, Bound
    <3>3. BackupHolds' BY <1>5, <1>r, <2>2, <3>1 DEF BackupCopy, BackupHolds, DriverTypeOK
    <3>4. BackupSafe' /\ Approved' BY <1>5, <2>2, <3>1 DEF BackupCopy, BackupSafe, Approved
    <3> QED BY <2>u, <2>v, <3>1, <3>2, <3>3, <3>4
  <2> QED BY <1>5, <2>1, <2>2 DEF BackupCopy
<1>6. CASE WritePrepared
  <2>1. CallType' /\ call'.pc = "swap" /\ R' = R BY <1>i, <1>6, CallGotoFacts DEF WritePrepared, CallPlaces
  <2>j. /\ records'[R.op] = [state |-> "PREPARED", baseline |-> R.baseline, replacement |-> R.replacement]
        /\ \A o \in Ops \ {R.op} : records'[o] = records[o]
    BY <1>i, <1>6, WriteFacts DEF WritePrepared
  <2>b. backup[R.op] = R.baseline BY <1>6 DEF WritePrepared, BackupHolds, CallAt
  <2>2. JournalBinds' BY <2>1, <2>j DEF JournalBinds, Bound
  <2>3. BackupHolds' BY <1>6, <2>1, <2>j, <2>b DEF WritePrepared, BackupHolds, Bound
  <2>4. BackupSafe' /\ Approved' BY <1>6, <2>1 DEF WritePrepared, BackupSafe, Approved, CallAt
  <2>5. DriverTypeOK' BY <1>i, <1>6, WriteFacts DEF WritePrepared, DriverTypeOK
  <2>6. records[R.op].state = "NONE" \/ Bound(R) BY <1>6 DEF WritePrepared, CallAt, JournalBinds
  <2>7. WriterWrote' BY <1>6, <1>r, <2>j, <2>6 DEF WritePrepared, WriterWrote, Bound
  <2>8. Undoable' BY <1>6, <2>j, <2>b DEF WritePrepared, Undoable
  <2> QED BY <2>1, <2>2, <2>3, <2>4, <2>5, <2>7, <2>8
<1>7. CASE Swap
  <2>1. CallType' /\ call'.pc = "verify" /\ R' = R BY <1>i, <1>7, CallGotoFacts DEF Swap, CallPlaces
  <2>b. backup[R.op] = R.baseline /\ records[R.op].state = "PREPARED" /\ Bound(R)
    BY <1>7 DEF Swap, BackupHolds, CallAt
  <2>2. JournalBinds' /\ BackupHolds' /\ BackupSafe' /\ Approved'
    BY <1>7, <2>1, <2>b DEF Swap, JournalBinds, BackupHolds, BackupSafe, Approved, Bound
  <2>3. DriverTypeOK' BY <1>7, <1>r DEF Swap, DriverTypeOK
  <2>4. WriterWrote' /\ Undoable' BY <1>7, <1>r, <2>b DEF Swap, WriterWrote, Undoable, Bound
  <2> QED BY <2>1, <2>2, <2>3, <2>4
<1>8. CASE Verify
  <2> DEFINE next == IF file = R.replacement THEN "confirm" ELSE "restore"
  <2>1. CallType' /\ call'.pc = next /\ R' = R
    <3>1. next \in CallPlaces \ {"idle"} BY DEF CallPlaces
    <3>2. CallGoto(next) BY <1>8 DEF Verify
    <3> HIDE DEF next
    <3> QED BY <1>i, <3>1, <3>2, CallGotoFacts
  <2>2. JournalBinds' /\ BackupHolds' /\ BackupSafe' /\ Approved'
    BY <1>8, <2>1 DEF Verify, JournalBinds, BackupHolds, BackupSafe, Approved, Bound, CallAt
  <2>3. DriverTypeOK' /\ WriterWrote' /\ Undoable' BY <1>8 DEF Verify, DriverTypeOK, WriterWrote, Undoable
  <2> QED BY <2>1, <2>2, <2>3
<1>9. CASE RestoreBackup
  <2>1. backup[R.op] = R.baseline BY <1>9 DEF RestoreBackup, BackupHolds, CallAt
  <2>2. DriverTypeOK' BY <1>9, <1>r, <2>1 DEF RestoreBackup, DriverTypeOK
  <2>3. WriterWrote' /\ Undoable' BY <1>9, ExactFileAssumption DEF RestoreBackup, WriterWrote, Undoable
  <2> QED BY <1>9, <2>2, <2>3, ReturnFacts DEF RestoreBackup
<1> QED BY <1>1, <1>2, <1>3, <1>4, <1>5, <1>6, <1>7, <1>8, <1>9 DEF Step

LEMMA DriverNextInv == ASSUME DriverInv, [DriverNext]_driverVars PROVE DriverInv'
<1> USE DEF DriverInv
<1>1. CASE Step BY <1>1, DriverStepInv
<1>2. CASE CallDies
  <2>1. crashes' \in 0 .. MaxCrashes BY <1>2, ExactFileAssumption DEF CallDies, DriverTypeOK
  <2>2. DriverTypeOK' BY <1>2, <2>1 DEF CallDies, DriverTypeOK
  <2> QED BY <1>2, <2>2, ReturnFacts DEF CallDies, WriterWrote, Undoable
<1>3. ASSUME NEW r \in Requests, Call(r) PROVE DriverInv'
  <2>1. call' = [pc |-> "open", req |-> r] /\ UNCHANGED <<file, records, backup, writer, writes, crashes>>
        /\ edited' = FALSE
    BY <1>3 DEF Call
  <2>2. CallType' /\ JournalBinds' /\ BackupSafe' /\ BackupHolds' /\ Approved'
    BY <2>1 DEF CallType, CallPlaces, JournalBinds, BackupSafe, BackupHolds, Approved, CallAt
  <2> QED BY <2>1, <2>2 DEF DriverTypeOK, WriterWrote, Undoable
<1>4. ASSUME NEW b \in Bytes, UserWrite(b) PROVE DriverInv'
  <2>1. CallType' /\ JournalBinds' /\ BackupHolds'
    BY <1>4 DEF UserWrite, CallType, JournalBinds, BackupHolds, CallAt, Bound, R
  <2>e. writes' \in 0 .. MaxWrites BY <1>4, ExactFileAssumption DEF UserWrite, DriverTypeOK
  <2>t. DriverTypeOK' BY <1>4, <2>e DEF UserWrite, DriverTypeOK
  <2>2. DriverTypeOK' /\ Approved' BY <1>4, <2>t DEF UserWrite, Approved
  <2>3. WriterWrote' /\ Undoable' BY <1>4, ExactFileAssumption DEF UserWrite, WriterWrote, Undoable
  <2>4. BackupSafe'
    <3>1. CASE CallAt("idle") BY <1>4, <3>1 DEF UserWrite, BackupSafe, CallAt
    <3>2. CASE ~CallAt("idle") BY <1>4, <3>2, RequestFacts, ExactFileAssumption DEF UserWrite, BackupSafe, R
    <3> QED BY <3>1, <3>2
  <2> QED BY <2>1, <2>2, <2>3, <2>4
<1>5. CASE UNCHANGED driverVars
  BY <1>5 DEF driverVars, DriverTypeOK, CallType, JournalBinds, WriterWrote, BackupSafe, BackupHolds,
     Approved, Undoable, CallAt, Bound, R
<1> QED BY <1>1, <1>2, <1>3, <1>4, <1>5 DEF DriverNext

LEMMA DriverInvariance == DriverSpec => []DriverInv
BY DriverInitInv, DriverNextInv, PTL DEF DriverSpec

\* The state of the driver has its type.
THEOREM ExactFileTypeCorrect == DriverSpec => []DriverTypeOK
<1>1. DriverInv => DriverTypeOK BY DEF DriverInv
<1> QED BY <1>1, DriverInvariance, PTL

\* replace: as long as the file holds the bytes of an operation whose journal says
\* PREPARED, its backup holds the approved baseline, wherever calls died.
THEOREM UndoableAlways == DriverSpec => []Undoable
<1>1. DriverInv => Undoable BY DEF DriverInv
<1> QED BY <1>1, DriverInvariance, PTL

\* replace: bytes are overwritten only if they are the approved baseline, or were
\* written after the call had looked at the file.
THEOREM OnlyApprovedAlways == DriverSpec => OnlyApproved
<1>1. ASSUME DriverInv, [DriverNext]_driverVars
      PROVE  [file' # file /\ writes' = writes => file = R.baseline \/ edited]_driverVars
  <2> SUFFICES ASSUME DriverNext, file' # file, writes' = writes PROVE file = R.baseline \/ edited
    BY <1>1 DEF driverVars
  <2>1. \/ Swap \/ RestoreBackup \/ \E b \in Bytes : UserWrite(b)
    BY DEF DriverNext, Step, Open, Observe, Replay, BackupOpen, BackupCopy, WritePrepared, Verify,
           Confirm, CallDies, Call
  <2>2. CASE Swap BY <1>1, <2>2 DEF DriverInv, Swap, Approved, CallAt
  <2>3. CASE RestoreBackup BY <1>1, <2>3 DEF DriverInv, RestoreBackup, Approved, CallAt
  <2>4. ASSUME NEW b \in Bytes, UserWrite(b) PROVE FALSE
    BY <1>1, <2>4, ExactFileAssumption DEF DriverInv, DriverTypeOK, UserWrite
  <2> QED BY <2>1, <2>2, <2>3, <2>4
<1> QED BY <1>1, DriverInvariance, PTL DEF DriverSpec, OnlyApproved
=============================================================================
