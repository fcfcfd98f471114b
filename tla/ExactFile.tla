------------------------------- MODULE ExactFile -------------------------------
(***************************************************************************)
(* ExactFileEffectDriver.replace (effects.py): the replacement of one file *)
(* whose baseline was approved, with a journal and a backup per operation. *)
(* The driver may die between any two durable steps and be called again;   *)
(* the user writes the file at any time.  A digest stands for its bytes.   *)
(* The installer calls the driver under its lock: one call at a time.      *)
(***************************************************************************)
EXTENDS Naturals

CONSTANTS
  Bytes,      \* contents of a file
  Initial,    \* the file's first content
  Requests,   \* calls: operation identity, approved baseline, replacement
  MaxWrites,   \* bound on the user's writes
  MaxCrashes, \* bound on crashes and errors
  None, Torn

Ops == {r.op : r \in Requests}
ASSUME ExactFileAssumption ==
  /\ Initial \in Bytes /\ {None, Torn} \cap Bytes = {} /\ None # Torn
  /\ None \notin Ops
  /\ \A r \in Requests : {r.baseline, r.replacement} \subseteq Bytes
  /\ MaxWrites \in Nat /\ MaxCrashes \in Nat

NoRecord == [state |-> "NONE", baseline |-> None, replacement |-> None]
NoCall == [pc |-> "idle", req |-> None]

VARIABLES
  file,     \* the target
  records,  \* the journal of each operation
  backup,   \* its baseline backup
  call,     \* the call in progress
  writer,   \* who wrote the file last: an operation, or None for the user
  edited,   \* the user wrote the file during this call
  writes, crashes
driverVars == <<file, records, backup, call, writer, edited, writes, crashes>>

DriverInit ==
  /\ file = Initial
  /\ records = [o \in Ops |-> NoRecord] /\ backup = [o \in Ops |-> None]
  /\ call = NoCall /\ writer = None /\ edited = FALSE /\ writes = 0 /\ crashes = 0

R == call.req
CallAt(pc) == call.pc = pc
CallGoto(pc) == call' = [call EXCEPT !.pc = pc]
Return == call' = NoCall
Write(state) ==
  records' = [records EXCEPT ![R.op] =
                [state |-> state, baseline |-> R.baseline, replacement |-> R.replacement]]

Call(r) ==
  /\ CallAt("idle") /\ call' = [pc |-> "open", req |-> r] /\ edited' = FALSE
  /\ UNCHANGED <<file, records, backup, writer, writes, crashes>>

\* A journal binds its operation to one replacement; a confirmed one is only
\* compared with the file.
Bound(r) == records[r.op].baseline = r.baseline /\ records[r.op].replacement = r.replacement
\* Changed: a prepared replacement is resumed where it died.
Open_Resume ==
  /\ CallAt("open")
  /\ IF records[R.op].state = "NONE" THEN CallGoto("observe")
     ELSE IF Bound(R) /\ records[R.op].state = "PREPARED" THEN CallGoto("swap") ELSE Return
  /\ UNCHANGED <<file, records, backup, writer, edited, writes, crashes>>
Open ==
  /\ CallAt("open")
  /\ IF records[R.op].state = "NONE" \/ (Bound(R) /\ records[R.op].state = "PREPARED")
     THEN CallGoto("observe") ELSE Return
  /\ UNCHANGED <<file, records, backup, writer, edited, writes, crashes>>

\* Changed: a file that holds the replacement is not what a call expects.
Observe_Strict ==
  /\ CallAt("observe")
  /\ IF file = R.baseline THEN CallGoto("backup") ELSE Return
  /\ UNCHANGED <<file, records, backup, writer, edited, writes, crashes>>
Observe ==
  /\ CallAt("observe")
  /\ IF file = R.replacement THEN CallGoto("replay")
     ELSE IF file = R.baseline THEN CallGoto("backup") ELSE Return
  /\ UNCHANGED <<file, records, backup, writer, edited, writes, crashes>>
Replay ==
  /\ CallAt("replay") /\ Write("CONFIRMED") /\ Return
  /\ UNCHANGED <<file, backup, writer, edited, writes, crashes>>

\* The backup is written in place and verified before the journal says PREPARED.
BackupOpen ==
  /\ CallAt("backup") /\ backup' = [backup EXCEPT ![R.op] = Torn] /\ CallGoto("copy")
  /\ UNCHANGED <<file, records, writer, edited, writes, crashes>>
\* Changed: the copy is not verified.
BackupCopy_Blind ==
  /\ CallAt("copy") /\ backup' = [backup EXCEPT ![R.op] = file] /\ CallGoto("prepare")
  /\ UNCHANGED <<file, records, writer, edited, writes, crashes>>
BackupCopy ==
  /\ CallAt("copy") /\ backup' = [backup EXCEPT ![R.op] = file]
  /\ IF file = R.baseline THEN CallGoto("prepare") ELSE Return
  /\ UNCHANGED <<file, records, writer, edited, writes, crashes>>
WritePrepared ==
  /\ CallAt("prepare") /\ Write("PREPARED") /\ CallGoto("swap")
  /\ UNCHANGED <<file, backup, writer, edited, writes, crashes>>

Swap ==
  /\ CallAt("swap") /\ file' = R.replacement /\ writer' = R.op /\ CallGoto("verify")
  /\ UNCHANGED <<records, backup, edited, writes, crashes>>
Verify ==
  /\ CallAt("verify") /\ CallGoto(IF file = R.replacement THEN "confirm" ELSE "restore")
  /\ UNCHANGED <<file, records, backup, writer, edited, writes, crashes>>
RestoreBackup ==
  /\ CallAt("restore") /\ file' = backup[R.op] /\ writer' = None
  /\ backup' = [backup EXCEPT ![R.op] = None] /\ Return
  /\ UNCHANGED <<records, edited, writes, crashes>>
Confirm ==
  /\ CallAt("confirm") /\ Write("CONFIRMED") /\ Return
  /\ UNCHANGED <<file, backup, writer, edited, writes, crashes>>

\* A crash, or an exception of any step, whose handler only removes the
\* temporary file.
CallDies ==
  /\ ~CallAt("idle") /\ crashes < MaxCrashes /\ crashes' = crashes + 1 /\ Return
  /\ UNCHANGED <<file, records, backup, writer, edited, writes>>
UserWrite(b) ==
  /\ writes < MaxWrites /\ writes' = writes + 1
  /\ file' = b /\ writer' = None /\ edited' = TRUE
  /\ UNCHANGED <<records, backup, call, crashes>>

Step ==
  \/ Open \/ Observe \/ Replay \/ BackupOpen \/ BackupCopy \/ WritePrepared
  \/ Swap \/ Verify \/ RestoreBackup \/ Confirm
DriverNext ==
  \/ Step \/ CallDies
  \/ \E r \in Requests : Call(r)
  \/ \E b \in Bytes : UserWrite(b)
DriverSpec == DriverInit /\ [][DriverNext]_driverVars
\* A living call proceeds, and each operation is requested again.
DriverFairSpec == DriverSpec /\ WF_driverVars(Step) /\ \A r \in Requests : SF_driverVars(Call(r))

(***************************************************************************)
(* Properties                                                              *)
(***************************************************************************)
\* The state has its type.
DriverTypeOK ==
  /\ file \in Bytes
  /\ records \in [Ops -> [state: {"NONE", "PREPARED", "CONFIRMED"},
                          baseline: Bytes \cup {None}, replacement: Bytes \cup {None}]]
  /\ backup \in [Ops -> Bytes \cup {None, Torn}]
  /\ writer \in Ops \cup {None} /\ edited \in BOOLEAN
  /\ writes \in 0 .. MaxWrites /\ crashes \in 0 .. MaxCrashes

\* A replacement that died before it was confirmed can be undone: the baseline
\* is in the backup as long as the file holds the operation's bytes.
Undoable ==
  \A o \in Ops : records[o].state = "PREPARED" /\ writer = o => backup[o] = records[o].baseline

\* A call overwrites the user's bytes only if they were written during the call
\* (after the driver looked): what was there before is the approved baseline.
OnlyApproved ==
  [][file' # file /\ writes' = writes => file = R.baseline \/ edited]_driverVars

\* A prepared replacement is confirmed by its repetition, wherever it died, if
\* nobody else, an operation or the user, takes over the file.
Finishes ==
  \A o \in Ops : records[o].state = "PREPARED" ~>
                   records[o].state = "CONFIRMED" \/ writer \in Ops \ {o} \/ writes > 0
=============================================================================
