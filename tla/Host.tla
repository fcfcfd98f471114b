--------------------------------- MODULE Host ---------------------------------
(***************************************************************************)
(* NativeCodexHost and AppServerTransport (campaign_engine/host.py): one   *)
(* actor, bound to a native thread that is still idle, from the start of   *)
(* its turn to the collection of its receipt.  The App Server writes its   *)
(* messages to a stream; a reader thread moves them to the inbox and       *)
(* records usage reports on the way; the supervisor's thread pumps the     *)
(* inbox while it waits for a response or for the end of the turn and      *)
(* performs the tool calls it meets.  Meanwhile another process may take   *)
(* the authority of the lease away, another thread may interrupt the       *)
(* actor, and the owner of the worktree may edit it, undo an edit or stage *)
(* one.                                                                    *)
(*                                                                         *)
(* Product bytes are counted: patches the worker applied, edits of the     *)
(* owner that stand in the worker's files, and one file outside the scope  *)
(* that the owner has changed or not.  The paths a patch names are inside  *)
(* the scope (ScopeGuard refuses the others before any step below).        *)
(***************************************************************************)
EXTENDS Integers, Sequences

CONSTANTS
  Turns,       \* turn ids the server uses; 1 is the one it answers with
  MaxMessages, \* bound on tool calls and usage reports
  MaxEdits     \* bound on the owner's edits that stand at one time

ASSUME HostAssumption ==
  /\ 1 \in Turns /\ Turns \subseteq Nat \ {0}
  /\ MaxMessages \in Nat /\ MaxEdits \in Nat

Tools == {"patch", "commit"}
Kinds == Tools \cup {"read", "usage", "response", "done", "usage lost"}
Message == [kind: Kinds, turn: Turns]
Msg(kind, turn) == [kind |-> kind, turn |-> turn]
Tree == [patches: Nat, edits: Nat, other: BOOLEAN]
Frozen == [patches |-> 0, edits |-> 0, other |-> FALSE]
Scoped(t) == <<t.patches, t.edits>>
NoTurn == 0

VARIABLES
  writes,      \* the role has write tools (otherwise it is a reviewer)
  live,        \* the store authorises actions of the lease
  interrupted, \* the lease is in _interrupted
  open,        \* the transport is connected
  consumed,    \* binding.lease_consumed
  turn,        \* binding.turn_id
  server,      \* messages other than the response and the end, sent so far
  answered,    \* the server sent the response of turn/start
  ended,       \* the server sent turn/completed
  stream,      \* written by the server, not yet read
  inbox,       \* read, not yet pumped
  events,      \* turns whose completion is in transport.events
  pc,          \* the supervisor's thread
  failures,    \* collections that ended in a transport failure
  act,         \* the tool call in progress
  work,        \* worktree
  head,        \* tree of HEAD
  index,       \* tree of the index
  metered,     \* usage reports of turn 1 that are stored
  sent,        \* history: usage reports of turn 1 before its end
  granted,     \* history: patches answered with success
  sealed,      \* history: tree of the last commit answered with success
  acted,       \* history: turns that had a tool call answered with success
  stop,        \* history: patches in the worktree, HEAD and sealed when the authority ended
  shown,       \* history: worktrees a reviewer's reading tools answered from
  undone,      \* history: the owner undid an edit after a reviewer was shown one
  raced,       \* history: the owner edited a file between a patch and its confirmation
  late         \* history: the owner staged between the look at the index and write-tree

hostVars == <<consumed, turn, inbox, events, pc, failures, act>>
treeVars == <<work, head, index, granted, sealed, acted>>
serverVars == <<server, answered, ended, sent>>
envVars == <<live, stop>>
ownerVars == <<undone, raced, late>>
vars == <<writes, hostVars, treeVars, serverVars, envVars, ownerVars, shown,
          interrupted, open, stream, metered>>

NoAct == [kind |-> "none", step |-> "none", old |-> Frozen, new |-> Frozen]
Steps == {"none", "authorize", "apply", "confirm", "index", "add", "staged", "write",
          "check", "move", "moved", "status"}

Init ==
  /\ writes \in BOOLEAN
  /\ live = TRUE /\ interrupted = FALSE /\ open = TRUE
  /\ consumed = FALSE /\ turn = NoTurn
  /\ server = 0 /\ answered = FALSE /\ ended = FALSE
  /\ stream = <<>> /\ inbox = <<>> /\ events = {}
  /\ pc = "idle" /\ failures = 0
  /\ act = NoAct
  /\ work = Frozen /\ head = work /\ index = head
  /\ metered = 0 /\ sent = 0
  /\ granted = 0 /\ sealed = head /\ acted = {}
  /\ stop = [patches |-> 0, head |-> head, sealed |-> sealed]
  /\ shown = {} /\ undone = FALSE /\ raced = FALSE /\ late = FALSE

-----------------------------------------------------------------------------
(* The App Server and the reader thread.                                   *)

Write(m) == stream' = Append(stream, m)

\* Reading changes nothing for a writer, so the model has only reviewers read.
ServerCalls ==
  /\ open /\ consumed /\ ~ended /\ server < MaxMessages
  /\ \E kind \in Tools \cup {"read", "usage"}, t \in Turns :
       /\ kind = "read" => ~writes
       /\ Write(Msg(kind, t))
       /\ sent' = IF kind = "usage" /\ t = 1 THEN sent + 1 ELSE sent
  /\ server' = server + 1
  /\ UNCHANGED <<hostVars, treeVars, envVars, ownerVars, shown, interrupted, open,
       metered, answered, ended>>

ServerAnswers ==
  /\ open /\ consumed /\ ~answered
  /\ Write(Msg("response", 1))
  /\ answered' = TRUE
  /\ UNCHANGED <<hostVars, treeVars, envVars, ownerVars, shown, interrupted, open,
       metered, server, ended, sent>>

ServerEnds ==
  /\ open /\ consumed /\ ~ended
  /\ Write(Msg("done", 1))
  /\ ended' = TRUE
  /\ UNCHANGED <<hostVars, treeVars, envVars, ownerVars, shown, interrupted, open,
       metered, server, answered, sent>>

\* A report that could not be stored is announced in the inbox before it.
Captured(m, ok) == IF ok THEN <<m>> ELSE <<Msg("usage lost", m.turn), m>>

\* record_native_usage
Metered(m) == IF m.turn = 1 THEN metered + 1 ELSE metered

\* _read_loop: a usage report is stored (_record_usage) while it is read,
\* whether or not anybody waits; one of another turn is dropped.
Read ==
  /\ stream # <<>>
  /\ stream' = Tail(stream)
  /\ LET m == Head(stream)
         ours == m.kind = "usage" /\ consumed /\ turn \in {NoTurn, m.turn}
     IN \/ /\ inbox' = Append(inbox, m)
           /\ metered' = IF ours THEN Metered(m) ELSE metered
        \/ /\ ours
           /\ inbox' = inbox \o Captured(m, FALSE)
           /\ UNCHANGED metered
  /\ UNCHANGED <<consumed, turn, events, pc, failures, act, treeVars, serverVars,
       envVars, ownerVars, shown, interrupted, open>>

-----------------------------------------------------------------------------
(* The turn.                                                               *)

\* mutant: only HEAD is compared with the candidate
Candidate_Head == writes \/ head = Frozen

\* The worktree is the clean candidate a reviewer was bound to.
Candidate == writes \/ (work = Frozen /\ head = work /\ index = head)

\* start_actor_turn: the lease is consumed before turn/start is sent.
StartTurn ==
  /\ pc = "idle" /\ open
  /\ IF Candidate THEN consumed' = TRUE /\ pc' = "starting"
     ELSE pc' = "refused" /\ UNCHANGED consumed
  /\ UNCHANGED <<turn, inbox, events, failures, act, treeVars, serverVars, envVars,
       ownerVars, shown, interrupted, open, stream, metered>>

\* interrupt, by the thread that holds the actor
Shut == interrupted' = TRUE /\ open' = FALSE

\* The response names the turn that early tool calls were bound to.
Matches(t) == turn \in {NoTurn, t}

\* Pumping: the first message of the inbox.
Pumping == pc \in {"starting", "waiting"} /\ act = NoAct /\ inbox # <<>>
Rest == inbox' = Tail(inbox)

PumpResponse ==
  /\ Pumping /\ Head(inbox).kind = "response"
  /\ Rest
  /\ IF Matches(Head(inbox).turn)
     THEN /\ turn' = Head(inbox).turn
          /\ pc' = "started"
          /\ UNCHANGED <<interrupted, open>>
     ELSE Shut /\ pc' = "failed" /\ UNCHANGED turn
  /\ UNCHANGED <<consumed, events, failures, act, treeVars, serverVars, envVars,
       ownerVars, shown, stream, metered>>

PumpEvent ==
  /\ Pumping /\ Head(inbox).kind \in {"usage", "done"}
  /\ Rest
  /\ events' = IF Head(inbox).kind = "done" THEN events \cup {Head(inbox).turn} ELSE events
  /\ UNCHANGED <<consumed, turn, pc, failures, act, treeVars, serverVars, envVars,
       ownerVars, shown, interrupted, open, stream, metered>>

\* What ends the wait with an exception: a lost usage report, a timeout, or a
\* stream that closed.  The supervisor interrupts a start that fails, and a
\* second collection that fails.
Raises ==
  IF pc = "waiting" /\ failures = 0
  THEN pc' = "started" /\ failures' = 1 /\ UNCHANGED <<interrupted, open>>
  ELSE Shut /\ pc' = "failed" /\ UNCHANGED failures

PumpRaises ==
  /\ \/ Pumping /\ Head(inbox).kind = "usage lost" /\ Rest
     \/ pc \in {"starting", "waiting"} /\ act = NoAct /\ inbox = <<>> /\ UNCHANGED inbox
  /\ Raises
  /\ UNCHANGED <<consumed, turn, events, act, treeVars, serverVars, envVars, ownerVars,
       shown, stream, metered>>

\* collect_terminal_receipt: the end of the turn may have been pumped before.
Collect ==
  /\ pc = "started" /\ open /\ turn # NoTurn
  /\ pc' = "waiting"
  /\ UNCHANGED <<consumed, turn, inbox, events, failures, act, treeVars, serverVars,
       envVars, ownerVars, shown, interrupted, open, stream, metered>>

Receipt ==
  /\ pc = "waiting" /\ act = NoAct /\ turn \in events
  /\ pc' = IF Candidate /\ live THEN "collected" ELSE "refused"
  /\ UNCHANGED <<consumed, turn, inbox, events, failures, act, treeVars, serverVars,
       envVars, ownerVars, shown, interrupted, open, stream, metered>>

-----------------------------------------------------------------------------
(* _handle_dynamic_tool: campaign_apply_patch and campaign_commit.         *)

Step(step) == act' = [act EXCEPT !.step = step]
Answer == act' = NoAct

\* The bound turn, or the first that calls while the response is in flight.
Bound(m) == IF turn = NoTurn THEN m.turn ELSE turn

\* A reviewer's call, one of another turn, and a commit of nothing or of a file
\* outside the scope are refused.
PumpTool ==
  /\ Pumping /\ Head(inbox).kind \in Tools
  /\ Rest
  /\ LET m == Head(inbox) IN
     /\ turn' = Bound(m)
     /\ act' =
          IF /\ writes /\ m.turn = turn'
             /\ m.kind = "commit" => Scoped(work) # Scoped(head) /\ work.other = head.other
          THEN [NoAct EXCEPT !.kind = m.kind,
                             !.step = IF m.kind = "patch" THEN "authorize" ELSE "index"]
          ELSE NoAct
  /\ UNCHANGED <<consumed, events, pc, failures, treeVars, serverVars, envVars,
       ownerVars, shown, interrupted, open, stream, metered>>

\* campaign_read_file, _search, _git_status and _git_diff answer from the
\* worktree as it is; nothing looks at the candidate, the lease or its end.
PumpRead ==
  /\ Pumping /\ Head(inbox).kind = "read"
  /\ Rest
  /\ turn' = Bound(Head(inbox))
  /\ shown' = IF ~writes /\ Head(inbox).turn = turn' THEN shown \cup {work} ELSE shown
  /\ UNCHANGED <<consumed, events, pc, failures, act, treeVars, serverVars, envVars,
       ownerVars, interrupted, open, stream, metered>>

\* verify_actor_action
Authorised == live

\* _require_live_action
Live == Authorised /\ ~interrupted

\* mutant: the authority is looked at before the change only
Confirmed_Before == TRUE

\* The check after the change, the point at which the action takes place.
Confirmed == Live

AuthorizePatch ==
  /\ act.step = "authorize"
  /\ IF Live THEN Step("apply") ELSE Answer
  /\ UNCHANGED treeVars

\* The patch may not apply any more.
ApplyPatch ==
  /\ act.step = "apply"
  /\ \/ /\ work' = [work EXCEPT !.patches = @ + 1]
        /\ act' = [act EXCEPT !.step = "confirm", !.old = work]
     \/ Answer /\ UNCHANGED work
  /\ UNCHANGED <<head, index, granted, sealed, acted>>

\* _rollback_patch: the exact reverse applies only to the file as the patch left it.
Reversed ==
  IF work.edits = act.old.edits THEN [work EXCEPT !.patches = act.old.patches] ELSE work

\* The point at which the patch takes place.
ConfirmPatch ==
  /\ act.step = "confirm"
  /\ IF Confirmed
     THEN /\ granted' = granted + 1
          /\ acted' = acted \cup {turn}
          /\ UNCHANGED work
     ELSE /\ work' = Reversed
          /\ UNCHANGED <<granted, acted>>
  /\ Answer
  /\ UNCHANGED <<head, index, sealed>>

\* An index that was staged by somebody else is refused.
IndexCommit ==
  /\ act.step = "index"
  /\ IF index = head /\ Live
     THEN act' = [act EXCEPT !.step = "add", !.old = head]
     ELSE Answer
  /\ UNCHANGED treeVars

\* git add of the paths that were found to differ
AddCommit ==
  /\ act.step = "add"
  /\ index' = [work EXCEPT !.other = index.other]
  /\ Step("staged")
  /\ UNCHANGED <<work, head, granted, sealed, acted>>

\* mutant: the reference stays where the failed commit put it
Undo_Index == index' = [act.old EXCEPT !.other = index.other] /\ UNCHANGED head

\* The reference, if it was moved, and the index of the paths go back; the bytes stay.
Undo == index' = [act.old EXCEPT !.other = index.other] /\ head' = act.old

\* What is staged must be the worker's paths and no others.
StagedCommit ==
  /\ act.step = "staged"
  /\ IF Scoped(index) # Scoped(head) /\ index.other = head.other /\ Live
     THEN Step("write") /\ UNCHANGED <<index, head>>
     ELSE Answer /\ Undo
  /\ UNCHANGED <<work, granted, sealed, acted>>

\* write-tree takes the index as it is by now; commit-tree names the result.
WriteCommit ==
  /\ act.step = "write"
  /\ act' = [act EXCEPT !.step = "check", !.new = index]
  /\ UNCHANGED treeVars

CheckCommit ==
  /\ act.step = "check"
  /\ IF Live THEN Step("move") /\ UNCHANGED <<index, head>> ELSE Answer /\ Undo
  /\ UNCHANGED <<work, granted, sealed, acted>>

\* update-ref from the old head
MoveCommit ==
  /\ act.step = "move"
  /\ \/ head' = act.new /\ Step("moved") /\ UNCHANGED index
     \/ Answer /\ Undo
  /\ UNCHANGED <<work, granted, sealed, acted>>

\* The point at which the commit takes place.
ConfirmCommit ==
  /\ act.step = "moved"
  /\ IF Confirmed THEN Step("status") /\ UNCHANGED <<index, head>> ELSE Answer /\ Undo
  /\ UNCHANGED <<work, granted, sealed, acted>>

\* The worktree must be clean, otherwise the commit is undone too.
StatusCommit ==
  /\ act.step = "status"
  /\ IF work = head /\ index = head
     THEN /\ sealed' = head
          /\ acted' = acted \cup {turn}
          /\ UNCHANGED <<index, head>>
     ELSE Undo /\ UNCHANGED <<sealed, acted>>
  /\ Answer
  /\ UNCHANGED <<work, granted>>

Acting ==
  /\ \/ AuthorizePatch \/ ApplyPatch \/ ConfirmPatch
     \/ IndexCommit \/ AddCommit \/ StagedCommit \/ WriteCommit
     \/ CheckCommit \/ MoveCommit \/ ConfirmCommit \/ StatusCommit
  /\ UNCHANGED <<consumed, turn, inbox, events, pc, failures, serverVars, envVars,
       ownerVars, shown, interrupted, open, stream, metered>>

-----------------------------------------------------------------------------
(* The environment.                                                        *)

\* STOP, or a new fence: verify_actor_action refuses from now on.
Stop ==
  /\ live
  /\ live' = FALSE
  /\ stop' = [patches |-> work.patches, head |-> head, sealed |-> sealed]
  /\ UNCHANGED <<hostVars, treeVars, serverVars, ownerVars, shown, interrupted, open,
       stream, metered>>

\* interrupt from another thread of the process
Interrupt ==
  /\ ~interrupted
  /\ Shut
  /\ UNCHANGED <<hostVars, treeVars, serverVars, envVars, ownerVars, shown, stream, metered>>

\* Edits of the owner that stand.
Standing == work.edits + (IF work.other THEN 1 ELSE 0)

OwnerEdits ==
  /\ Standing < MaxEdits
  /\ \/ /\ work' = [work EXCEPT !.edits = @ + 1]
        /\ raced' = (raced \/ act.step = "confirm")
     \/ ~work.other /\ work' = [work EXCEPT !.other = TRUE] /\ UNCHANGED raced
  /\ UNCHANGED <<hostVars, head, index, granted, sealed, acted, serverVars, envVars,
       undone, late, shown, interrupted, open, stream, metered>>

OwnerReverts ==
  /\ \/ /\ work.edits > 0
        /\ work' = [work EXCEPT !.edits = @ - 1]
        /\ raced' = (raced \/ act.step = "confirm")
     \/ work.other /\ work' = [work EXCEPT !.other = FALSE] /\ UNCHANGED raced
  /\ undone' = (undone \/ ~(shown \subseteq {Frozen}))
  /\ UNCHANGED <<hostVars, head, index, granted, sealed, acted, serverVars, envVars,
       late, shown, interrupted, open, stream, metered>>

\* git add of the owner's file, or git reset of it
OwnerStages ==
  /\ \E o \in {work.other, head.other} \ {index.other} : index' = [index EXCEPT !.other = o]
  /\ late' = (late \/ act.step = "write")
  /\ UNCHANGED <<hostVars, work, head, granted, sealed, acted, serverVars, envVars,
       undone, raced, shown, interrupted, open, stream, metered>>

Act ==
  \/ ServerCalls \/ ServerAnswers \/ ServerEnds \/ Read
  \/ StartTurn \/ PumpResponse \/ PumpEvent \/ PumpTool \/ PumpRead \/ PumpRaises
  \/ Collect \/ Receipt
  \/ Acting
  \/ Stop \/ Interrupt \/ OwnerEdits \/ OwnerReverts \/ OwnerStages

\* The actor is used once: nothing is pumped after its receipt or its refusal.
Over == pc \in {"collected", "refused", "failed"}

Next == ~Over /\ Act /\ UNCHANGED writes

Spec == Init /\ [][Next]_vars

-----------------------------------------------------------------------------
(* Properties.                                                             *)

\* The host, the server and the worktree are well formed.
TypeOK ==
  /\ {writes, live, interrupted, open, consumed, answered, ended} \subseteq BOOLEAN
  /\ {undone, raced, late} \subseteq BOOLEAN
  /\ turn \in Turns \cup {NoTurn} /\ acted \subseteq Turns /\ events \subseteq Turns
  /\ server \in 0..MaxMessages /\ metered \in 0..sent /\ sent \in 0..server
  /\ stream \in Seq(Message) /\ inbox \in Seq(Message)
  /\ pc \in {"idle", "starting", "started", "waiting", "collected", "refused", "failed"}
  /\ failures \in {0, 1}
  /\ act \in [kind: Tools \cup {"none"}, step: Steps, old: Tree, new: Tree]
  /\ {work, head, index, sealed, stop.head, stop.sealed} \subseteq Tree
  /\ shown \subseteq Tree /\ granted \in 0..server /\ stop.patches \in Nat

\* Between actions the worktree holds exactly the patches that were answered
\* with success, HEAD is the last commit answered with success and nothing of
\* the worker is staged; a patch stays that was not answered so only where the
\* owner edited the file before its confirmation (_handle_dynamic_tool,
\* _rollback_patch). An answered commit holds a file outside the scope only if
\* the owner staged it between the look at the staged paths and write-tree. A
\* collected receipt speaks of the one turn whose tool calls were carried out
\* (start_actor_turn), and a first collection has stored every usage report of
\* it (_read_loop, _pump).
AnsweredIsDone ==
  /\ act = NoAct =>
       /\ head = sealed /\ Scoped(index) = Scoped(head)
       /\ work.patches = granted \/ (work.patches > granted /\ raced)
  /\ sealed.other => late
  /\ pc = "collected" => acted \subseteq {1} /\ (failures = 0 => metered >= sent)

\* What is not done when the authority ends is never done: an action that
\* changes the worktree or HEAD later leaves nothing of it behind. Exempt are
\* patches the host cannot reverse, because the owner edited the file between
\* the patch and its confirmation (_rollback_patch raises and leaves them).
NothingAfterStop ==
  ~live /\ act = NoAct =>
    /\ head \in {stop.head, stop.sealed}
    /\ work.patches <= stop.patches \/ raced

\* A review is about the frozen candidate: whatever the reading tools showed the
\* reviewer of a collected receipt, at any time of its turn, is the candidate it
\* was bound to, unless the owner undid an edit after the reviewer was shown one.
\* The code looks at the worktree when the turn starts and when the receipt is
\* collected (_require_review_candidate), so an edit that is read and undone in
\* between goes unseen; no other does.
ReviewedAsFrozen ==
  pc = "collected" /\ ~undone => shown \subseteq {Frozen}
===============================================================================
