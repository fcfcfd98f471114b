------------------------------- MODULE HostProofs -------------------------------
(***************************************************************************)
(* Proofs about the host of one actor, for any turn ids, number of tool    *)
(* calls and usage reports, and number of edits by the owner that stand.   *)
(***************************************************************************)
EXTENDS Host, FiniteSetTheorems, SequenceTheorems, TLAPS

USE HostAssumption
USE DEF hostVars, treeVars, serverVars, envVars, ownerVars

\* The messages of a sequence that are in K.
Places(s, K) == {i \in 1..Len(s) : s[i] \in K}
Count(s, K) == Cardinality(Places(s, K))
UsageMsg == {Msg("usage", 1)}
ToolMsgs == {m \in Message : m.kind \in Tools}

Call == [kind: Tools \cup {"none"}, step: Steps, old: Tree, new: Tree]

\* TypeOK in parts, and without the counts.
FlagsType ==
  /\ writes \in BOOLEAN /\ live \in BOOLEAN /\ interrupted \in BOOLEAN
  /\ open \in BOOLEAN /\ consumed \in BOOLEAN
  /\ answered \in BOOLEAN /\ ended \in BOOLEAN
  /\ undone \in BOOLEAN /\ raced \in BOOLEAN /\ late \in BOOLEAN
QueuesType == stream \in Seq(Message) /\ inbox \in Seq(Message)
NumbersType ==
  /\ server \in 0..MaxMessages /\ metered \in Nat /\ sent \in 0..server
  /\ granted \in Nat /\ failures \in {0, 1}
TurnType ==
  /\ turn \in Turns \cup {NoTurn} /\ acted \subseteq Turns /\ events \subseteq {1}
  /\ pc \in {"idle", "starting", "started", "waiting", "collected", "refused", "failed"}
TreesType ==
  /\ act \in Call
  /\ work \in Tree /\ head \in Tree /\ index \in Tree /\ sealed \in Tree
  /\ stop \in [patches: Nat, head: Tree, sealed: Tree] /\ shown \subseteq Tree
TypeInv == FlagsType /\ QueuesType /\ NumbersType /\ TurnType /\ TreesType

\* Every tool call and every usage report is somewhere: on its way, in
\* progress, answered or dropped.
Calling == IF act.step \in {"authorize", "apply", "confirm"} THEN 1 ELSE 0
CountInv ==
  /\ granted + Calling + Count(inbox, ToolMsgs) + Count(stream, ToolMsgs) <= server
  /\ metered + Count(stream, UsageMsg) <= sent

\* One turn calls tools: the first that does, and the response names it.
TurnInv ==
  /\ acted \subseteq {turn} \ {NoTurn}
  /\ act # NoAct => turn # NoTurn /\ writes
  /\ pc = "collected" => turn \in events
  /\ stream # <<>> => consumed

\* The end of the turn is the last thing the server says of it.
DonePumped == events # {} \/ \E i \in 1..Len(inbox) : inbox[i].kind = "done"
OrderInv ==
  /\ \A i \in 1..Len(stream) : stream[i].kind \in {"done", "response"} => stream[i].turn = 1
  /\ \A i \in 1..Len(inbox) : inbox[i].kind \in {"done", "response"} => inbox[i].turn = 1
  /\ \A i \in 1..Len(stream) : stream[i].kind = "done" =>
       ended /\ \A j \in i..Len(stream) : stream[j].kind # "usage"
  /\ DonePumped => ended /\ \A j \in 1..Len(stream) : stream[j].kind # "usage"

\* A report that was lost is announced before the end of the turn is pumped.
LostAhead ==
  /\ events = {}
  /\ \E i \in 1..Len(inbox) :
       /\ inbox[i].kind = "usage lost"
       /\ \A j \in 1..i : inbox[j].kind # "done"
MeterInv ==
  turn \in {NoTurn, 1} /\ failures = 0 /\ pc # "failed" =>
    metered + Count(stream, UsageMsg) = sent \/ LostAhead

\* What the worktree, HEAD and the index hold at each step of a tool call.
Kept(t) == t.patches = granted \/ (t.patches > granted /\ raced)
ActInv ==
  /\ act.step = "none" <=> act = NoAct
  /\ act.step \notin {"staged", "write", "check", "move", "moved", "status"} =>
       Scoped(index) = Scoped(head)
  /\ act.step \notin {"moved", "status"} => head = sealed
  /\ act.step \in {"add", "staged", "write", "check", "move", "moved", "status"} =>
       act.old = sealed
  /\ act.step # "confirm" => Kept(work)
  /\ act.step = "confirm" =>
       /\ Kept(act.old) /\ work.patches = act.old.patches + 1
       /\ raced \/ work.edits = act.old.edits

\* No tree the host made holds the foreign file, unless it was staged in the window.
LateInv ==
  ~late =>
    /\ ~sealed.other /\ ~head.other
    /\ act.step = "write" => ~index.other
    /\ act.step \in {"check", "move"} => ~act.new.other

\* What the call in progress falls back to was there when the authority ended.
Before(t) == t.patches <= stop.patches \/ raced
StopInv ==
  ~live =>
    /\ sealed \in {stop.head, stop.sealed}
    /\ act.step # "moved" => head \in {stop.head, stop.sealed}
    /\ act.step # "confirm" => Before(work)
    /\ act.step = "confirm" => Before(act.old)

\* What a reviewer was shown still stands, until the owner undoes some of it.
ShownInv ==
  /\ shown # {} => ~writes
  /\ ~undone => \A t \in shown \ {Frozen} :
       t.edits <= work.edits /\ t.patches = work.patches /\ (t.other => work.other)
  /\ ReviewedAsFrozen

HostInv ==
  /\ TypeInv /\ CountInv /\ TurnInv /\ OrderInv /\ MeterInv
  /\ ActInv /\ LateInv /\ StopInv /\ ShownInv

-----------------------------------------------------------------------------
(* Counting the messages of a sequence.                                    *)

LEMMA CountFinite ==
  ASSUME NEW s \in Seq(Message), NEW K
  PROVE  IsFiniteSet(Places(s, K)) /\ Count(s, K) \in Nat
<1>1. Len(s) \in Nat BY LenProperties
<1>2. IsFiniteSet(1..Len(s)) BY <1>1, FS_Interval
<1>3. Places(s, K) \in SUBSET (1..Len(s)) BY DEF Places
<1>4. IsFiniteSet(Places(s, K)) BY <1>2, <1>3, FS_Subset
<1> QED BY <1>4, FS_CardinalityType DEF Count

LEMMA CountAppend ==
  ASSUME NEW s \in Seq(Message), NEW m \in Message, NEW K
  PROVE  Count(Append(s, m), K) = IF m \in K THEN Count(s, K) + 1 ELSE Count(s, K)
<1>1. /\ Len(s) \in Nat /\ Len(Append(s, m)) = Len(s) + 1
      /\ \A i \in 1..Len(s) : Append(s, m)[i] = s[i]
      /\ Append(s, m)[Len(s) + 1] = m
  BY LenProperties
<1>2. IsFiniteSet(Places(s, K)) BY CountFinite
<1>3. Len(s) + 1 \notin Places(s, K) BY <1>1 DEF Places
<1>4. CASE m \in K
  <2>1. Places(Append(s, m), K) = Places(s, K) \cup {Len(s) + 1}
    BY <1>1, <1>4 DEF Places
  <2> QED BY <2>1, <1>2, <1>3, <1>4, FS_AddElement DEF Count
<1>5. CASE m \notin K
  <2>1. Places(Append(s, m), K) = Places(s, K) BY <1>1, <1>5 DEF Places
  <2> QED BY <2>1, <1>5 DEF Count
<1> QED BY <1>4, <1>5

LEMMA CountTail ==
  ASSUME NEW s \in Seq(Message), s # <<>>, NEW K
  PROVE  /\ Tail(s) \in Seq(Message)
         /\ Count(s, K) =
              IF Head(s) \in K THEN Count(Tail(s), K) + 1 ELSE Count(Tail(s), K)
<1> DEFINE T == Places(Tail(s), K)
           S == Places(s, K) \ {1}
           f == [i \in T |-> i + 1]
<1>1. /\ Len(s) \in Nat /\ Len(s) >= 1 /\ Tail(s) \in Seq(Message)
      /\ Len(Tail(s)) = Len(s) - 1 /\ Head(s) = s[1]
      /\ \A i \in 1..Len(Tail(s)) : Tail(s)[i] = s[i + 1]
  BY LenProperties, EmptySeq, HeadTailProperties
<1>2. IsFiniteSet(T) /\ IsFiniteSet(Places(s, K)) BY <1>1, CountFinite
<1>3. f \in Bijection(T, S)
  <2>1. \A i \in T : i + 1 \in S BY <1>1 DEF Places
  <2>2. \A j \in S : j - 1 \in T /\ f[j - 1] = j BY <1>1 DEF Places
  <2>3. f \in [T -> S] BY <2>1
  <2>4. \A i, j \in T : f[i] = f[j] => i = j BY <1>1 DEF Places
  <2> HIDE DEF f, S, T
  <2>5. f \in Injection(T, S) BY <2>3, <2>4 DEF Injection, IsInjective
  <2>6. f \in Surjection(T, S) BY <2>2, <2>3 DEF Surjection
  <2> QED BY <2>5, <2>6 DEF Bijection
<1>4. Cardinality(S) = Cardinality(T)
  <2> HIDE DEF S, T, f
  <2> QED BY <1>2, <1>3, FS_Bijection DEF ExistsBijection
<1>5. 1 \in Places(s, K) <=> Head(s) \in K BY <1>1 DEF Places
<1>6. Cardinality(S) = IF 1 \in Places(s, K) THEN Count(s, K) - 1 ELSE Count(s, K)
  BY <1>2, FS_RemoveElement DEF Count
<1>7. Count(s, K) \in Nat BY CountFinite
<1>8. Cardinality(T) = Count(Tail(s), K) BY DEF Count
<1> QED BY <1>1, <1>4, <1>5, <1>6, <1>7, <1>8

LEMMA CountNone ==
  ASSUME NEW s \in Seq(Message), NEW K, \A i \in 1..Len(s) : s[i] \notin K
  PROVE  Count(s, K) = 0
<1>1. Places(s, K) = {} BY DEF Places
<1> QED BY <1>1, FS_EmptySet DEF Count

\* What the reader puts in the inbox for a report it could not store.
LEMMA CapturedIs ==
  ASSUME NEW m \in Message, NEW s \in Seq(Message)
  PROVE  /\ Msg("usage lost", m.turn) \in Message
         /\ s \o Captured(m, FALSE) = Append(Append(s, Msg("usage lost", m.turn)), m)
<1> DEFINE l == Msg("usage lost", m.turn)
<1>1. l \in Message BY DEF Message, Msg, Kinds
<1>2. Captured(m, FALSE) = <<l, m>> BY DEF Captured
<1> HIDE DEF l
<1>3. <<l, m>> \in Seq(Message) /\ Append(Append(s, l), m) \in Seq(Message)
  BY <1>1
<1>4. Len(s) \in Nat /\ Len(s \o <<l, m>>) = Len(s) + 2 /\ s \o <<l, m>> \in Seq(Message)
  BY <1>3, ConcatProperties, LenProperties
<1>5. /\ Len(Append(Append(s, l), m)) = Len(s) + 2
      /\ \A i \in 1..Len(s) + 2 : (s \o <<l, m>>)[i] = Append(Append(s, l), m)[i]
  BY <1>1, <1>3, <1>4, ConcatProperties
<1>6. s \o <<l, m>> = Append(Append(s, l), m)
  BY <1>3, <1>4, <1>5, SeqEqual
<1> QED BY <1>1, <1>2, <1>6 DEF l

-----------------------------------------------------------------------------
(* The initial state, and type correctness.                                *)

\* What messages, sequences and tool calls are.
LEMMA MessageFacts ==
  /\ \A kind \in Kinds, t \in Turns : Msg(kind, t) \in Message
  /\ \A m \in Message : m.kind \in Kinds /\ m.turn \in Turns
BY DEF Msg, Message

LEMMA HeadFacts ==
  ASSUME NEW s \in Seq(Message), s # <<>>
  PROVE  /\ Head(s) \in Message /\ Tail(s) \in Seq(Message)
         /\ Len(s) \in Nat /\ Len(s) >= 1 /\ Len(Tail(s)) = Len(s) - 1
         /\ Head(s) = s[1]
         /\ \A i \in 1..Len(Tail(s)) : Tail(s)[i] = s[i + 1]
BY HeadTailProperties, EmptySeq, LenProperties

LEMMA CallFacts ==
  /\ Frozen \in Tree /\ NoAct \in Call /\ NoAct.step = "none"
  /\ \A c \in Call : c.old \in Tree /\ c.new \in Tree /\ c.step \in Steps
  /\ \A k \in Tools, s \in Steps : [NoAct EXCEPT !.kind = k, !.step = s] \in Call
  /\ \A c \in Call, s \in Steps : [c EXCEPT !.step = s] \in Call
  /\ \A c \in Call, s \in Steps, t \in Tree : /\ [c EXCEPT !.step = s, !.old = t] \in Call
                                              /\ [c EXCEPT !.step = s, !.new = t] \in Call
<1>1. Frozen \in Tree BY DEF Frozen, Tree
<1>2. NoAct \in Call /\ NoAct.step = "none" BY <1>1 DEF NoAct, Call, Steps
<1>3. \A c \in Call : c.old \in Tree /\ c.new \in Tree /\ c.step \in Steps BY DEF Call
<1>4. \A k \in Tools, s \in Steps : [NoAct EXCEPT !.kind = k, !.step = s] \in Call
  BY <1>2 DEF Call
<1>5. \A c \in Call, s \in Steps : [c EXCEPT !.step = s] \in Call BY DEF Call
<1>6. \A c \in Call, s \in Steps, t \in Tree : [c EXCEPT !.step = s, !.old = t] \in Call
  BY DEF Call
<1>7. \A c \in Call, s \in Steps, t \in Tree : [c EXCEPT !.step = s, !.new = t] \in Call
  BY DEF Call
<1> QED BY <1>1, <1>2, <1>3, <1>4, <1>5, <1>6, <1>7

LEMMA TreeFacts ==
  /\ \A t \in Tree : t.patches \in Nat /\ t.edits \in Nat /\ t.other \in BOOLEAN
  /\ \A t \in Tree, n \in Nat : [t EXCEPT !.patches = n] \in Tree
  /\ \A t \in Tree, n \in Nat : [t EXCEPT !.edits = n] \in Tree
  /\ \A t \in Tree, b \in BOOLEAN : [t EXCEPT !.other = b] \in Tree
<1>1. \A t \in Tree : t.patches \in Nat /\ t.edits \in Nat /\ t.other \in BOOLEAN BY DEF Tree
<1>2. \A t \in Tree, n \in Nat : [t EXCEPT !.patches = n] \in Tree BY DEF Tree
<1>3. \A t \in Tree, n \in Nat : [t EXCEPT !.edits = n] \in Tree BY DEF Tree
<1>4. \A t \in Tree, b \in BOOLEAN : [t EXCEPT !.other = b] \in Tree BY DEF Tree
<1> QED BY <1>1, <1>2, <1>3, <1>4

\* The owner's file is not what is scoped.
LEMMA ScopedFacts ==
  ASSUME NEW t \in Tree, NEW b
  PROVE  /\ Scoped([t EXCEPT !.other = b]) = Scoped(t)
         /\ [t EXCEPT !.other = b].other = b
BY DEF Tree, Scoped

LEMMA HostInit == Init => HostInv
<1> SUFFICES ASSUME Init PROVE HostInv OBVIOUS
<1>0. <<>> \in Seq(Message) /\ Len(<<>>) = 0 BY EmptySeq
<1>1. act = NoAct /\ work = Frozen /\ head = work /\ index = work /\ sealed = work
      /\ stop = [patches |-> 0, head |-> work, sealed |-> work] /\ shown = {}
  BY DEF Init
<1>2. TreesType BY <1>1, CallFacts DEF TreesType
<1>3. FlagsType BY DEF Init, FlagsType
<1>4. QueuesType /\ NumbersType /\ TurnType
  BY <1>0 DEF Init, QueuesType, NumbersType, TurnType
<1>5. Count(<<>>, ToolMsgs) = 0 /\ Count(<<>>, UsageMsg) = 0
  <2>1. \A i \in 1..Len(<<>>) : FALSE BY <1>0
  <2> QED BY <2>1, <1>0, CountNone
<1>6. CountInv /\ MeterInv
  <2>1. act.step = "none" BY <1>1, CallFacts
  <2>2. Calling = 0 BY <2>1 DEF Calling
  <2> QED BY <2>2, <1>5 DEF Init, CountInv, MeterInv
<1>7. TurnInv BY DEF Init, TurnInv
<1>8. OrderInv BY <1>0 DEF Init, OrderInv, DonePumped
<1>9. ActInv
  <2>1. work.patches = granted BY <1>1 DEF Init, Frozen
  <2> QED BY <1>1, <2>1, CallFacts DEF ActInv, Kept
<1>10. StopInv BY DEF Init, StopInv
<1>11. LateInv BY <1>1, CallFacts DEF LateInv, Frozen
<1>12. ShownInv BY <1>1 DEF ShownInv, ReviewedAsFrozen
<1> QED BY <1>2, <1>3, <1>4, <1>6, <1>7, <1>8, <1>9, <1>10, <1>11, <1>12 DEF HostInv, TypeInv

\* What Read does with a message: passes it on, stores it, or announces its loss.
LEMMA ReadShape ==
  ASSUME QueuesType, NumbersType, Read
  PROVE  /\ stream # <<>> /\ Head(stream) \in Message /\ stream' = Tail(stream)
         /\ \/ /\ inbox' = Append(inbox, Head(stream)) /\ UNCHANGED metered
               /\ ~(Head(stream) \in UsageMsg /\ consumed /\ turn \in {NoTurn, 1})
            \/ /\ inbox' = Append(inbox, Head(stream)) /\ metered' = metered + 1
               /\ Head(stream) \in UsageMsg
            \/ /\ Head(stream).kind = "usage" /\ UNCHANGED metered
               /\ LET l == Msg("usage lost", Head(stream).turn)
                  IN l \in Message /\ inbox' = Append(Append(inbox, l), Head(stream))
<1> DEFINE m == Head(stream)
           ours == m.kind = "usage" /\ consumed /\ turn \in {NoTurn, m.turn}
<1>1. stream # <<>> /\ m \in Message /\ stream' = Tail(stream)
  BY HeadFacts DEF Read, QueuesType
<1>2. \/ inbox' = Append(inbox, m) /\ metered' = IF ours THEN Metered(m) ELSE metered
      \/ ours /\ inbox' = inbox \o Captured(m, FALSE) /\ UNCHANGED metered
  BY DEF Read
<1>3. m \in UsageMsg <=> m.kind = "usage" /\ m.turn = 1
  BY <1>1 DEF UsageMsg, Msg, Message
<1>4. inbox \in Seq(Message) BY DEF QueuesType
<1> HIDE DEF m
<1>5. CASE inbox' = Append(inbox, m) /\ metered' = IF ours THEN Metered(m) ELSE metered
  BY <1>1, <1>3, <1>5 DEF Metered, m
<1>6. CASE ours /\ inbox' = inbox \o Captured(m, FALSE) /\ UNCHANGED metered
  BY <1>1, <1>4, <1>6, CapturedIs DEF m
<1> QED BY <1>2, <1>5, <1>6

LEMMA FlagsNext == TypeInv /\ Next => FlagsType'
<1> SUFFICES ASSUME FlagsType, Next PROVE FlagsType' BY DEF TypeInv
<1> USE DEF FlagsType, Next
<1>1. CASE ServerCalls BY <1>1 DEF ServerCalls
<1>2. CASE ServerAnswers \/ ServerEnds \/ Read
  BY <1>2 DEF ServerAnswers, ServerEnds, Read
<1>3. CASE StartTurn BY <1>3 DEF StartTurn
<1>4. CASE PumpResponse BY <1>4 DEF PumpResponse, Shut
<1>5. CASE PumpEvent \/ PumpTool \/ PumpRead BY <1>5 DEF PumpEvent, PumpTool, PumpRead
<1>6. CASE PumpRaises BY <1>6 DEF PumpRaises, Raises, Shut
<1>7. CASE Collect \/ Receipt \/ Acting BY <1>7 DEF Collect, Receipt, Acting
<1>8. CASE Stop \/ Interrupt BY <1>8 DEF Stop, Interrupt, Shut
<1>9. CASE OwnerEdits
  <2>1. UNCHANGED <<live, interrupted, open, consumed, answered, ended, undone, late>>
        /\ (raced' = (raced \/ act.step = "confirm") \/ raced' = raced)
    BY <1>9 DEF OwnerEdits
  <2> QED BY <2>1
<1>10. CASE OwnerReverts
  <2>1. UNCHANGED <<live, interrupted, open, consumed, answered, ended, late>>
        /\ (raced' = (raced \/ act.step = "confirm") \/ raced' = raced)
        /\ undone' = (undone \/ ~(shown \subseteq {Frozen}))
    BY <1>10 DEF OwnerReverts
  <2> QED BY <2>1
<1>11. CASE OwnerStages BY <1>11 DEF OwnerStages
<1> QED BY <1>1, <1>2, <1>3, <1>4, <1>5, <1>6, <1>7, <1>8, <1>9, <1>10, <1>11 DEF Act

LEMMA QueuesNext == TypeInv /\ Next => QueuesType'
<1> SUFFICES ASSUME QueuesType, NumbersType, Next PROVE QueuesType' BY DEF TypeInv
<1>0. stream \in Seq(Message) /\ inbox \in Seq(Message) BY DEF QueuesType
<1> SUFFICES stream' \in Seq(Message) /\ inbox' \in Seq(Message) BY DEF QueuesType
<1> USE <1>0
<1>1. CASE ServerCalls \/ ServerAnswers \/ ServerEnds
  <2>1. PICK kind \in Kinds, t \in Turns : Write(Msg(kind, t)) /\ UNCHANGED inbox
    BY <1>1 DEF ServerCalls, ServerAnswers, ServerEnds, Kinds
  <2> QED BY <2>1, MessageFacts DEF Write
<1>2. CASE Read
  <2>1. /\ stream # <<>> /\ Head(stream) \in Message /\ stream' = Tail(stream)
        /\ \E a, b \in Message : inbox' \in {Append(inbox, a), Append(Append(inbox, a), b)}
    BY <1>2, ReadShape
  <2>2. stream' \in Seq(Message) BY <2>1, HeadFacts
  <2>3. \A a, b \in Message : Append(inbox, a) \in Seq(Message)
                             /\ Append(Append(inbox, a), b) \in Seq(Message)
    OBVIOUS
  <2> QED BY <2>1, <2>2, <2>3
<1>3. CASE PumpResponse \/ PumpEvent \/ PumpTool \/ PumpRead \/ PumpRaises
  <2>1. UNCHANGED stream /\ (UNCHANGED inbox \/ (inbox # <<>> /\ inbox' = Tail(inbox)))
    BY <1>3 DEF PumpResponse, PumpEvent, PumpTool, PumpRead, PumpRaises, Pumping, Rest
  <2> QED BY <2>1, HeadFacts
<1>4. CASE UNCHANGED <<stream, inbox>> BY <1>4
<1> QED BY <1>1, <1>2, <1>3, <1>4 DEF Next, Act, StartTurn, Collect, Receipt, Acting,
       Stop, Interrupt, OwnerEdits, OwnerReverts, OwnerStages

LEMMA NumbersNext == TypeInv /\ Next => NumbersType'
<1> SUFFICES ASSUME QueuesType, NumbersType, Next PROVE NumbersType' BY DEF TypeInv
<1>a. CASE Read
  <2>1. metered' = metered \/ metered' = metered + 1 BY <1>a, ReadShape
  <2> QED BY <1>a, <2>1 DEF Read, NumbersType
<1> USE DEF NumbersType
<1>1. CASE ServerCalls BY <1>1 DEF ServerCalls
<1>2. CASE ServerAnswers \/ ServerEnds BY <1>2 DEF ServerAnswers, ServerEnds
<1>3. CASE Read BY <1>a, <1>3
<1>4. CASE PumpRaises BY <1>4 DEF PumpRaises, Raises
<1>5. CASE Acting
  <2>1. granted' \in Nat
    BY <1>5 DEF Acting, AuthorizePatch, ApplyPatch, ConfirmPatch, IndexCommit, AddCommit,
       StagedCommit, WriteCommit, CheckCommit, MoveCommit, ConfirmCommit, StatusCommit
  <2> QED BY <1>5, <2>1 DEF Acting
<1>6. CASE UNCHANGED <<server, metered, sent, granted, failures>> BY <1>6
<1> QED BY <1>1, <1>2, <1>3, <1>4, <1>5, <1>6 DEF Next, Act, StartTurn, PumpResponse,
       PumpEvent, PumpTool, PumpRead, Collect, Receipt, Stop, Interrupt, OwnerEdits, OwnerReverts,
       OwnerStages

LEMMA TurnNext ==
  ASSUME TypeInv, TurnInv, ActInv, OrderInv, Next
  PROVE  TurnType' /\ TurnInv'
<1> USE DEF TypeInv, TurnType, TurnInv
<1>1. CASE ServerCalls \/ ServerAnswers \/ ServerEnds \/ Read
  BY <1>1 DEF ServerCalls, ServerAnswers, ServerEnds, Read, QueuesType, Next
<1>2. CASE StartTurn \/ Collect \/ Receipt
  BY <1>2 DEF StartTurn, Collect, Receipt, Next
<1>3. CASE PumpResponse
  <2>1. Head(inbox).turn \in Turns /\ Head(inbox).turn # NoTurn
    BY <1>3, HeadFacts, MessageFacts DEF PumpResponse, Pumping, QueuesType, NoTurn
  <2> QED BY <1>3, <2>1 DEF PumpResponse, Pumping, Matches, Next
<1>4. CASE PumpEvent
  <2>1. Head(inbox).kind = "done" => Head(inbox).turn = 1
    BY <1>4, HeadFacts DEF PumpEvent, Pumping, QueuesType, OrderInv
  <2> QED BY <1>4, <2>1 DEF PumpEvent, Pumping, Next
<1>5. CASE PumpTool
  <2>1. Head(inbox).turn \in Turns /\ Head(inbox).turn # NoTurn
    BY <1>5, HeadFacts, MessageFacts DEF PumpTool, Pumping, QueuesType, NoTurn
  <2> QED BY <1>5, <2>1 DEF PumpTool, Pumping, Bound, Next
<1>9. CASE PumpRead
  <2>1. Head(inbox).turn \in Turns /\ Head(inbox).turn # NoTurn
    BY <1>9, HeadFacts, MessageFacts DEF PumpRead, Pumping, QueuesType, NoTurn
  <2> QED BY <1>9, <2>1 DEF PumpRead, Pumping, Bound, Next
<1>6. CASE PumpRaises BY <1>6 DEF PumpRaises, Raises, Next
<1>7. CASE Acting
  <2>1. act # NoAct /\ (acted' = acted \/ acted' = acted \cup {turn})
    BY <1>7, CallFacts DEF Acting, AuthorizePatch, ApplyPatch, ConfirmPatch, IndexCommit,
       AddCommit, StagedCommit, WriteCommit, CheckCommit, MoveCommit, ConfirmCommit, StatusCommit
  <2> QED BY <1>7, <2>1 DEF Acting, Next
<1>8. CASE UNCHANGED <<turn, acted, act, writes, pc, events, stream, consumed>> BY <1>8
<1> QED BY <1>1, <1>2, <1>3, <1>4, <1>5, <1>6, <1>7, <1>8, <1>9 DEF Next, Act, Stop, Interrupt,
       OwnerEdits, OwnerReverts, OwnerStages

LEMMA TreesNext == TypeInv /\ Next => TreesType'
<1> SUFFICES ASSUME TreesType, QueuesType, Next PROVE TreesType' BY DEF TypeInv
<1>a. act \in Call /\ act.old \in Tree /\ act.new \in Tree /\ work \in Tree
      /\ head \in Tree /\ index \in Tree /\ sealed \in Tree
      /\ stop \in [patches: Nat, head: Tree, sealed: Tree] /\ shown \subseteq Tree
  BY CallFacts DEF TreesType
<1>b. work.patches \in Nat /\ work.patches + 1 \in Nat /\ act.old.patches \in Nat
      /\ work.edits + 1 \in Nat /\ (work.edits > 0 => work.edits - 1 \in Nat)
      /\ work.other \in BOOLEAN /\ head.other \in BOOLEAN /\ index.other \in BOOLEAN
  BY <1>a DEF Tree
<1>c. \A s \in Steps : Step(s) => act' \in Call BY <1>a, CallFacts DEF Step
<1>d. \A s \in Steps, t \in Tree :
        /\ [act EXCEPT !.step = s, !.old = t] \in Call
        /\ [act EXCEPT !.step = s, !.new = t] \in Call
  BY <1>a, CallFacts
<1>e. Answer => act' \in Call BY CallFacts DEF Answer
<1>f. Undo => index' \in Tree /\ head' \in Tree BY <1>a, <1>b, TreeFacts DEF Undo
<1>0. {"authorize", "index", "apply", "confirm", "add", "staged", "write", "check", "move",
       "moved", "status"} \subseteq Steps
  BY DEF Steps
<1> SUFFICES /\ act' \in Call /\ work' \in Tree /\ head' \in Tree /\ index' \in Tree
             /\ sealed' \in Tree /\ shown' \subseteq Tree
             /\ stop' \in [patches: Nat, head: Tree, sealed: Tree]
  BY DEF TreesType
<1>1. CASE Acting
  <2>0. stop' = stop /\ shown' = shown BY <1>1 DEF Acting
  <2>1. CASE AuthorizePatch BY <1>a, <1>c, <1>e, <1>0, <2>0, <2>1 DEF AuthorizePatch
  <2>2. CASE ApplyPatch
    <3>1. UNCHANGED <<head, index, sealed>> BY <2>2 DEF ApplyPatch
    <3>2. \/ /\ work' = [work EXCEPT !.patches = work.patches + 1]
             /\ act' = [act EXCEPT !.step = "confirm", !.old = work]
          \/ Answer /\ work' = work
      BY <2>2 DEF ApplyPatch
    <3>3. work' \in Tree BY <1>a, <1>b, <3>2, TreeFacts
    <3>4. [act EXCEPT !.step = "confirm", !.old = work] \in Call BY <1>a, <1>d, <1>0
    <3>5. act' \in Call BY <1>e, <3>2, <3>4
    <3> QED BY <1>a, <2>0, <3>1, <3>3, <3>5
  <2>3. CASE ConfirmPatch
    <3>1. Reversed \in Tree BY <1>a, <1>b, TreeFacts DEF Reversed
    <3>2. UNCHANGED <<head, index, sealed>> /\ Answer /\ (work' = work \/ work' = Reversed)
      BY <2>3 DEF ConfirmPatch
    <3> QED BY <1>a, <1>e, <2>0, <3>1, <3>2
  <2>4. CASE IndexCommit
    <3>1. UNCHANGED <<work, head, index, sealed>>
          /\ (Answer \/ act' = [act EXCEPT !.step = "add", !.old = head])
      BY <2>4 DEF IndexCommit
    <3>2. [act EXCEPT !.step = "add", !.old = head] \in Call BY <1>a, <1>d, <1>0
    <3> QED BY <1>a, <1>e, <2>0, <3>1, <3>2
  <2>5. CASE AddCommit
    <3>1. UNCHANGED <<work, head, sealed>> /\ Step("staged")
          /\ index' = [work EXCEPT !.other = index.other]
      BY <2>5 DEF AddCommit
    <3>2. index' \in Tree BY <1>a, <1>b, <3>1, TreeFacts
    <3> QED BY <1>a, <1>c, <1>0, <2>0, <3>1, <3>2
  <2>6. CASE StagedCommit
    <3>1. UNCHANGED <<work, sealed>>
          /\ ((Step("write") /\ UNCHANGED <<index, head>>) \/ (Answer /\ Undo))
      BY <2>6 DEF StagedCommit
    <3> QED BY <1>a, <1>c, <1>e, <1>f, <1>0, <2>0, <3>1
  <2>7. CASE WriteCommit
    <3>1. UNCHANGED <<work, head, index, sealed>>
          /\ act' = [act EXCEPT !.step = "check", !.new = index]
      BY <2>7 DEF WriteCommit
    <3> QED BY <1>a, <1>d, <1>0, <2>0, <3>1
  <2>8. CASE CheckCommit
    <3>1. UNCHANGED <<work, sealed>>
          /\ ((Step("move") /\ UNCHANGED <<index, head>>) \/ (Answer /\ Undo))
      BY <2>8 DEF CheckCommit
    <3> QED BY <1>a, <1>c, <1>e, <1>f, <1>0, <2>0, <3>1
  <2>9. CASE MoveCommit
    <3>1. UNCHANGED <<work, sealed>>
          /\ ((head' = act.new /\ Step("moved") /\ index' = index) \/ (Answer /\ Undo))
      BY <2>9 DEF MoveCommit
    <3> QED BY <1>a, <1>c, <1>e, <1>f, <1>0, <2>0, <3>1
  <2>10. CASE ConfirmCommit
    <3>1. UNCHANGED <<work, sealed>>
          /\ ((Step("status") /\ UNCHANGED <<index, head>>) \/ (Answer /\ Undo))
      BY <2>10 DEF ConfirmCommit
    <3> QED BY <1>a, <1>c, <1>e, <1>f, <1>0, <2>0, <3>1
  <2>11. CASE StatusCommit
    <3>1. UNCHANGED work /\ Answer
          /\ ((sealed' = head /\ UNCHANGED <<index, head>>) \/ (Undo /\ UNCHANGED sealed))
      BY <2>11 DEF StatusCommit
    <3> QED BY <1>a, <1>e, <1>f, <2>0, <3>1
  <2> QED BY <1>1, <2>1, <2>2, <2>3, <2>4, <2>5, <2>6, <2>7, <2>8, <2>9, <2>10, <2>11 DEF Acting
<1>2. CASE PumpTool
  <2>1. Head(inbox).kind \in Tools /\ UNCHANGED <<treeVars, stop, shown>> BY <1>2 DEF PumpTool
  <2> DEFINE m == Head(inbox)
             s == IF m.kind = "patch" THEN "authorize" ELSE "index"
  <2>2. act' = NoAct \/ act' = [NoAct EXCEPT !.kind = m.kind, !.step = s] BY <1>2 DEF PumpTool
  <2>3. s \in Steps BY <1>0
  <2> HIDE DEF m, s
  <2>4. m.kind \in Tools BY <2>1 DEF m
  <2>5. act' \in Call BY <2>2, <2>3, <2>4, CallFacts
  <2> QED BY <1>a, <2>1, <2>5
<1>3. CASE Stop
  <2>1. UNCHANGED <<act, treeVars, shown>>
        /\ stop' = [patches |-> work.patches, head |-> head, sealed |-> sealed]
    BY <1>3 DEF Stop
  <2> QED BY <1>a, <1>b, <2>1
<1>4. CASE OwnerEdits
  <2>1. UNCHANGED <<act, head, index, sealed, stop, shown>>
        /\ (work' = [work EXCEPT !.edits = work.edits + 1] \/ work' = [work EXCEPT !.other = TRUE])
    BY <1>4 DEF OwnerEdits
  <2>2. work' \in Tree BY <1>a, <1>b, <2>1, TreeFacts
  <2> QED BY <1>a, <2>1, <2>2
<1>5. CASE OwnerReverts
  <2>1. UNCHANGED <<act, head, index, sealed, stop, shown>>
        /\ (\/ work.edits > 0 /\ work' = [work EXCEPT !.edits = work.edits - 1]
            \/ work' = [work EXCEPT !.other = FALSE])
    BY <1>5 DEF OwnerReverts
  <2>2. work' \in Tree BY <1>a, <1>b, <2>1, TreeFacts
  <2> QED BY <1>a, <2>1, <2>2
<1>6. CASE OwnerStages
  <2>1. PICK o \in {work.other, head.other} : index' = [index EXCEPT !.other = o]
    BY <1>6 DEF OwnerStages
  <2>2. index' \in Tree BY <1>a, <1>b, <2>1, TreeFacts
  <2> QED BY <1>a, <1>6, <2>2 DEF OwnerStages
<1>7. CASE PumpRead
  <2>1. UNCHANGED <<act, treeVars, stop>> /\ shown' \subseteq shown \cup {work}
    BY <1>7 DEF PumpRead
  <2> QED BY <1>a, <2>1
<1>8. CASE UNCHANGED <<act, treeVars, stop, shown>> BY <1>a, <1>8
<1> QED
  BY <1>1, <1>2, <1>3, <1>4, <1>5, <1>6, <1>7, <1>8 DEF Next, Act, ServerCalls, ServerAnswers,
     ServerEnds, Read, StartTurn, PumpResponse, PumpEvent, PumpRaises, Collect, Receipt, Interrupt

-----------------------------------------------------------------------------
(* What a tool call leaves behind.                                         *)

\* What a commit does when it gives up.
LEMMA UndoFacts ==
  ASSUME TreesType, Undo
  PROVE  Scoped(index') = Scoped(act.old) /\ head' = act.old /\ index'.other = index.other
<1>1. act.old \in Tree BY CallFacts DEF TreesType
<1> QED BY <1>1, ScopedFacts DEF Undo

LEMMA ActingKeeps ==
  ASSUME TreesType, NumbersType, FlagsType, ActInv, StopInv, LateInv, Acting
  PROVE  ActInv' /\ StopInv' /\ LateInv'
<1>0. UNCHANGED <<live, stop, raced, late>> BY DEF Acting
<1>s. \A s \in Steps : act' = [act EXCEPT !.step = s] =>
        act'.step = s /\ act'.old = act.old /\ act'.new = act.new
  BY DEF TreesType, Call
<1>n. act' = NoAct => act'.step = "none" BY CallFacts
<1>t. /\ work.patches \in Nat /\ act.old.patches \in Nat /\ granted \in Nat
      /\ work.edits \in Nat /\ act.old.edits \in Nat /\ stop.patches \in Nat
  BY CallFacts, TreeFacts DEF TreesType, NumbersType
<1>a. "none" \in Steps /\ {"authorize", "index", "apply", "confirm", "add", "staged", "write",
        "check", "move", "moved", "status"} \subseteq Steps
  BY DEF Steps
<1>1. CASE AuthorizePatch
  <2>1. \/ act'.step = "apply"
        \/ act' = NoAct /\ act'.step = "none"
    BY <1>1, <1>a, <1>s, <1>n DEF AuthorizePatch, Step, Answer
  <2>2. UNCHANGED treeVars /\ act.step = "authorize" BY <1>1 DEF AuthorizePatch
  <2>3. act'.step = "apply" => act' # NoAct BY CallFacts
  <2> QED BY <1>0, <2>1, <2>2, <2>3 DEF ActInv, StopInv, LateInv, Kept, Before
<1>2. CASE ApplyPatch
  <2>0. act.step = "apply" /\ UNCHANGED <<head, index, granted, sealed>> BY <1>2 DEF ApplyPatch
  <2>1. CASE Answer /\ UNCHANGED work
    BY <1>0, <1>n, <2>0, <2>1 DEF Answer, ActInv, StopInv, LateInv, Kept, Before
  <2>2. CASE /\ work' = [work EXCEPT !.patches = @ + 1]
             /\ act' = [act EXCEPT !.step = "confirm", !.old = work]
    <3>1. act'.step = "confirm" /\ act'.old = work /\ act' # NoAct
      BY <2>2, CallFacts DEF TreesType, Call
    <3>2. work'.patches = work.patches + 1 /\ work'.edits = work.edits
      BY <2>2, <1>t DEF TreesType, Tree
    <3> QED BY <1>0, <2>0, <3>1, <3>2 DEF ActInv, StopInv, LateInv, Kept, Before
  <2> QED BY <1>2, <2>1, <2>2 DEF ApplyPatch
<1>3. CASE ConfirmPatch
  <2>0. /\ act.step = "confirm" /\ act' = NoAct /\ act'.step = "none"
        /\ UNCHANGED <<head, index, sealed>>
    BY <1>3, <1>n DEF ConfirmPatch, Answer
  <2>1. CASE granted' = granted + 1 /\ UNCHANGED work /\ live
    BY <1>0, <1>t, <2>0, <2>1 DEF ActInv, StopInv, LateInv, Kept
  <2>2. CASE work' = Reversed /\ UNCHANGED granted
    <3>1. \/ work'.patches = act.old.patches
          \/ raced /\ work'.patches = work.patches
      BY <2>0, <2>2, <1>t DEF Reversed, ActInv, TreesType, Tree
    <3> QED BY <1>0, <1>t, <2>0, <2>2, <3>1 DEF ActInv, StopInv, LateInv, Kept, Before
  <2> QED BY <1>3, <2>1, <2>2 DEF ConfirmPatch, Confirmed, Live, Authorised
<1>4. CASE IndexCommit
  <2>0. act.step = "index" /\ UNCHANGED treeVars BY <1>4 DEF IndexCommit
  <2>1. CASE act' = [act EXCEPT !.step = "add", !.old = head]
    <3>1. act'.step = "add" /\ act'.old = head /\ act' # NoAct
      BY <2>1, CallFacts DEF TreesType, Call
    <3> QED BY <1>0, <2>0, <3>1 DEF ActInv, StopInv, LateInv, Kept, Before
  <2>2. CASE act' = NoAct
    BY <1>0, <1>n, <2>0, <2>2 DEF ActInv, StopInv, LateInv, Kept, Before
  <2> QED BY <1>4, <2>1, <2>2 DEF IndexCommit, Answer
<1>5. CASE AddCommit
  <2>1. act.step = "add" /\ UNCHANGED <<work, head, granted, sealed>> BY <1>5 DEF AddCommit
  <2>2. act'.step = "staged" /\ act'.old = act.old /\ act' # NoAct
    BY <1>5, <1>a, <1>s, CallFacts DEF AddCommit, Step
  <2> QED BY <1>0, <2>1, <2>2 DEF ActInv, StopInv, LateInv, Kept, Before
<1>b. ASSUME act.step \in {"staged", "check", "move", "moved", "status"}, Undo, act' = NoAct,
             UNCHANGED <<work, granted, sealed>>
      PROVE  ActInv' /\ StopInv' /\ LateInv'
  BY <1>0, <1>n, <1>b, UndoFacts DEF ActInv, StopInv, LateInv, Kept, Before
<1>6. CASE StagedCommit
  <2>0. act.step = "staged" /\ UNCHANGED <<work, granted, sealed>> BY <1>6 DEF StagedCommit
  <2>1. CASE Step("write") /\ UNCHANGED <<index, head>> /\ index.other = head.other
    <3>1. act'.step = "write" /\ act'.old = act.old /\ act' # NoAct
      BY <2>1, <1>a, <1>s, CallFacts DEF Step
    <3> QED BY <1>0, <2>0, <2>1, <3>1 DEF ActInv, StopInv, LateInv, Kept, Before
  <2> QED BY <1>6, <1>b, <2>0, <2>1 DEF StagedCommit, Answer
<1>7. CASE WriteCommit
  <2>1. act.step = "write" /\ UNCHANGED treeVars BY <1>7 DEF WriteCommit
  <2>2. act'.step = "check" /\ act'.old = act.old /\ act'.new = index /\ act' # NoAct
    BY <1>7, CallFacts DEF WriteCommit, TreesType, Call
  <2> QED BY <1>0, <2>1, <2>2 DEF ActInv, StopInv, LateInv, Kept, Before
<1>8. CASE CheckCommit
  <2>0. act.step = "check" /\ UNCHANGED <<work, granted, sealed>> BY <1>8 DEF CheckCommit
  <2>1. CASE Step("move") /\ UNCHANGED <<index, head>>
    <3>1. act'.step = "move" /\ act'.old = act.old /\ act'.new = act.new /\ act' # NoAct
      BY <2>1, <1>a, <1>s, CallFacts DEF Step
    <3> QED BY <1>0, <2>0, <2>1, <3>1 DEF ActInv, StopInv, LateInv, Kept, Before
  <2> QED BY <1>8, <1>b, <2>0, <2>1 DEF CheckCommit, Answer
<1>9. CASE MoveCommit
  <2>0. act.step = "move" /\ UNCHANGED <<work, granted, sealed>> BY <1>9 DEF MoveCommit
  <2>1. CASE head' = act.new /\ Step("moved") /\ UNCHANGED index
    <3>1. act'.step = "moved" /\ act'.old = act.old /\ act' # NoAct
      BY <2>1, <1>a, <1>s, CallFacts DEF Step
    <3> QED BY <1>0, <2>0, <2>1, <3>1 DEF ActInv, StopInv, LateInv, Kept, Before
  <2> QED BY <1>9, <1>b, <2>0, <2>1 DEF MoveCommit, Answer
<1>10. CASE ConfirmCommit
  <2>0. act.step = "moved" /\ UNCHANGED <<work, granted, sealed>> BY <1>10 DEF ConfirmCommit
  <2>1. CASE Step("status") /\ UNCHANGED <<index, head>> /\ live
    <3>1. act'.step = "status" /\ act'.old = act.old /\ act' # NoAct
      BY <2>1, <1>a, <1>s, CallFacts DEF Step
    <3> QED BY <1>0, <2>0, <2>1, <3>1 DEF ActInv, StopInv, LateInv, Kept, Before
  <2> QED BY <1>10, <1>b, <2>0, <2>1 DEF ConfirmCommit, Answer, Confirmed, Live, Authorised
<1>11. CASE StatusCommit
  <2>0. act.step = "status" /\ act' = NoAct /\ UNCHANGED <<work, granted>>
    BY <1>11 DEF StatusCommit, Answer
  <2>1. CASE sealed' = head /\ UNCHANGED <<index, head>> /\ index = head
    BY <1>0, <1>n, <2>0, <2>1 DEF ActInv, StopInv, LateInv, Kept, Before
  <2> QED BY <1>11, <1>b, <2>0, <2>1 DEF StatusCommit
<1> QED
  BY <1>1, <1>2, <1>3, <1>4, <1>5, <1>6, <1>7, <1>8, <1>9, <1>10, <1>11 DEF Acting

LEMMA ActNext ==
  ASSUME TypeInv, ActInv, StopInv, LateInv, Next
  PROVE  ActInv' /\ StopInv' /\ LateInv'
<1>t. /\ work.patches \in Nat /\ act.old.patches \in Nat /\ granted \in Nat
      /\ work.edits \in Nat /\ stop.patches \in Nat
  BY CallFacts, TreeFacts DEF TypeInv, TreesType, NumbersType
<1>w. \A n \in Nat : [work EXCEPT !.edits = n].patches = work.patches
  BY DEF TypeInv, TreesType, Tree
<1>o. \A b \in BOOLEAN : /\ [work EXCEPT !.other = b].patches = work.patches
                         /\ [work EXCEPT !.other = b].edits = work.edits
  BY DEF TypeInv, TreesType, Tree
<1>1. CASE UNCHANGED <<act, treeVars, live, stop, raced, late>>
  BY <1>1 DEF ActInv, StopInv, LateInv, Kept, Before
<1>2. CASE PumpTool
  <2>1. act = NoAct /\ UNCHANGED <<treeVars, live, stop, raced, late>>
    BY <1>2 DEF PumpTool, Pumping
  <2>2. \/ act' = NoAct /\ act'.step = "none"
        \/ act'.step \in {"authorize", "index"} /\ act' # NoAct
    <3> DEFINE m == Head(inbox)
               s == IF m.kind = "patch" THEN "authorize" ELSE "index"
    <3>1. act' = NoAct \/ act' = [NoAct EXCEPT !.kind = m.kind, !.step = s]
      BY <1>2 DEF PumpTool
    <3>2. s \in {"authorize", "index"} OBVIOUS
    <3> HIDE DEF m, s
    <3>3. [NoAct EXCEPT !.kind = m.kind, !.step = s].step = s BY DEF NoAct
    <3> QED BY <3>1, <3>2, <3>3, CallFacts
  <2> QED BY <2>1, <2>2, CallFacts DEF ActInv, StopInv, LateInv, Kept, Before
<1>3. CASE Acting BY <1>3, ActingKeeps DEF TypeInv
<1>4. CASE Stop
  <2>1. /\ UNCHANGED <<act, treeVars, raced, late>> /\ live
        /\ stop'.patches = work.patches /\ stop'.head = head /\ stop'.sealed = sealed
    BY <1>4 DEF Stop
  <2> QED BY <1>t, <2>1 DEF ActInv, StopInv, LateInv, Kept, Before
<1>5. CASE OwnerEdits \/ OwnerReverts
  <2>1. /\ UNCHANGED <<act, head, index, sealed, granted, live, stop, late>>
        /\ raced => raced'
    <3>1. CASE OwnerEdits
      <4>1. raced' = (raced \/ act.step = "confirm") \/ raced' = raced BY <3>1 DEF OwnerEdits
      <4>2. UNCHANGED <<act, head, index, sealed, granted, live, stop, late>>
        BY <3>1 DEF OwnerEdits
      <4>3. raced \in BOOLEAN BY DEF TypeInv, FlagsType
      <4>4. raced => raced' BY <4>1, <4>3, Zenon
      <4> QED BY <4>2, <4>4
    <3>2. CASE OwnerReverts
      <4>1. raced' = (raced \/ act.step = "confirm") \/ raced' = raced BY <3>2 DEF OwnerReverts
      <4>2. UNCHANGED <<act, head, index, sealed, granted, live, stop, late>>
        BY <3>2 DEF OwnerReverts
      <4>3. raced \in BOOLEAN BY DEF TypeInv, FlagsType
      <4>4. raced => raced' BY <4>1, <4>3, Zenon
      <4> QED BY <4>2, <4>4
    <3> QED BY <1>5, <3>1, <3>2
  <2>2. /\ work'.patches = work.patches
        /\ work'.edits = work.edits \/ act.step # "confirm" \/ raced'
    <3>1. CASE OwnerEdits
      <4>1. work.edits + 1 \in Nat BY <1>t
      <4> QED BY <3>1, <4>1, <1>w, <1>o DEF OwnerEdits
    <3>2. CASE OwnerReverts
      <4>1. work.edits > 0 => work.edits - 1 \in Nat BY <1>t
      <4> QED BY <3>2, <4>1, <1>w, <1>o DEF OwnerReverts
    <3> QED BY <1>5, <3>1, <3>2
  <2> QED BY <2>1, <2>2 DEF ActInv, StopInv, LateInv, Kept, Before
<1>6. CASE OwnerStages
  <2>1. UNCHANGED <<act, work, head, sealed, granted, live, stop, raced>>
    BY <1>6 DEF OwnerStages
  <2>2. Scoped(index') = Scoped(index)
    BY <1>6, ScopedFacts DEF OwnerStages, TypeInv, TreesType
  <2>3. late' = (late \/ act.step = "write") BY <1>6 DEF OwnerStages
  <2> QED BY <2>1, <2>2, <2>3 DEF ActInv, StopInv, LateInv, Kept, Before
<1> QED
  BY <1>1, <1>2, <1>3, <1>4, <1>5, <1>6 DEF Next, Act, ServerCalls, ServerAnswers, ServerEnds,
     Read, StartTurn, PumpResponse, PumpEvent, PumpRead, PumpRaises, Collect, Receipt, Interrupt

-----------------------------------------------------------------------------
(* What a reviewer was shown.                                              *)

LEMMA ShownNext ==
  ASSUME TypeInv, TurnInv, ActInv, ShownInv, Next
  PROVE  ShownInv'
<1>t. /\ work \in Tree /\ shown \subseteq Tree /\ undone \in BOOLEAN
      /\ \A t \in Tree : t.patches \in Nat /\ t.edits \in Nat /\ t.other \in BOOLEAN
  BY TreeFacts DEF TypeInv, TreesType, FlagsType
<1>p. pc # "collected" /\ writes' = writes BY DEF Next, Over
<1>1. CASE Acting
  <2>1. writes /\ UNCHANGED <<shown, undone, pc>>
    BY <1>1, CallFacts DEF TurnInv, Acting, AuthorizePatch, ApplyPatch, ConfirmPatch, IndexCommit,
       AddCommit, StagedCommit, WriteCommit, CheckCommit, MoveCommit, ConfirmCommit, StatusCommit
  <2>2. shown = {} BY <2>1 DEF ShownInv
  <2> QED BY <1>p, <2>1, <2>2 DEF ShownInv, ReviewedAsFrozen
<1>2. CASE PumpRead
  <2>1. UNCHANGED <<work, undone, pc>> /\ (shown' = shown \/ (shown' = shown \cup {work} /\ ~writes))
    BY <1>2 DEF PumpRead
  <2> QED BY <1>p, <1>t, <2>1 DEF ShownInv, ReviewedAsFrozen
<1>3. CASE OwnerEdits
  <2>0. UNCHANGED <<shown, undone, pc>> BY <1>3 DEF OwnerEdits
  <2>1. work'.patches = work.patches /\ work'.edits >= work.edits /\ (work.other => work'.other)
    <3>1. work.edits + 1 \in Nat BY <1>t
    <3>2. CASE work' = [work EXCEPT !.edits = @ + 1] BY <1>t, <3>1, <3>2, TreeFacts
    <3>3. CASE work' = [work EXCEPT !.other = TRUE] BY <1>t, <3>3, TreeFacts
    <3> QED BY <1>3, <3>2, <3>3 DEF OwnerEdits
  <2>2. work'.edits \in Nat BY <1>3, <1>t, TreesNext DEF TreesType
  <2>3. ~undone' => \A t \in shown' \ {Frozen} :
          t.edits <= work'.edits /\ t.patches = work'.patches /\ (t.other => work'.other)
    BY <1>t, <2>0, <2>1, <2>2 DEF ShownInv
  <2> QED BY <1>p, <2>0, <2>3 DEF ShownInv, ReviewedAsFrozen
<1>4. CASE OwnerReverts
  <2>1. UNCHANGED <<shown, pc>> /\ (~undone' => ~undone /\ shown \subseteq {Frozen})
    BY <1>4, <1>t DEF OwnerReverts
  <2> QED BY <1>p, <2>1 DEF ShownInv, ReviewedAsFrozen
<1>5. CASE Receipt
  <2>0. UNCHANGED <<work, shown, undone>> BY <1>5 DEF Receipt
  <2>1. ASSUME pc' = "collected", ~undone PROVE shown \subseteq {Frozen}
    <3>1. writes \/ work = Frozen BY <1>5, <2>1 DEF Receipt, Candidate
    <3>2. CASE writes BY <3>2 DEF ShownInv
    <3>3. CASE work = Frozen
      <4>1. ASSUME NEW t \in shown, t # Frozen PROVE FALSE
        <5>1. t.edits <= 0 /\ t.patches = 0 /\ ~t.other
          BY <2>1, <3>3, <4>1 DEF ShownInv, Frozen
        <5>2. t \in Tree /\ t.edits = 0 /\ t.other = FALSE BY <1>t, <5>1
        <5> QED BY <4>1, <5>1, <5>2 DEF Tree, Frozen
      <4> QED BY <4>1
    <3> QED BY <3>1, <3>2, <3>3
  <2> QED BY <1>p, <2>0, <2>1 DEF ShownInv, ReviewedAsFrozen
<1>6. CASE /\ UNCHANGED <<shown, undone>> /\ pc' # "collected"
           /\ work' = work
  BY <1>p, <1>6 DEF ShownInv, ReviewedAsFrozen
<1>7. CASE StartTurn \/ PumpResponse \/ PumpRaises \/ Collect
  BY <1>p, <1>6, <1>7 DEF StartTurn, PumpResponse, PumpRaises, Raises, Collect
<1> QED
  BY <1>p, <1>1, <1>2, <1>3, <1>4, <1>5, <1>6, <1>7 DEF Next, Act, ServerCalls, ServerAnswers,
     ServerEnds, Read, PumpEvent, PumpTool, Stop, Interrupt, OwnerStages

-----------------------------------------------------------------------------
(* The order and the number of the messages.                               *)

LEMMA OrderNext ==
  ASSUME TypeInv, OrderInv, Next
  PROVE  OrderInv'
<1>0. stream \in Seq(Message) /\ inbox \in Seq(Message) BY DEF TypeInv, QueuesType
<1> USE <1>0 DEF OrderInv, DonePumped
<1>1. CASE ServerCalls
  <2>1. PICK kind \in Tools \cup {"read", "usage"}, t \in Turns : stream' = Append(stream, Msg(kind, t))
    BY <1>1 DEF ServerCalls, Write
  <2>2. ~ended /\ UNCHANGED <<inbox, events, ended>> BY <1>1 DEF ServerCalls
  <2>3. Msg(kind, t) \in Message /\ Msg(kind, t).kind \notin {"done", "response"}
    BY DEF Msg, Message, Kinds, Tools
  <2> QED BY <2>1, <2>2, <2>3
<1>2. CASE ServerAnswers
  <2>1. stream' = Append(stream, Msg("response", 1)) /\ UNCHANGED <<inbox, events, ended>>
    BY <1>2 DEF ServerAnswers, Write
  <2>2. Msg("response", 1).kind = "response" /\ Msg("response", 1).turn = 1 BY DEF Msg
  <2> QED BY <2>1, <2>2
<1>3. CASE ServerEnds
  <2>1. stream' = Append(stream, Msg("done", 1)) /\ UNCHANGED <<inbox, events>> /\ ended'
        /\ ~ended
    BY <1>3 DEF ServerEnds, Write
  <2>2. Msg("done", 1).kind = "done" /\ Msg("done", 1).turn = 1 BY DEF Msg
  <2> QED BY <2>1, <2>2
<1>4. CASE Read
  <2> DEFINE m == Head(stream)
             l == Msg("usage lost", m.turn)
  <2>1. stream # <<>> /\ stream' = Tail(stream) /\ m \in Message /\ l \in Message
    BY <1>4, ReadShape, MessageFacts DEF TypeInv, Kinds
  <2>2. /\ inbox' = Append(inbox, m)
           \/ (m.kind = "usage" /\ inbox' = Append(Append(inbox, l), m))
    BY <1>4, ReadShape DEF TypeInv
  <2>3. UNCHANGED <<events, ended>> BY <1>4 DEF Read
  <2>4. /\ Len(stream) \in Nat /\ Len(stream) >= 1 /\ Len(stream') = Len(stream) - 1
        /\ m = stream[1] /\ \A i \in 1..Len(stream') : stream'[i] = stream[i + 1]
    BY <2>1, HeadFacts
  <2>5. l.kind = "usage lost" BY DEF Msg
  <2> HIDE DEF m, l
  <2>6. /\ \A i \in 1..Len(inbox') :
             \/ i \in 1..Len(inbox) /\ inbox'[i] = inbox[i]
             \/ inbox'[i] = m
             \/ m.kind = "usage" /\ inbox'[i] = l
        /\ \A i \in 1..Len(inbox) : i \in 1..Len(inbox') /\ inbox'[i] = inbox[i]
    <3>1. CASE inbox' = Append(inbox, m) BY <3>1, <2>1
    <3>2. CASE m.kind = "usage" /\ inbox' = Append(Append(inbox, l), m)
      <4>1. Append(inbox, l) \in Seq(Message) /\ Len(Append(inbox, l)) = Len(inbox) + 1
        BY <2>1
      <4>2. Len(inbox') = Len(inbox) + 2 /\ Len(inbox) \in Nat BY <3>2, <4>1, <2>1
      <4>3. /\ \A i \in 1..Len(inbox) : inbox'[i] = inbox[i]
            /\ inbox'[Len(inbox) + 1] = l /\ inbox'[Len(inbox) + 2] = m
        BY <3>2, <4>1, <2>1
      <4> QED BY <4>2, <4>3, <3>2
    <3> QED BY <2>2, <3>1, <3>2
  <2>7. \A i \in 1..Len(stream') : i + 1 \in 1..Len(stream) BY <2>4
  <2>8. ASSUME NEW i \in 1..Len(stream'), stream'[i].kind = "done"
        PROVE  ended' /\ \A j \in i..Len(stream') : stream'[j].kind # "usage"
    <3>1. stream[i + 1].kind = "done" /\ i + 1 \in 1..Len(stream) BY <2>4, <2>7, <2>8
    <3>2. ended /\ \A j \in i + 1..Len(stream) : stream[j].kind # "usage" BY <3>1
    <3>3. \A j \in i..Len(stream') : j + 1 \in i + 1..Len(stream) /\ j \in 1..Len(stream')
      BY <2>4
    <3> QED BY <2>3, <2>4, <3>2, <3>3
  <2>9. DonePumped' => ended' /\ \A j \in 1..Len(stream') : stream'[j].kind # "usage"
    <3>1. DonePumped' => DonePumped \/ m.kind = "done" BY <2>3, <2>5, <2>6
    <3>2. CASE DonePumped BY <3>2, <2>3, <2>4, <2>7
    <3>3. CASE m.kind = "done" BY <3>3, <2>3, <2>4, <2>7
    <3> QED BY <3>1, <3>2, <3>3
  <2>10. \A i \in 1..Len(stream') : stream'[i].kind \in {"done", "response"} =>
           stream'[i].turn = 1
    BY <2>4, <2>7
  <2>11. \A i \in 1..Len(inbox') : inbox'[i].kind \in {"done", "response"} =>
           inbox'[i].turn = 1
    <3>1. 1 \in 1..Len(stream) BY <2>4
    <3> QED BY <2>4, <2>5, <2>6, <3>1
  <2> QED BY <2>8, <2>9, <2>10, <2>11
<1>5. CASE PumpResponse \/ PumpEvent \/ PumpTool \/ PumpRead \/ PumpRaises
  <2>1. /\ UNCHANGED <<stream, ended>>
        /\ \/ UNCHANGED <<inbox, events>>
           \/ /\ inbox # <<>> /\ inbox' = Tail(inbox)
              /\ events' = events \/ Head(inbox).kind = "done"
    <3>1. CASE PumpResponse BY <3>1 DEF PumpResponse, Pumping, Rest
    <3>2. CASE PumpEvent BY <3>2 DEF PumpEvent, Pumping, Rest
    <3>3. CASE PumpTool BY <3>3 DEF PumpTool, Pumping, Rest
    <3>4. CASE PumpRead BY <3>4 DEF PumpRead, Pumping, Rest
    <3>5. CASE PumpRaises BY <3>5 DEF PumpRaises, Pumping, Rest
    <3> QED BY <1>5, <3>1, <3>2, <3>3, <3>4, <3>5
  <2>2. CASE UNCHANGED <<inbox, events>> BY <2>1, <2>2
  <2>3. CASE inbox # <<>> /\ inbox' = Tail(inbox)
             /\ (events' = events \/ Head(inbox).kind = "done")
    <3>1. /\ Len(inbox) \in Nat /\ Len(inbox) >= 1 /\ Len(inbox') = Len(inbox) - 1
          /\ Head(inbox) = inbox[1]
          /\ \A i \in 1..Len(inbox') : i + 1 \in 1..Len(inbox) /\ inbox'[i] = inbox[i + 1]
      BY <2>3, HeadFacts
    <3>2. DonePumped' => DonePumped BY <2>3, <3>1
    <3>3. DonePumped' => ended' /\ \A j \in 1..Len(stream') : stream'[j].kind # "usage"
      <4>1. DonePumped => ended /\ \A j \in 1..Len(stream) : stream[j].kind # "usage" OBVIOUS
      <4> HIDE DEF DonePumped
      <4> QED BY <2>1, <3>2, <4>1
    <3>4. \A i \in 1..Len(inbox') : inbox'[i].kind \in {"done", "response"} => inbox'[i].turn = 1
      BY <3>1
    <3> QED BY <2>1, <3>3, <3>4
  <2> QED BY <2>1, <2>2, <2>3
<1>6. CASE UNCHANGED <<stream, inbox, events, ended>> BY <1>6
<1> QED BY <1>1, <1>2, <1>3, <1>4, <1>5, <1>6 DEF Next, Act, StartTurn, Collect, Receipt,
       Acting, Stop, Interrupt, OwnerEdits, OwnerReverts, OwnerStages

\* A sequence changes by the messages its action names.
LEMMA KindFacts ==
  \A m \in Message : /\ m \in ToolMsgs <=> m.kind \in Tools
                     /\ m \in UsageMsg <=> m.kind = "usage" /\ m.turn = 1
BY DEF ToolMsgs, UsageMsg, Msg, Message

LEMMA PumpShape ==
  ASSUME TypeInv, PumpResponse \/ PumpEvent \/ PumpTool \/ PumpRead \/ PumpRaises
  PROVE  /\ UNCHANGED <<stream, server, sent, metered, granted>>
         /\ \/ UNCHANGED inbox
            \/ inbox # <<>> /\ inbox' = Tail(inbox) /\ Head(inbox) = inbox[1]
               /\ Head(inbox) \in Message
         /\ \/ UNCHANGED act
            \/ act.step = "none" /\ inbox' = Tail(inbox) /\ inbox # <<>>
               /\ Head(inbox).kind \in Tools
<1>1. /\ UNCHANGED <<stream, server, sent, metered, granted>>
      /\ UNCHANGED inbox \/ (inbox # <<>> /\ inbox' = Tail(inbox))
  <2>1. CASE PumpTool BY <2>1 DEF PumpTool, Pumping, Rest
  <2>2. CASE PumpResponse BY <2>2 DEF PumpResponse, Pumping, Rest
  <2>3. CASE PumpEvent BY <2>3 DEF PumpEvent, Pumping, Rest
  <2>4. CASE PumpRaises BY <2>4 DEF PumpRaises, Raises, Pumping, Rest
  <2>5. CASE PumpRead BY <2>5 DEF PumpRead, Pumping, Rest
  <2> QED BY <2>1, <2>2, <2>3, <2>4, <2>5
<1>2. inbox # <<>> => Head(inbox) \in Message /\ Head(inbox) = inbox[1]
  BY HeadFacts DEF TypeInv, QueuesType
<1>3. \/ act' = act
      \/ act = NoAct /\ inbox' = Tail(inbox) /\ inbox # <<>> /\ Head(inbox).kind \in Tools
  <2>1. CASE PumpTool BY <2>1 DEF PumpTool, Pumping, Rest
  <2>2. CASE PumpResponse \/ PumpEvent \/ PumpRead \/ PumpRaises
    BY <2>2 DEF PumpResponse, PumpEvent, PumpRead, PumpRaises
  <2> QED BY <2>1, <2>2
<1> QED BY <1>1, <1>2, <1>3, CallFacts

LEMMA CountNext ==
  ASSUME TypeInv, CountInv, Next
  PROVE  CountInv'
<1>0. /\ stream \in Seq(Message) /\ inbox \in Seq(Message)
      /\ server \in Nat /\ sent \in Nat /\ metered \in Nat /\ granted \in Nat
  BY DEF TypeInv, QueuesType, NumbersType
<1> DEFINE it == Count(inbox, ToolMsgs)
           st == Count(stream, ToolMsgs)
           su == Count(stream, UsageMsg)
           it2 == Count(Tail(inbox), ToolMsgs)
           st2 == Count(Tail(stream), ToolMsgs)
           su2 == Count(Tail(stream), UsageMsg)
<1>c. \A s \in Seq(Message) : Count(s, ToolMsgs) \in Nat /\ Count(s, UsageMsg) \in Nat
  BY CountFinite
<1>n. Calling \in {0, 1} /\ Calling' \in {0, 1} BY DEF Calling
<1>p. /\ stream' \in Seq(Message) /\ inbox' \in Seq(Message)
      /\ server' \in Nat /\ sent' \in Nat /\ metered' \in Nat /\ granted' \in Nat
  BY QueuesNext, NumbersNext DEF QueuesType, NumbersType
<1>g. it \in Nat /\ st \in Nat /\ su \in Nat BY <1>0, <1>c
<1>t. /\ inbox # <<>> => it2 \in Nat
      /\ stream # <<>> => st2 \in Nat /\ su2 \in Nat
  BY <1>0, <1>c, HeadFacts
<1>h. /\ Count(stream', ToolMsgs) \in Nat /\ Count(stream', UsageMsg) \in Nat
      /\ Count(inbox', ToolMsgs) \in Nat
  BY <1>p, <1>c
<1>a. \A s \in Seq(Message), m \in Message :
        /\ Count(Append(s, m), ToolMsgs) =
             Count(s, ToolMsgs) + (IF m.kind \in Tools THEN 1 ELSE 0)
        /\ Count(Append(s, m), UsageMsg) =
             Count(s, UsageMsg) + (IF m.kind = "usage" /\ m.turn = 1 THEN 1 ELSE 0)
  BY <1>c, CountAppend, KindFacts
<1>b. \A s \in Seq(Message) : s # <<>> =>
        /\ Count(s, ToolMsgs) =
             Count(Tail(s), ToolMsgs) + (IF Head(s).kind \in Tools THEN 1 ELSE 0)
        /\ Count(s, UsageMsg) =
             Count(Tail(s), UsageMsg)
               + (IF Head(s).kind = "usage" /\ Head(s).turn = 1 THEN 1 ELSE 0)
  <2> SUFFICES ASSUME NEW s \in Seq(Message), s # <<>>
               PROVE  /\ Count(s, ToolMsgs) =
                           Count(Tail(s), ToolMsgs) + (IF Head(s).kind \in Tools THEN 1 ELSE 0)
                      /\ Count(s, UsageMsg) =
                           Count(Tail(s), UsageMsg)
                           + (IF Head(s).kind = "usage" /\ Head(s).turn = 1 THEN 1 ELSE 0)
    OBVIOUS
  <2>1. Head(s) \in Message /\ Tail(s) \in Seq(Message) BY HeadFacts
  <2> QED BY <2>1, <1>c, CountTail, KindFacts
<1>i. granted + Calling + it + st <= server /\ metered + su <= sent
  BY DEF CountInv
<1>k. PICK g \in Nat, c \in Nat, ti \in Nat, ts \in Nat, us \in Nat,
          n \in Nat, mt \in Nat, se \in Nat :
        /\ g = granted' /\ c = Calling' /\ n = server' /\ mt = metered' /\ se = sent'
        /\ ti = Count(inbox', ToolMsgs) /\ ts = Count(stream', ToolMsgs)
        /\ us = Count(stream', UsageMsg)
  BY <1>p, <1>h, <1>n
<1> SUFFICES g + c + ti + ts <= n /\ mt + us <= se
  BY <1>k DEF CountInv
<1> USE <1>0, <1>n, <1>i, <1>g
<1>1. CASE ServerCalls
  <2>1. PICK kind \in Tools \cup {"read", "usage"}, t \in Turns :
          /\ stream' = Append(stream, Msg(kind, t))
          /\ sent' = IF kind = "usage" /\ t = 1 THEN sent + 1 ELSE sent
    BY <1>1 DEF ServerCalls, Write
  <2> DEFINE tool == IF kind \in Tools THEN 1 ELSE 0
             usage == IF kind = "usage" /\ t = 1 THEN 1 ELSE 0
  <2>2. Msg(kind, t) \in Message /\ Msg(kind, t).kind = kind /\ Msg(kind, t).turn = t
    BY DEF Msg, Message, Kinds
  <2>3. tool + usage <= 1 /\ tool \in {0, 1} /\ usage \in {0, 1} BY DEF Tools
  <2>4. server' = server + 1 /\ UNCHANGED <<inbox, granted, metered, act>>
    BY <1>1 DEF ServerCalls
  <2>5. Calling' = Calling BY <2>4 DEF Calling
  <2>6. /\ Count(stream', ToolMsgs) = Count(stream, ToolMsgs) + tool
        /\ Count(stream', UsageMsg) = Count(stream, UsageMsg) + usage
    BY <2>1, <2>2, <1>a
  <2>7. sent' = sent + usage BY <2>1
  <2> HIDE DEF tool, usage
  <2>8. /\ g = granted /\ c = Calling /\ n = server + 1 /\ mt = metered /\ se = sent + usage
        /\ ti = it /\ ts = st + tool
        /\ us = su + usage
    BY <1>k, <2>4, <2>5, <2>6, <2>7
  <2> HIDE DEF it, st, su, it2, st2, su2
  <2> QED BY <2>3, <2>8
<1>2. CASE ServerAnswers \/ ServerEnds
  <2>1. PICK m \in Message :
          stream' = Append(stream, m) /\ m.kind \notin Tools /\ m.kind # "usage"
    <3>1. \A k \in {"response", "done"} : Msg(k, 1) \in Message /\ Msg(k, 1).kind = k
      BY DEF Msg, Message, Kinds
    <3> QED BY <1>2, <3>1 DEF ServerAnswers, ServerEnds, Write, Tools
  <2>2. UNCHANGED <<inbox, granted, metered, act, server, sent>>
    BY <1>2 DEF ServerAnswers, ServerEnds
  <2>3. Calling' = Calling BY <2>2 DEF Calling
  <2>4. /\ Count(stream', ToolMsgs) = Count(stream, ToolMsgs)
        /\ Count(stream', UsageMsg) = Count(stream, UsageMsg)
    <3>1. /\ Count(Append(stream, m), ToolMsgs) = Count(stream, ToolMsgs) + 0
          /\ Count(Append(stream, m), UsageMsg) = Count(stream, UsageMsg) + 0
      BY <2>1, <1>a
    <3> QED BY <2>1, <3>1
  <2>5. /\ g = granted /\ c = Calling /\ n = server /\ mt = metered /\ se = sent
        /\ ti = it /\ ts = st
        /\ us = su
    BY <1>k, <2>2, <2>3, <2>4
  <2> HIDE DEF it, st, su, it2, st2, su2
  <2> QED BY <2>5
<1>3. CASE Read
  <2> DEFINE m == Head(stream)
             l == Msg("usage lost", m.turn)
             tool == IF m.kind \in Tools THEN 1 ELSE 0
             usage == IF m.kind = "usage" /\ m.turn = 1 THEN 1 ELSE 0
  <2>1. /\ stream # <<>> /\ m \in Message /\ stream' = Tail(stream)
        /\ UNCHANGED <<granted, act, server, sent>>
    BY <1>3, ReadShape DEF TypeInv, Read
  <2>2. metered' = metered \/ metered' = metered + usage
    <3>1. m \in UsageMsg => usage = 1 BY <2>1, KindFacts
    <3> HIDE DEF usage
    <3> QED BY <1>3, ReadShape, <3>1 DEF TypeInv
  <2>3. \/ inbox' = Append(inbox, m)
        \/ l \in Message /\ inbox' = Append(Append(inbox, l), m)
    BY <1>3, ReadShape DEF TypeInv
  <2>4. l.kind \notin Tools BY DEF Msg, Tools
  <2>5. Calling' = Calling BY <2>1 DEF Calling
  <2>6. st = st2 + tool /\ su = su2 + usage /\ st2 \in Nat /\ su2 \in Nat
    BY <2>1, <1>b, <1>t
  <2>7. Count(inbox', ToolMsgs) = Count(inbox, ToolMsgs) + tool
    <3> HIDE DEF m, l
    <3>1. CASE inbox' = Append(inbox, m) BY <3>1, <2>1, <1>a
    <3>2. CASE l \in Message /\ inbox' = Append(Append(inbox, l), m)
      <4>1. Append(inbox, l) \in Seq(Message) BY <3>2
      <4>2. Count(Append(inbox, l), ToolMsgs) = Count(inbox, ToolMsgs) + 0
        BY <3>2, <2>4, <1>a
      <4>3. Count(Append(Append(inbox, l), m), ToolMsgs) =
              Count(Append(inbox, l), ToolMsgs) + tool
        BY <4>1, <2>1, <1>a
      <4> QED BY <4>2, <4>3, <3>2
    <3> QED BY <2>3, <3>1, <3>2
  <2>8. tool \in {0, 1} /\ usage \in {0, 1} OBVIOUS
  <2> HIDE DEF tool, usage
  <2>9. /\ g = granted /\ c = Calling /\ n = server /\ (mt = metered \/ mt = metered + usage)
        /\ se = sent /\ ti = it + tool
        /\ ts = st2 /\ us = su2
    BY <1>k, <2>1, <2>2, <2>5, <2>7
  <2> HIDE DEF it, st, su, it2, st2, su2
  <2> QED BY <2>6, <2>8, <2>9
<1>4. CASE PumpResponse \/ PumpEvent \/ PumpTool \/ PumpRead \/ PumpRaises
  <2>1. /\ n = server /\ se = sent /\ mt = metered /\ g = granted
        /\ ts = st /\ us = su
    BY <1>4, <1>k, PumpShape
  <2>2. c \in {0, 1} BY <1>n, <1>k
  <2>3. \/ c = Calling
        \/ /\ Calling = 0 /\ inbox # <<>> /\ inbox' = Tail(inbox)
           /\ Head(inbox).kind \in Tools
    BY <1>4, <1>k, PumpShape DEF Calling
  <2>4. CASE inbox' = inbox /\ c = Calling
    <3>1. ti = it BY <1>k, <2>4
    <3> HIDE DEF it, st, su, it2, st2, su2
    <3> QED BY <2>1, <2>4, <3>1
  <2>5. CASE inbox # <<>> /\ inbox' = Tail(inbox)
    <3> DEFINE tool == IF Head(inbox).kind \in Tools THEN 1 ELSE 0
    <3>1. it = it2 + tool /\ it2 \in Nat BY <2>5, <1>b, <1>t
    <3>2. ti = it2 BY <1>k, <2>5
    <3>3. tool \in {0, 1} /\ (c = Calling \/ (Calling = 0 /\ tool = 1)) BY <2>3
    <3> HIDE DEF tool, it, st, su, it2, st2, su2
    <3> QED BY <2>1, <2>2, <3>1, <3>2, <3>3
  <2> QED BY <1>4, <2>3, <2>4, <2>5, PumpShape
<1>5. CASE Acting
  <2>1. UNCHANGED <<stream, inbox, server, sent, metered>> BY <1>5 DEF Acting
  <2>2. act.step \in {"authorize", "apply", "confirm"} =>
          \/ granted' = granted
          \/ granted' = granted + 1 /\ act' = NoAct
    BY <1>5 DEF Acting, AuthorizePatch, ApplyPatch, ConfirmPatch, IndexCommit, AddCommit,
       StagedCommit, WriteCommit, CheckCommit, MoveCommit, ConfirmCommit, StatusCommit, Answer
  <2>3. act.step \notin {"authorize", "apply", "confirm"} =>
          granted' = granted /\ act'.step \notin {"authorize", "apply", "confirm"}
    <3>1. \A s : [act EXCEPT !.step = s].step = s
      BY DEF TypeInv, TreesType, Call
    <3> QED BY <1>5, <3>1, CallFacts DEF Acting, AuthorizePatch, ApplyPatch, ConfirmPatch,
       IndexCommit, AddCommit, StagedCommit, WriteCommit, CheckCommit, MoveCommit, ConfirmCommit, StatusCommit,
       Answer, Step
  <2>4. \/ g = granted /\ c <= Calling
        \/ g = granted + 1 /\ c = 0 /\ Calling = 1
    <3>1. CASE act.step \in {"authorize", "apply", "confirm"}
      <4>1. Calling = 1 BY <3>1 DEF Calling
      <4>2. act' = NoAct => c = 0 BY <1>k, CallFacts DEF Calling
      <4>3. g = granted \/ (g = granted + 1 /\ c = 0) BY <2>2, <3>1, <4>2, <1>k
      <4>4. c \in {0, 1} BY <1>n, <1>k
      <4> QED BY <4>1, <4>3, <4>4
    <3>2. CASE act.step \notin {"authorize", "apply", "confirm"}
      <4>1. g = granted /\ c = 0 BY <2>3, <3>2, <1>k DEF Calling
      <4> QED BY <4>1
    <3> QED BY <3>1, <3>2
  <2>5. /\ n = server /\ mt = metered /\ se = sent
        /\ ti = it /\ ts = st
        /\ us = su
    BY <1>k, <2>1
  <2> HIDE DEF it, st, su, it2, st2, su2
  <2> QED BY <2>4, <2>5
<1>6. CASE UNCHANGED <<stream, inbox, server, sent, metered, granted, act>>
  <2>1. Calling' = Calling BY <1>6 DEF Calling
  <2>2. /\ g = granted /\ c = Calling /\ n = server /\ mt = metered /\ se = sent
        /\ ti = it /\ ts = st
        /\ us = su
    BY <1>k, <1>6, <2>1
  <2> HIDE DEF it, st, su, it2, st2, su2
  <2> QED BY <2>2
<1> QED BY <1>1, <1>2, <1>3, <1>4, <1>5, <1>6 DEF Next, Act, StartTurn, Collect, Receipt,
       Stop, Interrupt, OwnerEdits, OwnerReverts, OwnerStages

-----------------------------------------------------------------------------
(* The metering of the usage.                                              *)

\* A lost report keeps its place ahead of the end of the turn.
LEMMA LostAppend ==
  ASSUME inbox \in Seq(Message), NEW m \in Message, LostAhead, UNCHANGED events,
         inbox' = Append(inbox, m)
  PROVE  LostAhead'
<1>1. /\ Len(inbox) \in Nat /\ Len(inbox') = Len(inbox) + 1
      /\ \A i \in 1..Len(inbox) : inbox'[i] = inbox[i]
  BY LenProperties
<1>2. PICK i \in 1..Len(inbox) : /\ inbox[i].kind = "usage lost"
                                 /\ \A j \in 1..i : inbox[j].kind # "done"
  BY DEF LostAhead
<1>3. i \in 1..Len(inbox') /\ \A j \in 1..i : j \in 1..Len(inbox) BY <1>1
<1>4. inbox'[i].kind = "usage lost" /\ \A j \in 1..i : inbox'[j].kind # "done"
  BY <1>1, <1>2, <1>3
<1> QED BY <1>3, <1>4 DEF LostAhead

LEMMA AppendTwo ==
  ASSUME NEW s \in Seq(Message), NEW l \in Message, NEW m \in Message
  PROVE  \E n \in 1..Len(Append(Append(s, l), m)) :
           /\ Append(Append(s, l), m)[n] = l
           /\ \A j \in 1..n :
                j = n \/ (j \in 1..Len(s) /\ Append(Append(s, l), m)[j] = s[j])
<1> DEFINE t == Append(Append(s, l), m)
<1>1. /\ Append(s, l) \in Seq(Message) /\ Len(Append(s, l)) = Len(s) + 1
      /\ Append(s, l)[Len(s) + 1] = l
      /\ \A j \in 1..Len(s) : Append(s, l)[j] = s[j]
  OBVIOUS
<1>2. Len(s) \in Nat /\ Len(t) = Len(s) + 2 BY <1>1
<1>3. t[Len(s) + 1] = l /\ \A j \in 1..Len(s) : t[j] = s[j] BY <1>1, <1>2
<1> QED BY <1>2, <1>3

LEMMA LostAnnounced ==
  ASSUME inbox \in Seq(Message), NEW l \in Message, NEW m \in Message, ~DonePumped,
         l.kind = "usage lost", UNCHANGED events, inbox' = Append(Append(inbox, l), m)
  PROVE  LostAhead'
<1>1. PICK n \in 1..Len(inbox') :
        /\ inbox'[n] = l
        /\ \A j \in 1..n : j = n \/ (j \in 1..Len(inbox) /\ inbox'[j] = inbox[j])
  <2>1. \E n \in 1..Len(Append(Append(inbox, l), m)) :
          /\ Append(Append(inbox, l), m)[n] = l
          /\ \A j \in 1..n :
               j = n \/ (j \in 1..Len(inbox) /\ Append(Append(inbox, l), m)[j] = inbox[j])
    BY AppendTwo
  <2> QED BY <2>1
<1>2. \A j \in 1..n : inbox'[j].kind # "done" BY <1>1 DEF DonePumped
<1>3. events' = {} BY DEF DonePumped
<1> QED BY <1>1, <1>2, <1>3 DEF LostAhead

LEMMA TailPlaces ==
  ASSUME NEW s \in Seq(Message), s # <<>>, NEW i \in 1..Len(s), i # 1
  PROVE  /\ 1 \in 1..i
         /\ \E k \in 1..Len(Tail(s)) :
              Tail(s)[k] = s[i] /\ \A j \in 1..k : \E h \in 1..i : Tail(s)[j] = s[h]
<1>1. /\ Len(s) \in Nat /\ Len(Tail(s)) = Len(s) - 1
      /\ \A j \in 1..Len(Tail(s)) : Tail(s)[j] = s[j + 1]
  BY HeadFacts
<1>2. i - 1 \in 1..Len(Tail(s)) /\ Tail(s)[i - 1] = s[i]
  <2>1. i - 1 \in 1..Len(Tail(s)) /\ (i - 1) + 1 = i BY <1>1
  <2> QED BY <1>1, <2>1
<1>3. \A j \in 1..i - 1 : j \in 1..Len(Tail(s)) /\ j + 1 \in 1..i BY <1>1
<1>4. 1 \in 1..i BY <1>1
<1> QED BY <1>1, <1>2, <1>3, <1>4

LEMMA LostTail ==
  ASSUME inbox \in Seq(Message), inbox # <<>>, LostAhead, inbox' = Tail(inbox),
         inbox[1].kind # "usage lost",
         inbox[1].kind # "done" => UNCHANGED events
  PROVE  LostAhead'
<1>2. PICK i \in 1..Len(inbox) : /\ inbox[i].kind = "usage lost"
                                 /\ \A j \in 1..i : inbox[j].kind # "done"
  BY DEF LostAhead
<1>3. i # 1 BY <1>2
<1>4. PICK k \in 1..Len(inbox') :
        inbox'[k] = inbox[i] /\ \A j \in 1..k : \E h \in 1..i : inbox'[j] = inbox[h]
  <2>1. \E k \in 1..Len(Tail(inbox)) :
          /\ Tail(inbox)[k] = inbox[i]
          /\ \A j \in 1..k : \E h \in 1..i : Tail(inbox)[j] = inbox[h]
    BY <1>3, TailPlaces
  <2> QED BY <2>1
<1>5. events' = {}
  <2>1. 1 \in 1..i BY <1>3, TailPlaces
  <2> QED BY <2>1, <1>2 DEF LostAhead
<1> QED BY <1>2, <1>4, <1>5 DEF LostAhead

LEMMA MeterNext ==
  ASSUME TypeInv, TurnInv, OrderInv, MeterInv, Next
  PROVE  MeterInv'
<1>0. stream \in Seq(Message) /\ inbox \in Seq(Message) /\ metered \in Nat /\ sent \in Nat
  BY DEF TypeInv, QueuesType, NumbersType
<1> DEFINE st == Count(stream, UsageMsg)
           st2 == Count(Tail(stream), UsageMsg)
           Counted == turn \in {NoTurn, 1} /\ failures = 0 /\ pc # "failed"
<1>c. st \in Nat BY <1>0, CountFinite
<1>m. Counted => metered + st = sent \/ LostAhead BY DEF MeterInv
<1>1. CASE ServerCalls
  <2>1. PICK kind \in Tools \cup {"read", "usage"}, t \in Turns :
          /\ stream' = Append(stream, Msg(kind, t))
          /\ sent' = IF kind = "usage" /\ t = 1 THEN sent + 1 ELSE sent
    BY <1>1 DEF ServerCalls, Write
  <2> DEFINE usage == IF kind = "usage" /\ t = 1 THEN 1 ELSE 0
  <2>2. Msg(kind, t) \in Message /\ (Msg(kind, t) \in UsageMsg <=> usage = 1)
    BY DEF Msg, Message, Kinds, UsageMsg
  <2>3. Count(stream', UsageMsg) = st + usage BY <2>1, <2>2, <1>0, <1>c, CountAppend
  <2>4. UNCHANGED <<turn, failures, pc, inbox, events, metered>> /\ sent' = sent + usage
    BY <1>1, <2>1, <1>0 DEF ServerCalls
  <2>5. Counted' => Counted BY <2>4
  <2>6. LostAhead => LostAhead' BY <2>4 DEF LostAhead
  <2>7. usage \in {0, 1} OBVIOUS
  <2>8. metered + st = sent => metered + (st + usage) = sent + usage
    <3> HIDE DEF st, usage
    <3> QED BY <2>7, <1>0, <1>c
  <2>9. metered + st = sent => metered' + Count(stream', UsageMsg) = sent'
    <3> HIDE DEF st, usage
    <3> QED BY <2>3, <2>4, <2>8
  <2> QED BY <1>m, <2>5, <2>6, <2>9 DEF MeterInv
<1>2. CASE ServerAnswers \/ ServerEnds
  <2>1. PICK m \in Message : stream' = Append(stream, m) /\ m \notin UsageMsg
    <3>1. \A k \in {"response", "done"} : Msg(k, 1) \in Message /\ Msg(k, 1) \notin UsageMsg
      BY DEF Msg, Message, Kinds, UsageMsg
    <3> QED BY <1>2, <3>1 DEF ServerAnswers, ServerEnds, Write
  <2>2. Count(stream', UsageMsg) = st BY <2>1, <1>0, CountAppend
  <2>3. UNCHANGED <<turn, failures, pc, inbox, events, metered, sent>>
    BY <1>2 DEF ServerAnswers, ServerEnds
  <2>4. LostAhead => LostAhead' BY <2>3 DEF LostAhead
  <2> QED BY <1>m, <2>2, <2>3, <2>4 DEF MeterInv
<1>3. CASE Read
  <2> DEFINE m == Head(stream)
             l == Msg("usage lost", m.turn)
  <2>1. stream # <<>> /\ m \in Message /\ stream' = Tail(stream) BY <1>3, ReadShape DEF TypeInv
  <2>2. UNCHANGED <<turn, failures, pc, events, sent>> /\ consumed
    BY <1>3, <2>1 DEF Read, TurnInv
  <2>3. st2 \in Nat /\ st = IF m \in UsageMsg THEN st2 + 1 ELSE st2
    BY <2>1, <1>0, CountTail, CountFinite
  <2>4. Count(stream', UsageMsg) = st2 BY <2>1
  <2>5. SUFFICES ASSUME Counted
                 PROVE  metered' + Count(stream', UsageMsg) = sent' \/ LostAhead'
    BY <2>2 DEF MeterInv
  <2>6. CASE inbox' = Append(inbox, m) /\ UNCHANGED metered /\ m \notin UsageMsg
    <3>1. LostAhead => LostAhead' BY <2>1, <2>2, <2>6, <1>0, LostAppend
    <3>2. st = st2 BY <2>3, <2>6
    <3> QED BY <1>m, <2>2, <2>4, <2>5, <2>6, <3>1, <3>2
  <2>7. CASE inbox' = Append(inbox, m) /\ metered' = metered + 1 /\ m \in UsageMsg
    <3>1. LostAhead => LostAhead' BY <2>1, <2>2, <2>7, <1>0, LostAppend
    <3>2. st = st2 + 1 BY <2>3, <2>7
    <3>3. metered + st = sent => metered + 1 + st2 = sent
      <4> HIDE DEF st, st2
      <4> QED BY <2>3, <3>2, <1>0, <1>c
    <3>4. metered + st = sent => metered' + Count(stream', UsageMsg) = sent'
      <4> HIDE DEF st, st2
      <4> QED BY <2>2, <2>4, <2>7, <3>3
    <3> QED BY <1>m, <2>5, <3>1, <3>4
  <2>8. CASE l \in Message /\ m.kind = "usage" /\ inbox' = Append(Append(inbox, l), m)
    <3>1. ~DonePumped
      <4>1. Len(stream) \in Nat /\ Len(stream) >= 1 /\ m = stream[1] BY <2>1, <1>0, HeadFacts
      <4>2. 1 \in 1..Len(stream) BY <4>1
      <4> QED BY <4>1, <4>2, <2>8 DEF OrderInv
    <3>2. l.kind = "usage lost" BY DEF Msg
    <3> HIDE DEF m, l
    <3> QED BY <2>1, <2>2, <2>8, <3>1, <3>2, <1>0, LostAnnounced
  <2>9. \/ inbox' = Append(inbox, m) /\ UNCHANGED metered /\ m \notin UsageMsg
        \/ inbox' = Append(inbox, m) /\ metered' = metered + 1 /\ m \in UsageMsg
        \/ l \in Message /\ m.kind = "usage" /\ inbox' = Append(Append(inbox, l), m)
    BY <1>3, <2>2, <2>5, ReadShape DEF TypeInv
  <2> HIDE DEF m, l
  <2> QED BY <2>6, <2>7, <2>8, <2>9
<1>4. CASE PumpRaises
  <2>1. ~Counted' BY <1>4 DEF PumpRaises, Raises
  <2> QED BY <2>1 DEF MeterInv
<1>5. CASE PumpResponse \/ PumpEvent \/ PumpTool \/ PumpRead
  <2>1. /\ UNCHANGED <<stream, sent, metered>> /\ inbox # <<>> /\ inbox' = Tail(inbox)
        /\ inbox[1].kind # "usage lost"
        /\ inbox[1].kind # "done" => UNCHANGED events
    <3>1. inbox # <<>> /\ Head(inbox).kind # "usage lost" /\ inbox' = Tail(inbox)
          /\ (Head(inbox).kind # "done" => UNCHANGED events)
      <4>1. CASE PumpResponse BY <4>1 DEF PumpResponse, Pumping, Rest
      <4>2. CASE PumpEvent BY <4>2 DEF PumpEvent, Pumping, Rest
      <4>3. CASE PumpTool BY <4>3 DEF PumpTool, Pumping, Rest, Tools
      <4>4. CASE PumpRead BY <4>4 DEF PumpRead, Pumping, Rest
      <4> QED BY <1>5, <4>1, <4>2, <4>3, <4>4
    <3> QED BY <1>5, <3>1, PumpShape, HeadFacts, <1>0
  <2>2. Counted' => Counted
    <3>1. pc # "failed" /\ failures' = failures
      BY <1>5 DEF PumpResponse, PumpEvent, PumpTool, PumpRead, Pumping
    <3>2. \/ turn' = turn
          \/ turn = NoTurn
          \/ turn \in {NoTurn, Head(inbox).turn} /\ turn' = Head(inbox).turn
          \/ pc' = "failed"
      <4>1. CASE PumpResponse BY <4>1 DEF PumpResponse, Matches
      <4>2. CASE PumpEvent BY <4>2 DEF PumpEvent
      <4>3. CASE PumpTool BY <4>3 DEF PumpTool, Bound
      <4>4. CASE PumpRead BY <4>4 DEF PumpRead, Bound
      <4> QED BY <1>5, <4>1, <4>2, <4>3, <4>4
    <3> QED BY <3>1, <3>2
  <2>3. LostAhead => LostAhead' BY <2>1, <1>0, LostTail
  <2> QED BY <1>m, <2>1, <2>2, <2>3 DEF MeterInv
<1>6. CASE UNCHANGED <<turn, failures, stream, sent, metered, inbox, events>>
           /\ pc # "failed"
  <2>1. LostAhead => LostAhead' BY <1>6 DEF LostAhead
  <2> QED BY <1>m, <1>6, <2>1 DEF MeterInv
<1>7. CASE UNCHANGED <<turn, failures, stream, sent, metered, inbox, events, pc>>
  <2>1. LostAhead => LostAhead' BY <1>7 DEF LostAhead
  <2> QED BY <1>m, <1>7, <2>1 DEF MeterInv
<1> QED BY <1>1, <1>2, <1>3, <1>4, <1>5, <1>6, <1>7 DEF Next, Act, StartTurn, Collect, Receipt,
       Acting, Stop, Interrupt, OwnerEdits, OwnerReverts, OwnerStages

-----------------------------------------------------------------------------
(* The theorems.                                                           *)

LEMMA Unchanged == HostInv /\ UNCHANGED vars => HostInv'
<1> SUFFICES ASSUME HostInv, UNCHANGED vars PROVE HostInv' OBVIOUS
<1> USE DEF vars, HostInv
<1>1. TypeInv' BY DEF TypeInv, FlagsType, QueuesType, NumbersType, TurnType, TreesType
<1>2. CountInv' /\ TurnInv' BY DEF CountInv, Calling, TurnInv
<1>3. OrderInv' BY DEF OrderInv, DonePumped
<1>4. MeterInv'
  <2>1. LostAhead' <=> LostAhead BY DEF LostAhead
  <2>2. Count(stream', UsageMsg) = Count(stream, UsageMsg) /\ metered' = metered /\ sent' = sent
    OBVIOUS
  <2>3. turn' = turn /\ failures' = failures /\ pc' = pc OBVIOUS
  <2> QED BY <2>1, <2>2, <2>3 DEF MeterInv
<1>5. ActInv' /\ StopInv' /\ LateInv' BY DEF ActInv, StopInv, LateInv, Kept, Before, Scoped
<1>6. ShownInv' BY DEF ShownInv, ReviewedAsFrozen
<1> QED BY <1>1, <1>2, <1>3, <1>4, <1>5, <1>6

\* The messages, the tool call and the worktree agree in every reachable state.
THEOREM HostInvariance == Spec => []HostInv
<1>1. HostInv /\ Next => HostInv'
  <2> SUFFICES ASSUME HostInv, Next PROVE HostInv' OBVIOUS
  <2>1. TypeInv'
    BY FlagsNext, QueuesNext, NumbersNext, TurnNext, TreesNext DEF HostInv, TypeInv
  <2> QED BY <2>1, TurnNext, ActNext, ShownNext, OrderNext, CountNext, MeterNext DEF HostInv
<1>2. HostInv /\ [Next]_vars => HostInv' BY <1>1, Unchanged
<1> QED BY HostInit, <1>2, PTL DEF Spec

\* Every variable of the host, the server and the worktree keeps its type: the
\* counts of patches and of usage reports never exceed what the server sent.
THEOREM HostTypeOK == Spec => []TypeOK
<1>1. HostInv => TypeOK
  <2> SUFFICES ASSUME HostInv PROVE TypeOK OBVIOUS
  <2>0. FlagsType /\ QueuesType /\ NumbersType /\ TurnType /\ TreesType /\ CountInv
    BY DEF HostInv, TypeInv
  <2>1. stream \in Seq(Message) /\ inbox \in Seq(Message) BY <2>0 DEF QueuesType
  <2> DEFINE it == Count(inbox, ToolMsgs)
             st == Count(stream, ToolMsgs)
             su == Count(stream, UsageMsg)
  <2>2. it \in Nat /\ st \in Nat /\ su \in Nat BY <2>1, CountFinite
  <2>3. metered \in 0..sent /\ sent \in 0..server /\ granted \in 0..server
    <3>1. granted + Calling + it + st <= server /\ metered + su <= sent /\ Calling \in {0, 1}
      BY <2>0 DEF CountInv, Calling
    <3> HIDE DEF it, st, su
    <3> QED BY <2>0, <2>2, <3>1 DEF NumbersType
  <2>4. /\ {writes, live, interrupted, open, consumed, answered, ended} \subseteq BOOLEAN
        /\ {undone, raced, late} \subseteq BOOLEAN
    BY <2>0 DEF FlagsType
  <2>5. /\ {work, head, index, sealed, stop.head, stop.sealed} \subseteq Tree
        /\ stop.patches \in Nat /\ shown \subseteq Tree
    BY <2>0 DEF TreesType
  <2>6. act \in [kind: Tools \cup {"none"}, step: Steps, old: Tree, new: Tree]
    BY <2>0 DEF TreesType, Call
  <2>7. /\ turn \in Turns \cup {NoTurn} /\ acted \subseteq Turns /\ events \subseteq Turns
        /\ pc \in {"idle", "starting", "started", "waiting", "collected", "refused", "failed"}
    BY <2>0 DEF TurnType
  <2>8. server \in 0..MaxMessages /\ failures \in {0, 1} BY <2>0 DEF NumbersType
  <2> QED BY <2>1, <2>3, <2>4, <2>5, <2>6, <2>7, <2>8 DEF TypeOK
<1> QED BY HostInvariance, <1>1, PTL

\* _handle_dynamic_tool, _rollback_patch, _read_loop: what the worker was
\* answered is what the worktree and HEAD hold, and what a collected receipt
\* reports is one turn, wholly metered at the first collection.
THEOREM AnsweredIsDoneAlways == Spec => []AnsweredIsDone
<1>1. HostInv => AnsweredIsDone
  <2> SUFFICES ASSUME HostInv PROVE AnsweredIsDone OBVIOUS
  <2>1. act = NoAct =>
          /\ head = sealed /\ Scoped(index) = Scoped(head)
          /\ work.patches = granted \/ (work.patches > granted /\ raced)
    BY CallFacts DEF HostInv, ActInv, Kept
  <2>3. sealed.other => late BY DEF HostInv, LateInv
  <2>2. ASSUME pc = "collected"
        PROVE  acted \subseteq {1} /\ (failures = 0 => metered >= sent)
    <3>1. turn \in events /\ events \subseteq {1} /\ acted \subseteq {turn}
      BY <2>2 DEF HostInv, TypeInv, TurnInv, TurnType
    <3>2. turn = 1 /\ events # {} BY <3>1
    <3>3. Count(stream, UsageMsg) = 0
      <4>1. \A i \in 1..Len(stream) : stream[i] \notin UsageMsg
        BY <3>2 DEF HostInv, OrderInv, DonePumped, UsageMsg, Msg
      <4> QED BY <4>1, CountNone DEF HostInv, TypeInv, QueuesType
    <3>4. ~LostAhead BY <3>2 DEF LostAhead
    <3>5. failures = 0 => metered + 0 = sent
      BY <2>2, <3>2, <3>3, <3>4 DEF HostInv, MeterInv
    <3>6. metered \in Nat /\ sent \in Nat BY DEF HostInv, TypeInv, NumbersType
    <3> QED BY <3>1, <3>2, <3>5, <3>6
  <2> QED BY <2>1, <2>2, <2>3 DEF AnsweredIsDone
<1> QED BY HostInvariance, <1>1, PTL

\* _require_live_action, _rollback_patch: an action the authority did not
\* confirm before it ended leaves nothing behind.
THEOREM NothingAfterStopAlways == Spec => []NothingAfterStop
<1>1. HostInv => NothingAfterStop
  BY CallFacts DEF HostInv, StopInv, Before, NothingAfterStop
<1> QED BY HostInvariance, <1>1, PTL

\* _require_review_candidate: what a reviewer was shown is the candidate its
\* receipt is about, unless an edit was undone after the reviewer was shown it.
THEOREM ReviewedAsFrozenAlways == Spec => []ReviewedAsFrozen
<1>1. HostInv => ReviewedAsFrozen BY DEF HostInv, ShownInv
<1> QED BY HostInvariance, <1>1, PTL
===============================================================================
