------------------------ MODULE DocumentFlowProofs ------------------------
(***************************************************************************)
(* The window and its commands implement the native sessions: every step   *)
(* of DocumentFlow is a step of DocumentSessions or leaves its variables   *)
(* alone.  So what is proved of every client of the sessions holds of this *)
(* one, for any number of commands that overlap in any way.                *)
(*                                                                         *)
(* DocumentSessions lets a client send only what a client can have: bytes  *)
(* that were composed, a fingerprint of bytes that were read, a path.  The *)
(* invariant below says that a task never holds anything else when it      *)
(* makes a call.                                                           *)
(*                                                                         *)
(* The second part proves FlowSound.  Neither of its halves is inductive:  *)
(* that the window's session is open depends on who else might close it,   *)
(* and that no dirty document is left behind on who is still to close it.  *)
(* SoundInv therefore says to whom each open document belongs.             *)
(*                                                                         *)
(* The last two parts are about commands that are kept apart.  Saves may   *)
(* overlap each other and a new document and still save their own content  *)
(* (OverlapInv); and where no commands overlap and nobody types while one  *)
(* runs, nothing unsaved is lost or unknown and all agree (SerialInv).     *)
(***************************************************************************)
EXTENDS DocumentFlow, DocumentSessionsProofs, FiniteSetTheorems

\* The awaits of a save, on its own or on behalf of another command
SaveAwaits == {"choose", "check", "ask", "export", "commit", "native", "reply", "notify"}

\* The fingerprints of bytes composed up to c
PrintsOf(c) == {NoPrint} \cup [meta : 1 .. c, hash : 1 .. c]

\* What a task holds whatever it does
Carries(o, c) ==
  /\ o \in Task
  /\ o.print \in PrintsOf(c)
  /\ o.bytes \in 0 .. c
  /\ o.goal = "open" => o.path \in Paths

\* ... and what it needs where it is, while the editor shows b
TaskOK(o, c, b) ==
  /\ Carries(o, c)
  /\ o.goal = "open" /\ o.at \notin {"idle", "abort", "read", "drop"} => o.bytes # 0
  /\ o.at \in {"read", "track", "guard", "load"} => o.goal = "open"
  /\ o.at \in {"abort", "confirm"} => o.goal # "save"
  /\ o.at \in {"check", "ask", "export", "commit"} => o.save.path \in Paths
  /\ o.at \in SaveAwaits \cup {"commitOpen"} => b # 0
  /\ o.at = "commit" => o.out \in 1 .. c

WindowOK ==
  /\ sess \in WindowSession
  /\ pending \in Docs \cup {NoDoc}
  /\ shows \in Docs \cup {NoDoc}
  /\ body \in 0 .. clock
  /\ sess # NoSession => body # 0

\* The inductive invariant of the window on top of the one of the sessions
FlowInv ==
  /\ IInv
  /\ WindowOK
  /\ op \in [Tasks -> Task]
  /\ \A t \in Tasks : TaskOK(op[t], clock, body)

-----------------------------------------------------------------------------
(* Every step is a step of the sessions                                    *)

LEMMA CallsImplement ==
  ASSUME FlowInv, NEW t \in Tasks,
         \/ CommitCall(t)
         \/ \E d \in Docs : Track(t, d)
  PROVE  [Next]_vars
<1>1. TaskOK(op[t], clock, body)
  BY DEF FlowInv
<1>2. ASSUME CommitCall(t) PROVE [Next]_vars
  <2>1. CASE UNCHANGED vars
    BY <2>1
  <2>2. CASE CommitCheck(RequestOf(op[t]), RequestOf(op[t]).fmt)
    <3> DEFINE o == op[t]
               r == RequestOf(o)
    <3>1. o.at = "commit"
      BY <1>2 DEF CommitCall, Served
    <3>2. o.save.path \in Paths /\ o.out \in 1 .. clock
      BY <1>1, <3>1 DEF TaskOK
    <3>3. r = [doc |-> o.save.doc, target |-> o.save.path, body |-> o.out,
               fmt |-> FormatOf(o.save.path), exp |-> o.save.rev, allow |-> o.allow]
      BY DEF RequestOf
    <3>4. r.doc \in live /\ RevisionMatches(r.doc, r.exp)
      BY <2>2 DEF CommitCheck, CommitAllowed
    <3>5. r.exp \in 0 .. revision[r.doc]
      BY <3>4, DocumentSessionsAssumption
         DEF RevisionMatches, NoRevision, FlowInv, IInv, TypeOK, Revision
    <3>6. r.allow \in BOOLEAN /\ r.fmt \in Formats
      BY <1>1, <3>2, <3>3, EmptyValuesTyped DEF TaskOK, Carries, Task
    <3>7. Commit
      BY <2>2, <3>2, <3>3, <3>4, <3>5, <3>6 DEF Commit, ClientBody
    <3> QED
      BY <3>7 DEF Next, Command
  <2> QED
    BY <1>2, <2>1, <2>2 DEF CommitCall
<1>3. ASSUME NEW d \in Docs, Track(t, d) PROVE [Next]_vars
  <2>1. op[t].at = "track"
    BY <1>3 DEF Track, Served
  <2>2. op[t].print \in ClientPrint /\ op[t].path \in Paths
    BY <1>1, <2>1 DEF TaskOK, Carries, PrintsOf, ClientPrint
  <2> QED
    BY <1>3, <2>1, <2>2 DEF Next, Command, Open, Track
<1> QED
  BY <1>2, <1>3

LEMMA ClosesImplement ==
  ASSUME NEW d, CloseNative(d)
  PROVE  [Next]_vars
BY DEF CloseNative, Next, Command

\* Whatever the window does, the sessions see one of their own steps or nothing.
LEMMA StepImplements ==
  ASSUME FlowInv, [FlowNext]_flowVars
  PROVE  [Next]_vars
<1>1. ASSUME NEW t \in Tasks, SaveStep(t) PROVE [Next]_vars
  <2>1. CASE UNCHANGED vars
    BY <2>1
  <2>2. CASE CommitCall(t)
    BY <2>2, CallsImplement
  <2>3. CASE CommitStep
    BY <2>3 DEF Next
  <2> QED
    BY <1>1, <2>1, <2>2, <2>3
       DEF SaveStep, StartSave, ChoosePath, CheckExternal, AllowOverwrite, Export,
           CommitRename, CommitDone, CommitFailed, CommitSave, NotifySaved, CommitStep
<1>2. ASSUME NEW t \in Tasks, OpenStep(t) PROVE [Next]_vars
  <2>1. CASE UNCHANGED vars
    BY <2>1
  <2>2. CASE \E d \in Docs : Track(t, d)
    BY <2>2, CallsImplement
  <2>3. CASE CloseNative(op[t].old) \/ CloseNative(op[t].doc)
    BY <2>3, ClosesImplement
  <2> QED
    BY <1>2, <2>1, <2>2, <2>3
       DEF OpenStep, StartOpen, Read, AskGuard, Load, CommitOpen, Recorded,
           ClosePrevious, Drop
<1>3. ASSUME NEW t \in Tasks, OtherStep(t) PROVE [Next]_vars
  <2>1. CASE UNCHANGED vars
    BY <2>1
  <2>2. CASE \E d \in Docs : Create(t, d)
    BY <2>2 DEF Create, Next, Command
  <2>3. CASE CloseNative(op[t].old)
    BY <2>3, ClosesImplement
  <2> QED
    BY <1>3, <2>1, <2>2, <2>3
       DEF OtherStep, StartNew, Created, StartClose, CloseLast, Destroy, Aborted,
           Discard, SaveFirst, Fails
<1>4. CASE Blank \/ Edit
  BY <1>4 DEF Blank, Edit, Next, External
<1>5. CASE DeliverDirty
  BY <1>5 DEF DeliverDirty, Next, Command
<1>6. CASE DeliverClose
  BY <1>6, ClosesImplement DEF DeliverClose
<1>7. CASE OtherPrograms
  BY <1>7 DEF OtherPrograms, Next, External
<1>8. CASE BlankFails \/ UNCHANGED flowVars
  BY <1>8 DEF BlankFails, flowVars
<1> QED
  BY <1>1, <1>2, <1>3, <1>4, <1>5, <1>6, <1>7, <1>8 DEF FlowNext
-----------------------------------------------------------------------------
(* The window keeps its invariant                                          *)

\* The task t is now one that needs nothing it does not have.
Moved(t, c, b) == \E o : op' = [op EXCEPT ![t] = o] /\ TaskOK(o, c, b)

LEMMA NoTaskOK ==
  ASSUME NEW c \in Nat, NEW b
  PROVE  TaskOK(NoTask, c, b)
<1>1. NoTask \in Task
  BY DocumentSessionsAssumption, EmptyValuesTyped
     DEF NoTask, Task, Awaits, Goals, NoSession, WindowSession, Revision, Clock
<1>2. NoTask.print = NoPrint /\ NoTask.bytes = 0 /\ NoTask.goal = "save" /\ NoTask.at = "idle"
  BY DEF NoTask
<1> QED
  BY <1>1, <1>2 DEF TaskOK, Carries, PrintsOf, SaveAwaits

\* What a task has it keeps when more bytes come into being.
LEMMA Later ==
  ASSUME NEW c \in Nat, NEW d \in Nat, c <= d, NEW b, NEW e, b # 0 => e # 0,
         NEW o, TaskOK(o, c, b)
  PROVE  TaskOK(o, d, e)
<1>1. o.print \in PrintsOf(d)
  BY DEF TaskOK, Carries, PrintsOf
<1> QED
  BY <1>1 DEF TaskOK, Carries

\* A task goes to another await with what that await needs.
LEMMA Moves ==
  ASSUME NEW c, NEW b, NEW o, Carries(o, c), NEW a \in Awaits,
         o.goal = "open" /\ a \notin {"idle", "abort", "read", "drop"} => o.bytes # 0,
         a \in {"read", "track", "guard", "load"} => o.goal = "open",
         a \in {"abort", "confirm"} => o.goal # "save",
         a \in {"check", "ask", "export", "commit"} => o.save.path \in Paths,
         a \in SaveAwaits \cup {"commitOpen"} => b # 0,
         a = "commit" => o.out \in 1 .. c
  PROVE  TaskOK([o EXCEPT !.at = a], c, b)
<1> DEFINE m == [o EXCEPT !.at = a]
<1>1. /\ m \in Task /\ m.at = a
      /\ m.print = o.print /\ m.bytes = o.bytes /\ m.goal = o.goal /\ m.path = o.path
      /\ m.save = o.save /\ m.out = o.out
  BY DEF Carries, Task
<1>2. TaskOK(m, c, b)
  <2> HIDE DEF m
  <2> QED
    BY <1>1 DEF TaskOK, Carries
<1> QED
  BY <1>2

\* When one task moves, the others keep what they have.
LEMMA TasksNext ==
  ASSUME FlowInv, clock' \in Nat, clock <= clock', body # 0 => body' # 0,
         \/ UNCHANGED op
         \/ \E t \in Tasks : Moved(t, clock', body')
         \/ op' = [t \in Tasks |-> NoTask]
  PROVE  op' \in [Tasks -> Task] /\ \A t \in Tasks : TaskOK(op'[t], clock', body')
<1>0. clock \in Nat
  BY DocumentSessionsAssumption DEF FlowInv, IInv, TypeOK, Clock
<1>1. \A t \in Tasks : TaskOK(op[t], clock', body')
  BY <1>0, Later DEF FlowInv
<1>2. CASE UNCHANGED op
  BY <1>1, <1>2 DEF FlowInv
<1>3. ASSUME NEW t \in Tasks, Moved(t, clock', body')
      PROVE  op' \in [Tasks -> Task] /\ \A u \in Tasks : TaskOK(op'[u], clock', body')
  <2>1. PICK o : op' = [op EXCEPT ![t] = o] /\ TaskOK(o, clock', body')
    BY <1>3 DEF Moved
  <2> QED
    BY <1>1, <2>1 DEF FlowInv, TaskOK, Carries
<1>4. CASE op' = [t \in Tasks |-> NoTask]
  BY <1>4, NoTaskOK DEF TaskOK, Carries
<1> QED
  BY <1>2, <1>3, <1>4

\* What follows abortPendingNewDocument
LEMMA OnwardOK ==
  ASSUME FlowInv, NEW o, Carries(o, clock), o.goal # "save"
  PROVE  TaskOK(Onward(o), clock, body)
<1>1. CASE o.goal = "new"
  BY <1>1, Moves DEF Onward, Awaits, Calls, SaveAwaits
<1>2. CASE o.goal = "open"
  BY <1>2, Moves DEF Onward, Awaits, Calls, SaveAwaits
<1>3. CASE o.goal = "close" /\ sess = NoSession
  BY <1>3, Moves DEF Onward, Awaits, Calls, SaveAwaits
<1>4. CASE o.goal = "close" /\ sess # NoSession
  <2> DEFINE a == [o EXCEPT !.old = sess.doc]
  <2>1. Carries(a, clock) /\ a.goal = o.goal
    BY DEF FlowInv, WindowOK, WindowSession, Carries, Task
  <2>2. [o EXCEPT !.at = "closeLast", !.old = sess.doc] = [a EXCEPT !.at = "closeLast"]
    BY DEF Carries, Task
  <2>3. TaskOK([a EXCEPT !.at = "closeLast"], clock, body)
    <3> HIDE DEF a
    <3> QED
      BY <1>4, <2>1, Moves DEF Awaits, Calls, SaveAwaits
  <2> QED
    BY <1>4, <2>2, <2>3 DEF Onward
<1> QED
  BY <1>1, <1>2, <1>3, <1>4 DEF Carries, Task, Goals

\* abortPendingNewDocument
LEMMA AbortMoves ==
  ASSUME FlowInv, NEW t \in Tasks, NEW o, Carries(o, clock), o.goal # "save",
         AbortPending(t, o)
  PROVE  Moved(t, clock, body) /\ pending' = NoDoc /\ sess' \in {sess, NoSession}
<1>1. CASE pending # NoDoc
  <2> DEFINE a == [o EXCEPT !.old = pending]
  <2>1. Carries(a, clock) /\ a.goal = o.goal
    BY <1>1 DEF FlowInv, WindowOK, Carries, Task
  <2>2. [o EXCEPT !.at = "abort", !.old = pending] = [a EXCEPT !.at = "abort"]
    BY DEF Carries, Task
  <2>3. TaskOK([a EXCEPT !.at = "abort"], clock, body)
    <3> HIDE DEF a
    <3> QED
      BY <2>1, Moves DEF Awaits, Calls, SaveAwaits
  <2> QED
    BY <1>1, <2>2, <2>3 DEF AbortPending, GoTo, Moved
<1>2. CASE pending = NoDoc
  BY <1>2, OnwardOK DEF AbortPending, GoTo, Moved, SessionOnward
<1> QED
  BY <1>1, <1>2

\* confirmDocumentReplacement has answered: the command goes on.
LEMMA ProceedMoves ==
  ASSUME FlowInv, NEW t \in Tasks, NEW o, Carries(o, clock), o.goal # "save",
         o.goal = "open" => o.bytes # 0, Proceed(t, o)
  PROVE  Moved(t, clock, body) /\ pending' \in {pending, NoDoc} /\ sess' \in {sess, NoSession}
<1>1. CASE o.goal = "open"
  <2>1. TaskOK([o EXCEPT !.at = "load"], clock, body)
    BY <1>1, Moves DEF Awaits, Calls, SaveAwaits
  <2> QED
    BY <1>1, <2>1 DEF Proceed, GoTo, Moved
<1>2. CASE o.goal # "open"
  BY <1>2, AbortMoves DEF Proceed
<1> QED
  BY <1>1, <1>2

LEMMA GuardedMoves ==
  ASSUME FlowInv, NEW t \in Tasks, NEW o, Carries(o, clock), o.goal # "save",
         o.goal = "open" => o.bytes # 0, Guarded(t, o)
  PROVE  Moved(t, clock, body) /\ pending' \in {pending, NoDoc} /\ sess' \in {sess, NoSession}
<1>1. TaskOK([o EXCEPT !.at = "confirm"], clock, body)
  BY Moves DEF Awaits, Calls, SaveAwaits
<1> QED
  BY <1>1, ProceedMoves DEF Guarded, GoTo, Moved

\* saveCurrent captures a session, so the editor shows something.
LEMMA CaptureOK ==
  ASSUME FlowInv, NEW o, Carries(o, clock), o.goal = "open" => o.bytes # 0,
         NEW as \in BOOLEAN, sess # NoSession
  PROVE  TaskOK(Capture(o, as), clock, body)
<1> DEFINE a == [o EXCEPT !.save = sess, !.allow = FALSE]
           w == IF as \/ sess.path = NoPath THEN "choose" ELSE "check"
<1>1. /\ Carries(a, clock) /\ a.save = sess
      /\ a.goal = o.goal /\ a.bytes = o.bytes
  BY DEF FlowInv, WindowOK, Carries, Task
<1>2. w = "check" => sess.path \in Paths
  BY DEF FlowInv, WindowOK, WindowSession
<1>3. body # 0
  BY DEF FlowInv, WindowOK
<1>4. w \in {"choose", "check"} /\ w \in Awaits
  BY DEF Awaits, Calls
<1>5. TaskOK([a EXCEPT !.at = w], clock, body)
  <2> HIDE DEF a, w
  <2> QED
    BY <1>1, <1>2, <1>3, <1>4, Moves DEF SaveAwaits
<1>6. Capture(o, as) = [a EXCEPT !.at = w]
  BY DEF Capture, Carries, Task
<1> QED
  BY <1>5, <1>6

LEMMA GiveUpOK ==
  ASSUME FlowInv, NEW o, TaskOK(o, clock, body)
  PROVE  TaskOK(GiveUp(o), clock, body)
<1>1. clock \in Nat
  BY DocumentSessionsAssumption DEF FlowInv, IInv, TypeOK, Clock
<1>2. TaskOK([o EXCEPT !.at = "drop"], clock, body)
  <2>1. Carries(o, clock)
    BY DEF TaskOK
  <2> QED
    BY <2>1, Moves DEF Awaits, Calls, SaveAwaits
<1> QED
  BY <1>1, <1>2, NoTaskOK DEF GiveUp

\* What a step of a task has to establish: its own part of the invariant, and that of
\* the window.
Kept == /\ sess' \in {sess, NoSession} \/ (sess' \in WindowSession /\ body # 0)
        /\ pending' \in Docs \cup {NoDoc}
        /\ UNCHANGED <<shows, body>>

LEMMA SaveMoves ==
  ASSUME FlowInv, NEW t \in Tasks, SaveStep(t), IInv'
  PROVE  Kept /\ (UNCHANGED op \/ Moved(t, clock, body))
<1> DEFINE o == op[t]
<1>0. TaskOK(o, clock, body) /\ o \in Task /\ clock \in Nat
  BY DocumentSessionsAssumption DEF FlowInv, TaskOK, Carries, IInv, TypeOK, Clock
<1>w. /\ UNCHANGED <<sess, pending, shows, body>> => Kept
      /\ sess' \in {sess, NoSession} /\ pending' \in {pending, NoDoc} /\ UNCHANGED <<shows, body>>
           => Kept
  BY DEF FlowInv, WindowOK, Kept
<1>1. ASSUME NEW as \in BOOLEAN, StartSave(t, as)
      PROVE  Kept /\ Moved(t, clock, body)
  <2>1. TaskOK(Capture(NoTask, as), clock, body)
    BY <1>0, <1>1, CaptureOK, NoTaskOK DEF StartSave, TaskOK, NoTask
  <2> QED
    BY <1>1, <1>w, <2>1 DEF StartSave, GoTo, Moved, editorVars
<1>2. ASSUME NEW p \in Paths, ChoosePath(t, p)
      PROVE  Kept /\ Moved(t, clock, body)
  <2> DEFINE a == [o EXCEPT !.save.path = p]
  <2>1. Carries(a, clock) /\ a.save.path = p /\ a.goal = o.goal /\ a.bytes = o.bytes
    BY <1>0 DEF TaskOK, Carries, Task, WindowSession
  <2>2. TaskOK([a EXCEPT !.at = "check"], clock, body)
    <3>1. (o.goal = "open" => o.bytes # 0) /\ body # 0
      BY <1>0, <1>2 DEF ChoosePath, TaskOK, SaveAwaits
    <3> HIDE DEF a
    <3> QED
      BY <2>1, <3>1, Moves DEF Awaits, Calls
  <2>3. [o EXCEPT !.save.path = p, !.at = "check"] = [a EXCEPT !.at = "check"]
    BY <1>0 DEF Task
  <2> QED
    BY <1>2, <1>w, <2>2, <2>3 DEF ChoosePath, GoTo, Moved, editorVars
<1>3. CASE CheckExternal(t)
  <2>1. TaskOK([o EXCEPT !.at = "ask"], clock, body) /\ TaskOK([o EXCEPT !.at = "export"], clock, body)
    <3>1. /\ Carries(o, clock) /\ o.save.path \in Paths /\ body # 0
          /\ o.goal = "open" => o.bytes # 0
      BY <1>0, <1>3 DEF CheckExternal, Served, TaskOK, SaveAwaits
    <3> QED
      BY <3>1, Moves DEF Awaits, Calls
  <2> QED
    BY <1>0, <1>3, <1>w, <2>1, GiveUpOK DEF CheckExternal, Answered, Moved, editorVars
<1>4. CASE AllowOverwrite(t)
  <2> DEFINE a == [o EXCEPT !.allow = TRUE]
  <2>1. Carries(a, clock) /\ a.save = o.save /\ a.goal = o.goal /\ a.bytes = o.bytes
    BY <1>0 DEF TaskOK, Carries, Task
  <2>2. TaskOK([a EXCEPT !.at = "export"], clock, body)
    <3>1. (o.goal = "open" => o.bytes # 0) /\ body # 0 /\ o.save.path \in Paths
      BY <1>0, <1>4 DEF AllowOverwrite, TaskOK, SaveAwaits
    <3> HIDE DEF a
    <3> QED
      BY <2>1, <3>1, Moves DEF Awaits, Calls
  <2>3. [o EXCEPT !.allow = TRUE, !.at = "export"] = [a EXCEPT !.at = "export"]
    BY <1>0 DEF Task
  <2> QED
    BY <1>4, <1>w, <2>2, <2>3 DEF AllowOverwrite, GoTo, Moved, editorVars
<1>5. CASE Export(t)
  <2> DEFINE a == [o EXCEPT !.out = body, !.owner = shows]
  <2>0. body \in 1 .. clock /\ (o.goal = "open" => o.bytes # 0) /\ o.save.path \in Paths
    BY <1>0, <1>5 DEF Export, TaskOK, SaveAwaits, FlowInv, WindowOK
  <2>1. Carries(a, clock) /\ a.save = o.save /\ a.goal = o.goal /\ a.bytes = o.bytes /\ a.out = body
    <3>1. body \in Clock /\ shows \in Docs \cup {NoDoc}
      BY <2>0, DocumentSessionsAssumption DEF FlowInv, WindowOK, IInv, TypeOK, Clock
    <3> QED
      BY <1>0, <3>1 DEF TaskOK, Carries, Task
  <2>2. TaskOK([a EXCEPT !.at = "commit"], clock, body)
    <3>1. a.save.path \in Paths /\ a.out \in 1 .. clock /\ body # 0
      BY <2>0, <2>1
    <3> HIDE DEF a
    <3> QED
      BY <2>0, <2>1, <3>1, Moves DEF Awaits, Calls
  <2>3. [o EXCEPT !.out = body, !.owner = shows, !.at = "commit"] = [a EXCEPT !.at = "commit"]
    BY <1>0 DEF Task
  <2> QED
    BY <1>5, <1>w, <2>2, <2>3 DEF Export, GoTo, Moved, editorVars
<1>6. CASE CommitCall(t)
  <2>1. TaskOK([o EXCEPT !.at = "native"], clock, body)
    BY <1>0, <1>6, Moves DEF CommitCall, Served, TaskOK, Awaits, Calls, SaveAwaits
  <2> QED
    BY <1>0, <1>6, <1>w, <2>1, GiveUpOK DEF CommitCall, Answered, Moved, editorVars
<1>7. CASE CommitRename(t)
  BY <1>7, <1>w DEF CommitRename, editorVars
<1>8. CASE CommitDone(t)
  <2> DEFINE a == [o EXCEPT !.save.rev = revision'[req.doc]]
  <2>0. revision'[req.doc] \in Revision
    BY <1>8 DEF CommitDone, CommitRefresh, FlowInv, IInv, TypeOK
  <2>1. Carries(a, clock) /\ a.goal = o.goal /\ a.bytes = o.bytes
    BY <1>0, <2>0 DEF TaskOK, Carries, Task, WindowSession
  <2>2. TaskOK([a EXCEPT !.at = "reply"], clock, body)
    <3>1. (o.goal = "open" => o.bytes # 0) /\ body # 0
      BY <1>0, <1>8 DEF CommitDone, TaskOK, SaveAwaits
    <3> HIDE DEF a
    <3> QED
      BY <2>1, <3>1, Moves DEF Awaits, Calls
  <2>3. [o EXCEPT !.at = "reply", !.save.rev = revision'[req.doc]] = [a EXCEPT !.at = "reply"]
    BY <1>0 DEF Task
  <2> QED
    BY <1>8, <1>w, <2>2, <2>3 DEF CommitDone, GoTo, Moved, editorVars
<1>9. CASE CommitFailed(t)
  BY <1>0, <1>9, <1>w, GiveUpOK DEF CommitFailed, GoTo, Moved, editorVars
<1>10. CASE CommitSave(t)
  <2>1. TaskOK([o EXCEPT !.at = "notify"], clock, body)
    BY <1>0, <1>10, Moves DEF CommitSave, TaskOK, Awaits, SaveAwaits
  <2>2. SessionOf(o.save.doc, o.save.path, o.save.rev) \in WindowSession /\ body # 0
    BY <1>0, <1>10 DEF CommitSave, SessionOf, WindowSession, TaskOK, SaveAwaits, Carries, Task
  <2>3. Kept
    BY <1>10, <2>2 DEF CommitSave, Kept, FlowInv, WindowOK, editorVars
  <2> QED
    BY <1>0, <1>10, <2>1, <2>3, GiveUpOK DEF CommitSave, GoTo, Moved
<1>11. CASE NotifySaved(t)
  <2>1. Moved(t, clock, body) /\ pending' \in {pending, NoDoc} /\ sess' \in {sess, NoSession}
    BY <1>0, <1>11, NoTaskOK, ProceedMoves DEF NotifySaved, GoTo, Moved, TaskOK
  <2> QED
    BY <1>11, <1>w, <2>1 DEF NotifySaved
<1> QED
  BY <1>1, <1>2, <1>3, <1>4, <1>5, <1>6, <1>7, <1>8, <1>9, <1>10, <1>11 DEF SaveStep

LEMMA OpenMoves ==
  ASSUME FlowInv, NEW t \in Tasks, OpenStep(t), ~Load(t)
  PROVE  Kept /\ Moved(t, clock, body)
<1> DEFINE o == op[t]
<1>0. TaskOK(o, clock, body) /\ Carries(o, clock) /\ o \in Task /\ clock \in Nat
  BY DocumentSessionsAssumption DEF FlowInv, TaskOK, Carries, IInv, TypeOK, Clock
<1>w. sess' \in {sess, NoSession} /\ pending' \in {pending, NoDoc} /\ UNCHANGED <<shows, body>>
        => Kept
  BY DEF FlowInv, WindowOK, Kept
<1>1. ASSUME NEW p \in Paths, StartOpen(t, p) PROVE Kept /\ Moved(t, clock, body)
  <2> DEFINE a == [NoTask EXCEPT !.goal = "open", !.path = p]
  <2>1. NoTask \in Task /\ Carries(NoTask, clock)
    BY <1>0, NoTaskOK DEF TaskOK, Carries
  <2>2. Carries(a, clock) /\ a.goal = "open"
    BY <2>1 DEF Carries, Task, Goals
  <2>3. AbortPending(t, a)
    BY <1>1 DEF StartOpen
  <2>4. Moved(t, clock, body) /\ pending' = NoDoc /\ sess' \in {sess, NoSession}
    <3> HIDE DEF a
    <3> QED
      BY <2>2, <2>3, AbortMoves
  <2> QED
    BY <1>1, <1>w, <2>4 DEF StartOpen, editorVars
<1>2. ASSUME NEW print \in Fingerprint, Read(t, print) PROVE Kept /\ Moved(t, clock, body)
  <2> DEFINE f == disk[o.path]
             a == [o EXCEPT !.bytes = f.body, !.print = print]
  <2>1. o.path \in Paths /\ o.goal = "open" /\ f # Absent
    BY <1>0, <1>2 DEF Read, TaskOK, Carries
  <2>2. f.meta \in 1 .. clock /\ f.body \in 1 .. clock
    BY <2>1 DEF FlowInv, IInv, NumbersDrawn
  <2>3. print \in PrintsOf(clock)
    BY <1>2, <2>2 DEF Read, PrintsOf, PrintOf
  <2>4. f.body \in Clock
    BY <2>2, DocumentSessionsAssumption DEF FlowInv, IInv, TypeOK, Clock
  <2>5. Carries(a, clock) /\ a.goal = "open" /\ a.bytes # 0
    <3>1. f.body \in 0 .. clock /\ f.body # 0 /\ print \in Fingerprint
      BY <1>2, <2>2
    <3> HIDE DEF f
    <3>2. a \in Task /\ a.bytes = f.body /\ a.print = print /\ a.goal = o.goal /\ a.path = o.path
      BY <1>0, <2>4, <3>1 DEF Task
    <3> HIDE DEF a
    <3> QED
      BY <2>1, <2>3, <3>1, <3>2 DEF Carries
  <2>6. TaskOK([a EXCEPT !.at = "track"], clock, body)
    <3> HIDE DEF a
    <3> QED
      BY <2>5, Moves DEF Awaits, Calls, SaveAwaits
  <2>7. [o EXCEPT !.bytes = f.body, !.print = print, !.at = "track"] = [a EXCEPT !.at = "track"]
    BY <1>0 DEF Task
  <2> QED
    BY <1>2, <1>w, <2>6, <2>7 DEF Read, GoTo, Moved, editorVars
<1>3. ASSUME NEW d \in Docs, Track(t, d) PROVE Kept /\ Moved(t, clock, body)
  <2> DEFINE a == [o EXCEPT !.doc = d]
  <2>1. o.goal = "open" /\ o.bytes # 0
    BY <1>0, <1>3 DEF Track, Served, TaskOK
  <2>2. Carries(a, clock) /\ a.goal = "open" /\ a.bytes # 0
    BY <1>0, <2>1 DEF Carries, Task
  <2>3. TaskOK([a EXCEPT !.at = "guard"], clock, body)
    <3> HIDE DEF a
    <3> QED
      BY <2>2, Moves DEF Awaits, Calls, SaveAwaits
  <2>4. [o EXCEPT !.doc = d, !.at = "guard"] = [a EXCEPT !.at = "guard"]
    BY <1>0 DEF Task
  <2> QED
    BY <1>3, <1>w, <2>3, <2>4 DEF Track, Answered, Moved, editorVars
<1>4. CASE AskGuard(t)
  <2>1. o.goal = "open" /\ o.bytes # 0
    BY <1>0, <1>4 DEF AskGuard, TaskOK
  <2> QED
    BY <1>0, <1>4, <1>w, <2>1, GuardedMoves DEF AskGuard, editorVars
<1>5. CASE CommitOpen(t)
  <2> DEFINE a == [o EXCEPT !.old = sess.doc]
  <2>1. Carries(a, clock) /\ a.goal = o.goal /\ a.bytes = o.bytes
    BY <1>0 DEF FlowInv, WindowOK, WindowSession, Carries, Task
  <2>2. (o.goal = "open" => o.bytes # 0) /\ body # 0
    BY <1>0, <1>5 DEF CommitOpen, TaskOK
  <2>3. TaskOK([a EXCEPT !.at = "record"], clock, body)
    <3> HIDE DEF a
    <3> QED
      BY <2>1, <2>2, Moves DEF Awaits, Calls, SaveAwaits
  <2>4. [o EXCEPT !.at = "record", !.old = sess.doc] = [a EXCEPT !.at = "record"]
    BY <1>0 DEF Task
  <2>5. SessionOf(o.doc, o.path, 1) \in WindowSession
    BY <1>0, DocumentSessionsAssumption DEF SessionOf, WindowSession, Revision, Carries, Task
  <2>6. Kept
    BY <1>5, <2>2, <2>5 DEF CommitOpen, Kept, FlowInv, WindowOK, editorVars
  <2> QED
    BY <1>5, <2>3, <2>4, <2>6 DEF CommitOpen, GoTo, Moved
<1>6. CASE Recorded(t)
  <2>1. TaskOK([o EXCEPT !.at = "closePrevious"], clock, body)
    <3>1. o.goal = "open" => o.bytes # 0
      BY <1>0, <1>6 DEF Recorded, TaskOK
    <3> QED
      BY <1>0, <3>1, Moves DEF Awaits, Calls, SaveAwaits
  <2> QED
    BY <1>0, <1>6, <1>w, <2>1, NoTaskOK DEF Recorded, GoTo, Moved, editorVars
<1>7. CASE ClosePrevious(t) \/ Drop(t)
  BY <1>0, <1>7, <1>w, NoTaskOK DEF ClosePrevious, Drop, Answered, Moved, editorVars
<1> QED
  BY <1>1, <1>2, <1>3, <1>4, <1>5, <1>6, <1>7 DEF OpenStep

LEMMA OtherMoves ==
  ASSUME FlowInv, NEW t \in Tasks, OtherStep(t), ~Destroy(t)
  PROVE  Kept /\ Moved(t, clock, body)
<1> DEFINE o == op[t]
<1>0. TaskOK(o, clock, body) /\ Carries(o, clock) /\ o \in Task /\ clock \in Nat
  BY DocumentSessionsAssumption DEF FlowInv, TaskOK, Carries, IInv, TypeOK, Clock
<1>w. sess' \in {sess, NoSession} /\ pending' \in {pending, NoDoc} /\ UNCHANGED <<shows, body>>
        => Kept
  BY DEF FlowInv, WindowOK, Kept
<1>1. ASSUME NEW g \in {"new", "close"}, Guarded(t, [NoTask EXCEPT !.goal = g]),
             UNCHANGED editorVars
      PROVE  Kept /\ Moved(t, clock, body)
  <2> DEFINE a == [NoTask EXCEPT !.goal = g]
  <2>1. NoTask \in Task /\ Carries(NoTask, clock)
    BY <1>0, NoTaskOK DEF TaskOK, Carries
  <2>2. Carries(a, clock) /\ a.goal = g
    BY <2>1 DEF Carries, Task, Goals
  <2>3. Moved(t, clock, body) /\ pending' \in {pending, NoDoc} /\ sess' \in {sess, NoSession}
    <3>1. Guarded(t, a)
      BY <1>1
    <3> HIDE DEF a
    <3> QED
      BY <2>2, <3>1, GuardedMoves
  <2> QED
    BY <1>1, <1>w, <2>3 DEF editorVars
<1>2. ASSUME NEW d \in Docs, Create(t, d) PROVE Kept /\ Moved(t, clock, body)
  <2> DEFINE a == [o EXCEPT !.doc = d]
  <2>1. Carries(a, clock) /\ a.goal = o.goal /\ a.bytes = o.bytes
    BY <1>0 DEF Carries, Task
  <2>2. TaskOK([a EXCEPT !.at = "created"], clock, body)
    <3>1. o.goal = "open" => o.bytes # 0
      BY <1>0, <1>2 DEF Create, Served, TaskOK
    <3> HIDE DEF a
    <3> QED
      BY <2>1, <3>1, Moves DEF Awaits, Calls, SaveAwaits
  <2>3. [o EXCEPT !.doc = d, !.at = "created"] = [a EXCEPT !.at = "created"]
    BY <1>0 DEF Task
  <2> QED
    BY <1>2, <1>w, <2>2, <2>3 DEF Create, Answered, Moved, editorVars
<1>3. CASE Created(t)
  <2>1. Kept
    BY <1>0, <1>3 DEF Created, Kept, Carries, Task
  <2> QED
    BY <1>0, <1>3, <2>1, NoTaskOK DEF Created, GoTo, Moved
<1>4. CASE CloseLast(t)
  <2>1. TaskOK([o EXCEPT !.at = "destroy"], clock, body)
    <3>1. o.goal = "open" => o.bytes # 0
      BY <1>0, <1>4 DEF CloseLast, Served, TaskOK
    <3> QED
      BY <1>0, <3>1, Moves DEF Awaits, Calls, SaveAwaits
  <2> QED
    BY <1>4, <1>w, <2>1 DEF CloseLast, Answered, Moved, editorVars
<1>5. CASE Aborted(t)
  <2>1. o.goal # "save"
    BY <1>0, <1>5 DEF Aborted, Served, TaskOK
  <2> QED
    BY <1>0, <1>5, <1>w, <2>1, OnwardOK DEF Aborted, Answered, Moved, SessionOnward, editorVars
<1>6. CASE Discard(t)
  <2>1. o.goal # "save" /\ (o.goal = "open" => o.bytes # 0)
    BY <1>0, <1>6 DEF Discard, TaskOK
  <2> QED
    BY <1>0, <1>6, <1>w, <2>1, ProceedMoves DEF Discard, editorVars
<1>7. CASE SaveFirst(t)
  <2>1. o.goal = "open" => o.bytes # 0
    BY <1>0, <1>7 DEF SaveFirst, TaskOK
  <2>2. TaskOK(IF sess = NoSession THEN GiveUp(o) ELSE Capture(o, FALSE), clock, body)
    BY <1>0, <2>1, GiveUpOK, CaptureOK
  <2> QED
    BY <1>7, <1>w, <2>2 DEF SaveFirst, GoTo, Moved, editorVars
<1>8. CASE Fails(t)
  BY <1>0, <1>8, <1>w, GiveUpOK DEF Fails, GoTo, Moved, editorVars
<1> QED
  BY <1>1, <1>2, <1>3, <1>4, <1>5, <1>6, <1>7, <1>8 DEF OtherStep, StartNew, StartClose

\* New content in the editor may make the prepared document the window's.
LEMMA CompletePendingOK ==
  ASSUME FlowInv, NEW w, CompletePending(w)
  PROVE  sess' \in WindowSession /\ pending' \in Docs \cup {NoDoc}
<1>1. SessionOf(pending, NoPath, 1) \in WindowSession
  BY DocumentSessionsAssumption DEF SessionOf, WindowSession, Revision, FlowInv, WindowOK
<1> QED
  BY <1>1 DEF CompletePending, FlowInv, WindowOK

LEMMA LoadMoves ==
  ASSUME FlowInv, NEW t \in Tasks, Load(t)
  PROVE  /\ Moved(t, clock, body')
         /\ body' \in 1 .. clock /\ shows' \in Docs \cup {NoDoc}
         /\ sess' \in WindowSession /\ pending' \in Docs \cup {NoDoc}
<1> DEFINE o == op[t]
<1>1. TaskOK(o, clock, body) /\ Carries(o, clock) /\ o \in Task /\ clock \in Nat
  BY DocumentSessionsAssumption DEF FlowInv, TaskOK, Carries, IInv, TypeOK, Clock
<1>2. o.bytes # 0 /\ o.bytes \in 1 .. clock /\ o.doc \in Docs \cup {NoDoc}
  BY <1>1 DEF Load, TaskOK, Carries, Task
<1>3. body' = o.bytes /\ shows' = o.doc
  BY DEF Load
<1>4. TaskOK([o EXCEPT !.at = "commitOpen"], clock, body')
  BY <1>1, <1>2, <1>3, Moves DEF Awaits, Calls, SaveAwaits
<1>5. op' = [op EXCEPT ![t] = [o EXCEPT !.at = "commitOpen"]]
  BY DEF Load, FlowInv
<1> QED
  BY <1>2, <1>3, <1>4, <1>5, CompletePendingOK DEF Load, Moved

LEMMA FlowInvInit == FlowInit => FlowInv
<1> SUFFICES ASSUME FlowInit PROVE FlowInv
  OBVIOUS
<1>1. IInv /\ clock = 0
  BY InvariantInit DEF FlowInit, Init
<1>2. WindowOK
  BY <1>1, DocumentSessionsAssumption
     DEF FlowInit, WindowOK, NoSession, WindowSession, Revision
<1>3. \A t \in Tasks : TaskOK(op[t], clock, body)
  BY <1>1, NoTaskOK DEF FlowInit
<1>4. op \in [Tasks -> Task]
  BY <1>1, NoTaskOK DEF FlowInit, TaskOK, Carries
<1> QED
  BY <1>1, <1>2, <1>3, <1>4 DEF FlowInv

LEMMA FlowInvNext == FlowInv /\ [FlowNext]_flowVars => FlowInv'
<1> SUFFICES ASSUME FlowInv, [FlowNext]_flowVars PROVE FlowInv'
  OBVIOUS
<1>1. IInv'
  BY StepImplements, InvariantNext DEF FlowInv
<1>2. clock \in Nat /\ clock' \in Nat /\ clock <= clock'
  BY StepImplements, ClockSteps, DocumentSessionsAssumption DEF FlowInv, IInv, TypeOK, Clock
<1>3. ASSUME Kept, \/ UNCHANGED op \/ (\E t \in Tasks : Moved(t, clock, body))
                   \/ op' = [t \in Tasks |-> NoTask]
      PROVE  FlowInv'
  <2>1. WindowOK'
    <3>1. NoSession \in WindowSession
      BY DocumentSessionsAssumption DEF NoSession, WindowSession, Revision
    <3> QED
      BY <1>2, <1>3, <3>1 DEF Kept, FlowInv, WindowOK
  <2>2. ASSUME NEW t \in Tasks, Moved(t, clock, body) PROVE Moved(t, clock', body')
    BY <1>2, <1>3, <2>2, Later DEF Moved, Kept
  <2> QED
    BY <1>1, <1>2, <1>3, <2>1, <2>2, TasksNext DEF FlowInv, Kept
<1>4. ASSUME NEW t \in Tasks, SaveStep(t) PROVE FlowInv'
  BY <1>1, <1>3, <1>4, SaveMoves
<1>5. ASSUME NEW t \in Tasks, OpenStep(t), ~Load(t) PROVE FlowInv'
  BY <1>3, <1>5, OpenMoves
<1>6. ASSUME NEW t \in Tasks, OtherStep(t), ~Destroy(t) PROVE FlowInv'
  BY <1>3, <1>6, OtherMoves
<1>7. ASSUME NEW t \in Tasks, Destroy(t) PROVE FlowInv'
  <2>1. Kept
    BY <1>7 DEF Destroy, Kept, FlowInv, WindowOK, editorVars
  <2> QED
    BY <1>3, <1>7, <2>1 DEF Destroy
<1>8. ASSUME NEW t \in Tasks, Load(t) PROVE FlowInv'
  <2>1. clock' = clock
    BY <1>8 DEF Load, vars
  <2>2. WindowOK'
    BY <1>2, <1>8, <2>1, LoadMoves DEF WindowOK
  <2>3. op' \in [Tasks -> Task] /\ \A u \in Tasks : TaskOK(op'[u], clock', body')
    BY <1>2, <1>8, <2>1, LoadMoves, TasksNext
  <2> QED
    BY <1>1, <2>2, <2>3 DEF FlowInv
<1>9. CASE Blank \/ Edit
  <2>1. body' = clock + 1 /\ clock' = clock + 1 /\ UNCHANGED op
    BY <1>9 DEF Blank, Edit, NewContent
  <2>2. sess' \in WindowSession /\ pending' \in Docs \cup {NoDoc} /\ shows' \in Docs \cup {NoDoc}
    <3>1. CASE Blank
      <4>1. sess.doc \in Docs \cup {NoDoc}
        BY DEF FlowInv, WindowOK, WindowSession
      <4> QED
        BY <3>1, <4>1, CompletePendingOK DEF Blank, FlowInv, WindowOK
    <3>2. CASE Edit
      <4>1. [sess EXCEPT !.dirty = TRUE] \in WindowSession
        BY DEF FlowInv, WindowOK, WindowSession
      <4> QED
        BY <3>2, <4>1 DEF Edit, FlowInv, WindowOK
    <3> QED
      BY <1>9, <3>1, <3>2
  <2>3. WindowOK'
    BY <1>2, <2>1, <2>2 DEF WindowOK
  <2>4. op' \in [Tasks -> Task] /\ \A u \in Tasks : TaskOK(op'[u], clock', body')
    BY <1>2, <2>1, TasksNext
  <2> QED
    BY <1>1, <2>3, <2>4 DEF FlowInv
<1>10. CASE BlankFails \/ DeliverDirty \/ DeliverClose \/ OtherPrograms \/ UNCHANGED flowVars
  <2>1. UNCHANGED <<sess, pending, shows, body, op>>
    BY <1>10 DEF BlankFails, DeliverDirty, DeliverClose, OtherPrograms, flowVars, editorVars
  <2> QED
    BY <1>3, <2>1 DEF Kept, FlowInv, WindowOK
<1> QED
  BY <1>4, <1>5, <1>6, <1>7, <1>8, <1>9, <1>10 DEF FlowNext

\* Every state of the window, its commands and the sessions is one the invariant
\* describes.
THEOREM FlowInvariance == FlowSpec => []FlowInv
BY FlowInvInit, FlowInvNext, PTL DEF FlowSpec

\* The window implements the sessions: whatever its commands do, and however they
\* overlap, the backend goes through a behaviour DocumentSessions allows.
THEOREM FlowImplementsSessions == FlowSpec => ImplementsSessions
<1>1. FlowInit => Init
  BY DEF FlowInit
<1>2. FlowInv /\ [FlowNext]_flowVars => [Next]_vars
  BY StepImplements
<1> QED
  BY <1>1, <1>2, FlowInvariance, PTL DEF FlowSpec, Spec, ImplementsSessions

\* So a save the window makes without the user's consent never replaces what another
\* program wrote into the document's own file before the check.
THEOREM FlowOverwriteCorrect == FlowSpec => OverwritesKnownOrLater
BY FlowImplementsSessions, OverwriteCorrect, PTL DEF ImplementsSessions

\* And of two saves of the window that started from one revision, one completes.
THEOREM FlowRevisionCorrect == FlowSpec => RevisionSpentOnce
BY FlowImplementsSessions, RevisionCorrect, PTL DEF ImplementsSessions


-----------------------------------------------------------------------------
(* Who a document belongs to.                                               *)
(*                                                                          *)
(* An open session belongs to the window, to the new document it has        *)
(* prepared, to one command that has opened it, or to a close that is on    *)
(* its way; and a document that has left the window is about to be closed.  *)

Messages == {CallOf(t) : t \in Tasks}
            \cup {MessageOf(name, d) : name \in {"dirty", "close"}, d \in Docs \cup {NoDoc}}

\* The documents a message, and the messages on the wire, of this name are about
About(m, name) == {d \in Docs : m = MessageOf(name, d)}
Told(w, name) == {d \in Docs : \E i \in DOMAIN w : w[i] = MessageOf(name, d)}

\* The document a command is going to close, and the one that is its own
Left == {"abort", "record", "closePrevious"}
Dooms(o) == {d \in Docs : (o.at \in Left /\ d = o.old) \/ (o.at = "drop" /\ d = o.doc)}
Owns(o) == {d \in Docs : d = o.doc /\ o.at \notin {"idle", "record", "closePrevious", "drop"}}

Doomed == Told(wire, "close") \cup {d \in Docs : \E t \in Tasks : d \in Dooms(op[t])}

\* A window on its way out only closes what it has.
Leaves(o) == o.at \in {"closeLast", "destroy"}
Closing == gone \/ \E t \in Tasks : Leaves(op[t])

SessionOwned ==
  /\ sess # NoSession => sess.doc \in live \ Doomed
  /\ sess = NoSession => \A t \in Tasks : op[t].at \notin SaveAwaits
PendingOwned == pending # NoDoc => pending \in live \ (Doomed \cup {sess.doc})
HeldOwned ==
  \A t \in Tasks : \A d \in Owns(op[t]) :
    /\ d \in live \ (Doomed \cup {sess.doc, pending})
    /\ \A u \in Tasks : d \in Owns(op[u]) => u = t
DirtyOwned ==
  \A d \in live : dirty[d] \/ d \in Told(wire, "dirty") => d = sess.doc \/ d \in Doomed
Known == Doomed \subseteq issued /\ Told(wire, "dirty") \subseteq issued
Owned == SessionOwned /\ PendingOwned /\ HeldOwned /\ DirtyOwned /\ Known

\* One save has the native side at a time, and every blank editor is a document of its own.
NativeOne ==
  /\ (stage # "free") = (\E t \in Tasks : op[t].at = "native")
  /\ \A t, u \in Tasks : op[t].at = "native" /\ op[u].at = "native" => t = u
Fresh == {d \in Docs : \E t \in Tasks : op[t].at = "created" /\ op[t].doc = d}
BlanksOwned ==
  /\ Fresh \subseteq issued
  /\ \A t \in Tasks : op[t].at = "created" => op[t].doc \in Docs
  /\ \A t, u \in Tasks :
       op[t].at = "created" /\ op[u].at = "created" /\ op[t].doc = op[u].doc => t = u
  /\ blanks \in Nat /\ blanks + Cardinality(Fresh) <= Cardinality(issued)
\* A command that may load a document has it.
HasDoc(o) ==
  \/ o.at \in {"guard", "load", "commitOpen"}
  \/ o.goal = "open" /\ o.at \in SaveAwaits \cup {"confirm"}
  => o.doc \in Docs
EditorTyped ==
  /\ wire \in Seq(Messages) /\ unsaved \in BOOLEAN /\ gone \in BOOLEAN
  /\ kept \subseteq Clock /\ waived \subseteq Clock

SoundInv ==
  /\ FlowInv /\ EditorTyped
  /\ NativeOne /\ BlanksOwned /\ \A t \in Tasks : HasDoc(op[t])
  /\ Closing \/ Owned

-----------------------------------------------------------------------------
(* Messages on the wire                                                     *)

LEMMA MessageIs ==
  /\ \A name, d : MessageOf(name, d).name = name /\ MessageOf(name, d).doc = d
  /\ \A t : CallOf(t).name = "call" /\ (t \in Tasks => CallOf(t) \in Messages)
  /\ \A d \in Docs \cup {NoDoc} : MessageOf("close", d) \in Messages /\ MessageOf("dirty", d) \in Messages
BY DEF MessageOf, CallOf, Messages

Longer(v, w, m) == v = Append(w, m)

LEMMA WireAppend ==
  ASSUME NEW w \in Seq(Messages), NEW m \in Messages, NEW v, Longer(v, w, m), NEW name
  PROVE  v \in Seq(Messages) /\ Told(v, name) = Told(w, name) \cup About(m, name)
<1>1. v \in Seq(Messages) /\ Len(v) = Len(w) + 1 /\ DOMAIN v = 1..Len(v) /\ DOMAIN w = 1..Len(w)
      /\ Len(w) \in Nat
  BY DEF Longer
<1>2. \A i \in 1..Len(w) : v[i] = w[i]
  BY DEF Longer
<1>3. v[Len(w) + 1] = m
  BY DEF Longer
<1>4. \A x : (\E i \in DOMAIN v : v[i] = x) <=> (\E i \in DOMAIN w : w[i] = x) \/ x = m
  BY <1>1, <1>2, <1>3
<1> QED BY <1>1, <1>4 DEF Told, About

LEMMA WireTail ==
  ASSUME NEW w \in Seq(Messages), w # <<>>, NEW v, v = Tail(w), NEW name
  PROVE  v \in Seq(Messages) /\ Told(w, name) = Told(v, name) \cup About(Head(w), name)
<1>1. v \in Seq(Messages) /\ Len(v) = Len(w) - 1 /\ DOMAIN v = 1..Len(v) /\ DOMAIN w = 1..Len(w)
      /\ Len(w) \in Nat /\ Len(w) > 0 /\ Len(v) \in Nat
  OBVIOUS
<1>2. \A i \in 1..Len(v) : v[i] = w[i + 1]
  OBVIOUS
<1>3. Head(w) = w[1]
  OBVIOUS
<1>4. ASSUME NEW x PROVE (\E i \in DOMAIN w : w[i] = x) <=> (\E i \in DOMAIN v : v[i] = x) \/ Head(w) = x
  <2>1. ASSUME NEW i \in DOMAIN w, w[i] = x, i # 1 PROVE \E j \in DOMAIN v : v[j] = x
    <3>1. i - 1 \in 1..Len(v) /\ (i - 1) + 1 = i
      BY <1>1, <2>1
    <3> QED BY <1>1, <1>2, <2>1, <3>1
  <2>2. ASSUME NEW i \in DOMAIN v, v[i] = x PROVE \E j \in DOMAIN w : w[j] = x
    BY <1>1, <1>2, <2>2
  <2>3. 1 \in DOMAIN w
    BY <1>1
  <2> QED BY <1>3, <2>1, <2>2, <2>3
<1> QED BY <1>1, <1>4 DEF Told, About

\* What a command does on the wire with a call of its own no message sees.
WireKept == /\ wire' \in Seq(Messages)
            /\ \A name \in {"close", "dirty"} : Told(wire', name) = Told(wire, name)

LEMMA SentKeeps ==
  ASSUME NEW w \in Seq(Messages), NEW t \in Tasks, NEW o, NEW v, v = Sent(w, t, o),
         NEW name \in {"close", "dirty"}
  PROVE  v \in Seq(Messages) /\ Told(v, name) = Told(w, name)
<1>1. CASE v = w
  BY <1>1
<1>2. CASE v = Append(w, CallOf(t))
  <2>1. PICK m : m = CallOf(t)
    OBVIOUS
  <2>2. m \in Messages /\ \A d : m # MessageOf(name, d)
    BY <2>1, MessageIs
  <2>3. Told(v, name) = Told(w, name) \cup About(m, name) /\ v \in Seq(Messages)
    <3>1. Longer(v, w, m)
      BY <1>2, <2>1 DEF Longer
    <3> QED BY <2>2, <3>1, WireAppend
  <2> QED BY <2>2, <2>3 DEF About
<1> QED BY <1>1, <1>2 DEF Sent

LEMMA GoToKeeps ==
  ASSUME EditorTyped, NEW t \in Tasks, NEW o, GoTo(t, o)
  PROVE  WireKept
BY SentKeeps DEF GoTo, WireKept, EditorTyped

LEMMA AnsweredKeeps ==
  ASSUME EditorTyped, NEW t \in Tasks, NEW o, NEW c, Served(t, c), Answered(t, o)
  PROVE  WireKept
<1>1. PICK v : v = Tail(wire)
  OBVIOUS
<1>2. wire \in Seq(Messages) /\ wire # <<>> /\ Head(wire) = CallOf(t)
  BY DEF Served, EditorTyped
<1>3. ASSUME NEW name \in {"close", "dirty"} PROVE v \in Seq(Messages) /\ Told(v, name) = Told(wire, name)
  <2>1. \A d : Head(wire) # MessageOf(name, d)
    BY <1>2, MessageIs
  <2>2. PICK w : w = wire
    OBVIOUS
  <2>3. /\ v \in Seq(Messages)
        /\ Told(w, name) = Told(v, name) \cup About(Head(w), name)
    BY <1>1, <1>2, <2>2, WireTail
  <2> QED BY <2>1, <2>2, <2>3 DEF About
<1>4. v \in Seq(Messages)
  BY <1>3
<1>5. ASSUME NEW name \in {"close", "dirty"} PROVE wire' \in Seq(Messages) /\ Told(wire', name) = Told(wire, name)
  <2>1. wire' = Sent(v, t, o)
    BY <1>1 DEF Answered
  <2>2. Told(v, name) = Told(wire, name)
    BY <1>3
  <2> QED BY <1>4, <2>1, <2>2, SentKeeps
<1> QED BY <1>5 DEF WireKept

-----------------------------------------------------------------------------
(* How a document passes from hand to hand.                                 *)

LEMMA SessionsTyped ==
  ASSUME FlowInv
  PROVE  /\ live \subseteq issued /\ issued \subseteq Docs /\ NoDoc \notin Docs
         /\ IsFiniteSet(issued) /\ dirty \in [Docs -> BOOLEAN] /\ NoSession.doc = NoDoc
<1>1. live \subseteq issued /\ issued \subseteq Docs /\ dirty \in [Docs -> BOOLEAN]
  BY DEF FlowInv, IInv, TypeOK
<1>2. IsFiniteSet(issued)
  BY <1>1, DocumentFlowAssumption, FS_Subset
<1> QED BY <1>1, <1>2, DocumentSessionsAssumption DEF NoSession

LEMMA OneMoves ==
  ASSUME FlowInv, NEW t \in Tasks, NEW m, op' = [op EXCEPT ![t] = m]
  PROVE  op'[t] = m /\ \A u \in Tasks : u # t => op'[u] = op[u]
BY DEF FlowInv

\* Nothing changes hands.
Steady ==
  /\ pending' = pending /\ live' = live /\ issued' = issued
  /\ sess'.doc = sess.doc /\ (sess' = NoSession <=> sess = NoSession)
  /\ \A d \in live : dirty'[d] => dirty[d]
\* A save starts only where the window has a session.
Saves(o) == o.at \in SaveAwaits

LEMMA StaysOwned ==
  ASSUME FlowInv, Owned, WireKept, Steady,
         \A u \in Tasks : /\ Dooms(op'[u]) = Dooms(op[u]) /\ Owns(op'[u]) \subseteq Owns(op[u])
                          /\ Saves(op'[u]) => Saves(op[u]) \/ sess # NoSession
  PROVE  Owned'
<1>1. Doomed' = Doomed
  BY DEF Doomed, WireKept
<1>2. Told(wire', "dirty") = Told(wire, "dirty")
  BY DEF WireKept
<1>3. SessionOwned' /\ PendingOwned' /\ DirtyOwned' /\ Known'
  BY <1>1, <1>2 DEF Owned, SessionOwned, PendingOwned, DirtyOwned, Known, Steady, Saves
<1>4. HeldOwned'
  BY <1>1 DEF Owned, HeldOwned, Steady
<1> QED BY <1>3, <1>4 DEF Owned

\* A document is closed that was about to be.
Closes(d) ==
  /\ d \in Doomed /\ live' = live \ {d} /\ issued' = issued
  /\ pending' = pending /\ sess' = sess
  /\ \A e \in live \ {d} : dirty'[e] = dirty[e]

LEMMA ClosedOwned ==
  ASSUME FlowInv, Owned, NEW d \in Docs, Closes(d),
         Doomed' \subseteq Doomed, Doomed \subseteq Doomed' \cup {d},
         Told(wire', "dirty") \subseteq Told(wire, "dirty"),
         \A u \in Tasks : /\ Owns(op'[u]) \subseteq Owns(op[u])
                          /\ Saves(op'[u]) => Saves(op[u])
  PROVE  Owned'
<1>1. SessionOwned' /\ PendingOwned' /\ Known'
  BY DEF Owned, SessionOwned, PendingOwned, Known, Closes, Saves
<1>2. HeldOwned'
  BY DEF Owned, HeldOwned, Closes
<1>3. DirtyOwned'
  BY DEF Owned, DirtyOwned, Closes
<1> QED BY <1>1, <1>2, <1>3 DEF Owned

\* A document is given up: the one that was prepared, or the one of a command.
LEMMA GivenUpOwned ==
  ASSUME FlowInv, Owned, WireKept, NEW t \in Tasks, NEW d \in Docs,
         UNCHANGED <<sess, live, issued, dirty>>,
         \/ pending = d /\ pending' = NoDoc
         \/ d \in Owns(op[t]) /\ pending' = pending,
         Dooms(op[t]) = {}, Dooms(op'[t]) = {d}, Owns(op'[t]) \subseteq Owns(op[t]) \ {d},
         Saves(op'[t]) => Saves(op[t]) \/ sess # NoSession,
         \A u \in Tasks : u # t => op'[u] = op[u]
  PROVE  Owned'
<1>1. Doomed' = Doomed \cup {d}
  BY DEF Doomed, WireKept
<1>2. d \in live /\ d # sess.doc /\ d # pending'
  BY SessionsTyped DEF Owned, PendingOwned, HeldOwned
<1>3. \A u \in Tasks : Owns(op'[u]) \subseteq Owns(op[u]) \ {d}
  BY SessionsTyped DEF Owned, PendingOwned, HeldOwned
<1>4. Told(wire', "dirty") = Told(wire, "dirty")
  BY DEF WireKept
<1>5. SessionOwned' /\ PendingOwned' /\ DirtyOwned' /\ Known'
  BY <1>1, <1>2, <1>4, SessionsTyped
     DEF Owned, SessionOwned, PendingOwned, DirtyOwned, Known, Saves
<1>6. HeldOwned'
  BY <1>1, <1>3, SessionsTyped DEF Owned, HeldOwned
<1> QED BY <1>5, <1>6 DEF Owned

\* A command opens or creates a document of its own.
LEMMA OpenedOwned ==
  ASSUME FlowInv, Owned, WireKept, NEW t \in Tasks, NEW d \in Docs \ issued,
         UNCHANGED <<sess, pending>>,
         live' = live \cup {d}, issued' = issued \cup {d},
         ~dirty'[d], \A e \in live : dirty'[e] = dirty[e],
         Dooms(op'[t]) = Dooms(op[t]), Owns(op'[t]) = {d}, ~Saves(op'[t]),
         \A u \in Tasks : u # t => op'[u] = op[u]
  PROVE  Owned'
<1>1. Doomed' = Doomed
  BY DEF Doomed, WireKept
<1>2. Told(wire', "dirty") = Told(wire, "dirty")
  BY DEF WireKept
<1>3. d \notin live /\ d \notin Doomed /\ d # sess.doc /\ d # pending /\ d \notin Told(wire, "dirty")
  BY SessionsTyped DEF Owned, SessionOwned, PendingOwned, Known
<1>4. SessionOwned' /\ PendingOwned' /\ DirtyOwned' /\ Known'
  BY <1>1, <1>2, <1>3 DEF Owned, SessionOwned, PendingOwned, DirtyOwned, Known, Saves
<1>5. HeldOwned'
  BY <1>1, <1>3, SessionsTyped DEF Owned, HeldOwned
<1> QED BY <1>4, <1>5 DEF Owned

\* The window takes a document as its own; the one it had is to be closed.
Takes(d) ==
  /\ UNCHANGED <<live, issued, dirty>>
  /\ sess' # NoSession /\ sess'.doc = d
  /\ Doomed' = Doomed \cup ({sess.doc} \ {NoDoc})
  /\ Told(wire', "dirty") = Told(wire, "dirty")

LEMMA TakenOwned ==
  ASSUME FlowInv, Owned, NEW d \in Docs, Takes(d),
         \A u \in Tasks : Owns(op'[u]) \subseteq Owns(op[u]) \ {d},
         d # pending', pending' \in {pending, NoDoc},
         d = pending \/ \E t \in Tasks : d \in Owns(op[t])
  PROVE  Owned'
<1>1. d \in live \ (Doomed \cup {sess.doc})
  BY SessionsTyped DEF Owned, PendingOwned, HeldOwned
<1>2. sess = NoSession => sess.doc = NoDoc
  BY SessionsTyped
<1>3. SessionOwned' /\ Known'
  BY <1>1, <1>2, SessionsTyped DEF Owned, SessionOwned, Known, Takes
<1>4. PendingOwned'
  BY <1>1, SessionsTyped DEF Owned, PendingOwned, Takes
<1>5. DirtyOwned'
  BY <1>1, SessionsTyped DEF Owned, DirtyOwned, Takes
<1>6. HeldOwned'
  BY <1>1, SessionsTyped DEF Owned, HeldOwned, Takes
<1> QED BY <1>3, <1>4, <1>5, <1>6 DEF Owned

\* A new document is prepared for the window, whatever was prepared before.
LEMMA PreparedOwned ==
  ASSUME FlowInv, Owned, WireKept, NEW t \in Tasks, NEW d \in Owns(op[t]), pending' = d,
         UNCHANGED <<sess, live, issued, dirty>>,
         Dooms(op'[t]) = Dooms(op[t]), Owns(op'[t]) = {}, ~Saves(op'[t]),
         \A u \in Tasks : u # t => op'[u] = op[u]
  PROVE  Owned'
<1>1. Doomed' = Doomed
  BY DEF Doomed, WireKept
<1>2. Told(wire', "dirty") = Told(wire, "dirty")
  BY DEF WireKept
<1>3. SessionOwned' /\ DirtyOwned' /\ Known'
  BY <1>1, <1>2 DEF Owned, SessionOwned, DirtyOwned, Known, Saves
<1>4. PendingOwned'
  BY <1>1 DEF Owned, PendingOwned, HeldOwned
<1>5. HeldOwned'
  BY <1>1 DEF Owned, HeldOwned
<1> QED BY <1>3, <1>4, <1>5 DEF Owned

\* What is dirty, or said to be, is the window's.
LEMMA DirtiedOwned ==
  ASSUME FlowInv, Owned, UNCHANGED <<pending, live, issued, op>>,
         sess'.doc = sess.doc, sess' = NoSession <=> sess = NoSession,
         Told(wire', "close") = Told(wire, "close"),
         \A d \in live : dirty'[d] \/ d \in Told(wire', "dirty") =>
           dirty[d] \/ d \in Told(wire, "dirty") \/ d = sess.doc,
         Told(wire', "dirty") \subseteq Told(wire, "dirty") \cup live
  PROVE  Owned'
<1>1. Doomed' = Doomed
  BY DEF Doomed
<1>2. SessionOwned' /\ PendingOwned' /\ HeldOwned'
  BY <1>1 DEF Owned, SessionOwned, PendingOwned, HeldOwned
<1>3. DirtyOwned' /\ Known'
  BY <1>1, SessionsTyped DEF Owned, DirtyOwned, Known
<1> QED BY <1>2, <1>3 DEF Owned

-----------------------------------------------------------------------------
(* Commands that go on, ask, or give up.                                    *)

\* The step leaves every document with somebody, or takes the window away.
Handed == Closing' \/ Owned'

LEMMA AtOf ==
  ASSUME FlowInv, NEW t \in Tasks
  PROVE  op[t] \in Task /\ NoTask \in Task /\ Dooms(NoTask) = {} /\ Owns(NoTask) = {}
         /\ HasDoc(NoTask) /\ ~Saves(NoTask) /\ NoTask.at = "idle" /\ NoTask.doc = NoDoc
<1>1. NoTask \in Task
  BY NoTaskOK DEF TaskOK, Carries
<1>2. Dooms(NoTask) = {} /\ Owns(NoTask) = {} /\ HasDoc(NoTask) /\ ~Saves(NoTask)
      /\ NoTask.at = "idle" /\ NoTask.doc = NoDoc
  BY DEF NoTask, Dooms, Owns, HasDoc, Saves, SaveAwaits, Left
<1> QED BY <1>1, <1>2 DEF FlowInv

\* The awaits at which a command holds what it has opened and closes nothing
Holding == {"choose", "check", "ask", "export", "commit", "native", "reply", "notify",
            "read", "track", "create", "created", "guard", "confirm", "load", "commitOpen"}

LEMMA HoldingIs ==
  ASSUME NEW o, o.at \in Holding
  PROVE  Dooms(o) = {} /\ Owns(o) = {o.doc} \cap Docs
BY DEF Holding, Dooms, Owns, Left

\* A command that goes from one of them to another changes nothing.
LEMMA GoesOn ==
  ASSUME FlowInv, EditorTyped, Owned, WireKept, Steady, NEW t \in Tasks, NEW m,
         op' = [op EXCEPT ![t] = m], m.at \in Holding, op[t].at \in Holding \cup {"idle"},
         op[t].at \in Holding => m.doc = op[t].doc, op[t].at = "idle" => m.doc = NoDoc,
         Saves(m) => Saves(op[t]) \/ sess # NoSession
  PROVE  Owned'
<1>1. Dooms(m) = {} /\ Owns(m) = {m.doc} \cap Docs
  BY HoldingIs
<1>2. Dooms(op[t]) = {} /\ (op[t].at \in Holding => Owns(op[t]) = {op[t].doc} \cap Docs)
  <2>1. op[t].at = "idle" => Dooms(op[t]) = {}
    BY DEF Dooms, Left
  <2> QED BY <2>1, HoldingIs
<1>3. Owns(m) \subseteq Owns(op[t])
  BY <1>1, <1>2, SessionsTyped
<1> QED BY <1>1, <1>2, <1>3, OneMoves, StaysOwned

LEMMA GiveUpOwned ==
  ASSUME FlowInv, Owned, WireKept, NEW t \in Tasks, op' = [op EXCEPT ![t] = GiveUp(op[t])],
         op[t].at \in Holding, UNCHANGED <<sess, pending, live, issued, dirty>>
  PROVE  Owned'
<1>1. Dooms(op[t]) = {} /\ Owns(op[t]) = {op[t].doc} \cap Docs
  BY HoldingIs
<1>2. op'[t] = GiveUp(op[t]) /\ \A u \in Tasks : u # t => op'[u] = op[u]
  BY OneMoves
<1>3. CASE GiveUp(op[t]) = NoTask
  BY <1>1, <1>2, <1>3, AtOf, StaysOwned DEF Steady
<1>4. CASE GiveUp(op[t]) # NoTask
  <2>1. op'[t] = [op[t] EXCEPT !.at = "drop"] /\ op[t].doc # NoDoc
    BY <1>2, <1>4 DEF GiveUp
  <2>2. op'[t].at = "drop" /\ op'[t].doc = op[t].doc /\ op[t].doc \in Docs
    BY <2>1, AtOf DEF Task
  <2>3. Dooms(op'[t]) = {op[t].doc} /\ Owns(op'[t]) = {} /\ ~Saves(op'[t])
    BY <2>2 DEF Dooms, Owns, Saves, SaveAwaits, Left
  <2> QED BY <1>1, <1>2, <2>2, <2>3, GivenUpOwned
<1> QED BY <1>3, <1>4

LEMMA GiveUpWent ==
  ASSUME FlowInv, NEW t \in Tasks
  PROVE  GiveUp(op[t]).at \in {"idle", "drop"} /\ HasDoc(GiveUp(op[t]))
<1>1. [op[t] EXCEPT !.at = "drop"].at = "drop"
  BY AtOf DEF Task
<1>2. GiveUp(op[t]).at \in {"idle", "drop"}
  BY <1>1, AtOf DEF GiveUp
<1> QED BY <1>2 DEF HasDoc, SaveAwaits

\* abortPendingNewDocument: the prepared document is given up, or the command goes on.
LEMMA AbortPendingOwned ==
  ASSUME FlowInv, EditorTyped, Owned, NEW t \in Tasks, NEW o \in Task, AbortPending(t, o),
         UNCHANGED <<live, issued, dirty>>, op[t].at \in Holding \cup {"idle"},
         op[t].at \in Holding => o.doc = op[t].doc, op[t].at = "idle" => o.doc = NoDoc
  PROVE  Handed
<1>1. CASE pending # NoDoc
  <2>1. PICK m : m = [o EXCEPT !.at = "abort", !.old = pending]
    OBVIOUS
  <2>2. m.at = "abort" /\ m.old = pending /\ m.doc = o.doc
    BY <2>1 DEF Task
  <2>3. GoTo(t, m) /\ pending' = NoDoc /\ sess' = sess
    BY <1>1, <2>1 DEF AbortPending
  <2>4. WireKept /\ op'[t] = m /\ \A u \in Tasks : u # t => op'[u] = op[u]
    BY <2>3, GoToKeeps, OneMoves DEF GoTo
  <2>5. pending \in Docs
    BY <1>1 DEF FlowInv, WindowOK
  <2>6. Dooms(m) = {pending} /\ Owns(m) = {m.doc} \cap Docs /\ ~Saves(m)
    BY <2>2, <2>5 DEF Dooms, Owns, Saves, SaveAwaits, Left
  <2>7. Dooms(op[t]) = {} /\ Owns(m) \subseteq Owns(op[t])
    <3>1. CASE op[t].at \in Holding
      BY <2>2, <2>6, <3>1, HoldingIs
    <3>2. CASE op[t].at = "idle"
      BY <2>2, <2>6, <3>2, SessionsTyped DEF Dooms, Left
    <3> QED BY <3>1, <3>2
  <2>8. pending \notin Owns(op[t])
    BY <2>5 DEF Owned, HeldOwned
  <2>9. Owned'
    BY <1>1, <2>3, <2>4, <2>5, <2>6, <2>7, <2>8, GivenUpOwned
  <2> QED BY <2>9 DEF Handed
<1>2. CASE pending = NoDoc
  <2>1. PICK m : m = Onward(o)
    OBVIOUS
  <2>2. GoTo(t, m) /\ pending' = pending /\ sess' = SessionOnward(o)
    BY <1>2, <2>1 DEF AbortPending
  <2>3. WireKept /\ op' = [op EXCEPT ![t] = m] /\ op'[t] = m
    BY <2>2, GoToKeeps, OneMoves DEF GoTo
  <2>4. CASE o.goal = "close"
    <3>1. m.at \in {"closeLast", "destroy"}
      BY <2>1, <2>4 DEF Onward, Task
    <3> QED BY <2>3, <3>1 DEF Handed, Closing, Leaves
  <2>5. CASE o.goal # "close"
    <3>1. m.at \in {"create", "read"} /\ m.doc = o.doc /\ m.at \in Holding
      BY <2>1, <2>5 DEF Onward, Task, Holding
    <3>2. ~Saves(m)
      BY <3>1 DEF Saves, SaveAwaits
    <3>3. Steady
      BY <2>2, <2>5 DEF Steady, SessionOnward
    <3>4. Owned'
      BY <2>3, <3>1, <3>2, <3>3, GoesOn
    <3> QED BY <3>4 DEF Handed
  <2> QED BY <2>4, <2>5
<1> QED BY <1>1, <1>2

LEMMA ProceedOwned ==
  ASSUME FlowInv, EditorTyped, Owned, NEW t \in Tasks, NEW o \in Task, Proceed(t, o),
         UNCHANGED <<live, issued, dirty>>, op[t].at \in Holding \cup {"idle"},
         op[t].at \in Holding => o.doc = op[t].doc, op[t].at = "idle" => o.doc = NoDoc
  PROVE  Handed
<1>1. CASE o.goal = "open"
  <2>1. PICK m : m = [o EXCEPT !.at = "load"]
    OBVIOUS
  <2>2. m.at = "load" /\ m.doc = o.doc /\ m.at \in Holding /\ ~Saves(m)
    BY <2>1 DEF Task, Holding, Saves, SaveAwaits
  <2>3. GoTo(t, m) /\ UNCHANGED <<sess, pending>>
    BY <1>1, <2>1 DEF Proceed
  <2>4. WireKept /\ op' = [op EXCEPT ![t] = m] /\ Steady
    BY <2>3, GoToKeeps DEF GoTo, Steady
  <2>5. Owned'
    BY <2>2, <2>4, GoesOn
  <2> QED BY <2>5 DEF Handed
<1>2. CASE o.goal # "open"
  BY <1>2, AbortPendingOwned DEF Proceed
<1> QED BY <1>1, <1>2

LEMMA GuardedOwned ==
  ASSUME FlowInv, EditorTyped, Owned, NEW t \in Tasks, NEW o \in Task, Guarded(t, o),
         UNCHANGED <<live, issued, dirty>>, op[t].at \in Holding \cup {"idle"},
         op[t].at \in Holding => o.doc = op[t].doc, op[t].at = "idle" => o.doc = NoDoc
  PROVE  Handed
<1>1. CASE unsaved
  <2>1. PICK m : m = [o EXCEPT !.at = "confirm"]
    OBVIOUS
  <2>2. m.at = "confirm" /\ m.doc = o.doc /\ m.at \in Holding /\ ~Saves(m)
    BY <2>1 DEF Task, Holding, Saves, SaveAwaits
  <2>3. GoTo(t, m) /\ UNCHANGED <<sess, pending>>
    BY <1>1, <2>1 DEF Guarded
  <2>4. WireKept /\ op' = [op EXCEPT ![t] = m] /\ Steady
    BY <2>3, GoToKeeps DEF GoTo, Steady
  <2>5. Owned'
    BY <2>2, <2>4, GoesOn
  <2> QED BY <2>5 DEF Handed
<1>2. CASE ~unsaved
  BY <1>2, ProceedOwned DEF Guarded
<1> QED BY <1>1, <1>2

-----------------------------------------------------------------------------
(* What a step has to show for the rest of the invariant.                   *)

\* The command t goes on, with its document if it needs one.
Goes(t) == \E m : op' = [op EXCEPT ![t] = m] /\ m.at \notin {"native", "created"} /\ HasDoc(m)

LEMMA BlanksKept ==
  ASSUME FlowInv, FlowInv', BlanksOwned, issued \subseteq issued',
         blanks' \in Nat, blanks' <= blanks,
         \A u \in Tasks : op'[u].at = "created" => op[u].at = "created" /\ op'[u].doc = op[u].doc
  PROVE  BlanksOwned'
<1>1. IsFiniteSet(issued')
  BY DocumentFlowAssumption, FS_Subset DEF FlowInv, IInv, TypeOK
<1>2. Fresh' \subseteq Fresh
  BY DEF Fresh
<1>3. /\ Cardinality(issued) <= Cardinality(issued') /\ Cardinality(issued) \in Nat
      /\ Cardinality(issued') \in Nat
  BY <1>1, FS_Subset, FS_CardinalityType
<1>4. /\ Cardinality(Fresh') <= Cardinality(Fresh) /\ Cardinality(Fresh) \in Nat
      /\ Cardinality(Fresh') \in Nat
  <2>1. IsFiniteSet(Fresh)
    BY SessionsTyped, FS_Subset DEF BlanksOwned
  <2> QED BY <1>2, <2>1, FS_Subset, FS_CardinalityType
<1>5. blanks' + Cardinality(Fresh') <= Cardinality(issued')
  BY <1>3, <1>4 DEF BlanksOwned
<1>6. Fresh' \subseteq issued'
  BY <1>2 DEF BlanksOwned
<1>7. /\ \A u \in Tasks : op'[u].at = "created" => op'[u].doc \in Docs
      /\ \A u, w \in Tasks :
           op'[u].at = "created" /\ op'[w].at = "created" /\ op'[u].doc = op'[w].doc => u = w
  BY DEF BlanksOwned
<1> QED BY <1>5, <1>6, <1>7 DEF BlanksOwned

LEMMA ClosingStays ==
  ASSUME FlowInv, Closing, gone => gone',
         \A u \in Tasks : Leaves(op[u]) => op'[u] = op[u] \/ Leaves(op'[u]) \/ gone'
  PROVE  Closing'
BY DEF Closing, Leaves

LEMMA Assembled ==
  ASSUME SoundInv, FlowInv', EditorTyped', NativeOne', NEW t \in Tasks,
         \A u \in Tasks : u # t => op'[u] = op[u], HasDoc(op'[t]),
         op[t].at \notin {"created", "closeLast", "destroy"}, op'[t].at # "created",
         UNCHANGED <<blanks, gone>>, issued \subseteq issued', Owned => Handed
  PROVE  SoundInv'
<1>1. BlanksOwned'
  <2>1. \A u \in Tasks : op'[u].at = "created" => op[u].at = "created" /\ op'[u].doc = op[u].doc
    OBVIOUS
  <2> QED BY <2>1, BlanksKept DEF BlanksOwned, SoundInv
<1>2. \A u \in Tasks : HasDoc(op'[u])
  BY DEF SoundInv
<1>3. Closing => Closing'
  BY ClosingStays DEF Leaves, SoundInv
<1> QED BY <1>1, <1>2, <1>3 DEF SoundInv, Handed, HasDoc

LEMMA Passes ==
  ASSUME SoundInv, FlowInv', EditorTyped', NEW t \in Tasks, Goes(t),
         op[t].at \notin {"native", "created", "closeLast", "destroy"},
         UNCHANGED <<stage, blanks, gone>>, issued \subseteq issued', Owned => Handed
  PROVE  SoundInv'
<1>1. PICK m : op' = [op EXCEPT ![t] = m] /\ m.at \notin {"native", "created"} /\ HasDoc(m)
  BY DEF Goes
<1>2. op'[t] = m /\ \A u \in Tasks : u # t => op'[u] = op[u]
  BY <1>1, OneMoves DEF SoundInv
<1>3. NativeOne'
  BY <1>1, <1>2 DEF NativeOne, SoundInv
<1> QED BY <1>1, <1>2, <1>3, Assembled

LEMMA Rests ==
  ASSUME SoundInv, FlowInv', EditorTyped', UNCHANGED <<op, gone, issued>>,
         stage' = "free" <=> stage = "free", blanks' \in Nat, blanks' <= blanks, Owned => Handed
  PROVE  SoundInv'
<1>1. NativeOne'
  BY DEF NativeOne, SoundInv
<1>2. BlanksOwned'
  BY BlanksKept DEF SoundInv
<1>3. \A u \in Tasks : HasDoc(op'[u])
  BY DEF SoundInv
<1>4. Closing => Closing'
  BY DEF Closing
<1> QED BY <1>1, <1>2, <1>3, <1>4 DEF SoundInv, Handed, HasDoc

\* The step of a command that changes none of the documents
Quietly == UNCHANGED <<live, issued, dirty, stage, blanks, gone>>

LEMMA GivesUp ==
  ASSUME SoundInv, FlowInv', EditorTyped', NEW t \in Tasks, WireKept, Quietly,
         UNCHANGED <<sess, pending>>, op' = [op EXCEPT ![t] = GiveUp(op[t])],
         op[t].at \in Holding \ {"native", "created"}
  PROVE  SoundInv'
<1>1. Goes(t)
  <2>1. PICK m : m = GiveUp(op[t])
    OBVIOUS
  <2>2. m.at \in {"idle", "drop"} /\ HasDoc(m)
    BY <2>1, GiveUpWent DEF SoundInv
  <2> QED BY <2>1, <2>2 DEF Goes
<1>2. Owned => Handed
  BY GiveUpOwned DEF SoundInv, Handed, Quietly
<1> QED BY <1>1, <1>2, Passes DEF Quietly, Holding

LEMMA GoesToAnother ==
  ASSUME SoundInv, FlowInv', EditorTyped', NEW t \in Tasks, NEW m, WireKept, Quietly,
         UNCHANGED pending, sess'.doc = sess.doc, sess' = NoSession <=> sess = NoSession,
         op' = [op EXCEPT ![t] = m], m.at \in Holding \ {"native", "created"}, HasDoc(m),
         op[t].at \in (Holding \ {"native", "created"}) \cup {"idle"},
         op[t].at \in Holding => m.doc = op[t].doc, op[t].at = "idle" => m.doc = NoDoc,
         Saves(m) => Saves(op[t]) \/ sess # NoSession
  PROVE  SoundInv'
<1>1. Goes(t)
  BY DEF Goes
<1>2. Owned => Owned'
  <2>1. Steady
    BY DEF Steady, Quietly
  <2> QED BY <2>1, GoesOn DEF SoundInv
<1> QED BY <1>1, <1>2, Passes DEF Quietly, Holding, Handed

LEMMA AbortPendingGoes ==
  ASSUME FlowInv, NEW t \in Tasks, NEW o \in Task, AbortPending(t, o)
  PROVE  Goes(t)
<1>1. PICK m : /\ m = IF pending # NoDoc THEN [o EXCEPT !.at = "abort", !.old = pending] ELSE Onward(o)
               /\ op' = [op EXCEPT ![t] = m]
  BY DEF AbortPending, GoTo
<1>2. m.at \in {"abort", "create", "read", "closeLast", "destroy"}
  BY <1>1 DEF Onward, Task
<1> QED BY <1>1, <1>2 DEF Goes, HasDoc, SaveAwaits

LEMMA ProceedGoes ==
  ASSUME FlowInv, NEW t \in Tasks, NEW o \in Task, o.goal = "open" => o.doc \in Docs, Proceed(t, o)
  PROVE  Goes(t)
<1>1. CASE o.goal = "open"
  <2>1. PICK m : m = [o EXCEPT !.at = "load"]
    OBVIOUS
  <2>2. m.at = "load" /\ m.doc = o.doc
    BY <2>1 DEF Task
  <2> QED BY <1>1, <2>1, <2>2 DEF Proceed, GoTo, Goes, HasDoc
<1>2. CASE o.goal # "open"
  BY <1>2, AbortPendingGoes DEF Proceed
<1> QED BY <1>1, <1>2

LEMMA GuardedGoes ==
  ASSUME FlowInv, NEW t \in Tasks, NEW o \in Task, o.goal = "open" => o.doc \in Docs, Guarded(t, o)
  PROVE  Goes(t)
<1>1. CASE unsaved
  <2>1. PICK m : m = [o EXCEPT !.at = "confirm"]
    OBVIOUS
  <2>2. m.at = "confirm" /\ m.doc = o.doc /\ m.goal = o.goal
    BY <2>1 DEF Task
  <2> QED BY <1>1, <2>1, <2>2 DEF Guarded, GoTo, Goes, HasDoc, SaveAwaits
<1>2. CASE ~unsaved
  BY <1>2, ProceedGoes DEF Guarded
<1> QED BY <1>1, <1>2

\* A command that has been let through, or has to ask first
LEMMA ProceedSound ==
  ASSUME SoundInv, FlowInv', EditorTyped', NEW t \in Tasks, NEW o \in Task, Proceed(t, o), Quietly,
         op[t].at \in (Holding \ {"native", "created"}) \cup {"idle"},
         o.goal = "open" => o.doc \in Docs,
         op[t].at \in Holding => o.doc = op[t].doc, op[t].at = "idle" => o.doc = NoDoc
  PROVE  SoundInv'
<1>1. Goes(t)
  BY ProceedGoes DEF SoundInv
<1>2. Owned => Handed
  BY ProceedOwned DEF SoundInv, Quietly
<1> QED BY <1>1, <1>2, Passes DEF Quietly, Holding

LEMMA GuardedSound ==
  ASSUME SoundInv, FlowInv', EditorTyped', NEW t \in Tasks, NEW o \in Task, Guarded(t, o), Quietly,
         op[t].at \in (Holding \ {"native", "created"}) \cup {"idle"},
         o.goal = "open" => o.doc \in Docs,
         op[t].at \in Holding => o.doc = op[t].doc, op[t].at = "idle" => o.doc = NoDoc
  PROVE  SoundInv'
<1>1. Goes(t)
  BY GuardedGoes DEF SoundInv
<1>2. Owned => Handed
  BY GuardedOwned DEF SoundInv, Quietly
<1> QED BY <1>1, <1>2, Passes DEF Quietly, Holding

LEMMA CaptureIs ==
  ASSUME NEW o \in Task, NEW as
  PROVE  /\ Capture(o, as).at \in {"choose", "check"}
         /\ Capture(o, as).doc = o.doc /\ Capture(o, as).goal = o.goal
BY DEF Capture, Task

\* The waits of a command keep the document it needs.
LEMMA HasDocKept ==
  ASSUME NEW o, HasDoc(o), o.at \in SaveAwaits \cup {"confirm"},
         NEW m, m.at \in SaveAwaits, m.doc = o.doc, m.goal = o.goal
  PROVE  HasDoc(m)
BY DEF HasDoc, SaveAwaits

-----------------------------------------------------------------------------
(* The steps of a save                                                      *)

LEMMA StartSaveSound ==
  ASSUME SoundInv, FlowInv', EditorTyped', NEW t \in Tasks, NEW as, StartSave(t, as)
  PROVE  SoundInv'
<1>1. PICK m : m = Capture(NoTask, as)
  OBVIOUS
<1>2. m.at \in {"choose", "check"} /\ m.doc = NoDoc /\ m.goal = "save"
  BY <1>1, CaptureIs, AtOf DEF SoundInv, NoTask
<1>3. GoTo(t, m) /\ WireKept /\ op[t].at = "idle" /\ sess # NoSession
  BY <1>1, GoToKeeps DEF StartSave, MayStart, SoundInv
<1>4. Quietly /\ UNCHANGED <<pending, sess>>
  BY DEF StartSave, Quietly, vars, sessionVars, editorVars
<1>5. HasDoc(m) /\ m.at \in Holding \ {"native", "created"}
  BY <1>2 DEF HasDoc, Holding
<1> QED BY <1>2, <1>3, <1>4, <1>5, GoesToAnother DEF GoTo, Holding

\* The save goes to its next wait.
LEMMA SaveGoes ==
  ASSUME SoundInv, FlowInv', EditorTyped', NEW t \in Tasks, NEW m, GoTo(t, m) \/ Answered(t, m),
         WireKept, Quietly, UNCHANGED <<sess, pending>>,
         op[t].at \in (SaveAwaits \ {"native"}) \cup {"confirm"}, m.at \in SaveAwaits \ {"native"},
         m.doc = op[t].doc, m.goal = op[t].goal,
         op[t].at = "confirm" => sess # NoSession
  PROVE  SoundInv'
<1>1. op' = [op EXCEPT ![t] = m]
  BY DEF GoTo, Answered
<1>2. HasDoc(m)
  BY HasDocKept DEF SoundInv
<1>3. /\ m.at \in Holding \ {"native", "created"} /\ op[t].at \in Holding \ {"native", "created"}
      /\ (Saves(m) => Saves(op[t]) \/ sess # NoSession) /\ op[t].at # "idle"
  BY DEF SaveAwaits, Holding, Saves
<1> QED BY <1>1, <1>2, <1>3, GoesToAnother

LEMMA ChoosePathSound ==
  ASSUME SoundInv, FlowInv', EditorTyped', NEW t \in Tasks, NEW p, ChoosePath(t, p)
  PROVE  SoundInv'
<1>1. PICK m : m = [op[t] EXCEPT !.save.path = p, !.at = "check"]
  OBVIOUS
<1>2. m.at = "check" /\ m.doc = op[t].doc /\ m.goal = op[t].goal
  BY <1>1, AtOf DEF SoundInv, Task
<1>3. GoTo(t, m) /\ WireKept /\ op[t].at = "choose"
  BY <1>1, GoToKeeps DEF ChoosePath, SoundInv
<1>4. Quietly /\ UNCHANGED <<pending, sess>>
  BY DEF ChoosePath, Quietly, vars, sessionVars, editorVars
<1> QED BY <1>2, <1>3, <1>4, SaveGoes DEF SaveAwaits

LEMMA CheckExternalSound ==
  ASSUME SoundInv, FlowInv', EditorTyped', NEW t \in Tasks, CheckExternal(t)
  PROVE  SoundInv'
<1>1. PICK m : /\ Answered(t, m)
               /\ \/ m = GiveUp(op[t])
                  \/ \E a \in {"ask", "export"} : m = [op[t] EXCEPT !.at = a]
  BY DEF CheckExternal
<1>2. WireKept /\ op[t].at = "check" /\ op' = [op EXCEPT ![t] = m]
  BY <1>1, AnsweredKeeps DEF CheckExternal, SoundInv, Served, Answered
<1>3. Quietly /\ UNCHANGED <<pending, sess>>
  BY DEF CheckExternal, Quietly, vars, sessionVars, editorVars
<1>4. CASE m = GiveUp(op[t])
  BY <1>2, <1>3, <1>4, GivesUp DEF Holding
<1>5. ASSUME NEW a \in {"ask", "export"}, m = [op[t] EXCEPT !.at = a] PROVE SoundInv'
  <2>1. m.at = a /\ m.doc = op[t].doc /\ m.goal = op[t].goal
    BY <1>5, AtOf DEF SoundInv, Task
  <2> QED BY <1>1, <1>2, <1>3, <2>1, SaveGoes DEF SaveAwaits
<1> QED BY <1>1, <1>4, <1>5

LEMMA AllowOverwriteSound ==
  ASSUME SoundInv, FlowInv', EditorTyped', NEW t \in Tasks, AllowOverwrite(t) \/ Export(t)
  PROVE  SoundInv'
<1>1. PICK m : /\ GoTo(t, m)
               /\ \/ m = [op[t] EXCEPT !.allow = TRUE, !.at = "export"]
                  \/ m = [op[t] EXCEPT !.out = body, !.owner = shows, !.at = "commit"]
  BY DEF AllowOverwrite, Export
<1>2. m.at \in {"export", "commit"} /\ m.doc = op[t].doc /\ m.goal = op[t].goal
  BY <1>1, AtOf DEF SoundInv, Task
<1>3. WireKept /\ op[t].at \in {"ask", "export"}
  BY <1>1, GoToKeeps DEF AllowOverwrite, Export, SoundInv
<1>4. Quietly /\ UNCHANGED <<pending, sess>>
  BY DEF AllowOverwrite, Export, Quietly, vars, sessionVars, editorVars
<1> QED BY <1>1, <1>2, <1>3, <1>4, SaveGoes DEF SaveAwaits

\* The native side takes the save on while no other one is under way, ...
LEMMA CommitCallSound ==
  ASSUME SoundInv, FlowInv', EditorTyped', NEW t \in Tasks, CommitCall(t)
  PROVE  SoundInv'
<1>1. PICK r : r = RequestOf(op[t])
  OBVIOUS
<1>2. op[t].at = "commit" /\ stage = "free"
  BY DEF CommitCall, Served, Unlocked
<1>3. UNCHANGED <<sess, pending, blanks, gone, live, issued, dirty>>
  BY DEF CommitCall, CommitCheck, vars, sessionVars, editorVars
<1>4. CASE CommitCheck(r, r.fmt) /\ Answered(t, [op[t] EXCEPT !.at = "native"])
  <2>1. PICK m : m = [op[t] EXCEPT !.at = "native"]
    OBVIOUS
  <2>2. m.at = "native" /\ m.doc = op[t].doc /\ m.goal = op[t].goal
    BY <2>1, AtOf DEF SoundInv, Task
  <2>3. WireKept /\ op' = [op EXCEPT ![t] = m] /\ stage' = "write"
    BY <1>4, <2>1, AnsweredKeeps DEF CommitCall, CommitCheck, SoundInv, Answered
  <2>4. op'[t] = m /\ \A u \in Tasks : u # t => op'[u] = op[u]
    BY <2>3, OneMoves DEF SoundInv
  <2>5. HasDoc(op'[t])
    BY <1>2, <2>2, <2>4, HasDocKept DEF SoundInv, SaveAwaits
  <2>6. NativeOne'
    BY <1>2, <2>2, <2>3, <2>4 DEF NativeOne, SoundInv
  <2>7. Owned => Handed
    <3>1. Steady /\ m.at \in Holding /\ op[t].at \in Holding /\ Saves(op[t]) /\ op[t].at # "idle"
      BY <1>2, <1>3, <2>2 DEF Steady, Holding, Saves, SaveAwaits
    <3> QED BY <2>2, <2>3, <3>1, GoesOn DEF SoundInv, Handed
  <2> QED BY <1>2, <1>3, <2>2, <2>4, <2>5, <2>6, <2>7, Assembled
<1>5. CASE UNCHANGED vars /\ Answered(t, GiveUp(op[t]))
  <2>1. WireKept /\ op' = [op EXCEPT ![t] = GiveUp(op[t])] /\ Quietly
    BY <1>3, <1>5, AnsweredKeeps DEF CommitCall, SoundInv, Answered, Quietly, vars
  <2> QED BY <1>2, <1>3, <2>1, GivesUp DEF Holding
<1> QED BY <1>1, <1>4, <1>5 DEF CommitCall

LEMMA CommitRenameSound ==
  ASSUME SoundInv, FlowInv', EditorTyped', NEW t \in Tasks, CommitRename(t)
  PROVE  SoundInv'
<1>1. /\ UNCHANGED <<sess, pending, blanks, gone, live, issued, dirty, op, wire>>
      /\ stage # "free" /\ stage' # "free"
  BY DEF CommitRename, CommitWrite, editorVars
<1>2. Owned => Handed
  <2>1. WireKept /\ Steady
    BY <1>1 DEF WireKept, Steady, SoundInv, EditorTyped
  <2>2. \A u \in Tasks : op'[u] = op[u]
    BY <1>1
  <2> QED BY <2>1, <2>2, StaysOwned DEF SoundInv, Handed
<1>3. blanks' \in Nat /\ blanks' <= blanks
  BY <1>1 DEF SoundInv, BlanksOwned
<1> QED BY <1>1, <1>2, <1>3, Rests

\* ... and answers before it takes another.
LEMMA CommitEndsSound ==
  ASSUME SoundInv, FlowInv', EditorTyped', NEW t \in Tasks, CommitDone(t) \/ CommitFailed(t)
  PROVE  SoundInv'
<1>1. PICK m : /\ GoTo(t, m)
               /\ \/ m = GiveUp(op[t]) /\ CommitFailed(t)
                  \/ m = [op[t] EXCEPT !.at = "reply", !.save.rev = revision'[req.doc]] /\ CommitDone(t)
  BY DEF CommitDone, CommitFailed
<1>2. /\ UNCHANGED <<sess, pending, blanks, gone, live, issued>> /\ stage' = "free"
      /\ op[t].at = "native" /\ \A d \in live : dirty'[d] => dirty[d]
      /\ CommitFailed(t) => dirty' = dirty
  <2>1. dirty \in [Docs -> BOOLEAN] /\ live \subseteq Docs
    BY SessionsTyped DEF SoundInv
  <2> QED
    BY <2>1 DEF CommitDone, CommitFailed, CommitRefresh, CommitRefreshFails, CommitWriteFails,
                vars, sessionVars, editorVars
<1>3. WireKept /\ op' = [op EXCEPT ![t] = m] /\ op'[t] = m /\ \A u \in Tasks : u # t => op'[u] = op[u]
  BY <1>1, GoToKeeps, OneMoves DEF SoundInv, GoTo
<1>4. m.at \in {"reply", "idle", "drop"} /\ HasDoc(m)
  <2>1. CASE m = GiveUp(op[t])
    BY <2>1, GiveUpWent DEF SoundInv
  <2>2. CASE m = [op[t] EXCEPT !.at = "reply", !.save.rev = revision'[req.doc]]
    <3>1. m.at = "reply" /\ m.doc = op[t].doc /\ m.goal = op[t].goal
      BY <2>2, AtOf DEF SoundInv, Task
    <3>2. HasDoc(m)
      BY <1>2, <3>1, HasDocKept DEF SoundInv, SaveAwaits
    <3> QED BY <3>1, <3>2
  <2> QED BY <1>1, <2>1, <2>2
<1>5. NativeOne'
  BY <1>2, <1>3, <1>4 DEF NativeOne, SoundInv
<1>6. Owned => Handed
  <2>1. CASE m = GiveUp(op[t]) /\ dirty' = dirty
    BY <1>2, <1>3, <2>1, GiveUpOwned DEF SoundInv, Handed, Holding
  <2>2. CASE m = [op[t] EXCEPT !.at = "reply", !.save.rev = revision'[req.doc]]
    <3>1. m.at = "reply" /\ m.doc = op[t].doc
      BY <2>2, AtOf DEF SoundInv, Task
    <3>2. Steady /\ m.at \in Holding /\ op[t].at \in Holding /\ Saves(op[t]) /\ op[t].at # "idle"
      BY <1>2, <3>1 DEF Steady, Holding, Saves, SaveAwaits
    <3> QED BY <1>3, <3>1, <3>2, GoesOn DEF SoundInv, Handed
  <2> QED BY <1>1, <1>2, <2>1, <2>2
<1> QED BY <1>2, <1>3, <1>4, <1>5, <1>6, Assembled

LEMMA CommitSaveSound ==
  ASSUME SoundInv, FlowInv', EditorTyped', NEW t \in Tasks, CommitSave(t)
  PROVE  SoundInv'
<1>1. PICK m : /\ GoTo(t, m)
               /\ \/ m = GiveUp(op[t]) /\ UNCHANGED sess
                  \/ /\ m = [op[t] EXCEPT !.at = "notify"]
                     /\ sess = NoSession \/ sess.doc = op[t].save.doc
                     /\ sess' = SessionOf(op[t].save.doc, op[t].save.path, op[t].save.rev)
  BY DEF CommitSave
<1>2. WireKept /\ op' = [op EXCEPT ![t] = m] /\ op[t].at = "reply" /\ pending' = pending /\ Quietly
  BY <1>1, GoToKeeps
     DEF CommitSave, GoTo, SoundInv, Quietly, vars, sessionVars, editorVars
<1>3. CASE m = GiveUp(op[t]) /\ UNCHANGED sess
  BY <1>2, <1>3, GivesUp DEF Holding
<1>4. CASE /\ m = [op[t] EXCEPT !.at = "notify"]
           /\ sess = NoSession \/ sess.doc = op[t].save.doc
           /\ sess' = SessionOf(op[t].save.doc, op[t].save.path, op[t].save.rev)
  <2>1. m.at = "notify" /\ m.doc = op[t].doc /\ m.goal = op[t].goal
    BY <1>4, AtOf DEF SoundInv, Task
  <2>2. HasDoc(m)
    BY <1>2, <2>1, HasDocKept DEF SoundInv, SaveAwaits
  <2>3. Goes(t)
    BY <1>2, <2>1, <2>2 DEF Goes
  <2>4. ASSUME Owned PROVE Owned'
    <3>1. sess # NoSession /\ sess.doc \in Docs
      BY <1>2, <2>4, SessionsTyped DEF Owned, SessionOwned, SaveAwaits, SoundInv
    <3>2. sess'.doc = sess.doc
      BY <1>4, <3>1 DEF SessionOf
    <3>3. sess' # NoSession
      BY <3>1, <3>2, SessionsTyped DEF SoundInv
    <3>4. Steady /\ m.at \in Holding /\ op[t].at \in Holding /\ Saves(op[t]) /\ op[t].at # "idle"
      BY <1>2, <2>1, <3>1, <3>2, <3>3 DEF Steady, Holding, Saves, SaveAwaits, Quietly
    <3> QED BY <1>2, <2>1, <2>4, <3>4, GoesOn DEF SoundInv
  <2> QED BY <1>2, <2>3, <2>4, Passes DEF Quietly, Handed
<1> QED BY <1>1, <1>3, <1>4

LEMMA NotifySavedSound ==
  ASSUME SoundInv, FlowInv', EditorTyped', NEW t \in Tasks, NotifySaved(t)
  PROVE  SoundInv'
<1>1. op[t] \in Task /\ op[t].at = "notify" /\ Quietly /\ HasDoc(op[t])
  BY AtOf DEF NotifySaved, SoundInv, Quietly, vars, sessionVars
<1>2. CASE op[t].goal = "save"
  <2>1. GoTo(t, GiveUp(op[t])) /\ UNCHANGED <<sess, pending>>
    BY <1>2 DEF NotifySaved, GiveUp
  <2> QED BY <1>1, <2>1, GoToKeeps, GivesUp DEF GoTo, Holding, SoundInv
<1>3. CASE op[t].goal # "save"
  <2>1. Proceed(t, op[t])
    BY <1>3 DEF NotifySaved
  <2>2. op[t].goal = "open" => op[t].doc \in Docs
    BY <1>1 DEF HasDoc, SaveAwaits
  <2> QED BY <1>1, <2>1, <2>2, ProceedSound DEF Holding
<1> QED BY <1>2, <1>3

-----------------------------------------------------------------------------
(* The steps of an open                                                     *)

LEMMA StartOpenSound ==
  ASSUME SoundInv, FlowInv', EditorTyped', NEW t \in Tasks, NEW p \in Paths, StartOpen(t, p)
  PROVE  SoundInv'
<1>1. PICK o : o = [NoTask EXCEPT !.goal = "open", !.path = p]
  OBVIOUS
<1>2. o \in Task /\ o.doc = NoDoc
  BY <1>1, AtOf DEF SoundInv, Task, Goals
<1>3. AbortPending(t, o) /\ op[t].at = "idle" /\ Quietly
  BY <1>1 DEF StartOpen, MayStart, Quietly, vars, sessionVars, editorVars
<1>4. Goes(t)
  BY <1>2, <1>3, AbortPendingGoes DEF SoundInv
<1>5. Owned => Handed
  BY <1>2, <1>3, AbortPendingOwned DEF SoundInv, Quietly, Holding
<1> QED BY <1>3, <1>4, <1>5, Passes DEF Quietly

LEMMA ReadSound ==
  ASSUME SoundInv, FlowInv', EditorTyped', NEW t \in Tasks, NEW print, Read(t, print)
  PROVE  SoundInv'
<1>1. PICK b : GoTo(t, [op[t] EXCEPT !.bytes = b, !.print = print, !.at = "track"])
  BY DEF Read
<1>2. PICK m : m = [op[t] EXCEPT !.bytes = b, !.print = print, !.at = "track"]
  OBVIOUS
<1>3. m.at = "track" /\ m.doc = op[t].doc /\ m.goal = op[t].goal
  BY <1>2, AtOf DEF SoundInv, Task
<1>4. GoTo(t, m) /\ WireKept /\ op[t].at = "read" /\ Quietly /\ UNCHANGED <<sess, pending>>
  BY <1>1, <1>2, GoToKeeps DEF Read, SoundInv, Quietly, vars, sessionVars, editorVars
<1>5. HasDoc(m) /\ ~Saves(m) /\ m.at \in Holding \ {"native", "created"}
  BY <1>3 DEF HasDoc, Saves, SaveAwaits, Holding
<1> QED BY <1>3, <1>4, <1>5, GoesToAnother DEF GoTo, Holding

LEMMA TrackSound ==
  ASSUME SoundInv, FlowInv', EditorTyped', NEW t \in Tasks, NEW d \in Docs, Track(t, d)
  PROVE  SoundInv'
<1>1. PICK m : m = [op[t] EXCEPT !.doc = d, !.at = "guard"]
  OBVIOUS
<1>2. m.at = "guard" /\ m.doc = d
  BY <1>1, AtOf DEF SoundInv, Task
<1>3. WireKept /\ op' = [op EXCEPT ![t] = m] /\ op[t].at = "track"
  BY <1>1, AnsweredKeeps DEF Track, Served, Answered, SoundInv
<1>4. /\ d \notin issued /\ live' = live \cup {d} /\ issued' = issued \cup {d}
      /\ dirty' = [dirty EXCEPT ![d] = FALSE]
      /\ UNCHANGED <<stage, sess, pending, blanks, gone>>
  BY DEF Track, OpenDocumentTracking, InsertSession, editorVars
<1>5. Goes(t)
  BY <1>2, <1>3 DEF Goes, HasDoc
<1>6. Owned => Owned'
  <2>1. ~dirty'[d] /\ \A e \in live : dirty'[e] = dirty[e]
    BY <1>4, SessionsTyped DEF SoundInv
  <2>2. Dooms(op[t]) = {} /\ Dooms(m) = {} /\ Owns(m) = {d} /\ ~Saves(m)
    BY <1>2, <1>3 DEF Dooms, Owns, Saves, SaveAwaits, Left
  <2> QED BY <1>3, <1>4, <2>1, <2>2, OneMoves, OpenedOwned DEF SoundInv
<1> QED BY <1>3, <1>4, <1>5, <1>6, Passes DEF Handed

LEMMA AskGuardSound ==
  ASSUME SoundInv, FlowInv', EditorTyped', NEW t \in Tasks, AskGuard(t)
  PROVE  SoundInv'
<1>1. op[t] \in Task /\ op[t].at = "guard" /\ Quietly /\ op[t].doc \in Docs /\ Guarded(t, op[t])
  BY AtOf DEF AskGuard, SoundInv, Quietly, vars, sessionVars, editorVars, HasDoc
<1> QED BY <1>1, GuardedSound DEF Holding

\* New content in the editor makes the prepared document the window's.
LEMMA CompleteTakes ==
  ASSUME FlowInv, EditorTyped, pending # NoDoc, CompletePending(wire),
         UNCHANGED <<live, issued, dirty>>, \A u \in Tasks : Dooms(op'[u]) = Dooms(op[u])
  PROVE  Takes(pending) /\ pending' = NoDoc /\ pending \in Docs
<1>1. pending \in Docs /\ sess' = SessionOf(pending, NoPath, 1) /\ pending' = NoDoc
  BY DEF FlowInv, WindowOK, CompletePending
<1>2. sess'.doc = pending /\ sess' # NoSession
  BY <1>1, SessionsTyped DEF SessionOf
<1>3. /\ Told(wire', "close") = Told(wire, "close") \cup ({sess.doc} \ {NoDoc})
      /\ Told(wire', "dirty") = Told(wire, "dirty")
  <2>1. CASE sess = NoSession
    <3>1. wire' = wire
      BY <2>1 DEF CompletePending
    <3> QED BY <2>1, <3>1, SessionsTyped
  <2>2. CASE sess # NoSession
    <3>1. PICK m : m = MessageOf("close", sess.doc)
      OBVIOUS
    <3>2. sess.doc \in Docs \cup {NoDoc} /\ wire \in Seq(Messages)
      BY DEF FlowInv, WindowOK, WindowSession, EditorTyped
    <3>3. m \in Messages /\ Longer(wire', wire, m)
      BY <2>2, <3>1, <3>2, MessageIs DEF CompletePending, Longer
    <3>4. About(m, "close") = {sess.doc} \ {NoDoc} /\ About(m, "dirty") = {}
      BY <3>1, <3>2, MessageIs, SessionsTyped DEF About
    <3>5. ASSUME NEW name PROVE Told(wire', name) = Told(wire, name) \cup About(m, name)
      <4>1. PICK v : v = wire'
        OBVIOUS
      <4> QED BY <3>2, <3>3, <4>1, WireAppend
    <3> QED BY <3>4, <3>5
  <2> QED BY <2>1, <2>2
<1>4. Doomed' = Doomed \cup ({sess.doc} \ {NoDoc})
  BY <1>3 DEF Doomed
<1> QED BY <1>1, <1>2, <1>3, <1>4 DEF Takes

LEMMA LoadSound ==
  ASSUME SoundInv, FlowInv', EditorTyped', NEW t \in Tasks, Load(t)
  PROVE  SoundInv'
<1>1. PICK m : m = [op[t] EXCEPT !.at = "commitOpen"]
  OBVIOUS
<1>2. m.at = "commitOpen" /\ m.doc = op[t].doc
  BY <1>1, AtOf DEF SoundInv, Task
<1>3. op[t].at = "load" /\ op' = [op EXCEPT ![t] = m] /\ op[t].doc \in Docs
  BY <1>1, AtOf DEF Load, SoundInv, FlowInv, HasDoc
<1>4. Quietly /\ CompletePending(wire)
  BY DEF Load, Quietly, vars, sessionVars
<1>5. op'[t] = m /\ \A u \in Tasks : u # t => op'[u] = op[u]
  BY <1>3, OneMoves DEF SoundInv
<1>6. Goes(t)
  BY <1>2, <1>3 DEF Goes, HasDoc
<1>7. /\ Dooms(m) = {} /\ Dooms(op[t]) = {} /\ Owns(m) = Owns(op[t])
      /\ m.at \in Holding /\ op[t].at \in Holding /\ op[t].at # "idle" /\ ~Saves(m)
  BY <1>2, <1>3 DEF Dooms, Owns, Left, Holding, Saves, SaveAwaits
<1>8. ASSUME Owned PROVE Owned'
  <2>1. CASE pending = NoDoc
    <3>1. WireKept /\ Steady
      BY <1>4, <2>1 DEF WireKept, CompletePending, Steady, Quietly, SoundInv, EditorTyped
    <3> QED BY <1>2, <1>3, <1>7, <1>8, <3>1, GoesOn DEF SoundInv
  <2>2. CASE pending # NoDoc
    <3>1. Takes(pending) /\ pending' = NoDoc /\ pending \in Docs
      BY <1>4, <1>5, <1>7, <2>2, CompleteTakes DEF SoundInv, Quietly
    <3>2. \A u \in Tasks : Owns(op'[u]) \subseteq Owns(op[u]) \ {pending}
      BY <1>5, <1>7, <1>8, <3>1 DEF Owned, HeldOwned
    <3> QED BY <1>8, <2>2, <3>1, <3>2, TakenOwned DEF SoundInv
  <2> QED BY <2>1, <2>2
<1> QED BY <1>3, <1>4, <1>6, <1>8, Passes DEF Quietly, Handed

LEMMA CommitOpenSound ==
  ASSUME SoundInv, FlowInv', EditorTyped', NEW t \in Tasks, CommitOpen(t)
  PROVE  SoundInv'
<1>1. PICK m : m = [op[t] EXCEPT !.at = "record", !.old = sess.doc]
  OBVIOUS
<1>2. PICK d : d = op[t].doc
  OBVIOUS
<1>3. m.at = "record" /\ m.old = sess.doc
  BY <1>1, AtOf DEF SoundInv, Task
<1>4. op[t].at = "commitOpen" /\ d \in Docs /\ GoTo(t, m) /\ WireKept /\ op' = [op EXCEPT ![t] = m]
  BY <1>1, <1>2, GoToKeeps DEF CommitOpen, SoundInv, HasDoc, GoTo
<1>5. Quietly /\ pending' = pending /\ sess'.doc = d /\ sess' # NoSession
  BY <1>2, <1>4, SessionsTyped
     DEF CommitOpen, Quietly, SessionOf, vars, sessionVars, editorVars, SoundInv
<1>6. op'[t] = m /\ \A u \in Tasks : u # t => op'[u] = op[u]
  BY <1>4, OneMoves DEF SoundInv
<1>7. Goes(t)
  BY <1>3, <1>4 DEF Goes, HasDoc, SaveAwaits
<1>8. /\ Dooms(m) = {sess.doc} \ {NoDoc} /\ Dooms(op[t]) = {} /\ Owns(m) = {}
      /\ Owns(op[t]) = {d}
  <2>1. sess.doc \in Docs \cup {NoDoc} /\ NoDoc \notin Docs
    BY SessionsTyped DEF SoundInv, FlowInv, WindowOK, WindowSession
  <2> QED BY <1>2, <1>3, <1>4, <2>1 DEF Dooms, Owns, Left
<1>9. ASSUME Owned PROVE Owned'
  <2>1. Doomed' = Doomed \cup ({sess.doc} \ {NoDoc})
    <3>1. PICK S : S = {sess.doc} \ {NoDoc}
      OBVIOUS
    <3>2. Dooms(op'[t]) = S /\ \A u \in Tasks : u # t => Dooms(op'[u]) = Dooms(op[u])
      BY <1>6, <1>8, <3>1
    <3>3. S \subseteq Docs
      BY <1>8, <3>1 DEF Dooms
    <3>4. Told(wire', "close") = Told(wire, "close")
      BY <1>4 DEF WireKept
    <3>5. Doomed' = Doomed \cup S
      BY <1>8, <3>2, <3>3, <3>4 DEF Doomed
    <3> QED BY <3>1, <3>5
  <2>2. Takes(d)
    BY <1>4, <1>5, <2>1 DEF Takes, Quietly, WireKept
  <2>3. \A u \in Tasks : Owns(op'[u]) \subseteq Owns(op[u]) \ {d}
    BY <1>6, <1>8, <1>9 DEF Owned, HeldOwned
  <2>4. d # pending'
    BY <1>5, <1>8, <1>9 DEF Owned, HeldOwned
  <2> QED BY <1>4, <1>5, <1>8, <1>9, <2>2, <2>3, <2>4, TakenOwned DEF SoundInv
<1> QED BY <1>4, <1>5, <1>7, <1>9, Passes DEF Quietly, Handed

LEMMA RecordedSound ==
  ASSUME SoundInv, FlowInv', EditorTyped', NEW t \in Tasks, Recorded(t)
  PROVE  SoundInv'
<1>1. PICK m : m = IF op[t].old = NoDoc THEN NoTask ELSE [op[t] EXCEPT !.at = "closePrevious"]
  OBVIOUS
<1>2. op[t].at = "record" /\ GoTo(t, m) /\ WireKept /\ op' = [op EXCEPT ![t] = m]
  BY <1>1, GoToKeeps DEF Recorded, SoundInv, GoTo
<1>3. Quietly /\ UNCHANGED <<sess, pending>>
  BY DEF Recorded, Quietly, vars, sessionVars, editorVars
<1>4. /\ m.at \in {"idle", "closePrevious"} /\ HasDoc(m) /\ Owns(m) = {} /\ Dooms(m) = Dooms(op[t])
      /\ ~Saves(m)
  <2>1. CASE op[t].old = NoDoc
    BY <1>1, <1>2, <2>1, AtOf, SessionsTyped DEF Dooms, SoundInv
  <2>2. CASE op[t].old # NoDoc
    <3>1. m.at = "closePrevious" /\ m.old = op[t].old
      BY <1>1, <2>2, AtOf DEF SoundInv, Task
    <3> QED BY <1>2, <3>1 DEF Dooms, Owns, HasDoc, SaveAwaits, Saves, Left
  <2> QED BY <2>1, <2>2
<1>5. Goes(t)
  BY <1>2, <1>4 DEF Goes
<1>6. Owned => Owned'
  <2>1. Steady
    BY <1>3 DEF Steady, Quietly
  <2> QED BY <1>2, <1>4, <2>1, OneMoves, StaysOwned DEF SoundInv
<1> QED BY <1>2, <1>3, <1>5, <1>6, Passes DEF Quietly, Handed

\* closeNativeDocument: what is closed is gone, and the rest is as it was.
LEMMA CloseNativeIs ==
  ASSUME FlowInv, NEW d \in Docs \cup {NoDoc}, CloseNative(d)
  PROVE  /\ live' = live \ {d} /\ UNCHANGED <<issued, stage>>
         /\ \A e \in live \ {d} : dirty'[e] = dirty[e]
<1>1. live \subseteq Docs /\ dirty \in [Docs -> BOOLEAN]
  BY SessionsTyped
<1>2. CASE d \in live
  BY <1>1, <1>2 DEF CloseNative, CloseDocument
<1>3. CASE d \notin live
  BY <1>1, <1>3 DEF CloseNative, vars, sessionVars
<1> QED BY <1>2, <1>3

LEMMA ClosesOwned ==
  ASSUME FlowInv, Owned, WireKept, NEW t \in Tasks, NEW m, op' = [op EXCEPT ![t] = m],
         NEW d \in Docs \cup {NoDoc}, CloseNative(d), UNCHANGED <<sess, pending>>,
         Dooms(op[t]) = {d} \cap Docs, Dooms(m) = {}, Owns(m) \subseteq Owns(op[t]), ~Saves(m)
  PROVE  Owned'
<1>1. op'[t] = m /\ \A u \in Tasks : u # t => op'[u] = op[u]
  BY OneMoves
<1>2. /\ live' = live \ {d} /\ UNCHANGED <<issued, stage>>
      /\ \A e \in live \ {d} : dirty'[e] = dirty[e]
  BY CloseNativeIs
<1>3. \A u \in Tasks : /\ Owns(op'[u]) \subseteq Owns(op[u])
                       /\ Saves(op'[u]) => Saves(op[u])
  BY <1>1
<1>4. CASE d \in Docs
  <2>1. d \in Doomed
    BY <1>4 DEF Doomed
  <2>2. Doomed' \subseteq Doomed /\ Doomed \subseteq Doomed' \cup {d}
    BY <1>1 DEF Doomed, WireKept
  <2>3. Told(wire', "dirty") = Told(wire, "dirty")
    BY DEF WireKept
  <2> QED BY <1>2, <1>3, <1>4, <2>1, <2>2, <2>3, ClosedOwned DEF Closes
<1>5. CASE d \notin Docs
  <2>1. d \notin live
    BY <1>5, SessionsTyped
  <2>2. Steady
    BY <1>2, <2>1 DEF Steady
  <2>3. \A u \in Tasks : Dooms(op'[u]) = Dooms(op[u])
    BY <1>1, <1>5
  <2> QED BY <1>3, <2>2, <2>3, StaysOwned
<1> QED BY <1>4, <1>5

LEMMA CloseStepsSound ==
  ASSUME SoundInv, FlowInv', EditorTyped', NEW t \in Tasks, ClosePrevious(t) \/ Drop(t)
  PROVE  SoundInv'
<1>1. PICK d : /\ CloseNative(d)
               /\ \/ op[t].at = "closePrevious" /\ d = op[t].old
                  \/ op[t].at = "drop" /\ d = op[t].doc
  BY DEF ClosePrevious, Drop, Served
<1>2. d \in Docs \cup {NoDoc}
  BY <1>1, AtOf DEF SoundInv, Task
<1>3. op' = [op EXCEPT ![t] = NoTask] /\ WireKept /\ UNCHANGED <<sess, pending, blanks, gone>>
  BY AnsweredKeeps DEF ClosePrevious, Drop, Answered, editorVars, SoundInv
<1>4. UNCHANGED <<issued, stage>>
  BY <1>1, <1>2, CloseNativeIs DEF SoundInv
<1>5. Goes(t)
  BY <1>3, AtOf DEF Goes, SoundInv
<1>6. Dooms(op[t]) = {d} \cap Docs
  BY <1>1 DEF Dooms, Left
<1>7. Owned => Owned'
  BY <1>1, <1>2, <1>3, <1>6, AtOf, ClosesOwned DEF SoundInv
<1> QED BY <1>1, <1>3, <1>4, <1>5, <1>7, Passes DEF Handed

LEMMA AbortedSound ==
  ASSUME SoundInv, FlowInv', EditorTyped', NEW t \in Tasks, Aborted(t)
  PROVE  SoundInv'
<1>1. PICK m : m = Onward(op[t])
  OBVIOUS
<1>2. PICK d : d = op[t].old
  OBVIOUS
<1>3. /\ CloseNative(d) /\ op[t].at = "abort" /\ WireKept /\ op' = [op EXCEPT ![t] = m]
      /\ sess' = SessionOnward(op[t]) /\ UNCHANGED <<pending, blanks, gone>>
  BY <1>1, <1>2, AnsweredKeeps DEF Aborted, Served, Answered, editorVars, SoundInv
<1>4. d \in Docs \cup {NoDoc}
  BY <1>2, AtOf DEF SoundInv, Task
<1>5. UNCHANGED <<issued, stage>>
  BY <1>3, <1>4, CloseNativeIs DEF SoundInv
<1>6. /\ m.at \in {"create", "read", "closeLast", "destroy"}
      /\ op[t].goal = "close" => m.at \in {"closeLast", "destroy"}
      /\ op[t].goal # "close" => m.at \in {"create", "read"} /\ m.doc = op[t].doc
  BY <1>1, AtOf DEF Onward, Task, SoundInv
<1>7. Goes(t)
  BY <1>3, <1>6 DEF Goes, HasDoc, SaveAwaits
<1>8. Owned => Handed
  <2>1. CASE op[t].goal = "close"
    <3>1. op'[t] = m
      BY <1>3, OneMoves DEF SoundInv
    <3> QED BY <1>6, <2>1, <3>1 DEF Handed, Closing, Leaves
  <2>2. CASE op[t].goal # "close"
    <3>1. sess' = sess
      BY <1>3, <2>2 DEF SessionOnward
    <3>2. Dooms(op[t]) = {d} \cap Docs
      BY <1>2, <1>3 DEF Dooms, Left
    <3>3. Dooms(m) = {} /\ Owns(m) = Owns(op[t]) /\ ~Saves(m)
      BY <1>3, <1>6, <2>2 DEF Dooms, Owns, Left, Saves, SaveAwaits
    <3> QED BY <1>3, <1>4, <3>1, <3>2, <3>3, ClosesOwned DEF SoundInv, Handed
  <2> QED BY <2>1, <2>2
<1> QED BY <1>3, <1>5, <1>7, <1>8, Passes

-----------------------------------------------------------------------------
(* The steps of a new document, a close and the guard                       *)

LEMMA StartOtherSound ==
  ASSUME SoundInv, FlowInv', EditorTyped', NEW t \in Tasks, StartNew(t) \/ StartClose(t)
  PROVE  SoundInv'
<1>1. PICK g \in {"new", "close"} : Guarded(t, [NoTask EXCEPT !.goal = g])
  BY DEF StartNew, StartClose
<1>2. PICK o : o = [NoTask EXCEPT !.goal = g]
  OBVIOUS
<1>3. o \in Task /\ o.doc = NoDoc /\ o.goal = g
  BY <1>2, AtOf DEF SoundInv, Task, Goals
<1>4. Guarded(t, o) /\ op[t].at = "idle" /\ Quietly
  BY <1>1, <1>2 DEF StartNew, StartClose, MayStart, Quietly, vars, sessionVars, editorVars
<1> QED BY <1>3, <1>4, GuardedSound DEF Holding

LEMMA CreateSound ==
  ASSUME SoundInv, FlowInv', EditorTyped', NEW t \in Tasks, NEW d \in Docs, Create(t, d)
  PROVE  SoundInv'
<1>1. PICK m : m = [op[t] EXCEPT !.doc = d, !.at = "created"]
  OBVIOUS
<1>2. m.at = "created" /\ m.doc = d
  BY <1>1, AtOf DEF SoundInv, Task
<1>3. WireKept /\ op' = [op EXCEPT ![t] = m] /\ op[t].at = "create"
  BY <1>1, AnsweredKeeps DEF Create, Served, Answered, SoundInv
<1>4. /\ d \notin issued /\ live' = live \cup {d} /\ issued' = issued \cup {d}
      /\ dirty' = [dirty EXCEPT ![d] = FALSE]
      /\ UNCHANGED <<stage, sess, pending, blanks, gone>>
  BY DEF Create, CreateDocument, InsertSession, editorVars
<1>5. op'[t] = m /\ \A u \in Tasks : u # t => op'[u] = op[u]
  BY <1>3, OneMoves DEF SoundInv
<1>6. Owned => Owned'
  <2>1. ~dirty'[d] /\ \A e \in live : dirty'[e] = dirty[e]
    BY <1>4, SessionsTyped DEF SoundInv
  <2>2. Dooms(op[t]) = {} /\ Dooms(m) = {} /\ Owns(m) = {d} /\ ~Saves(m)
    BY <1>2, <1>3 DEF Dooms, Owns, Saves, SaveAwaits, Left
  <2> QED BY <1>3, <1>4, <1>5, <2>1, <2>2, OpenedOwned DEF SoundInv
<1>7. NativeOne'
  BY <1>2, <1>3, <1>4, <1>5 DEF NativeOne, SoundInv
<1>8. BlanksOwned'
  <2>1. Fresh' = Fresh \cup {d} /\ d \notin Fresh
    BY <1>2, <1>3, <1>4, <1>5 DEF Fresh, SoundInv, BlanksOwned
  <2>2. IsFiniteSet(issued) /\ IsFiniteSet(Fresh)
    BY SessionsTyped, FS_Subset DEF BlanksOwned, SoundInv
  <2>3. /\ Cardinality(issued') = Cardinality(issued) + 1 /\ Cardinality(issued) \in Nat
        /\ Cardinality(Fresh') = Cardinality(Fresh) + 1 /\ Cardinality(Fresh) \in Nat
    BY <1>4, <2>1, <2>2, FS_AddElement, FS_CardinalityType
  <2>4. Fresh' \subseteq issued' /\ \A u \in Tasks : op'[u].at = "created" => op'[u].doc \in Docs
    BY <1>2, <1>4, <1>5, <2>1 DEF BlanksOwned, SoundInv
  <2>5. \A u, w \in Tasks :
          op'[u].at = "created" /\ op'[w].at = "created" /\ op'[u].doc = op'[w].doc => u = w
    BY <1>2, <1>5, <2>1 DEF BlanksOwned, SoundInv, Fresh
  <2>6. blanks' \in Nat /\ blanks' + Cardinality(Fresh') <= Cardinality(issued')
    BY <1>4, <2>3 DEF BlanksOwned, SoundInv
  <2> QED BY <2>4, <2>5, <2>6 DEF BlanksOwned
<1>9. \A u \in Tasks : HasDoc(op'[u])
  BY <1>2, <1>4, <1>5 DEF SoundInv, HasDoc
<1>10. Closing => Closing'
  BY <1>3, <1>4, <1>5, ClosingStays DEF Leaves, SoundInv
<1> QED BY <1>6, <1>7, <1>8, <1>9, <1>10 DEF SoundInv, HasDoc

LEMMA CreatedSound ==
  ASSUME SoundInv, FlowInv', EditorTyped', NEW t \in Tasks, Created(t)
  PROVE  SoundInv'
<1>1. PICK d : d = op[t].doc
  OBVIOUS
<1>2. /\ op[t].at = "created" /\ GoTo(t, NoTask) /\ WireKept /\ op' = [op EXCEPT ![t] = NoTask]
      /\ pending' = d /\ blanks' = blanks + 1 /\ UNCHANGED <<sess, live, issued, dirty, stage, gone>>
  BY <1>1, GoToKeeps DEF Created, GoTo, vars, sessionVars, SoundInv
<1>3. op'[t] = NoTask /\ \A u \in Tasks : u # t => op'[u] = op[u]
  BY <1>2, OneMoves DEF SoundInv
<1>4. d \in Docs /\ NoTask.at = "idle" /\ HasDoc(NoTask)
  BY <1>1, <1>2, AtOf DEF SoundInv, BlanksOwned
<1>5. Owned => Owned'
  <2>1. d \in Owns(op[t]) /\ Dooms(op[t]) = {}
    BY <1>1, <1>2, <1>4 DEF Owns, Dooms, Left
  <2> QED BY <1>2, <1>3, <2>1, AtOf, PreparedOwned DEF SoundInv
<1>6. NativeOne'
  BY <1>2, <1>3, <1>4 DEF NativeOne, SoundInv
<1>7. BlanksOwned'
  <2>1. Fresh' = Fresh \ {d} /\ d \in Fresh
    BY <1>1, <1>2, <1>3, <1>4 DEF Fresh, SoundInv, BlanksOwned
  <2>2. IsFiniteSet(issued) /\ IsFiniteSet(Fresh)
    BY SessionsTyped, FS_Subset DEF BlanksOwned, SoundInv
  <2>3. /\ Cardinality(issued) \in Nat
        /\ Cardinality(Fresh') = Cardinality(Fresh) - 1 /\ Cardinality(Fresh) \in Nat
    BY <2>1, <2>2, FS_RemoveElement, FS_CardinalityType
  <2>4. Fresh' \subseteq issued' /\ \A u \in Tasks : op'[u].at = "created" => op'[u].doc \in Docs
    BY <1>2, <1>3, <1>4, <2>1 DEF BlanksOwned, SoundInv
  <2>5. \A u, w \in Tasks :
          op'[u].at = "created" /\ op'[w].at = "created" /\ op'[u].doc = op'[w].doc => u = w
    BY <1>3, <1>4 DEF BlanksOwned, SoundInv
  <2>6. blanks' \in Nat /\ blanks' + Cardinality(Fresh') <= Cardinality(issued')
    BY <1>2, <2>3 DEF BlanksOwned, SoundInv
  <2> QED BY <2>4, <2>5, <2>6 DEF BlanksOwned
<1>8. \A u \in Tasks : HasDoc(op'[u])
  BY <1>3, <1>4 DEF SoundInv
<1>9. Closing => Closing'
  BY <1>2, <1>3, ClosingStays DEF Leaves, SoundInv
<1> QED BY <1>5, <1>6, <1>7, <1>8, <1>9 DEF SoundInv, HasDoc

\* A window that closes stays one.
LEMMA CloseLastSound ==
  ASSUME SoundInv, FlowInv', EditorTyped', NEW t \in Tasks, CloseLast(t)
  PROVE  SoundInv'
<1>1. PICK m : m = [op[t] EXCEPT !.at = "destroy"]
  OBVIOUS
<1>2. m.at = "destroy" /\ op[t].old \in Docs \cup {NoDoc}
  BY <1>1, AtOf DEF SoundInv, Task
<1>3. op[t].at = "closeLast" /\ op' = [op EXCEPT ![t] = m] /\ UNCHANGED <<blanks, gone>>
  BY <1>1 DEF CloseLast, Served, Answered, editorVars
<1>4. UNCHANGED <<issued, stage>>
  BY <1>2, CloseNativeIs DEF CloseLast, SoundInv
<1>5. op'[t] = m /\ \A u \in Tasks : u # t => op'[u] = op[u]
  BY <1>3, OneMoves DEF SoundInv
<1>6. Closing'
  BY <1>2, <1>5 DEF Closing, Leaves
<1>7. NativeOne'
  BY <1>2, <1>3, <1>4, <1>5 DEF NativeOne, SoundInv
<1>8. BlanksOwned'
  <2>1. \A u \in Tasks : op'[u].at = "created" => op[u].at = "created" /\ op'[u].doc = op[u].doc
    BY <1>2, <1>5
  <2> QED BY <1>3, <1>4, <2>1, BlanksKept DEF SoundInv, BlanksOwned
<1>9. \A u \in Tasks : HasDoc(op'[u])
  BY <1>2, <1>5 DEF SoundInv, HasDoc, SaveAwaits
<1> QED BY <1>6, <1>7, <1>8, <1>9 DEF SoundInv, HasDoc

LEMMA DestroySound ==
  ASSUME SoundInv, FlowInv', EditorTyped', NEW t \in Tasks, Destroy(t)
  PROVE  SoundInv'
<1>1. /\ gone' /\ stage = "free" /\ UNCHANGED <<blanks, issued, stage>>
      /\ \A u \in Tasks : op'[u] = NoTask
  BY DEF Destroy, Served, Unlocked, vars, sessionVars, editorVars
<1>2. NoTask.at = "idle" /\ HasDoc(NoTask)
  BY AtOf DEF SoundInv
<1>3. Closing' /\ NativeOne'
  BY <1>1, <1>2 DEF Closing, NativeOne
<1>4. BlanksOwned'
  BY <1>1, <1>2, BlanksKept DEF SoundInv, BlanksOwned
<1>5. \A u \in Tasks : HasDoc(op'[u])
  BY <1>1, <1>2
<1> QED BY <1>3, <1>4, <1>5 DEF SoundInv, HasDoc

LEMMA DiscardSound ==
  ASSUME SoundInv, FlowInv', EditorTyped', NEW t \in Tasks, Discard(t)
  PROVE  SoundInv'
<1>1. op[t] \in Task /\ op[t].at = "confirm" /\ Quietly /\ Proceed(t, op[t])
  BY AtOf DEF Discard, SoundInv, Quietly, vars, sessionVars, editorVars
<1>2. op[t].goal = "open" => op[t].doc \in Docs
  BY <1>1 DEF SoundInv, HasDoc
<1> QED BY <1>1, <1>2, ProceedSound DEF Holding

LEMMA SaveFirstSound ==
  ASSUME SoundInv, FlowInv', EditorTyped', NEW t \in Tasks, SaveFirst(t) \/ Fails(t)
  PROVE  SoundInv'
<1>1. PICK m : /\ GoTo(t, m)
               /\ \/ m = GiveUp(op[t])
                  \/ m = Capture(op[t], FALSE) /\ sess # NoSession /\ op[t].at = "confirm"
  BY DEF SaveFirst, Fails
<1>2. /\ WireKept /\ op' = [op EXCEPT ![t] = m] /\ Quietly /\ UNCHANGED <<sess, pending>>
      /\ op[t].at \in Holding \ {"native", "created"}
  BY <1>1, GoToKeeps
     DEF SaveFirst, Fails, GoTo, SoundInv, Quietly, vars, sessionVars, editorVars, Holding
<1>3. CASE m = GiveUp(op[t])
  BY <1>2, <1>3, GivesUp
<1>4. CASE m = Capture(op[t], FALSE) /\ sess # NoSession /\ op[t].at = "confirm"
  <2>1. m.at \in {"choose", "check"} /\ m.doc = op[t].doc /\ m.goal = op[t].goal
    BY <1>4, CaptureIs, AtOf DEF SoundInv
  <2> QED BY <1>1, <1>2, <1>4, <2>1, SaveGoes DEF SaveAwaits
<1> QED BY <1>1, <1>3, <1>4

-----------------------------------------------------------------------------
(* The editor, and the messages nobody waits for                            *)

LEMMA BlankSound ==
  ASSUME SoundInv, FlowInv', EditorTyped', Blank
  PROVE  SoundInv'
<1>1. /\ UNCHANGED <<live, issued, dirty, stage, op, gone>> /\ CompletePending(wire)
      /\ blanks > 0 /\ blanks' = blanks - 1
  BY DEF Blank, NewContent, sessionVars
<1>2. blanks' \in Nat /\ blanks' <= blanks
  BY <1>1 DEF SoundInv, BlanksOwned
<1>3. \A u \in Tasks : op'[u] = op[u]
  BY <1>1
<1>4. ASSUME Owned PROVE Owned'
  <2>1. CASE pending = NoDoc
    <3>1. WireKept /\ Steady
      BY <1>1, <2>1 DEF WireKept, CompletePending, Steady, SoundInv, EditorTyped
    <3> QED BY <1>3, <1>4, <3>1, StaysOwned DEF SoundInv
  <2>2. CASE pending # NoDoc
    <3>1. Takes(pending) /\ pending' = NoDoc /\ pending \in Docs
      BY <1>1, <1>3, <2>2, CompleteTakes DEF SoundInv
    <3>2. \A u \in Tasks : Owns(op'[u]) \subseteq Owns(op[u]) \ {pending}
      BY <1>3, <1>4, <3>1 DEF Owned, HeldOwned
    <3> QED BY <1>4, <2>2, <3>1, <3>2, TakenOwned DEF SoundInv
  <2> QED BY <2>1, <2>2
<1> QED BY <1>1, <1>2, <1>4, Rests DEF Handed

LEMMA OutsideSound ==
  ASSUME SoundInv, FlowInv', EditorTyped', BlankFails \/ OtherPrograms \/ UNCHANGED flowVars
  PROVE  SoundInv'
<1>1. UNCHANGED <<live, issued, dirty, stage, op, gone, sess, pending, wire>>
  BY DEF BlankFails, OtherPrograms, ExternalWrite, ExternalDelete, flowVars, vars, sessionVars
<1>2. blanks' \in Nat /\ blanks' <= blanks
  BY DEF SoundInv, BlanksOwned, BlankFails, OtherPrograms, flowVars, editorVars
<1>3. WireKept /\ Steady /\ \A u \in Tasks : op'[u] = op[u]
  BY <1>1 DEF WireKept, Steady, SoundInv, EditorTyped
<1>4. Owned => Owned'
  BY <1>3, StaysOwned DEF SoundInv
<1> QED BY <1>1, <1>2, <1>4, Rests DEF Handed

LEMMA EditSound ==
  ASSUME SoundInv, FlowInv', EditorTyped', Edit
  PROVE  SoundInv'
<1>1. UNCHANGED <<live, issued, dirty, stage, op, gone, pending, blanks>>
  BY DEF Edit, NewContent, sessionVars
<1>2. blanks' \in Nat /\ blanks' <= blanks
  BY <1>1 DEF SoundInv, BlanksOwned
<1>3. ASSUME Owned PROVE Owned'
  <2>1. CASE UNCHANGED <<sess, wire>>
    <3>1. WireKept /\ Steady /\ \A u \in Tasks : op'[u] = op[u]
      BY <1>1, <2>1 DEF WireKept, Steady, SoundInv, EditorTyped
    <3> QED BY <1>3, <3>1, StaysOwned DEF SoundInv
  <2>2. CASE sess # NoSession /\ sess' = [sess EXCEPT !.dirty = TRUE]
             /\ wire' = Append(wire, MessageOf("dirty", sess.doc))
    <3>1. sess \in WindowSession /\ wire \in Seq(Messages)
      BY DEF SoundInv, FlowInv, WindowOK, EditorTyped
    <3>2. sess'.doc = sess.doc /\ sess'.dirty = TRUE
      BY <2>2, <3>1 DEF WindowSession
    <3>3. sess' # NoSession
      BY <3>2 DEF NoSession
    <3>4. PICK m : m = MessageOf("dirty", sess.doc)
      OBVIOUS
    <3>5. sess.doc \in live /\ sess.doc \in Docs
      BY <1>3, <2>2, SessionsTyped DEF Owned, SessionOwned, SoundInv
    <3>6. m \in Messages /\ Longer(wire', wire, m)
      BY <2>2, <3>4, <3>5, MessageIs DEF Longer
    <3>7. About(m, "dirty") = {sess.doc} /\ About(m, "close") = {}
      BY <3>4, <3>5, MessageIs DEF About
    <3>8. ASSUME NEW name PROVE Told(wire', name) = Told(wire, name) \cup About(m, name)
      <4>1. PICK v : v = wire'
        OBVIOUS
      <4> QED BY <3>1, <3>6, <4>1, WireAppend
    <3>9. /\ Told(wire', "close") = Told(wire, "close")
          /\ Told(wire', "dirty") = Told(wire, "dirty") \cup {sess.doc}
      BY <3>7, <3>8
    <3> QED BY <1>1, <1>3, <2>2, <3>2, <3>3, <3>5, <3>9, DirtiedOwned DEF SoundInv
  <2> QED BY <2>1, <2>2 DEF Edit
<1> QED BY <1>1, <1>2, <1>3, Rests DEF Handed

\* What the native side takes off the channel
LEMMA Delivered ==
  ASSUME EditorTyped, wire # <<>>, wire' = Tail(wire), NEW n \in {"dirty", "close"},
         Head(wire).name = n
  PROVE  /\ Head(wire).doc \in Docs \cup {NoDoc} /\ Head(wire) = MessageOf(n, Head(wire).doc)
         /\ wire' \in Seq(Messages)
         /\ \A name : Told(wire, name) = Told(wire', name) \cup About(Head(wire), name)
<1>1. wire \in Seq(Messages) /\ Head(wire) \in Messages
  BY DEF EditorTyped
<1>2. Head(wire).doc \in Docs \cup {NoDoc} /\ Head(wire) = MessageOf(n, Head(wire).doc)
  <2>1. PICK m \in Messages : m = Head(wire)
    BY <1>1
  <2>2. m.name = n
    BY <2>1
  <2>3. \A t \in Tasks : m # CallOf(t)
    BY <2>2, MessageIs
  <2>4. PICK name \in {"dirty", "close"}, d \in Docs \cup {NoDoc} : m = MessageOf(name, d)
    BY <2>3 DEF Messages
  <2>5. name = n /\ m.doc = d
    BY <2>2, <2>4, MessageIs
  <2> QED BY <2>1, <2>4, <2>5
<1>3. ASSUME NEW name
      PROVE  wire' \in Seq(Messages) /\ Told(wire, name) = Told(wire', name) \cup About(Head(wire), name)
  <2>1. PICK v : v = wire'
    OBVIOUS
  <2> QED BY <1>1, <2>1, WireTail
<1> QED BY <1>2, <1>3

LEMMA DeliverDirtySound ==
  ASSUME SoundInv, FlowInv', EditorTyped', DeliverDirty
  PROVE  SoundInv'
<1>1. PICK d : d = Head(wire).doc
  OBVIOUS
<1>2. /\ UNCHANGED <<live, issued, stage, op, gone, sess, pending, blanks>>
      /\ dirty' = (IF d \in live THEN [dirty EXCEPT ![d] = TRUE] ELSE dirty)
  BY <1>1 DEF DeliverDirty, MarkDocumentDirty, vars, sessionVars, editorVars
<1>3. blanks' \in Nat /\ blanks' <= blanks
  BY <1>2 DEF SoundInv, BlanksOwned
<1>4. /\ d \in Docs \cup {NoDoc} /\ Head(wire) = MessageOf("dirty", d)
      /\ \A name : Told(wire, name) = Told(wire', name) \cup About(Head(wire), name)
  BY <1>1, Delivered DEF DeliverDirty, SoundInv
<1>5. About(Head(wire), "close") = {} /\ About(Head(wire), "dirty") = {d} \cap Docs
  BY <1>4, MessageIs DEF About
<1>6. ASSUME Owned PROVE Owned'
  <2>1. live \subseteq Docs /\ dirty \in [Docs -> BOOLEAN]
    BY SessionsTyped DEF SoundInv
  <2>2. Told(wire', "close") = Told(wire, "close") /\ Told(wire', "dirty") \subseteq Told(wire, "dirty")
    BY <1>4, <1>5
  <2>3. d \in live => d \in Told(wire, "dirty")
    BY <1>4, <1>5, <2>1
  <2>4. \A e \in live : dirty'[e] \/ e \in Told(wire', "dirty") => dirty[e] \/ e \in Told(wire, "dirty")
    BY <1>2, <2>1, <2>2, <2>3
  <2> QED BY <1>2, <1>6, <2>2, <2>4, DirtiedOwned DEF SoundInv
<1> QED BY <1>2, <1>3, <1>6, Rests DEF Handed

LEMMA DeliverCloseSound ==
  ASSUME SoundInv, FlowInv', EditorTyped', DeliverClose
  PROVE  SoundInv'
<1>1. PICK d : d = Head(wire).doc
  OBVIOUS
<1>2. CloseNative(d) /\ UNCHANGED <<op, gone, sess, pending, blanks>>
  BY <1>1 DEF DeliverClose, editorVars
<1>3. blanks' \in Nat /\ blanks' <= blanks
  BY <1>2 DEF SoundInv, BlanksOwned
<1>4. /\ d \in Docs \cup {NoDoc} /\ Head(wire) = MessageOf("close", d) /\ wire' \in Seq(Messages)
      /\ \A name : Told(wire, name) = Told(wire', name) \cup About(Head(wire), name)
  BY <1>1, Delivered DEF DeliverClose, SoundInv
<1>5. About(Head(wire), "dirty") = {} /\ About(Head(wire), "close") = {d} \cap Docs
  BY <1>4, MessageIs DEF About
<1>6. /\ live' = live \ {d} /\ UNCHANGED <<issued, stage>>
      /\ \A e \in live \ {d} : dirty'[e] = dirty[e]
  BY <1>2, <1>4, CloseNativeIs DEF SoundInv
<1>7. \A u \in Tasks : op'[u] = op[u]
  BY <1>2
<1>8. Told(wire, "dirty") = Told(wire', "dirty")
  BY <1>4, <1>5
<1>9. Told(wire, "close") = Told(wire', "close") \cup ({d} \cap Docs)
  BY <1>4, <1>5
<1>10. ASSUME Owned PROVE Owned'
  <2>1. CASE d \in Docs
    <3>1. d \in Doomed
      BY <1>9, <2>1 DEF Doomed
    <3>2. Doomed' \subseteq Doomed /\ Doomed \subseteq Doomed' \cup {d}
      BY <1>7, <1>9 DEF Doomed
    <3> QED BY <1>2, <1>6, <1>7, <1>8, <1>10, <2>1, <3>1, <3>2, ClosedOwned DEF SoundInv, Closes
  <2>2. CASE d \notin Docs
    <3>1. d \notin live
      BY <2>2, SessionsTyped DEF SoundInv
    <3>2. Steady
      BY <1>2, <1>6, <3>1 DEF Steady
    <3>3. WireKept
      BY <1>4, <1>8, <1>9, <2>2 DEF WireKept
    <3> QED BY <1>7, <1>10, <3>2, <3>3, StaysOwned DEF SoundInv
  <2> QED BY <2>1, <2>2
<1> QED BY <1>2, <1>3, <1>6, <1>10, Rests DEF Handed

-----------------------------------------------------------------------------
(* The window is sound                                                      *)

LEMMA EditorTypedNext ==
  ASSUME SoundInv, FlowInv', FlowNext
  PROVE  EditorTyped'
<1>1. clock \in Nat
  BY DocumentSessionsAssumption DEF SoundInv, FlowInv, IInv, TypeOK, Clock
<1>2. EditorTyped /\ FlowInv /\ wire \in Seq(Messages)
  BY DEF SoundInv, EditorTyped
<1>3. ASSUME NEW t \in Tasks, SaveStep(t) \/ OpenStep(t) \/ OtherStep(t), ~Load(t), ~Destroy(t)
      PROVE  WireKept /\ gone' = gone /\ unsaved' \in {unsaved, FALSE}
  <2>1. ASSUME SaveStep(t), ~CommitRename(t)
        PROVE  /\ \/ \E o : GoTo(t, o)
                  \/ \E o, c : Served(t, c) /\ Answered(t, o)
               /\ gone' = gone /\ unsaved' \in {unsaved, FALSE}
    BY <2>1 DEF SaveStep, StartSave, ChoosePath, CheckExternal, AllowOverwrite, Export, CommitCall,
                CommitDone, CommitFailed, CommitSave, NotifySaved, Proceed, AbortPending, editorVars
  <2>2. ASSUME OpenStep(t)
        PROVE  /\ \/ \E o : GoTo(t, o)
                  \/ \E o, c : Served(t, c) /\ Answered(t, o)
               /\ gone' = gone /\ unsaved' \in {unsaved, FALSE}
    BY <1>3, <2>2 DEF OpenStep, StartOpen, Read, Track, AskGuard, CommitOpen, Recorded,
                ClosePrevious, Drop, Guarded, Proceed, AbortPending, editorVars
  <2>3. ASSUME OtherStep(t)
        PROVE  /\ \/ \E o : GoTo(t, o)
                  \/ \E o, c : Served(t, c) /\ Answered(t, o)
               /\ gone' = gone /\ unsaved' \in {unsaved, FALSE}
    BY <1>3, <2>3 DEF OtherStep, StartNew, Create, Created, StartClose, CloseLast, Aborted, Discard,
                SaveFirst, Fails, Guarded, Proceed, AbortPending, editorVars
  <2>4. CASE CommitRename(t)
    BY <1>2, <2>4 DEF CommitRename, WireKept, editorVars
  <2> QED BY <1>2, <1>3, <2>1, <2>2, <2>3, <2>4, GoToKeeps, AnsweredKeeps
<1>4. wire' \in Seq(Messages) /\ unsaved' \in BOOLEAN /\ gone' \in BOOLEAN
  <2>1. ASSUME NEW t \in Tasks, SaveStep(t) \/ OpenStep(t) \/ OtherStep(t), ~Load(t), ~Destroy(t)
        PROVE  wire' \in Seq(Messages) /\ unsaved' \in BOOLEAN /\ gone' \in BOOLEAN
    BY <1>2, <1>3, <2>1 DEF WireKept, EditorTyped
  <2>2. sess.doc \in Docs \cup {NoDoc}
    BY <1>2 DEF FlowInv, WindowOK, WindowSession
  <2>3. MessageOf("close", sess.doc) \in Messages /\ MessageOf("dirty", sess.doc) \in Messages
    BY <2>2, MessageIs
  <2>4. CompletePending(wire) => wire' \in Seq(Messages)
    BY <1>2, <2>3 DEF CompletePending
  <2>5. ASSUME NEW t \in Tasks, Load(t) \/ Destroy(t)
        PROVE  wire' \in Seq(Messages) /\ unsaved' \in BOOLEAN /\ gone' \in BOOLEAN
    <3>1. CASE Load(t)
      BY <1>2, <2>4, <3>1 DEF Load, EditorTyped
    <3>2. CASE Destroy(t)
      <4>1. wire' = <<>> /\ gone' = TRUE /\ unsaved' = unsaved
        BY <3>2 DEF Destroy, editorVars
      <4> QED BY <1>2, <4>1 DEF EditorTyped
    <3> QED BY <2>5, <3>1, <3>2
  <2>6. CASE Blank
    BY <1>2, <2>4, <2>6 DEF Blank, EditorTyped
  <2>7. CASE Edit
    BY <1>2, <2>3, <2>7 DEF Edit, EditorTyped
  <2>8. CASE BlankFails \/ DeliverDirty \/ DeliverClose \/ OtherPrograms
    BY <1>2, <2>8 DEF BlankFails, DeliverDirty, DeliverClose, OtherPrograms, EditorTyped, editorVars
  <2> QED BY <2>1, <2>5, <2>6, <2>7, <2>8 DEF FlowNext
<1>5. kept' \subseteq Clock /\ waived' \subseteq Clock
  <2>1. body \in Clock /\ (\A t \in Tasks : op[t].bytes \in Clock) /\ req.body \in Clock
    BY <1>2, DocumentSessionsAssumption
       DEF FlowInv, WindowOK, IInv, TypeOK, Request, Clock, Task
  <2>2. Blank => clock + 1 \in Clock
    BY <1>1, DocumentSessionsAssumption DEF Blank, NewContent, Clock
  <2>3. kept' \subseteq kept \cup Clock
    <3>1. ASSUME NEW t \in Tasks, SaveStep(t) PROVE kept' \subseteq kept \cup Clock
      BY <2>1, <3>1
         DEF SaveStep, StartSave, ChoosePath, CheckExternal, AllowOverwrite, Export, CommitCall,
             CommitRename, CommitDone, CommitFailed, CommitSave, NotifySaved, ghostVars
    <3>2. ASSUME NEW t \in Tasks, OpenStep(t) PROVE kept' \subseteq kept \cup Clock
      BY <2>1, <3>2
         DEF OpenStep, StartOpen, Read, Track, AskGuard, Load, CommitOpen, Recorded,
             ClosePrevious, Drop, ghostVars
    <3>3. ASSUME NEW t \in Tasks, OtherStep(t) PROVE kept' \subseteq kept \cup Clock
      BY <3>3 DEF OtherStep, StartNew, Create, Created, StartClose, CloseLast, Destroy, Aborted,
                  Discard, SaveFirst, Fails, ghostVars
    <3>4. CASE Blank
      BY <2>2, <3>4 DEF Blank
    <3>5. CASE BlankFails \/ Edit \/ DeliverDirty \/ DeliverClose \/ OtherPrograms
      BY <3>5 DEF BlankFails, Edit, DeliverDirty, DeliverClose, OtherPrograms, ghostVars
    <3> QED BY <3>1, <3>2, <3>3, <3>4, <3>5 DEF FlowNext
  <2>4. waived' \subseteq waived \cup Clock
    <3>1. ASSUME NEW t \in Tasks, SaveStep(t) PROVE waived' \subseteq waived \cup Clock
      BY <3>1
         DEF SaveStep, StartSave, ChoosePath, CheckExternal, AllowOverwrite, Export, CommitCall,
             CommitRename, CommitDone, CommitFailed, CommitSave, NotifySaved, ghostVars
    <3>2. ASSUME NEW t \in Tasks, OpenStep(t) PROVE waived' \subseteq waived \cup Clock
      BY <3>2
         DEF OpenStep, StartOpen, Read, Track, AskGuard, Load, CommitOpen, Recorded,
             ClosePrevious, Drop, ghostVars
    <3>3. ASSUME NEW t \in Tasks, OtherStep(t) PROVE waived' \subseteq waived \cup Clock
      BY <2>1, <3>3
         DEF OtherStep, StartNew, Create, Created, StartClose, CloseLast, Destroy, Aborted,
             Discard, SaveFirst, Fails, ghostVars
    <3>4. CASE Blank \/ BlankFails \/ Edit \/ DeliverDirty \/ DeliverClose \/ OtherPrograms
      BY <3>4 DEF Blank, BlankFails, Edit, DeliverDirty, DeliverClose, OtherPrograms, ghostVars
    <3> QED BY <3>1, <3>2, <3>3, <3>4 DEF FlowNext
  <2> QED BY <1>2, <2>3, <2>4 DEF EditorTyped
<1> QED BY <1>4, <1>5 DEF EditorTyped

LEMMA SoundInit == FlowInit => SoundInv
<1> SUFFICES ASSUME FlowInit PROVE SoundInv
  OBVIOUS
<1>1. FlowInv
  BY FlowInvInit
<1>2. \A t \in Tasks : op[t] = NoTask
  BY DEF FlowInit
<1>3. NoTask.at = "idle" /\ HasDoc(NoTask) /\ Dooms(NoTask) = {} /\ Owns(NoTask) = {} /\ ~Saves(NoTask)
  <2>1. CASE Tasks = {}
    BY DEF NoTask, Dooms, Owns, HasDoc, Saves, SaveAwaits, Left
  <2>2. CASE Tasks # {}
    BY DEF NoTask, Dooms, Owns, HasDoc, Saves, SaveAwaits, Left
  <2> QED BY <2>1, <2>2
<1>4. EditorTyped
  <2>1. wire = <<>> /\ unsaved = FALSE /\ gone = FALSE /\ kept = {0} /\ waived = {}
    BY DEF FlowInit
  <2>2. 0 \in Clock
    BY DocumentSessionsAssumption DEF Clock
  <2>3. <<>> \in Seq(Messages)
    OBVIOUS
  <2>4. FALSE \in BOOLEAN
    OBVIOUS
  <2>5. kept \subseteq Clock /\ waived \subseteq Clock
    BY <2>1, <2>2
  <2>6. unsaved \in BOOLEAN /\ gone \in BOOLEAN
    BY <2>1, <2>4
  <2>7. wire \in Seq(Messages)
    BY <2>1, <2>3
  <2> QED BY <2>5, <2>6, <2>7 DEF EditorTyped
<1>5. NativeOne
  BY <1>2, <1>3 DEF NativeOne, FlowInit, Init
<1>6. live = {} /\ issued = {} /\ blanks = 0 /\ wire = <<>> /\ sess = NoSession /\ pending = NoDoc
  BY DEF FlowInit, Init
<1>7. BlanksOwned
  <2>1. Fresh = {}
    BY <1>2, <1>3 DEF Fresh
  <2>2. Cardinality(issued) = 0 /\ Cardinality(Fresh) = 0
    BY <1>6, <2>1, FS_EmptySet
  <2> QED BY <1>2, <1>3, <1>6, <2>1, <2>2 DEF BlanksOwned
<1>8. Owned
  <2>1. Told(wire, "close") = {} /\ Told(wire, "dirty") = {}
    <3>1. DOMAIN wire = {}
      BY <1>6
    <3> QED BY <3>1 DEF Told
  <2>2. Doomed = {}
    BY <1>2, <1>3, <2>1 DEF Doomed
  <2>3. SessionOwned /\ PendingOwned /\ DirtyOwned /\ Known
    BY <1>2, <1>3, <1>6, <2>1, <2>2
       DEF SessionOwned, PendingOwned, DirtyOwned, Known, Saves
  <2>4. HeldOwned
    BY <1>2, <1>3 DEF HeldOwned
  <2> QED BY <2>3, <2>4 DEF Owned
<1>9. \A t \in Tasks : HasDoc(op[t])
  BY <1>2, <1>3
<1> QED BY <1>1, <1>4, <1>5, <1>7, <1>8, <1>9 DEF SoundInv

LEMMA SoundNext == SoundInv /\ [FlowNext]_flowVars => SoundInv'
<1> SUFFICES ASSUME SoundInv, [FlowNext]_flowVars PROVE SoundInv'
  OBVIOUS
<1>1. FlowInv'
  BY FlowInvNext DEF SoundInv
<1>2. EditorTyped'
  <2>1. CASE FlowNext
    BY <1>1, <2>1, EditorTypedNext
  <2>2. CASE UNCHANGED flowVars
    BY <2>2 DEF flowVars, editorVars, ghostVars, SoundInv, EditorTyped
  <2> QED BY <2>1, <2>2
<1>3. ASSUME NEW t \in Tasks, SaveStep(t) PROVE SoundInv'
  BY <1>1, <1>2, <1>3, StartSaveSound, ChoosePathSound, CheckExternalSound, AllowOverwriteSound,
     CommitCallSound, CommitRenameSound, CommitEndsSound, CommitSaveSound, NotifySavedSound
     DEF SaveStep
<1>4. ASSUME NEW t \in Tasks, OpenStep(t) PROVE SoundInv'
  BY <1>1, <1>2, <1>4, StartOpenSound, ReadSound, TrackSound, AskGuardSound, LoadSound,
     CommitOpenSound, RecordedSound, CloseStepsSound
     DEF OpenStep
<1>5. ASSUME NEW t \in Tasks, OtherStep(t) PROVE SoundInv'
  BY <1>1, <1>2, <1>5, StartOtherSound, CreateSound, CreatedSound, CloseLastSound, DestroySound,
     AbortedSound, DiscardSound, SaveFirstSound
     DEF OtherStep
<1>6. CASE Blank \/ BlankFails \/ Edit \/ DeliverDirty \/ DeliverClose \/ OtherPrograms
           \/ UNCHANGED flowVars
  BY <1>1, <1>2, <1>6, BlankSound, OutsideSound, EditSound, DeliverDirtySound, DeliverCloseSound
<1> QED BY <1>3, <1>4, <1>5, <1>6 DEF FlowNext

LEMMA SoundInvSound == SoundInv => FlowSound
<1> SUFFICES ASSUME SoundInv PROVE FlowSound
  OBVIOUS
<1>1. FlowTypeOK
  <2>1. sess \in WindowSession /\ pending \in Docs \cup {NoDoc} /\ shows \in Docs \cup {NoDoc}
        /\ op \in [Tasks -> Task]
    BY DEF SoundInv, FlowInv, WindowOK
  <2>2. body \in Clock
    BY DocumentSessionsAssumption DEF SoundInv, FlowInv, WindowOK, IInv, TypeOK, Clock
  <2>3. blanks \in 0 .. Cardinality(Docs)
    <3>1. /\ Cardinality(issued) <= Cardinality(Docs)
          /\ Cardinality(issued) \in Nat /\ Cardinality(Docs) \in Nat
      BY SessionsTyped, DocumentFlowAssumption, FS_Subset, FS_CardinalityType DEF SoundInv
    <3>2. Cardinality(Fresh) \in Nat
      BY SessionsTyped, FS_Subset, FS_CardinalityType DEF SoundInv, BlanksOwned
    <3> QED BY <3>1, <3>2 DEF SoundInv, BlanksOwned
  <2>4. \A i \in DOMAIN wire :
          wire[i] \in [name : {"call", "dirty", "close"}, task : Tasks \cup {Nobody},
                       doc : Docs \cup {NoDoc}]
    <3>1. Messages \subseteq [name : {"call", "dirty", "close"}, task : Tasks \cup {Nobody},
                              doc : Docs \cup {NoDoc}]
      BY DEF Messages, CallOf, MessageOf
    <3>2. \A i \in DOMAIN wire : wire[i] \in Messages
      BY DEF SoundInv, EditorTyped
    <3> QED BY <3>1, <3>2
  <2>5. /\ unsaved \in BOOLEAN /\ gone \in BOOLEAN /\ kept \subseteq Clock /\ waived \subseteq Clock
        /\ (stage # "free") = (\E t \in Tasks : op[t].at = "native")
    BY DEF SoundInv, EditorTyped, NativeOne
  <2> QED BY <2>1, <2>2, <2>3, <2>4, <2>5 DEF FlowTypeOK
<1>2. SessionIsLive
  BY DEF SoundInv, Closing, Leaves, Owned, SessionOwned, SessionIsLive
<1>3. NoDirtyOrphan
  <2> SUFFICES ASSUME Quiet, ~gone, NEW d \in live, dirty[d] PROVE d = sess.doc
    BY DEF NoDirtyOrphan
  <2>1. wire = <<>> /\ \A t \in Tasks : op[t].at = "idle"
    BY DEF Quiet, Running
  <2>2. Owned
    BY <2>1 DEF SoundInv, Closing, Leaves
  <2>3. Doomed = {}
    <3>1. Told(wire, "close") = {}
      <4>1. DOMAIN wire = {}
        BY <2>1
      <4> QED BY <4>1 DEF Told
    <3>2. \A t \in Tasks : Dooms(op[t]) = {}
      BY <2>1 DEF Dooms, Left
    <3> QED BY <3>1, <3>2 DEF Doomed
  <2> QED BY <2>2, <2>3 DEF Owned, DirtyOwned
<1> QED BY <1>1, <1>2, <1>3 DEF FlowSound

\* However open, new, save and close overlap, and whatever of them fails or answers late, the
\* window works on a session that is open until it closes itself, and no document it has let
\* go of stays behind dirty (commitOpen, completePendingDocumentInitialization,
\* abortPendingNewDocument and the refused load each pass a document on or close it).
THEOREM FlowAlwaysSound == FlowSpec => []FlowSound
<1>1. FlowSpec => []SoundInv
  BY SoundInit, SoundNext, PTL DEF FlowSpec
<1> QED BY <1>1, SoundInvSound, PTL

-----------------------------------------------------------------------------
(* What a step does, seen from outside the records                          *)

Still == UNCHANGED <<live, issued, dirty, stage, req>>
EditorStill == UNCHANGED <<body, shows, unsaved, kept, waived>>
WindowStill == UNCHANGED <<sess, pending, blanks, gone>>

\* The command t goes to its next await, and only it; it does not wait for a call any more.
Steps(t) ==
  /\ op'[t] \in Task /\ \A u \in Tasks : u # t => op'[u] = op[u]
  /\ \/ op[t].at \notin Calls /\ wire' = Sent(wire, t, op'[t])
     \/ /\ op[t].at \in Calls /\ Served(t, op[t].at)
        /\ wire' = Sent(Tail(wire), t, op'[t])
SameTask(t) == op'[t].goal = op[t].goal /\ op'[t].doc = op[t].doc
SameSave(t) == SameTask(t) /\ op'[t].save.doc = op[t].save.doc

LEMMA StepsGoTo ==
  ASSUME FlowInv, FlowInv', NEW t \in Tasks, NEW m, GoTo(t, m), op[t].at \notin Calls
  PROVE  Steps(t) /\ op'[t] = m
<1>1. op'[t] = m /\ \A u \in Tasks : u # t => op'[u] = op[u]
  BY OneMoves DEF GoTo
<1>2. op'[t] \in Task /\ wire' = Sent(wire, t, m)
  BY DEF GoTo, FlowInv
<1> QED BY <1>1, <1>2 DEF Steps

LEMMA StepsAnswered ==
  ASSUME FlowInv, FlowInv', NEW t \in Tasks, NEW m, NEW c \in Calls, Served(t, c), Answered(t, m)
  PROVE  Steps(t) /\ op'[t] = m /\ op[t].at = c
<1>1. op'[t] = m /\ \A u \in Tasks : u # t => op'[u] = op[u]
  BY OneMoves DEF Answered
<1>2. op'[t] \in Task /\ wire' = Sent(Tail(wire), t, m) /\ op[t].at = c
  BY DEF Answered, FlowInv, Served
<1>3. Served(t, op[t].at)
  BY <1>2
<1> QED BY <1>1, <1>2, <1>3 DEF Steps

LEMMA StartSaveIs ==
  ASSUME FlowInv, FlowInv', NEW t \in Tasks, NEW as, StartSave(t, as)
  PROVE  /\ Steps(t) /\ Still /\ EditorStill /\ WindowStill
         /\ MayStart(t, "save") /\ op[t].at = "idle" /\ sess # NoSession
         /\ op'[t].at \in {"choose", "check"} /\ op'[t].goal = "save"
         /\ op'[t].doc = NoDoc /\ op'[t].save.doc = sess.doc
<1>1. PICK m : m = Capture(NoTask, as)
  OBVIOUS
<1>2. m.at \in {"choose", "check"} /\ m.goal = "save" /\ m.doc = NoDoc /\ m.save = sess
  BY <1>1 DEF Capture, NoTask
<1>3. GoTo(t, m) /\ MayStart(t, "save") /\ op[t].at = "idle" /\ sess # NoSession
  BY <1>1 DEF StartSave, MayStart
<1>4. Still /\ EditorStill /\ WindowStill
  BY DEF StartSave, Still, EditorStill, WindowStill, vars, sessionVars, editorVars, ghostVars
<1>5. Steps(t) /\ op'[t] = m
  BY <1>3, StepsGoTo DEF Calls
<1> QED BY <1>2, <1>3, <1>4, <1>5

\* A save goes on before it has exported anything.
LEMMA SavesOnIs ==
  ASSUME FlowInv, FlowInv', NEW t \in Tasks,
         \/ \E p \in Paths : ChoosePath(t, p)
         \/ CheckExternal(t) /\ op'[t] # GiveUp(op[t])
         \/ AllowOverwrite(t)
  PROVE  /\ Steps(t) /\ Still /\ EditorStill /\ WindowStill /\ SameSave(t)
         /\ \/ op[t].at = "choose" /\ op'[t].at = "check"
            \/ op[t].at = "check" /\ op'[t].at \in {"ask", "export"}
            \/ op[t].at = "ask" /\ op'[t].at = "export"
<1>1. Still /\ EditorStill /\ WindowStill
  BY DEF ChoosePath, CheckExternal, AllowOverwrite, Still, EditorStill, WindowStill,
         vars, sessionVars, editorVars, ghostVars
<1>2. op[t] \in Task
  BY AtOf
<1>3. ASSUME NEW p \in Paths, ChoosePath(t, p)
      PROVE  Steps(t) /\ SameSave(t) /\ op[t].at = "choose" /\ op'[t].at = "check"
  <2>1. PICK m : m = [op[t] EXCEPT !.save.path = p, !.at = "check"]
    OBVIOUS
  <2>2. m.at = "check" /\ m.goal = op[t].goal /\ m.doc = op[t].doc /\ m.save.doc = op[t].save.doc
    BY <1>2, <2>1 DEF Task, WindowSession
  <2>3. Steps(t) /\ op'[t] = m /\ op[t].at = "choose"
    BY <1>3, <2>1, StepsGoTo DEF ChoosePath, Calls
  <2> QED BY <2>2, <2>3 DEF SameSave, SameTask
<1>4. ASSUME CheckExternal(t), op'[t] # GiveUp(op[t])
      PROVE  Steps(t) /\ SameSave(t) /\ op[t].at = "check" /\ op'[t].at \in {"ask", "export"}
  <2>1. PICK m : /\ Answered(t, m)
                 /\ \/ m = GiveUp(op[t])
                    \/ \E a \in {"ask", "export"} : m = [op[t] EXCEPT !.at = a]
    BY <1>4 DEF CheckExternal
  <2>2. Steps(t) /\ op'[t] = m /\ op[t].at = "check"
    BY <1>4, <2>1, StepsAnswered DEF CheckExternal, Calls
  <2>3. PICK a \in {"ask", "export"} : m = [op[t] EXCEPT !.at = a]
    BY <1>4, <2>1, <2>2
  <2>4. m.at = a /\ m.goal = op[t].goal /\ m.doc = op[t].doc /\ m.save.doc = op[t].save.doc
    BY <1>2, <2>3 DEF Task, WindowSession
  <2> QED BY <2>2, <2>4 DEF SameSave, SameTask
<1>5. ASSUME AllowOverwrite(t)
      PROVE  Steps(t) /\ SameSave(t) /\ op[t].at = "ask" /\ op'[t].at = "export"
  <2>1. PICK m : m = [op[t] EXCEPT !.allow = TRUE, !.at = "export"]
    OBVIOUS
  <2>2. m.at = "export" /\ m.goal = op[t].goal /\ m.doc = op[t].doc /\ m.save.doc = op[t].save.doc
    BY <1>2, <2>1 DEF Task, WindowSession
  <2>3. Steps(t) /\ op'[t] = m /\ op[t].at = "ask"
    BY <1>5, <2>1, StepsGoTo DEF AllowOverwrite, Calls
  <2> QED BY <2>2, <2>3 DEF SameSave, SameTask
<1> QED BY <1>1, <1>3, <1>4, <1>5

LEMMA ExportIs ==
  ASSUME FlowInv, FlowInv', NEW t \in Tasks, Export(t)
  PROVE  /\ Steps(t) /\ Still /\ EditorStill /\ WindowStill /\ SameSave(t)
         /\ op[t].at = "export" /\ op'[t].at = "commit"
         /\ op'[t].out = body /\ op'[t].owner = shows
<1>1. Still /\ EditorStill /\ WindowStill
  BY DEF Export, Still, EditorStill, WindowStill, vars, sessionVars, editorVars, ghostVars
<1>2. PICK m : m = [op[t] EXCEPT !.out = body, !.owner = shows, !.at = "commit"]
  OBVIOUS
<1>3. /\ m.at = "commit" /\ m.goal = op[t].goal /\ m.doc = op[t].doc /\ m.save.doc = op[t].save.doc
      /\ m.out = body /\ m.owner = shows
  BY <1>2, AtOf DEF Task, WindowSession
<1>4. Steps(t) /\ op'[t] = m /\ op[t].at = "export"
  BY <1>2, StepsGoTo DEF Export, Calls
<1> QED BY <1>1, <1>3, <1>4 DEF SameSave, SameTask

\* The native side takes the save on: it is for a session that is open.
LEMMA CommitCallIs ==
  ASSUME FlowInv, FlowInv', NEW t \in Tasks, CommitCall(t), op'[t] # GiveUp(op[t])
  PROVE  /\ Steps(t) /\ EditorStill /\ WindowStill /\ SameSave(t) /\ UNCHANGED <<live, issued, dirty>>
         /\ op[t].at = "commit" /\ op'[t].at = "native" /\ stage' = "write"
         /\ op'[t].out = op[t].out /\ op'[t].owner = op[t].owner
         /\ op[t].save.doc \in live /\ Head(wire) = CallOf(t) /\ wire # <<>>
         /\ req'.doc = op[t].save.doc /\ req'.body = op[t].out
<1>1. EditorStill /\ WindowStill
  BY DEF CommitCall, EditorStill, WindowStill, editorVars, ghostVars
<1>2. PICK m : m = [op[t] EXCEPT !.at = "native"]
  OBVIOUS
<1>3. /\ m.at = "native" /\ m.goal = op[t].goal /\ m.doc = op[t].doc /\ m.save.doc = op[t].save.doc
      /\ m.out = op[t].out /\ m.owner = op[t].owner
  BY <1>2, AtOf DEF Task
<1>4. PICK r : r = RequestOf(op[t])
  OBVIOUS
<1>5. r.doc = op[t].save.doc /\ r.body = op[t].out
  BY <1>4 DEF RequestOf
<1>6. \/ CommitCheck(r, r.fmt) /\ Answered(t, m)
      \/ Answered(t, GiveUp(op[t]))
  BY <1>2, <1>4 DEF CommitCall
<1>7. Served(t, "commit")
  BY DEF CommitCall
<1>8. CommitCheck(r, r.fmt) /\ Answered(t, m)
  BY <1>6, <1>7, StepsAnswered DEF Calls
<1>9. Steps(t) /\ op'[t] = m /\ op[t].at = "commit"
  BY <1>7, <1>8, StepsAnswered DEF Calls
<1>10. /\ UNCHANGED <<live, issued, dirty>> /\ stage' = "write" /\ req' = r /\ r.doc \in live
  BY <1>8 DEF CommitCheck, CommitAllowed, sessionVars
<1> QED BY <1>1, <1>3, <1>5, <1>7, <1>9, <1>10 DEF SameSave, SameTask, Served

LEMMA CommitRenameIs ==
  ASSUME NEW t \in Tasks, CommitRename(t)
  PROVE  /\ WindowStill /\ UNCHANGED <<op, wire, live, issued, dirty, req, body, shows, unsaved, waived>>
         /\ op[t].at = "native" /\ stage # "free" /\ stage' = "refresh"
         /\ kept \subseteq kept' /\ (op[t].owner = req.doc => req.body \in kept')
BY DEF CommitRename, CommitWrite, WindowStill, editorVars

LEMMA CommitDoneIs ==
  ASSUME FlowInv, FlowInv', NEW t \in Tasks, CommitDone(t)
  PROVE  /\ Steps(t) /\ EditorStill /\ WindowStill /\ SameSave(t) /\ UNCHANGED <<live, issued>>
         /\ op[t].at = "native" /\ op'[t].at = "reply" /\ stage = "refresh" /\ stage' = "free"
         /\ ~dirty'[req.doc] /\ \A d \in Docs \ {req.doc} : dirty'[d] = dirty[d]
<1>1. EditorStill /\ WindowStill
  BY DEF CommitDone, EditorStill, WindowStill, editorVars, ghostVars
<1>2. PICK m : m = [op[t] EXCEPT !.at = "reply", !.save.rev = revision'[req.doc]]
  OBVIOUS
<1>3. m.at = "reply" /\ m.goal = op[t].goal /\ m.doc = op[t].doc /\ m.save.doc = op[t].save.doc
  BY <1>2, AtOf DEF Task, WindowSession
<1>4. Steps(t) /\ op'[t] = m /\ op[t].at = "native"
  BY <1>2, StepsGoTo DEF CommitDone, Calls
<1>5. /\ UNCHANGED <<live, issued>> /\ stage = "refresh" /\ stage' = "free"
      /\ dirty' = [dirty EXCEPT ![req.doc] = FALSE]
  BY DEF CommitDone, CommitRefresh
<1>6. dirty \in [Docs -> BOOLEAN] /\ req.doc \in Docs
  <2>1. req.doc \in live
    BY <1>5 DEF FlowInv, IInv, TypeOK
  <2> QED BY <2>1, SessionsTyped
<1> QED BY <1>1, <1>3, <1>4, <1>5, <1>6 DEF SameSave, SameTask

\* A command that has nothing to abort any more goes on, ...
WentOn(t, o) ==
  /\ op'[t].goal = o.goal /\ op'[t].doc = o.doc
  /\ \/ o.goal = "open" /\ op'[t].at = "read" /\ sess' = sess
     \/ o.goal = "new" /\ op'[t].at = "create" /\ sess' = sess
     \/ o.goal = "close" /\ Leaves(op'[t]) /\ sess' = NoSession
\* ... and otherwise gives the prepared document up first.
Abandons(t, o) ==
  /\ pending' = NoDoc
  /\ \/ /\ pending # NoDoc /\ sess' = sess
        /\ op'[t].at = "abort" /\ op'[t].old = pending
        /\ op'[t].goal = o.goal /\ op'[t].doc = o.doc
     \/ pending = NoDoc /\ WentOn(t, o)
LetThrough(t, o) ==
  IF o.goal = "open"
  THEN /\ op'[t].at = "load" /\ UNCHANGED <<sess, pending>>
       /\ op'[t].goal = o.goal /\ op'[t].doc = o.doc
  ELSE Abandons(t, o)
Asked(t, o) ==
  \/ /\ unsaved /\ op'[t].at = "confirm" /\ UNCHANGED <<sess, pending>>
     /\ op'[t].goal = o.goal /\ op'[t].doc = o.doc
  \/ ~unsaved /\ LetThrough(t, o)
\* A command that fails, is refused or cancelled
Quits(t) ==
  \/ op'[t] = NoTask /\ ~(op[t].goal = "open" /\ op[t].doc # NoDoc)
  \/ /\ op[t].goal = "open" /\ op[t].doc # NoDoc
     /\ op'[t].at = "drop" /\ SameTask(t)

LEMMA OnwardIs ==
  ASSUME NEW o \in Task, o.goal # "save", NEW m, m = Onward(o)
  PROVE  /\ m.goal = o.goal /\ m.doc = o.doc
         /\ \/ o.goal = "open" /\ m.at = "read" /\ SessionOnward(o) = sess
            \/ o.goal = "new" /\ m.at = "create" /\ SessionOnward(o) = sess
            \/ o.goal = "close" /\ Leaves(m) /\ SessionOnward(o) = NoSession
<1>1. CASE o.goal = "open"
  BY <1>1 DEF Onward, SessionOnward, Task
<1>2. CASE o.goal = "new"
  BY <1>2 DEF Onward, SessionOnward, Task
<1>3. CASE o.goal = "close"
  <2>1. m = [o EXCEPT !.at = "destroy"] \/ m = [o EXCEPT !.at = "closeLast", !.old = sess.doc]
    BY <1>3 DEF Onward
  <2>2. m.goal = o.goal /\ m.doc = o.doc /\ m.at \in {"closeLast", "destroy"}
    BY <2>1 DEF Task
  <2>3. SessionOnward(o) = NoSession
    BY <1>3 DEF SessionOnward
  <2> QED BY <1>3, <2>2, <2>3 DEF Leaves
<1> QED BY <1>1, <1>2, <1>3 DEF Task, Goals

LEMMA AbortPendingIs ==
  ASSUME FlowInv, FlowInv', NEW t \in Tasks, NEW o \in Task, o.goal # "save",
         op[t].at \notin Calls, AbortPending(t, o)
  PROVE  Steps(t) /\ Abandons(t, o)
<1>1. CASE pending # NoDoc
  <2>1. PICK m : m = [o EXCEPT !.at = "abort", !.old = pending]
    OBVIOUS
  <2>2. m.at = "abort" /\ m.old = pending /\ m.goal = o.goal /\ m.doc = o.doc
    BY <2>1 DEF Task
  <2>3. GoTo(t, m) /\ pending' = NoDoc /\ sess' = sess
    BY <1>1, <2>1 DEF AbortPending
  <2> QED BY <1>1, <2>2, <2>3, StepsGoTo DEF Abandons
<1>2. CASE pending = NoDoc
  <2>1. PICK m : m = Onward(o)
    OBVIOUS
  <2>2. GoTo(t, m) /\ pending' = NoDoc /\ sess' = SessionOnward(o)
    BY <1>2, <2>1 DEF AbortPending
  <2>3. Steps(t) /\ op'[t] = m
    BY <2>2, StepsGoTo
  <2>4. /\ m.goal = o.goal /\ m.doc = o.doc
        /\ \/ o.goal = "open" /\ m.at = "read" /\ SessionOnward(o) = sess
           \/ o.goal = "new" /\ m.at = "create" /\ SessionOnward(o) = sess
           \/ o.goal = "close" /\ Leaves(m) /\ SessionOnward(o) = NoSession
    BY <2>1, OnwardIs
  <2>5. WentOn(t, o)
    BY <2>2, <2>3, <2>4 DEF WentOn
  <2> QED BY <1>2, <2>2, <2>3, <2>5 DEF Abandons
<1> QED BY <1>1, <1>2

LEMMA ProceedIs ==
  ASSUME FlowInv, FlowInv', NEW t \in Tasks, NEW o \in Task, o.goal # "save",
         op[t].at \notin Calls, Proceed(t, o)
  PROVE  Steps(t) /\ LetThrough(t, o)
<1>1. CASE o.goal = "open"
  <2>1. PICK m : m = [o EXCEPT !.at = "load"]
    OBVIOUS
  <2>2. m.at = "load" /\ m.goal = o.goal /\ m.doc = o.doc
    BY <2>1 DEF Task
  <2>3. GoTo(t, m) /\ UNCHANGED <<sess, pending>>
    BY <1>1, <2>1 DEF Proceed
  <2> QED BY <1>1, <2>2, <2>3, StepsGoTo DEF LetThrough
<1>2. CASE o.goal # "open"
  BY <1>2, AbortPendingIs DEF Proceed, LetThrough
<1> QED BY <1>1, <1>2

LEMMA GuardedIs ==
  ASSUME FlowInv, FlowInv', NEW t \in Tasks, NEW o \in Task, o.goal # "save",
         op[t].at \notin Calls, Guarded(t, o)
  PROVE  Steps(t) /\ Asked(t, o)
<1>1. CASE unsaved
  <2>1. PICK m : m = [o EXCEPT !.at = "confirm"]
    OBVIOUS
  <2>2. m.at = "confirm" /\ m.goal = o.goal /\ m.doc = o.doc
    BY <2>1 DEF Task
  <2>3. GoTo(t, m) /\ UNCHANGED <<sess, pending>>
    BY <1>1, <2>1 DEF Guarded
  <2> QED BY <1>1, <2>2, <2>3, StepsGoTo DEF Asked
<1>2. CASE ~unsaved
  BY <1>2, ProceedIs DEF Guarded, Asked
<1> QED BY <1>1, <1>2

LEMMA GiveUpIs ==
  ASSUME FlowInv, NEW t \in Tasks, op'[t] = GiveUp(op[t])
  PROVE  Quits(t)
<1>1. CASE op[t].goal = "open" /\ op[t].doc # NoDoc
  <2>1. PICK m : m = [op[t] EXCEPT !.at = "drop"]
    OBVIOUS
  <2>2. m.at = "drop" /\ m.goal = op[t].goal /\ m.doc = op[t].doc
    BY <2>1, AtOf DEF Task
  <2>3. op'[t] = m
    BY <1>1, <2>1 DEF GiveUp
  <2> QED BY <1>1, <2>2, <2>3 DEF Quits, SameTask
<1>2. CASE ~(op[t].goal = "open" /\ op[t].doc # NoDoc)
  BY <1>2 DEF GiveUp, Quits
<1> QED BY <1>1, <1>2

LEMMA CommitSaveIs ==
  ASSUME FlowInv, FlowInv', NEW t \in Tasks, CommitSave(t), op'[t] # GiveUp(op[t])
  PROVE  /\ Steps(t) /\ EditorStill /\ Still /\ UNCHANGED <<pending, blanks, gone>> /\ SameSave(t)
         /\ op[t].at = "reply" /\ op'[t].at = "notify"
         /\ sess = NoSession \/ sess.doc = op[t].save.doc
         /\ sess'.doc = op[t].save.doc /\ ~sess'.dirty
<1>1. EditorStill /\ Still /\ UNCHANGED <<pending, blanks, gone>>
  BY DEF CommitSave, EditorStill, Still, vars, sessionVars, editorVars, ghostVars
<1>2. PICK m : m = [op[t] EXCEPT !.at = "notify"]
  OBVIOUS
<1>3. m.at = "notify" /\ m.goal = op[t].goal /\ m.doc = op[t].doc /\ m.save.doc = op[t].save.doc
  BY <1>2, AtOf DEF Task
<1>4. \/ GoTo(t, GiveUp(op[t]))
      \/ /\ GoTo(t, m) /\ (sess = NoSession \/ sess.doc = op[t].save.doc)
         /\ sess' = SessionOf(op[t].save.doc, op[t].save.path, op[t].save.rev)
  BY <1>2 DEF CommitSave
<1>5. op[t].at = "reply" /\ op[t].at \notin Calls
  BY DEF CommitSave, Calls
<1>6. /\ Steps(t) /\ op'[t] = m /\ (sess = NoSession \/ sess.doc = op[t].save.doc)
      /\ sess' = SessionOf(op[t].save.doc, op[t].save.path, op[t].save.rev)
  BY <1>4, <1>5, StepsGoTo
<1>7. sess'.doc = op[t].save.doc /\ ~sess'.dirty
  BY <1>6 DEF SessionOf
<1> QED BY <1>1, <1>3, <1>5, <1>6, <1>7 DEF SameSave, SameTask

\* Where a command can fail, be refused or cancelled
Risks == {"choose", "check", "ask", "export", "commit", "native", "reply", "read", "confirm", "load"}

LEMMA QuitsIs ==
  ASSUME FlowInv, FlowInv', NEW t \in Tasks,
         \/ Fails(t) \/ CommitFailed(t)
         \/ (CheckExternal(t) \/ CommitCall(t) \/ CommitSave(t)) /\ op'[t] = GiveUp(op[t])
         \/ SaveFirst(t) /\ sess = NoSession
  PROVE  /\ Steps(t) /\ Quits(t) /\ EditorStill /\ WindowStill /\ UNCHANGED <<live, issued, dirty>>
         /\ stage' \in {stage, "free"} /\ op[t].at \in Risks
<1>1. ASSUME Fails(t) \/ CommitFailed(t) \/ (SaveFirst(t) /\ sess = NoSession)
      PROVE  /\ Steps(t) /\ op'[t] = GiveUp(op[t]) /\ EditorStill /\ WindowStill
             /\ UNCHANGED <<live, issued, dirty>> /\ stage' \in {stage, "free"} /\ op[t].at \in Risks
  <2>1. GoTo(t, GiveUp(op[t])) /\ op[t].at \in Risks \ Calls
    BY <1>1 DEF Fails, CommitFailed, SaveFirst, Risks, Calls
  <2>2. EditorStill /\ WindowStill /\ UNCHANGED <<live, issued, dirty>> /\ stage' \in {stage, "free"}
    BY <1>1 DEF Fails, CommitFailed, SaveFirst, CommitWriteFails, CommitRefreshFails,
                EditorStill, WindowStill, vars, sessionVars, editorVars, ghostVars
  <2> QED BY <2>1, <2>2, StepsGoTo
<1>2. ASSUME CheckExternal(t), op'[t] = GiveUp(op[t])
      PROVE  /\ Steps(t) /\ EditorStill /\ WindowStill
             /\ UNCHANGED <<live, issued, dirty>> /\ stage' \in {stage, "free"} /\ op[t].at \in Risks
  <2>1. PICK m : Answered(t, m) /\ Served(t, "check")
    BY <1>2 DEF CheckExternal
  <2>2. Steps(t) /\ op[t].at = "check"
    BY <2>1, StepsAnswered DEF Calls
  <2> QED BY <1>2, <2>2
          DEF CheckExternal, EditorStill, WindowStill, vars, sessionVars, editorVars, ghostVars, Risks
<1>3. ASSUME CommitCall(t), op'[t] = GiveUp(op[t])
      PROVE  /\ Steps(t) /\ EditorStill /\ WindowStill
             /\ UNCHANGED <<live, issued, dirty>> /\ stage' \in {stage, "free"} /\ op[t].at \in Risks
  <2>1. PICK r : r = RequestOf(op[t])
    OBVIOUS
  <2>2. PICK m : m = [op[t] EXCEPT !.at = "native"]
    OBVIOUS
  <2>3. Served(t, "commit") /\ EditorStill /\ WindowStill
    BY <1>3 DEF CommitCall, EditorStill, WindowStill, editorVars, ghostVars
  <2>4. \/ Answered(t, m)
        \/ Answered(t, GiveUp(op[t])) /\ UNCHANGED vars
    BY <1>3, <2>1, <2>2 DEF CommitCall
  <2>5. m.at = "native" /\ GiveUp(op[t]).at # "native"
    BY <2>2, AtOf, GiveUpWent DEF Task
  <2>6. UNCHANGED vars /\ Steps(t) /\ op[t].at = "commit"
    BY <1>3, <2>3, <2>4, <2>5, StepsAnswered DEF Calls
  <2> QED BY <2>3, <2>6 DEF vars, sessionVars, Risks
<1>4. ASSUME CommitSave(t), op'[t] = GiveUp(op[t])
      PROVE  /\ Steps(t) /\ EditorStill /\ WindowStill
             /\ UNCHANGED <<live, issued, dirty>> /\ stage' \in {stage, "free"} /\ op[t].at \in Risks
  <2>1. PICK m : m = [op[t] EXCEPT !.at = "notify"]
    OBVIOUS
  <2>2. \/ GoTo(t, GiveUp(op[t])) /\ UNCHANGED sess
        \/ GoTo(t, m)
    BY <1>4, <2>1 DEF CommitSave
  <2>3. m.at = "notify" /\ GiveUp(op[t]).at # "notify"
    BY <2>1, AtOf, GiveUpWent DEF Task
  <2>4. op[t].at = "reply" /\ op[t].at \notin Calls
    BY <1>4 DEF CommitSave, Calls
  <2>5. UNCHANGED sess /\ Steps(t)
    BY <1>4, <2>2, <2>3, <2>4, StepsGoTo
  <2> QED BY <1>4, <2>4, <2>5
          DEF CommitSave, EditorStill, WindowStill, vars, sessionVars, editorVars, ghostVars, Risks
<1> QED BY <1>1, <1>2, <1>3, <1>4, GiveUpIs

LEMMA NotifySavedIs ==
  ASSUME FlowInv, FlowInv', NEW t \in Tasks, NotifySaved(t)
  PROVE  /\ Steps(t) /\ Still /\ UNCHANGED <<body, shows, blanks, gone, kept, waived>>
         /\ op[t].at = "notify" /\ unsaved' = FALSE
         /\ \/ op[t].goal = "save" /\ op'[t] = NoTask /\ UNCHANGED <<sess, pending>>
            \/ op[t].goal # "save" /\ LetThrough(t, op[t])
<1>1. /\ Still /\ UNCHANGED <<body, shows, blanks, gone, kept, waived>>
      /\ op[t].at = "notify" /\ op[t].at \notin Calls /\ unsaved' = FALSE /\ op[t] \in Task
  BY AtOf DEF NotifySaved, Still, vars, sessionVars, ghostVars, Calls
<1>2. CASE op[t].goal = "save"
  <2>1. GoTo(t, NoTask) /\ UNCHANGED <<sess, pending>>
    BY <1>2 DEF NotifySaved
  <2> QED BY <1>1, <1>2, <2>1, StepsGoTo
<1>3. CASE op[t].goal # "save"
  <2>1. Proceed(t, op[t])
    BY <1>3 DEF NotifySaved
  <2> QED BY <1>1, <1>3, <2>1, ProceedIs
<1> QED BY <1>2, <1>3

LEMMA DiscardIs ==
  ASSUME FlowInv, FlowInv', NEW t \in Tasks, Discard(t)
  PROVE  /\ Steps(t) /\ Still /\ UNCHANGED <<body, shows, unsaved, blanks, gone, kept>>
         /\ op[t].at = "confirm" /\ op[t].goal # "save" /\ waived' = waived \cup {body}
         /\ LetThrough(t, op[t])
<1>1. /\ Still /\ UNCHANGED <<body, shows, unsaved, blanks, gone, kept>>
      /\ op[t].at = "confirm" /\ op[t].at \notin Calls /\ waived' = waived \cup {body}
      /\ op[t] \in Task /\ Proceed(t, op[t])
  BY AtOf DEF Discard, Still, vars, sessionVars, editorVars, Calls
<1>2. op[t].goal # "save"
  BY <1>1 DEF FlowInv, TaskOK
<1> QED BY <1>1, <1>2, ProceedIs

LEMMA SaveFirstIs ==
  ASSUME FlowInv, FlowInv', NEW t \in Tasks, SaveFirst(t), sess # NoSession
  PROVE  /\ Steps(t) /\ Still /\ EditorStill /\ WindowStill /\ SameTask(t)
         /\ op[t].at = "confirm" /\ op[t].goal # "save"
         /\ op'[t].at \in {"choose", "check"} /\ op'[t].save.doc = sess.doc
<1>1. PICK m : m = Capture(op[t], FALSE)
  OBVIOUS
<1>2. GoTo(t, m) /\ op[t].at = "confirm" /\ op[t].at \notin Calls
  BY <1>1 DEF SaveFirst, Calls
<1>3. m.at \in {"choose", "check"} /\ m.goal = op[t].goal /\ m.doc = op[t].doc /\ m.save = sess
  BY <1>1, AtOf DEF Capture, Task
<1>4. Still /\ EditorStill /\ WindowStill
  BY DEF SaveFirst, Still, EditorStill, WindowStill, vars, sessionVars, editorVars, ghostVars
<1>5. op[t].goal # "save"
  BY <1>2 DEF FlowInv, TaskOK
<1> QED BY <1>2, <1>3, <1>4, <1>5, StepsGoTo DEF SameTask

LEMMA StartOpenIs ==
  ASSUME FlowInv, FlowInv', NEW t \in Tasks, NEW p \in Paths, StartOpen(t, p)
  PROVE  /\ Steps(t) /\ Still /\ EditorStill /\ UNCHANGED <<blanks, gone>>
         /\ MayStart(t, "open") /\ op[t].at = "idle"
         /\ \E o \in Task : o.goal = "open" /\ o.doc = NoDoc /\ Abandons(t, o)
<1>1. PICK o : o = [NoTask EXCEPT !.goal = "open", !.path = p]
  OBVIOUS
<1>2. o \in Task /\ o.doc = NoDoc /\ o.goal = "open"
  BY <1>1, AtOf DEF Task, Goals
<1>3. /\ AbortPending(t, o) /\ MayStart(t, "open") /\ op[t].at = "idle" /\ op[t].at \notin Calls
      /\ Still /\ EditorStill /\ UNCHANGED <<blanks, gone>>
  BY <1>1 DEF StartOpen, MayStart, Calls, Still, EditorStill, vars, sessionVars, editorVars, ghostVars
<1> QED BY <1>2, <1>3, AbortPendingIs

LEMMA StartOtherIs ==
  ASSUME FlowInv, FlowInv', NEW t \in Tasks, StartNew(t) \/ StartClose(t)
  PROVE  /\ Steps(t) /\ Still /\ EditorStill /\ UNCHANGED <<blanks, gone>> /\ op[t].at = "idle"
         /\ \E o \in Task : /\ o.goal \in {"new", "close"} /\ o.doc = NoDoc
                            /\ MayStart(t, o.goal) /\ Asked(t, o)
<1>1. PICK g \in {"new", "close"} : MayStart(t, g) /\ Guarded(t, [NoTask EXCEPT !.goal = g])
  BY DEF StartNew, StartClose
<1>2. PICK o : o = [NoTask EXCEPT !.goal = g]
  OBVIOUS
<1>3. o \in Task /\ o.doc = NoDoc /\ o.goal = g
  BY <1>2, AtOf DEF Task, Goals
<1>4. op[t].at = "idle" /\ op[t].at \notin Calls /\ Still /\ EditorStill /\ UNCHANGED <<blanks, gone>>
  BY DEF StartNew, StartClose, MayStart, Calls, Still, EditorStill, vars, sessionVars, editorVars,
         ghostVars
<1>5. o.goal # "save" /\ Guarded(t, o)
  BY <1>1, <1>2, <1>3
<1> QED BY <1>1, <1>3, <1>4, <1>5, GuardedIs

LEMMA AskGuardIs ==
  ASSUME FlowInv, FlowInv', NEW t \in Tasks, AskGuard(t)
  PROVE  /\ Steps(t) /\ Still /\ EditorStill /\ UNCHANGED <<blanks, gone>>
         /\ op[t].at = "guard" /\ op[t].goal = "open" /\ Asked(t, op[t])
<1>1. /\ Guarded(t, op[t]) /\ op[t].at = "guard" /\ op[t].at \notin Calls /\ op[t] \in Task
      /\ Still /\ EditorStill /\ UNCHANGED <<blanks, gone>>
  BY AtOf DEF AskGuard, Calls, Still, EditorStill, vars, sessionVars, editorVars, ghostVars
<1>2. op[t].goal = "open"
  BY <1>1 DEF FlowInv, TaskOK
<1> QED BY <1>1, <1>2, GuardedIs

\* An open reads its file, the backend opens a session for it.
LEMMA ReadIs ==
  ASSUME FlowInv, FlowInv', NEW t \in Tasks, NEW print, Read(t, print)
  PROVE  /\ Steps(t) /\ Still /\ EditorStill /\ WindowStill /\ SameTask(t)
         /\ op[t].at = "read" /\ op'[t].at = "track"
<1>1. PICK b : b = disk[op[t].path].body
  OBVIOUS
<1>2. PICK m : m = [op[t] EXCEPT !.bytes = b, !.print = print, !.at = "track"]
  OBVIOUS
<1>3. m.at = "track" /\ m.goal = op[t].goal /\ m.doc = op[t].doc
  BY <1>2, AtOf DEF Task
<1>4. /\ GoTo(t, m) /\ op[t].at = "read" /\ op[t].at \notin Calls
      /\ Still /\ EditorStill /\ WindowStill
  BY <1>1, <1>2 DEF Read, Calls, Still, EditorStill, WindowStill, vars, sessionVars, editorVars, ghostVars
<1> QED BY <1>3, <1>4, StepsGoTo DEF SameTask

\* A session of a document is opened or created for the command.
LEMMA OpensIs ==
  ASSUME FlowInv, FlowInv', NEW t \in Tasks, NEW d \in Docs, Track(t, d) \/ Create(t, d)
  PROVE  /\ Steps(t) /\ EditorStill /\ WindowStill /\ UNCHANGED <<stage, req>>
         /\ op'[t].goal = op[t].goal /\ op'[t].doc = d /\ d \notin issued
         /\ live' = live \cup {d} /\ issued' = issued \cup {d}
         /\ ~dirty'[d] /\ \A e \in Docs \ {d} : dirty'[e] = dirty[e]
         /\ \/ op[t].at = "track" /\ op'[t].at = "guard" /\ op[t].goal = "open"
            \/ op[t].at = "create" /\ op'[t].at = "created"
<1>1. PICK a : /\ (a = "guard" /\ Served(t, "track")) \/ (a = "created" /\ Served(t, "create"))
               /\ Answered(t, [op[t] EXCEPT !.doc = d, !.at = a])
  BY DEF Track, Create
<1>2. PICK m : m = [op[t] EXCEPT !.doc = d, !.at = a]
  OBVIOUS
<1>3. m.at = a /\ m.goal = op[t].goal /\ m.doc = d
  BY <1>2, AtOf DEF Task
<1>4. PICK c : Served(t, c) /\ ((c = "track" /\ a = "guard") \/ (c = "create" /\ a = "created"))
  BY <1>1
<1>5. Steps(t) /\ op'[t] = m /\ op[t].at = c
  BY <1>1, <1>2, <1>4, StepsAnswered DEF Calls
<1>6. EditorStill /\ WindowStill /\ UNCHANGED <<stage, req>>
  BY DEF Track, Create, OpenDocumentTracking, CreateDocument, InsertSession, EditorStill, WindowStill,
         editorVars, ghostVars
<1>7. /\ d \notin issued /\ live' = live \cup {d} /\ issued' = issued \cup {d}
      /\ dirty' = [dirty EXCEPT ![d] = FALSE]
  BY DEF Track, Create, OpenDocumentTracking, CreateDocument, InsertSession
<1>8. ~dirty'[d] /\ \A e \in Docs \ {d} : dirty'[e] = dirty[e]
  BY <1>7, SessionsTyped
<1>9. op[t].at = "track" => op[t].goal = "open"
  BY DEF FlowInv, TaskOK
<1> QED BY <1>3, <1>4, <1>5, <1>6, <1>7, <1>8, <1>9

\* The window takes the document it has prepared when the editor is given new content.
Completes ==
  \/ pending = NoDoc /\ UNCHANGED <<sess, pending, wire>>
  \/ /\ pending # NoDoc /\ pending' = NoDoc /\ sess'.doc = pending /\ ~sess'.dirty
     /\ wire' = IF sess = NoSession THEN wire ELSE Append(wire, MessageOf("close", sess.doc))

LEMMA CompletesIs ==
  ASSUME CompletePending(wire)
  PROVE  Completes
BY DEF CompletePending, Completes, SessionOf

LEMMA LoadIs ==
  ASSUME FlowInv, FlowInv', NEW t \in Tasks, Load(t)
  PROVE  /\ \A u \in Tasks : u # t => op'[u] = op[u]
         /\ op'[t] \in Task /\ SameTask(t) /\ op[t].at = "load" /\ op'[t].at = "commitOpen"
         /\ op[t].goal = "open" /\ Completes /\ Still /\ UNCHANGED <<blanks, gone, waived>>
         /\ shows' = op[t].doc /\ unsaved' = FALSE /\ body' \in kept' /\ kept \subseteq kept'
<1>1. PICK m : m = [op[t] EXCEPT !.at = "commitOpen"]
  OBVIOUS
<1>2. m.at = "commitOpen" /\ m.goal = op[t].goal /\ m.doc = op[t].doc /\ m \in Task
  BY <1>1, AtOf DEF Task, Awaits
<1>3. op[t].at = "load" /\ op' = [op EXCEPT ![t] = m]
  BY <1>1 DEF Load, FlowInv
<1>4. op'[t] = m /\ \A u \in Tasks : u # t => op'[u] = op[u]
  BY <1>3, OneMoves
<1>5. /\ Completes /\ Still /\ UNCHANGED <<blanks, gone, waived>>
      /\ shows' = op[t].doc /\ unsaved' = FALSE /\ body' \in kept' /\ kept \subseteq kept'
  BY CompletesIs DEF Load, Still, vars, sessionVars
<1>6. op[t].goal = "open"
  BY <1>3 DEF FlowInv, TaskOK
<1> QED BY <1>2, <1>3, <1>4, <1>5, <1>6 DEF SameTask

LEMMA CommitOpenIs ==
  ASSUME FlowInv, FlowInv', NEW t \in Tasks, CommitOpen(t)
  PROVE  /\ Steps(t) /\ Still /\ EditorStill /\ UNCHANGED <<pending, blanks, gone>> /\ SameTask(t)
         /\ op[t].at = "commitOpen" /\ op'[t].at = "record" /\ op'[t].old = sess.doc
         /\ sess'.doc = op[t].doc /\ ~sess'.dirty
<1>1. PICK m : m = [op[t] EXCEPT !.at = "record", !.old = sess.doc]
  OBVIOUS
<1>2. m.at = "record" /\ m.goal = op[t].goal /\ m.doc = op[t].doc /\ m.old = sess.doc
  BY <1>1, AtOf DEF Task
<1>3. /\ GoTo(t, m) /\ op[t].at = "commitOpen" /\ op[t].at \notin Calls
      /\ Still /\ EditorStill /\ UNCHANGED <<pending, blanks, gone>>
      /\ sess'.doc = op[t].doc /\ ~sess'.dirty
  BY <1>1 DEF CommitOpen, Calls, Still, EditorStill, SessionOf, vars, sessionVars, editorVars, ghostVars
<1> QED BY <1>2, <1>3, StepsGoTo DEF SameTask

LEMMA RecordedIs ==
  ASSUME FlowInv, FlowInv', NEW t \in Tasks, Recorded(t)
  PROVE  /\ Steps(t) /\ Still /\ EditorStill /\ WindowStill /\ op[t].at = "record"
         /\ \/ op[t].old = NoDoc /\ op'[t] = NoTask
            \/ op'[t].at = "closePrevious" /\ op'[t].old = op[t].old /\ SameTask(t)
<1>1. /\ op[t].at = "record" /\ op[t].at \notin Calls /\ Still /\ EditorStill /\ WindowStill
  BY DEF Recorded, Calls, Still, EditorStill, WindowStill, vars, sessionVars, editorVars, ghostVars
<1>2. CASE op[t].old = NoDoc
  <2>1. GoTo(t, NoTask)
    BY <1>2 DEF Recorded
  <2> QED BY <1>1, <1>2, <2>1, StepsGoTo
<1>3. CASE op[t].old # NoDoc
  <2>1. PICK m : m = [op[t] EXCEPT !.at = "closePrevious"]
    OBVIOUS
  <2>2. m.at = "closePrevious" /\ m.goal = op[t].goal /\ m.doc = op[t].doc /\ m.old = op[t].old
    BY <2>1, AtOf DEF Task
  <2>3. GoTo(t, m)
    BY <1>3, <2>1 DEF Recorded
  <2> QED BY <1>1, <2>2, <2>3, StepsGoTo DEF SameTask
<1> QED BY <1>2, <1>3

\* The call that closes d is handled.
ClosesOne(d) ==
  /\ live' = live \ {d} /\ UNCHANGED <<issued, stage, req>>
  /\ \A e \in live \ {d} : dirty'[e] = dirty[e]

LEMMA ClosesOneIs ==
  ASSUME FlowInv, NEW d \in Docs \cup {NoDoc}, CloseNative(d)
  PROVE  ClosesOne(d)
<1>1. UNCHANGED req
  BY DEF CloseNative, CloseDocument, vars
<1> QED BY <1>1, CloseNativeIs DEF ClosesOne

LEMMA CloseStepsIs ==
  ASSUME FlowInv, FlowInv', NEW t \in Tasks, ClosePrevious(t) \/ Drop(t)
  PROVE  /\ Steps(t) /\ EditorStill /\ WindowStill /\ op'[t] = NoTask
         /\ \/ op[t].at = "closePrevious" /\ ClosesOne(op[t].old)
            \/ op[t].at = "drop" /\ ClosesOne(op[t].doc)
<1>1. PICK c \in Calls : Served(t, c) /\ Answered(t, NoTask)
  BY DEF ClosePrevious, Drop, Calls
<1>2. EditorStill /\ WindowStill
  BY DEF ClosePrevious, Drop, EditorStill, WindowStill, editorVars, ghostVars
<1>3. op[t].old \in Docs \cup {NoDoc} /\ op[t].doc \in Docs \cup {NoDoc}
  BY AtOf DEF Task
<1>4. \/ op[t].at = "closePrevious" /\ ClosesOne(op[t].old)
      \/ op[t].at = "drop" /\ ClosesOne(op[t].doc)
  BY <1>3, ClosesOneIs DEF ClosePrevious, Drop, Served
<1> QED BY <1>1, <1>2, <1>4, StepsAnswered DEF Calls

LEMMA AbortedIs ==
  ASSUME FlowInv, FlowInv', NEW t \in Tasks, Aborted(t)
  PROVE  /\ Steps(t) /\ EditorStill /\ UNCHANGED <<pending, blanks, gone>>
         /\ op[t].at = "abort" /\ op[t].goal # "save" /\ ClosesOne(op[t].old) /\ WentOn(t, op[t])
<1>1. PICK m : m = Onward(op[t])
  OBVIOUS
<1>2. /\ Served(t, "abort") /\ Answered(t, m) /\ sess' = SessionOnward(op[t])
      /\ EditorStill /\ UNCHANGED <<pending, blanks, gone>> /\ op[t].at = "abort"
  BY <1>1 DEF Aborted, Served, EditorStill, editorVars, ghostVars
<1>3. op[t] \in Task /\ op[t].old \in Docs \cup {NoDoc} /\ op[t].goal # "save"
  BY <1>2, AtOf DEF Task, FlowInv, TaskOK
<1>4. Steps(t) /\ op'[t] = m
  BY <1>2, StepsAnswered DEF Calls
<1>5. ClosesOne(op[t].old)
  BY <1>3, ClosesOneIs DEF Aborted
<1>6. WentOn(t, op[t])
  BY <1>1, <1>2, <1>3, <1>4, OnwardIs DEF WentOn
<1> QED BY <1>2, <1>3, <1>4, <1>5, <1>6

LEMMA CreatedIs ==
  ASSUME FlowInv, FlowInv', NEW t \in Tasks, Created(t)
  PROVE  /\ Steps(t) /\ Still /\ EditorStill /\ UNCHANGED <<sess, gone>>
         /\ op[t].at = "created" /\ op'[t] = NoTask
         /\ pending' = op[t].doc /\ blanks' = blanks + 1
<1>1. GoTo(t, NoTask) /\ op[t].at = "created" /\ op[t].at \notin Calls
  BY DEF Created, Calls
<1> QED BY <1>1, StepsGoTo
        DEF Created, Still, EditorStill, vars, sessionVars, editorVars, ghostVars

LEMMA CloseLastIs ==
  ASSUME FlowInv, FlowInv', NEW t \in Tasks, CloseLast(t)
  PROVE  /\ Steps(t) /\ EditorStill /\ WindowStill /\ SameTask(t) /\ ClosesOne(op[t].old)
         /\ op[t].at = "closeLast" /\ op'[t].at = "destroy"
<1>1. PICK m : m = [op[t] EXCEPT !.at = "destroy"]
  OBVIOUS
<1>2. m.at = "destroy" /\ m.goal = op[t].goal /\ m.doc = op[t].doc
  BY <1>1, AtOf DEF Task
<1>3. Served(t, "closeLast") /\ Answered(t, m) /\ EditorStill /\ WindowStill
  BY <1>1 DEF CloseLast, EditorStill, WindowStill, editorVars, ghostVars
<1>4. op[t].old \in Docs \cup {NoDoc}
  BY AtOf DEF Task
<1>5. ClosesOne(op[t].old)
  BY <1>4, ClosesOneIs DEF CloseLast
<1> QED BY <1>2, <1>3, <1>5, StepsAnswered DEF SameTask, Calls

LEMMA DestroyIs ==
  ASSUME NEW t \in Tasks, Destroy(t)
  PROVE  /\ Still /\ EditorStill /\ UNCHANGED <<sess, pending, blanks>>
         /\ gone' = TRUE /\ op' = [u \in Tasks |-> NoTask] /\ wire' = <<>> /\ op[t].at = "destroy"
BY DEF Destroy, Served, Still, EditorStill, vars, sessionVars, editorVars, ghostVars

-----------------------------------------------------------------------------
(* ... and the steps of nobody in particular                                *)

LEMMA BlankIs ==
  ASSUME Blank
  PROVE  /\ Still /\ UNCHANGED <<op, gone, waived>> /\ Completes /\ blanks > 0 /\ blanks' = blanks - 1
         /\ unsaved' = FALSE /\ body' \in kept' /\ kept \subseteq kept' /\ ~gone
         /\ pending # NoDoc => shows' = pending
BY CompletesIs DEF Blank, NewContent, Still, vars, sessionVars

LEMMA BlankFailsIs ==
  ASSUME BlankFails
  PROVE  /\ Still /\ EditorStill /\ UNCHANGED <<op, gone, sess, pending, wire>>
         /\ blanks > 0 /\ blanks' = blanks - 1
BY DEF BlankFails, Still, EditorStill, vars, sessionVars, ghostVars

LEMMA EditIs ==
  ASSUME FlowInv, Edit
  PROVE  /\ Still /\ UNCHANGED <<pending, shows, blanks, op, gone, kept, waived>>
         /\ ~gone /\ body # 0 /\ Busy \cap Modal = {} /\ unsaved' = TRUE
         /\ \/ /\ sess # NoSession /\ ~sess.dirty /\ sess'.doc = sess.doc /\ sess'.dirty
               /\ wire' = Append(wire, MessageOf("dirty", sess.doc))
            \/ (sess = NoSession \/ sess.dirty) /\ UNCHANGED <<sess, wire>>
<1>1. sess \in WindowSession
  BY DEF FlowInv, WindowOK
<1> QED BY <1>1 DEF Edit, NewContent, Still, vars, sessionVars, ghostVars, WindowSession

LEMMA DeliverDirtyIs ==
  ASSUME SoundInv, DeliverDirty
  PROVE  /\ EditorStill /\ WindowStill /\ UNCHANGED <<op, live, issued, stage, req>>
         /\ wire # <<>> /\ wire' = Tail(wire)
         /\ \E d \in Docs \cup {NoDoc} :
              /\ Head(wire) = MessageOf("dirty", d)
              /\ IF d \in live THEN dirty'[d] /\ \A e \in Docs \ {d} : dirty'[e] = dirty[e]
                 ELSE dirty' = dirty
<1>1. PICK d : d = Head(wire).doc
  OBVIOUS
<1>2. d \in Docs \cup {NoDoc} /\ Head(wire) = MessageOf("dirty", d)
  BY <1>1, Delivered DEF DeliverDirty, SoundInv
<1>3. live \subseteq Docs /\ dirty \in [Docs -> BOOLEAN]
  BY SessionsTyped DEF SoundInv
<1>4. IF d \in live THEN dirty'[d] /\ \A e \in Docs \ {d} : dirty'[e] = dirty[e] ELSE dirty' = dirty
  BY <1>1, <1>3 DEF DeliverDirty, MarkDocumentDirty, vars, sessionVars
<1>5. /\ EditorStill /\ WindowStill /\ UNCHANGED <<op, live, issued, stage, req>>
      /\ wire # <<>> /\ wire' = Tail(wire)
  BY DEF DeliverDirty, MarkDocumentDirty, EditorStill, WindowStill, vars, sessionVars, editorVars,
         ghostVars
<1> QED BY <1>2, <1>4, <1>5

LEMMA DeliverCloseIs ==
  ASSUME SoundInv, DeliverClose
  PROVE  /\ EditorStill /\ WindowStill /\ UNCHANGED op /\ wire # <<>> /\ wire' = Tail(wire)
         /\ \E d \in Docs \cup {NoDoc} : Head(wire) = MessageOf("close", d) /\ ClosesOne(d)
<1>1. PICK d : d = Head(wire).doc
  OBVIOUS
<1>2. d \in Docs \cup {NoDoc} /\ Head(wire) = MessageOf("close", d)
  BY <1>1, Delivered DEF DeliverClose, SoundInv
<1>3. ClosesOne(d)
  BY <1>1, <1>2, ClosesOneIs DEF DeliverClose, SoundInv
<1> QED BY <1>2, <1>3 DEF DeliverClose, EditorStill, WindowStill, editorVars, ghostVars

LEMMA OutsideIs ==
  ASSUME OtherPrograms \/ UNCHANGED flowVars
  PROVE  /\ Still /\ EditorStill /\ WindowStill /\ UNCHANGED <<op, wire>>
BY DEF OtherPrograms, ExternalWrite, ExternalDelete, flowVars, Still, EditorStill, WindowStill,
       vars, sessionVars, editorVars, ghostVars

-----------------------------------------------------------------------------
(* Whose content is saved.                                                  *)
(*                                                                          *)
(* When no two commands overlap except saves with saves and with a new      *)
(* document, a save writes the content of its own document.  Its document   *)
(* can be replaced while it waits, by a new one; but then the close of the  *)
(* replaced session is on the wire before the call that commits the save,   *)
(* which is therefore refused.                                              *)

SavesOverlap == Overlap \subseteq {{"save", "new"}, {"save"}}

\* What a command is for shows in where it can be, and in whether it has a document.
GoalOK(o) ==
  /\ o.at \in {"commitOpen", "record", "closePrevious", "drop"} => o.goal = "open"
  /\ o.at \in {"create", "created"} => o.goal = "new"
  /\ Leaves(o) => o.goal = "close"
  /\ o.doc # NoDoc => o.goal = "open" \/ o.at = "created"

\* Only commands that may overlap do, and a window that is gone runs none.
Apart ==
  /\ \A t, u \in Running : t # u => {op[t].goal, op[u].goal} \in Overlap
  /\ blanks > 0 => \A t \in Running : {op[t].goal, "new"} \in Overlap
  /\ blanks > 1 => {"new"} \in Overlap
  /\ gone => Running = {}

\* The message c is on the wire, is there once, comes after an x wherever it is.
Has(w, c) == \E i \in DOMAIN w : w[i] = c
Once(w, c) == \A i, j \in DOMAIN w : w[i] = c /\ w[j] = c => i = j
After(w, c, x) == \A i \in DOMAIN w : w[i] = c => \E j \in DOMAIN w : j < i /\ w[j] = x

\* A call is on the wire once, while its command waits for it.
CallsOnce ==
  \A t \in Tasks : /\ Once(wire, CallOf(t))
                   /\ Has(wire, CallOf(t)) => op[t].at \in Calls

\* The editor is going to be blank for the document that was prepared.
Prepared == blanks > 0 => pending # NoDoc

\* The editor shows the window's document, or the one that is being opened.
ShowsOwn ==
  /\ \A t \in Tasks : op[t].at = "commitOpen" => shows = op[t].doc
  /\ Closing \/ shows = sess.doc \/ \E t \in Tasks : op[t].at = "commitOpen"

\* A save works on the window's document, or on one that is closed before it commits.
Parting(d) == d \in issued /\ (d \notin live \/ d \in Told(wire, "close"))
SaveOwn(t) ==
  /\ op[t].at \in {"choose", "check", "ask", "export"} =>
       op[t].save.doc = sess.doc \/ Parting(op[t].save.doc)
  /\ op[t].at = "commit" =>
       \/ op[t].owner = op[t].save.doc
       \/ op[t].save.doc \in issued \ live
       \/ op[t].save.doc \in issued /\ After(wire, CallOf(t), MessageOf("close", op[t].save.doc))

OverlapInv ==
  /\ SoundInv /\ SavesOverlap
  /\ \A t \in Tasks : GoalOK(op[t])
  /\ Apart /\ CallsOnce /\ Prepared /\ ShowsOwn /\ \A t \in Tasks : SaveOwn(t)

\* Lemmas about the wire
LEMMA AppendOrder ==
  ASSUME NEW w \in Seq(Messages), NEW m \in Messages, NEW v, Longer(v, w, m), NEW c
  PROVE  /\ Has(v, c) <=> Has(w, c) \/ m = c
         /\ Once(w, c) /\ (m # c \/ ~Has(w, c)) => Once(v, c)
         /\ \A x : After(w, c, x) /\ (m # c \/ Has(w, x)) => After(v, c, x)
<1>1. v \in Seq(Messages) /\ Len(v) = Len(w) + 1 /\ DOMAIN v = 1..Len(v) /\ DOMAIN w = 1..Len(w)
      /\ Len(w) \in Nat
  BY DEF Longer
<1>2. \A i \in 1..Len(w) : v[i] = w[i]
  BY DEF Longer
<1>3. v[Len(w) + 1] = m
  BY DEF Longer
<1>4. \A i \in DOMAIN v : i \in DOMAIN w \/ i = Len(w) + 1
  BY <1>1
<1>5. DOMAIN w \subseteq DOMAIN v /\ Len(w) + 1 \in DOMAIN v
  BY <1>1
<1>6. Has(v, c) <=> Has(w, c) \/ m = c
  BY <1>1, <1>2, <1>3, <1>4, <1>5 DEF Has
<1>7. ASSUME Once(w, c), m # c \/ ~Has(w, c) PROVE Once(v, c)
  <2> SUFFICES ASSUME NEW i \in DOMAIN v, NEW j \in DOMAIN v, v[i] = c, v[j] = c PROVE i = j
    BY DEF Once
  <2>1. CASE m = c
    BY <1>1, <1>2, <1>4, <1>7, <2>1 DEF Has
  <2>2. CASE m # c
    <3>1. i \in DOMAIN w /\ j \in DOMAIN w
      BY <1>3, <1>4, <2>2
    <3> QED BY <1>1, <1>2, <1>7, <3>1 DEF Once
  <2> QED BY <2>1, <2>2
<1>8. ASSUME NEW x, After(w, c, x), m # c \/ Has(w, x) PROVE After(v, c, x)
  <2> SUFFICES ASSUME NEW i \in DOMAIN v, v[i] = c PROVE \E j \in DOMAIN v : j < i /\ v[j] = x
    BY DEF After
  <2>1. CASE i \in DOMAIN w
    <3>1. w[i] = c
      BY <1>1, <1>2, <2>1
    <3>2. PICK j \in DOMAIN w : j < i /\ w[j] = x
      BY <1>8, <2>1, <3>1 DEF After
    <3> QED BY <1>1, <1>2, <1>5, <3>2
  <2>2. CASE i = Len(w) + 1
    <3>1. PICK j \in DOMAIN w : w[j] = x
      BY <1>3, <1>8, <2>2 DEF Has
    <3>2. j < i /\ v[j] = x /\ j \in DOMAIN v
      BY <1>1, <1>2, <1>5, <2>2, <3>1
    <3> QED BY <3>2
  <2> QED BY <1>4, <2>1, <2>2
<1> QED BY <1>6, <1>7, <1>8

LEMMA TailOrder ==
  ASSUME NEW w \in Seq(Messages), w # <<>>, NEW v, v = Tail(w), NEW c
  PROVE  /\ Has(v, c) => Has(w, c)
         /\ Once(w, c) => Once(v, c) /\ (Head(w) = c => ~Has(v, c))
         /\ \A x : After(w, c, x) => Head(w) # c /\ (Head(w) # x => After(v, c, x))
<1>1. v \in Seq(Messages) /\ Len(v) = Len(w) - 1 /\ DOMAIN v = 1..Len(v) /\ DOMAIN w = 1..Len(w)
      /\ Len(w) \in Nat /\ Len(w) > 0 /\ Len(v) \in Nat
  OBVIOUS
<1>2. \A i \in 1..Len(v) : v[i] = w[i + 1] /\ i + 1 \in DOMAIN w
  BY <1>1
<1>3. Head(w) = w[1] /\ 1 \in DOMAIN w
  BY <1>1
<1>4. \A i \in DOMAIN v : i \in Nat /\ i > 0
  BY <1>1
<1>5. Has(v, c) => Has(w, c)
  BY <1>1, <1>2 DEF Has
<1>6. ASSUME Once(w, c) PROVE Once(v, c)
  <2> SUFFICES ASSUME NEW i \in DOMAIN v, NEW j \in DOMAIN v, v[i] = c, v[j] = c PROVE i = j
    BY DEF Once
  <2>1. i + 1 = j + 1
    BY <1>1, <1>2, <1>6 DEF Once
  <2> QED BY <1>4, <2>1
<1>7. ASSUME Once(w, c), Head(w) = c PROVE ~Has(v, c)
  <2> SUFFICES ASSUME NEW i \in DOMAIN v, v[i] = c PROVE FALSE
    BY DEF Has
  <2>1. i + 1 = 1
    BY <1>1, <1>2, <1>3, <1>7 DEF Once
  <2> QED BY <1>4, <2>1
<1>8. ASSUME NEW x, After(w, c, x) PROVE Head(w) # c
  <2> SUFFICES ASSUME Head(w) = c PROVE FALSE
    OBVIOUS
  <2>1. PICK j \in DOMAIN w : j < 1
    BY <1>3, <1>8 DEF After
  <2> QED BY <1>1, <2>1
<1>9. ASSUME NEW x, After(w, c, x), Head(w) # x PROVE After(v, c, x)
  <2> SUFFICES ASSUME NEW i \in DOMAIN v, v[i] = c PROVE \E j \in DOMAIN v : j < i /\ v[j] = x
    BY DEF After
  <2>1. PICK j \in DOMAIN w : j < i + 1 /\ w[j] = x
    BY <1>1, <1>2, <1>9 DEF After
  <2>2. j # 1
    BY <1>3, <1>9, <2>1
  <2>3. j - 1 \in DOMAIN v /\ j - 1 < i /\ (j - 1) + 1 = j
    BY <1>1, <1>4, <2>1, <2>2
  <2> QED BY <1>1, <1>2, <2>1, <2>3
<1> QED BY <1>5, <1>6, <1>7, <1>8, <1>9

LEMMA CallsDiffer ==
  /\ \A t, u : CallOf(t) = CallOf(u) => t = u
  /\ \A t, name, d : name # "call" => CallOf(t) # MessageOf(name, d)
<1>1. ASSUME NEW t, NEW u, CallOf(t) = CallOf(u) PROVE t = u
  <2>1. CallOf(t).task = t /\ CallOf(u).task = u
    BY DEF CallOf
  <2> QED BY <1>1, <2>1
<1>2. ASSUME NEW t, NEW name, NEW d, name # "call" PROVE CallOf(t) # MessageOf(name, d)
  <2>1. CallOf(t).name = "call" /\ MessageOf(name, d).name = name
    BY DEF CallOf, MessageOf
  <2> QED BY <1>2, <2>1
<1> QED BY <1>1, <1>2

\* A command waits for a call, or it does not: what it sends and hears keeps the calls in order.
LEMMA CallsSteps ==
  ASSUME EditorTyped, CallsOnce, NEW t \in Tasks, Steps(t)
  PROVE  CallsOnce'
<1>1. PICK m : m = CallOf(t)
  OBVIOUS
<1>2. m \in Messages /\ wire \in Seq(Messages)
  BY <1>1, MessageIs DEF EditorTyped
<1>3. PICK w : /\ w \in Seq(Messages) /\ ~Has(w, m)
               /\ \A u \in Tasks : Once(w, CallOf(u)) /\ (Has(w, CallOf(u)) => op[u].at \in Calls)
               /\ wire' = Sent(w, t, op'[t])
  <2>1. CASE op[t].at \notin Calls /\ wire' = Sent(wire, t, op'[t])
    BY <1>1, <1>2, <2>1 DEF CallsOnce
  <2>2. CASE Served(t, op[t].at) /\ wire' = Sent(Tail(wire), t, op'[t])
    <3>1. PICK v : v = Tail(wire)
      OBVIOUS
    <3>2. wire # <<>> /\ Head(wire) = m
      BY <1>1, <2>2 DEF Served
    <3>3. v \in Seq(Messages)
      BY <1>2, <3>1, <3>2
    <3>4. ASSUME NEW u \in Tasks
          PROVE  Once(v, CallOf(u)) /\ (Has(v, CallOf(u)) => op[u].at \in Calls)
      <4>1. PICK c : c = CallOf(u)
        OBVIOUS
      <4>2. Once(wire, c) /\ (Has(wire, c) => op[u].at \in Calls)
        BY <4>1 DEF CallsOnce
      <4> QED BY <1>2, <3>1, <3>2, <4>1, <4>2, TailOrder
    <3>5. ~Has(v, m)
      <4>1. Once(wire, m)
        BY <1>1 DEF CallsOnce
      <4> QED BY <1>2, <3>1, <3>2, <4>1, TailOrder
    <3> QED BY <2>2, <3>1, <3>3, <3>4, <3>5
  <2> QED BY <2>1, <2>2 DEF Steps
<1>4. \A u \in Tasks : u # t => op'[u] = op[u] /\ CallOf(u) # m
  BY <1>1, CallsDiffer DEF Steps
<1>5. CASE op'[t].at \in Calls
  <2>1. PICK v : v = wire'
    OBVIOUS
  <2>2. Longer(v, w, m)
    BY <1>1, <1>3, <1>5, <2>1 DEF Sent, Longer
  <2>3. ASSUME NEW u \in Tasks
        PROVE  Once(v, CallOf(u)) /\ (Has(v, CallOf(u)) => op'[u].at \in Calls)
    <3>1. PICK c : c = CallOf(u)
      OBVIOUS
    <3>2. /\ Has(v, c) <=> Has(w, c) \/ m = c
          /\ Once(w, c) /\ (m # c \/ ~Has(w, c)) => Once(v, c)
      BY <1>2, <1>3, <2>2, AppendOrder
    <3>3. Once(w, c) /\ (Has(w, c) => op[u].at \in Calls)
      BY <1>3, <3>1
    <3>4. CASE u = t
      BY <1>1, <1>3, <1>5, <3>1, <3>2, <3>3, <3>4
    <3>5. CASE u # t
      BY <1>4, <3>1, <3>2, <3>3, <3>5
    <3> QED BY <3>4, <3>5
  <2> QED BY <2>1, <2>3 DEF CallsOnce
<1>6. CASE op'[t].at \notin Calls
  <2>1. wire' = w
    BY <1>3, <1>6 DEF Sent
  <2> QED BY <1>1, <1>3, <1>4, <2>1 DEF CallsOnce
<1> QED BY <1>5, <1>6

\* So does a message that nobody waits for.
LEMMA CallsMessages ==
  ASSUME EditorTyped, CallsOnce, NEW m \in Messages, m.name # "call",
         \/ Longer(wire', wire, m)
         \/ wire # <<>> /\ Head(wire) = m /\ wire' = Tail(wire)
         \/ wire' = wire,
         \A u \in Tasks : op[u].at \in Calls => op'[u].at \in Calls
  PROVE  CallsOnce'
<1>1. PICK v : v = wire'
  OBVIOUS
<1>2. wire \in Seq(Messages)
  BY DEF EditorTyped
<1> SUFFICES ASSUME NEW u \in Tasks
             PROVE  Once(v, CallOf(u)) /\ (Has(v, CallOf(u)) => op'[u].at \in Calls)
  BY <1>1 DEF CallsOnce
<1>3. PICK c : c = CallOf(u)
  OBVIOUS
<1>4. Once(wire, c) /\ (Has(wire, c) => op'[u].at \in Calls)
  BY <1>3 DEF CallsOnce
<1>5. m # c
  BY <1>3 DEF CallOf
<1>6. CASE Longer(wire', wire, m)
  BY <1>1, <1>2, <1>3, <1>4, <1>5, <1>6, AppendOrder
<1>7. CASE wire # <<>> /\ Head(wire) = m /\ wire' = Tail(wire)
  BY <1>1, <1>2, <1>3, <1>4, <1>7, TailOrder
<1>8. CASE wire' = wire
  BY <1>1, <1>3, <1>4, <1>8
<1> QED BY <1>6, <1>7, <1>8

\* What another command sends or hears does not overtake the close before a call.
LEMMA AfterSteps ==
  ASSUME EditorTyped, NEW t \in Tasks, Steps(t), NEW u \in Tasks, u # t, NEW d,
         After(wire, CallOf(u), MessageOf("close", d))
  PROVE  After(wire', CallOf(u), MessageOf("close", d))
<1>1. PICK m : m = CallOf(t)
  OBVIOUS
<1>2. PICK c : c = CallOf(u)
  OBVIOUS
<1>3. PICK x : x = MessageOf("close", d)
  OBVIOUS
<1>4. m \in Messages /\ wire \in Seq(Messages) /\ m # c /\ m # x
  BY <1>1, <1>2, <1>3, MessageIs, CallsDiffer DEF EditorTyped
<1>5. PICK w : w \in Seq(Messages) /\ After(w, c, x) /\ wire' = Sent(w, t, op'[t])
  <2>1. CASE op[t].at \notin Calls /\ wire' = Sent(wire, t, op'[t])
    BY <1>2, <1>3, <1>4, <2>1
  <2>2. CASE Served(t, op[t].at) /\ wire' = Sent(Tail(wire), t, op'[t])
    <3>1. PICK v : v = Tail(wire)
      OBVIOUS
    <3>2. wire # <<>> /\ Head(wire) = m
      BY <1>1, <2>2 DEF Served
    <3>3. v \in Seq(Messages) /\ After(wire, c, x)
      BY <1>2, <1>3, <1>4, <3>1, <3>2
    <3> QED BY <1>4, <2>2, <3>1, <3>2, <3>3, TailOrder
  <2> QED BY <2>1, <2>2 DEF Steps
<1>6. CASE wire' = w
  BY <1>2, <1>3, <1>5, <1>6
<1>7. CASE wire' = Append(w, m)
  <2>1. PICK v : v = wire'
    OBVIOUS
  <2>2. Longer(v, w, m)
    BY <1>7, <2>1 DEF Longer
  <2> QED BY <1>2, <1>3, <1>4, <1>5, <2>1, <2>2, AppendOrder
<1> QED BY <1>1, <1>5, <1>6, <1>7 DEF Sent

LEMMA StepsWire ==
  ASSUME EditorTyped, NEW t \in Tasks, Steps(t)
  PROVE  WireKept
<1>1. PICK o : o = op'[t]
  OBVIOUS
<1>2. CASE wire' = Sent(wire, t, o)
  BY <1>2, SentKeeps DEF WireKept, EditorTyped
<1>3. CASE Served(t, op[t].at) /\ wire' = Sent(Tail(wire), t, o)
  <2>1. PICK v : v = Tail(wire)
    OBVIOUS
  <2>2. wire \in Seq(Messages) /\ wire # <<>> /\ Head(wire) = CallOf(t)
    BY <1>3 DEF Served, EditorTyped
  <2>3. ASSUME NEW name \in {"close", "dirty"}
        PROVE  v \in Seq(Messages) /\ Told(v, name) = Told(wire, name)
    <3>1. \A d : Head(wire) # MessageOf(name, d)
      BY <2>2, CallsDiffer
    <3>2. PICK w : w = wire
      OBVIOUS
    <3>3. v \in Seq(Messages) /\ Told(w, name) = Told(v, name) \cup About(Head(w), name)
      BY <2>1, <2>2, <3>2, WireTail
    <3> QED BY <3>1, <3>2, <3>3 DEF About
  <2>4. v \in Seq(Messages)
    BY <2>3
  <2>5. wire' = Sent(v, t, o)
    BY <1>3, <2>1
  <2>6. ASSUME NEW name \in {"close", "dirty"}
        PROVE  wire' \in Seq(Messages) /\ Told(wire', name) = Told(wire, name)
    BY <2>3, <2>4, <2>5, SentKeeps
  <2> QED BY <2>6 DEF WireKept
<1> QED BY <1>1, <1>2, <1>3 DEF Steps

\* A document that parts keeps parting.
LEMMA PartingKept ==
  ASSUME live \subseteq issued, issued \subseteq issued', live' \cap issued \subseteq live,
         Told(wire, "close") \subseteq Told(wire', "close") \cup (issued' \ live')
  PROVE  /\ \A d : Parting(d) => Parting(d)'
         /\ \A d \in issued \ live : d \in issued' \ live'
BY DEF Parting

LEMMA SaveOwnSteps ==
  ASSUME EditorTyped, NEW t \in Tasks, Steps(t), NEW u \in Tasks, u # t, SaveOwn(u),
         live \subseteq issued, issued \subseteq issued', live' \cap issued \subseteq live,
         sess'.doc = sess.doc
  PROVE  SaveOwn(u)'
<1>1. op'[u] = op[u]
  BY DEF Steps
<1>2. Told(wire', "close") = Told(wire, "close")
  BY StepsWire DEF WireKept
<1>3. /\ \A d : Parting(d) => Parting(d)'
      /\ \A d \in issued \ live : d \in issued' \ live'
  BY <1>2, PartingKept
<1>4. PICK d : d = op[u].save.doc
  OBVIOUS
<1>5. After(wire, CallOf(u), MessageOf("close", d)) => After(wire', CallOf(u), MessageOf("close", d))
  BY AfterSteps
<1>6. d = sess.doc \/ Parting(d) => d = sess'.doc \/ Parting(d)'
  BY <1>3
<1>7. op[u].at \in {"choose", "check", "ask", "export"} => d = sess'.doc \/ Parting(d)'
  BY <1>4, <1>6 DEF SaveOwn
<1>8. op[u].at = "commit" =>
       \/ op[u].owner = d
       \/ d \in issued' \ live'
       \/ d \in issued' /\ After(wire', CallOf(u), MessageOf("close", d))
  BY <1>3, <1>4, <1>5 DEF SaveOwn
<1> QED BY <1>1, <1>4, <1>7, <1>8 DEF SaveOwn

-----------------------------------------------------------------------------
(* Which commands run side by side                                          *)

LEMMA Alone ==
  ASSUME Apart, SavesOverlap, NEW t \in Running
  PROVE  /\ op[t].goal # "save" => ~(blanks > 0)
         /\ op[t].goal \in {"open", "close"} => \A u \in Running : u = t
         /\ op[t].goal = "new" => \A u \in Running : u = t \/ op[u].goal = "save"
         /\ ~gone
<1>1. ASSUME NEW g, NEW h, {g, h} \in Overlap PROVE h \in {"save", "new"} /\ g \in {"save", "new"}
  BY <1>1 DEF SavesOverlap
<1>2. {"new"} \notin Overlap
  BY DEF SavesOverlap
<1>3. ASSUME op[t].goal = "new", NEW u \in Running, u # t PROVE op[u].goal = "save"
  <2>1. {op[t].goal, op[u].goal} \in Overlap
    BY <1>3 DEF Apart
  <2>2. op[u].goal # "new"
    BY <1>2, <1>3, <2>1
  <2> QED BY <1>1, <2>1, <2>2
<1>5. ASSUME op[t].goal \in {"open", "close"}, NEW u \in Running PROVE u = t
  BY <1>1, <1>5 DEF Apart
<1>7. ~gone
  BY DEF Apart
<1>8. op[t].goal # "save" => ~(blanks > 0)
  <2>1. ASSUME blanks > 0 PROVE op[t].goal = "save"
    <3>1. {op[t].goal, "new"} \in Overlap
      BY <2>1 DEF Apart
    <3> QED BY <1>1, <1>2, <3>1
  <2> QED BY <2>1
<1> QED BY <1>3, <1>5, <1>7, <1>8

\* A command starts where it may, and is for one thing until it ends.
Course(t) ==
  \/ op'[t].at = "idle"
  \/ op[t].at # "idle" /\ op'[t].goal = op[t].goal
  \/ op[t].at = "idle" /\ MayStart(t, op'[t].goal)

LEMMA ApartSteps ==
  ASSUME Apart, NEW t \in Tasks, \A u \in Tasks : u # t => op'[u] = op[u], Course(t),
         UNCHANGED <<blanks, gone>>
  PROVE  Apart'
<1>1. Running' \subseteq Running \cup {t}
  BY DEF Running
<1>2. \A u \in Running' \ {t} : u \in Running /\ op'[u].goal = op[u].goal
  BY DEF Running
<1>3. ASSUME t \in Running'
      PROVE  /\ \A u \in Running \ {t} : {op[u].goal, op'[t].goal} \in Overlap
             /\ blanks > 0 => {op'[t].goal, "new"} \in Overlap
             /\ ~gone
  <2>1. CASE t \in Running
    <3>1. op'[t].goal = op[t].goal
      BY <1>3, <2>1 DEF Running, Course
    <3> QED BY <2>1, <3>1 DEF Apart
  <2>2. CASE t \notin Running
    <3>1. MayStart(t, op'[t].goal)
      BY <1>3, <2>2 DEF Running, Course
    <3>2. \A u \in Running : op[u].goal \in Busy
      BY DEF Busy
    <3>3. blanks > 0 => "new" \in Busy
      BY DEF Busy
    <3> QED BY <3>1, <3>2, <3>3 DEF MayStart
  <2> QED BY <2>1, <2>2
<1>4. ASSUME NEW u \in Running', NEW v \in Running', u # v PROVE {op'[u].goal, op'[v].goal} \in Overlap
  <2>1. CASE u # t /\ v # t
    BY <1>2, <1>4, <2>1 DEF Apart
  <2>2. CASE u = t
    BY <1>2, <1>3, <1>4, <2>2
  <2>3. CASE v = t
    BY <1>2, <1>3, <1>4, <2>3
  <2> QED BY <2>1, <2>2, <2>3
<1>5. ASSUME blanks' > 0, NEW u \in Running' PROVE {op'[u].goal, "new"} \in Overlap
  BY <1>2, <1>3, <1>5 DEF Apart
<1>6. blanks' > 1 => {"new"} \in Overlap
  BY DEF Apart
<1>7. gone' => Running' = {}
  BY <1>1, <1>3 DEF Apart
<1> QED BY <1>4, <1>5, <1>6, <1>7 DEF Apart

\* A step that ends, starts or moves one command, and changes neither what the editor shows nor
\* the window's document, unless it takes the window away.
LEMMA PlainStep ==
  ASSUME OverlapInv, SoundInv', NEW t \in Tasks, Steps(t), Course(t), GoalOK(op'[t]),
         UNCHANGED <<shows, blanks, gone>>, sess'.doc = sess.doc \/ Leaves(op'[t]),
         blanks > 0 => pending' = pending,
         op[t].at # "commitOpen", op'[t].at # "commitOpen", Leaves(op[t]) => Leaves(op'[t]),
         issued \subseteq issued', live' \cap issued \subseteq live,
         op'[t].at \in {"choose", "check", "ask", "export", "commit"} => SaveOwn(t)'
  PROVE  OverlapInv'
<1>1. SavesOverlap' /\ \A u \in Tasks : GoalOK(op'[u])
  BY DEF OverlapInv, SavesOverlap, Steps
<1>2. Apart'
  BY ApartSteps DEF OverlapInv, Steps
<1>3. CallsOnce'
  BY CallsSteps DEF OverlapInv, SoundInv
<1>4. Prepared'
  BY DEF OverlapInv, Prepared
<1>5. Closing => Closing'
  BY DEF Closing, Leaves, Steps
<1>6. \A u \in Tasks : op'[u].at = "commitOpen" <=> op[u].at = "commitOpen"
  BY DEF Steps
<1>7. \A u \in Tasks : op'[u].at = "commitOpen" => op'[u] = op[u]
  BY <1>6 DEF Steps
<1>8. ShowsOwn'
  <2>1. CASE sess'.doc = sess.doc
    BY <1>5, <1>6, <1>7, <2>1 DEF OverlapInv, ShowsOwn
  <2>2. CASE Leaves(op'[t])
    <3>1. Closing'
      BY <2>2 DEF Closing, Leaves
    <3> QED BY <1>6, <1>7, <3>1 DEF OverlapInv, ShowsOwn
  <2> QED BY <2>1, <2>2
<1>9. ASSUME NEW u \in Tasks PROVE SaveOwn(u)'
  <2>1. CASE u = t
    BY <2>1 DEF SaveOwn
  <2>2. CASE u # t /\ sess'.doc = sess.doc
    <3>1. SaveOwn(u) /\ EditorTyped /\ live \subseteq issued
      BY SessionsTyped DEF OverlapInv, SoundInv
    <3> QED BY <2>2, <3>1, SaveOwnSteps
  <2>3. CASE u # t /\ Leaves(op'[t])
    <3>1. op'[u].at = "idle"
      <4>1. op'[t].goal = "close" /\ t \in Running'
        BY <2>3 DEF GoalOK, Leaves, Running
      <4>2. \A g : {"close", g} \notin Overlap
        BY DEF OverlapInv, SavesOverlap
      <4> QED BY <1>2, <2>3, <4>1, <4>2 DEF Apart, Running
    <3> QED BY <3>1 DEF SaveOwn
  <2> QED BY <2>1, <2>2, <2>3
<1> QED BY <1>1, <1>2, <1>3, <1>4, <1>8, <1>9 DEF OverlapInv

\* A step of no command
LEMMA RestStep ==
  ASSUME OverlapInv, SoundInv', UNCHANGED <<op, gone>>,
         blanks' = blanks \/ (blanks' = blanks - 1 /\ blanks > 0),
         Prepared', ShowsOwn', CallsOnce', \A u \in Tasks : SaveOwn(u)'
  PROVE  OverlapInv'
<1>1. SavesOverlap' /\ \A u \in Tasks : GoalOK(op'[u])
  BY DEF OverlapInv, SavesOverlap
<1>2. blanks \in Nat
  BY DEF OverlapInv, SoundInv, BlanksOwned
<1>3. Running' = Running
  BY DEF Running
<1>4. Apart'
  BY <1>2, <1>3 DEF OverlapInv, Apart
<1> QED BY <1>1, <1>4 DEF OverlapInv

-----------------------------------------------------------------------------
(* Each step keeps the saves to their own documents.                        *)

LEMMA InOverlap ==
  ASSUME OverlapInv, NEW t \in Tasks
  PROVE  /\ SoundInv /\ FlowInv /\ EditorTyped /\ Apart /\ SavesOverlap /\ SaveOwn(t)
         /\ GoalOK(op[t]) /\ op[t] \in Task /\ live \subseteq issued /\ issued \subseteq Docs
         /\ op[t].at # "idle" => t \in Running
BY AtOf, SessionsTyped DEF OverlapInv, SoundInv, Running

LEMMA NoTaskGoalOK == GoalOK(NoTask) /\ NoTask.at = "idle"
BY DEF GoalOK, NoTask, Leaves

\* The window of a save has a session.
LEMMA SavesOwned ==
  ASSUME OverlapInv, NEW t \in Tasks, op[t].at \in SaveAwaits
  PROVE  Owned /\ ~Closing /\ sess # NoSession /\ sess.doc \in live \ Doomed
<1>1. t \in Running /\ ~gone
  BY InOverlap, Alone DEF SaveAwaits
<1>2. ASSUME NEW u \in Tasks, Leaves(op[u]) PROVE FALSE
  <2>1. u \in Running /\ op[u].goal = "close"
    BY <1>2, InOverlap DEF Leaves, GoalOK
  <2>2. t = u
    BY <1>1, <2>1, InOverlap, Alone
  <2> QED BY <1>2, <2>2 DEF Leaves, SaveAwaits
<1>3. ~Closing
  BY <1>1, <1>2 DEF Closing
<1>4. Owned
  BY <1>3, InOverlap DEF SoundInv
<1> QED BY <1>3, <1>4 DEF Owned, SessionOwned

LEMMA StartSaveOverlap ==
  ASSUME OverlapInv, SoundInv', NEW t \in Tasks, NEW as, StartSave(t, as)
  PROVE  OverlapInv'
<1>1. /\ Steps(t) /\ Still /\ EditorStill /\ WindowStill
      /\ MayStart(t, "save") /\ op[t].at = "idle" /\ sess # NoSession
      /\ op'[t].at \in {"choose", "check"} /\ op'[t].goal = "save"
      /\ op'[t].doc = NoDoc /\ op'[t].save.doc = sess.doc
  BY InOverlap, StartSaveIs DEF SoundInv
<1>2. Course(t) /\ GoalOK(op'[t])
  BY <1>1 DEF Course, GoalOK, Leaves
<1>3. SaveOwn(t)'
  BY <1>1 DEF SaveOwn, WindowStill
<1> QED BY <1>1, <1>2, <1>3, PlainStep DEF Still, EditorStill, WindowStill, Leaves

LEMMA SavesOnOverlap ==
  ASSUME OverlapInv, SoundInv', NEW t \in Tasks,
         \/ \E p \in Paths : ChoosePath(t, p)
         \/ CheckExternal(t) /\ op'[t] # GiveUp(op[t])
         \/ AllowOverwrite(t)
  PROVE  OverlapInv'
<1>1. /\ Steps(t) /\ Still /\ EditorStill /\ WindowStill /\ SameSave(t)
      /\ op[t].at \in {"choose", "check", "ask"} /\ op'[t].at \in {"check", "ask", "export"}
  BY InOverlap, SavesOnIs DEF SoundInv
<1>2. Course(t) /\ GoalOK(op'[t])
  BY <1>1, InOverlap DEF Course, GoalOK, Leaves, SameSave, SameTask
<1>3. SaveOwn(t)'
  <2>1. PICK d : d = op[t].save.doc
    OBVIOUS
  <2>2. d = sess.doc \/ Parting(d)
    BY <1>1, <2>1, InOverlap DEF SaveOwn
  <2>3. Parting(d) => Parting(d)'
    <3>1. WireKept
      BY <1>1, InOverlap, StepsWire
    <3> QED BY <1>1, <3>1 DEF Still, Parting, WireKept
  <2> QED BY <1>1, <2>1, <2>2, <2>3 DEF SaveOwn, SameSave, WindowStill
<1> QED BY <1>1, <1>2, <1>3, PlainStep DEF Still, EditorStill, WindowStill, Leaves

\* The content that is exported is the window's; if the save's document is not, its close has
\* been sent before this commit.
LEMMA ExportOverlap ==
  ASSUME OverlapInv, SoundInv', NEW t \in Tasks, Export(t)
  PROVE  OverlapInv'
<1>1. /\ Steps(t) /\ Still /\ EditorStill /\ WindowStill /\ SameSave(t)
      /\ op[t].at = "export" /\ op'[t].at = "commit" /\ op'[t].owner = shows
  BY InOverlap, ExportIs DEF SoundInv
<1>2. Course(t) /\ GoalOK(op'[t])
  BY <1>1, InOverlap DEF Course, GoalOK, Leaves, SameSave, SameTask
<1>3. shows = sess.doc
  <2>1. ~Closing
    BY <1>1, SavesOwned DEF SaveAwaits
  <2>2. ASSUME NEW u \in Tasks, op[u].at = "commitOpen" PROVE FALSE
    <3>1. u \in Running /\ op[u].goal = "open" /\ t \in Running
      BY <1>1, <2>2, InOverlap DEF GoalOK
    <3>2. t = u
      BY <3>1, InOverlap, Alone
    <3> QED BY <1>1, <2>2, <3>2
  <2> QED BY <2>1, <2>2 DEF OverlapInv, ShowsOwn
<1>4. SaveOwn(t)'
  <2>1. PICK d : d = op[t].save.doc
    OBVIOUS
  <2>2. d = sess.doc \/ Parting(d)
    BY <1>1, <2>1, InOverlap DEF SaveOwn
  <2>3. op'[t].save.doc = d /\ op'[t].owner = sess.doc /\ UNCHANGED <<live, issued>>
    BY <1>1, <1>3, <2>1 DEF SameSave, Still
  <2>4. CASE d \in issued /\ d \in Told(wire, "close")
    <3>1. PICK c : c = CallOf(t)
      OBVIOUS
    <3>2. PICK x : x = MessageOf("close", d)
      OBVIOUS
    <3>3. PICK v : v = wire'
      OBVIOUS
    <3>4. PICK w : w = wire
      OBVIOUS
    <3>5. w \in Seq(Messages) /\ c \in Messages
      BY <3>1, <3>4, MessageIs, InOverlap DEF EditorTyped
    <3>6. Longer(v, w, c)
      BY <1>1, <3>1, <3>3, <3>4 DEF Steps, Sent, Calls, Longer, Served
    <3>7. ~Has(w, c) /\ Has(w, x)
      BY <1>1, <2>4, <3>1, <3>2, <3>4 DEF OverlapInv, CallsOnce, Calls, Told, Has
    <3>8. After(w, c, x)
      BY <3>7 DEF After, Has
    <3>9. After(v, c, x)
      BY <3>5, <3>6, <3>7, <3>8, AppendOrder
    <3> QED BY <1>1, <2>3, <2>4, <3>1, <3>2, <3>3, <3>9 DEF SaveOwn
  <2>5. CASE d = sess.doc \/ d \in issued \ live
    BY <1>1, <2>3, <2>5 DEF SaveOwn
  <2> QED BY <2>2, <2>4, <2>5 DEF Parting
<1> QED BY <1>1, <1>2, <1>4, PlainStep DEF Still, EditorStill, WindowStill, Leaves

LEMMA CommitsOverlap ==
  ASSUME OverlapInv, SoundInv', NEW t \in Tasks,
         \/ CommitCall(t) /\ op'[t] # GiveUp(op[t])
         \/ CommitDone(t)
         \/ CommitSave(t) /\ op'[t] # GiveUp(op[t])
  PROVE  OverlapInv'
<1>1. /\ Steps(t) /\ EditorStill /\ UNCHANGED <<pending, blanks, gone, live, issued>> /\ SameTask(t)
      /\ op[t].at \in {"commit", "native", "reply"} /\ op'[t].at \in {"native", "reply", "notify"}
      /\ sess' = sess \/ sess = NoSession \/ sess'.doc = sess.doc
  BY InOverlap, CommitCallIs, CommitDoneIs, CommitSaveIs DEF SoundInv, WindowStill, Still, SameSave
<1>2. sess'.doc = sess.doc
  BY <1>1, SavesOwned DEF SaveAwaits
<1>3. Course(t) /\ GoalOK(op'[t])
  BY <1>1, InOverlap DEF Course, GoalOK, Leaves, SameTask
<1> QED BY <1>1, <1>2, <1>3, PlainStep DEF EditorStill, Leaves

LEMMA CommitRenameOverlap ==
  ASSUME OverlapInv, SoundInv', NEW t \in Tasks, CommitRename(t)
  PROVE  OverlapInv'
<1>1. WindowStill /\ UNCHANGED <<op, wire, live, issued, shows>>
  BY CommitRenameIs
<1>2. Prepared' /\ CallsOnce' /\ \A u \in Tasks : SaveOwn(u)'
  BY <1>1 DEF OverlapInv, WindowStill, Prepared, CallsOnce, SaveOwn, Parting
<1>3. ShowsOwn'
  BY <1>1 DEF OverlapInv, WindowStill, ShowsOwn, Closing
<1> QED BY <1>1, <1>2, <1>3, RestStep DEF WindowStill

LEMMA QuitsOverlap ==
  ASSUME OverlapInv, SoundInv', NEW t \in Tasks,
         \/ Fails(t) \/ CommitFailed(t)
         \/ (CheckExternal(t) \/ CommitCall(t) \/ CommitSave(t)) /\ op'[t] = GiveUp(op[t])
         \/ SaveFirst(t) /\ sess = NoSession
  PROVE  OverlapInv'
<1>1. /\ Steps(t) /\ Quits(t) /\ EditorStill /\ WindowStill /\ UNCHANGED <<live, issued, dirty>>
      /\ op[t].at \in Risks
  BY InOverlap, QuitsIs DEF SoundInv
<1>2. Course(t) /\ GoalOK(op'[t]) /\ op'[t].at \in {"idle", "drop"}
  BY <1>1, NoTaskGoalOK DEF Course, GoalOK, Leaves, SameTask, Quits, Risks
<1> QED BY <1>1, <1>2, PlainStep DEF EditorStill, WindowStill, Leaves, Risks

\* A command is let through by the guard, or asks first.
LEMMA ThroughOverlap ==
  ASSUME OverlapInv, SoundInv', NEW t \in Tasks, Steps(t), Still, UNCHANGED <<shows, blanks, gone>>,
         NEW o \in Task, o.goal # "save", o.doc # NoDoc => o.goal = "open",
         \/ op[t].at \in {"notify", "confirm", "guard"} /\ o = op[t]
         \/ op[t].at = "idle" /\ MayStart(t, o.goal),
         LetThrough(t, o) \/ Abandons(t, o) \/ Asked(t, o)
  PROVE  OverlapInv'
<1>1. /\ op'[t].goal = o.goal /\ op'[t].doc = o.doc
      /\ \/ op'[t].at \in {"load", "read"} /\ sess' = sess
         \/ op'[t].at \in {"abort", "confirm"} /\ sess' = sess
         \/ op'[t].at = "create" /\ sess' = sess /\ o.goal = "new"
         \/ Leaves(op'[t]) /\ o.goal = "close"
  BY DEF LetThrough, Abandons, Asked, WentOn
<1>2. Course(t)
  BY <1>1 DEF Course
<1>3. GoalOK(op'[t])
  BY <1>1 DEF GoalOK, Leaves
<1>4. ~(blanks > 0)
  <2>1. CASE op[t].at = "idle"
    <3>1. \A g : {"new", g} \in Overlap => g = "save"
      BY InOverlap DEF SavesOverlap
    <3> QED BY <2>1, <3>1 DEF MayStart, Busy
  <2>2. CASE op[t].at # "idle"
    BY <2>2, InOverlap, Alone
  <2> QED BY <2>1, <2>2
<1> QED BY <1>1, <1>2, <1>3, <1>4, PlainStep DEF Still, Leaves

LEMMA GuardOverlap ==
  ASSUME OverlapInv, SoundInv', NEW t \in Tasks,
         \/ NotifySaved(t) /\ op[t].goal # "save"
         \/ Discard(t) \/ AskGuard(t)
         \/ (\E p \in Paths : StartOpen(t, p)) \/ StartNew(t) \/ StartClose(t)
  PROVE  OverlapInv'
<1>1. FlowInv /\ FlowInv' /\ op[t] \in Task /\ GoalOK(op[t])
  BY InOverlap DEF SoundInv
<1>2. ASSUME (NotifySaved(t) /\ op[t].goal # "save") \/ Discard(t) \/ AskGuard(t) PROVE OverlapInv'
  <2>1. /\ Steps(t) /\ Still /\ UNCHANGED <<shows, blanks, gone>> /\ op[t].goal # "save"
        /\ op[t].at \in {"notify", "confirm", "guard"}
        /\ LetThrough(t, op[t]) \/ Asked(t, op[t])
    BY <1>1, <1>2, NotifySavedIs, DiscardIs, AskGuardIs DEF EditorStill
  <2>2. op[t].doc # NoDoc => op[t].goal = "open"
    BY <1>1, <2>1 DEF GoalOK
  <2> QED BY <1>1, <2>1, <2>2, ThroughOverlap
<1>3. ASSUME (\E p \in Paths : StartOpen(t, p)) \/ StartNew(t) \/ StartClose(t) PROVE OverlapInv'
  <2>1. /\ Steps(t) /\ Still /\ EditorStill /\ UNCHANGED <<blanks, gone>> /\ op[t].at = "idle"
        /\ \E o \in Task : /\ o.goal \in {"open", "new", "close"} /\ o.doc = NoDoc
                           /\ MayStart(t, o.goal) /\ (Abandons(t, o) \/ Asked(t, o))
    BY <1>1, <1>3, StartOpenIs, StartOtherIs
  <2>2. PICK o \in Task : /\ o.goal \in {"open", "new", "close"} /\ o.doc = NoDoc
                          /\ MayStart(t, o.goal) /\ (Abandons(t, o) \/ Asked(t, o))
    BY <2>1
  <2> QED BY <2>1, <2>2, ThroughOverlap DEF EditorStill
<1> QED BY <1>2, <1>3

\* The steps that end a command, or take it where it holds no content
LEMMA EndsOverlap ==
  ASSUME OverlapInv, SoundInv', NEW t \in Tasks,
         \/ NotifySaved(t) /\ op[t].goal = "save"
         \/ (\E print : Read(t, print)) \/ (\E d \in Docs : Track(t, d) \/ Create(t, d))
         \/ Recorded(t) \/ ClosePrevious(t) \/ Drop(t) \/ CloseLast(t)
  PROVE  OverlapInv'
<1>1. FlowInv /\ FlowInv' /\ op[t] \in Task /\ GoalOK(op[t]) /\ GoalOK(NoTask) /\ NoTask.at = "idle"
  BY InOverlap, NoTaskGoalOK DEF SoundInv
<1>2. /\ Steps(t) /\ UNCHANGED <<shows, sess, pending, blanks, gone>>
      /\ op[t].at \in {"notify", "read", "track", "create", "record", "closePrevious", "drop", "closeLast"}
      /\ Leaves(op[t]) => Leaves(op'[t])
  <2>1. ASSUME NotifySaved(t), op[t].goal = "save"
        PROVE  Steps(t) /\ UNCHANGED <<shows, sess, pending, blanks, gone>> /\ op[t].at = "notify"
    BY <1>1, <2>1, NotifySavedIs
  <2>2. ASSUME NEW print, Read(t, print)
        PROVE  Steps(t) /\ UNCHANGED <<shows, sess, pending, blanks, gone>> /\ op[t].at = "read"
    BY <1>1, <2>2, ReadIs DEF EditorStill, WindowStill
  <2>3. ASSUME NEW d \in Docs, Track(t, d) \/ Create(t, d)
        PROVE  /\ Steps(t) /\ UNCHANGED <<shows, sess, pending, blanks, gone>>
               /\ op[t].at \in {"track", "create"}
    BY <1>1, <2>3, OpensIs DEF EditorStill, WindowStill
  <2>4. ASSUME Recorded(t)
        PROVE  Steps(t) /\ UNCHANGED <<shows, sess, pending, blanks, gone>> /\ op[t].at = "record"
    BY <1>1, <2>4, RecordedIs DEF EditorStill, WindowStill
  <2>5. ASSUME ClosePrevious(t) \/ Drop(t)
        PROVE  /\ Steps(t) /\ UNCHANGED <<shows, sess, pending, blanks, gone>>
               /\ op[t].at \in {"closePrevious", "drop"}
    BY <1>1, <2>5, CloseStepsIs DEF EditorStill, WindowStill
  <2>6. ASSUME CloseLast(t)
        PROVE  /\ Steps(t) /\ UNCHANGED <<shows, sess, pending, blanks, gone>>
               /\ op[t].at = "closeLast" /\ op'[t].at = "destroy"
    BY <1>1, <2>6, CloseLastIs DEF EditorStill, WindowStill
  <2> QED BY <2>1, <2>2, <2>3, <2>4, <2>5, <2>6 DEF Leaves
<1>3. /\ Course(t) /\ GoalOK(op'[t])
      /\ op'[t].at \in {"idle", "track", "guard", "created", "closePrevious", "destroy"}
      /\ issued \subseteq issued' /\ live' \cap issued \subseteq live
  <2>1. ASSUME NotifySaved(t), op[t].goal = "save"
        PROVE  op'[t] = NoTask /\ UNCHANGED <<live, issued>>
    BY <1>1, <2>1, NotifySavedIs DEF Still
  <2>2. ASSUME NEW print, Read(t, print)
        PROVE  op'[t].at = "track" /\ SameTask(t) /\ UNCHANGED <<live, issued>>
    BY <1>1, <2>2, ReadIs DEF Still
  <2>3. ASSUME NEW d \in Docs, Track(t, d) \/ Create(t, d)
        PROVE  /\ op'[t].goal = op[t].goal /\ d \notin issued /\ live' = live \cup {d}
               /\ issued' = issued \cup {d}
               /\ (op'[t].at = "guard" /\ op[t].goal = "open") \/ (op'[t].at = "created" /\ op[t].at = "create")
    BY <1>1, <2>3, OpensIs
  <2>4. ASSUME Recorded(t)
        PROVE  /\ op'[t] = NoTask \/ (op'[t].at = "closePrevious" /\ SameTask(t))
               /\ UNCHANGED <<live, issued>>
    BY <1>1, <2>4, RecordedIs DEF Still
  <2>5. ASSUME ClosePrevious(t) \/ Drop(t)
        PROVE  op'[t] = NoTask /\ live' \subseteq live /\ issued' = issued
    BY <1>1, <2>5, CloseStepsIs DEF ClosesOne
  <2>6. ASSUME CloseLast(t)
        PROVE  op'[t].at = "destroy" /\ SameTask(t) /\ live' \subseteq live /\ issued' = issued
    BY <1>1, <2>6, CloseLastIs DEF ClosesOne
  <2>7. /\ op'[t] = NoTask \/ op'[t].goal = op[t].goal
        /\ op'[t].at \in {"idle", "track", "guard", "created", "closePrevious", "destroy"}
        /\ issued \subseteq issued' /\ live' \cap issued \subseteq live
    BY <1>1, <2>1, <2>2, <2>3, <2>4, <2>5, <2>6 DEF SameTask
  <2>8. Course(t)
    BY <1>1, <1>2, <2>7 DEF Course
  <2>9. GoalOK(op'[t])
    <3>1. CASE op'[t] = NoTask
      BY <1>1, <3>1
    <3>2. CASE op'[t].at = "track" /\ SameTask(t) /\ op[t].at = "read"
      BY <1>1, <3>2 DEF GoalOK, SameTask, Leaves
    <3>3. CASE /\ op'[t].goal = op[t].goal
               /\ (op'[t].at = "guard" /\ op[t].goal = "open") \/ (op'[t].at = "created" /\ op[t].at = "create")
      BY <1>1, <3>3 DEF GoalOK, Leaves
    <3>4. CASE op'[t].at = "closePrevious" /\ SameTask(t) /\ op[t].at = "record"
      BY <1>1, <3>4 DEF GoalOK, SameTask, Leaves
    <3>5. CASE op'[t].at = "destroy" /\ SameTask(t) /\ op[t].at = "closeLast"
      BY <1>1, <3>5 DEF GoalOK, SameTask, Leaves
    <3> QED BY <1>1, <2>1, <2>2, <2>3, <2>4, <2>5, <2>6, <3>1, <3>2, <3>3, <3>4, <3>5, ReadIs, RecordedIs, CloseLastIs
  <2> QED BY <2>7, <2>8, <2>9
<1> QED BY <1>2, <1>3, PlainStep DEF Leaves

LEMMA SaveFirstOverlap ==
  ASSUME OverlapInv, SoundInv', NEW t \in Tasks, SaveFirst(t), sess # NoSession
  PROVE  OverlapInv'
<1>1. /\ Steps(t) /\ Still /\ EditorStill /\ WindowStill /\ SameTask(t)
      /\ op[t].at = "confirm" /\ op'[t].at \in {"choose", "check"} /\ op'[t].save.doc = sess.doc
  BY InOverlap, SaveFirstIs DEF SoundInv
<1>2. Course(t) /\ GoalOK(op'[t])
  BY <1>1, InOverlap DEF Course, GoalOK, Leaves, SameTask
<1>3. SaveOwn(t)'
  BY <1>1 DEF SaveOwn, WindowStill
<1> QED BY <1>1, <1>2, <1>3, PlainStep DEF Still, EditorStill, WindowStill, Leaves

LEMMA AbortedOverlap ==
  ASSUME OverlapInv, SoundInv', NEW t \in Tasks, Aborted(t)
  PROVE  OverlapInv'
<1>1. /\ Steps(t) /\ EditorStill /\ UNCHANGED <<pending, blanks, gone>>
      /\ op[t].at = "abort" /\ ClosesOne(op[t].old) /\ WentOn(t, op[t])
  BY InOverlap, AbortedIs DEF SoundInv
<1>2. Course(t) /\ GoalOK(op'[t])
  BY <1>1, InOverlap DEF Course, GoalOK, Leaves, WentOn
<1>3. sess'.doc = sess.doc \/ Leaves(op'[t])
  BY <1>1 DEF WentOn
<1>4. op'[t].at \in {"read", "create", "closeLast", "destroy"}
  BY <1>1 DEF WentOn, Leaves
<1> QED BY <1>1, <1>2, <1>3, <1>4, PlainStep DEF EditorStill, ClosesOne, Leaves

LEMMA AloneIdle ==
  ASSUME OverlapInv, NEW t \in Tasks, op[t].at # "idle", op[t].goal \in {"open", "close"}
  PROVE  ~(blanks > 0) /\ \A u \in Tasks : u # t => op[u].at = "idle"
<1>1. t \in Running
  BY DEF Running
<1> QED BY <1>1, InOverlap, Alone DEF Running

\* What Completes does to the wire
LEMMA CompletesWire ==
  ASSUME OverlapInv, Completes, \A u \in Tasks : op[u].at \in Calls => op'[u].at \in Calls
  PROVE  /\ CallsOnce'
         /\ \A name \in {"close", "dirty"} : Told(wire, name) \subseteq Told(wire', name)
         /\ pending # NoDoc /\ sess.doc \in Docs => sess.doc \in Told(wire', "close")
         /\ \A c, x : (\A d : c # MessageOf("close", d)) /\ After(wire, c, x) => After(wire', c, x)
<1>1. PICK m : m = MessageOf("close", sess.doc)
  OBVIOUS
<1>2. sess.doc \in Docs \cup {NoDoc} /\ wire \in Seq(Messages) /\ (sess = NoSession => sess.doc = NoDoc)
      /\ NoDoc \notin Docs
  BY SessionsTyped DEF OverlapInv, SoundInv, FlowInv, WindowOK, WindowSession, EditorTyped
<1>3. m \in Messages /\ m.name = "close"
  BY <1>1, <1>2, MessageIs
<1>4. CASE wire' = wire /\ (pending = NoDoc \/ sess = NoSession)
  <2>1. CallsOnce'
    BY <1>3, <1>4, CallsMessages DEF OverlapInv, SoundInv
  <2> QED BY <1>2, <1>4, <2>1
<1>5. CASE wire' = Append(wire, m)
  <2>1. PICK v : v = wire'
    OBVIOUS
  <2>2. Longer(v, wire, m)
    BY <1>5, <2>1 DEF Longer
  <2>3. CallsOnce'
    BY <1>3, <2>1, <2>2, CallsMessages DEF OverlapInv, SoundInv
  <2>4. \A name : Told(v, name) = Told(wire, name) \cup About(m, name)
    BY <1>2, <1>3, <2>2, WireAppend
  <2>5. sess.doc \in Docs => sess.doc \in About(m, "close")
    BY <1>1 DEF About
  <2>6. ASSUME NEW c, NEW x, m # c, After(wire, c, x) PROVE After(v, c, x)
    BY <1>2, <1>3, <2>2, <2>6, AppendOrder
  <2> QED BY <1>1, <2>1, <2>3, <2>4, <2>5, <2>6
<1> QED BY <1>1, <1>4, <1>5 DEF Completes

LEMMA LoadOverlap ==
  ASSUME OverlapInv, SoundInv', NEW t \in Tasks, Load(t)
  PROVE  OverlapInv'
<1>1. /\ \A u \in Tasks : u # t => op'[u] = op[u]
      /\ SameTask(t) /\ op[t].at = "load" /\ op'[t].at = "commitOpen" /\ op[t].goal = "open"
      /\ Completes /\ UNCHANGED <<blanks, gone>> /\ shows' = op[t].doc
  BY InOverlap, LoadIs DEF SoundInv
<1>2. ~(blanks > 0) /\ \A u \in Tasks : u # t => op[u].at = "idle"
  BY <1>1, AloneIdle
<1>3. SavesOverlap' /\ \A u \in Tasks : GoalOK(op'[u])
  <2>1. GoalOK(op'[t])
    BY <1>1, InOverlap DEF GoalOK, SameTask, Leaves
  <2> QED BY <1>1, <2>1, InOverlap DEF SavesOverlap
<1>4. Apart'
  <2>1. Course(t)
    BY <1>1 DEF Course, SameTask
  <2> QED BY <1>1, <2>1, InOverlap, ApartSteps
<1>5. CallsOnce'
  BY <1>1, CompletesWire DEF Calls
<1>6. Prepared' /\ ShowsOwn'
  BY <1>1, <1>2 DEF Prepared, ShowsOwn, SameTask
<1>7. \A u \in Tasks : SaveOwn(u)'
  BY <1>1, <1>2 DEF SaveOwn
<1> QED BY <1>3, <1>4, <1>5, <1>6, <1>7 DEF OverlapInv

LEMMA CommitOpenOverlap ==
  ASSUME OverlapInv, SoundInv', NEW t \in Tasks, CommitOpen(t)
  PROVE  OverlapInv'
<1>1. /\ Steps(t) /\ EditorStill /\ UNCHANGED <<pending, blanks, gone>> /\ SameTask(t)
      /\ op[t].at = "commitOpen" /\ op'[t].at = "record" /\ sess'.doc = op[t].doc
  BY InOverlap, CommitOpenIs DEF SoundInv
<1>2. \A u \in Tasks : u # t => op'[u] = op[u]
  BY <1>1 DEF Steps
<1>3. op[t].goal = "open"
  BY <1>1, InOverlap DEF GoalOK
<1>4. ~(blanks > 0) /\ \A u \in Tasks : u # t => op[u].at = "idle"
  BY <1>1, <1>3, AloneIdle
<1>5. SavesOverlap' /\ \A u \in Tasks : GoalOK(op'[u])
  <2>1. GoalOK(op'[t])
    BY <1>1, InOverlap DEF GoalOK, SameTask, Leaves
  <2> QED BY <1>2, <2>1, InOverlap DEF SavesOverlap
<1>6. Apart'
  <2>1. Course(t)
    BY <1>1 DEF Course, SameTask
  <2> QED BY <1>1, <1>2, <2>1, InOverlap, ApartSteps
<1>7. CallsOnce'
  BY <1>1, InOverlap, CallsSteps DEF OverlapInv
<1>8. Prepared'
  BY <1>1, <1>4 DEF Prepared
<1>9. ShowsOwn'
  BY <1>1, <1>2, <1>4 DEF ShowsOwn, OverlapInv, EditorStill
<1>10. \A u \in Tasks : SaveOwn(u)'
  BY <1>1, <1>2, <1>4 DEF SaveOwn
<1> QED BY <1>5, <1>6, <1>7, <1>8, <1>9, <1>10 DEF OverlapInv

LEMMA CreatedOverlap ==
  ASSUME OverlapInv, SoundInv', NEW t \in Tasks, Created(t)
  PROVE  OverlapInv'
<1>1. /\ Steps(t) /\ Still /\ EditorStill /\ UNCHANGED <<sess, gone>>
      /\ op[t].at = "created" /\ op'[t] = NoTask
      /\ pending' = op[t].doc /\ blanks' = blanks + 1
  BY InOverlap, CreatedIs DEF SoundInv
<1>2. \A u \in Tasks : u # t => op'[u] = op[u]
  BY <1>1 DEF Steps
<1>3. op[t].goal = "new" /\ t \in Running /\ op[t].doc \in Docs
  BY <1>1, InOverlap DEF GoalOK, SoundInv, BlanksOwned
<1>4. blanks \in Nat /\ ~(blanks > 0)
  BY <1>3, InOverlap, Alone DEF SoundInv, BlanksOwned
<1>5. SavesOverlap' /\ \A u \in Tasks : GoalOK(op'[u])
  BY <1>1, <1>2, InOverlap, NoTaskGoalOK DEF SavesOverlap
<1>6. Apart'
  <2>1. Running' = Running \ {t}
    BY <1>1, <1>2, NoTaskGoalOK DEF Running
  <2>2. \A u \in Running' : u \in Running /\ op'[u].goal = op[u].goal /\ {op[u].goal, "new"} \in Overlap
    BY <1>2, <1>3, <2>1, InOverlap DEF Apart, Running
  <2>3. ~gone /\ ~(blanks' > 1)
    BY <1>1, <1>3, <1>4, InOverlap, Alone
  <2> QED BY <1>1, <2>2, <2>3, InOverlap DEF Apart
<1>7. CallsOnce'
  BY <1>1, InOverlap, CallsSteps DEF OverlapInv
<1>8. Prepared'
  BY <1>1, <1>3, SessionsTyped, InOverlap DEF Prepared
<1>9. ShowsOwn'
  <2>1. \A u \in Tasks : op'[u].at = "commitOpen" <=> op[u].at = "commitOpen"
    BY <1>1, <1>2, NoTaskGoalOK
  <2>2. Closing => Closing'
    BY <1>1, <1>2 DEF Closing, Leaves
  <2> QED BY <1>1, <1>2, <2>1, <2>2 DEF ShowsOwn, OverlapInv, EditorStill
<1>10. \A u \in Tasks : SaveOwn(u)'
  <2>1. SaveOwn(t)'
    BY <1>1, NoTaskGoalOK DEF SaveOwn
  <2>2. ASSUME NEW u \in Tasks, u # t PROVE SaveOwn(u)'
    BY <1>1, <2>2, InOverlap, SaveOwnSteps DEF Still
  <2> QED BY <2>1, <2>2
<1> QED BY <1>5, <1>6, <1>7, <1>8, <1>9, <1>10 DEF OverlapInv

LEMMA DestroyOverlap ==
  ASSUME OverlapInv, SoundInv', NEW t \in Tasks, Destroy(t)
  PROVE  OverlapInv'
<1>1. /\ UNCHANGED <<sess, pending, blanks>> /\ gone' = TRUE
      /\ op' = [u \in Tasks |-> NoTask] /\ wire' = <<>>
  BY DestroyIs
<1>2. \A u \in Tasks : op'[u] = NoTask
  BY <1>1
<1>3. SavesOverlap' /\ \A u \in Tasks : GoalOK(op'[u]) /\ op'[u].at = "idle"
  BY <1>2, InOverlap, NoTaskGoalOK DEF SavesOverlap
<1>4. Apart'
  <2>1. Running' = {}
    BY <1>3 DEF Running
  <2> QED BY <1>1, <2>1, InOverlap DEF Apart
<1>5. CallsOnce'
  <2>1. DOMAIN wire' = {}
    BY <1>1
  <2> QED BY <2>1 DEF CallsOnce, Once, Has
<1>6. Prepared' /\ ShowsOwn'
  BY <1>1, <1>3 DEF OverlapInv, Prepared, ShowsOwn, Closing
<1>7. \A u \in Tasks : SaveOwn(u)'
  BY <1>3 DEF SaveOwn
<1> QED BY <1>3, <1>4, <1>5, <1>6, <1>7 DEF OverlapInv

\* The editor is blank: the window takes its new document, and closes the one it had.
LEMMA BlankOverlap ==
  ASSUME OverlapInv, SoundInv', Blank
  PROVE  OverlapInv'
<1>1. /\ Still /\ UNCHANGED <<op, gone>> /\ Completes /\ blanks > 0 /\ blanks' = blanks - 1 /\ ~gone
      /\ pending # NoDoc => shows' = pending
  BY BlankIs
<1>2. blanks \in Nat /\ ~(blanks > 1)
  BY InOverlap DEF OverlapInv, Apart, SavesOverlap, SoundInv, BlanksOwned
<1>3. Prepared'
  BY <1>1, <1>2 DEF Prepared
<1>4. pending # NoDoc /\ sess'.doc = pending /\ shows' = sess'.doc
  BY <1>1 DEF OverlapInv, Prepared, Completes
<1>5. \A u \in Tasks : op[u].at # "commitOpen"
  BY <1>1, InOverlap, AloneIdle DEF GoalOK
<1>6. ShowsOwn'
  BY <1>1, <1>4, <1>5 DEF ShowsOwn
<1>7. /\ CallsOnce'
      /\ \A name \in {"close", "dirty"} : Told(wire, name) \subseteq Told(wire', name)
      /\ sess.doc \in Docs => sess.doc \in Told(wire', "close")
      /\ \A c, x : (\A d : c # MessageOf("close", d)) /\ After(wire, c, x) => After(wire', c, x)
  BY <1>1, <1>4, CompletesWire
<1>8. ASSUME NEW u \in Tasks PROVE SaveOwn(u)'
  <2>1. PICK d : d = op[u].save.doc
    OBVIOUS
  <2>2. op'[u] = op[u]
    BY <1>1
  <2>3. Parting(d) => Parting(d)'
    BY <1>1, <1>7, InOverlap, PartingKept DEF Still
  <2>4. ASSUME op[u].at \in {"choose", "check", "ask", "export"} PROVE Parting(d)'
    <3>1. sess.doc \in live /\ sess.doc \in Docs
      BY <2>4, SavesOwned, SessionsTyped, InOverlap DEF SaveAwaits
    <3>3. d = sess.doc \/ Parting(d)
      BY <2>1, <2>4, InOverlap DEF SaveOwn
    <3>4. CASE d = sess.doc
      BY <1>1, <1>7, <3>1, <3>4, SessionsTyped, InOverlap DEF Parting, Still
    <3> QED BY <2>3, <3>3, <3>4
  <2>5. ASSUME op[u].at = "commit"
        PROVE  \/ op[u].owner = d
               \/ d \in issued \ live
               \/ d \in issued /\ After(wire', CallOf(u), MessageOf("close", d))
    <3>1. \A e : CallOf(u) # MessageOf("close", e)
      BY CallsDiffer
    <3> QED BY <1>7, <2>1, <2>5, <3>1, InOverlap DEF SaveOwn
  <2> QED BY <1>1, <2>1, <2>2, <2>4, <2>5 DEF SaveOwn, Still
<1> QED BY <1>1, <1>3, <1>6, <1>7, <1>8, RestStep

LEMMA OutsideOverlap ==
  ASSUME OverlapInv, SoundInv', BlankFails \/ OtherPrograms \/ UNCHANGED flowVars
  PROVE  OverlapInv'
<1>1. /\ UNCHANGED <<op, gone, sess, pending, wire, shows, live, issued>>
      /\ blanks' = blanks \/ (blanks' = blanks - 1 /\ blanks > 0)
  BY BlankFailsIs, OutsideIs DEF Still, EditorStill, WindowStill
<1>2. blanks \in Nat
  BY DEF OverlapInv, SoundInv, BlanksOwned
<1>3. Prepared' /\ CallsOnce' /\ \A u \in Tasks : SaveOwn(u)'
  BY <1>1, <1>2 DEF OverlapInv, Prepared, CallsOnce, SaveOwn, Parting
<1>4. ShowsOwn'
  BY <1>1 DEF OverlapInv, ShowsOwn, Closing
<1> QED BY <1>1, <1>3, <1>4, RestStep

\* A message that nobody waits for is sent or handled.
LEMMA MessagesOverlap ==
  ASSUME OverlapInv, SoundInv', UNCHANGED <<op, gone, pending, shows, blanks, issued>>,
         sess'.doc = sess.doc, live' \subseteq live, NEW m \in Messages, m.name # "call",
         \/ Longer(wire', wire, m)
         \/ wire # <<>> /\ Head(wire) = m /\ wire' = Tail(wire)
         \/ wire' = wire,
         \A d : m = MessageOf("close", d) => d \notin live'
  PROVE  OverlapInv'
<1>1. Prepared' /\ ShowsOwn'
  BY DEF OverlapInv, Prepared, ShowsOwn, Closing
<1>2. CallsOnce'
  BY InOverlap, CallsMessages DEF OverlapInv, SoundInv
<1>3. PICK v : v = wire'
  OBVIOUS
<1>4. wire \in Seq(Messages)
  BY DEF OverlapInv, SoundInv, EditorTyped
<1>5. Told(wire, "close") \subseteq Told(v, "close") \cup About(m, "close")
  <2>1. CASE Longer(wire', wire, m)
    BY <1>3, <1>4, <2>1, WireAppend
  <2>2. CASE wire # <<>> /\ Head(wire) = m /\ wire' = Tail(wire)
    <3>1. PICK w : w = wire
      OBVIOUS
    <3>2. Told(w, "close") = Told(v, "close") \cup About(Head(w), "close")
      BY <1>3, <1>4, <2>2, <3>1, WireTail
    <3> QED BY <2>2, <3>1, <3>2
  <2>3. CASE wire' = wire
    BY <1>3, <2>3
  <2> QED BY <2>1, <2>2, <2>3
<1>6. \A d : Parting(d) => Parting(d)'
  <2> SUFFICES ASSUME NEW d, Parting(d) PROVE Parting(d)'
    OBVIOUS
  <2>1. d \in About(m, "close") => d \notin live'
    BY DEF About
  <2> QED BY <1>3, <1>5, <2>1 DEF Parting
<1>7. ASSUME NEW u \in Tasks PROVE SaveOwn(u)'
  <2>1. PICK d : d = op[u].save.doc
    OBVIOUS
  <2>2. ASSUME op[u].at = "commit"
        PROVE  \/ op[u].owner = d
               \/ d \in issued \ live'
               \/ d \in issued /\ After(wire', CallOf(u), MessageOf("close", d))
    <3>1. PICK c : c = CallOf(u)
      OBVIOUS
    <3>2. PICK x : x = MessageOf("close", d)
      OBVIOUS
    <3>3. m # c
      BY <3>1 DEF CallOf
    <3>4. CASE op[u].owner = d \/ d \in issued \ live
      BY <3>4
    <3>5. CASE d \in issued /\ After(wire, c, x)
      <4>1. CASE m = x
        BY <3>2, <3>5, <4>1
      <4>2. CASE m # x
        <5>1. After(v, c, x)
          <6>1. CASE Longer(wire', wire, m)
            BY <1>3, <1>4, <3>3, <3>5, <6>1, AppendOrder
          <6>2. CASE wire # <<>> /\ Head(wire) = m /\ wire' = Tail(wire)
            BY <1>3, <1>4, <3>5, <4>2, <6>2, TailOrder
          <6>3. CASE wire' = wire
            BY <1>3, <3>5, <6>3
          <6> QED BY <6>1, <6>2, <6>3
        <5> QED BY <1>3, <3>1, <3>2, <3>5, <5>1
      <4> QED BY <4>1, <4>2
    <3> QED BY <2>1, <2>2, <3>1, <3>2, <3>4, <3>5, InOverlap DEF SaveOwn
  <2>3. op[u].at \in {"choose", "check", "ask", "export"} => d = sess.doc \/ Parting(d)'
    BY <1>6, <2>1, InOverlap DEF SaveOwn
  <2> QED BY <2>1, <2>2, <2>3 DEF SaveOwn
<1> QED BY <1>1, <1>2, <1>7, RestStep

LEMMA EditOverlap ==
  ASSUME OverlapInv, SoundInv', Edit
  PROVE  OverlapInv'
<1>1. FlowInv /\ EditorTyped /\ sess.doc \in Docs \cup {NoDoc}
  BY DEF OverlapInv, SoundInv, FlowInv, WindowOK, WindowSession
<1>2. PICK m : m = MessageOf("dirty", sess.doc)
  OBVIOUS
<1>3. m \in Messages /\ m.name = "dirty" /\ \A d : m # MessageOf("close", d)
  BY <1>1, <1>2, MessageIs
<1>4. /\ UNCHANGED <<op, gone, pending, shows, blanks, issued, live>> /\ sess'.doc = sess.doc
      /\ wire' = wire \/ wire' = Append(wire, m)
  BY <1>1, <1>2, EditIs DEF Still
<1>5. wire' = wire \/ Longer(wire', wire, m)
  BY <1>4 DEF Longer
<1> QED BY <1>3, <1>4, <1>5, MessagesOverlap

LEMMA DeliverOverlap ==
  ASSUME OverlapInv, SoundInv', DeliverDirty \/ DeliverClose
  PROVE  OverlapInv'
<1>1. PICK m : m = Head(wire)
  OBVIOUS
<1>2. /\ EditorStill /\ WindowStill /\ UNCHANGED <<op, issued>> /\ wire # <<>> /\ wire' = Tail(wire)
      /\ live' \subseteq live
      /\ \E d \in Docs \cup {NoDoc} : \/ m = MessageOf("dirty", d)
                                    \/ (m = MessageOf("close", d) /\ d \notin live')
  <2>1. SoundInv
    BY DEF OverlapInv
  <2>2. CASE DeliverDirty
    BY <1>1, <2>1, <2>2, DeliverDirtyIs
  <2>3. CASE DeliverClose
    BY <1>1, <2>1, <2>3, DeliverCloseIs DEF ClosesOne
  <2> QED BY <2>2, <2>3
<1>3. PICK d \in Docs \cup {NoDoc} : \/ m = MessageOf("dirty", d)
                                  \/ (m = MessageOf("close", d) /\ d \notin live')
  BY <1>2
<1>4. m \in Messages /\ m.name # "call" /\ \A e : m = MessageOf("close", e) => e \notin live'
  BY <1>3, MessageIs
<1> QED BY <1>1, <1>2, <1>4, MessagesOverlap DEF EditorStill, WindowStill

LEMMA OverlapInit == FlowInit /\ SavesOverlap => OverlapInv
<1> SUFFICES ASSUME FlowInit, SavesOverlap PROVE OverlapInv
  OBVIOUS
<1>1. SoundInv
  BY SoundInit
<1>2. \A t \in Tasks : op[t] = NoTask
  BY DEF FlowInit
<1>3. \A t \in Tasks : GoalOK(op[t]) /\ op[t].at = "idle"
  BY <1>2, NoTaskGoalOK
<1>4. wire = <<>> /\ blanks = 0 /\ gone = FALSE /\ shows = NoDoc /\ sess = NoSession
  BY DEF FlowInit
<1>5. Apart
  <2>1. Running = {}
    BY <1>3 DEF Running
  <2> QED BY <1>4, <2>1 DEF Apart
<1>6. CallsOnce
  <2>1. DOMAIN wire = {}
    BY <1>4
  <2> QED BY <2>1 DEF CallsOnce, Once, Has
<1>7. Prepared /\ ShowsOwn
  <2>1. shows = sess.doc
    BY <1>1, <1>4, SessionsTyped DEF SoundInv
  <2> QED BY <1>3, <1>4, <2>1 DEF Prepared, ShowsOwn
<1>8. \A t \in Tasks : SaveOwn(t)
  BY <1>3 DEF SaveOwn
<1> QED BY <1>1, <1>3, <1>5, <1>6, <1>7, <1>8 DEF OverlapInv

LEMMA OverlapNext == OverlapInv /\ [FlowNext]_flowVars => OverlapInv'
<1> SUFFICES ASSUME OverlapInv, [FlowNext]_flowVars PROVE OverlapInv'
  OBVIOUS
<1>1. SoundInv'
  BY SoundNext DEF OverlapInv
<1>2. ASSUME NEW t \in Tasks, SaveStep(t) PROVE OverlapInv'
  BY <1>1, <1>2, StartSaveOverlap, SavesOnOverlap, ExportOverlap, CommitsOverlap,
     CommitRenameOverlap, QuitsOverlap, GuardOverlap, EndsOverlap
     DEF SaveStep
<1>3. ASSUME NEW t \in Tasks, OpenStep(t) PROVE OverlapInv'
  BY <1>1, <1>3, GuardOverlap, EndsOverlap, LoadOverlap, CommitOpenOverlap
     DEF OpenStep
<1>4. ASSUME NEW t \in Tasks, OtherStep(t) PROVE OverlapInv'
  BY <1>1, <1>4, GuardOverlap, EndsOverlap, CreatedOverlap, DestroyOverlap, AbortedOverlap,
     SaveFirstOverlap, QuitsOverlap
     DEF OtherStep
<1>5. CASE Blank \/ BlankFails \/ Edit \/ DeliverDirty \/ DeliverClose \/ OtherPrograms
           \/ UNCHANGED flowVars
  BY <1>1, <1>5, BlankOverlap, OutsideOverlap, EditOverlap, DeliverOverlap
<1> QED BY <1>2, <1>3, <1>4, <1>5 DEF FlowNext

LEMMA OthersStay ==
  ASSUME FlowInv, FlowInv', NEW u \in Tasks, SaveStep(u) \/ OpenStep(u) \/ OtherStep(u),
         NEW t \in Tasks, t # u
  PROVE  op'[t] = op[t] \/ op'[t] = NoTask
<1>1. CASE Destroy(u)
  BY <1>1, DestroyIs
<1>2. CASE Load(u)
  BY <1>2, LoadIs
<1>3. CASE ~Destroy(u) /\ ~Load(u)
  <2>1. UNCHANGED op \/ Moved(u, clock, body)
    BY <1>3, SaveMoves, OpenMoves, OtherMoves DEF FlowInv
  <2> QED BY <2>1, OneMoves DEF Moved
<1> QED BY <1>1, <1>2, <1>3

\* A save goes to the native side only with the content of its own document.
LEMMA OwnSaved ==
  ASSUME OverlapInv, OverlapInv', [FlowNext]_flowVars, NEW t \in Tasks,
         op[t].at = "commit", op'[t].at = "native"
  PROVE  op[t].owner = op[t].save.doc
<1>1. FlowInv /\ FlowInv' /\ EditorTyped
  BY DEF OverlapInv, SoundInv
<1>2. CommitCall(t) /\ op'[t] # GiveUp(op[t])
  <2>1. NoTask.at # "native" /\ GiveUp(op[t]).at # "native"
    BY <1>1, AtOf, GiveUpWent
  <2>2. PICK u \in Tasks : SaveStep(u) \/ OpenStep(u) \/ OtherStep(u)
    BY DEF FlowNext, Blank, BlankFails, Edit, DeliverDirty, DeliverClose, OtherPrograms, flowVars
  <2>3. u = t
    BY <1>1, <2>1, <2>2, OthersStay
  <2>4. ASSUME SaveStep(t) PROVE CommitCall(t)
    <3>1. ~(\E as \in BOOLEAN : StartSave(t, as)) /\ ~(\E p \in Paths : ChoosePath(t, p))
      BY DEF StartSave, MayStart, ChoosePath
    <3>2. ~CheckExternal(t) /\ ~AllowOverwrite(t) /\ ~Export(t)
      BY DEF CheckExternal, Served, AllowOverwrite, Export
    <3>3. ~CommitRename(t) /\ ~CommitDone(t) /\ ~CommitFailed(t) /\ ~CommitSave(t) /\ ~NotifySaved(t)
      BY DEF CommitRename, CommitDone, CommitFailed, CommitSave, NotifySaved
    <3> QED BY <2>4, <3>1, <3>2, <3>3 DEF SaveStep
  <2>5. ~OpenStep(t)
    BY DEF OpenStep, StartOpen, MayStart, Read, Track, Served, AskGuard, Load, CommitOpen, Recorded,
           ClosePrevious, Drop
  <2>6. ~OtherStep(t)
    BY DEF OtherStep, StartNew, StartClose, MayStart, Create, Served, Created, CloseLast, Destroy,
           Aborted, Discard, SaveFirst, Fails
  <2> QED BY <2>1, <2>2, <2>3, <2>4, <2>5, <2>6
<1>3. /\ op[t].save.doc \in live /\ Head(wire) = CallOf(t) /\ wire # <<>>
  BY <1>1, <1>2, CommitCallIs
<1>4. PICK c : c = CallOf(t)
  OBVIOUS
<1>5. PICK x : x = MessageOf("close", op[t].save.doc)
  OBVIOUS
<1>6. ~After(wire, c, x)
  <2>1. PICK v : v = Tail(wire)
    OBVIOUS
  <2> QED BY <1>1, <1>3, <1>4, <2>1, TailOrder DEF EditorTyped
<1> QED BY <1>3, <1>4, <1>5, <1>6, InOverlap DEF SaveOwn

\* Commands that do not overlap, but for saves with saves and with a new document, save what the
\* editor shows of the document the save was asked for: a document that is replaced while its
\* save waits is closed before that save commits (completePendingDocumentInitialization sends
\* the close; commit_staged_document_save refuses a session that is not there).
THEOREM FlowSavesOwnBody == SavesOverlap /\ FlowSpec => OwnBodySaved
<1>1. SavesOverlap /\ FlowInit => OverlapInv
  BY OverlapInit
<1>2. OverlapInv /\ [FlowNext]_flowVars => OverlapInv'
  BY OverlapNext
<1>3. OverlapInv /\ OverlapInv' /\ [FlowNext]_flowVars
      => [\A t \in Tasks : op[t].at = "commit" /\ op'[t].at = "native"
           => op[t].owner = op[t].save.doc]_flowVars
  BY OwnSaved
<1> QED BY <1>1, <1>2, <1>3, PTL DEF FlowSpec, OwnBodySaved

-----------------------------------------------------------------------------
(* One command at a time.                                                   *)
(*                                                                          *)
(* When no commands overlap and the user does not type while one runs,      *)
(* nothing unsaved is lost, the backend knows of all unsaved work, and      *)
(* editor, window and backend agree whenever everything has settled.        *)

Serial == Overlap = {} /\ Goals \subseteq Modal

\* What the editor shows was loaded, blank, saved, or given up by the user.  It is when a command
\* has passed the guard or a save has renamed its file, and otherwise the editor has it unsaved.
Safe == body \in kept \cup waived
Past(o) ==
  \/ o.at \in {"load", "commitOpen", "create", "created", "closeLast", "destroy", "reply", "notify"}
  \/ o.at = "abort" /\ o.goal # "open"
SafeOK ==
  /\ Safe \/ unsaved
  /\ blanks > 0 \/ stage = "refresh" => Safe
  /\ \A t \in Tasks : Past(op[t]) => Safe

\* A save is for the window's document, and saves what the editor shows now.
SaveIn(t) ==
  /\ op[t].at \in SaveAwaits => op[t].save.doc = sess.doc
  /\ op[t].at \in {"commit", "native"} => op[t].out = body /\ op[t].owner = op[t].save.doc
  /\ op[t].at = "native" => req.doc = op[t].save.doc /\ req.body = op[t].out

\* The dirty flags: of the editor and of the window, ...
EditorAgrees ==
  \/ Closing \/ (unsaved <=> sess.dirty)
  \/ \E t \in Tasks : op[t].at \in {"notify", "commitOpen"}
\* ... of the window and of the backend, ...
BackendAgrees ==
  \/ Closing \/ sess = NoSession \/ \E t \in Tasks : op[t].at = "reply"
  \/ sess.dirty <=> (dirty[sess.doc] \/ sess.doc \in Told(wire, "dirty"))
\* ... and which of them is clear between the replies to a save or an open.
SyncIn(t) ==
  /\ op[t].at = "commitOpen" => ~unsaved
  /\ op[t].at = "notify" => ~sess.dirty
  /\ op[t].at = "reply" => ~dirty[sess.doc]

\* A command waits until the messages before its call are handled.
Settled == {"ask", "export", "native", "reply", "notify"}
CallsLast == \A t \in Tasks : \A i \in DOMAIN wire : wire[i] = CallOf(t) => i = Len(wire)
QuietIn(t) == op[t].at \in Settled => wire = <<>>

\* An editor that shows something has a session, or is being given one.
Started == sess = NoSession => body = 0 \/ Closing \/ \E t \in Tasks : op[t].at = "commitOpen"

\* Every open session is somebody's.
Accounted ==
  Closing \/ live \subseteq {sess.doc, pending} \cup Doomed
                              \cup {d \in Docs : \E t \in Tasks : d \in Owns(op[t])}
HoldIn(t) ==
  /\ op[t].goal = "new" /\ op[t].at \in {"abort", "create", "created"} => pending = NoDoc
  /\ op[t].goal = "open" /\ op[t].at \in {"abort", "read", "track"} => op[t].doc = NoDoc

SerialInv ==
  /\ Serial /\ OverlapInv
  /\ SafeOK /\ EditorAgrees /\ BackendAgrees /\ CallsLast /\ Started /\ Accounted
  /\ \A t \in Tasks : SaveIn(t) /\ SyncIn(t) /\ QuietIn(t) /\ HoldIn(t)

\* The command t is the only one.
Only(t) == (\A u \in Tasks : u # t => op[u].at = "idle") /\ ~(blanks > 0) /\ ~gone

LEMMA OnlyOne ==
  ASSUME SerialInv, NEW t \in Tasks, op[t].at # "idle" \/ \E g : MayStart(t, g)
  PROVE  Only(t)
<1>1. Apart /\ Overlap = {}
  BY DEF SerialInv, OverlapInv, Serial
<1>2. CASE op[t].at # "idle"
  <2>1. t \in Running
    BY <1>2 DEF Running
  <2> QED BY <1>1, <2>1 DEF Apart, Only, Running
<1>3. ASSUME NEW g, MayStart(t, g) PROVE Only(t)
  <2>1. Busy = {} /\ ~gone
    BY <1>1, <1>3 DEF MayStart
  <2>2. Running = {} /\ ~(blanks > 0)
    BY <2>1 DEF Busy
  <2> QED BY <2>1, <2>2 DEF Only, Running
<1> QED BY <1>2, <1>3

LEMMA InSerial ==
  ASSUME SerialInv, NEW t \in Tasks
  PROVE  /\ OverlapInv /\ SoundInv /\ FlowInv /\ EditorTyped /\ op[t] \in Task /\ GoalOK(op[t])
         /\ SafeOK /\ SaveIn(t) /\ SyncIn(t) /\ QuietIn(t) /\ HoldIn(t)
         /\ live \subseteq issued /\ issued \subseteq Docs /\ NoDoc \notin Docs
         /\ sess.doc \in Docs \cup {NoDoc} /\ pending \in Docs \cup {NoDoc} /\ NoSession.doc = NoDoc
<1>1. OverlapInv
  BY DEF SerialInv
<1>2. SoundInv /\ FlowInv /\ EditorTyped /\ GoalOK(op[t]) /\ op[t] \in Task
  BY <1>1, InOverlap
<1>3. /\ live \subseteq issued /\ issued \subseteq Docs /\ NoDoc \notin Docs /\ NoSession.doc = NoDoc
  BY <1>2, SessionsTyped
<1>4. sess.doc \in Docs \cup {NoDoc} /\ pending \in Docs \cup {NoDoc}
  BY <1>2 DEF FlowInv, WindowOK, WindowSession
<1> QED BY <1>1, <1>2, <1>3, <1>4 DEF SerialInv

\* The window has its documents to itself until it closes.
LEMMA OnlyOwned ==
  ASSUME SerialInv, NEW t \in Tasks, Only(t), ~Leaves(op[t])
  PROVE  /\ ~Closing /\ Owned
         /\ sess # NoSession => sess.doc \in live \ Doomed
<1>1. ~Closing
  BY DEF Closing, Only, Leaves
<1>2. Owned
  BY <1>1, InSerial DEF SoundInv
<1> QED BY <1>1, <1>2 DEF Owned, SessionOwned

\* The call that is served was the last message.
LEMMA ServedLast ==
  ASSUME SerialInv, NEW t \in Tasks, NEW c, Served(t, c)
  PROVE  Tail(wire) = <<>> /\ wire \in Seq(Messages) /\ wire # <<>>
<1>1. wire \in Seq(Messages) /\ wire # <<>> /\ Head(wire) = CallOf(t)
  BY InSerial DEF Served, EditorTyped
<1>2. 1 \in DOMAIN wire /\ wire[1] = CallOf(t)
  BY <1>1
<1>3. 1 = Len(wire)
  BY <1>2 DEF SerialInv, CallsLast
<1>4. Tail(wire) \in Seq(Messages) /\ Len(Tail(wire)) = 0
  BY <1>1, <1>3
<1>5. \A v \in Seq(Messages) : Len(v) = 0 => v = <<>>
  OBVIOUS
<1>6. Tail(wire) = <<>>
  BY <1>4, <1>5
<1> QED BY <1>1, <1>6

LEMMA StepsSettle ==
  ASSUME SerialInv, NEW t \in Tasks, Steps(t), Only(t)
  PROVE  /\ CallsLast' /\ WireKept
         /\ (op'[t].at \in Settled => op[t].at \in Calls \cup Settled) => QuietIn(t)'
<1>1. WireKept
  BY InSerial, StepsWire
<1>2. PICK w \in Seq(Messages) :
         /\ wire' = Sent(w, t, op'[t])
         /\ \/ w = <<>>
            \/ w = wire /\ op[t].at \notin Calls
  <2>1. CASE op[t].at \notin Calls /\ wire' = Sent(wire, t, op'[t])
    BY <2>1, InSerial DEF EditorTyped
  <2>2. CASE Served(t, op[t].at) /\ wire' = Sent(Tail(wire), t, op'[t])
    <3>1. Tail(wire) = <<>> /\ Tail(wire) \in Seq(Messages)
      BY <2>2, ServedLast
    <3> QED BY <2>2, <3>1
  <2> QED BY <2>1, <2>2 DEF Steps
<1>3. \A u \in Tasks : ~Has(w, CallOf(u))
  <2>1. CASE w = <<>>
    <3>1. DOMAIN w = {}
      BY <2>1
    <3> QED BY <3>1 DEF Has
  <2>2. CASE w = wire /\ op[t].at \notin Calls
    <3>1. "idle" \notin Calls
      BY DEF Calls
    <3> QED BY <2>2, <3>1, InSerial DEF OverlapInv, CallsOnce, Only
  <2> QED BY <1>2, <2>1, <2>2
<1>4. CallsLast'
  <2> SUFFICES ASSUME NEW u \in Tasks, NEW i \in DOMAIN wire', wire'[i] = CallOf(u)
               PROVE  i = Len(wire')
    BY DEF CallsLast
  <2>1. CASE wire' = w
    BY <1>3, <2>1 DEF Has
  <2>2. CASE wire' = Append(w, CallOf(t))
    <3>1. PICK v : v = wire'
      OBVIOUS
    <3>2. PICK m : m = CallOf(t)
      OBVIOUS
    <3>3. m \in Messages
      BY <3>2, MessageIs
    <3>4. v = Append(w, m)
      BY <2>2, <3>1, <3>2
    <3>5. DOMAIN v = 1 .. Len(v) /\ Len(v) = Len(w) + 1 /\ Len(w) \in Nat /\ DOMAIN w = 1 .. Len(w)
          /\ \A j \in 1 .. Len(w) : v[j] = w[j]
      BY <3>3, <3>4
    <3>6. i \in DOMAIN v /\ v[i] = CallOf(u)
      BY <3>1
    <3>7. i \notin 1 .. Len(w)
      BY <1>3, <3>5, <3>6 DEF Has
    <3>8. i = Len(v)
      BY <3>5, <3>6, <3>7
    <3> QED BY <3>1, <3>8
  <2> QED BY <1>2, <2>1, <2>2 DEF Sent
<1>5. ASSUME op'[t].at \in Settled => op[t].at \in Calls \cup Settled PROVE QuietIn(t)'
  <2> SUFFICES ASSUME op'[t].at \in Settled PROVE wire' = <<>>
    BY DEF QuietIn
  <2>1. wire' = w
    BY <1>2 DEF Sent, Calls, Settled
  <2>2. w = wire /\ op[t].at \notin Calls => w = <<>>
    BY <1>5, InSerial DEF QuietIn
  <2> QED BY <1>2, <2>1, <2>2
<1> QED BY <1>1, <1>4, <1>5

\* A command that is not there wants nothing.
LEMMA IdleIn ==
  ASSUME NEW t \in Tasks, op[t].at = "idle"
  PROVE  SaveIn(t) /\ SyncIn(t) /\ QuietIn(t) /\ HoldIn(t) /\ ~Past(op[t])
BY DEF SaveIn, SyncIn, QuietIn, HoldIn, Past, SaveAwaits, Settled

\* A step that leaves the window and its flags alone
LEMMA AgreesKept ==
  ASSUME SerialInv, NEW t \in Tasks, Only(t), Steps(t), ~Leaves(op[t]),
         op[t].at \notin {"notify", "commitOpen", "reply"},
         UNCHANGED <<unsaved, body>>, sess' = sess \/ Leaves(op'[t]),
         op'[t].at = "reply" \/ \A d \in live \ Doomed : dirty'[d] <=> dirty[d]
  PROVE  EditorAgrees' /\ BackendAgrees' /\ Started'
<1>1. CASE Leaves(op'[t])
  <2>1. Closing'
    BY <1>1 DEF Closing, Leaves
  <2> QED BY <2>1 DEF EditorAgrees, BackendAgrees, Started
<1>2. CASE sess' = sess
  <2>1. ~Closing /\ (sess # NoSession => sess.doc \in live \ Doomed)
    BY OnlyOwned
  <2>2. \A u \in Tasks : op[u].at \notin {"notify", "commitOpen", "reply"}
    BY DEF Only
  <2>3. EditorAgrees'
    BY <1>2, <2>1, <2>2 DEF SerialInv, EditorAgrees
  <2>4. Started'
    BY <1>2, <2>1, <2>2 DEF SerialInv, Started
  <2>5. BackendAgrees'
    <3>1. CASE sess = NoSession
      BY <1>2, <3>1 DEF BackendAgrees
    <3>2. CASE op'[t].at = "reply"
      BY <3>2 DEF BackendAgrees
    <3>3. CASE sess # NoSession /\ op'[t].at # "reply"
      <4>1. dirty'[sess.doc] <=> dirty[sess.doc]
        BY <2>1, <3>3
      <4>2. sess.dirty <=> (dirty[sess.doc] \/ sess.doc \in Told(wire, "dirty"))
        BY <2>1, <2>2, <3>3 DEF SerialInv, BackendAgrees
      <4>3. Told(wire', "dirty") = Told(wire, "dirty")
        BY StepsSettle DEF WireKept
      <4> QED BY <1>2, <4>1, <4>2, <4>3 DEF BackendAgrees
    <3> QED BY <3>1, <3>2, <3>3
  <2> QED BY <2>3, <2>4, <2>5
<1> QED BY <1>1, <1>2

\* What one hand lets go of another one takes.
LEMMA AccountedSteps ==
  ASSUME SerialInv, NEW t \in Tasks, Only(t), Steps(t), Leaves(op[t]) => Closing',
         Closing' \/ \A d \in live' :
           d \notin live \/ d \in {sess.doc, pending} \cup Dooms(op[t]) \cup Owns(op[t])
           => d \in {sess'.doc, pending'} \cup Dooms(op'[t]) \cup Owns(op'[t])
  PROVE  Accounted'
<1>1. CASE Closing'
  BY <1>1 DEF Accounted
<1>2. CASE ~Closing'
  <2>1. ~Closing
    BY <1>2, OnlyOwned
  <2>2. Told(wire', "close") = Told(wire, "close")
    BY StepsSettle DEF WireKept
  <2>3. \A u \in Tasks : u # t => op'[u] = op[u]
    BY DEF Steps
  <2> SUFFICES ASSUME NEW d \in live'
               PROVE  \/ d \in {sess'.doc, pending'} \/ d \in Doomed'
                      \/ \E u \in Tasks : d \in Owns(op'[u])
    BY DEF Accounted, Owns
  <2>4. CASE d \in {sess'.doc, pending'} \cup Dooms(op'[t]) \cup Owns(op'[t])
    BY <2>4 DEF Doomed, Dooms
  <2>5. CASE d \in live /\ d \notin {sess.doc, pending} \cup Dooms(op[t]) \cup Owns(op[t])
    <3>1. d \in Doomed \/ \E u \in Tasks : d \in Owns(op[u])
      BY <2>1, <2>5 DEF SerialInv, Accounted
    <3>2. d \in Told(wire, "close") \/ \E u \in Tasks \ {t} : d \in Dooms(op[u]) \cup Owns(op[u])
      BY <2>5, <3>1 DEF Doomed
    <3> QED BY <2>2, <2>3, <3>2 DEF Doomed, Dooms
  <2> QED BY <1>2, <2>4, <2>5
<1> QED BY <1>1, <1>2

\* A command takes a step.
LEMMA SerialSteps ==
  ASSUME SerialInv, OverlapInv', NEW t \in Tasks, Only(t), Steps(t),
         Safe' \/ unsaved', blanks' > 0 \/ stage' = "refresh" \/ Past(op'[t]) => Safe',
         SaveIn(t)', SyncIn(t)', HoldIn(t)',
         op'[t].at \in Settled => op[t].at \in Calls \cup Settled,
         EditorAgrees', BackendAgrees', Started', Accounted'
  PROVE  SerialInv'
<1>1. \A u \in Tasks : u # t => op'[u].at = "idle"
  BY DEF Steps, Only
<1>2. CallsLast' /\ QuietIn(t)'
  BY StepsSettle
<1>3. ASSUME NEW u \in Tasks, u # t
      PROVE  SaveIn(u)' /\ SyncIn(u)' /\ QuietIn(u)' /\ HoldIn(u)' /\ ~Past(op'[u])
  BY <1>1, <1>3 DEF SaveIn, SyncIn, QuietIn, HoldIn, Past, SaveAwaits, Settled
<1>4. SafeOK'
  BY <1>3 DEF SafeOK
<1>5. Serial'
  BY DEF SerialInv, Serial
<1> QED BY <1>2, <1>3, <1>4, <1>5 DEF SerialInv

\* A command that keeps what it holds
LEMMA HoldsOn ==
  ASSUME SerialInv, NEW t \in Tasks, Only(t), Steps(t),
         op[t].at \in Holding \cup {"idle"}, op'[t].at \in Holding,
         op'[t].doc = op[t].doc \/ op[t].at = "idle",
         sess'.doc = sess.doc, UNCHANGED <<pending, live>>
  PROVE  Accounted'
<1>1. ~Leaves(op[t])
  BY DEF Leaves, Holding
<1>2. Owns(op[t]) \cup Dooms(op[t]) \subseteq Owns(op'[t])
  <2>1. Owns(op'[t]) = {op'[t].doc} \cap Docs
    BY HoldingIs
  <2>2. CASE op[t].at \in Holding
    <3>1. Dooms(op[t]) = {} /\ Owns(op[t]) = {op[t].doc} \cap Docs
      BY <2>2, HoldingIs
    <3> QED BY <2>1, <2>2, <3>1 DEF Holding
  <2>3. CASE op[t].at = "idle"
    BY <2>3 DEF Owns, Dooms, Left
  <2> QED BY <2>2, <2>3
<1> QED BY <1>1, <1>2, AccountedSteps

\* A save does not reach what only opens and new documents do.
LEMMA SaveHolds ==
  ASSUME NEW t \in Tasks, op'[t].at \in SaveAwaits
  PROVE  HoldIn(t)' /\ op'[t].at \in Holding /\ (Past(op'[t]) => op'[t].at \in {"reply", "notify"})
BY DEF HoldIn, SaveAwaits, Holding, Past

LEMMA StartSaveSerial ==
  ASSUME SerialInv, OverlapInv', NEW t \in Tasks,
         (\E as : StartSave(t, as)) \/ (SaveFirst(t) /\ sess # NoSession)
  PROVE  SerialInv'
<1>1. FlowInv /\ FlowInv'
  BY InSerial DEF OverlapInv, SoundInv
<1>2. /\ Steps(t) /\ Still /\ EditorStill /\ WindowStill
      /\ (op[t].at = "idle" /\ MayStart(t, "save")) \/ (op[t].at = "confirm" /\ op'[t].doc = op[t].doc)
      /\ op'[t].at \in {"choose", "check"} /\ op'[t].save.doc = sess.doc
  BY <1>1, StartSaveIs, SaveFirstIs DEF SameTask
<1>3. Only(t)
  BY <1>2, OnlyOne
<1>4. EditorAgrees' /\ BackendAgrees' /\ Started'
  BY <1>2, <1>3, AgreesKept DEF Still, EditorStill, WindowStill, Leaves
<1>5. HoldIn(t)' /\ op'[t].at \in Holding /\ ~Past(op'[t]) /\ op'[t].at \notin Settled
  BY <1>2, SaveHolds DEF SaveAwaits, Settled
<1>6. Accounted'
  BY <1>2, <1>3, <1>5, HoldsOn DEF Still, WindowStill, Holding
<1>7. SaveIn(t)' /\ SyncIn(t)'
  BY <1>2 DEF SaveIn, SyncIn, WindowStill
<1>8. (Safe' \/ unsaved') /\ (blanks' > 0 \/ stage' = "refresh" => Safe')
  BY <1>2, InSerial DEF SafeOK, Safe, Still, EditorStill, WindowStill
<1> QED BY <1>2, <1>3, <1>4, <1>5, <1>6, <1>7, <1>8, SerialSteps

LEMMA SavesOnSerial ==
  ASSUME SerialInv, OverlapInv', NEW t \in Tasks,
         \/ \E p \in Paths : ChoosePath(t, p)
         \/ CheckExternal(t) /\ op'[t] # GiveUp(op[t])
         \/ AllowOverwrite(t)
  PROVE  SerialInv'
<1>1. FlowInv /\ FlowInv'
  BY InSerial DEF OverlapInv, SoundInv
<1>2. /\ Steps(t) /\ Still /\ EditorStill /\ WindowStill /\ SameSave(t)
      /\ op[t].at \in {"choose", "check", "ask"} /\ op'[t].at \in {"check", "ask", "export"}
      /\ op'[t].at \in Settled => op[t].at \in {"check", "ask"}
  BY <1>1, SavesOnIs DEF Settled
<1>3. Only(t)
  BY <1>2, OnlyOne
<1>4. EditorAgrees' /\ BackendAgrees' /\ Started'
  BY <1>2, <1>3, AgreesKept DEF Still, EditorStill, WindowStill, Leaves
<1>5. HoldIn(t)' /\ op'[t].at \in Holding /\ ~Past(op'[t])
  BY <1>2, SaveHolds DEF SaveAwaits
<1>6. Accounted'
  BY <1>2, <1>3, <1>5, HoldsOn DEF Still, WindowStill, Holding, SameSave, SameTask
<1>7. SaveIn(t)' /\ SyncIn(t)'
  BY <1>2, InSerial DEF SaveIn, SyncIn, WindowStill, SameSave, SaveAwaits
<1>8. (Safe' \/ unsaved') /\ (blanks' > 0 \/ stage' = "refresh" => Safe')
  BY <1>2, InSerial DEF SafeOK, Safe, Still, EditorStill, WindowStill
<1>9. op'[t].at \in Settled => op[t].at \in Calls \cup Settled
  BY <1>2 DEF Settled, Calls
<1> QED BY <1>2, <1>3, <1>4, <1>5, <1>6, <1>7, <1>8, <1>9, SerialSteps

LEMMA ExportSerial ==
  ASSUME SerialInv, OverlapInv', NEW t \in Tasks, Export(t)
  PROVE  SerialInv'
<1>1. FlowInv /\ FlowInv'
  BY InSerial DEF OverlapInv, SoundInv
<1>2. /\ Steps(t) /\ Still /\ EditorStill /\ WindowStill /\ SameSave(t)
      /\ op[t].at = "export" /\ op'[t].at = "commit" /\ op'[t].out = body /\ op'[t].owner = shows
  BY <1>1, ExportIs
<1>3. Only(t)
  BY <1>2, OnlyOne
<1>4. EditorAgrees' /\ BackendAgrees' /\ Started'
  BY <1>2, <1>3, AgreesKept DEF Still, EditorStill, WindowStill, Leaves
<1>5. HoldIn(t)' /\ op'[t].at \in Holding /\ ~Past(op'[t]) /\ op'[t].at \notin Settled
  BY <1>2, SaveHolds DEF SaveAwaits, Settled
<1>6. Accounted'
  BY <1>2, <1>3, <1>5, HoldsOn DEF Still, WindowStill, Holding, SameSave, SameTask
<1>7. shows = sess.doc
  <2>1. ~Closing
    BY <1>2, <1>3, OnlyOwned DEF Leaves
  <2> QED BY <1>2, <1>3, <2>1, InSerial DEF OverlapInv, ShowsOwn, Only
<1>8. SaveIn(t)' /\ SyncIn(t)'
  BY <1>2, <1>7, InSerial DEF SaveIn, SyncIn, EditorStill, WindowStill, SameSave, SaveAwaits
<1>9. (Safe' \/ unsaved') /\ (blanks' > 0 \/ stage' = "refresh" => Safe')
  BY <1>2, InSerial DEF SafeOK, Safe, Still, EditorStill, WindowStill
<1> QED BY <1>2, <1>3, <1>4, <1>5, <1>6, <1>8, <1>9, SerialSteps

LEMMA CommitCallSerial ==
  ASSUME SerialInv, OverlapInv', NEW t \in Tasks, CommitCall(t), op'[t] # GiveUp(op[t])
  PROVE  SerialInv'
<1>1. FlowInv /\ FlowInv'
  BY InSerial DEF OverlapInv, SoundInv
<1>2. /\ Steps(t) /\ EditorStill /\ WindowStill /\ SameSave(t) /\ UNCHANGED <<live, issued, dirty>>
      /\ op[t].at = "commit" /\ op'[t].at = "native" /\ stage' = "write"
      /\ op'[t].out = op[t].out /\ op'[t].owner = op[t].owner
      /\ req'.doc = op[t].save.doc /\ req'.body = op[t].out
  BY <1>1, CommitCallIs
<1>3. Only(t)
  BY <1>2, OnlyOne
<1>4. EditorAgrees' /\ BackendAgrees' /\ Started'
  BY <1>2, <1>3, AgreesKept DEF EditorStill, WindowStill, Leaves
<1>5. HoldIn(t)' /\ op'[t].at \in Holding /\ ~Past(op'[t]) /\ op[t].at \in Calls
  BY <1>2, SaveHolds DEF SaveAwaits, Calls
<1>6. Accounted'
  BY <1>2, <1>3, <1>5, HoldsOn DEF WindowStill, Holding, SameSave, SameTask
<1>7. SaveIn(t)' /\ SyncIn(t)'
  BY <1>2, InSerial DEF SaveIn, SyncIn, EditorStill, WindowStill, SameSave, SaveAwaits
<1>8. (Safe' \/ unsaved') /\ (blanks' > 0 \/ stage' = "refresh" => Safe')
  BY <1>2, InSerial DEF SafeOK, Safe, EditorStill, WindowStill
<1> QED BY <1>2, <1>3, <1>4, <1>5, <1>6, <1>7, <1>8, SerialSteps

\* The rename puts what the editor shows into the file of its own document.
LEMMA CommitRenameSerial ==
  ASSUME SerialInv, OverlapInv', NEW t \in Tasks, CommitRename(t)
  PROVE  SerialInv'
<1>1. /\ WindowStill /\ UNCHANGED <<op, wire, live, issued, dirty, req, body, unsaved, waived>>
      /\ op[t].at = "native" /\ kept \subseteq kept' /\ (op[t].owner = req.doc => req.body \in kept')
  BY CommitRenameIs
<1>2. req.body = body /\ req.doc = op[t].owner
  BY <1>1, InSerial DEF SaveIn
<1>3. SafeOK'
  BY <1>1, <1>2 DEF SafeOK, Safe
<1>4. \A u \in Tasks : SaveIn(u)' /\ SyncIn(u)' /\ QuietIn(u)' /\ HoldIn(u)'
  BY <1>1 DEF SerialInv, SaveIn, SyncIn, QuietIn, HoldIn, WindowStill
<1>5. EditorAgrees' /\ BackendAgrees'
  BY <1>1 DEF SerialInv, EditorAgrees, BackendAgrees, Closing, Told, WindowStill
<1>6. CallsLast' /\ Started' /\ Accounted' /\ Serial'
  BY <1>1 DEF SerialInv, CallsLast, Started, Accounted, Serial, Closing, Doomed, Told, WindowStill
<1> QED BY <1>3, <1>4, <1>5, <1>6 DEF SerialInv

LEMMA CommitDoneSerial ==
  ASSUME SerialInv, OverlapInv', NEW t \in Tasks, CommitDone(t)
  PROVE  SerialInv'
<1>1. FlowInv /\ FlowInv'
  BY InSerial DEF OverlapInv, SoundInv
<1>2. /\ Steps(t) /\ EditorStill /\ WindowStill /\ SameSave(t) /\ UNCHANGED <<live, issued>>
      /\ op[t].at = "native" /\ op'[t].at = "reply" /\ stage = "refresh" /\ stage' = "free"
      /\ ~dirty'[req.doc]
  BY <1>1, CommitDoneIs
<1>3. Only(t)
  BY <1>2, OnlyOne
<1>4. EditorAgrees' /\ BackendAgrees' /\ Started'
  BY <1>2, <1>3, AgreesKept DEF EditorStill, WindowStill, Leaves
<1>5. HoldIn(t)' /\ op'[t].at \in Holding /\ op[t].at \in Settled
  BY <1>2, SaveHolds DEF SaveAwaits, Settled
<1>6. Accounted'
  BY <1>2, <1>3, <1>5, HoldsOn DEF WindowStill, Holding, SameSave, SameTask
<1>7. req.doc = sess.doc /\ op[t].save.doc = sess.doc
  BY <1>2, InSerial DEF SaveIn, SaveAwaits
<1>8. SaveIn(t)' /\ SyncIn(t)'
  BY <1>2, <1>7 DEF SaveIn, SyncIn, WindowStill, SameSave
<1>9. Safe'
  BY <1>2, InSerial DEF SafeOK, Safe, EditorStill
<1> QED BY <1>2, <1>3, <1>4, <1>5, <1>6, <1>8, <1>9, SerialSteps

\* No other document can have come into the window while the save ran.
LEMMA CommitSaveTaken ==
  ASSUME SerialInv, NEW t \in Tasks, CommitSave(t)
  PROVE  op'[t] # GiveUp(op[t])
<1>1. FlowInv /\ SaveIn(t) /\ op[t].at = "reply"
  BY InSerial DEF CommitSave
<1>2. op[t].save.doc = sess.doc
  BY <1>1 DEF SaveIn, SaveAwaits
<1>3. PICK m : m = [op[t] EXCEPT !.at = "notify"]
  OBVIOUS
<1>4. GoTo(t, m)
  BY <1>2, <1>3 DEF CommitSave
<1>5. op'[t] = m
  BY <1>1, <1>4, OneMoves DEF GoTo
<1>6. m.at = "notify"
  BY <1>1, <1>3, AtOf DEF Task
<1> QED BY <1>1, <1>5, <1>6, GiveUpWent

LEMMA CommitSaveSerial ==
  ASSUME SerialInv, OverlapInv', NEW t \in Tasks, CommitSave(t)
  PROVE  SerialInv'
<1>1. FlowInv /\ FlowInv'
  BY InSerial DEF OverlapInv, SoundInv
<1>2. /\ Steps(t) /\ EditorStill /\ Still /\ UNCHANGED <<pending, blanks, gone>> /\ SameSave(t)
      /\ op[t].at = "reply" /\ op'[t].at = "notify"
      /\ sess'.doc = op[t].save.doc /\ ~sess'.dirty
  BY <1>1, CommitSaveTaken, CommitSaveIs
<1>3. Only(t)
  BY <1>2, OnlyOne
<1>4. /\ op[t].save.doc = sess.doc /\ ~dirty[sess.doc] /\ wire = <<>> /\ Safe
      /\ sess.doc \in Docs
  <2>1. sess.doc \in Docs
    BY <1>2, SavesOwned, InSerial DEF SaveAwaits
  <2> QED BY <1>2, <2>1, InSerial DEF SaveIn, SyncIn, QuietIn, SafeOK, Past, Settled, SaveAwaits
<1>5. HoldIn(t)' /\ op'[t].at \in Holding /\ op[t].at \in Settled
  BY <1>2, SaveHolds DEF SaveAwaits, Settled
<1>6. Accounted'
  BY <1>2, <1>3, <1>4, <1>5, HoldsOn DEF Still, Holding, SameSave, SameTask
<1>7. SaveIn(t)' /\ SyncIn(t)'
  BY <1>2, <1>4 DEF SaveIn, SyncIn, SameSave
<1>8. Safe'
  BY <1>2, <1>4 DEF Safe, EditorStill
<1>9. EditorAgrees' /\ Started'
  <2>1. sess' # NoSession
    BY <1>2, <1>4, InSerial
  <2> QED BY <1>2, <2>1 DEF EditorAgrees, Started
<1>10. BackendAgrees'
  <2>1. Told(wire', "dirty") = {}
    <3>1. Told(wire', "dirty") = Told(wire, "dirty")
      BY <1>2, <1>3, StepsSettle DEF WireKept
    <3>2. DOMAIN wire = {}
      BY <1>4
    <3> QED BY <3>1, <3>2 DEF Told
  <2>2. ~dirty'[sess'.doc]
    BY <1>2, <1>4 DEF Still
  <2> QED BY <1>2, <2>1, <2>2 DEF BackendAgrees
<1> QED BY <1>2, <1>3, <1>5, <1>6, <1>7, <1>8, <1>9, <1>10, SerialSteps

LEMMA QuitsSerial ==
  ASSUME SerialInv, OverlapInv', NEW t \in Tasks,
         \/ Fails(t) \/ CommitFailed(t)
         \/ (CheckExternal(t) \/ CommitCall(t)) /\ op'[t] = GiveUp(op[t])
         \/ SaveFirst(t) /\ sess = NoSession
  PROVE  SerialInv'
<1>1. FlowInv /\ FlowInv'
  BY InSerial DEF OverlapInv, SoundInv
<1>2. /\ Steps(t) /\ Quits(t) /\ EditorStill /\ WindowStill /\ UNCHANGED <<live, issued, dirty>>
      /\ stage' \in {stage, "free"} /\ op[t].at \in Risks
  BY <1>1, QuitsIs
<1>3. op[t].at # "reply"
  BY DEF Fails, CommitFailed, CheckExternal, CommitCall, Served, SaveFirst
<1>4. Only(t)
  BY <1>2, OnlyOne DEF Risks
<1>5. EditorAgrees' /\ BackendAgrees' /\ Started'
  BY <1>2, <1>3, <1>4, AgreesKept DEF EditorStill, WindowStill, Leaves, Risks
<1>6. op'[t].at \in {"idle", "drop"} /\ (op'[t].at = "drop" => op'[t].doc = op[t].doc)
      /\ (op'[t].at = "idle" => op[t].doc = NoDoc)
  BY <1>1, <1>2, AtOf, InSerial DEF Quits, SameTask, GoalOK, Risks
<1>7. Accounted'
  <2>1. Dooms(op[t]) = {} /\ Owns(op[t]) = {op[t].doc} \cap Docs
    BY <1>2, HoldingIs DEF Risks, Holding
  <2>2. Owns(op[t]) \subseteq Dooms(op'[t])
    BY <1>6, <2>1, InSerial DEF Dooms
  <2> QED BY <1>2, <1>4, <2>1, <2>2, AccountedSteps DEF WindowStill, Leaves, Risks
<1>8. SaveIn(t)' /\ SyncIn(t)' /\ HoldIn(t)' /\ ~Past(op'[t]) /\ op'[t].at \notin Settled
  BY <1>6 DEF SaveIn, SyncIn, HoldIn, Past, SaveAwaits, Settled
<1>9. (Safe' \/ unsaved') /\ (blanks' > 0 \/ stage' = "refresh" => Safe')
  BY <1>2, InSerial DEF SafeOK, Safe, EditorStill, WindowStill
<1> QED BY <1>2, <1>4, <1>5, <1>7, <1>8, <1>9, SerialSteps

\* The guard lets a command pass, or the command needs none.
LEMMA PassSerial ==
  ASSUME SerialInv, OverlapInv', NEW t \in Tasks, Only(t), Steps(t), Still,
         UNCHANGED <<body, blanks, gone>>, kept \subseteq kept', waived \subseteq waived',
         NEW o \in Task, o.goal # "save",
         \/ o = op[t] /\ op[t].at \in {"notify", "confirm", "guard"} /\ LetThrough(t, o)
         \/ op[t].at = "idle" /\ o.doc = NoDoc /\ (LetThrough(t, o) \/ Abandons(t, o)),
         Safe' \/ (o.goal = "open" /\ Abandons(t, o) /\ unsaved'),
         unsaved' <=> sess.dirty
  PROVE  SerialInv'
<1>1. ~Leaves(op[t]) /\ op[t].at \notin {"commitOpen", "reply"}
  BY DEF Leaves
<1>2. /\ ~Closing
      /\ sess # NoSession => (sess.dirty <=> (dirty[sess.doc] \/ sess.doc \in Told(wire, "dirty")))
      /\ sess = NoSession => body = 0
  <2>1. ~Closing
    BY <1>1, OnlyOwned
  <2> QED BY <1>1, <2>1 DEF SerialInv, BackendAgrees, Started, Only
<1>3. /\ op'[t].goal = o.goal /\ op'[t].doc = o.doc
      /\ \/ op'[t].at = "load" /\ o.goal = "open" /\ UNCHANGED <<sess, pending>>
         \/ pending' = NoDoc /\ pending # NoDoc /\ op'[t].at = "abort" /\ op'[t].old = pending
            /\ sess' = sess /\ (Abandons(t, o) /\ o.goal = "open" => o.doc = NoDoc)
         \/ pending' = NoDoc /\ pending = NoDoc /\ sess' = sess /\ op'[t].at = "create" /\ o.goal = "new"
         \/ pending' = NoDoc /\ pending = NoDoc /\ sess' = sess /\ op'[t].at = "read" /\ o.goal = "open"
            /\ o.doc = NoDoc
         \/ Leaves(op'[t])
  BY DEF LetThrough, Abandons, WentOn
<1>4. sess' = sess \/ Closing'
  BY <1>3 DEF Closing, Leaves
<1>5. Told(wire', "dirty") = Told(wire, "dirty")
  BY StepsSettle DEF WireKept
<1>6. EditorAgrees' /\ Started'
  BY <1>2, <1>4 DEF EditorAgrees, Started
<1>7. BackendAgrees'
  <2>1. dirty' = dirty
    BY DEF Still
  <2> QED BY <1>2, <1>4, <1>5, <2>1 DEF BackendAgrees
<1>8. SaveIn(t)' /\ SyncIn(t)' /\ op'[t].at \notin Settled
  BY <1>3 DEF SaveIn, SyncIn, SaveAwaits, Settled, Leaves
<1>9. HoldIn(t)'
  <2>1. o.goal = "open" /\ op'[t].at \in {"abort", "read", "track"} => o.doc = NoDoc
    BY <1>3 DEF LetThrough, Leaves
  <2> QED BY <1>3, <2>1 DEF HoldIn, Leaves
<1>10. Accounted'
  <2>1. Dooms(op[t]) = {} /\ Owns(op[t]) \subseteq {o.doc} \cap Docs
    <3>1. Dooms(op[t]) = {} /\ (op[t].at = "idle" => Owns(op[t]) = {})
      BY DEF Dooms, Owns, Left
    <3> QED BY <3>1 DEF Owns
  <2>2. CASE Leaves(op'[t])
    BY <2>2 DEF Accounted, Closing, Leaves
  <2>3. CASE op'[t].at \in {"load", "abort", "create", "read"}
    <3>1. {o.doc} \cap Docs \subseteq Owns(op'[t])
      BY <1>3, <2>3 DEF Owns
    <3>2. {pending} \cap Docs \subseteq {pending'} \cup Dooms(op'[t])
      BY <1>3, <2>3, InSerial DEF Dooms, Left, Leaves
    <3>3. sess' = sess /\ live' = live /\ live \subseteq Docs
      BY <1>3, <2>3, InSerial DEF Leaves, Still
    <3> QED BY <1>1, <2>1, <3>1, <3>2, <3>3, AccountedSteps
  <2> QED BY <1>3, <2>2, <2>3
<1>11. Past(op'[t]) => Safe'
  BY <1>3 DEF Past, Abandons, WentOn, Leaves
<1>12. (Safe' \/ unsaved') /\ (blanks' > 0 \/ stage' = "refresh" => Safe')
  BY InSerial DEF SafeOK, Safe, Still
<1> QED BY <1>6, <1>7, <1>8, <1>9, <1>10, <1>11, <1>12, SerialSteps

\* ... or asks the user about the unsaved changes.
LEMMA AskSerial ==
  ASSUME SerialInv, OverlapInv', NEW t \in Tasks, Only(t), Steps(t), Still, EditorStill,
         UNCHANGED <<blanks, gone>>, NEW o \in Task, o.goal # "save",
         \/ o = op[t] /\ op[t].at = "guard"
         \/ op[t].at = "idle" /\ o.doc = NoDoc,
         Asked(t, o)
  PROVE  SerialInv'
<1>1. CASE ~unsaved
  <2>1. LetThrough(t, o)
    BY <1>1 DEF Asked
  <2>2. Safe'
    BY <1>1, InSerial DEF SafeOK, Safe, EditorStill
  <2>3. unsaved' <=> sess.dirty
    <3>1. ~Closing
      BY OnlyOwned DEF Leaves
    <3> QED BY <3>1 DEF SerialInv, EditorAgrees, EditorStill, Only
  <2> QED BY <2>1, <2>2, <2>3, PassSerial DEF EditorStill
<1>2. CASE /\ op'[t].at = "confirm" /\ UNCHANGED <<sess, pending>>
           /\ op'[t].goal = o.goal /\ op'[t].doc = o.doc
  <2>1. EditorAgrees' /\ BackendAgrees' /\ Started'
    BY <1>2, AgreesKept DEF Still, EditorStill, Leaves
  <2>2. Accounted'
    BY <1>2, HoldsOn DEF Still, Holding
  <2>3. SaveIn(t)' /\ SyncIn(t)' /\ HoldIn(t)' /\ ~Past(op'[t]) /\ op'[t].at \notin Settled
    BY <1>2 DEF SaveIn, SyncIn, HoldIn, Past, SaveAwaits, Settled
  <2>4. (Safe' \/ unsaved') /\ (blanks' > 0 \/ stage' = "refresh" => Safe')
    BY InSerial DEF SafeOK, Safe, Still, EditorStill
  <2> QED BY <2>1, <2>2, <2>3, <2>4, SerialSteps
<1> QED BY <1>1, <1>2 DEF Asked

LEMMA GuardSerial ==
  ASSUME SerialInv, OverlapInv', NEW t \in Tasks,
         (\E p \in Paths : StartOpen(t, p)) \/ StartNew(t) \/ StartClose(t) \/ AskGuard(t) \/ Discard(t)
  PROVE  SerialInv'
<1>1. FlowInv /\ FlowInv' /\ op[t] \in Task
  BY InSerial DEF OverlapInv, SoundInv
<1>2. ASSUME NEW p \in Paths, StartOpen(t, p) PROVE SerialInv'
  <2>1. /\ Steps(t) /\ Still /\ EditorStill /\ UNCHANGED <<blanks, gone>>
        /\ MayStart(t, "open") /\ op[t].at = "idle"
        /\ \E o \in Task : o.goal = "open" /\ o.doc = NoDoc /\ Abandons(t, o)
    BY <1>1, <1>2, StartOpenIs
  <2>2. PICK o \in Task : o.goal = "open" /\ o.doc = NoDoc /\ Abandons(t, o)
    BY <2>1
  <2>3. Only(t)
    BY <2>1, OnlyOne
  <2>4. Safe' \/ unsaved'
    BY <2>1, InSerial DEF SafeOK, Safe, EditorStill
  <2>5. unsaved' <=> sess.dirty
    <3>1. ~Closing
      BY <2>1, <2>3, OnlyOwned DEF Leaves
    <3> QED BY <2>1, <2>3, <3>1 DEF SerialInv, EditorAgrees, EditorStill, Only
  <2> QED BY <2>1, <2>2, <2>3, <2>4, <2>5, PassSerial DEF EditorStill
<1>3. ASSUME StartNew(t) \/ StartClose(t) PROVE SerialInv'
  <2>1. /\ Steps(t) /\ Still /\ EditorStill /\ UNCHANGED <<blanks, gone>> /\ op[t].at = "idle"
        /\ \E o \in Task : /\ o.goal \in {"new", "close"} /\ o.doc = NoDoc
                           /\ MayStart(t, o.goal) /\ Asked(t, o)
    BY <1>1, <1>3, StartOtherIs
  <2>2. PICK o \in Task : /\ o.goal \in {"new", "close"} /\ o.doc = NoDoc
                          /\ MayStart(t, o.goal) /\ Asked(t, o)
    BY <2>1
  <2>3. Only(t)
    BY <2>2, OnlyOne
  <2> QED BY <2>1, <2>2, <2>3, AskSerial
<1>4. ASSUME AskGuard(t) PROVE SerialInv'
  <2>1. /\ Steps(t) /\ Still /\ EditorStill /\ UNCHANGED <<blanks, gone>>
        /\ op[t].at = "guard" /\ op[t].goal = "open" /\ Asked(t, op[t])
    BY <1>1, <1>4, AskGuardIs
  <2>2. Only(t)
    BY <2>1, OnlyOne
  <2> QED BY <1>1, <2>1, <2>2, AskSerial
<1>5. ASSUME Discard(t) PROVE SerialInv'
  <2>1. /\ Steps(t) /\ Still /\ UNCHANGED <<body, shows, unsaved, blanks, gone, kept>>
        /\ op[t].at = "confirm" /\ op[t].goal # "save" /\ waived' = waived \cup {body}
        /\ LetThrough(t, op[t])
    BY <1>1, <1>5, DiscardIs
  <2>2. Only(t)
    BY <2>1, OnlyOne
  <2>3. Safe' /\ waived \subseteq waived'
    BY <2>1 DEF Safe
  <2>4. unsaved' <=> sess.dirty
    <3>1. ~Closing
      BY <2>1, <2>2, OnlyOwned DEF Leaves
    <3> QED BY <2>1, <2>2, <3>1 DEF SerialInv, EditorAgrees, Only
  <2> QED BY <1>1, <2>1, <2>2, <2>3, <2>4, PassSerial
<1> QED BY <1>2, <1>3, <1>4, <1>5

LEMMA NotifySerial ==
  ASSUME SerialInv, OverlapInv', NEW t \in Tasks, NotifySaved(t)
  PROVE  SerialInv'
<1>1. FlowInv /\ FlowInv' /\ op[t] \in Task
  BY InSerial DEF OverlapInv, SoundInv
<1>2. /\ Steps(t) /\ Still /\ UNCHANGED <<body, shows, blanks, gone, kept, waived>>
      /\ op[t].at = "notify" /\ unsaved' = FALSE
      /\ \/ op[t].goal = "save" /\ op'[t] = NoTask /\ UNCHANGED <<sess, pending>>
         \/ op[t].goal # "save" /\ LetThrough(t, op[t])
  BY <1>1, NotifySavedIs
<1>3. Only(t)
  BY <1>2, OnlyOne
<1>4. ~sess.dirty /\ Safe' /\ ~Closing
  BY <1>2, <1>3, InSerial, OnlyOwned DEF SyncIn, SafeOK, Past, Safe, Leaves
<1>5. CASE op[t].goal # "save"
  BY <1>1, <1>2, <1>3, <1>4, <1>5, PassSerial
<1>6. CASE op'[t] = NoTask /\ UNCHANGED <<sess, pending>> /\ op[t].goal = "save"
  <2>1. op'[t].at = "idle" /\ op[t].doc = NoDoc
    BY <1>1, <1>2, <1>6, AtOf, InSerial DEF GoalOK
  <2>2. EditorAgrees'
    BY <1>2, <1>4, <1>6 DEF EditorAgrees
  <2>3. Started'
    BY <1>2, <1>3, <1>4, <1>6 DEF SerialInv, Started, Only
  <2>4. BackendAgrees'
    <3>1. Told(wire', "dirty") = Told(wire, "dirty") /\ dirty' = dirty
      BY <1>2, <1>3, StepsSettle DEF WireKept, Still
    <3>2. sess = NoSession \/ (sess.dirty <=> (dirty[sess.doc] \/ sess.doc \in Told(wire, "dirty")))
      BY <1>2, <1>3, <1>4 DEF SerialInv, BackendAgrees, Only
    <3> QED BY <1>6, <3>1, <3>2 DEF BackendAgrees
  <2>5. Accounted'
    <3>1. Dooms(op[t]) = {} /\ Owns(op[t]) = {}
      BY <1>2, <2>1, HoldingIs, InSerial DEF Holding
    <3> QED BY <1>2, <1>3, <1>6, <3>1, AccountedSteps DEF Still, Leaves
  <2>6. SaveIn(t)' /\ SyncIn(t)' /\ HoldIn(t)' /\ op'[t].at \notin Settled
    BY <2>1 DEF SaveIn, SyncIn, HoldIn, SaveAwaits, Settled
  <2> QED BY <1>2, <1>3, <1>4, <2>2, <2>3, <2>4, <2>5, <2>6, SerialSteps
<1> QED BY <1>2, <1>5, <1>6

\* A command that leaves the editor and the window alone
LEMMA RestsSerial ==
  ASSUME SerialInv, OverlapInv', NEW t \in Tasks, Only(t), Steps(t), EditorStill, WindowStill,
         stage' = stage, op[t].at \notin {"notify", "commitOpen", "reply"}, ~Leaves(op[t]),
         op'[t].at \in {"idle", "track", "guard", "created", "closePrevious"},
         \A d \in live \ Doomed : dirty'[d] <=> dirty[d],
         HoldIn(t)', op'[t].at = "created" => Safe, Accounted'
  PROVE  SerialInv'
<1>1. EditorAgrees' /\ BackendAgrees' /\ Started'
  BY AgreesKept DEF EditorStill, WindowStill
<1>2. SaveIn(t)' /\ SyncIn(t)' /\ op'[t].at \notin Settled
      /\ (Past(op'[t]) => op'[t].at = "created")
  BY DEF SaveIn, SyncIn, Past, SaveAwaits, Settled
<1>3. /\ Safe' \/ unsaved'
      /\ blanks' > 0 \/ stage' = "refresh" \/ Past(op'[t]) => Safe'
  BY <1>2, InSerial DEF SafeOK, Safe, EditorStill, WindowStill
<1> QED BY <1>1, <1>2, <1>3, SerialSteps

LEMMA ReadSerial ==
  ASSUME SerialInv, OverlapInv', NEW t \in Tasks, NEW print, Read(t, print)
  PROVE  SerialInv'
<1>1. FlowInv /\ FlowInv'
  BY InSerial DEF OverlapInv, SoundInv
<1>2. /\ Steps(t) /\ Still /\ EditorStill /\ WindowStill /\ SameTask(t)
      /\ op[t].at = "read" /\ op'[t].at = "track"
  BY <1>1, ReadIs
<1>3. Only(t)
  BY <1>2, OnlyOne
<1>4. Accounted'
  BY <1>2, <1>3, HoldsOn DEF Still, WindowStill, Holding, SameTask
<1>5. HoldIn(t)'
  BY <1>2, InSerial DEF HoldIn, SameTask
<1> QED BY <1>2, <1>3, <1>4, <1>5, RestsSerial DEF Still, Leaves

LEMMA OpensSerial ==
  ASSUME SerialInv, OverlapInv', NEW t \in Tasks, NEW d \in Docs, Track(t, d) \/ Create(t, d)
  PROVE  SerialInv'
<1>1. FlowInv /\ FlowInv'
  BY InSerial DEF OverlapInv, SoundInv
<1>2. /\ Steps(t) /\ EditorStill /\ WindowStill /\ UNCHANGED <<stage, req>>
      /\ op'[t].goal = op[t].goal /\ op'[t].doc = d /\ d \notin issued
      /\ live' = live \cup {d} /\ \A e \in Docs \ {d} : dirty'[e] = dirty[e]
      /\ \/ op[t].at = "track" /\ op'[t].at = "guard" /\ op[t].goal = "open"
         \/ op[t].at = "create" /\ op'[t].at = "created"
  BY <1>1, OpensIs
<1>3. Only(t)
  BY <1>2, OnlyOne
<1>4. \A e \in live \ Doomed : dirty'[e] <=> dirty[e]
  BY <1>2, InSerial
<1>5. Dooms(op[t]) = {} /\ Owns(op[t]) = {} /\ Owns(op'[t]) = {d}
  <2>1. op[t].doc = NoDoc
    BY <1>2, InSerial DEF HoldIn, GoalOK
  <2> QED BY <1>2, <2>1, HoldingIs, InSerial DEF Holding
<1>6. Accounted'
  BY <1>2, <1>3, <1>5, AccountedSteps DEF WindowStill, Leaves
<1>7. HoldIn(t)' /\ (op'[t].at = "created" => Safe)
  BY <1>2, InSerial DEF HoldIn, GoalOK, WindowStill, SafeOK, Past
<1> QED BY <1>2, <1>3, <1>4, <1>6, <1>7, RestsSerial DEF Leaves

LEMMA ClosesSerial ==
  ASSUME SerialInv, OverlapInv', NEW t \in Tasks, Recorded(t) \/ ClosePrevious(t) \/ Drop(t)
  PROVE  SerialInv'
<1>1. FlowInv /\ FlowInv'
  BY InSerial DEF OverlapInv, SoundInv
<1>2. CASE Recorded(t)
  <2>1. /\ Steps(t) /\ Still /\ EditorStill /\ WindowStill /\ op[t].at = "record"
        /\ \/ op[t].old = NoDoc /\ op'[t] = NoTask
           \/ op'[t].at = "closePrevious" /\ op'[t].old = op[t].old /\ SameTask(t)
    BY <1>1, <1>2, RecordedIs
  <2>2. Only(t) /\ op'[t].at \in {"idle", "closePrevious"}
    BY <1>1, <2>1, OnlyOne, AtOf
  <2>3. Owns(op[t]) = {} /\ Dooms(op[t]) \subseteq Dooms(op'[t])
    <3>1. Owns(op[t]) = {} /\ Dooms(op[t]) = {op[t].old} \cap Docs
      BY <2>1 DEF Owns, Dooms, Left
    <3>2. op'[t].at = "closePrevious" => Dooms(op'[t]) = {op'[t].old} \cap Docs
      BY DEF Dooms, Left
    <3> QED BY <1>1, <2>1, <3>1, <3>2, InSerial
  <2>4. Accounted'
    BY <2>1, <2>2, <2>3, AccountedSteps DEF WindowStill, Still, Leaves
  <2>5. HoldIn(t)'
    BY <2>2 DEF HoldIn
  <2> QED BY <2>1, <2>2, <2>4, <2>5, RestsSerial DEF Still, Leaves
<1>3. CASE ClosePrevious(t) \/ Drop(t)
  <2>1. /\ Steps(t) /\ EditorStill /\ WindowStill /\ op'[t] = NoTask
        /\ \/ op[t].at = "closePrevious" /\ ClosesOne(op[t].old)
           \/ op[t].at = "drop" /\ ClosesOne(op[t].doc)
    BY <1>1, <1>3, CloseStepsIs
  <2>2. PICK d : ClosesOne(d) /\ Owns(op[t]) = {} /\ Dooms(op[t]) = {d} \cap Docs
    <3>1. Owns(op[t]) = {}
      BY <2>1 DEF Owns
    <3>2. op[t].at = "closePrevious" => Dooms(op[t]) = {op[t].old} \cap Docs
      BY DEF Dooms, Left
    <3>3. op[t].at = "drop" => Dooms(op[t]) = {op[t].doc} \cap Docs
      BY DEF Dooms, Left
    <3> QED BY <2>1, <3>1, <3>2, <3>3
  <2>3. Only(t) /\ op'[t].at = "idle"
    BY <1>1, <2>1, OnlyOne, AtOf
  <2>4. \A e \in live \ Doomed : dirty'[e] <=> dirty[e]
    <3>1. {d} \cap Docs \subseteq Doomed
      BY <2>2 DEF Doomed
    <3>2. \A e \in live \ Doomed : e # d
      BY <3>1, InSerial
    <3> QED BY <2>2, <3>2 DEF ClosesOne
  <2>5. Accounted'
    BY <2>1, <2>2, <2>3, AccountedSteps DEF WindowStill, ClosesOne, Leaves
  <2>6. HoldIn(t)'
    BY <2>3 DEF HoldIn
  <2> QED BY <2>1, <2>2, <2>3, <2>4, <2>5, <2>6, RestsSerial DEF ClosesOne, Leaves
<1> QED BY <1>2, <1>3

LEMMA AbortedSerial ==
  ASSUME SerialInv, OverlapInv', NEW t \in Tasks, Aborted(t)
  PROVE  SerialInv'
<1>1. FlowInv /\ FlowInv'
  BY InSerial DEF OverlapInv, SoundInv
<1>2. /\ Steps(t) /\ EditorStill /\ UNCHANGED <<pending, blanks, gone>>
      /\ op[t].at = "abort" /\ op[t].goal # "save" /\ ClosesOne(op[t].old) /\ WentOn(t, op[t])
  BY <1>1, AbortedIs
<1>3. Only(t)
  BY <1>2, OnlyOne
<1>4. /\ op'[t].goal = op[t].goal /\ op'[t].doc = op[t].doc
      /\ \/ op[t].goal = "open" /\ op'[t].at = "read" /\ sess' = sess
         \/ op[t].goal = "new" /\ op'[t].at = "create" /\ sess' = sess
         \/ op[t].goal = "close" /\ Leaves(op'[t])
  BY <1>2 DEF WentOn
<1>5. Dooms(op[t]) = {op[t].old} \cap Docs /\ Owns(op[t]) = {op[t].doc} \cap Docs
  BY <1>2 DEF Dooms, Owns, Left
<1>6. EditorAgrees' /\ BackendAgrees' /\ Started'
  <2>1. {op[t].old} \cap Docs \subseteq Doomed
    BY <1>5 DEF Doomed
  <2>2. \A e \in live \ Doomed : e # op[t].old
    BY <2>1, InSerial
  <2> QED BY <1>2, <1>3, <1>4, <2>2, AgreesKept DEF EditorStill, ClosesOne, Leaves
<1>7. Accounted'
  <2>1. CASE Leaves(op'[t])
    BY <2>1 DEF Accounted, Closing, Leaves
  <2>2. CASE sess' = sess /\ op'[t].at \in {"read", "create"}
    <3>1. Owns(op[t]) \subseteq Owns(op'[t])
      BY <1>4, <1>5, <2>2, HoldingIs DEF Holding
    <3> QED BY <1>2, <1>3, <1>5, <2>2, <3>1, AccountedSteps DEF ClosesOne, Leaves
  <2> QED BY <1>4, <2>1, <2>2
<1>8. SaveIn(t)' /\ SyncIn(t)' /\ HoldIn(t)' /\ op'[t].at \notin Settled
  <2>1. op'[t].at \in {"read", "create", "closeLast", "destroy"}
    BY <1>4 DEF Leaves
  <2>2. HoldIn(t)'
    BY <1>2, <1>4, <2>1, InSerial DEF HoldIn
  <2> QED BY <2>1, <2>2 DEF SaveIn, SyncIn, SaveAwaits, Settled
<1>9. (Safe' \/ unsaved') /\ (blanks' > 0 \/ stage' = "refresh" => Safe') /\ (Past(op'[t]) => Safe')
  <2>1. (Safe' <=> Safe) /\ UNCHANGED <<unsaved, blanks, stage>>
    BY <1>2 DEF Safe, EditorStill, ClosesOne
  <2>2. Past(op'[t]) => Past(op[t])
    BY <1>2, <1>4 DEF Past
  <2> QED BY <2>1, <2>2, InSerial DEF SafeOK
<1> QED BY <1>2, <1>3, <1>6, <1>7, <1>8, <1>9, SerialSteps

LEMMA CreatedSerial ==
  ASSUME SerialInv, OverlapInv', NEW t \in Tasks, Created(t)
  PROVE  SerialInv'
<1>1. FlowInv /\ FlowInv'
  BY InSerial DEF OverlapInv, SoundInv
<1>2. /\ Steps(t) /\ Still /\ EditorStill /\ UNCHANGED <<sess, gone>>
      /\ op[t].at = "created" /\ op'[t] = NoTask /\ pending' = op[t].doc
  BY <1>1, CreatedIs
<1>3. Only(t) /\ op'[t].at = "idle"
  BY <1>1, <1>2, OnlyOne, AtOf
<1>4. EditorAgrees' /\ BackendAgrees' /\ Started'
  BY <1>2, <1>3, AgreesKept DEF Still, EditorStill, Leaves
<1>5. Accounted'
  <2>1. pending = NoDoc
    BY <1>2, InSerial DEF HoldIn, GoalOK
  <2>2. Dooms(op[t]) = {} /\ Owns(op[t]) = {op[t].doc} \cap Docs
    BY <1>2, HoldingIs DEF Holding
  <2>3. NoDoc \notin live' /\ live' = live
    BY <1>2, InSerial DEF Still
  <2> QED BY <1>2, <1>3, <2>1, <2>2, <2>3, AccountedSteps DEF Leaves
<1>6. SaveIn(t)' /\ SyncIn(t)' /\ HoldIn(t)' /\ op'[t].at \notin Settled
  BY <1>3 DEF SaveIn, SyncIn, HoldIn, SaveAwaits, Settled
<1>7. Safe'
  BY <1>2, InSerial DEF SafeOK, Safe, Past, EditorStill
<1> QED BY <1>2, <1>3, <1>4, <1>5, <1>6, <1>7, SerialSteps

\* The opened document becomes the window's, and the one it had is going to be closed.
LEMMA CommitOpenSerial ==
  ASSUME SerialInv, OverlapInv', NEW t \in Tasks, CommitOpen(t)
  PROVE  SerialInv'
<1>1. FlowInv /\ FlowInv'
  BY InSerial DEF OverlapInv, SoundInv
<1>2. /\ Steps(t) /\ Still /\ EditorStill /\ UNCHANGED <<pending, blanks, gone>> /\ SameTask(t)
      /\ op[t].at = "commitOpen" /\ op'[t].at = "record" /\ op'[t].old = sess.doc
      /\ sess'.doc = op[t].doc /\ ~sess'.dirty
  BY <1>1, CommitOpenIs
<1>3. Only(t)
  BY <1>2, OnlyOne
<1>4. PICK d \in Docs : d = op[t].doc
  BY <1>2, InSerial DEF SoundInv, HasDoc
<1>5. d \in live \ (Doomed \cup {sess.doc, pending})
  <2>1. Owned
    BY <1>2, <1>3, OnlyOwned DEF Leaves
  <2>2. d \in Owns(op[t])
    BY <1>2, <1>4 DEF Owns
  <2> QED BY <2>1, <2>2 DEF Owned, HeldOwned
<1>6. ~dirty[d] /\ d \notin Told(wire, "dirty")
  <2>1. DirtyOwned
    BY <1>2, <1>3, OnlyOwned DEF Leaves, Owned
  <2> QED BY <1>5, <2>1 DEF DirtyOwned
<1>7. BackendAgrees'
  <2>1. Told(wire', "dirty") = Told(wire, "dirty") /\ dirty' = dirty /\ sess'.doc = d
    BY <1>2, <1>3, <1>4, StepsSettle DEF WireKept, Still
  <2> QED BY <1>2, <1>6, <2>1 DEF BackendAgrees
<1>8. EditorAgrees' /\ Started'
  <2>1. ~unsaved'
    BY <1>2, InSerial DEF SyncIn, EditorStill
  <2>2. sess' # NoSession
    BY <1>2, <1>4, InSerial
  <2> QED BY <1>2, <2>1, <2>2 DEF EditorAgrees, Started
<1>9. Accounted'
  <2>1. Dooms(op[t]) = {} /\ Owns(op[t]) = {d}
    BY <1>2, <1>4, HoldingIs DEF Holding
  <2>2. Dooms(op'[t]) = {sess.doc} \cap Docs
    BY <1>2 DEF Dooms, Left
  <2>3. live' = live /\ live \subseteq Docs
    BY <1>2, InSerial DEF Still
  <2> QED BY <1>2, <1>3, <1>4, <2>1, <2>2, <2>3, AccountedSteps DEF Leaves
<1>10. SaveIn(t)' /\ SyncIn(t)' /\ HoldIn(t)' /\ op'[t].at \notin Settled
  BY <1>2 DEF SaveIn, SyncIn, HoldIn, SaveAwaits, Settled
<1>11. Safe'
  BY <1>2, InSerial DEF SafeOK, Safe, Past, EditorStill
<1> QED BY <1>2, <1>3, <1>7, <1>8, <1>9, <1>10, <1>11, SerialSteps

LEMMA LeavesSerial ==
  ASSUME SerialInv, OverlapInv', NEW t \in Tasks, CloseLast(t) \/ Destroy(t)
  PROVE  SerialInv'
<1>1. FlowInv /\ FlowInv'
  BY InSerial DEF OverlapInv, SoundInv
<1>2. CASE CloseLast(t)
  <2>1. /\ Steps(t) /\ EditorStill /\ WindowStill /\ SameTask(t) /\ ClosesOne(op[t].old)
        /\ op[t].at = "closeLast" /\ op'[t].at = "destroy"
    BY <1>1, <1>2, CloseLastIs
  <2>2. Only(t)
    BY <2>1, OnlyOne
  <2>3. EditorAgrees' /\ BackendAgrees' /\ Started' /\ Accounted'
    BY <2>1 DEF EditorAgrees, BackendAgrees, Started, Accounted, Closing, Leaves
  <2>4. SaveIn(t)' /\ SyncIn(t)' /\ HoldIn(t)' /\ op'[t].at \notin Settled
    BY <2>1 DEF SaveIn, SyncIn, HoldIn, SaveAwaits, Settled
  <2>5. Safe'
    BY <2>1, InSerial DEF SafeOK, Safe, Past, EditorStill
  <2> QED BY <2>1, <2>2, <2>3, <2>4, <2>5, SerialSteps
<1>3. CASE Destroy(t)
  <2>1. /\ Still /\ EditorStill /\ UNCHANGED <<sess, pending, blanks>>
        /\ gone' = TRUE /\ op' = [u \in Tasks |-> NoTask] /\ wire' = <<>> /\ op[t].at = "destroy"
    BY <1>3, DestroyIs
  <2>2. \A u \in Tasks : op'[u].at = "idle"
    BY <1>1, <2>1, AtOf
  <2>3. EditorAgrees' /\ BackendAgrees' /\ Started' /\ Accounted'
    BY <2>1 DEF EditorAgrees, BackendAgrees, Started, Accounted, Closing
  <2>4. \A u \in Tasks : SaveIn(u)' /\ SyncIn(u)' /\ QuietIn(u)' /\ HoldIn(u)'
    BY <2>2 DEF SaveIn, SyncIn, QuietIn, HoldIn, SaveAwaits, Settled
  <2>5. SafeOK'
    <3>1. Safe'
      BY <2>1, InSerial DEF SafeOK, Safe, Past, EditorStill
    <3> QED BY <3>1 DEF SafeOK
  <2>6. CallsLast' /\ Serial'
    <3>1. DOMAIN wire' = {}
      BY <2>1
    <3> QED BY <3>1 DEF CallsLast, Serial, SerialInv
  <2> QED BY <2>3, <2>4, <2>5, <2>6 DEF SerialInv
<1> QED BY <1>2, <1>3

\* The window takes the document it has prepared: the one it had is told to be closed.
LEMMA CompletesSerial ==
  ASSUME SerialInv, OverlapInv', Completes, Still, ~Closing, Owned,
         \A u \in Tasks : /\ op[u].at \notin Calls \cup {"reply"} /\ op'[u].at \notin Calls
                          /\ Owns(op[u]) \subseteq Owns(op'[u]) /\ Dooms(op[u]) \subseteq Dooms(op'[u])
  PROVE  CallsLast' /\ BackendAgrees' /\ Accounted'
<1>1. /\ OverlapInv /\ EditorTyped /\ NoDoc \notin Docs /\ live \subseteq Docs
      /\ sess.doc \in Docs \cup {NoDoc} /\ NoSession.doc = NoDoc
  <2>1. OverlapInv /\ SoundInv /\ FlowInv /\ EditorTyped
    BY DEF SerialInv, OverlapInv, SoundInv
  <2> QED BY <2>1, SessionsTyped DEF FlowInv, WindowOK, WindowSession
<1>2. \A name \in {"close", "dirty"} : Told(wire, name) \subseteq Told(wire', name)
  BY <1>1, CompletesWire
<1>3. pending # NoDoc /\ sess.doc \in Docs => sess.doc \in Told(wire', "close")
  BY <1>1, CompletesWire
<1>4. CallsLast'
  <2>1. \A u \in Tasks : ~Has(wire', CallOf(u))
    BY DEF OverlapInv, CallsOnce
  <2> QED BY <2>1 DEF CallsLast, Has
<1>5. Told(wire', "dirty") = Told(wire, "dirty")
  <2>1. PICK m : m = MessageOf("close", sess.doc)
    OBVIOUS
  <2>2. m \in Messages /\ m.name = "close" /\ wire \in Seq(Messages)
    BY <1>1, <2>1, MessageIs DEF EditorTyped
  <2>3. About(m, "dirty") = {}
    BY <2>1, MessageIs DEF About
  <2>4. CASE wire' = wire
    BY <2>4
  <2>5. CASE wire' = Append(wire, m)
    <3>1. PICK v : v = wire'
      OBVIOUS
    <3>2. Longer(v, wire, m)
      BY <2>5, <3>1 DEF Longer
    <3>3. Told(v, "dirty") = Told(wire, "dirty") \cup About(m, "dirty")
      BY <2>2, <3>2, WireAppend
    <3> QED BY <2>3, <3>1, <3>3
  <2> QED BY <2>1, <2>4, <2>5 DEF Completes
<1>6. BackendAgrees'
  <2>1. CASE pending = NoDoc /\ sess' = sess
    <3>1. sess = NoSession \/ (sess.dirty <=> (dirty[sess.doc] \/ sess.doc \in Told(wire, "dirty")))
      BY DEF SerialInv, BackendAgrees
    <3> QED BY <1>5, <2>1, <3>1 DEF BackendAgrees, Still
  <2>2. CASE pending # NoDoc /\ sess'.doc = pending /\ ~sess'.dirty
    <3>1. PICK d : d = pending
      OBVIOUS
    <3>2. ~dirty[d] /\ d \notin Told(wire, "dirty")
      BY <2>2, <3>1 DEF Owned, PendingOwned, DirtyOwned
    <3>3. sess'.doc = d /\ dirty' = dirty
      BY <2>2, <3>1 DEF Still
    <3> QED BY <1>5, <2>2, <3>2, <3>3 DEF BackendAgrees
  <2> QED BY <2>1, <2>2 DEF Completes
<1>7. Accounted'
  <2>1. Doomed \subseteq Doomed'
    BY <1>2 DEF Doomed
  <2> SUFFICES ASSUME NEW d \in live
               PROVE  \/ d \in {sess'.doc, pending'} \/ d \in Doomed'
                      \/ \E u \in Tasks : d \in Owns(op'[u])
    BY DEF Accounted, Owns, Still
  <2>2. d \in {sess.doc, pending} \/ d \in Doomed \/ \E u \in Tasks : d \in Owns(op[u])
    BY DEF SerialInv, Accounted
  <2>3. CASE d \in {sess.doc, pending}
    <3>1. CASE pending = NoDoc /\ UNCHANGED <<sess, pending>>
      BY <2>3, <3>1
    <3>2. CASE pending # NoDoc /\ sess'.doc = pending
      <4>1. d = sess.doc => d \in Told(wire', "close")
        BY <1>1, <1>3, <3>2
      <4> QED BY <2>3, <3>2, <4>1 DEF Doomed
    <3> QED BY <3>1, <3>2 DEF Completes
  <2> QED BY <2>1, <2>2, <2>3
<1> QED BY <1>4, <1>6, <1>7

LEMMA LoadSerial ==
  ASSUME SerialInv, OverlapInv', NEW t \in Tasks, Load(t)
  PROVE  SerialInv'
<1>1. FlowInv /\ FlowInv'
  BY InSerial DEF OverlapInv, SoundInv
<1>2. /\ \A u \in Tasks : u # t => op'[u] = op[u]
      /\ SameTask(t) /\ op[t].at = "load" /\ op'[t].at = "commitOpen"
      /\ op[t].goal = "open" /\ Completes /\ Still /\ UNCHANGED <<blanks, gone, waived>>
      /\ unsaved' = FALSE /\ body' \in kept'
  BY <1>1, LoadIs
<1>3. Only(t)
  BY <1>2, OnlyOne
<1>4. ~Closing /\ Owned
  BY <1>2, <1>3, OnlyOwned DEF Leaves
<1>5. CallsLast' /\ BackendAgrees' /\ Accounted'
  <2>1. ASSUME NEW u \in Tasks
        PROVE  /\ op[u].at \notin Calls \cup {"reply"} /\ op'[u].at \notin Calls
               /\ Owns(op[u]) \subseteq Owns(op'[u]) /\ Dooms(op[u]) \subseteq Dooms(op'[u])
    <3>1. CASE u = t
      <4>1. Owns(op[t]) = Owns(op'[t]) /\ Dooms(op[t]) = Dooms(op'[t])
        BY <1>2, HoldingIs DEF Holding, SameTask
      <4> QED BY <1>2, <3>1, <4>1 DEF Calls
    <3>2. CASE u # t
      BY <1>2, <1>3, <3>2 DEF Only, Calls
    <3> QED BY <3>1, <3>2
  <2> QED BY <1>2, <1>4, <2>1, CompletesSerial
<1>6. EditorAgrees' /\ Started'
  BY <1>2 DEF EditorAgrees, Started
<1>7. ASSUME NEW u \in Tasks PROVE SaveIn(u)' /\ SyncIn(u)' /\ QuietIn(u)' /\ HoldIn(u)'
  <2>1. op'[u].at \in {"idle", "commitOpen"}
    BY <1>2, <1>3 DEF Only
  <2> QED BY <1>2, <2>1 DEF SaveIn, SyncIn, QuietIn, HoldIn, SaveAwaits, Settled
<1>8. SafeOK' /\ Serial'
  BY <1>2 DEF SafeOK, Safe, SerialInv, Serial
<1> QED BY <1>5, <1>6, <1>7, <1>8 DEF SerialInv

\* While the editor is about to be blank, no command runs.
LEMMA BlankAlone ==
  ASSUME SerialInv, blanks > 0
  PROVE  (\A u \in Tasks : op[u].at = "idle") /\ pending # NoDoc
<1>1. Apart /\ Prepared /\ Overlap = {}
  BY DEF SerialInv, OverlapInv, Serial
<1> QED BY <1>1 DEF Apart, Prepared, Running

LEMMA BlankSerial ==
  ASSUME SerialInv, OverlapInv', Blank
  PROVE  SerialInv'
<1>1. /\ Still /\ UNCHANGED <<op, gone, waived>> /\ Completes /\ blanks > 0 /\ ~gone
      /\ unsaved' = FALSE /\ body' \in kept'
  BY BlankIs
<1>2. (\A u \in Tasks : op[u].at = "idle") /\ pending # NoDoc
  BY <1>1, BlankAlone
<1>3. ~Closing
  BY <1>1, <1>2 DEF Closing, Leaves
<1>4. Owned /\ NoSession.doc = NoDoc
  BY <1>3, SessionsTyped DEF SerialInv, OverlapInv, SoundInv
<1>5. CallsLast' /\ BackendAgrees' /\ Accounted'
  BY <1>1, <1>2, <1>3, <1>4, CompletesSerial DEF Calls
<1>6. EditorAgrees' /\ Started'
  BY <1>1, <1>2, <1>4 DEF EditorAgrees, Started, Completes
<1>7. \A u \in Tasks : SaveIn(u)' /\ SyncIn(u)' /\ QuietIn(u)' /\ HoldIn(u)'
  BY <1>1, <1>2 DEF SaveIn, SyncIn, QuietIn, HoldIn, SaveAwaits, Settled
<1>8. SafeOK' /\ Serial'
  BY <1>1 DEF SafeOK, Safe, SerialInv, Serial
<1> QED BY <1>5, <1>6, <1>7, <1>8 DEF SerialInv

LEMMA OutsideSerial ==
  ASSUME SerialInv, OverlapInv', BlankFails \/ OtherPrograms \/ UNCHANGED flowVars
  PROVE  SerialInv'
<1>1. Still /\ EditorStill /\ UNCHANGED <<op, gone, sess, pending, wire>> /\ (blanks' > 0 => blanks > 0)
  <2>1. blanks \in Nat
    BY DEF SerialInv, OverlapInv, SoundInv, BlanksOwned
  <2> QED BY <2>1, BlankFailsIs, OutsideIs DEF WindowStill
<1>2. SafeOK'
  BY <1>1 DEF SerialInv, SafeOK, Safe, Past, Still, EditorStill
<1>3. \A u \in Tasks : SaveIn(u)' /\ SyncIn(u)' /\ QuietIn(u)' /\ HoldIn(u)'
  BY <1>1 DEF SerialInv, SaveIn, SyncIn, QuietIn, HoldIn, Still, EditorStill
<1>4. EditorAgrees' /\ BackendAgrees'
  BY <1>1 DEF SerialInv, EditorAgrees, BackendAgrees, Closing, Told, Still, EditorStill
<1>5. CallsLast' /\ Started' /\ Accounted' /\ Serial'
  BY <1>1 DEF SerialInv, CallsLast, Started, Accounted, Serial, Closing, Doomed, Told, Still, EditorStill
<1> QED BY <1>2, <1>3, <1>4, <1>5 DEF SerialInv

\* The user types: no command runs, and the editor shows a document of the window's.
LEMMA EditSerial ==
  ASSUME SerialInv, OverlapInv', Edit
  PROVE  SerialInv'
<1>1. FlowInv /\ EditorTyped /\ NativeOne /\ Apart /\ Serial /\ live \subseteq Docs
      /\ sess.doc \in Docs \cup {NoDoc} /\ NoDoc \notin Docs /\ NoSession.doc = NoDoc
  <2>1. FlowInv /\ EditorTyped /\ NativeOne /\ Apart /\ Serial
    BY DEF SerialInv, OverlapInv, SoundInv
  <2> QED BY <2>1, SessionsTyped DEF FlowInv, WindowOK, WindowSession
<1>2. /\ Still /\ UNCHANGED <<pending, blanks, op, gone, kept, waived>>
      /\ ~gone /\ body # 0 /\ Busy \cap Modal = {} /\ unsaved' = TRUE
      /\ \/ /\ sess # NoSession /\ ~sess.dirty /\ sess'.doc = sess.doc /\ sess'.dirty
            /\ wire' = Append(wire, MessageOf("dirty", sess.doc))
         \/ (sess = NoSession \/ sess.dirty) /\ UNCHANGED <<sess, wire>>
  BY <1>1, EditIs
<1>3. (\A u \in Tasks : op[u].at = "idle") /\ ~(blanks > 0)
  <2>1. Goals \subseteq Modal
    BY <1>1 DEF Serial
  <2>2. ~(blanks > 0)
    <3>1. "new" \in Modal
      BY <2>1 DEF Goals
    <3> QED BY <1>2, <3>1 DEF Busy
  <2>3. ASSUME NEW u \in Tasks PROVE op[u].at = "idle"
    <3>1. op[u].goal \in Modal
      BY <1>1, <2>1, AtOf DEF Task
    <3> QED BY <1>2, <3>1 DEF Busy, Running
  <2> QED BY <2>2, <2>3
<1>4. ~Closing /\ stage = "free"
  BY <1>1, <1>2, <1>3 DEF Closing, Leaves, NativeOne
<1>5. sess # NoSession
  BY <1>2, <1>3, <1>4 DEF SerialInv, Started
<1>6. sess.doc \in Docs
  BY <1>1, <1>4, <1>5 DEF SerialInv, OverlapInv, SoundInv, Owned, SessionOwned
<1>7. SafeOK'
  BY <1>2, <1>3, <1>4 DEF SafeOK, Past, Still
<1>8. sess' # NoSession /\ sess'.doc = sess.doc /\ sess'.dirty
  BY <1>1, <1>2, <1>5, <1>6
<1>9. EditorAgrees' /\ Started' /\ Serial'
  BY <1>1, <1>2, <1>8 DEF EditorAgrees, Started, Serial
<1>10. CallsLast'
  <2>1. \A u \in Tasks : ~Has(wire', CallOf(u))
    BY <1>2, <1>3 DEF OverlapInv, CallsOnce, Calls
  <2> QED BY <2>1 DEF CallsLast, Has
<1>11. BackendAgrees' /\ Told(wire', "close") = Told(wire, "close")
  <2>1. CASE UNCHANGED <<sess, wire>>
    <3>1. sess.dirty <=> (dirty[sess.doc] \/ sess.doc \in Told(wire, "dirty"))
      BY <1>3, <1>4, <1>5 DEF SerialInv, BackendAgrees
    <3> QED BY <1>2, <2>1, <3>1 DEF BackendAgrees, Still
  <2>2. CASE wire' = Append(wire, MessageOf("dirty", sess.doc))
    <3>1. PICK v : v = wire'
      OBVIOUS
    <3>2. PICK d : d = sess.doc
      OBVIOUS
    <3>3. PICK m : m = MessageOf("dirty", d)
      OBVIOUS
    <3>4. m \in Messages /\ m.name = "dirty" /\ wire \in Seq(Messages)
      BY <1>1, <3>2, <3>3, MessageIs DEF EditorTyped
    <3>5. Longer(v, wire, m)
      BY <2>2, <3>1, <3>2, <3>3 DEF Longer
    <3>6. \A name : Told(v, name) = Told(wire, name) \cup About(m, name)
      BY <3>4, <3>5, WireAppend
    <3>7. About(m, "close") = {} /\ d \in About(m, "dirty")
      BY <1>6, <3>2, <3>3, MessageIs DEF About
    <3>8. Told(v, "close") = Told(wire, "close") /\ d \in Told(v, "dirty")
      BY <3>6, <3>7
    <3>9. sess'.doc = d
      BY <1>8, <3>2
    <3> QED BY <1>8, <3>1, <3>8, <3>9 DEF BackendAgrees
  <2> QED BY <1>2, <2>1, <2>2
<1>12. Accounted'
  <2>1. Doomed' = Doomed
    BY <1>2, <1>11 DEF Doomed
  <2> QED BY <1>2, <1>4, <1>8, <2>1 DEF SerialInv, Accounted, Still
<1>13. \A u \in Tasks : SaveIn(u)' /\ SyncIn(u)' /\ QuietIn(u)' /\ HoldIn(u)'
  BY <1>2, <1>3 DEF SaveIn, SyncIn, QuietIn, HoldIn, SaveAwaits, Settled
<1> QED BY <1>7, <1>9, <1>10, <1>11, <1>12, <1>13 DEF SerialInv

\* A message is handled that nobody waits for.
LEMMA DeliverSerial ==
  ASSUME SerialInv, OverlapInv', DeliverDirty \/ DeliverClose
  PROVE  SerialInv'
<1>1. SoundInv /\ FlowInv /\ wire \in Seq(Messages) /\ live \subseteq Docs /\ NoDoc \notin Docs
  <2>1. SoundInv /\ FlowInv /\ wire \in Seq(Messages)
    BY DEF SerialInv, OverlapInv, SoundInv, EditorTyped
  <2> QED BY <2>1, SessionsTyped
<1>2. PICK m : m = Head(wire)
  OBVIOUS
<1>3. /\ EditorStill /\ WindowStill /\ UNCHANGED <<op, stage, req>> /\ wire # <<>> /\ wire' = Tail(wire)
      /\ live' \subseteq live
      /\ \E d \in Docs \cup {NoDoc} :
           \/ /\ m = MessageOf("dirty", d) /\ live' = live
              /\ IF d \in live THEN dirty'[d] /\ \A e \in Docs \ {d} : dirty'[e] = dirty[e]
                 ELSE dirty' = dirty
           \/ m = MessageOf("close", d) /\ ClosesOne(d)
  <2>1. CASE DeliverDirty
    BY <1>1, <1>2, <2>1, DeliverDirtyIs
  <2>2. CASE DeliverClose
    BY <1>1, <1>2, <2>2, DeliverCloseIs DEF ClosesOne
  <2> QED BY <2>1, <2>2
<1>4. PICK d \in Docs \cup {NoDoc} :
           \/ /\ m = MessageOf("dirty", d) /\ live' = live
              /\ IF d \in live THEN dirty'[d] /\ \A e \in Docs \ {d} : dirty'[e] = dirty[e]
                 ELSE dirty' = dirty
           \/ m = MessageOf("close", d) /\ ClosesOne(d)
  BY <1>3
<1>5. \A name \in {"close", "dirty"} : Told(wire, name) = Told(wire', name) \cup About(m, name)
  <2>1. PICK w : w = wire
    OBVIOUS
  <2>2. PICK v : v = wire'
    OBVIOUS
  <2>3. \A name : Told(w, name) = Told(v, name) \cup About(Head(w), name)
    BY <1>1, <1>3, <2>1, <2>2, WireTail
  <2> QED BY <1>2, <2>1, <2>2, <2>3
<1>6. /\ m = MessageOf("dirty", d) => About(m, "close") = {} /\ About(m, "dirty") = {d} \cap Docs
      /\ m = MessageOf("close", d) => About(m, "dirty") = {} /\ About(m, "close") = {d} \cap Docs
  <2>1. ASSUME NEW name, m = MessageOf(name, d) PROVE About(m, name) = {d} \cap Docs
    <3>1. \A e : m = MessageOf(name, e) => e = d
      <4>1. m.doc = d
        BY <2>1, MessageIs
      <4> QED BY <4>1, MessageIs
    <3> QED BY <2>1, <3>1 DEF About
  <2>2. m = MessageOf("dirty", d) => About(m, "close") = {}
    BY MessageIs DEF About
  <2>3. m = MessageOf("close", d) => About(m, "dirty") = {}
    BY MessageIs DEF About
  <2>4. m = MessageOf("dirty", d) => About(m, "dirty") = {d} \cap Docs
    BY <2>1
  <2>5. m = MessageOf("close", d) => About(m, "close") = {d} \cap Docs
    BY <2>1
  <2> QED BY <2>2, <2>3, <2>4, <2>5
<1>7. \A u \in Tasks : op[u].at \notin Settled
  BY <1>3 DEF SerialInv, QuietIn
<1>8. CallsLast'
  <2> SUFFICES ASSUME NEW u \in Tasks, NEW i \in DOMAIN wire', wire'[i] = CallOf(u)
               PROVE  i = Len(wire')
    BY DEF CallsLast
  <2>1. i \in 1 .. (Len(wire) - 1) /\ Len(wire') = Len(wire) - 1 /\ wire'[i] = wire[i + 1]
        /\ Len(wire) \in Nat
    BY <1>1, <1>3
  <2>2. i + 1 \in DOMAIN wire /\ wire[i + 1] = CallOf(u)
    BY <1>1, <2>1
  <2>3. i + 1 = Len(wire)
    BY <2>2 DEF SerialInv, CallsLast
  <2> QED BY <2>1, <2>3
<1>9. SafeOK' /\ Serial'
  BY <1>3 DEF SerialInv, Serial, SafeOK, Safe, EditorStill, WindowStill
<1>10. EditorAgrees' /\ Started'
  BY <1>3 DEF SerialInv, EditorAgrees, Started, Closing, EditorStill, WindowStill
<1>11. BackendAgrees'
  <2>1. CASE Closing \/ sess = NoSession
    BY <1>3, <2>1 DEF BackendAgrees, Closing, WindowStill
  <2>2. CASE ~Closing /\ sess # NoSession
    <3>1. PICK e : e = sess.doc
      OBVIOUS
    <3>2. e \in live \ Doomed
      BY <1>1, <2>2, <3>1 DEF SoundInv, Owned, SessionOwned
    <3>3. sess.dirty <=> (dirty[e] \/ e \in Told(wire, "dirty"))
      BY <1>7, <2>2, <3>1 DEF SerialInv, BackendAgrees, Settled
    <3>4. sess.dirty <=> (dirty'[e] \/ e \in Told(wire', "dirty"))
      <4>1. CASE m = MessageOf("dirty", d)
        <5>1. CASE d = e
          <6>1. e \in Told(wire, "dirty")
            BY <1>1, <1>5, <1>6, <3>2, <4>1, <5>1
          <6>2. dirty'[e]
            BY <1>4, <1>6, <3>2, <4>1, <5>1, MessageIs DEF ClosesOne
          <6> QED BY <3>3, <6>1, <6>2
        <5>2. CASE d # e
          <6>1. dirty'[e] <=> dirty[e]
            <7>1. m # MessageOf("close", d)
              BY <4>1, MessageIs
            <7> QED BY <1>1, <1>4, <3>2, <5>2, <7>1
          <6>2. e \in Told(wire, "dirty") <=> e \in Told(wire', "dirty")
            BY <1>5, <1>6, <4>1, <5>2
          <6> QED BY <3>3, <6>1, <6>2
        <5> QED BY <5>1, <5>2
      <4>2. CASE m = MessageOf("close", d) /\ ClosesOne(d)
        <5>1. d # e
          <6>1. d \in Docs => d \in Told(wire, "close")
            BY <1>5, <1>6, <4>2
          <6> QED BY <1>1, <3>2, <6>1 DEF Doomed
        <5>2. dirty'[e] = dirty[e] /\ Told(wire', "dirty") = Told(wire, "dirty")
          BY <1>5, <1>6, <3>2, <4>2, <5>1 DEF ClosesOne
        <5> QED BY <3>3, <5>2
      <4> QED BY <1>4, <4>1, <4>2
    <3>5. sess' = sess
      BY <1>3 DEF WindowStill
    <3> QED BY <3>1, <3>4, <3>5 DEF BackendAgrees
  <2> QED BY <2>1, <2>2
<1>12. Accounted'
  <2>1. CASE Closing
    BY <1>3, <2>1 DEF Accounted, Closing, WindowStill
  <2>2. CASE ~Closing
    <3>1. \A e \in live' : e \in Told(wire, "close") => e \in Told(wire', "close")
      <4>1. \A e \in live' : e \notin About(m, "close")
        <5>1. CASE m = MessageOf("dirty", d)
          BY <1>6, <5>1
        <5>2. CASE m = MessageOf("close", d) /\ ClosesOne(d)
          BY <1>6, <5>2 DEF ClosesOne
        <5> QED BY <1>4, <5>1, <5>2
      <4> QED BY <1>5, <4>1
    <3>2. \A e \in live' : e \in Doomed => e \in Doomed'
      BY <1>3, <3>1 DEF Doomed
    <3>3. \A e \in live' : e \in {sess.doc, pending} \cup Doomed
                              \cup {x \in Docs : \E u \in Tasks : x \in Owns(op[u])}
      BY <1>3, <2>2 DEF SerialInv, Accounted
    <3>4. sess' = sess /\ pending' = pending /\ op' = op
      BY <1>3 DEF WindowStill
    <3> QED BY <3>2, <3>3, <3>4 DEF Accounted
  <2> QED BY <2>1, <2>2
<1>13. ASSUME NEW u \in Tasks PROVE SaveIn(u)' /\ SyncIn(u)' /\ QuietIn(u)' /\ HoldIn(u)'
  <2>1. op'[u] = op[u] /\ op'[u].at \notin Settled
    BY <1>3, <1>7
  <2>2. SaveIn(u) /\ SyncIn(u) /\ HoldIn(u)
    BY DEF SerialInv
  <2>3. SaveIn(u)' /\ HoldIn(u)'
    BY <1>3, <2>2 DEF SaveIn, HoldIn, EditorStill, WindowStill
  <2>4. SyncIn(u)'
    BY <1>3, <2>1, <2>2 DEF SyncIn, EditorStill, WindowStill, Settled
  <2> QED BY <2>1, <2>3, <2>4 DEF QuietIn
<1> QED BY <1>8, <1>9, <1>10, <1>11, <1>12, <1>13 DEF SerialInv

LEMMA SerialInit == FlowInit /\ Serial => SerialInv
<1> SUFFICES ASSUME FlowInit, Serial PROVE SerialInv
  OBVIOUS
<1>1. OverlapInv
  BY OverlapInit DEF Serial, SavesOverlap
<1>2. \A t \in Tasks : op[t].at = "idle"
  BY NoTaskGoalOK DEF FlowInit
<1>3. /\ sess = NoSession /\ pending = NoDoc /\ body = 0 /\ unsaved = FALSE /\ blanks = 0
      /\ wire = <<>> /\ kept = {0} /\ live = {} /\ stage = "free" /\ NoSession.dirty = FALSE
  BY DEF FlowInit, Init, NoSession
<1>4. SafeOK
  BY <1>3 DEF SafeOK, Safe
<1>5. EditorAgrees /\ BackendAgrees /\ Started /\ Accounted
  BY <1>3 DEF EditorAgrees, BackendAgrees, Started, Accounted
<1>6. CallsLast
  <2>1. DOMAIN wire = {}
    BY <1>3
  <2> QED BY <2>1 DEF CallsLast
<1>7. \A t \in Tasks : SaveIn(t) /\ SyncIn(t) /\ QuietIn(t) /\ HoldIn(t)
  BY <1>2, IdleIn
<1> QED BY <1>1, <1>4, <1>5, <1>6, <1>7 DEF SerialInv

LEMMA SerialNext == SerialInv /\ [FlowNext]_flowVars => SerialInv'
<1> SUFFICES ASSUME SerialInv, [FlowNext]_flowVars PROVE SerialInv'
  OBVIOUS
<1>1. OverlapInv'
  BY OverlapNext DEF SerialInv
<1>2. ASSUME NEW t \in Tasks, SaveStep(t) PROVE SerialInv'
  BY <1>1, <1>2, StartSaveSerial, SavesOnSerial, ExportSerial, CommitCallSerial, CommitRenameSerial,
     CommitDoneSerial, CommitSaveSerial, QuitsSerial, NotifySerial
     DEF SaveStep
<1>3. ASSUME NEW t \in Tasks, OpenStep(t) PROVE SerialInv'
  BY <1>1, <1>3, GuardSerial, ReadSerial, OpensSerial, LoadSerial, CommitOpenSerial, ClosesSerial
     DEF OpenStep
<1>4. ASSUME NEW t \in Tasks, OtherStep(t) PROVE SerialInv'
  BY <1>1, <1>4, GuardSerial, OpensSerial, CreatedSerial, LeavesSerial, AbortedSerial,
     StartSaveSerial, QuitsSerial
     DEF OtherStep
<1>5. CASE Blank \/ BlankFails \/ Edit \/ DeliverDirty \/ DeliverClose \/ OtherPrograms
           \/ UNCHANGED flowVars
  BY <1>1, <1>5, BlankSerial, OutsideSerial, EditSerial, DeliverSerial
<1> QED BY <1>2, <1>3, <1>4, <1>5 DEF FlowNext

\* When everything has settled, nothing is left over and the flags agree.
LEMMA SerialAgrees == SerialInv => AllAgree
<1> SUFFICES ASSUME SerialInv PROVE AllAgree
  OBVIOUS
<1> SUFFICES ASSUME Quiet, ~gone
             PROVE  /\ live \subseteq {sess.doc, pending} /\ shows = sess.doc
                    /\ sess # NoSession => unsaved = sess.dirty /\ sess.dirty = dirty[sess.doc]
  BY DEF AllAgree, NoLeakedSession, DirtySynced, EditorShowsSession
<1>1. (\A t \in Tasks : op[t].at = "idle") /\ wire = <<>>
  BY DEF Quiet, Running
<1>2. ~Closing
  BY <1>1 DEF Closing, Leaves
<1>3. DOMAIN wire = {}
  BY <1>1
<1>4. live \subseteq {sess.doc, pending}
  <2>1. Doomed = {} /\ \A t \in Tasks : Owns(op[t]) = {}
    BY <1>1, <1>3 DEF Doomed, Told, Dooms, Left, Owns
  <2> QED BY <1>2, <2>1 DEF SerialInv, Accounted
<1>5. shows = sess.doc
  BY <1>1, <1>2 DEF SerialInv, OverlapInv, ShowsOwn
<1>6. ASSUME sess # NoSession PROVE unsaved = sess.dirty /\ sess.dirty = dirty[sess.doc]
  <2>1. /\ SoundInv /\ FlowInv /\ EditorTyped
    BY DEF SerialInv, OverlapInv, SoundInv
  <2>2. sess.dirty \in BOOLEAN /\ unsaved \in BOOLEAN
    BY <2>1 DEF FlowInv, WindowOK, WindowSession, EditorTyped
  <2>3. PICK d : d = sess.doc
    OBVIOUS
  <2>4. d \in Docs
    BY <1>2, <1>6, <2>1, <2>3, SessionsTyped DEF SoundInv, Owned, SessionOwned
  <2>5. dirty[d] \in BOOLEAN
    BY <2>1, <2>4, SessionsTyped
  <2>6. unsaved <=> sess.dirty
    BY <1>1, <1>2 DEF SerialInv, EditorAgrees
  <2>7. d \notin Told(wire, "dirty")
    BY <1>3 DEF Told
  <2>8. sess.dirty <=> dirty[d]
    BY <1>1, <1>2, <1>6, <2>3, <2>7 DEF SerialInv, BackendAgrees
  <2> QED BY <2>2, <2>3, <2>5, <2>6, <2>8
<1> QED BY <1>4, <1>5, <1>6

\* What only the editor has, the backend has been told of.
LEMMA SerialKnows == SerialInv => UnsavedWorkIsKnown
<1> SUFFICES ASSUME SerialInv, ~Safe, ~gone
             PROVE  HasDirtySessions \/ \E i \in DOMAIN wire : wire[i].name = "dirty"
  BY DEF UnsavedWorkIsKnown, Safe
<1>1. unsaved /\ \A t \in Tasks : ~Past(op[t])
  BY DEF SerialInv, SafeOK
<1>2. ~Closing /\ \A t \in Tasks : op[t].at \notin {"notify", "commitOpen", "reply"}
  <2>1. \A t \in Tasks : op[t].at \notin {"notify", "commitOpen", "reply", "closeLast", "destroy"}
    BY <1>1 DEF Past
  <2> QED BY <2>1 DEF Closing, Leaves
<1>3. sess.dirty
  BY <1>1, <1>2 DEF SerialInv, EditorAgrees
<1>4. sess # NoSession
  BY <1>3 DEF NoSession
<1>5. PICK d : d = sess.doc
  OBVIOUS
<1>6. d \in live
  BY <1>2, <1>4, <1>5 DEF SerialInv, OverlapInv, SoundInv, Owned, SessionOwned
<1>7. dirty[d] \/ d \in Told(wire, "dirty")
  BY <1>2, <1>3, <1>4, <1>5 DEF SerialInv, BackendAgrees
<1>8. CASE dirty[d]
  BY <1>6, <1>8 DEF HasDirtySessions
<1>9. CASE d \in Told(wire, "dirty")
  BY <1>9, MessageIs DEF Told
<1> QED BY <1>7, <1>8, <1>9

\* A step of the editor or the window that is not an edit loses nothing.
LEMMA SerialDiscards ==
  ASSUME SerialInv, SerialInv', [FlowNext]_flowVars, body' # body \/ gone' # gone, ~Safe
  PROVE  body' # body /\ unsaved' /\ ~gone'
<1>1. \A t \in Tasks : ~Past(op[t])
  BY DEF SerialInv, SafeOK
<1>2. FlowInv /\ ~(blanks > 0)
  BY DEF SerialInv, OverlapInv, SoundInv, SafeOK
<1>3. \A t \in Tasks : ~Load(t) /\ ~Destroy(t)
  BY <1>1 DEF Past, Load, Destroy, Served
<1>4. ~(\E t \in Tasks : SaveStep(t))
  BY DEF SaveStep, StartSave, ChoosePath, CheckExternal, AllowOverwrite, Export, CommitCall,
         CommitRename, CommitDone, CommitFailed, CommitSave, NotifySaved, editorVars
<1>5. ~(\E t \in Tasks : OpenStep(t))
  BY <1>3 DEF OpenStep, StartOpen, Read, Track, AskGuard, CommitOpen, Recorded, ClosePrevious, Drop,
              editorVars
<1>6. ~(\E t \in Tasks : OtherStep(t))
  BY <1>3 DEF OtherStep, StartNew, Create, Created, StartClose, CloseLast, Aborted, Discard,
              SaveFirst, Fails, editorVars
<1>7. Edit
  BY <1>2, <1>4, <1>5, <1>6 DEF FlowNext, Blank, BlankFails, DeliverDirty, DeliverClose, OtherPrograms,
                               editorVars, flowVars
<1>8. unsaved' = TRUE /\ gone' = gone /\ ~gone
  BY <1>2, <1>7, EditIs
<1> QED BY <1>8

\* Commands that do not overlap, in a window whose user does not type while one runs, leave no
\* native session behind, failed and refused ones included, and editor, window and backend agree
\* whenever everything has settled (desktop-host.ts, document-dirty-state.ts).
THEOREM FlowAgrees == Serial /\ FlowSpec => []AllAgree
<1>1. FlowInit /\ Serial => SerialInv
  BY SerialInit
<1>2. SerialInv /\ [FlowNext]_flowVars => SerialInv'
  BY SerialNext
<1>3. SerialInv => AllAgree
  BY SerialAgrees
<1> QED BY <1>1, <1>2, <1>3, PTL DEF FlowSpec

\* ... the updater, which asks the backend for unsaved documents before it installs, hears of
\* all there are, ...
THEOREM FlowKnowsUnsaved == Serial /\ FlowSpec => []UnsavedWorkIsKnown
<1>1. FlowInit /\ Serial => SerialInv
  BY SerialInit
<1>2. SerialInv /\ [FlowNext]_flowVars => SerialInv'
  BY SerialNext
<1>3. SerialInv => UnsavedWorkIsKnown
  BY SerialKnows
<1> QED BY <1>1, <1>2, <1>3, PTL DEF FlowSpec

\* ... and no load, new document or close throws unsaved content away unasked.
THEOREM FlowDiscardsNothing == Serial /\ FlowSpec => NoSilentDiscard
<1>1. FlowInit /\ Serial => SerialInv
  BY SerialInit
<1>2. SerialInv /\ [FlowNext]_flowVars => SerialInv'
  BY SerialNext
<1>3. SerialInv /\ SerialInv' /\ [FlowNext]_flowVars
      => [(body' # body \/ gone' # gone) /\ body \notin kept \cup waived
           => body' # body /\ unsaved' /\ ~gone']_flowVars
  BY SerialDiscards DEF Safe
<1> QED BY <1>1, <1>2, <1>3, PTL DEF FlowSpec, NoSilentDiscard
=============================================================================
