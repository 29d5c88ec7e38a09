--------------------------- MODULE DocumentFlow ---------------------------
(***************************************************************************)
(* One editor window and the native document sessions behind it:           *)
(* DesktopHost, DesktopSession, DesktopPersistence and DocumentDirtyState  *)
(* of apps/studio-host/src/core, on top of DocumentSessions.               *)
(*                                                                         *)
(* open, new, save and close are async functions.  A running one is a task *)
(* that stops at every await; between two awaits it runs undisturbed, so   *)
(* one action takes a task from an await to the next one.  Native calls    *)
(* travel over the window's IPC channel, wire, in the order they are sent, *)
(* and the backend answers them one at a time.                             *)
(*                                                                         *)
(* The editor (the rhwp submodule) is external: it loads a body after      *)
(* asking the replacement guard, blanks itself on create-new-document,     *)
(* and forgets its dirty flag when it is told of a save.                   *)
(***************************************************************************)
EXTENDS DocumentSessions, Sequences

CONSTANTS
  Tasks,        \* the async functions that may be running
  Nobody,       \* the sender of a message that is not awaited
  Overlap,      \* the pairs of commands {g, h} of which one may start before the other ends
  Modal         \* the commands during which the user does not type

ASSUME DocumentFlowAssumption ==
  /\ IsFiniteSet(Docs) /\ Nobody \notin Tasks
  /\ Overlap \subseteq SUBSET {"open", "new", "save", "close"}
  /\ Modal \subseteq {"open", "new", "save", "close"}

VARIABLES
  sess,         \* DesktopSession.activeSession
  pending,      \* DesktopHost.pendingNewDocument
  body,         \* what the editor shows, 0 before the first document
  shows,        \* history: the session the editor was given that content for
  unsaved,      \* the upstream dirty flag
  blanks,       \* create-new-document events the editor has not handled yet
  op,           \* the running tasks
  wire,         \* native calls that were sent and are not handled yet
  gone,         \* the window was destroyed
  kept,         \* history: bodies that were loaded, blank, or saved as their own document
  waived        \* history: bodies the user chose not to save

editorVars == <<body, shows, unsaved, blanks>>
ghostVars == <<kept, waived>>
flowVars == <<vars, sess, pending, editorVars, op, wire, gone, ghostVars>>

-----------------------------------------------------------------------------
NoSession == [doc |-> NoDoc, path |-> NoPath, rev |-> 0, dirty |-> FALSE]
SessionOf(d, p, rev) == [doc |-> d, path |-> p, rev |-> rev, dirty |-> FALSE]
WindowSession == [doc : Docs \cup {NoDoc}, path : Paths \cup {NoPath}, rev : Revision,
                  dirty : BOOLEAN]

Goals == {"open", "new", "save", "close"}

\* The awaits of a native call, and the other ones
Calls == {"check", "commit", "abort", "track", "create", "closePrevious", "drop",
          "closeLast", "destroy"}
Awaits == Calls \cup {"idle", "choose", "ask", "export", "native", "reply", "notify",
                      "read", "guard", "confirm", "load", "commitOpen", "record", "created"}

\* The locals of an async function: the document, path, bytes and fingerprint of an
\* open, the session a save captured (with the path it chose), the bytes it exported and
\* whose content they are, the user's consent, and a document to close on the way.
NoTask == [at |-> "idle", goal |-> "save", doc |-> NoDoc, path |-> NoPath, bytes |-> 0,
           print |-> NoPrint, save |-> NoSession, out |-> 0, owner |-> NoDoc,
           allow |-> FALSE, old |-> NoDoc]
Task == [at : Awaits, goal : Goals, doc : Docs \cup {NoDoc}, path : Paths \cup {NoPath},
         bytes : Clock, print : Fingerprint, save : WindowSession, out : Clock,
         owner : Docs \cup {NoDoc}, allow : BOOLEAN, old : Docs \cup {NoDoc}]

CallOf(t) == [name |-> "call", task |-> t, doc |-> NoDoc]
MessageOf(name, d) == [name |-> name, task |-> Nobody, doc |-> d]

Running == {t \in Tasks : op[t].at # "idle"}
Quiet == Running = {} /\ wire = <<>> /\ blanks = 0

FlowInit ==
  /\ Init
  /\ sess = NoSession /\ pending = NoDoc
  /\ body = 0 /\ shows = NoDoc /\ unsaved = FALSE /\ blanks = 0
  /\ op = [t \in Tasks |-> NoTask]
  /\ wire = <<>> /\ gone = FALSE
  /\ kept = {0} /\ waived = {}

-----------------------------------------------------------------------------
(* Moving a task from await to await                                       *)

\* A task stops at an await; a native call it awaits is sent.
Sent(w, t, o) == IF o.at \in Calls THEN Append(w, CallOf(t)) ELSE w
GoTo(t, o)     == op' = [op EXCEPT ![t] = o] /\ wire' = Sent(wire, t, o)
Answered(t, o) == op' = [op EXCEPT ![t] = o] /\ wire' = Sent(Tail(wire), t, o)

\* The native side takes the call of this task off the channel.
Served(t, call) ==
  /\ Unlocked /\ wire # <<>>
  /\ Head(wire) = CallOf(t) /\ op[t].at = call

\* What follows abortPendingNewDocument: a close releases the session at once.
Onward(o) ==
  CASE o.goal = "new"   -> [o EXCEPT !.at = "create"]
    [] o.goal = "close" -> IF sess = NoSession THEN [o EXCEPT !.at = "destroy"]
                           ELSE [o EXCEPT !.at = "closeLast", !.old = sess.doc]
    [] OTHER            -> [o EXCEPT !.at = "read"]
SessionOnward(o) == IF o.goal = "close" THEN NoSession ELSE sess

\* abortPendingNewDocument
AbortPending(t, o) ==
  /\ pending' = NoDoc
  /\ IF pending # NoDoc
     THEN GoTo(t, [o EXCEPT !.at = "abort", !.old = pending]) /\ UNCHANGED sess
     ELSE GoTo(t, Onward(o)) /\ sess' = SessionOnward(o)

\* confirmDocumentReplacement returns true
Proceed(t, o) ==
  IF o.goal = "open" THEN GoTo(t, [o EXCEPT !.at = "load"]) /\ UNCHANGED <<sess, pending>>
  ELSE AbortPending(t, o)

\* A command that fails or is cancelled ends; a refused load drops its native session.
GiveUp(o) == IF o.goal = "open" /\ o.doc # NoDoc THEN [o EXCEPT !.at = "drop"] ELSE NoTask

\* saveCurrent works on the session of the moment it starts in.
Capture(o, as) ==
  [o EXCEPT !.save = sess, !.allow = FALSE,
            !.at = IF as \/ sess.path = NoPath THEN "choose" ELSE "check"]

\* What the window is busy with; a new document keeps it busy until the editor is blank.
Busy == {op[t].goal : t \in Running} \cup (IF blanks > 0 THEN {"new"} ELSE {})

MayStart(t, goal) ==
  /\ ~gone /\ op[t].at = "idle"
  /\ \A g \in Busy : {g, goal} \in Overlap

\* (mutant) a new document does not ask
UnguardedNew(t, o) ==
  IF unsaved /\ o.goal # "new" THEN GoTo(t, [o EXCEPT !.at = "confirm"]) /\ UNCHANGED <<sess, pending>>
  ELSE Proceed(t, o)

\* confirmDocumentReplacement asks only when the editor has unsaved changes.
Guarded(t, o) ==
  IF unsaved THEN GoTo(t, [o EXCEPT !.at = "confirm"]) /\ UNCHANGED <<sess, pending>>
  ELSE Proceed(t, o)

\* The user cancels a dialog, or a step outside the backend throws.  Left out: a throw of
\* syncDesktopPasswordRequirement (desktop-host.ts:190), when the editor has loaded already.
Fails(t) ==
  /\ op[t].at \in {"choose", "ask", "export", "read", "confirm", "load"}
  /\ GoTo(t, GiveUp(op[t]))
  /\ UNCHANGED <<vars, sess, pending, editorVars, gone, ghostVars>>

-----------------------------------------------------------------------------
(* saveCurrent and saveSource                                              *)

StartSave(t, as) ==
  /\ MayStart(t, "save") /\ sess # NoSession
  /\ GoTo(t, Capture(NoTask, as))
  /\ UNCHANGED <<vars, sess, pending, editorVars, gone, ghostVars>>

\* The save dialog: the extension of the path tells the format.
ChoosePath(t, p) ==
  /\ op[t].at = "choose"
  /\ GoTo(t, [op[t] EXCEPT !.save.path = p, !.at = "check"])
  /\ UNCHANGED <<vars, sess, pending, editorVars, gone, ghostVars>>

\* check_external_modification
CheckExternal(t) ==
  LET s == op[t].save IN
  /\ Served(t, "check")
  /\ Answered(t, IF s.doc \notin live THEN GiveUp(op[t])
                 ELSE IF ExternallyModified(s.doc, s.path) THEN [op[t] EXCEPT !.at = "ask"]
                 ELSE [op[t] EXCEPT !.at = "export"])
  /\ UNCHANGED <<vars, sess, pending, editorVars, gone, ghostVars>>

\* The user lets the save overwrite what another program wrote.
AllowOverwrite(t) ==
  /\ op[t].at = "ask"
  /\ GoTo(t, [op[t] EXCEPT !.allow = TRUE, !.at = "export"])
  /\ UNCHANGED <<vars, sess, pending, editorVars, gone, ghostVars>>

\* exportDesktopSource: the editor's content of this moment.  The await of the staged write
\* (desktop-persistence.ts:70) is one with the await before the commit.
Export(t) ==
  /\ op[t].at = "export"
  /\ GoTo(t, [op[t] EXCEPT !.out = body, !.owner = shows, !.at = "commit"])
  /\ UNCHANGED <<vars, sess, pending, editorVars, gone, ghostVars>>

RequestOf(o) == [doc |-> o.save.doc, target |-> o.save.path, body |-> o.out,
                 fmt |-> FormatOf(o.save.path), exp |-> o.save.rev, allow |-> o.allow]

\* (mutant) a commit that checks neither revision nor source
CommitUnchecked(t) ==
  LET r == RequestOf(op[t]) IN
  /\ Served(t, "commit") /\ r.doc \in live /\ revision[r.doc] < MaxRevision
  /\ stage' = "write" /\ req' = r /\ from' = [path |-> srcPath[r.doc], clock |-> clock]
  /\ Answered(t, [op[t] EXCEPT !.at = "native"])
  /\ UNCHANGED <<disk, clock, sessionVars, known, spent, torn, sess, pending, editorVars,
                 gone, ghostVars>>

\* commit_staged_document_save takes the mutex, or refuses.
CommitCall(t) ==
  LET r == RequestOf(op[t]) IN
  /\ Served(t, "commit")
  /\ \/ CommitCheck(r, r.fmt) /\ Answered(t, [op[t] EXCEPT !.at = "native"])
     \/ ~CommitAllowed(r) /\ Answered(t, GiveUp(op[t])) /\ UNCHANGED vars
  /\ UNCHANGED <<sess, pending, editorVars, gone, ghostVars>>

CommitRename(t) ==
  /\ op[t].at = "native" /\ CommitWrite
  /\ kept' = IF op[t].owner = req.doc THEN kept \cup {req.body} ELSE kept
  /\ UNCHANGED <<sess, pending, editorVars, op, wire, gone, waived>>

CommitDone(t) ==
  /\ op[t].at = "native" /\ CommitRefresh
  /\ GoTo(t, [op[t] EXCEPT !.at = "reply", !.save.rev = revision'[req.doc]])
  /\ UNCHANGED <<sess, pending, editorVars, gone, ghostVars>>

CommitFailed(t) ==
  /\ op[t].at = "native" /\ (CommitWriteFails \/ CommitRefreshFails)
  /\ GoTo(t, GiveUp(op[t]))
  /\ UNCHANGED <<sess, pending, editorVars, gone, ghostVars>>

\* (mutant) commitSave without the comparison of documents
CommitAnySave(t) ==
  LET s == op[t].save IN
  /\ op[t].at = "reply"
  /\ GoTo(t, [op[t] EXCEPT !.at = "notify"]) /\ sess' = SessionOf(s.doc, s.path, s.rev)
  /\ UNCHANGED <<vars, pending, editorVars, gone, ghostVars>>

\* (mutant) commitSave that keeps the window's dirty flag
CommitSaveStaysDirty(t) ==
  LET s == op[t].save IN
  /\ op[t].at = "reply"
  /\ IF sess # NoSession /\ sess.doc # s.doc
     THEN GoTo(t, GiveUp(op[t])) /\ UNCHANGED sess
     ELSE /\ GoTo(t, [op[t] EXCEPT !.at = "notify"])
          /\ sess' = [SessionOf(s.doc, s.path, s.rev) EXCEPT !.dirty = sess.dirty]
  /\ UNCHANGED <<vars, pending, editorVars, gone, ghostVars>>

\* commitSave: the result of another document's save is refused.
CommitSave(t) ==
  LET s == op[t].save IN
  /\ op[t].at = "reply"
  /\ IF sess # NoSession /\ sess.doc # s.doc
     THEN GoTo(t, GiveUp(op[t])) /\ UNCHANGED sess
     ELSE GoTo(t, [op[t] EXCEPT !.at = "notify"]) /\ sess' = SessionOf(s.doc, s.path, s.rev)
  /\ UNCHANGED <<vars, pending, editorVars, gone, ghostVars>>

\* notifySaved: the editor takes its content for saved; a save asked for by the
\* replacement guard lets its command proceed.
NotifySaved(t) ==
  /\ op[t].at = "notify"
  /\ unsaved' = FALSE
  /\ IF op[t].goal = "save" THEN GoTo(t, NoTask) /\ UNCHANGED <<sess, pending>>
     ELSE Proceed(t, op[t])
  /\ UNCHANGED <<vars, body, shows, blanks, gone, ghostVars>>

-----------------------------------------------------------------------------
(* The replacement guard's question                                        *)

Discard(t) ==
  /\ op[t].at = "confirm"
  /\ waived' = waived \cup {body}
  /\ Proceed(t, op[t])
  /\ UNCHANGED <<vars, editorVars, gone, kept>>

SaveFirst(t) ==
  /\ op[t].at = "confirm"
  /\ GoTo(t, IF sess = NoSession THEN GiveUp(op[t]) ELSE Capture(op[t], FALSE))
  /\ UNCHANGED <<vars, sess, pending, editorVars, gone, ghostVars>>

-----------------------------------------------------------------------------
(* openDocument                                                            *)

\* A second open of a path that is being opened joins the first one.
StartOpen(t, p) ==
  /\ MayStart(t, "open")
  /\ \A u \in Running : ~(op[u].goal = "open" /\ op[u].path = p)
  /\ AbortPending(t, [NoTask EXCEPT !.goal = "open", !.path = p])
  /\ UNCHANGED <<vars, editorVars, gone, ghostVars>>

\* readStableDocumentFile; without a size or a time there is no fingerprint
Read(t, print) ==
  LET f == disk[op[t].path] IN
  /\ op[t].at = "read" /\ f # Absent
  /\ print \in {PrintOf(f), NoPrint}
  /\ GoTo(t, [op[t] EXCEPT !.bytes = f.body, !.print = print, !.at = "track"])
  /\ UNCHANGED <<vars, sess, pending, editorVars, gone, ghostVars>>

Track(t, d) ==
  /\ Served(t, "track")
  /\ OpenDocumentTracking(d, op[t].path, op[t].print)
  /\ Answered(t, [op[t] EXCEPT !.doc = d, !.at = "guard"])
  /\ UNCHANGED <<sess, pending, editorVars, gone, ghostVars>>

\* loadFile asks the guard first.
AskGuard(t) ==
  /\ op[t].at = "guard"
  /\ Guarded(t, op[t])
  /\ UNCHANGED <<vars, editorVars, gone, ghostVars>>

\* (mutant) the session that is replaced stays open
LeavePrevious(w) ==
  IF pending = NoDoc THEN wire' = w /\ UNCHANGED <<sess, pending>>
  ELSE sess' = SessionOf(pending, NoPath, 1) /\ pending' = NoDoc /\ wire' = w

\* completePendingDocumentInitialization: content the editor has just been given
\* belongs to the prepared document, if there is one.
CompletePending(w) ==
  IF pending = NoDoc THEN wire' = w /\ UNCHANGED <<sess, pending>>
  ELSE /\ sess' = SessionOf(pending, NoPath, 1)
       /\ pending' = NoDoc
       /\ wire' = IF sess = NoSession THEN w ELSE Append(w, MessageOf("close", sess.doc))

\* loadFile replaces the editor's content ...
Load(t) ==
  /\ op[t].at = "load"
  /\ body' = op[t].bytes /\ shows' = op[t].doc /\ unsaved' = FALSE
  /\ kept' = kept \cup {op[t].bytes}
  /\ op' = [op EXCEPT ![t].at = "commitOpen"]
  /\ CompletePending(wire)
  /\ UNCHANGED <<vars, blanks, gone, waived>>

\* ... and returns: commitOpen ...
CommitOpen(t) ==
  /\ op[t].at = "commitOpen"
  /\ sess' = SessionOf(op[t].doc, op[t].path, 1)
  /\ GoTo(t, [op[t] EXCEPT !.at = "record", !.old = sess.doc])
  /\ UNCHANGED <<vars, pending, editorVars, gone, ghostVars>>

\* ... the recent documents are updated, and the replaced session is closed.
Recorded(t) ==
  /\ op[t].at = "record"
  /\ GoTo(t, IF op[t].old = NoDoc THEN NoTask ELSE [op[t] EXCEPT !.at = "closePrevious"])
  /\ UNCHANGED <<vars, sess, pending, editorVars, gone, ghostVars>>

\* closeNativeDocument: a session that is not there is not an error
CloseNative(d) == IF d \in live THEN CloseDocument(d) ELSE UNCHANGED vars

ClosePrevious(t) ==
  /\ Served(t, "closePrevious")
  /\ CloseNative(op[t].old) /\ Answered(t, NoTask)
  /\ UNCHANGED <<sess, pending, editorVars, gone, ghostVars>>

\* (mutant) an open that fails keeps its session
KeepRefused(t) ==
  /\ Served(t, "drop")
  /\ Answered(t, NoTask)
  /\ UNCHANGED <<vars, sess, pending, editorVars, gone, ghostVars>>

Drop(t) ==
  /\ Served(t, "drop")
  /\ CloseNative(op[t].doc) /\ Answered(t, NoTask)
  /\ UNCHANGED <<sess, pending, editorVars, gone, ghostVars>>

\* The prepared document is closed and its command goes on.
Aborted(t) ==
  /\ Served(t, "abort")
  /\ CloseNative(op[t].old)
  /\ Answered(t, Onward(op[t])) /\ sess' = SessionOnward(op[t])
  /\ UNCHANGED <<pending, editorVars, gone, ghostVars>>

-----------------------------------------------------------------------------
(* beginNewDocument                                                        *)

StartNew(t) ==
  /\ MayStart(t, "new")
  /\ Guarded(t, [NoTask EXCEPT !.goal = "new"])
  /\ UNCHANGED <<vars, editorVars, gone, ghostVars>>

Create(t, d) ==
  /\ Served(t, "create")
  /\ CreateDocument(d)
  /\ Answered(t, [op[t] EXCEPT !.doc = d, !.at = "created"])
  /\ UNCHANGED <<sess, pending, editorVars, gone, ghostVars>>

Created(t) ==
  /\ op[t].at = "created"
  /\ pending' = op[t].doc
  /\ blanks' = blanks + 1
  /\ GoTo(t, NoTask)
  /\ UNCHANGED <<vars, sess, body, shows, unsaved, gone, ghostVars>>

\* The editor handles create-new-document: it is blank from now on, which is the
\* content of the prepared document or else of one without a file.
Blank ==
  /\ blanks > 0 /\ ~gone
  /\ NewContent
  /\ body' = clock + 1 /\ unsaved' = FALSE
  /\ shows' = IF pending # NoDoc THEN pending
              ELSE IF sess.path = NoPath THEN sess.doc ELSE NoDoc
  /\ kept' = kept \cup {clock + 1}
  /\ blanks' = blanks - 1
  /\ CompletePending(wire)
  /\ UNCHANGED <<op, gone, waived>>

\* ... or it fails to, and keeps what it showed.
BlankFails ==
  /\ blanks > 0 /\ ~gone
  /\ blanks' = blanks - 1
  /\ UNCHANGED <<vars, sess, pending, body, shows, unsaved, op, wire, gone, ghostVars>>

-----------------------------------------------------------------------------
(* confirmWindowClose and destroyCurrentWindow                             *)

StartClose(t) ==
  /\ MayStart(t, "close")
  /\ Guarded(t, [NoTask EXCEPT !.goal = "close"])
  /\ UNCHANGED <<vars, editorVars, gone, ghostVars>>

CloseLast(t) ==
  /\ Served(t, "closeLast")
  /\ CloseNative(op[t].old)
  /\ Answered(t, [op[t] EXCEPT !.at = "destroy"])
  /\ UNCHANGED <<sess, pending, editorVars, gone, ghostVars>>

\* The window takes its tasks and the calls it still had to make with it.
Destroy(t) ==
  /\ Served(t, "destroy")
  /\ gone' = TRUE
  /\ op' = [u \in Tasks |-> NoTask] /\ wire' = <<>>
  /\ UNCHANGED <<vars, sess, pending, editorVars, ghostVars>>

-----------------------------------------------------------------------------
(* Editing, and the messages nobody waits for                              *)

\* markDirty: only the first change since the last save is reported.
Edit ==
  /\ ~gone /\ body # 0
  /\ Busy \cap Modal = {}
  /\ NewContent
  /\ body' = clock + 1 /\ unsaved' = TRUE
  /\ IF sess # NoSession /\ ~sess.dirty
     THEN /\ sess' = [sess EXCEPT !.dirty = TRUE]
          /\ wire' = Append(wire, MessageOf("dirty", sess.doc))
     ELSE UNCHANGED <<sess, wire>>
  /\ UNCHANGED <<pending, shows, blanks, op, gone, ghostVars>>

DeliverDirty ==
  /\ Unlocked /\ wire # <<>> /\ Head(wire).name = "dirty"
  /\ IF Head(wire).doc \in live THEN MarkDocumentDirty(Head(wire).doc) ELSE UNCHANGED vars
  /\ wire' = Tail(wire)
  /\ UNCHANGED <<sess, pending, editorVars, op, gone, ghostVars>>

DeliverClose ==
  /\ Unlocked /\ wire # <<>> /\ Head(wire).name = "close"
  /\ CloseNative(Head(wire).doc)
  /\ wire' = Tail(wire)
  /\ UNCHANGED <<sess, pending, editorVars, op, gone, ghostVars>>

OtherPrograms ==
  /\ (\E p \in Paths, keep \in BOOLEAN : ExternalWrite(p, keep)) \/ \E p \in Paths : ExternalDelete(p)
  /\ UNCHANGED <<sess, pending, editorVars, op, wire, gone, ghostVars>>

-----------------------------------------------------------------------------
SaveStep(t) ==
  \/ \E as \in BOOLEAN : StartSave(t, as)
  \/ \E p \in Paths : ChoosePath(t, p)
  \/ CheckExternal(t) \/ AllowOverwrite(t) \/ Export(t)
  \/ CommitCall(t) \/ CommitRename(t) \/ CommitDone(t) \/ CommitFailed(t)
  \/ CommitSave(t) \/ NotifySaved(t)

OpenStep(t) ==
  \/ \E p \in Paths : StartOpen(t, p)
  \/ \E print \in Fingerprint : Read(t, print)
  \/ \E d \in Docs : Track(t, d)
  \/ AskGuard(t) \/ Load(t) \/ CommitOpen(t) \/ Recorded(t) \/ ClosePrevious(t) \/ Drop(t)

OtherStep(t) ==
  \/ StartNew(t) \/ (\E d \in Docs : Create(t, d)) \/ Created(t)
  \/ StartClose(t) \/ CloseLast(t) \/ Destroy(t)
  \/ Aborted(t) \/ Discard(t) \/ SaveFirst(t) \/ Fails(t)

FlowNext ==
  \/ \E t \in Tasks : SaveStep(t) \/ OpenStep(t) \/ OtherStep(t)
  \/ Blank \/ BlankFails \/ Edit \/ DeliverDirty \/ DeliverClose \/ OtherPrograms

FlowSpec == FlowInit /\ [][FlowNext]_flowVars

-----------------------------------------------------------------------------
(* Properties                                                              *)

\* Every variable of the window keeps its type, and a native commit is running
\* exactly while some save waits for it.
FlowTypeOK ==
  /\ sess \in WindowSession
  /\ pending \in Docs \cup {NoDoc}
  /\ body \in Clock /\ shows \in Docs \cup {NoDoc} /\ unsaved \in BOOLEAN
  /\ blanks \in 0 .. Cardinality(Docs)
  /\ op \in [Tasks -> Task]
  /\ \A i \in DOMAIN wire :
       wire[i] \in [name : {"call", "dirty", "close"}, task : Tasks \cup {Nobody},
                    doc : Docs \cup {NoDoc}]
  /\ gone \in BOOLEAN
  /\ kept \subseteq Clock /\ waived \subseteq Clock
  /\ (stage # "free") = (\E t \in Tasks : op[t].at = "native")

\* The window and its commands are a client of the sessions: what the backend goes
\* through is a behaviour of DocumentSessions (commands.rs forwards every call as it is).
ImplementsSessions == Spec

\* The session a window works on is open in the backend, unless the window is on its
\* way out: no reply that comes late brings a closed session back.
SessionIsLive ==
  sess # NoSession =>
    sess.doc \in live \/ gone \/ \E t \in Tasks : op[t].at \in {"closeLast", "destroy"}

\* A document the window does not work on any more is not left behind dirty, where
\* it would keep the updater from ever installing.
NoDirtyOrphan ==
  Quiet /\ ~gone => \A d \in live : dirty[d] => d = sess.doc

\* Commands that do not overlap leave no session behind, failed and refused ones
\* included: what is open in the backend is the window's document, or the prepared one
\* of a new document that failed.
NoLeakedSession == Quiet /\ ~gone => live \subseteq {sess.doc, pending}

\* Once everything has settled, editor, window and backend agree on whether there is
\* something to save (document-dirty-state.ts mirrors the upstream flag).
DirtySynced ==
  Quiet /\ ~gone /\ sess # NoSession =>
    unsaved = sess.dirty /\ sess.dirty = dirty[sess.doc]

\* Content that was neither saved nor given up by the user leaves the editor only by
\* being edited further: no load, new document or close throws it away unasked.
NoSilentDiscard ==
  [][(body' # body \/ gone' # gone) /\ body \notin kept \cup waived
       => body' # body /\ unsaved' /\ ~gone']_flowVars

\* A save writes the content of the document it is for, never what a load or a new
\* document put into the editor meanwhile.
OwnBodySaved ==
  [][\A t \in Tasks : op[t].at = "commit" /\ op'[t].at = "native"
       => op[t].owner = op[t].save.doc]_flowVars

\* When everything has settled the editor shows the document the window would save.
EditorShowsSession == Quiet /\ ~gone => shows = sess.doc

\* The updater asks the backend for unsaved documents before it installs; UPDATER.md
\* promises that it never installs over unsaved work.  So whenever the backend knows of
\* none, and nobody is about to tell it, there is none.
UnsavedWorkIsKnown ==
  body \notin kept \cup waived /\ ~gone =>
    HasDirtySessions \/ \E i \in DOMAIN wire : wire[i].name = "dirty"

\* However commands overlap, the window never works on a closed session and leaves no dirty
\* one behind.
FlowSound == FlowTypeOK /\ SessionIsLive /\ NoDirtyOrphan

\* When everything has settled, the editor, the window and the backend agree: on the document,
\* on what is unsaved, and on the sessions that are open.
AllAgree == NoLeakedSession /\ DirtySynced /\ EditorShowsSession
=============================================================================
