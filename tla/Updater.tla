------------------------------ MODULE Updater ------------------------------
(***************************************************************************)
(* The updater: UpdaterService and UpdaterState of the backend             *)
(* (updater/service.rs, service/apply.rs, model.rs), its commands and      *)
(* events, and the DesktopUpdaterController of every window that shows     *)
(* them (desktop-updater.ts).                                              *)
(*                                                                         *)
(* One operation runs at a time, a check or an apply.  The other commands, *)
(* the documents and the windows move on while it awaits the network, and  *)
(* also between its looking at the documents and what it does about them.  *)
(*  A command that is refused changes nothing and is no   *)
(* step.  Events reach a window in order; the answer to a call travels     *)
(* apart from them and can be overtaken by them or overtake them.          *)
(***************************************************************************)
EXTENDS Integers, FiniteSets, Sequences

CONSTANTS
  Windows,
  Elsewhere,    \* a window whose view is not followed: it calls and is not shown here
  Versions,     \* releases newer than the running program
  NoVersion,    \* no available_version, no pending package
  Startup,      \* the check that setup starts on its own
  MaxOps,       \* bound: operation ids given out
  MaxBytes,     \* bound: bytes of a download
  MaxEvents     \* bound: events a window lets wait

ASSUME UpdaterAssumption ==
  /\ NoVersion \notin Versions /\ Startup \notin Windows /\ Elsewhere \notin Windows
  /\ MaxOps \in Nat /\ MaxBytes \in Nat /\ MaxEvents \in Nat \ {0}

VARIABLES
  kind,         \* the installation: AppImage, a Windows installer, or not updatable
  state,        \* UpdaterState.snapshot
  pending,      \* ServiceInner.pending: the package that apply will take
  task,         \* the operation that holds ServiceInner.busy
  unsaved,      \* has_dirty_sessions: "none", or some document is not saved, since "before"
                \* or "after" a download that was there found every document saved
  ended,        \* the process has ended: "no", or by "restart" or "installer"
  ui,           \* DesktopUpdaterController.snapshot of each window
  link,         \* how far each window's connect came: "none", "listening", "asked"
  events,       \* events on their way to each window
  replies,      \* answers on their way to each window
  announced     \* announceStartupUpdate: how often each window announced each operation

serviceVars == <<kind, state, pending, task>>
uiVars == <<ui, link, announced>>
vars == <<serviceVars, unsaved, ended, uiVars, events, replies>>

-----------------------------------------------------------------------------
Statuses == {"idle", "checking", "available", "downloading", "installing",
             "restartRequired", "error"}
Running == {"checking", "downloading", "installing"}
Snapshot == [status : Statuses, op : 0 .. MaxOps, trigger : {"startup", "manual"},
             version : Versions \cup {NoVersion}, bytes : 0 .. MaxBytes, blocked : BOOLEAN]
Fresh == [status |-> "idle", op |-> 0, trigger |-> "startup", version |-> NoVersion,
          bytes |-> 0, blocked |-> FALSE]
NoSnapshot == [Fresh EXCEPT !.status = "none"]

\* by: who waits for the operation's result.  got: the bytes that on_chunk counted.
Callers == Windows \cup {Elsewhere, Startup}
Operation(at, by, package) == [at |-> at, by |-> by, package |-> package, got |-> 0]
NoTask == Operation("none", Startup, NoVersion)
Steps == {"none", "check", "asked", "download", "ready", "install"}
Task == [at : Steps, by : Callers,
         package : Versions \cup {NoVersion}, got : 0 .. MaxBytes]

Init ==
  /\ kind \in {"appImage", "windows", "manual"}
  /\ state = Fresh /\ pending = NoVersion /\ task = NoTask
  /\ unsaved \in {"none", "before"} /\ ended = "no"
  /\ ui = [w \in Windows |-> NoSnapshot] /\ link = [w \in Windows |-> "none"]
  /\ events = [w \in Windows |-> <<>>] /\ replies = [w \in Windows |-> {}]
  /\ announced = [w \in Windows |-> [o \in 1 .. MaxOps |-> 0]]

-----------------------------------------------------------------------------
(* Publishing                                                              *)

Listening == {w \in Windows : link[w] # "none"}

Publish(s) ==
  /\ \A w \in Listening : Len(events[w]) < MaxEvents
  /\ state' = s
  /\ events' = [w \in Windows |-> IF w \in Listening THEN Append(events[w], s) ELSE events[w]]

Reply(by, s) ==
  replies' = IF by \in Windows THEN [replies EXCEPT ![by] = @ \cup {s}] ELSE replies

\* A step of an operation that goes on, and its last step
Continues(s, t) ==
  /\ Publish(s) /\ task' = t
  /\ UNCHANGED <<kind, unsaved, ended, uiVars, replies>>
Finishes(s) ==
  /\ Publish(s) /\ Reply(task.by, s) /\ task' = NoTask
  /\ UNCHANGED <<kind, unsaved, ended, uiVars>>

Failed == [state EXCEPT !.status = "error", !.bytes = 0]
Blocked == [state EXCEPT !.status = "available", !.blocked = TRUE, !.bytes = 0]

-----------------------------------------------------------------------------
(* Checking for an update                                                  *)

\* acquire: compare_exchange of busy
Acquired == ended = "no" /\ task.at = "none" /\ kind # "manual"

\* begin_check: what is known of an earlier operation is forgotten.
Checking(by) ==
  [status |-> "checking", op |-> state.op + 1, version |-> NoVersion, bytes |-> 0,
   trigger |-> IF by = Startup THEN "startup" ELSE "manual", blocked |-> FALSE]

\* A pending package is thrown away before the check starts.
Check(by) ==
  /\ Acquired
  /\ state.status \notin Running \cup {"restartRequired"} /\ state.op < MaxOps
  /\ by = Startup => state.op = 0
  /\ pending' = NoVersion
  /\ Continues(Checking(by), Operation("check", by, NoVersion))

\* An installation that cannot be updated only answers what it is.
CheckManual(by) ==
  /\ ended = "no" /\ kind = "manual"
  /\ Publish(state) /\ Reply(by, state)
  /\ UNCHANGED <<kind, pending, task, unsaved, ended, uiVars>>

NoUpdate ==
  /\ ended = "no" /\ task.at = "check"
  /\ Finishes([state EXCEPT !.status = "idle"])
  /\ UNCHANGED pending

Found(v) ==
  /\ ended = "no" /\ task.at = "check"
  /\ Finishes([state EXCEPT !.status = "available", !.version = v])
  /\ pending' = v

\* (mutant) a failed check starts over
CheckFailsRetries ==
  /\ ended = "no" /\ task.at = "check"
  /\ Continues(state, task)
  /\ UNCHANGED pending

\* The network, the manifest or its metadata fails.
CheckFails ==
  /\ ended = "no" /\ task.at = "check"
  /\ Finishes(Failed)
  /\ pending' = NoVersion

-----------------------------------------------------------------------------
(* Applying it                                                             *)

ApplyBlocked(by) ==
  /\ Acquired /\ unsaved # "none" /\ state.status = "available"
  /\ Publish(Blocked) /\ Reply(by, Blocked)
  /\ UNCHANGED <<kind, pending, task, unsaved, ended, uiVars>>

\* Every document is saved.
Apply(by) ==
  /\ Acquired /\ unsaved = "none" /\ pending # NoVersion /\ state.status = "available"
  /\ task' = Operation("asked", by, NoVersion)
  /\ UNCHANGED <<kind, state, pending, unsaved, ended, uiVars, events, replies>>

\* begin_download
BeginDownload ==
  /\ ended = "no" /\ task.at = "asked"
  /\ pending' = NoVersion
  /\ Continues([state EXCEPT !.status = "downloading", !.blocked = FALSE, !.bytes = 0],
               Operation("download", task.by, pending))

\* on_chunk: a count above the announced total is not shown.
Chunk(total) ==
  /\ ended = "no" /\ task.at = "download" /\ task.got < MaxBytes
  /\ task' = [task EXCEPT !.got = @ + 1]
  /\ IF total = 0 \/ task.got + 1 <= total THEN Publish([state EXCEPT !.bytes = task.got + 1])
                                          ELSE UNCHANGED <<state, events>>
  /\ UNCHANGED <<kind, pending, unsaved, ended, uiVars, replies>>

\* (mutant) the package is lost when a document turned out unsaved
RefusedForgets ==
  /\ ended = "no" /\ task.at = "download" /\ unsaved # "none"
  /\ pending' = NoVersion
  /\ Finishes(Blocked)

\* Documents are looked at again when the download is there.
Refused ==
  /\ ended = "no" /\ task.at = "download" /\ unsaved # "none"
  /\ pending' = task.package
  /\ Finishes(Blocked)

\* (mutant) documents are looked at only before the download
ReadyUnasked ==
  /\ ended = "no" /\ task.at = "download"
  /\ task' = [task EXCEPT !.at = "ready"]
  /\ UNCHANGED <<kind, state, pending, unsaved, ended, uiVars, events, replies>>

\* Every document is still, or again, saved.
AskAgain ==
  /\ ended = "no" /\ task.at = "download" /\ unsaved = "none"
  /\ task' = [task EXCEPT !.at = "ready"]
  /\ UNCHANGED <<kind, state, pending, unsaved, ended, uiVars, events, replies>>

\* begin_install: nothing is asked any more.
Install ==
  /\ ended = "no" /\ task.at = "ready"
  /\ Continues([state EXCEPT !.status = "installing"], [task EXCEPT !.at = "install"])
  /\ UNCHANGED pending

\* The download or the installation fails: the package is dropped.
ApplyFails ==
  /\ ended = "no" /\ task.at \in {"download", "install"}
  /\ Finishes(Failed)
  /\ pending' = NoVersion

\* An AppImage was replaced; a Windows installer ends the process instead.
Installed ==
  /\ ended = "no" /\ task.at = "install" /\ kind = "appImage"
  /\ Finishes([state EXCEPT !.status = "restartRequired"])
  /\ UNCHANGED pending
InstallerTakesOver ==
  /\ ended = "no" /\ task.at = "install" /\ kind = "windows"
  /\ ended' = "installer"
  /\ UNCHANGED <<serviceVars, unsaved, uiVars, events, replies>>

Restart ==
  /\ Acquired /\ state.status = "restartRequired"
  /\ ended' = "restart"
  /\ UNCHANGED <<serviceVars, unsaved, uiVars, events, replies>>

\* Documents are edited, saved and closed, also after the last question.
Asked == task.at \in {"ready", "install"} \/ state.status = "restartRequired"
Documents ==
  /\ ended = "no"
  /\ unsaved' = IF unsaved # "none" THEN "none" ELSE IF Asked THEN "after" ELSE "before"
  /\ UNCHANGED <<serviceVars, ended, uiVars, events, replies>>
-----------------------------------------------------------------------------
(* The windows                                                             *)

\* connect: listen, and then ask for the state
Listen(w) ==
  /\ ended = "no" /\ link[w] = "none"
  /\ link' = [link EXCEPT ![w] = "listening"]
  /\ UNCHANGED <<serviceVars, unsaved, ended, ui, announced, events, replies>>
GetState(w) ==
  /\ ended = "no" /\ link[w] = "listening"
  /\ link' = [link EXCEPT ![w] = "asked"]
  /\ Reply(w, state)
  /\ UNCHANGED <<serviceVars, unsaved, ended, ui, announced, events>>

\* isStaleSnapshot
Stale(shown, next) ==
  /\ shown # NoSnapshot
  /\ \/ next.op < shown.op
     \/ /\ next.op = shown.op
        /\ shown.status = "downloading" /\ next.status = "downloading"
        /\ next.bytes < shown.bytes

\* announceStartupUpdate
IsNews(w, s) ==
  s.status = "available" /\ s.trigger = "startup" /\ announced[w][s.op] = 0

Accept(w, s) ==
  IF Stale(ui[w], s) THEN UNCHANGED <<ui, announced>>
  ELSE /\ ui' = [ui EXCEPT ![w] = s]
       /\ announced' = IF IsNews(w, s) THEN [announced EXCEPT ![w][s.op] = @ + 1]
                                           ELSE announced

Event(w) ==
  /\ ended = "no" /\ events[w] # <<>>
  /\ Accept(w, Head(events[w]))
  /\ events' = [events EXCEPT ![w] = Tail(@)]
  /\ UNCHANGED <<serviceVars, unsaved, ended, link, replies>>
Answer(w) ==
  /\ ended = "no"
  /\ \E s \in replies[w] :
       /\ Accept(w, s)
       /\ replies' = [replies EXCEPT ![w] = @ \ {s}]
  /\ UNCHANGED <<serviceVars, unsaved, ended, link, events>>

-----------------------------------------------------------------------------
CheckEnds == NoUpdate \/ (\E v \in Versions : Found(v)) \/ CheckFails
DownloadEnds == Refused \/ AskAgain \/ ApplyFails
InstallEnds == Installed \/ InstallerTakesOver
Ends == CheckEnds \/ BeginDownload \/ DownloadEnds \/ Install \/ InstallEnds

\* A window calls only when it has connected.
Calls(w) ==
  /\ w \in Windows => link[w] = "asked"
  /\ Check(w) \/ CheckManual(w) \/ ApplyBlocked(w) \/ Apply(w)

Next ==
  \/ Check(Startup)
  \/ \E w \in Windows \cup {Elsewhere} : Calls(w)
  \/ \E w \in Windows : Listen(w) \/ GetState(w) \/ Event(w) \/ Answer(w)
  \/ \E total \in 0 .. MaxBytes : Chunk(total)
  \/ Ends \/ Restart \/ Documents

Spec == Init /\ [][Next]_vars

\* The network answers or times out (UPDATER_REQUEST_TIMEOUT) and installers return;
\* windows handle their events.
Fairness == WF_vars(Ends) /\ \A w \in Windows : WF_vars(Event(w))
FairSpec == Spec /\ Fairness

-----------------------------------------------------------------------------
(* Properties                                                              *)

\* The snapshot, the operation and what the windows know are well typed.
TypeOK ==
  /\ state \in Snapshot /\ pending \in Versions \cup {NoVersion} /\ task \in Task
  /\ ui \in [Windows -> Snapshot \cup {NoSnapshot}]
  /\ \A w \in Windows : replies[w] \subseteq Snapshot /\ events[w] \in Seq(Snapshot)
  /\ task.at = "none" => state.status \notin Running
  /\ task.at = "asked" => state.status = "available"
  /\ task.at \notin {"none", "asked"} => state.status \in Running

\* An update is offered exactly while there is a package to apply, and the package is
\* of the version that is offered: no refusal, failure or new check leaves an offer that
\* cannot be taken or installs another release.
PendingFits ==
  /\ task.at \in {"none", "check", "asked"} => (pending # NoVersion <=> state.status = "available")
  /\ pending # NoVersion => pending = state.version
  /\ task.at \in {"download", "ready", "install"} => task.package = state.version

\* UPDATER.md has neither installation, exit nor restart happen over unsaved documents.
\* The code holds less: they happen over no document that was already unsaved when the
\* downloaded package was there and documents were looked at again.  One that becomes
\* unsaved later, until begin_install, during the installation or before a restart, is
\* overrun.
OverrunsOnlyLateEdits ==
  task.at = "install" \/ ended # "no" => unsaved # "before"

\* A window that has nothing on its way knows the latest operation: none is missed
\* between listening and asking.
UiKnowsOperation ==
  \A w \in Windows :
    link[w] = "asked" /\ events[w] = <<>> /\ replies[w] = {} => ui[w].op = state.op

\* A window announces the update that the start-up check found at most once.
AnnouncedOnce ==
  \A w \in Windows, o \in 1 .. MaxOps : announced[w][o] <= 1

\* Every check and every apply ends: the updater is not busy for ever.
OperationsEnd == task.at # "none" ~> task.at = "none" \/ ended # "no"

\* An offer has its package, a window that has heard all knows the operation, and a start-up
\* check is announced once, whoever else checks and applies.
UpdaterSound == TypeOK /\ PendingFits /\ UiKnowsOperation /\ AnnouncedOnce
=============================================================================
