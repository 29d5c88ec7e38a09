---------------------------- MODULE PendingOpen ----------------------------
(***************************************************************************)
(* Files on their way to a window (pending_open.rs, windows.rs, lib.rs,    *)
(* core/desktop-events.ts).  The files the program is started with wait in *)
(* a global queue; each file of a second start gets a window of its own    *)
(* and waits in that window's queue; a file dropped on a window is sent to *)
(* its page as an event.  A page asks for what waits once it listens, and  *)
(* again with every event, and opens the last file of what it then has:    *)
(* the model ends with the call of openDocumentByPath, whose failure       *)
(* (desktop-events.ts:189-196) is a message to the user.                   *)
(***************************************************************************)
EXTENDS Naturals, Sequences, FiniteSets, Functions

CONSTANTS Main, Others,  \* labels of windows: the first one, and fresh ones
          NoWindow,
          MaxFiles,      \* bound: files the user opens; numbered as they come
          MaxReloads     \* bound: pages that are loaded anew

ASSUME PendingOpenAssumption ==
  Main \notin Others /\ NoWindow \notin Others \cup {Main} /\ MaxFiles \in Nat /\ MaxReloads \in Nat

Labels == {Main} \cup Others
Files == 1..MaxFiles

VARIABLES globalQueue, windowQueue,  \* PendingOpenPaths
          launches,  \* threads that open windows: the files they still have, the window they make
          view,      \* each window and its page
          attached,  \* windows with a handler for their destruction
          events,    \* alhangeul-open-paths on its way to each page
          calls,     \* take_pending_open_paths of each page, in the order sent
          openings,  \* (history) files each window has handed to openDocumentByPath
          superseded,  \* (history) pairs of files: the first was not opened because the second was
          lost,      \* (history) files that were given to a page that was gone
          home,      \* (history) the window a file of a second start was meant for
          dropped,   \* (history) files that were dropped on a window
          arrived, reloads

queues == <<globalQueue, windowQueue>>
pages == <<events, calls, openings, superseded, lost>>
origin == <<home, dropped, arrived>>
pendingOpen == <<queues, launches, view, attached, pages, origin, reloads>>

Open == {l \in Labels : view[l] \in {"loading", "listening", "ready"}}
Listens(l) == view[l] \in {"listening", "ready"}
CallWith(paths) == [payload |-> paths, answer |-> <<>>, handled |-> FALSE, dead |-> FALSE]
NewFiles(n) == [i \in 1..n |-> arrived + i]

\* setup: the event queue_open_paths sends finds no page that listens yet
InitPendingOpen ==
  /\ \E n \in 0..2 : n <= MaxFiles /\ arrived = n /\ globalQueue = [i \in 1..n |-> i]
  /\ windowQueue = [l \in Labels |-> <<>>]
  /\ launches = {}
  /\ view = [l \in Labels |-> IF l = Main THEN "loading" ELSE "unborn"]
  /\ attached = {Main}
  /\ events = [l \in Labels |-> <<>>] /\ calls = [l \in Labels |-> <<>>]
  /\ openings = [l \in Labels |-> <<>>] /\ superseded = {} /\ lost = {}
  /\ home = [f \in Files |-> NoWindow] /\ dropped = {} /\ reloads = 0

-----------------------------------------------------------------------------
(***************************************************************************)
(* Windows                                                                 *)
(***************************************************************************)
\* The single-instance callback hands the files to a thread.
SecondInstance ==
  /\ \E n \in 1..2 : /\ arrived + n <= MaxFiles /\ arrived' = arrived + n
                     /\ launches' = launches \cup {[paths |-> NewFiles(n), window |-> NoWindow]}
  /\ UNCHANGED <<queues, view, attached, pages, home, dropped, reloads>>
Makes(l, paths) == [paths |-> paths, window |-> l]
\* (mutant) The file is queued when the page of its window already asks.
QueueAfterwards(t) ==
  /\ t.window = NoWindow /\ t.paths # <<>>
  /\ \E l \in Others :
       /\ view[l] = "unborn" /\ view' = [view EXCEPT ![l] = "ready"]
       /\ windowQueue' = [windowQueue EXCEPT ![l] = <<Head(t.paths)>>]
       /\ home' = [home EXCEPT ![Head(t.paths)] = l]
       /\ launches' = (launches \ {t}) \cup {Makes(l, t.paths)}
  /\ UNCHANGED <<globalQueue, attached, pages, dropped, arrived, reloads>>
\* open_path_in_new_window: the next file is queued for a label that is new
QueueForWindow(t) ==
  /\ t.window = NoWindow /\ t.paths # <<>>
  /\ \E l \in Others :
       /\ view[l] = "unborn" /\ view' = [view EXCEPT ![l] = "creating"]
       /\ windowQueue' = [windowQueue EXCEPT ![l] = <<Head(t.paths)>>]
       /\ home' = [home EXCEPT ![Head(t.paths)] = l]
       /\ launches' = (launches \ {t}) \cup {Makes(l, t.paths)}
  /\ UNCHANGED <<globalQueue, attached, pages, dropped, arrived, reloads>>
\* create_editor_window, for a window without a file
NewWindow(l) ==
  /\ view[l] = "unborn" /\ view' = [view EXCEPT ![l] = "creating"]
  /\ launches' = launches \cup {Makes(l, <<>>)}
  /\ UNCHANGED <<queues, attached, pages, origin, reloads>>
\* The thread goes on with its next file, also after an error.
Continues(t) ==
  launches' = (launches \ {t}) \cup
              (IF Len(t.paths) <= 1 THEN {} ELSE {Makes(NoWindow, Tail(t.paths))})
\* discard_for_window
Discard(l) == windowQueue' = [windowQueue EXCEPT ![l] = <<>>]
BuildWindow(t) ==
  /\ t.window # NoWindow /\ view[t.window] = "creating"
  /\ \/ view' = [view EXCEPT ![t.window] = "loading"] /\ UNCHANGED <<launches, windowQueue>>
     \/ view' = [view EXCEPT ![t.window] = "closed"] /\ Continues(t) /\ Discard(t.window)
  /\ UNCHANGED <<globalQueue, attached, pages, origin, reloads>>
\* attach_document_drop_handler and attach_window_cleanup, when the window has been built
AttachHandlers(t) ==
  /\ t.window # NoWindow /\ view[t.window] # "creating"
  /\ attached' = IF t.window \in Open THEN attached \cup {t.window} ELSE attached
  /\ Continues(t)
  /\ UNCHANGED <<queues, view, pages, origin, reloads>>

\* The calls of a page that is gone: those that are handled have taken their files with them.
Paths(c) == c.payload \o c.answer
Unhandled(l) == {i \in DOMAIN calls[l] : ~calls[l][i].handled}
Abandon(l) ==
  /\ lost' = lost \cup (UNION {Range(Paths(calls[l][i])) : i \in DOMAIN calls[l]})
                  \cup (UNION {Range(events[l][i]) : i \in DOMAIN events[l]})
  /\ calls' = [calls EXCEPT ![l] = [i \in 1..Cardinality(Unhandled(l)) |->
                                      [CallWith(<<>>) EXCEPT !.dead = TRUE]]]
  /\ events' = [events EXCEPT ![l] = <<>>]
DestroyWindow(l) ==
  /\ l \in Open /\ view' = [view EXCEPT ![l] = "closed"]
  /\ IF l \in attached THEN Discard(l) ELSE UNCHANGED windowQueue
  /\ Abandon(l)
  /\ UNCHANGED <<globalQueue, launches, attached, openings, superseded, origin, reloads>>
ReloadPage(l) ==
  /\ l \in Open /\ view[l] # "loading" /\ reloads < MaxReloads /\ reloads' = reloads + 1
  /\ view' = [view EXCEPT ![l] = "loading"] /\ Abandon(l)
  /\ UNCHANGED <<queues, launches, attached, openings, superseded, origin>>

(***************************************************************************)
(* Pages                                                                   *)
(***************************************************************************)
\* A file is dropped; a page that does not listen yet does not hear of it.
DropFile(l) ==
  /\ l \in attached \cap Open /\ arrived < MaxFiles /\ arrived' = arrived + 1
  /\ dropped' = dropped \cup {arrived + 1}
  /\ IF Listens(l) THEN events' = [events EXCEPT ![l] = Append(@, NewFiles(1))] /\ UNCHANGED lost
                   ELSE lost' = lost \cup {arrived + 1} /\ UNCHANGED events
  /\ UNCHANGED <<queues, launches, view, attached, calls, openings, superseded, home, reloads>>
Listen(l) ==
  /\ view[l] = "loading" /\ view' = [view EXCEPT ![l] = "listening"]
  /\ UNCHANGED <<queues, launches, attached, pages, origin, reloads>>
\* setupDesktopEvents: what waits is asked for when every listener is registered
FirstTake(l) ==
  /\ view[l] = "listening" /\ view' = [view EXCEPT ![l] = "ready"]
  /\ calls' = [calls EXCEPT ![l] = Append(@, CallWith(<<>>))]
  /\ UNCHANGED <<queues, launches, attached, events, openings, superseded, lost, origin, reloads>>
ReceiveEvent(l) ==
  /\ events[l] # <<>> /\ events' = [events EXCEPT ![l] = Tail(@)]
  /\ calls' = [calls EXCEPT ![l] = Append(@, CallWith(Head(events[l])))]
  /\ UNCHANGED <<queues, launches, view, attached, openings, superseded, lost, origin, reloads>>

\* (mutant) The global queue is read and not drained.
TakeCopy(l) == IF windowQueue[l] # <<>> THEN Discard(l) /\ UNCHANGED globalQueue
               ELSE UNCHANGED queues
\* take_for_window: the window's own queue, or else the global one
Waiting(l) == IF windowQueue[l] # <<>> THEN windowQueue[l] ELSE globalQueue
Take(l) == IF windowQueue[l] # <<>> THEN Discard(l) /\ UNCHANGED globalQueue
           ELSE globalQueue' = <<>> /\ UNCHANGED windowQueue
\* Calls are handled in the order they were sent, and first those of a page that is gone.
HandleTake(l) ==
  /\ \/ /\ calls[l] # <<>> /\ Head(calls[l]).dead
        /\ calls' = [calls EXCEPT ![l] = Tail(@)] /\ lost' = lost \cup Range(Waiting(l))
     \/ \E i \in DOMAIN calls[l] :
          /\ ~calls[l][i].handled /\ ~calls[l][i].dead /\ \A j \in 1..i-1 : calls[l][j].handled
          /\ calls' = [calls EXCEPT ![l][i] = [@ EXCEPT !.handled = TRUE, !.answer = Waiting(l)]]
          /\ UNCHANGED lost
  /\ Take(l)
  /\ UNCHANGED <<launches, view, attached, events, openings, superseded, origin, reloads>>

\* findLatestSupportedDocumentPath of the event's files and those that waited
Latest(paths) == paths[Len(paths)]
OpenTaken(l) ==
  /\ calls[l] # <<>> /\ Head(calls[l]).handled
  /\ calls' = [calls EXCEPT ![l] = Tail(@)]
  /\ LET taken == Paths(Head(calls[l])) IN
     IF taken = <<>> THEN UNCHANGED <<openings, superseded>>
     ELSE /\ openings' = [openings EXCEPT ![l] = Append(@, Latest(taken))]
          /\ superseded' = superseded \cup {<<f, Latest(taken)>> : f \in Range(taken) \ {Latest(taken)}}
  /\ UNCHANGED <<queues, launches, view, attached, events, lost, origin, reloads>>

PageStep(l) == Listen(l) \/ FirstTake(l) \/ ReceiveEvent(l) \/ HandleTake(l) \/ OpenTaken(l)
LaunchStep == \E t \in launches : QueueForWindow(t) \/ BuildWindow(t) \/ AttachHandlers(t)
NextPendingOpen ==
  \/ SecondInstance \/ LaunchStep
  \/ \E l \in Others : NewWindow(l)
  \/ \E l \in Labels : PageStep(l) \/ DestroyWindow(l) \/ ReloadPage(l) \/ DropFile(l)

\* Threads and pages run; nobody has to start, close or reload anything.
PendingOpenSpec ==
  /\ InitPendingOpen /\ [][NextPendingOpen]_pendingOpen
  /\ WF_pendingOpen(LaunchStep) /\ \A l \in Labels : WF_pendingOpen(PageStep(l))

-----------------------------------------------------------------------------
CallType == [payload : Seq(Files), answer : Seq(Files), handled : BOOLEAN, dead : BOOLEAN]
PendingOpenTypeOK ==
  /\ globalQueue \in Seq(Files) /\ windowQueue \in [Labels -> Seq(Files)]
  /\ \A t \in launches : t.paths \in Seq(Files) /\ t.window \in Others \cup {NoWindow}
  /\ view \in [Labels -> {"unborn", "creating", "loading", "listening", "ready", "closed"}]
  /\ \A l \in attached : l \in Labels /\ view[l] \notin {"unborn", "creating"}
  /\ events \in [Labels -> Seq(Seq(Files))] /\ calls \in [Labels -> Seq(CallType)]
  /\ openings \in [Labels -> Seq(Files)] /\ superseded \subseteq Files \X Files /\ lost \subseteq Files
  /\ home \in [Files -> Labels \cup {NoWindow}] /\ dropped \subseteq 1..arrived
  /\ arrived \in 0..MaxFiles /\ reloads \in 0..MaxReloads

\* Where a file is: in a queue, with a thread, on its way to a page, or opened: handed to openDocumentByPath
In(f, s) == {i \in DOMAIN s : s[i] = f}
OfWindow(f, l) ==
  ({"queue"} \X {l} \X {0} \X In(f, windowQueue[l])) \cup
  ({"opened"} \X {l} \X {0} \X In(f, openings[l])) \cup
  (UNION {{"event"} \X {l} \X {i} \X In(f, events[l][i]) : i \in DOMAIN events[l]}) \cup
  (UNION {{"call"} \X {l} \X {i} \X In(f, Paths(calls[l][i])) : i \in DOMAIN calls[l]})
OfThread(f, t) == {"thread"} \X {t} \X {0} \X {i \in In(f, t.paths) : i > 1 \/ t.window = NoWindow}
PathPlaces(f) ==
  ({"global"} \X {NoWindow} \X {0} \X In(f, globalQueue)) \cup
  (UNION {OfWindow(f, l) : l \in Labels}) \cup (UNION {OfThread(f, t) : t \in launches})

\* No file is opened twice, or by two windows: it is in one place, and what gives it away
\* no longer has it.
OneHolder == \A f \in Files : Cardinality(PathPlaces(f)) <= 1

\* A file of a second start is opened by the window made for it and by no other.
OwnWindow ==
  \A f \in Files : home[f] # NoWindow =>
    \A p \in PathPlaces(f) : p[1] \in {"queue", "call", "opened"} /\ p[2] = home[f]

\* A queue belongs to a window that is there or being made.  (One that is destroyed between
\* its creation and attach_window_cleanup leaves its queue behind.)
NoQueueLeft ==
  \A l \in Labels : windowQueue[l] # <<>> =>
    l \in Open \/ view[l] = "creating" \/ (view[l] = "closed" /\ l \notin attached)

\* Of the files a page has at once the last is opened and the others are not; a file gives way
\* only to a later one.  The exception is a file that is dropped before the page has asked
\* for the first time: what waited for the page comes after it in the list.
GivesWayToLater ==
  \A r \in superseded : r[2] > r[1] \/ (r[1] \in dropped /\ r[2] \notin dropped)

\* The file of a second start is opened as soon as its window has come up, unless the window
\* is closed, its page is loaded anew, or a file dropped on it takes its place.
LaunchedIsOpened ==
  \A f \in Files :
    home[f] # NoWindow ~>
      \/ home[f] = NoWindow \/ view[home[f]] = "closed" \/ f \in lost
      \/ f \in Range(openings[home[f]]) \/ \E r \in superseded : r[1] = f

\* Every file is with one holder, in the right window, whose queue goes with it, and gives way
\* only to a later one.
FilesKept == OneHolder /\ OwnWindow /\ NoQueueLeft /\ GivesWayToLater
=============================================================================
