# Formal verification of Alhangeul (desktop)

Alhangeul is a Tauri desktop editor for HWP and HWPX documents. A Rust backend
(`apps/desktop/src-tauri`) owns files, document sessions, export jobs, the updater,
printing and diagnostics; a web frontend (`apps/studio-host`) adds a desktop adapter
to an embedded editor (the `rhwp` submodule, not part of this repository); a COM
thumbnail handler, a thumbnail worker and a Linux thumbnailer render previews for the
file manager. This directory holds TLA+ models of the parts where order, concurrency
and failure matter, TLC runs that check them on small instances, and TLAPS proofs.

Paths below are relative to `src/`; `state.rs` and other bare Rust names are files of
`apps/desktop/src-tauri/src`, bare TypeScript names files of `apps/studio-host/src`.

## The system's parts

| Part | State it keeps | Operations | Interacts with | Hard behaviour |
| --- | --- | --- | --- | --- |
| Native document sessions, `state.rs`, `commands.rs` | map of sessions (source path, format, fingerprint, dirty, revision, parsed core, page cache), active id, one mutex | create, open tracking, close, mark dirty, query, render, mutate, commit of a staged save | files other programs change; the frontend by IPC; the updater reads `dirty` | external modification, failure between rename and metadata read, stale revisions and caches |
| Document flow of a window, `core/desktop-host.ts`, `core/desktop-persistence.ts`, `core/desktop-session.ts`, `core/document-dirty-state.ts` | the one session of the window, the prepared new document, the editor's body and dirty flag | open, new, save, save as, close | native sessions by asynchronous IPC, dialogs, editor | async functions interleave; edits and other commands run at each `await` |
| Staged files and chunks, `core/chunked-fs.ts`, `commands.rs` 111-153 | one staging file per save | write, commit, remove | document flow, native commit | partial write, always removed |
| PDF export jobs, `pdf_jobs.rs`, `pdf_temp_cleanup.rs`, `pdf_export.rs`, `core/pdf-export-snapshot.ts` | up to four jobs with pages in a temporary directory, deadlines | begin, append page, commit, abort, discard of a window, reaper, orphan cleanup | windows, frontend snapshot loop | late or duplicate pages, timeouts that race answers, windows that vanish, jobs nobody ends |
| Updater, `updater/*`, `core/desktop-updater.ts` | status machine, pending update, busy flag; the UI's copy of the status | check, apply, prepare restart, progress events | native sessions (dirty check), installer | one operation at a time, unsaved work at install, stale and reordered events |
| Pending open paths, `pending_open.rs`, `windows.rs`, `lib.rs`, `core/desktop-events.ts` | a global queue, a queue per window | queue, take, discard | second instances, drag and drop, new windows | a path delivered twice, never, or to another window |
| Recent documents, `recent_documents.rs`, `recent/recent-store.ts` | list of ten paths in a file | record, list, remove | every window | read-modify-write without lock, torn file |
| Handler runtime, `embed/desktop-runtime.ts` | attached handlers, waiting operations | attach, run, detach | document flow, page lifecycle | callers that wait for a handler that leaves |
| Printing, `system_print.rs`, `command/direct-print.ts`, `command/print-ui-lifecycle.ts` | one print job, its settle flag, a watchdog | print, finish, time out | WebView | completion that races the watchdog |
| Thumbnail diagnostics, `thumbnail_diagnostics/*`, `core/desktop-thumbnail-diagnostics.ts` | one operation slot, owner window, cancel flag | start, cancel, finish, close owner | windows | cancellation keeps the slot until the operation finishes |
| Thumbnail handler, `apps/thumbnail-handler` | COM object and lock counts, worker process | initialise, get thumbnail, frame selection, unload | thumbnail worker over pipes | deadline, killed worker, unload while in use |
| Thumbnail worker, `apps/thumbnail-worker`; document preview, `crates/document-preview` | none that survives a request | render one preview as frames | handler, over pipes | a worker that hangs, dies or writes frames out of order |
| Windows registration of thumbnails, `apps/thumbnail-handler/src/registration` | registry keys of the class, two file extensions and their snapshots | install with rollback, uninstall | installers, other programs that set the same extensions | a call that fails or is cut half way, an extension taken in between |
| Linux thumbnailer, `apps/linux-thumbnailer` | supervisor and worker process, a temporary file | make one PNG | file manager, signals | a deadline or a signal while the worker creates its file, a replaced output path |
| Font preferences, `local_font_preferences.rs`, `core/local-font-*` | preference file with a revision | read, write, broadcast | every window | revisions arriving out of order |
| Windows and commands, `windows.rs`, `commands.rs`, `lib.rs` | window labels | create, destroy, single instance | all of the above | cleanup when a window is destroyed |
| Editor, `rhwp` submodule | the document the user edits | load, edit, export | document flow | not in the repository: external |
| Release tooling, `scripts`, `.github` | build artefacts | build, sign, verify | none at run time | not part of the program |

What crosses the parts: a window calls Tauri commands over its own IPC channel; commands
are synchronous functions unless they are named otherwise, so those of one window are
handled in the order they were sent, and each takes the mutex of the state it works on.
The backend emits events to windows; an event and the answer to a call are not ordered
against each other. A frontend function runs undisturbed between two `await`s; every other
function, event handler and key stroke can run at an `await`. Destroying a window drops
its pending paths, its PDF jobs and its diagnostics (`windows.rs` 88-102); reloading its
page drops the frontend's state and nothing else.

## What makes each part correct

| Part | Correct when |
| --- | --- |
| Native document sessions | no file another program changed before the commit looked at it is overwritten without consent; two saves from one revision do not both complete; a cached page belongs to the current core; a failed save leaves the session as it was |
| Document flow | every native session has an owner; a save writes the content of its own document; unsaved work is known to the backend and leaves only with the user's consent |
| PDF export | a PDF holds all pages of one generation, or the target is untouched; a job belongs to its window; every job and every export ends; the user is told what happened |
| Updater | one operation at a time, which ends; what is offered is what is installed; no installation over documents that were already unsaved when the package was there; a window that has heard all knows the last operation |
| Pending open paths | each path is opened once, by the window it was meant for |
| Recent documents | no entry is lost by two recordings; an entry leaves the list for a known reason only; an id means the document it was shown for |
| Handler runtime | each waiter is settled once, with the handlers of the runtime that is there |
| Printing | one print at a time, settled once; the flag is released whatever the dialog does |
| Thumbnail diagnostics | one operation; its slot is held until it has finished; its result goes to its owner and its request only |
| Thumbnail handler | initialised once; the module is unloaded only when nobody uses it; a request ends by its deadline |
| Windows registration | an extension that is ours has a whole snapshot of what was there; an uninstall that reports success has restored it; what other programs set is kept |
| Linux thumbnailer | no temporary file and no worker stays; a success is a whole picture; no file is written in place but the one that waits; a failure replaces none |
| Font preferences | windows converge on the highest revision; a failure brings back no older choice |

## Modules

Component modules, in the order in which they were written:

| Module | Models | Uses |
| --- | --- | --- |
| `DocumentSessions` | `DocumentSessionManager` (`state.rs`), its mutex, the files and other programs | |
| `DocumentFlow` | `DesktopHost`, `DesktopSession`, `DesktopPersistence`, `DocumentDirtyState`, the file commands of the menu, the IPC channel | extends `DocumentSessions` |
| `PdfJobs` | `PdfExportJobs`, its policy, the reaper, the export under the mutex | |
| `PdfExport` | `exportPdf`, the snapshot of the pages, deadlines, IPC, reloads and destroyed windows | extends `PdfJobs` |
| `PdfTempDirs` | what crashes leave of jobs and the cleaning of the next start (`pdf_temp_cleanup.rs`) | |
| `Updater` | `UpdaterService`, `UpdaterState`, `DesktopUpdaterController` | |
| `OperationSlot` | what a service with one slot promises: an abstract specification | |
| `Diagnostics` | the diagnostics of thumbnails: slot, windows, suite, child processes, scratch directory (`thumbnail_diagnostics/*`) | implements `OperationSlot` |
| `Registration` | install, rollback and uninstall of the handler in the registry (`registration/windows.rs`) | |
| `ThumbnailServer` | the COM server: factories, providers, counts, unloading (`lib.rs`, `class_factory.rs`, `provider.rs`) | |
| `ThumbnailWorker` | one thumbnail: process, job, pipes, two threads, frames, deadline (`process/*`), with the worker | |
| `LinuxThumbnailer` | supervisor and worker of Linux, the temporary file and the two ways of handing it over | |
| `PendingOpen` | files on their way to a window (`pending_open.rs`, `windows.rs`, `lib.rs`, `core/desktop-events.ts`) | |
| `RecentDocuments` | `recent_documents.rs` and `recent/recent-store.ts` | |
| `HandlerRuntime` | `embed/desktop-runtime.ts` | |
| `NativePrint` | the print of Linux (`system_print.rs`) | |
| `PrintFocus` | the wait for the print dialog of Windows (`command/print-ui-lifecycle.ts`) | |
| `FontPreferences` | `local_font_preferences.rs`, `local_font_commands.rs`, `core/local-font-preferences.ts` | |

`MCDocumentFlow`, `MCPdfExport`, `MCUpdater` and `MCDiagnostics` give a module what a `.cfg`
cannot write (symmetry sets, overlap relations, functions). `MCServices` and `MCPrograms`
put parts that share no state into one run each: the variable `part` is chosen at the start
and never changes, only that part moves, and the others keep their initial state. So every
behaviour of such a run is one of the named part's own specification, and each of its states
is explored once. `MCServices` holds the safety of what the backend keeps, `MCPrograms` what
must come to an end, with the fairness of each part.

| Proof module | Proves about |
| --- | --- |
| `DocumentSessionsProofs`, `DocumentFlowProofs` | the sessions, that the window implements them, who a document of the window belongs to, and what commands that are kept apart save, lose and agree on |
| `PdfJobsProofs` | the jobs, the pipelines of `PdfExport`, and that these implement the jobs |
| `UpdaterProofs` | the updater |
| `DiagnosticsProofs` | the diagnostics, that they implement `OperationSlot`, and the suite, its child and its directory |
| `RegistrationProofs` | the registration and `ThumbnailServer` |
| `WindowsProofs` | `FontPreferences`, `RecentDocuments`, `PendingOpen` |
| `ServicesProofs` | `HandlerRuntime`, `NativePrint`, `PrintFocus`, `PdfTempDirs`, `LinuxThumbnailer`, `ThumbnailWorker` |

A definition marked `(mutant)` is a plausible mistake in the code below it; no
specification uses it. It documents which property would notice the mistake. A property
that is called a sum (`SessionsSound`, `ServerSound`, ...) is a conjunction of named parts,
each with its own comment.

### DocumentSessions

A variable per field of `DocumentSession` (`srcPath`, `format`, `fingerprint`, `dirty`,
`revision`, `core`, `cache`), functions over all document ids; `live` and `active` are the
manager's map keys and `active_doc_id`. `disk` is what files hold. Bytes are a number, and
so is a file's length with its modification time (`meta`): a rewrite may keep the meta and
change the bytes, which is the case that hashing is for. The hash is taken as injective.

One action per command; the guard of an action is the conjunction of its early returns, and
a refused command is no step. `commit_staged_document_save` is the exception. Other
programs do not know the mutex, so its check (`CommitCheck`), its write and rename
(`CommitWrite`, `CommitWriteFails`) and its metadata read (`CommitRefresh`,
`CommitRefreshFails`) are separate steps, while `stage # "free"` keeps every other command
out. `from`, `known`, `spent` and `torn` are history variables that properties read.

### DocumentFlow

`op[t]` is a running async function: the `await` it stands at (`at`), its locals and where
it returns to. One action takes it from an `await` to the next. `wire` is the ordered IPC
channel; the fire-and-forget calls (`mark_document_dirty`, the close of a document that a
prepared one replaced) travel on it without a waiting task. The editor is external: it
loads content after asking the replacement guard, blanks itself on `create-new-document`,
tells of edits and forgets its dirty flag on `notifySaved`. `shows`, `kept` and `waived`
are history: whose content the editor holds, and which contents were saved or given up.

`Overlap` says which commands may run together, `Modal` during which the user does not
type. The code keeps neither apart (only a second open of a path joins the running one), so
runs with every overlap and a run with typing exist beside the narrow ones, and each property
is checked under the widest of them it holds for.

### PdfJobs, PdfExport and PdfTempDirs

`jobs` maps ids to jobs with pages, bytes, and the ticks since creation and since the last
page. `export` holds the job that is being rendered while the mutex is held, which keeps the
reaper and all other commands out (`Free`). Clients are arbitrary windows.

`PdfExport` is the client the code has: `pipe[w]` is the running `exportPdfToTarget`, `wire`
its calls. `Late` is the deadline of `runPdfStep`: the pipeline gives up, sends an abort if
it knows the job's id, and the call that was sent is still handled. `Reload` and `Destroy`
take the window away in mid-pipeline. `taken` and `written` remember what each snapshot
id was drawn of and which snapshots reached a target.

In `PdfTempDirs` a directory has a user (`user`: a job of this process or of another, an
orphan), an age, page files and perhaps foreign ones. The cleaning looks at entries one by
one (`unscanned`), takes those that `safe_orphan_page_files` finds safe and removes their pages
and then the directory (`remove_safe_orphan`) as separate steps (`removing`), between which
other programs put files and a crash may come.

### Updater

`state` is the published snapshot, `pending` the package that `apply` would install, `task` the
operation that holds the busy flag: an apply asks for unsaved documents, downloads, asks again and
then installs, each a step of its own (`ApplyBlocked` and `Apply`, `BeginDownload`, `Refused` and
`AskAgain`, `Install`), as `begin_download` and `begin_install` are apart from the questions in
the code. `unsaved` says whether `has_dirty_sessions` holds, and whether since before the last
question or only after it; documents change it at any time. `ui`, `link`, `events` and `replies`
are the windows: `listen` comes first, then `getState`; events are ordered among themselves,
answers are not. The installation kinds are an AppImage (replaced, then restarted by the user), a
Windows installer (ends the process) and one that cannot be updated.

### Diagnostics and OperationSlot

`entry` is the `Entry` of `DiagnosticService`, `view` the one that `UiService` shows to
windows; a window that is destroyed leaves `open` and cancels its request. `job` is the
blocking thread with the stage of the suite it is at, `child` the process of that stage with
its job object, pipes and exit, `scratch` the directory which the children of a request make,
fill and remove. Time is facts: a deadline has passed or not; the grace period is unset, open
or over. `token` and `ready` are the state of the registration which probes capture and
other programs change.

`OperationSlot` has three actions: begin, ask to stop, release with a terminal status. The
mapping is the `INSTANCE` in `Diagnostics`: the holder is the owner of the entry, held while
the entry is active.

### Registration

`assoc[e]` is the value of an extension, `backup[e]` the snapshot key with
its three values, `class` the CLSID key and its values. `at` and `ext` are the registry call
that comes next, so that every call is a step: it succeeds, fails (`faults`), or the process
ends before it. `OtherProgramTakes` sets an extension between any two calls.
`original` and `raced` are history: what an extension had before this handler, and which were
set between a read and the write that follows it.

### ThumbnailServer, ThumbnailWorker and LinuxThumbnailer

`ThumbnailServer`: each place in memory (`object`) holds a kind, a reference count, the bytes
and the mutex of a provider. A step is one atomic operation or one access to a stream; `call[t]` is
where a thread of the host stands, `query` the two reads of `DllCanUnloadNow` one after the
other. Hosts keep COM's rules: they call only objects they hold a reference to.

`ThumbnailWorker`: `stage` is the calling thread, `writer` and `reader` its two threads,
`worker` the process, `pipe` and `channel` the queues between them, `ends` the pipe ends
that the handler has open. The worker writes preview, page or failure, in its order, or
anything else if it has gone wrong (`strays`); it may hang or die anywhere. `candidate` is
`FrameSelector`, `expired` the deadline.

`LinuxThumbnailer`: `step` is the supervisor, `task` the worker, `temp` the temporary file,
`dest` which file is at the output path and `content` what each file holds. A file is its
device and inode, since that is what `OutputIdentity` compares. The file manager may have made an
empty file there; it and others remove it, put another file or a link there, also a new file with
the inode of the removed one unless `commit_precreated` has that open (`OutputReplaced`, `Held`),
and write into it (`OutputFilled`). Signals, the deadline and a kill come anywhere.

### PendingOpen

`globalQueue` and `windowQueue` are `PendingOpenPaths`; `launches` are the threads of
`open_paths_in_new_windows` with the files they still have to give and the window they make.
`view[l]` is the window with its page (unborn, loading, listening, ready, closed), `calls[l]` its
takes in the order sent, `events[l]` the events for its page. `openings`, `superseded` and `lost`
are history: what was handed to `openDocumentByPath` ("opened"; that it may fail is not modelled),
what gave way to which, what was given to a page that was gone. A page can be loaded anew and a
window destroyed at any step, also while its thread still makes it.

### RecentDocuments, HandlerRuntime, FontPreferences

`RecentDocuments`: the file as the program reads it (`store`; a torn one is empty, or, when it
was cut within a character, not `readable`), documents that exist, and the page's ids with the
generation they belong to. Commands run on the main thread and are atomic except for their
write, which fails or is cut.

`HandlerRuntime`: `owner[c]` is the set in which a waiting caller stands (of a registration, or
of none), `scheduled` the microtasks on their way.

`FontPreferences`: the file, the native snapshot with its revision, a copy per window with
`requests` and `news` on their way to it. A request is `fresh` while no other operation of
its window has begun or been accepted, which is the code's operation counter.

### NativePrint and PrintFocus

`NativePrint`: `stand` is the command, `operation` WebKit's object, and the four cells of
`PrintState` are variables of their own. Signals arrive before or after the dialog
has returned, or never; the watchdog then settles the print.

`PrintFocus`: events (`focusEvents`), first sample, watchdog sample (`samples`) and timeout
checks (`checks`) are on their way separately, each with the generation it was started in.

## Runs

| Run | Question | Instance | States |
| --- | --- | --- | --- |
| `services` | two sessions on one file that others rewrite, touch and delete; one session between two formats that is queried, rendered, mutated; recent documents, font preferences, handlers, registration, COM server | 2 documents, 2 paths, 1 page, 3 contents, 3 revisions; 3 documents for a list of 2, 2 lists, 1 mishap; 2 windows, 2 choices, 1 question, 1 trouble; 2 callers, 2 runtimes; 2 extensions, 1 other handler, 1 change, 2 faults; 2 threads, 2 objects, 1 lock | 1.6 million |
| `programs` | what must end: files for windows, both prints, directories after crashes, one rendering, one Linux thumbnail; and arbitrary clients of the PDF jobs | 2 windows, 2 files, 2 reloads; 2 turns of the focus, 2 failures; 3 directories of which 1 is removed per start, 2 incidents; 1 frame in the pipe, 2 in the channel, 1 stray; 2 replacements; 3 windows, 3 targets, 2 snapshots, 2 pages of 1 or 2 bytes, 2 bytes a job, limit of 2 jobs | 300 000 |
| `flow_commands` | commands one after the other, each step failing or refused | 3 documents, 1 command, 5 contents | 1.2 million |
| `flow_save_and_new` | saves and new documents overlap while the user types | 2 documents, 2 commands, 4 contents | 1.0 million |
| `flow_overlap` | any two commands overlap | 2 documents, 2 commands, 4 contents | 3.2 million |
| `pdf_pipelines` | two windows export while users edit, reload and close | 2 windows, 1 target, 2 snapshots, 2 jobs | 2.1 million |
| `pdf_implements` | the pipelines implement the jobs; everything ends | 1 window, 2 exports, fairness | 71 000 |
| `updater` | start-up check, a window and another caller | 2 operations, 2 releases, 2 bytes, 2 events, fairness | 2.0 million |
| `diagnostics` | the slot implements its abstraction, whatever windows, children and other programs do | 2 windows, 2 requests, 1 change, 1 file, fairness | 830 000 |
| `sessions_torn`, `flow_typing`, `pdf_late` | statements of the documentation that the code does not keep | as above | until found |

Why these bounds are enough to show something:

- Two documents, tasks, windows, callers, threads or registrations are what a race needs;
  `flow_commands` has three documents because an old, a prepared and an opened one can exist
  at once, and the jobs three windows because the limit of two must be reached by two others.
- `MaxContent` bounds contents that ever come into being. Three give a file its first
  bytes, a change by another program, and a save; the flow's four or five add edits and a
  blank. `MaxRevision` bounds commands that raise a revision: three let two saves start
  from one revision and a third from the next.
- `MaxPages`, bytes and ticks are two or three: enough for a missing, a double and a
  page out of order, for a job that is idle but young and one that is busy but old. Two
  snapshots let a page of the other one arrive, and two bytes with pages of one or two let a
  job reach its limit with its last page or before. So that this stays small, the jobs of
  `programs` are checked twice, as two initial values of `part`: three windows whose jobs have
  one page ("crowd"), and two windows whose jobs have up to two ("pages").
- Two turns of the focus are a window that loses the focus to the dialog and gets it back.
- Two operations, requests or choices let the second one meet everything the first left
  behind; two bytes let progress go back; two events let one wait behind another.
- The registration has two extensions because a failure at the second must undo the first;
  two faults let the rollback of a failed install fail as well, and let a torn install be
  followed by a torn uninstall.
- A list of two and three documents let one fall off; one mishap is a
  write that is cut. Three directories and one removal per start make a directory wait
  for a later start.
- One frame fills the output pipe, so that the worker blocks and its death is what frees the
  reader.

Every bound is in the guards of the modules, so a behaviour stops at it, and a command that
is done, a window that is closed or a program that has ended stops as well; this is why most runs
do not check for deadlock. The three PDF runs do.
Symmetry is used only where documents, windows, threads, targets or ids are interchangeable and no
liveness property is checked; in `services` the documents, windows and threads of different
parts are the same two model values, which one permutation exchanges.

### What the runs show

`services`. `SessionsSound` (`ActiveIsLive`, `BaselineAdopted`, `CacheFresh`,
`ExtensionsTellFormat`) say that the baseline of a session is of bytes it read or wrote, that
a page in the cache is of the current core and that formats fit extensions;
`OverwritesKnownOrLater` that a rename without consent replaces such bytes only, also when a file
keeps its length and time, or bytes that came after the commit had looked; `RevisionSpentOnce` that two
saves from one revision do not both complete. `ListIsTrue`: the list is what was recorded,
the latest first, and an id means the document it was shown for, however lists and removals
overlap; `LossIsExplained` names every way an entry can leave the list. `FontsAgree`: a
revision means one state everywhere, and windows that have heard all agree; `LastWishOnly`: a
failure brings back no older choice. `WaitersAreServed`: no caller waits in a set that
nobody resolves. `RegistrationSound` (`SnapshotKept`, `SnapshotWhole`, `RemovedMeansClean`,
`ErrorsAreExplained`) and `OthersKept`: the registration can be taken back at every instant,
whatever fails. `ServerSound` (`ReferencesTrue`, `CountsTrue`, `UnloadSparesTheLiving`,
`RendersItsBytes`): no object dies in use, and the module is not unloaded under one.

`programs`. `FilesKept` (`OneHolder`, `OwnWindow`, `NoQueueLeft`, `GivesWayToLater`): a file is
with one holder, in the window made for it, and gives way only to a later one; `LaunchedIsOpened`:
it is opened at last. `PrintEnds`, `WaitEnds`: both prints end. `OrphansGo`: a later start removes
what a crash has left. `NothingCutShort` is the other half of these three: a print keeps its
operation and a timeout until it is settled, and no timeout after (`StillAnswerable`,
`NoStrayTimeout`); the wait for a dialog ends only in a window that has the focus, as far as its
page can know (`ReturnsFocused`); and a cleaning empties no directory of a running job and removes
none with a file of others (`JobsKeepTheirs`, `ForeignStays`). `JobsSound` (`WithinCapacity`,
`OneJobEach`, `WholePdf`) and `ForeignSafe`: the jobs under arbitrary clients. `RenderingSound`
(`NothingLeft`, `PageIsShown`, `OneLateFrame`, `OnlySentIsShown`) and `CallReturns`: the host's
call ends without leaving a process, a thread or a handle, and with the best frame sent in time.
`ThumbnailerSound` (`NothingLeftOver`, `SuccessIsWhole`, `OnlyTheWaitingFile`) and
`SupervisorEnds`: for Linux that no temporary file and no worker stays, that a success has put a
whole picture where it was asked for, and that a file is written in place only if it has the
identity of the empty one that waited.

The flow runs. `FlowSound` (`SessionIsLive`, `NoDirtyOrphan`) holds under every overlap.
`AllAgree` (`NoLeakedSession`, `DirtySynced`, `EditorShowsSession`), `NoSilentDiscard` and
`UnsavedWorkIsKnown` hold for commands that do not overlap, with a user who does not type
during one; `OwnBodySaved` for overlapping saves and new documents with a user who types.
`ImplementsSessions` is the refinement.

The PDF runs. `ExportSound` (`OneGeneration`, `Truthful`, `KeepsItsJob`) holds whatever other
windows, edits, deadlines and reloads do; `NothingStays` (`ExportsEnd`, `JobsEnd`) says that
nothing stays behind; `ImplementsJobs` that a pipeline is one of the clients of `PdfJobs`.

`updater`: `UpdaterSound` (`PendingFits`, `UiKnowsOperation`, `AnnouncedOnce`): an offer has its
package, a window that has heard all knows the operation, the start-up update is announced once;
`OverrunsOnlyLateEdits`: an installation or a restart goes over no document that was unsaved
before the question that follows the download; `OperationsEnd`.

`diagnostics`: `DiagnosticsSound` (`HeldWhileWorking`, `PublishedTogether`, `OrphanIsCancelled`,
`ReleasedClean`, `CompletedReport`, `RequestsAccepted`): the slot is held while a thread or a
child works, windows read the slot, the request of a destroyed window is being stopped, a request
that did not fail leaves nothing, a report of success is of one registration. `UnknownKept`: a
directory with an unknown file is never removed. `ImplementsSlot`: the abstract slot, its liveness
included: a request ends, whatever its children do.

### Where code and documentation differ

- `sessions_torn`: `finish_document_save` assigns core, path and format before the metadata
  read that can still fail (`state.rs` 588-605). A commit that returns an error has then
  moved the session, against `mydocs/plans/task_m010_13_impl.md:150`.
- `flow_typing`: what the user types while a save is under way is not in the file, and yet
  `commitSave`, `notifySaved` and the native commit clear all three dirty flags. An update
  can then install over it, against `docs/architecture/UPDATER.md:74`. The same behaviour
  breaks `NoSilentDiscard` and `DirtySynced`, which is why they are checked with a user who
  does not type.
- `pdf_late`: a commit that was sent before the deadline replaces the target after the user
  was told of the timeout, against `docs/operations/DESKTOP_RELEASE.md:247`.

Seen while modelling; the properties are stated so that they hold beside it, and no run of its
own shows it:

- A commit compares the file with the session's baseline and renames over it later
  (`state.rs` 206 and 595). What another program writes between the two is overwritten unasked;
  `OverwritesKnownOrLater` names this case.
- `docs/architecture/LINUX_THUMBNAILS.md` has no partial final PNG (56) and keeps an existing
  final file on failure (76). `commit_precreated` empties the waiting file and writes into it: if
  `write_all` fails, or the process is killed there, the file is left empty or half written
  (`apps/linux-thumbnailer/src/output.rs` 112-113; `torn` in the model). It allows this only for
  an empty file (80), and that it is still empty is not looked at before the commit; nobody holds
  it open, so a new file can have its device and inode. What somebody wrote meanwhile is then
  written over in place. A link that comes between `validate_replace_target` and the rename is
  replaced.
- An export of more than 30 seconds holds the mutex and delays the reaper beyond the interval
  that `DESKTOP_RELEASE.md:248` states (`ReapedInTime` speaks of jobs while the reaper sleeps).
- `docs/architecture/UPDATER.md` 73-75 has no installation, exit or restart while a document is
  unsaved. `apply` asks (`updater/service/apply.rs` 22, 54) and takes the state later (34, 62);
  `updater_restart` asks no more (`updater/commands.rs` 123-132), nor does anything while a
  Windows installer runs. A document that becomes unsaved in these times is overrun, and
  `OverrunsOnlyLateEdits` says that no other is. An answer to `getState` that an event of the
  same operation overtakes leaves a window with the older state until the next event.
- A save whose export runs between the content change and the commit of an open writes the new
  content to the old path: `OwnBodySaved` and `EditorShowsSession` fail when opens overlap.
- An install that is cut between the values `Data` and `State` of a snapshot leaves a key without
  `State`; every later uninstall then reports an error (`ErrorsAreExplained` names this case).
- `DllCanUnloadNow` does not see a client that goes from a lock to an object between its two reads.
- A file dropped on a window before its page's first take is superseded by the file that waits;
  a window destroyed between `build` and `attach_window_cleanup` keeps its queue; a late take
  of a page that was loaded anew can drain the global queue, and the answer reaches nobody.
- A failed or cut write empties the list of recent documents, or leaves a file that is cut within
  a character: every list, recording and removal then fails until the list is cleared, although
  a malformed file is meant to read as empty (`recent_documents.rs` 101-106). A document that is missing
  when another is recorded is forgotten for good.
- A failed save of the font preference that an event of another window overtakes is not told to
  the user, and an event of equal revision during a second save can leave an older temporary
  choice. A window misses changes made before its listener is registered; the refresh that follows
  may join one that was answered before (`core/local-font-lifecycle.ts` 26-29), and the window is
  then behind until it gets the focus. `FontPreferences` has all windows listen from the start.
- The cleaning of temporary directories counts every entry of the directory towards its scan
  limit, so `OrphansGo` is about a directory with no more entries than that.

## Fairness

Fairness is assumed in `pdf_implements`, `updater`, `diagnostics` and `programs`, and only of what
code or system forces. Nothing is assumed of users, the network, worker and child processes,
or other programs.

- `PdfJobs`, `PdfExport`: time passes, and the reaper thread runs when the mutex is free
  (`TimePasses`, `Reaped`): it is a loop around `sleep`. A running export returns
  (`Exported`, `NotExported`): rendering is one synchronous call. `Late(w)`: the timer of
  `runPdfStep` fires. Answers of the backend are not assumed: exports end without them.
- `Updater`: `Ends`, since the plugin's requests have a timeout of 120 seconds
  (`updater/service/native.rs`) and installers are synchronous calls; windows handle events.
- `Diagnostics`: the blocking thread goes on (`Worker`: its waits poll), and the two deadlines
  pass (`RequestLate`, `GraceOver`).
- `PendingOpen`: a thread that makes windows goes on, and a page handles its events and the
  answers to its calls (`LaunchStep`, `PageStep`).
- `NativePrint`: an open dialog returns, a timeout of the main loop runs
  (`DialogReturns`, `WatchdogRuns`). `PrintFocus`: events arrive, the stability timeout and the
  watchdog run, and each question is answered or fails, whatever the others do (`FocusChanged`,
  `TimerRuns`, `WatchdogSamples`, `SampleAnswers`, `ChecksSample`, `ChecksReturn`); that the
  focus stays is the premise of `WaitEnds`.
- `PdfTempDirs`: the program is started again and ends, its cleaning goes on, directories grow
  old and running jobs end.
- `ThumbnailWorker`: the calling thread goes on, a write into a broken pipe fails, the reader
  reads what is there, the deadline passes. `LinuxThumbnailer`: the supervisor goes on and
  its deadline passes.

## Proofs

TLAPS checks every theorem below for all values of the constants that satisfy the modules'
assumptions. These say that sentinels are distinct from values, that bounds are numbers, and,
where a count is the size of a set (`ThumbnailServer`) or a document must be drawn
(`DocumentFlow`), that the set is finite. Every safety property of a component that a run
checks is a theorem, except those listed under "Model-checked only". A theorem about a sum
(`SessionsCorrect`, `FontsAreAgreed`, `RegistrationCorrect`, `PdfJobsCorrect`,
`UpdaterCorrect`, and those that end in `AlwaysSound`) puts the facts about its parts together.

Each proof is of one shape: an inductive invariant that says what holds in the middle of a
call, one lemma for each action, and the theorem by `PTL`. The invariant is given per
component.

`DocumentSessionsProofs`. `IInv` adds to the checked invariants what makes them inductive: what a
commit that holds the mutex knows (`LockHolds`: the revision it was checked against is still the
session's, and its format fits its target), files have bodies that were drawn (`FilesHaveBodies`,
`NumbersDrawn`), revisions start at one, and a spent revision lies behind its session's current
one (`SpentIsPast`). From it follow `TypeCorrect`, `BaselineCorrect`, `CacheCorrect`, and the
action properties `OverwriteCorrect` (which rests on the commit having compared what was there
when it looked) and `RevisionCorrect`.

`DocumentFlowProofs`. `FlowInv` is `IInv` with what a task's locals must fulfil for its next
native call to be one `DocumentSessions` allows (`TaskOK`: a save that is about to commit has a
path and exported bytes, an open that was answered has read a file). Every step of the window is
shown to be a step of the sessions or to leave them alone, hence
`FlowImplementsSessions`; `FlowOverwriteCorrect` and `FlowRevisionCorrect` carry the two
action properties over to the whole window, for any number of overlapping commands.
Its second part is about who a document belongs to. That the window's document is open, and that
no dirty document is forgotten, are not inductive: between the steps of an open, of a new
document or of a close the document is in somebody's hands. `SoundInv` says in whose: unless the
window closes itself, an open session is the window's document, its prepared one, that of the one
command that made or opened it, or that of a close on its way (`Owned`); a session is prepared only
by a command that will pass it on (`BlanksOwned`), and one save at most has the native side
(`NativeOne`). `FlowAlwaysSound` follows for every `Overlap`, the one in which all commands run
together included.

The other properties of the window are false when any commands overlap, or when the user types
during them (see the end of "Runs"), so their theorems say what they need of `Overlap` and
`Modal`, for any number of tasks, documents, paths and contents:

- `SavesOverlap`: the only commands that overlap are saves with saves and with a new document;
  the user may type at any time. `FlowSavesOwnBody` says that a save then commits what the editor
  showed of its own document. `OverlapInv` adds to `SoundInv` that running commands are allowed
  to run together (`Apart`), that a call is on the wire once and only while its command waits for
  it (`CallsOnce`), that the editor shows the window's document except between the content
  change and the commit of an open (`ShowsOwn`), and, per save, that it works on the window's document or
  on one whose close is handled before the save's commit (`SaveOwn`). This last part is the
  argument: a new document can replace the one that is being saved, but
  `completePendingDocumentInitialization` sends the close of the old session before the save
  can send its commit, the channel keeps the order, and the backend refuses a session that is not there.
- `Serial`: no commands overlap, and nobody types while one runs. `FlowAgrees` (`AllAgree`),
  `FlowKnowsUnsaved` (`UnsavedWorkIsKnown`) and `FlowDiscardsNothing` (`NoSilentDiscard`) follow
  from `SerialInv`, which adds to `OverlapInv`: what the editor shows is kept or waived, or
  marked unsaved, and no command comes past its guard otherwise (`SafeOK`); the dirty flags of editor,
  window and backend agree except where a save or an open is between the updates of two
  of them, and there `SyncIn` says which one is already clear (`EditorAgrees`, `BackendAgrees`); a save
  is of the window's document and has exported what the editor still shows (`SaveIn`); a
  command that waits after its call finds the channel empty (`CallsLast`, `QuietIn`); and every open
  session is the window's, the prepared one, a command's, or about to be closed (`Accounted`),
  where a command that is still to open or create a document holds none (`HoldIn`).

`PdfJobsProofs`. `IInv` adds that pages are in order and of the job's snapshot, that a job in
export is complete, and relates every job's age to the reaper's remaining sleep. A lemma on
restricting `jobs` serves every action that removes some (abort, discard, reaper, begin).
Theorems: `PdfTypes`, `PdfIsWhole`, `PdfReaped`, `PdfForeignSafe`, and the sum `PdfJobsCorrect`,
which also holds the capacity and that a window has one job for a document. Its second part is
about the pipelines. `EInv` says what a pipeline knows at each stage (`PipesOK`), what a call on
its way carries (`WireOK`), and that the two stay in step (`InStep`): a pipeline waits for one
call at a time, and once the answer to its begin is there nothing an earlier pipeline of its
window sent is left on the wire. So no late call of an abandoned pipeline meets the job of its
successor, which is what `ExportImplementsJobs` (every step of windows and wire is one of the jobs
or leaves them alone) and `ExportAlwaysSound` (a PDF shows one generation of its document, a
target is committed once, what the user was told is true) rest on.

`UpdaterProofs`. `IInv` adds that an apply carries its package while `pending` is empty
(`Carried`), that nothing on its way to a window is of a later operation (`NoneAhead`), and
that a window that has asked has the latest operation in its copy, in an answer or in the
last event on its way (`Told`). Two lemmas, for the last step of an operation and for the
others, reduce each action to the snapshot it publishes. Theorems: `UpdaterTypes`,
`UpdaterPendingFits`, `UpdaterOverrunsOnlyLateEdits`, `UpdaterUiKnows`, and the sum
`UpdaterCorrect`. That an apply past its last question has met no unsaved document is in `IInv` too.

`DiagnosticsProofs`. `SlotInv` says what an entry is in each of its states (`EntrySound`), that
the view repeats it (`ViewShape`) and that the thread's stage fits the entry (`JobSound`). Of the
child and its directory this part keeps nothing: which stage follows and with which status a
suite ends is all the slot depends on. `SlotCorrect` follows, and `DiagnosticsImplementSlot`:
every step is one of the abstract slot or leaves it alone, which is the safety half of
`ImplementsSlot`. The second part is about what the first leaves out. `SuiteInv` says, for each
stage the thread can be in, which probes it has (`Reached`, `Reports`), what is left of the child
(`Reaps`, `ChildTyped`, `Serves`, `Ended`) and what of the directory (`Clears`, `ScratchTyped`);
`DiagnosticsAlwaysSound` and the action property `DiagnosticsKeepUnknown` follow.

`RegistrationProofs`. That an extension which is ours has a whole snapshot is not inductive: in
mid-call it depends on where the call stands. `RegistrationInv` therefore says, for the registry
call that comes next, what the calls before it have established: while extensions are saved and
associated (`SnapshotTaken`), while they are given back (`Restored`, `GivingBack`) and while the
snapshot is cleared, value by value. One lemma per registry call. Theorems: `SnapshotsKept`,
`SnapshotsWhole`, `SuccessIsClean`, `ErrorsExplained`, `ClassOutlives` (the class is there for
every extension that names it, except after an uninstall that fails), `OthersAreKept`.
Its second part, on the COM server, reads each count as the size of a set: the references of an
object are its users' (`Referred`: what the threads hold and the calls that are under way on it),
the module's two counts are of the objects that live and of the locks that are held (`Counted`).
Each atomic addition or subtraction then adds or removes one member. `FreedOnce` and `Asked`
(what a query of `DllCanUnloadNow` has read is of a time since it began) complete `ServerInv`,
from which `ServerAlwaysSound` follows for any set of threads and any finite set of objects.

`WindowsProofs`. Fonts: `FontsInv` says that nothing that was told is ahead of the native
snapshot, so a change has a revision of its own; that the last event on its way to a window
carries whatever the window has not heard; and that a request that is still fresh is for the last wish.
Theorems: `RevisionsNameStates`, `ChangesAreHeard`, `NeverGoesBack`, `OnlyTheLastWish`.
Recent documents: `StoreInv` is that the list in the file is the history of recorded documents
with some left out, and in its order. What leaves entries out, `Only`, is a recursive function
over the length; that its result keeps order and elements (`OnlyFacts`) is proved by the least
length at which it would not (`Least`, from the well-foundedness of `<`).
`RecentTypes`, `RecentListIsTrue` and the action property `LossesAreExplained` follow. Files on
their way: a file can be in the global queue, a window's queue, a thread, an event, a call or
a window, and every action takes files from one and puts them into another. The proof
describes each action by where it moves a place (`Moved`), and shows that every place of a file
after the step is the move of a place it had before, so it stays the only one. `FilesInv` adds
that lists hold started files in the order of their numbers; hence `FilesTypes` and `FilesAreKept`.

`ServicesProofs`. Handlers: that every waiter is in the current registration's set makes
microtasks of old registrations harmless (`WaitersServed`, `HandlersAlive`). Linux print:
`PrintingInv` relates the four cells to where the dialog stands; `PrintAnswerable` (a print that
is not settled keeps its operation and, once its dialog is closed, a watchdog),
`PrintLeavesNoTimeout`, `PrintFailureTold`. Windows print: `FocusInv` says that a sample or a
timeout of the present generation has missed no event; `FocusReturned` is that the wait ends only
for a focused window; `FocusTypes`. Directories: `JobsKept` (no start empties the directory of a
running job) and `ForeignKept` (it removes no directory with a foreign file); `TempDirsTypes`,
which has that a start removes no more than its limit. Thumbnails of Linux, with files that others
replace and fill: `ThumbnailerInv` says what the worker and the commit have done where the
supervisor stands, and which files can be half written (`WorkerFacts`, `CommitFacts`,
`FileFacts`), hence `ThumbnailerAlwaysSound`, whenever it is killed. One rendering: `RenderingInv`
says what process, job, pipes and threads are at each stage of the call (`StageFacts`), that one
late frame at most is read (`LateFacts`), and that worker, pipe and channel hold the frames in the
order they were sent (`FrameFacts`, `OrderFacts`), hence `RenderingAlwaysSound`.

Model-checked only:

- liveness: it rests on fairness and `ENABLED`, which the prover does not reason about. This is
  `NothingStays`, `OperationsEnd`, the liveness half of `ImplementsSlot`, and
  the properties of `programs` that end in `Ends`, `Opened`, `Go` and `Returns`;
- `ServicesTypeOK` and `ProgramsTypeOK`, which put the type invariants of parts into one formula
  for a run that chooses among them. Each part's own type invariant is a theorem of its
  specification or a conjunct of its proved inductive invariant.

## Not modelled

- Editor, parsing, rendering, PDF writing, fonts, encryption, wording, window sizes: no state
  that the properties tell apart. They succeed or fail.
- Chunks of a staging file (`core/chunked-fs.ts`): the file is written completely or the save
  fails and removes it, which is `Fails` of the flow. The await of that write is one with the
  await before the commit. A throw of `syncDesktopPasswordRequirement` after the editor has loaded
  (`core/desktop-host.ts` 190) is left out.
- The awaits between a removal's read of the path, or a clear's forgetting of the ids, and its
  command (`recent/recent-store.ts` 47-50, 57-58): the ids of a list are never used again.
- Panics and poisoned mutexes; a throwing `notifySaved`.
- Updater: which installations can be updated (`updater/target.rs`) is a decision over facts of
  the system, made once; metadata are validated before anything changes.
- Printing: the preparation of the pages, and the focus waiter of other platforms, which
  listens to DOM events only.
- Thumbnails: the guards at the ABI (null pointers, caught panics), the bitmap of GDI, the
  bytes of a frame; the limits and the drawing of `document-preview`, a pure function of its input.
- Diagnostics: what each probe observes of registry, COM and Shell is input of the suite; the
  dialog only shows the view.
- Font preferences: the scan of local fonts that follows a choice.
- Commands and shell of the editor (menus, dialogs, wheel events), fonts and text of a PDF,
  the environment variables that `linux_runtime.rs` sets before anything runs, and the tools
  that build, publish and document the program: nothing in them is shared, concurrent or
  outlives a call.
