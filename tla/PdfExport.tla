----------------------------- MODULE PdfExport -----------------------------
(***************************************************************************)
(* The PDF export of every window, exportPdf of desktop-persistence.ts and *)
(* createPdfExportSnapshot of pdf-export-snapshot.ts, on top of the jobs   *)
(* of the backend (PdfJobs).                                               *)
(*                                                                         *)
(* A window chooses a target, takes a snapshot of its document, and sends  *)
(* the snapshot's pages one by one, each call after the answer to the one  *)
(* before.  A deadline covers the whole pipeline: when it passes the       *)
(* window stops waiting, but a call that was sent is still handled.  A     *)
(* page that is reloaded forgets its pipeline, a window that is destroyed  *)
(* takes its calls with it.                                                *)
(***************************************************************************)
EXTENDS PdfJobs

CONSTANTS
  PagesOf,      \* the number of pages of a document that shows a body
  Deadline,     \* PDF_EXPORT_PIPELINE_TIMEOUT_MS
  NoTarget, NoSnapshot, NoJob

ASSUME PdfExportAssumption ==
  /\ PagesOf \in [Bodies -> 1 .. MaxPages] /\ Deadline \in Nat \ {0}
  /\ NoTarget \notin Targets /\ NoSnapshot \notin Snapshots /\ NoJob \notin JobIds

VARIABLES
  content,      \* what each window's document shows
  pipe,         \* the export each window runs
  wire,         \* each window's calls that are not handled yet, oldest first
  windows,      \* the windows that exist
  taken,        \* snapshot ids that were drawn, with the body they hold
  written,      \* history: the snapshots a target was replaced from
  overdue       \* history: jobs that were seen expired

windowVars == <<content, pipe, wire, windows, taken>>
exportVars == <<vars, windowVars, written, overdue>>

-----------------------------------------------------------------------------
Calls == {"begin", "append", "commit", "abort"}

\* next: pages that were answered.  answer: the answer to the call the pipeline waits
\* for.  told: what the user was told of the last export.
Idle == [at |-> "idle", target |-> NoTarget, snapshot |-> NoSnapshot, job |-> NoJob,
         next |-> 0, left |-> 0, answer |-> "none", told |-> "nothing"]
Pipe == [at : {"idle", "capture"} \cup Calls, target : Targets \cup {NoTarget},
         snapshot : Snapshots \cup {NoSnapshot}, job : JobIds \cup {NoJob},
         next : 0 .. MaxPages, left : 0 .. Deadline, answer : {"none", "ok", "failed"},
         told : {"nothing", "saved", "failed", "late"}]

\* A call carries what its window knows when it sends it, of the body it takes its
\* pages from.
CallOf(p, b) == [name |-> p.at, target |-> p.target, snapshot |-> p.snapshot, job |-> p.job,
                 index |-> p.next, count |-> PagesOf[b], body |-> b]

ExportInit ==
  /\ Init
  /\ content \in [Windows -> Bodies]
  /\ pipe = [w \in Windows |-> Idle]
  /\ wire = [w \in Windows |-> <<>>]
  /\ windows = Windows
  /\ taken = [s \in {} |-> s]
  /\ written = {} /\ overdue = {}

-----------------------------------------------------------------------------
(* The window's side                                                       *)

\* The pipeline sends its next call, or ends and says how.
Send(w, p, b) ==
  /\ pipe' = [pipe EXCEPT ![w] = [p EXCEPT !.answer = "none"]]
  /\ wire' = [wire EXCEPT ![w] = Append(@, CallOf(p, b))]
End(w, told) ==
  /\ pipe' = [pipe EXCEPT ![w] = [Idle EXCEPT !.snapshot = pipe[w].snapshot, !.told = told]]
  /\ UNCHANGED wire

\* exportCurrentPdf: a second call joins the export that runs.
Start(w, t) ==
  /\ w \in windows /\ pipe[w].at = "idle"
  /\ pipe' = [pipe EXCEPT ![w] = [Idle EXCEPT !.at = "capture", !.target = t, !.left = Deadline]]
  /\ UNCHANGED <<vars, content, wire, windows, taken, written>>

Capture(w, s) ==
  /\ pipe[w].at = "capture" /\ pipe[w].left > 0
  /\ s \notin DOMAIN taken
  /\ taken' = [k \in DOMAIN taken \cup {s} |-> IF k = s THEN content[w] ELSE taken[k]]
  /\ Send(w, [pipe[w] EXCEPT !.at = "begin", !.snapshot = s], content[w])
  /\ UNCHANGED <<vars, content, windows, written>>

\* The serializer or the second editor core fails, or takes more than two minutes.
CaptureFails(w) ==
  /\ pipe[w].at = "capture"
  /\ End(w, "failed")
  /\ UNCHANGED <<vars, content, windows, taken, written>>

\* (mutant) pages are rendered from the document the user is editing
AdvanceLive(w, p) ==
  Send(w, [p EXCEPT !.at = IF p.next < PagesOf[taken[p.snapshot]] THEN "append" ELSE "commit"],
       content[w])

\* The next page of the snapshot, or the commit when all are there
Advance(w, p) ==
  Send(w, [p EXCEPT !.at = IF p.next < PagesOf[taken[p.snapshot]] THEN "append" ELSE "commit"],
       taken[p.snapshot])

\* An answer arrives in time.
Receive(w) ==
  LET p == pipe[w] IN
  /\ p.answer # "none" /\ p.left > 0
  /\ CASE p.at = "begin" /\ p.answer = "ok"  -> Advance(w, p)
       [] p.at = "append" /\ p.answer = "ok" -> Advance(w, [p EXCEPT !.next = @ + 1])
       [] p.at = "commit" /\ p.answer = "ok" -> End(w, "saved")
       [] p.at \in {"append", "commit"} /\ p.answer = "failed" -> Send(w, [p EXCEPT !.at = "abort"], taken[p.snapshot])
       [] OTHER                              -> End(w, "failed")
  /\ UNCHANGED <<vars, content, windows, taken, written>>

\* A page cannot be rendered: the job is aborted.
RenderFails(w) ==
  LET p == pipe[w] IN
  /\ p.at \in {"begin", "append"} /\ p.answer = "ok" /\ p.left > 0
  /\ Send(w, [p EXCEPT !.at = "abort"], taken[p.snapshot])
  /\ UNCHANGED <<vars, content, windows, taken, written>>

\* (mutant) a pipeline that is late leaves its job alone and waits on
LateWithoutAbort(w) ==
  LET p == pipe[w] IN
  /\ p.at \in {"capture", "begin", "append"} /\ p.left = 0
  /\ End(w, "late")
  /\ UNCHANGED <<vars, content, windows, taken, written>>

\* The deadline passes: whatever is on its way, the pipeline ends.  A job it knows of is
\* aborted without waiting for the answer.
Late(w) ==
  LET p == pipe[w] IN
  /\ p.at # "idle" /\ p.left = 0
  /\ pipe' = [pipe EXCEPT ![w] = [Idle EXCEPT !.snapshot = p.snapshot,
                                              !.told = IF p.at = "abort" THEN "failed" ELSE "late"]]
  /\ wire' = IF p.at \in {"append", "commit"}
             THEN [wire EXCEPT ![w] = Append(@, CallOf([p EXCEPT !.at = "abort"], taken[p.snapshot]))] ELSE wire
  /\ UNCHANGED <<vars, content, windows, taken, written>>

Edit(w, b) ==
  /\ w \in windows
  /\ content' = [content EXCEPT ![w] = b]
  /\ UNCHANGED <<vars, pipe, wire, windows, taken, written>>

\* The page is reloaded: its pipeline is forgotten, its calls are not.
Reload(w) ==
  /\ w \in windows
  /\ pipe' = [pipe EXCEPT ![w] = Idle]
  /\ UNCHANGED <<vars, content, wire, windows, taken, written>>

Destroy(w) ==
  /\ w \in windows
  /\ DiscardForWindow(w)
  /\ windows' = windows \ {w}
  /\ pipe' = [pipe EXCEPT ![w] = Idle]
  /\ wire' = [wire EXCEPT ![w] = <<>>]
  /\ UNCHANGED <<content, taken, written>>

-----------------------------------------------------------------------------
(* The backend's side                                                      *)

\* The answer to a call reaches the pipeline if it still waits for it.
Answer(w, c, answer, job) ==
  pipe' = IF pipe[w].at = c.name /\ pipe[w].snapshot = c.snapshot
          THEN [pipe EXCEPT ![w].answer = answer, ![w].job = job] ELSE pipe

HandleBegin(w, c) ==
  /\ c.name = "begin"
  /\ \/ \E id \in JobIds : /\ Begin(w, c.snapshot, c.target, c.count, id)
                           /\ Answer(w, c, "ok", id)
     \/ BeginRefused(w) /\ Answer(w, c, "failed", NoJob)
     \* The target's directory is not there: nothing is touched.
     \/ Free /\ UNCHANGED vars /\ Answer(w, c, "failed", NoJob)

HandleAppend(w, c) ==
  /\ c.name = "append"
  /\ \/ /\ \E size \in PageSizes : AppendPage(w, c.job, c.snapshot, c.index, c.body, size)
        /\ Answer(w, c, "ok", c.job)
     \/ (Remove(w, c.job) \/ Refuse(w, c.job)) /\ Answer(w, c, "failed", c.job)

\* (mutant) a commit that does not validate
HandleCommitUnchecked(w, c) ==
  /\ c.name = "commit"
  /\ \/ /\ Owned(w, c.job)
        /\ export' = {[job |-> jobs[c.job], left |-> MaxExport]}
        /\ jobs' = jobs /\ caller' = {w}
        /\ UNCHANGED <<ids, files, sleep, pipe>>
     \/ Refuse(w, c.job) /\ Answer(w, c, "failed", c.job)

HandleCommit(w, c) ==
  /\ c.name = "commit"
  /\ \/ Commit(w, c.job, c.snapshot) /\ UNCHANGED pipe
     \/ /\ c.job \in Active => ~Complete(jobs[c.job], c.snapshot)
        /\ Remove(w, c.job) /\ Answer(w, c, "failed", c.job)
     \/ Refuse(w, c.job) /\ Answer(w, c, "failed", c.job)

HandleAbort(w, c) ==
  /\ c.name = "abort"
  /\ Remove(w, c.job) \/ Refuse(w, c.job)
  /\ Answer(w, c, "failed", c.job)

Handle(w) ==
  /\ wire[w] # <<>>
  /\ LET c == Head(wire[w]) IN
       HandleBegin(w, c) \/ HandleAppend(w, c) \/ HandleCommit(w, c) \/ HandleAbort(w, c)
  /\ wire' = [wire EXCEPT ![w] = Tail(@)]
  /\ UNCHANGED <<content, windows, taken, written>>

CommitCall(j) == [name |-> "commit", snapshot |-> j.snapshot]

Exported ==
  /\ ExportDone
  /\ \E e \in export :
       /\ Answer(e.job.owner, CommitCall(e.job), "ok", pipe[e.job.owner].job)
       /\ written' = written \cup {e.job.snapshot}
  /\ UNCHANGED <<content, wire, windows, taken>>

NotExported ==
  /\ ExportFails
  /\ \E e \in export : Answer(e.job.owner, CommitCall(e.job), "failed", pipe[e.job.owner].job)
  /\ UNCHANGED <<content, wire, windows, taken, written>>

Reaped == Reap /\ UNCHANGED <<windowVars, written>>

TimePasses ==
  /\ Tick
  /\ pipe' = [w \in Windows |-> [pipe[w] EXCEPT !.left = IF @ > 0 THEN @ - 1 ELSE 0]]
  /\ UNCHANGED <<content, wire, windows, taken, written>>

-----------------------------------------------------------------------------
WindowStep(w) ==
  \/ (\E t \in Targets : Start(w, t)) \/ (\E s \in Snapshots : Capture(w, s)) \/ CaptureFails(w)
  \/ Receive(w) \/ RenderFails(w) \/ Late(w)
  \/ (\E b \in Bodies : Edit(w, b)) \/ Reload(w) \/ Destroy(w) \/ Handle(w)

ExportNext ==
  /\ (\E w \in Windows : WindowStep(w)) \/ Exported \/ NotExported \/ Reaped \/ TimePasses
  /\ overdue' = overdue \cup {id \in Active : Expired(jobs[id])}

ExportSpec == ExportInit /\ [][ExportNext]_exportVars

\* Time passes and timers fire, the backend handles its calls and ends its exports.
ExportFairness ==
  /\ WF_exportVars(TimePasses /\ ExportNext) /\ WF_exportVars(Reaped /\ ExportNext)
  /\ WF_exportVars((Exported \/ NotExported) /\ ExportNext)
  /\ \A w \in Windows : WF_exportVars(Late(w) /\ ExportNext)
ExportFairSpec == ExportSpec /\ ExportFairness

-----------------------------------------------------------------------------
(* Properties                                                              *)

\* The windows are clients of the jobs: what the backend goes through is a behaviour of
\* PdfJobs.
ImplementsJobs == Spec

\* Every pipeline keeps its type, and what was written was drawn.
ExportTypeOK ==
  /\ pipe \in [Windows -> Pipe] /\ content \in [Windows -> Bodies]
  /\ windows \subseteq Windows /\ written \subseteq DOMAIN taken

\* A PDF shows one generation of its document, with all of its pages, however much the
\* user edits meanwhile (DESKTOP_RELEASE.md: no mixed revision).
OneGeneration ==
  \A t \in DOMAIN files :
    /\ files[t].count = PagesOf[taken[files[t].snapshot]]
    /\ \A i \in 1 .. Len(files[t].pages) : files[t].pages[i].body = taken[files[t].snapshot]

\* The user is told the truth: an export that was reported saved replaced its target,
\* and one that failed before the deadline did not and never will.
Truthful ==
  \A w \in Windows :
    /\ pipe[w].told = "saved" => pipe[w].snapshot \in written
    /\ pipe[w].told = "failed" => pipe[w].snapshot \notin written

\* While a pipeline waits for a page or the commit to be handled, its job is there with
\* exactly the pages that were answered, unless the job was overdue: no late call of an
\* earlier export and no other window takes it away.
KeepsItsJob ==
  \A w \in Windows : LET p == pipe[w] IN
    /\ p.at \in {"append", "commit"} /\ p.answer = "none"
    /\ \A e \in export : e.job.snapshot # p.snapshot
    => \/ p.job \in overdue
       \/ /\ p.job \in Active
          /\ jobs[p.job].owner = w /\ jobs[p.job].snapshot = p.snapshot
          /\ Len(jobs[p.job].pages) = p.next

\* DESKTOP_RELEASE.md: a request that exceeds the ten minutes does not change the
\* existing target.
LateLeavesTarget == \A w \in Windows : pipe[w].told = "late" => pipe[w].snapshot \notin written

\* Every export ends, with the backend answering or not.
ExportsEnd == \A w \in Windows : pipe[w].at # "idle" ~> pipe[w].at = "idle"

\* A pipeline keeps its job against late calls and other windows, draws one generation and
\* tells the user the truth about it.
ExportSound == ExportTypeOK /\ OneGeneration /\ Truthful /\ KeepsItsJob

\* Nothing stays for ever: no export in a window and no job in the backend.
NothingStays == ExportsEnd /\ JobsEnd
=============================================================================
