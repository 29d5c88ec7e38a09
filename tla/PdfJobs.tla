------------------------------ MODULE PdfJobs ------------------------------
(***************************************************************************)
(* The PDF export jobs of the backend: PdfExportJobs (pdf_jobs.rs) behind  *)
(* the pdf_jobs mutex, its policy and reaper thread (pdf_temp_cleanup.rs), *)
(* and the export that a commit runs while it holds the mutex              *)
(* (pdf_export.rs).                                                        *)
(*                                                                         *)
(* A window sends a document page by page and then commits it.  Windows    *)
(* are arbitrary clients here: they call anything, in any order, with any  *)
(* job, snapshot and page index.                                           *)
(*                                                                         *)
(* Time passes in ticks.  A job carries the ticks since it was created and *)
(* since its last page.                                                    *)
(***************************************************************************)
EXTENDS Integers, FiniteSets, Sequences, Functions

CONSTANTS
  Windows, Targets, Snapshots,
  Bodies,           \* what the pages of a document can show
  JobIds,           \* UUIDs: an id is given out once
  MaxPages,         \* PdfJobPolicy.max_pages
  PageSizes,        \* sizes of a rendered page
  MaxPageBytes,     \* PdfJobPolicy.max_page_svg_bytes
  MaxJobBytes,      \* PdfJobPolicy.max_job_svg_bytes
  MaxActive,        \* PdfJobPolicy.max_active_jobs
  IdleTTL,          \* PdfJobPolicy.idle_ttl
  MaxLifetime,      \* PdfJobPolicy.max_lifetime
  ReaperInterval,   \* PDF_JOB_REAPER_INTERVAL
  MaxExport         \* bound: ticks one export may take

ASSUME PdfJobsAssumption ==
  /\ MaxPages \in Nat \ {0} /\ PageSizes \subseteq Nat
  /\ MaxPageBytes \in Nat /\ MaxJobBytes \in Nat /\ MaxActive \in Nat \ {0}
  /\ IdleTTL \in Nat \ {0} /\ MaxLifetime \in Nat \ {0}
  /\ ReaperInterval \in Nat \ {0} /\ MaxExport \in Nat

VARIABLES
  jobs,       \* PdfExportJobs.jobs
  ids,        \* ids that were given out
  export,     \* the job whose export holds the mutex, in a set of at most one
  files,      \* the target files that were written, with the job they were written from
  sleep,      \* ticks until the reaper wakes up
  caller      \* history: the windows the last step acted for

vars == <<jobs, ids, export, files, sleep, caller>>

-----------------------------------------------------------------------------
Page == [snapshot : Snapshots, index : 0 .. MaxPages - 1, body : Bodies]
Job == [owner : Windows, snapshot : Snapshots, target : Targets, count : 1 .. MaxPages,
        pages : Seq(Page), bytes : Nat, age : Nat, idle : Nat]

NewJob(w, s, t, n) ==
  [owner |-> w, snapshot |-> s, target |-> t, count |-> n,
   pages |-> <<>>, bytes |-> 0, age |-> 0, idle |-> 0]

Active == DOMAIN jobs
Of(w) == {id \in Active : jobs[id].owner = w}
Expired(j) == j.idle >= IdleTTL \/ j.age >= MaxLifetime
\* The jobs that prune_expired_at leaves
Fresh == {id \in Active : ~Expired(jobs[id])}

\* The mutex is held for an action, and by a commit until its export ends.
Free == export = {}

Init ==
  /\ jobs = [id \in {} |-> id] /\ ids = {} /\ export = {}
  /\ files = [t \in {} |-> t]
  /\ sleep = ReaperInterval /\ caller = {}

-----------------------------------------------------------------------------
(* Commands                                                                *)

\* A window has at most one job: a new one replaces it.
Kept(w) == Fresh \ Of(w)

HasRoom(w, t) ==
  /\ Cardinality(Kept(w)) < MaxActive
  /\ \A k \in Kept(w) : jobs[k].target # t

Begin(w, s, t, n, id) ==
  /\ Free /\ id \notin ids
  /\ HasRoom(w, t)
  /\ jobs' = [k \in Kept(w) \cup {id} |-> IF k = id THEN NewJob(w, s, t, n) ELSE jobs[k]]
  /\ ids' = ids \cup {id} /\ caller' = {w}
  /\ UNCHANGED <<export, files, sleep>>

\* No room, the target is taken, or no temporary directory: the previous job is gone
\* all the same.
BeginRefused(w) ==
  /\ Free
  /\ jobs' = Restrict(jobs, Kept(w)) /\ caller' = {w}
  /\ UNCHANGED <<ids, export, files, sleep>>

\* (mutant) any window may use a job
OwnedByAnyone(w, id) == Free /\ id \in Fresh

\* ensure_owner, after the expired jobs were removed
Owned(w, id) == Free /\ id \in Fresh /\ jobs[id].owner = w

\* (mutant) the pages of a job may add up to anything
AcceptsAnyTotal(j, s, i, size) ==
  /\ s = j.snapshot /\ i = Len(j.pages) /\ i < j.count
  /\ size <= MaxPageBytes

\* (mutant) a page of another snapshot is taken
AcceptsAnySnapshot(j, s, i, size) ==
  /\ i = Len(j.pages) /\ i < j.count
  /\ size <= MaxPageBytes /\ j.bytes + size <= MaxJobBytes

\* append_owned_page: the next page of the job's own snapshot, within the limits
Accepts(j, s, i, size) ==
  /\ s = j.snapshot /\ i = Len(j.pages) /\ i < j.count
  /\ size <= MaxPageBytes /\ j.bytes + size <= MaxJobBytes

WithPage(j, page, size) ==
  [j EXCEPT !.pages = Append(@, page), !.bytes = @ + size, !.idle = 0]

AppendPage(w, id, s, i, body, size) ==
  /\ Owned(w, id) /\ Accepts(jobs[id], s, i, size)
  /\ jobs' = [Restrict(jobs, Fresh) EXCEPT
               ![id] = WithPage(@, [snapshot |-> s, index |-> i, body |-> body], size)]
  /\ caller' = {w}
  /\ UNCHANGED <<ids, export, files, sleep>>

\* abort, and a page or commit that is refused or cannot be written: the job ends.
Remove(w, id) ==
  /\ Owned(w, id)
  /\ jobs' = Restrict(jobs, Fresh \ {id}) /\ caller' = {w}
  /\ UNCHANGED <<ids, export, files, sleep>>

\* A call on a job that is not there, or not the window's, only removes expired jobs.
Refuse(w, id) ==
  /\ Free /\ ~Owned(w, id)
  /\ jobs' = Restrict(jobs, Fresh) /\ caller' = {w}
  /\ UNCHANGED <<ids, export, files, sleep>>

\* validate_commit
Complete(j, s) == s = j.snapshot /\ Len(j.pages) = j.count

Commit(w, id, s) ==
  /\ Owned(w, id) /\ Complete(jobs[id], s)
  /\ export' = {[job |-> jobs[id], left |-> MaxExport]}
  /\ jobs' = Restrict(jobs, Fresh \ {id}) /\ caller' = {w}
  /\ UNCHANGED <<ids, files, sleep>>

\* export_svg_pages_to_pdf replaces the target in one step, with searchable text or
\* with outlines ...
ExportDone ==
  /\ \E e \in export :
       /\ files' = [t \in DOMAIN files \cup {e.job.target} |->
                      IF t = e.job.target THEN e.job ELSE files[t]]
       /\ caller' = {e.job.owner}
  /\ export' = {}
  /\ UNCHANGED <<jobs, ids, sleep>>

\* ... or fails and leaves it alone.
ExportFails ==
  /\ \E e \in export : caller' = {e.job.owner}
  /\ export' = {}
  /\ UNCHANGED <<jobs, ids, files, sleep>>

\* The window is destroyed.
DiscardForWindow(w) ==
  /\ Free
  /\ jobs' = Restrict(jobs, Active \ Of(w)) /\ caller' = {w}
  /\ UNCHANGED <<ids, export, files, sleep>>

-----------------------------------------------------------------------------
(* The reaper and the clock                                                *)

Reap ==
  /\ Free /\ sleep = 0
  /\ jobs' = Restrict(jobs, Fresh)
  /\ sleep' = ReaperInterval /\ caller' = {}
  /\ UNCHANGED <<ids, export, files>>

\* Ages stop counting when a job is long overdue.
AgeBound == IdleTTL + MaxLifetime + ReaperInterval + MaxExport
Older(age) == IF age < AgeBound THEN age + 1 ELSE age

\* The reaper does not oversleep, but it waits for the mutex.
Tick ==
  /\ Free => sleep > 0
  /\ \A e \in export : e.left > 0
  /\ jobs' = [id \in Active |-> [jobs[id] EXCEPT !.age = Older(@), !.idle = Older(@)]]
  /\ export' = {[e EXCEPT !.left = @ - 1] : e \in export}
  /\ sleep' = IF sleep > 0 THEN sleep - 1 ELSE 0
  /\ caller' = {}
  /\ UNCHANGED <<ids, files>>

Command(w) ==
  \/ \E s \in Snapshots, t \in Targets, n \in 1 .. MaxPages, id \in JobIds : Begin(w, s, t, n, id)
  \/ BeginRefused(w)
  \/ \E id \in JobIds :
       \/ \E s \in Snapshots, i \in 0 .. MaxPages, body \in Bodies, size \in PageSizes :
            AppendPage(w, id, s, i, body, size)
       \/ \E s \in Snapshots : Commit(w, id, s)
       \/ Remove(w, id)
       \/ Refuse(w, id)
  \/ DiscardForWindow(w)

Next == (\E w \in Windows : Command(w)) \/ ExportDone \/ ExportFails \/ Reap \/ Tick

Spec == Init /\ [][Next]_vars

-----------------------------------------------------------------------------
(* Properties                                                              *)

\* Jobs are well typed, hold their declared pages and bytes, and only one is exported.
TypeOK ==
  /\ Active \subseteq ids /\ ids \subseteq JobIds
  /\ \A id \in Active : jobs[id] \in Job
  /\ \A id \in Active : jobs[id].bytes <= MaxJobBytes /\ Len(jobs[id].pages) <= jobs[id].count
  /\ export \subseteq [job : Job, left : 0 .. MaxExport]
  /\ \A e, f \in export : e = f
  /\ DOMAIN files \subseteq Targets /\ \A t \in DOMAIN files : files[t] \in Job
  /\ sleep \in 0 .. ReaperInterval /\ caller \subseteq Windows

\* At most max_active_jobs jobs hold temporary files at a time.
WithinCapacity == Cardinality(Active) <= MaxActive

\* A window works on one PDF at a time, and no two jobs are going to replace the same
\* file.
OneJobEach ==
  \A id, k \in Active : id # k =>
    jobs[id].owner # jobs[k].owner /\ jobs[id].target # jobs[k].target

\* A PDF that was written holds every page of one snapshot, each once and in order
\* (DESKTOP_RELEASE.md: no mixed generations).
WholePdf ==
  \A t \in DOMAIN files :
    /\ Len(files[t].pages) = files[t].count
    /\ \A i \in 1 .. files[t].count :
         files[t].pages[i].snapshot = files[t].snapshot /\ files[t].pages[i].index = i - 1

\* What a job holds, its age apart
Holds(j) == <<j.owner, j.snapshot, j.target, j.count, j.pages, j.bytes>>
UsedByOwner(id) ==
  \/ Expired(jobs[id])
  \/ jobs[id].owner \in caller'
  \/ id \in DOMAIN jobs' /\ Holds(jobs'[id]) = Holds(jobs[id])

\* A job that is not overdue changes or goes away only by its own window: not by another
\* window's call or end, and not by the reaper.
ForeignSafe == [][\A id \in Active : UsedByOwner(id)]_vars

\* An overdue job is gone one reaper interval later: a job that is there while the
\* reaper sleeps was not overdue when it fell asleep.
ReapedInTime ==
  sleep > 0 =>
    \A id \in Active :
      /\ jobs[id].idle + sleep < IdleTTL + ReaperInterval
      /\ jobs[id].age + sleep < MaxLifetime + ReaperInterval

\* Every job ends, whatever its window does: it gives its target and its place back.
JobsEnd == \A id \in JobIds : id \in Active ~> id \notin Active

\* The jobs keep to their limit, their windows and targets, and write whole PDFs only.
JobsSound == WithinCapacity /\ OneJobEach /\ WholePdf
=============================================================================
