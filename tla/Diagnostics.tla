----------------------------- MODULE Diagnostics -----------------------------
(***************************************************************************)
(* The thumbnail diagnostics of the Windows application                    *)
(* (apps/desktop/src-tauri/src/thumbnail_diagnostics): the request slot    *)
(* that windows share, the suite that a blocking thread runs, the child    *)
(* process of each of its steps with its pipes, its job and its deadlines, *)
(* and the scratch directory those children make and remove.               *)
(*                                                                         *)
(* Time is kept as facts: a deadline has passed or it has not.  The grace  *)
(* period of a request is "unset" until something has to be reclaimed,     *)
(* then "open", then "over"; it is never opened twice.                     *)
(***************************************************************************)
EXTENDS Naturals, Sequences, FiniteSets

CONSTANTS Windows,      \* labels of the windows that may ask
          MaxRequests,  \* bound: requests begun
          MaxChanges,   \* bound: changes of the registration by other programs
          ReadySets,    \* the sets of formats that may be registered and ready
          SlotFiles     \* files of a scratch directory before its manifest

ASSUME SlotFilesAssumption == SlotFiles \in Nat \ {0}
ASSUME BoundsAssumption == MaxRequests \in Nat /\ MaxChanges \in Nat
ASSUME ReadyAssumption == ReadySets \subseteq SUBSET {"hwp", "hwpx"}
ASSUME WindowsAssumption == "nobody" \notin Windows

VARIABLES
    open,       \* windows that have not been destroyed
    entry,      \* the Entry of DiagnosticService
    view,       \* the Entry of UiService: what every window is told
    job,        \* the blocking thread of the active request
    child,      \* the process of the current step
    scratch,    \* the scratch directory of the active request
    token,      \* version of the registration: the state token of a capture
    ready       \* the formats whose registration is ready

vars == <<open, entry, view, job, child, scratch, token, ready>>
env == <<token, ready>>

Formats == {"hwp", "hwpx"}
Errors == {"cancelled", "timed-out", "failed"}
Terminal == Errors \cup {"completed"}

-----------------------------------------------------------------------------
(* The plan of a suite: ten probes for each ready format.                  *)

NoSlot == <<>>

Copies(f) ==
    <<<<f, "document", "shell">>, <<f, "document", "cache">>, <<f, "document", "force">>,
      <<f, "jpg", "shell">>, <<f, "jpg", "cache">>, <<f, "jpg", "force">>>>

ImageOps == <<"shell", "cache-only", "force-extract", "cache-only">>
Steps(f) ==
    LET image(i) == LET k == (i + 1) \div 2
                        role == IF i % 2 = 1 THEN 0 ELSE 3
                        copy == IF k = 4 THEN 3 ELSE k
                    IN  [op |-> ImageOps[k], format |-> f, slot |-> Copies(f)[copy + role]]
    IN  [i \in 1..10 |->
            CASE i = 1 -> [op |-> "association", format |-> f, slot |-> NoSlot]
              [] i = 10 -> [op |-> "activate", format |-> f, slot |-> NoSlot]
              [] OTHER -> image(i - 1)]

\* Which operations a copy may be used for.
Permits(slot, op) ==
    CASE slot[3] = "shell" -> op = "shell"
      [] slot[3] = "cache" -> op = "cache-only"
      [] slot[3] = "force" -> op \in {"force-extract", "cache-only"}

ScopeValid(r) ==
    LET image == r.op \in {"shell", "cache-only", "force-extract"}
    IN  /\ (image \/ r.op \in {"prepare", "cleanup"}) <=> r.scope
        /\ image <=> r.slot # NoSlot
        /\ image => Permits(r.slot, r.op) /\ r.slot[1] = r.format
\* What a parent may send and a child accepts.
ValidRequest(r) ==
    /\ (r.format # "none") <=>
         r.op \in {"association", "shell", "cache-only", "force-extract", "activate"}
    /\ ScopeValid(r)

StepRequest(s) == [op |-> s.op, format |-> s.format, slot |-> s.slot, scope |-> s.slot # NoSlot]
PlainRequest(op) ==
    [op |-> op, format |-> "none", slot |-> NoSlot, scope |-> op \in {"prepare", "cleanup"}]

-----------------------------------------------------------------------------
(* States.                                                                 *)

NoEntry == [owner |-> "nobody", id |-> 0, seq |-> 0, status |-> "none",
            cancelled |-> FALSE, late |-> FALSE, active |-> FALSE]
NoView == [owner |-> "nobody", id |-> 0, seq |-> 0, status |-> "none",
           op |-> "none", result |-> "none", cleanup |-> TRUE]
NoJob == [stage |-> "idle", call |-> "none", op |-> "none", id |-> 0, token |-> 0, seen |-> 0, ready |-> {},
          probes |-> [f \in Formats |-> 0], answer |-> "none", outcome |-> "ok",
          cleanup |-> TRUE, grace |-> "unset", zombie |-> FALSE, status |-> "none",
          reported |-> FALSE]
NoReply == [good |-> FALSE, token |-> 0, ready |-> {}, written |-> FALSE]
NoChild == [req |-> PlainRequest("none"), root |-> "none", token |-> 0, ready |-> {},
            reply |-> NoReply, code |-> 0, kids |-> FALSE, at |-> 0]
NoScratch == [dir |-> FALSE, files |-> 0, manifest |-> FALSE, gone |-> 0,
              foreign |-> FALSE, damaged |-> FALSE]

Init ==
    /\ open = Windows
    /\ entry = NoEntry
    /\ view = NoView
    /\ job = NoJob
    /\ child = NoChild
    /\ scratch = NoScratch
    /\ token = 1
    /\ ready \in ReadySets

-----------------------------------------------------------------------------
(* The slot: DiagnosticService under the mutex of UiService.               *)

OwnedEntry(w, id) == entry.owner = w /\ entry.id = id /\ id # 0

ServiceBegin(w, op, consent) ==
    /\ op = "suite" => consent
    /\ ~entry.active
    /\ entry' = [NoEntry EXCEPT !.owner = w, !.id = entry.id + 1, !.seq = 1,
                                !.status = "running", !.active = TRUE]

ServiceCancel(w, id) ==
    /\ OwnedEntry(w, id)
    /\ entry' = IF entry.active /\ entry.status # "cancelling"
                THEN [entry EXCEPT !.cancelled = TRUE, !.status = "cancelling", !.seq = @ + 1]
                ELSE entry

\* (mutant) a deadline that passed is told before a cancellation
ServiceFinishLate(id, status) ==
    /\ entry.id = id /\ entry.active
    /\ entry' = [entry EXCEPT
                    !.status = IF status = "failed" THEN "failed"
                               ELSE IF entry.late THEN "timed-out"
                               ELSE IF entry.cancelled THEN "cancelled" ELSE status,
                    !.seq = @ + 1,
                    !.active = FALSE]

ServiceFinish(id, status) ==
    /\ entry.id = id /\ entry.active
    /\ entry' = [entry EXCEPT
                    !.status = IF status = "failed" THEN "failed"
                               ELSE IF entry.cancelled THEN "cancelled"
                               ELSE IF entry.late THEN "timed-out" ELSE status,
                    !.seq = @ + 1,
                    !.active = FALSE]

Snapshot(v, e) == [v EXCEPT !.id = e.id, !.seq = e.seq, !.status = e.status]

\* thumbnail_diagnostics_inspect and _start; the blocking thread starts with the request.
\* An inspection by the owner of the active request is told about that request instead.
UiBegin(w, op, consent) ==
    /\ w \in open
    /\ entry.id < MaxRequests
    /\ ~(op = "inspect" /\ view.owner = w /\ view.status \in {"running", "cancelling"})
    /\ ServiceBegin(w, op, consent)
    /\ view' = Snapshot([NoView EXCEPT !.owner = w, !.op = op], entry')
    /\ job' = [NoJob EXCEPT !.stage = "inspect", !.call = "ready", !.op = op, !.id = entry'.id]
    /\ scratch' = NoScratch
    /\ UNCHANGED <<open, child, env>>

\* A window may send any id it was ever told.
UiCancel(w, id) ==
    /\ w \in open
    /\ ServiceCancel(w, id)
    /\ view' = Snapshot(view, entry')
    /\ UNCHANGED <<open, job, child, scratch, env>>

CloseOwner(w) ==
    /\ w \in open
    /\ open' = open \ {w}
    /\ \/ /\ view.owner = w
          /\ ServiceCancel(w, view.id)
          /\ view' = Snapshot(view, entry')
       \/ view.owner # w /\ UNCHANGED <<entry, view>>
    /\ UNCHANGED <<job, child, scratch, env>>

\* The worker publishes its result and gives the slot back in one step.
UiFinish ==
    /\ job.stage = "finish"
    /\ ServiceFinish(job.id, job.status)
    /\ view' = [Snapshot(view, entry') EXCEPT
                    !.result = IF job.reported THEN job.status ELSE "none",
                    !.cleanup = job.cleanup]
    /\ job' = [job EXCEPT !.stage = "idle", !.call = "none"]
    /\ UNCHANGED <<open, child, scratch, env>>

-----------------------------------------------------------------------------
(* The blocking thread: suite::run, and process::run for each invocation.  *)

Opened(g) == IF g = "unset" THEN "open" ELSE g      \* WorkPermit::cleanup_deadline

StopReason ==
    IF entry.cancelled THEN "cancelled" ELSE IF entry.late THEN "timed-out" ELSE "none"

\* The cleanup runs under a permit of its own that only the grace period ends.
CallStop ==
    IF job.stage = "cleanup"
    THEN IF job.grace = "over" THEN "timed-out" ELSE "none"
    ELSE StopReason

FormatDue(j) == IF "hwp" \in j.ready /\ j.probes["hwp"] < 10 THEN "hwp" ELSE "hwpx"
ProbesDone(j) == \A f \in j.ready : j.probes[f] = 10

CurrentRequest ==
    CASE job.stage \in {"inspect", "reinspect"} -> PlainRequest("inspect")
      [] job.stage \in {"prepare", "cleanup"} -> PlainRequest(job.stage)
      [] job.stage = "probe" ->
            StepRequest(Steps(FormatDue(job))[job.probes[FormatDue(job)] + 1])

Goto(j, stage) == [j EXCEPT !.stage = stage, !.call = "ready", !.answer = "none"]
Done(j, status, reported) ==
    [j EXCEPT !.stage = "finish", !.call = "none", !.answer = "none",
              !.status = status, !.reported = reported]

Finalize(j) ==
    Done(j, IF ~j.cleanup THEN "failed"
            ELSE IF j.outcome # "ok" THEN j.outcome
            ELSE IF StopReason # "none" THEN StopReason ELSE "completed", TRUE)

\* The end of collect: what was prepared is cleaned up, whatever its outcome.  The
\* probes of a suite that failed are reported as invalid and not kept here.
Collected(j, outcome) ==
    LET k == [j EXCEPT !.outcome = outcome,
                       !.probes = IF outcome = "ok" THEN @ ELSE NoJob.probes]
    IN  IF k.ready = {} THEN Finalize(k)
        ELSE Goto([k EXCEPT !.grace = Opened(@)], "cleanup")

AfterInspect(j, answer, reply) ==
    IF answer # "ok" THEN Done(j, answer, j.op = "suite")
    ELSE IF j.op = "inspect" THEN Done(j, "completed", TRUE)
    ELSE Goto([j EXCEPT !.token = reply.token, !.ready = reply.ready],
              IF reply.ready = {} THEN "reinspect" ELSE "prepare")

AfterPrepare(j, answer, reply) ==
    IF answer = "ok" /\ reply.good THEN Goto(j, "probe")
    ELSE Collected(j, IF answer = "ok" THEN "failed" ELSE answer)

AfterProbe(j, answer, reply) ==
    LET k == [j EXCEPT !.probes[FormatDue(j)] = @ + 1]
    IN  IF answer # "ok" THEN Collected(j, answer)
        ELSE IF ~reply.good \/ reply.token # j.token THEN Collected(k, "failed")
        ELSE Goto(k, IF ProbesDone(k) THEN "reinspect" ELSE "probe")

\* (mutant) the registration is not compared again
AfterReinspectTrusts(j, answer, reply) == Collected([j EXCEPT !.seen = reply.token], answer)

AfterReinspect(j, answer, reply) ==
    Collected([j EXCEPT !.seen = reply.token],
              IF answer = "ok" /\ reply.token # j.token THEN "failed" ELSE answer)

AfterCleanup(j, answer, reply) ==
    Finalize([j EXCEPT !.cleanup = (answer = "ok" /\ reply.good)])

\* The suite goes on with the answer of an invocation, which is then forgotten.
Settle(j, answer, reply) ==
    /\ job' = CASE j.stage = "inspect"   -> AfterInspect(j, answer, reply)
                [] j.stage = "prepare"   -> AfterPrepare(j, answer, reply)
                [] j.stage = "probe"     -> AfterProbe(j, answer, reply)
                [] j.stage = "reinspect" -> AfterReinspect(j, answer, reply)
                [] j.stage = "cleanup"   -> AfterCleanup(j, answer, reply)
    /\ child' = NoChild

Ui == <<open, entry, view>>

StoppedBeforeLaunch ==
    /\ job.call = "ready" /\ CallStop # "none"
    /\ Settle(job, CallStop, NoReply)
    /\ UNCHANGED <<Ui, scratch, env>>

\* The pipes, the job object or the process cannot be made; a process that could
\* not be put in its job was never resumed and is terminated.
SpawnFails ==
    /\ job.call = "ready" /\ CallStop = "none"
    /\ Settle(job, "failed", NoReply)
    /\ UNCHANGED <<Ui, scratch, env>>

Launched == [NoChild EXCEPT !.req = CurrentRequest, !.root = "new"]

Launch ==
    /\ job.call = "ready" /\ CallStop = "none"
    /\ child' = Launched
    /\ job' = [job EXCEPT !.call = "poll"]
    /\ UNCHANGED <<Ui, scratch, env>>

\* complete(): the job is terminated whatever the answer, and nothing of the child runs
\* from then on.
Answered(answer, reply) ==
    /\ child' = [NoChild EXCEPT !.req = CurrentRequest, !.root = "killed", !.reply = reply]
    /\ job' = [job EXCEPT !.call = "complete", !.answer = answer,
                  !.grace = IF answer = "ok" \/ job.stage = "cleanup" THEN @ ELSE Opened(@)]
    /\ UNCHANGED <<Ui, scratch, env>>

\* No thread for the request: the process is terminated and waited for like the others.
WriterThreadFails ==
    /\ job.call = "ready" /\ CallStop = "none"
    /\ Answered("failed", NoReply)

\* No process holds the write ends of the pipes any more.
PipesClosed(c) == c.root = "dead" /\ ~c.kids

\* The request was stopped, or the budget of the call, which may end at any time, is spent.
PollStops ==
    /\ job.call = "poll"
    /\ Answered(IF CallStop # "none" THEN CallStop ELSE "timed-out", NoReply)

IsProbe(op) == op \in {"shell", "cache-only", "force-extract", "activate"}

\* A Shell extension may print at any time: output beyond its limit, or anything at all
\* on the error pipe, is refused.
PollRefuses ==
    /\ job.call = "poll" /\ CallStop = "none"
    /\ IsProbe(child.req.op) /\ child.root # "new"
    /\ Answered("failed", NoReply)

\* The process has exited but a descendant holds its pipes: the job is terminated.
PollReaps ==
    /\ job.call = "poll" /\ CallStop = "none"
    /\ child.root = "dead" /\ child.kids
    /\ child' = [child EXCEPT !.kids = FALSE]
    /\ UNCHANGED <<Ui, job, scratch, env>>

Decode(c) ==
    IF c.code = 124 THEN "timed-out"
    ELSE IF c.code # 0 \/ ~c.reply.written THEN "failed" ELSE "ok"

PollReturns ==
    /\ job.call = "poll" /\ CallStop = "none"
    /\ PipesClosed(child)
    /\ Answered(Decode(child), child.reply)

\* The own budget of an answered call, or of the cleanup, may end at any time.
OwnBudget == job.answer = "ok" \/ job.stage = "cleanup"
GraceStarts == [job EXCEPT !.grace = IF job.stage = "cleanup" THEN @ ELSE Opened(@)]

\* The job has ended and the writer too: an answer stands when the request was written.
Reclaimed ==
    /\ job.call = "complete"
    /\ OwnBudget \/ job.grace # "over"
    /\ \/ Settle(job, job.answer, child.reply)
       \/ job.answer = "ok" /\ Settle(GraceStarts, "failed", NoReply)
    /\ UNCHANGED <<Ui, scratch, env>>

\* The process or its writer is not reclaimed in time: it is left behind, and said so.
GivesUp ==
    /\ job.call = "complete"
    /\ OwnBudget \/ job.grace = "over"
    /\ Settle([GraceStarts EXCEPT !.zombie = TRUE], "failed", NoReply)
    /\ UNCHANGED <<Ui, scratch, env>>

Worker ==
    \/ StoppedBeforeLaunch \/ SpawnFails \/ Launch \/ WriterThreadFails
    \/ PollStops \/ PollRefuses \/ PollReaps \/ PollReturns
    \/ Reclaimed \/ GivesUp \/ UiFinish

-----------------------------------------------------------------------------
(* The child process.  Nothing of it runs once its job was terminated.     *)

Others == <<Ui, job, env>>
Runs == child.root = "run"
Stable == token = child.token
Intact ==
    /\ scratch.dir /\ scratch.files = SlotFiles /\ scratch.manifest /\ scratch.gone = 0
    /\ ~scratch.foreign /\ ~scratch.damaged

\* A Shell extension that a probe ran may have started a process that outlives it.
Exits(good) ==
    /\ \E kids \in BOOLEAN :
          /\ kids => IsProbe(child.req.op)
          /\ child' = [child EXCEPT !.root = "dead", !.code = 0, !.kids = kids,
                          !.reply = [good |-> good, token |-> child.token,
                                     ready |-> child.ready, written |-> TRUE]]
    /\ UNCHANGED Others

\* What a child knows of the registration is what it captured when it started.
Captured == [child EXCEPT !.root = "run", !.token = token, !.ready = ready]

\* The child is resumed, reads its request and captures the registration.
ChildStarts ==
    /\ child.root = "new"
    /\ ValidRequest(child.req)
    /\ child' = Captured
    /\ UNCHANGED <<Others, scratch>>

\* An error ends the child with 1 and its watchdog ends it with 124, at any point.
FailureCodes == {1, 124}
ChildFails(code) ==
    /\ child.root \in {"new", "run"}
    /\ child' = [child EXCEPT !.root = "dead", !.code = code]
    /\ UNCHANGED <<Others, scratch>>

ChildInspects ==
    /\ Runs /\ child.req.op = "inspect" /\ Stable
    /\ Exits(TRUE)
    /\ UNCHANGED scratch

PrepareDirectory ==
    /\ Runs /\ child.req.op = "prepare" /\ child.at = 0
    /\ child.ready # {} /\ Stable /\ ~scratch.dir
    /\ scratch' = [scratch EXCEPT !.dir = TRUE]
    /\ child' = [child EXCEPT !.at = 1]
    /\ UNCHANGED Others

PrepareFile ==
    /\ Runs /\ child.req.op = "prepare" /\ child.at = 1
    /\ \/ /\ scratch.files < SlotFiles
          /\ scratch' = [scratch EXCEPT !.files = @ + 1]
          /\ UNCHANGED child
       \/ /\ scratch.files = SlotFiles
          /\ scratch' = [scratch EXCEPT !.manifest = TRUE]
          /\ child' = [child EXCEPT !.at = 2]
    /\ UNCHANGED Others

PrepareReplies ==
    /\ Runs /\ child.req.op = "prepare" /\ child.at = 2
    /\ Exits(Intact /\ Stable)
    /\ UNCHANGED scratch

\* Only an absent directory, or one with all its files and nothing else, is cleaned.
CleanupLoads ==
    /\ Runs /\ child.req.op = "cleanup" /\ child.at = 0
    /\ IF scratch.dir /\ Intact
       THEN child' = [child EXCEPT !.at = 1] /\ UNCHANGED Others
       ELSE Exits(~scratch.dir)
    /\ UNCHANGED scratch

\* Every file is held by a verified handle before one is deleted.
CleanupGuards ==
    /\ Runs /\ child.req.op = "cleanup" /\ child.at = 1
    /\ \/ Intact /\ child' = [child EXCEPT !.at = 2] /\ UNCHANGED Others
       \/ Exits(FALSE)
    /\ UNCHANGED scratch

CleanupDeletes ==
    /\ Runs /\ child.req.op = "cleanup" /\ child.at = 2 /\ scratch.gone <= SlotFiles
    /\ \/ /\ scratch' = [scratch EXCEPT !.gone = @ + 1]
          /\ UNCHANGED <<child, Others>>
       \/ Exits(FALSE) /\ UNCHANGED scratch

\* (mutant) the directory is removed with all it holds
CleanupRemovesAll ==
    /\ Runs /\ child.req.op = "cleanup" /\ child.at = 2 /\ scratch.gone = SlotFiles + 1
    /\ scratch' = NoScratch /\ Exits(TRUE)

\* The directory is removed only when nothing is left in it.
CleanupRemoves ==
    /\ Runs /\ child.req.op = "cleanup" /\ child.at = 2 /\ scratch.gone = SlotFiles + 1
    /\ \/ ~scratch.foreign /\ scratch' = NoScratch /\ Exits(TRUE)
       \/ UNCHANGED scratch /\ Exits(FALSE)

ImageOp(op) == op \in {"shell", "cache-only", "force-extract"}
\* An image is taken of a copy in a whole directory, before and after which it is whole.
ImageHolds == ImageOp(child.req.op) => Intact

ChildProbes ==
    /\ Runs /\ child.req.format # "none"
    /\ child.req.op # "association" => child.req.format \in child.ready
    /\ ImageHolds /\ (ImageOp(child.req.op) => Stable)
    /\ \E valid \in BOOLEAN : Exits(valid /\ Stable /\ ImageHolds)
    /\ UNCHANGED scratch

Child ==
    \/ ChildStarts \/ (\E code \in FailureCodes : ChildFails(code))
    \/ ChildInspects \/ ChildProbes
    \/ PrepareDirectory \/ PrepareFile \/ PrepareReplies
    \/ CleanupLoads \/ CleanupGuards \/ CleanupDeletes \/ CleanupRemoves

-----------------------------------------------------------------------------
(* Time and other programs.                                                *)

RequestLate ==
    /\ entry.active /\ ~entry.late
    /\ entry' = [entry EXCEPT !.late = TRUE]
    /\ UNCHANGED <<open, view, job, child, scratch, env>>
GraceOver ==
    /\ job.stage # "idle" /\ job.grace = "open"
    /\ job' = [job EXCEPT !.grace = "over"]
    /\ UNCHANGED <<Ui, child, scratch, env>>

Registered ==
    /\ token <= MaxChanges
    /\ token' = token + 1
    /\ ready' \in ReadySets
    /\ UNCHANGED <<Ui, job, child, scratch>>

\* An unknown entry appears in the directory, or a copy in it is changed.
Disturbed ==
    /\ scratch.dir
    /\ \/ ~scratch.foreign /\ scratch' = [scratch EXCEPT !.foreign = TRUE]
       \/ /\ ~scratch.damaged /\ scratch.files > 0 /\ scratch.gone = 0 /\ child.at # 2
          /\ scratch' = [scratch EXCEPT !.damaged = TRUE]
    /\ UNCHANGED <<Ui, job, child, env>>

Next ==
    \/ \E w \in Windows :
          \/ CloseOwner(w) \/ \E id \in 1..MaxRequests : UiCancel(w, id)
          \/ UiBegin(w, "inspect", FALSE)
          \/ \E consent \in BOOLEAN : UiBegin(w, "suite", consent)
    \/ Worker
    \/ Child
    \/ RequestLate \/ GraceOver
    \/ Registered \/ Disturbed

\* The thread keeps polling and every deadline passes; a child need not ever answer.
Fairness == WF_vars(Worker) /\ WF_vars(RequestLate) /\ WF_vars(GraceOver)

Spec == Init /\ [][Next]_vars /\ Fairness

-----------------------------------------------------------------------------
(* What it promises.                                                       *)

TypeOK ==
    /\ open \subseteq Windows
    /\ entry \in [owner : Windows \cup {"nobody"}, id : 0..MaxRequests, seq : 0..3,
                  status : Terminal \cup {"none", "running", "cancelling"},
                  cancelled : BOOLEAN, late : BOOLEAN, active : BOOLEAN]
    /\ view \in [owner : Windows \cup {"nobody"}, id : 0..MaxRequests, seq : 0..3,
                 status : Terminal \cup {"none", "running", "cancelling"},
                 op : {"none", "inspect", "suite"}, result : Terminal \cup {"none"},
                 cleanup : BOOLEAN]
    /\ job.stage \in {"idle", "inspect", "prepare", "probe", "reinspect", "cleanup", "finish"}
    /\ job.call \in {"none", "ready", "poll", "complete"}
    /\ job.answer \in Errors \cup {"none", "ok"} /\ job.outcome \in Errors \cup {"ok"}
    /\ job.grace \in {"unset", "open", "over"} /\ job.cleanup \in BOOLEAN
    /\ job.probes \in [Formats -> 0..10] /\ job.ready \subseteq Formats
    /\ child.root \in {"none", "new", "run", "dead", "killed"} /\ child.code \in {0, 1, 124}
    /\ scratch.files \in 0..SlotFiles /\ scratch.gone \in 0..(SlotFiles + 1)
    /\ token \in Nat /\ ready \subseteq Formats

\* A request that ends with anything but "failed" has left neither a process nor a
\* scratch directory behind, whatever it was doing when it was stopped.
ReleasedClean ==
    ~entry.active /\ entry.status \in Terminal \ {"failed"} =>
        ~job.zombie /\ child = NoChild /\ ~scratch.dir

\* The slot is held for as long as the thread or a child of it works.
HeldWhileWorking ==
    /\ entry.active <=> job.stage # "idle"
    /\ child # NoChild => entry.active /\ job.call \in {"poll", "complete"}
    /\ entry.active => job.id = entry.id

\* A suite is published as completed only with ten probes of every ready format, all
\* made against the registration of its first inspection, and after its cleanup.
CompletedReport ==
    entry.status = "completed" =>
        /\ view.result = "completed" /\ view.cleanup
        /\ view.op = "suite" => ProbesDone(job) /\ job.seen = job.token

\* What a window reads is the slot itself, and a result never stands beside a
\* running request.
PublishedTogether ==
    /\ view.owner = entry.owner /\ view.id = entry.id
    /\ view.seq = entry.seq /\ view.status = entry.status
    /\ view.result # "none" => ~entry.active

\* The request of a window that was destroyed is being stopped.
OrphanIsCancelled ==
    entry.active /\ entry.owner \notin open => entry.status = "cancelling"

\* Every request the suite sends is one its child accepts.
RequestsAccepted == child.root # "none" => ValidRequest(child.req)

\* A directory that holds an entry nobody knows is never removed, and no file of a
\* changed directory is deleted.
UnknownKept ==
    [][entry.id' = entry.id =>
          /\ scratch.foreign => scratch'.dir
          /\ scratch'.gone > scratch.gone => ~scratch.damaged]_vars

\* The slot keeps the promise of the application's one-operation services.
Slot == INSTANCE OperationSlot WITH
    Owners <- Windows,
    holder <- entry.owner,
    held <- entry.active,
    status <- entry.status
ImplementsSlot == Slot!Spec

\* The slot, its windows, its thread and what a request has made always fit together; a request
\* that did not fail has left nothing, and a report of success is of one registration.
DiagnosticsSound ==
    /\ TypeOK /\ HeldWhileWorking /\ PublishedTogether /\ OrphanIsCancelled
    /\ ReleasedClean /\ CompletedReport /\ RequestsAccepted
=============================================================================
