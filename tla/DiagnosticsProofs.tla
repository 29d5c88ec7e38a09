------------------------- MODULE DiagnosticsProofs -------------------------
(***************************************************************************)
(* What is proved of the thumbnail diagnostics: the slot is held as long   *)
(* as the thread works, what windows read is the slot, the request of a    *)
(* destroyed window is being stopped, and every step is one of the         *)
(* abstract slot or leaves it alone; and what a request leaves and reports.*)
(*                                                                         *)
(* The first part is about the slot alone: of the suite it keeps which     *)
(* stage follows, and with which status it ends.  The second is about the  *)
(* suite, its child and its scratch directory.                             *)
(***************************************************************************)
EXTENDS Diagnostics, TLAPS

Statuses == Terminal \cup {"none", "running", "cancelling"}
Answers == Errors \cup {"ok"}
Working == {"inspect", "prepare", "probe", "reinspect", "cleanup"}

Entries == [owner : Windows \cup {"nobody"}, id : Nat, seq : Nat, status : Statuses,
            cancelled : BOOLEAN, late : BOOLEAN, active : BOOLEAN]

\* The slot and what windows read of it.
EntrySound ==
    /\ entry \in Entries
    /\ entry.active => entry.status \in {"running", "cancelling"}
    /\ entry.active => (entry.cancelled <=> entry.status = "cancelling")
    /\ ~entry.active => entry.status \in Terminal \cup {"none"}

\* A record with the fields of the thread's state.
JobShape(j) ==
    j = [x \in {"stage", "call", "op", "id", "token", "seen", "ready", "probes", "answer",
                "outcome", "cleanup", "grace", "zombie", "status", "reported"} |-> j[x]]
ViewShape(v) ==
    v = [x \in {"owner", "id", "seq", "status", "op", "result", "cleanup"} |-> v[x]]

\* The thread is at a stage of its suite, or has a status to finish with.
JobSound(j) ==
    /\ JobShape(j)
    /\ j.stage \in Working \cup {"idle", "finish"}
    /\ j.stage \notin Working => j.call = "none"
    /\ j.call = "complete" => j.answer \in Answers
    /\ j.stage = "finish" => j.status \in Terminal
    /\ j.outcome \in Answers

SlotInv ==
    /\ EntrySound
    /\ ViewShape(view)
    /\ JobSound(job)
    /\ PublishedTogether
    /\ HeldWhileWorking
    /\ OrphanIsCancelled

-----------------------------------------------------------------------------
(* The suite: whatever an invocation answered, the thread goes on with its  *)
(* own request.                                                             *)

\* j is followed by k: the request is the same and the thread is not idle.
Follows(j, k) == JobSound(k) /\ k.id = j.id /\ k.stage # "idle"

LEMMA StopReasonIs == StopReason \in {"none", "cancelled", "timed-out"}
BY DEF StopReason

LEMMA CallStopIs == CallStop \in {"none", "cancelled", "timed-out"}
BY StopReasonIs DEF CallStop

LEMMA GotoSound ==
    ASSUME NEW j, JobShape(j), j.outcome \in Answers, NEW stage \in Working
    PROVE  Follows(j, Goto(j, stage))
BY DEF Goto, Follows, JobSound, JobShape, Working, Answers, Errors

LEMMA DoneSound ==
    ASSUME NEW j, JobShape(j), j.outcome \in Answers, NEW s \in Terminal, NEW reported
    PROVE  Follows(j, Done(j, s, reported))
BY DEF Done, Follows, JobSound, JobShape, Working, Answers, Terminal, Errors

LEMMA FinalizeSound ==
    ASSUME NEW j, JobShape(j), j.outcome \in Answers
    PROVE  Follows(j, Finalize(j))
<1> DEFINE s == IF ~j.cleanup THEN "failed"
                ELSE IF j.outcome # "ok" THEN j.outcome
                ELSE IF StopReason # "none" THEN StopReason ELSE "completed"
<1>1. s \in Terminal
  BY StopReasonIs DEF Terminal, Errors, Answers
<1> HIDE DEF s
<1>2. Follows(j, Done(j, s, TRUE))
  BY <1>1, DoneSound
<1> QED BY <1>2 DEF Finalize, s

LEMMA FollowsTrans ==
    ASSUME NEW j, NEW k, NEW l, k.id = j.id, Follows(k, l)
    PROVE  Follows(j, l)
BY DEF Follows

LEMMA CollectedSound ==
    ASSUME NEW j, JobShape(j), NEW outcome \in Answers
    PROVE  Follows(j, Collected(j, outcome))
<1> DEFINE p == IF outcome = "ok" THEN j.probes ELSE NoJob.probes
           k == [j EXCEPT !.outcome = outcome, !.probes = p]
           g == [k EXCEPT !.grace = Opened(k.grace)]
<1>1. JobShape(k) /\ k.id = j.id /\ k.outcome = outcome
  <2> HIDE DEF p
  <2> QED BY DEF JobShape
<1>2. JobShape(g) /\ g.id = k.id /\ g.outcome = k.outcome
  <2> HIDE DEF k
  <2> QED BY <1>1 DEF JobShape
<1>3. Collected(j, outcome) = IF k.ready = {} THEN Finalize(k) ELSE Goto(g, "cleanup")
  BY DEF Collected
<1> HIDE DEF k, g
<1>4. Follows(k, Finalize(k))
  BY <1>1, FinalizeSound
<1>5. Follows(g, Goto(g, "cleanup"))
  BY <1>1, <1>2, GotoSound DEF Working
<1> QED BY <1>1, <1>2, <1>3, <1>4, <1>5 DEF Follows

LEMMA AfterInspectSound ==
    ASSUME NEW j, JobShape(j), j.outcome \in Answers, NEW answer \in Answers, NEW reply
    PROVE  Follows(j, AfterInspect(j, answer, reply))
<1> DEFINE k == [j EXCEPT !.token = reply.token, !.ready = reply.ready]
           next == IF reply.ready = {} THEN "reinspect" ELSE "prepare"
<1>1. JobShape(k) /\ k.id = j.id /\ k.outcome = j.outcome
  BY DEF JobShape
<1>2. next \in Working
  BY DEF Working
<1>3. AfterInspect(j, answer, reply) = IF answer # "ok" THEN Done(j, answer, j.op = "suite")
                                      ELSE IF j.op = "inspect" THEN Done(j, "completed", TRUE)
                                      ELSE Goto(k, next)
  BY DEF AfterInspect
<1> HIDE DEF k, next
<1>4. Follows(j, Goto(k, next))
  BY <1>1, <1>2, GotoSound, FollowsTrans
<1>5. CASE answer # "ok"
  <2>1. answer \in Terminal
    BY <1>5 DEF Answers, Terminal
  <2> QED BY <1>3, <1>5, <2>1, DoneSound
<1>6. CASE answer = "ok" /\ j.op = "inspect"
  BY <1>3, <1>6, DoneSound DEF Terminal
<1> QED BY <1>3, <1>4, <1>5, <1>6

LEMMA AfterPrepareSound ==
    ASSUME NEW j, JobShape(j), j.outcome \in Answers, NEW answer \in Answers, NEW reply
    PROVE  Follows(j, AfterPrepare(j, answer, reply))
<1>1. (IF answer = "ok" THEN "failed" ELSE answer) \in Answers
  BY DEF Answers, Errors
<1> QED BY <1>1, GotoSound, CollectedSound DEF AfterPrepare, Working

LEMMA AfterProbeSound ==
    ASSUME NEW j, JobShape(j), j.outcome \in Answers, NEW answer \in Answers, NEW reply
    PROVE  Follows(j, AfterProbe(j, answer, reply))
<1> DEFINE p == [j.probes EXCEPT ![FormatDue(j)] = @ + 1]
           k == [j EXCEPT !.probes = p]
           next == IF ProbesDone(k) THEN "reinspect" ELSE "probe"
<1>1. JobShape(k) /\ k.id = j.id /\ k.outcome = j.outcome
  <2> HIDE DEF p
  <2> QED BY DEF JobShape
<1>2. next \in Working /\ "failed" \in Answers
  BY DEF Working, Answers, Errors
<1>3. AfterProbe(j, answer, reply) =
        IF answer # "ok" THEN Collected(j, answer)
        ELSE IF ~reply.good \/ reply.token # j.token THEN Collected(k, "failed")
        ELSE Goto(k, next)
  BY DEF AfterProbe
<1> HIDE DEF k, next
<1>4. Follows(j, Collected(j, answer))
  BY CollectedSound
<1>5. Follows(j, Collected(k, "failed")) /\ Follows(j, Goto(k, next))
  BY <1>1, <1>2, CollectedSound, GotoSound, FollowsTrans
<1> QED BY <1>3, <1>4, <1>5

LEMMA AfterReinspectSound ==
    ASSUME NEW j, JobShape(j), NEW answer \in Answers, NEW reply
    PROVE  Follows(j, AfterReinspect(j, answer, reply))
<1> DEFINE k == [j EXCEPT !.seen = reply.token]
           o == IF answer = "ok" /\ reply.token # j.token THEN "failed" ELSE answer
<1>1. JobShape(k) /\ k.id = j.id
  BY DEF JobShape
<1>2. o \in Answers
  BY DEF Answers, Errors
<1>3. AfterReinspect(j, answer, reply) = Collected(k, o)
  BY DEF AfterReinspect
<1> HIDE DEF k, o
<1> QED BY <1>1, <1>2, <1>3, CollectedSound, FollowsTrans

LEMMA AfterCleanupSound ==
    ASSUME NEW j, JobShape(j), j.outcome \in Answers, NEW answer, NEW reply
    PROVE  Follows(j, AfterCleanup(j, answer, reply))
<1> DEFINE c == answer = "ok" /\ reply.good
           k == [j EXCEPT !.cleanup = c]
<1>1. JobShape(k) /\ k.id = j.id /\ k.outcome = j.outcome
  <2> HIDE DEF c
  <2> QED BY DEF JobShape
<1>2. AfterCleanup(j, answer, reply) = Finalize(k)
  BY DEF AfterCleanup
<1> HIDE DEF k
<1> QED BY <1>1, <1>2, FinalizeSound, FollowsTrans

LEMMA SettleSound ==
    ASSUME NEW j, JobShape(j), j.stage \in Working, j.outcome \in Answers,
           NEW answer \in Answers, NEW reply, Settle(j, answer, reply)
    PROVE  Follows(j, job') /\ child' = NoChild
BY AfterInspectSound, AfterPrepareSound, AfterProbeSound, AfterReinspectSound, AfterCleanupSound
   DEF Settle, Working

-----------------------------------------------------------------------------
(* Steps that leave the slot and what windows read alone.                   *)

\* The thread goes on, is at work or idle as before, and a child belongs to a call.
GoesOn ==
    /\ UNCHANGED <<open, entry, view>>
    /\ JobSound(job') /\ job'.id = job.id
    /\ job'.stage = "idle" <=> job.stage = "idle"
    /\ child' # NoChild => entry.active /\ job'.call \in {"poll", "complete"}

LEMMA GoesOnSound == SlotInv /\ GoesOn => SlotInv'
BY DEF SlotInv, GoesOn, EntrySound, ViewShape, PublishedTogether, HeldWhileWorking,
       OrphanIsCancelled

LEMMA SettleGoesOn ==
    ASSUME SlotInv, NEW j, JobShape(j), j.id = job.id, j.stage \in Working, job.stage \in Working,
           j.outcome \in Answers, NEW answer \in Answers, NEW reply, Settle(j, answer, reply),
           UNCHANGED Ui
    PROVE  GoesOn
<1>1. Follows(j, job') /\ child' = NoChild
  BY SettleSound
<1> QED BY <1>1 DEF Follows, GoesOn, Ui, Working

\* A call is answered while it is made, and only then has a child.
LEMMA AnsweredGoesOn ==
    ASSUME SlotInv, job.stage \in Working, NEW answer \in Answers, NEW reply, Answered(answer, reply)
    PROVE  GoesOn
<1> DEFINE g == IF answer = "ok" \/ job.stage = "cleanup" THEN job.grace ELSE Opened(job.grace)
<1>1. job' = [job EXCEPT !.call = "complete", !.answer = answer, !.grace = g]
  BY DEF Answered
<1> HIDE DEF g
<1>2. /\ JobShape(job') /\ job'.id = job.id /\ job'.stage = job.stage
      /\ job'.outcome = job.outcome /\ job'.call = "complete" /\ job'.answer = answer
  BY <1>1 DEF SlotInv, JobSound, JobShape
<1>3. JobSound(job') /\ job'.stage # "idle"
  BY <1>2 DEF SlotInv, JobSound, Working
<1>4. entry.active
  BY DEF SlotInv, HeldWhileWorking, Working
<1> QED BY <1>2, <1>3, <1>4 DEF GoesOn, Answered, Ui, Working

\* One step of the thread that is not its last.
LEMMA ThreadGoesOn ==
    ASSUME SlotInv,
           \/ StoppedBeforeLaunch \/ SpawnFails \/ Launch \/ WriterThreadFails
           \/ PollStops \/ PollRefuses \/ PollReaps \/ PollReturns \/ Reclaimed \/ GivesUp
    PROVE  GoesOn
<1>1. JobShape(job) /\ job.outcome \in Answers
  BY DEF SlotInv, JobSound
<1>2. job.call \in {"ready", "poll", "complete"} => job.stage \in Working /\ entry.active
  BY DEF SlotInv, JobSound, HeldWhileWorking, Working
<1>3. "failed" \in Answers /\ "timed-out" \in Answers /\ (CallStop # "none" => CallStop \in Answers)
  BY CallStopIs DEF Answers, Errors
<1>4. CASE StoppedBeforeLaunch
  BY <1>1, <1>2, <1>3, <1>4, SettleGoesOn DEF StoppedBeforeLaunch
<1>5. CASE SpawnFails
  BY <1>1, <1>2, <1>3, <1>5, SettleGoesOn DEF SpawnFails
<1>6. CASE Launch
  <2>1. job' = [job EXCEPT !.call = "poll"] /\ UNCHANGED Ui /\ job.call = "ready"
    BY <1>6 DEF Launch
  <2>2. /\ JobShape(job') /\ job'.id = job.id /\ job'.stage = job.stage
        /\ job'.outcome = job.outcome /\ job'.call = "poll"
    BY <1>1, <2>1 DEF JobShape
  <2> QED BY <1>1, <1>2, <2>1, <2>2 DEF GoesOn, JobSound, Ui, Working
<1>7. CASE WriterThreadFails
  BY <1>2, <1>3, <1>7, AnsweredGoesOn DEF WriterThreadFails
<1>8. CASE PollStops
  BY <1>2, <1>3, <1>8, AnsweredGoesOn DEF PollStops
<1>9. CASE PollRefuses
  BY <1>2, <1>3, <1>9, AnsweredGoesOn DEF PollRefuses
<1>10. CASE PollReaps
  BY <1>2, <1>10 DEF PollReaps, GoesOn, Ui, SlotInv
<1>11. CASE PollReturns
  <2>1. Decode(child) \in Answers
    BY DEF Decode, Answers, Errors
  <2> QED BY <1>2, <1>11, <2>1, AnsweredGoesOn DEF PollReturns
<1>12. CASE Reclaimed \/ GivesUp
  <2> DEFINE g == IF job.stage = "cleanup" THEN job.grace ELSE Opened(job.grace)
             z == [GraceStarts EXCEPT !.zombie = TRUE]
  <2>1. job.stage \in Working /\ UNCHANGED Ui /\ job.answer \in Answers
    BY <1>2, <1>12 DEF Reclaimed, GivesUp, SlotInv, JobSound
  <2>2. GraceStarts = [job EXCEPT !.grace = g]
    BY DEF GraceStarts
  <2>3. z = [[job EXCEPT !.grace = g] EXCEPT !.zombie = TRUE]
    BY <2>2
  <2>4. JobShape(GraceStarts) /\ GraceStarts.id = job.id /\ GraceStarts.stage = job.stage
        /\ GraceStarts.outcome = job.outcome
    <3> HIDE DEF g
    <3> QED BY <1>1, <2>2 DEF JobShape
  <2>5. JobShape(z) /\ z.id = job.id /\ z.stage = job.stage /\ z.outcome = job.outcome
    <3> HIDE DEF g, z
    <3> QED BY <1>1, <2>3 DEF JobShape
  <2> HIDE DEF z
  <2>6. \/ Settle(job, job.answer, child.reply) \/ Settle(GraceStarts, "failed", NoReply)
        \/ Settle(z, "failed", NoReply)
    BY <1>12 DEF Reclaimed, GivesUp, z
  <2> QED BY <1>1, <1>3, <2>1, <2>4, <2>5, <2>6, SettleGoesOn
<1> QED BY <1>4, <1>5, <1>6, <1>7, <1>8, <1>9, <1>10, <1>11, <1>12

\* The child runs only during a call.
LEMMA ChildGoesOn == ASSUME SlotInv, Child PROVE GoesOn
<1>1. child.root \in {"new", "run", "dead"} /\ UNCHANGED <<open, entry, view, job>>
  <2>1. CASE ChildStarts \/ \E code \in FailureCodes : ChildFails(code)
    BY <2>1 DEF ChildStarts, ChildFails, Others, Ui
  <2>2. CASE ChildInspects \/ ChildProbes
    BY <2>2 DEF ChildInspects, ChildProbes, Exits, Runs, Others, Ui
  <2>3. CASE PrepareDirectory \/ PrepareFile \/ PrepareReplies
    BY <2>3 DEF PrepareDirectory, PrepareFile, PrepareReplies, Exits, Runs, Others, Ui
  <2>4. CASE CleanupLoads \/ CleanupGuards \/ CleanupDeletes \/ CleanupRemoves
    BY <2>4 DEF CleanupLoads, CleanupGuards, CleanupDeletes, CleanupRemoves, Exits, Runs, Others, Ui
  <2> QED BY <2>1, <2>2, <2>3, <2>4 DEF Child
<1>2. NoChild.root = "none"
  BY DEF NoChild
<1>3. child # NoChild
  BY <1>1, <1>2
<1> QED BY <1>1, <1>3 DEF GoesOn, SlotInv, HeldWhileWorking

LEMMA TimeGoesOn == ASSUME SlotInv, GraceOver \/ Registered \/ Disturbed PROVE GoesOn
<1>1. CASE GraceOver
  <2>1. job' = [job EXCEPT !.grace = "over"] /\ UNCHANGED <<open, entry, view, child>>
    BY <1>1 DEF GraceOver, Ui
  <2>2. /\ JobShape(job') /\ job'.id = job.id /\ job'.stage = job.stage
        /\ job'.outcome = job.outcome /\ job'.call = job.call /\ job'.answer = job.answer
        /\ job'.status = job.status
    BY <2>1 DEF SlotInv, JobSound, JobShape
  <2> QED BY <2>1, <2>2 DEF GoesOn, SlotInv, JobSound, HeldWhileWorking
<1>2. CASE Registered \/ Disturbed
  BY <1>2 DEF Registered, Disturbed, Ui, GoesOn, SlotInv, HeldWhileWorking
<1> QED BY <1>1, <1>2

-----------------------------------------------------------------------------
(* Steps of the slot.                                                       *)

\* The entry after a cancellation, a finish and a deadline, as members of their set.
LEMMA EntryMembers ==
    ASSUME NEW e \in Entries, NEW s \in Statuses
    PROVE  /\ [e EXCEPT !.cancelled = TRUE, !.status = "cancelling", !.seq = e.seq + 1] \in Entries
           /\ [e EXCEPT !.status = s, !.seq = e.seq + 1, !.active = FALSE] \in Entries
           /\ [e EXCEPT !.late = TRUE] \in Entries
<1> DEFINE t == "cancelling"
<1>1. TRUE \in BOOLEAN /\ FALSE \in BOOLEAN /\ t \in Statuses /\ e.seq + 1 \in Nat
  BY DEF Entries, Statuses
<1>2. \A b \in BOOLEAN, u \in Statuses, n \in Nat :
        /\ [e EXCEPT !.cancelled = b, !.status = u, !.seq = n] \in Entries
        /\ [e EXCEPT !.status = u, !.seq = n, !.active = b] \in Entries
        /\ [e EXCEPT !.late = b] \in Entries
  BY DEF Entries
<1> QED BY <1>1, <1>2

LEMMA SnapshotTells ==
    ASSUME NEW v, ViewShape(v), NEW e
    PROVE  /\ ViewShape(Snapshot(v, e)) /\ Snapshot(v, e).owner = v.owner
           /\ Snapshot(v, e).id = e.id /\ Snapshot(v, e).seq = e.seq
           /\ Snapshot(v, e).status = e.status /\ Snapshot(v, e).result = v.result
BY DEF Snapshot, ViewShape

\* What a step does to the slot, in the words of the abstract specification.
Begins == /\ ~entry.active /\ entry'.active /\ entry'.owner \in Windows
          /\ entry'.status = "running"
Cancels == /\ entry.active /\ entry.status = "running" /\ entry'.active
           /\ entry'.status = "cancelling" /\ entry'.owner = entry.owner
Releases == /\ entry.active /\ ~entry'.active /\ entry'.owner = entry.owner
            /\ entry'.status \in Terminal
            /\ entry.status = "cancelling" => entry'.status \in {"cancelled", "failed"}
Rests == entry'.owner = entry.owner /\ entry'.active = entry.active /\ entry'.status = entry.status

LEMMA BeginSound ==
    ASSUME SlotInv, NEW w \in Windows, NEW op, NEW consent, UiBegin(w, op, consent)
    PROVE  SlotInv' /\ Begins
<1> DEFINE fresh == [NoView EXCEPT !.owner = w, !.op = op]
<1>1. /\ entry' = [NoEntry EXCEPT !.owner = w, !.id = entry.id + 1, !.seq = 1,
                                  !.status = "running", !.active = TRUE]
      /\ ~entry.active /\ w \in open /\ open' = open /\ child' = child
      /\ view' = Snapshot(fresh, entry')
      /\ job' = [NoJob EXCEPT !.stage = "inspect", !.call = "ready", !.op = op, !.id = entry'.id]
  BY DEF UiBegin, ServiceBegin
<1>2. entry' = [owner |-> w, id |-> entry.id + 1, seq |-> 1, status |-> "running",
                cancelled |-> FALSE, late |-> FALSE, active |-> TRUE]
  BY <1>1 DEF NoEntry
<1>3. /\ entry' \in Entries /\ entry'.owner = w /\ entry'.status = "running"
      /\ entry'.active = TRUE /\ entry'.cancelled = FALSE
  BY <1>2 DEF Entries, Statuses, SlotInv, EntrySound
<1>4. ViewShape(fresh) /\ fresh.owner = w /\ fresh.result = "none"
  BY DEF NoView, ViewShape
<1>5. /\ ViewShape(view') /\ view'.owner = w /\ view'.result = "none"
      /\ view'.id = entry'.id /\ view'.seq = entry'.seq /\ view'.status = entry'.status
  <2> HIDE DEF fresh
  <2> QED BY <1>1, <1>4, SnapshotTells
<1>6. JobSound(job') /\ job'.id = entry'.id /\ job'.stage = "inspect"
  <2>1. JobShape(NoJob) /\ NoJob.outcome = "ok"
    BY DEF NoJob, JobShape
  <2>2. /\ JobShape(job') /\ job'.stage = "inspect" /\ job'.call = "ready"
        /\ job'.id = entry'.id /\ job'.outcome = "ok"
    <3>1. \A n : LET k == [NoJob EXCEPT !.stage = "inspect", !.call = "ready", !.op = op, !.id = n]
                IN /\ JobShape(k) /\ k.stage = "inspect" /\ k.call = "ready" /\ k.id = n
                   /\ k.outcome = "ok"
      BY <2>1 DEF JobShape
    <3> QED BY <1>1, <3>1, Zenon
  <2> QED BY <2>2 DEF JobSound, Working, Answers
<1>7. child' = NoChild
  BY <1>1 DEF SlotInv, HeldWhileWorking
<1>8. EntrySound'
  BY <1>3 DEF EntrySound
<1> QED BY <1>1, <1>3, <1>5, <1>6, <1>7, <1>8
        DEF SlotInv, PublishedTogether, HeldWhileWorking, OrphanIsCancelled, Begins, NoChild

\* A cancellation of an active request that was not cancelled before.
LEMMA CancelSound ==
    ASSUME SlotInv, NEW w, NEW id, ServiceCancel(w, id)
    PROVE  /\ EntrySound' /\ (Cancels \/ Rests) /\ (entry'.active => entry'.status = "cancelling")
           /\ entry'.id = entry.id /\ entry'.owner = entry.owner /\ entry'.active = entry.active
<1>1. CASE entry.active /\ entry.status # "cancelling"
  <2>1. entry' = [entry EXCEPT !.cancelled = TRUE, !.status = "cancelling", !.seq = entry.seq + 1]
    BY <1>1 DEF ServiceCancel
  <2>2. entry' \in Entries
    BY <2>1, EntryMembers DEF SlotInv, EntrySound, Statuses
  <2>3. /\ entry'.cancelled = TRUE /\ entry'.status = "cancelling" /\ entry'.id = entry.id
        /\ entry'.owner = entry.owner /\ entry'.active = entry.active
    BY <2>1 DEF SlotInv, EntrySound, Entries
  <2>4. entry.status = "running"
    BY <1>1 DEF SlotInv, EntrySound
  <2> QED BY <1>1, <2>2, <2>3, <2>4 DEF EntrySound, Cancels
<1>2. CASE ~(entry.active /\ entry.status # "cancelling")
  BY <1>2 DEF ServiceCancel, SlotInv, EntrySound, Rests
<1> QED BY <1>1, <1>2

\* What windows read follows the slot.
LEMMA ToldSound ==
    ASSUME SlotInv, NEW w, NEW id, ServiceCancel(w, id), view' = Snapshot(view, entry'),
           UNCHANGED <<job, child>>
    PROVE  SlotInv' /\ (Cancels \/ Rests)
<1>1. ViewShape(view') /\ view'.owner = view.owner /\ view'.result = view.result
      /\ view'.id = entry'.id /\ view'.seq = entry'.seq /\ view'.status = entry'.status
  BY SnapshotTells DEF SlotInv
<1> QED BY <1>1, CancelSound
        DEF SlotInv, PublishedTogether, HeldWhileWorking, OrphanIsCancelled, JobSound, JobShape

LEMMA CloseSound ==
    ASSUME SlotInv, NEW w \in Windows, CloseOwner(w)
    PROVE  SlotInv' /\ (Cancels \/ Rests)
<1>1. CASE view.owner = w /\ ServiceCancel(w, view.id) /\ view' = Snapshot(view, entry')
  BY <1>1, ToldSound DEF CloseOwner
<1>2. CASE view.owner # w /\ UNCHANGED <<entry, view>>
  BY <1>2 DEF CloseOwner, SlotInv, EntrySound, ViewShape, JobSound, JobShape, PublishedTogether,
              HeldWhileWorking, OrphanIsCancelled, Rests
<1> QED BY <1>1, <1>2 DEF CloseOwner

LEMMA FinishSound == ASSUME SlotInv, UiFinish PROVE SlotInv' /\ Releases
<1> DEFINE s == IF job.status = "failed" THEN "failed"
                ELSE IF entry.cancelled THEN "cancelled"
                ELSE IF entry.late THEN "timed-out" ELSE job.status
           r == IF job.reported THEN job.status ELSE "none"
<1>1. /\ job.stage = "finish" /\ job.status \in Terminal /\ job.call = "none"
      /\ entry.id = job.id /\ entry.active
  BY DEF UiFinish, ServiceFinish, SlotInv, JobSound, Working
<1>2. s \in Terminal /\ (entry.cancelled => s \in {"cancelled", "failed"})
  BY <1>1 DEF Terminal, Errors
<1>3. entry' = [entry EXCEPT !.status = s, !.seq = entry.seq + 1, !.active = FALSE]
  BY DEF UiFinish, ServiceFinish
<1>4. view' = [Snapshot(view, entry') EXCEPT !.result = r, !.cleanup = job.cleanup]
  BY DEF UiFinish
<1>5. job' = [job EXCEPT !.stage = "idle", !.call = "none"] /\ open' = open /\ child' = child
  BY DEF UiFinish
<1> HIDE DEF s, r
<1>6. entry' \in Entries
  BY <1>2, <1>3, EntryMembers DEF SlotInv, EntrySound, Statuses
<1>7. /\ entry'.status = s /\ entry'.active = FALSE /\ entry'.id = entry.id
      /\ entry'.owner = entry.owner
  BY <1>3 DEF SlotInv, EntrySound, Entries
<1>8. EntrySound'
  BY <1>2, <1>6, <1>7 DEF EntrySound
<1>9. ViewShape(Snapshot(view, entry')) /\ Snapshot(view, entry').owner = view.owner
      /\ Snapshot(view, entry').id = entry'.id /\ Snapshot(view, entry').seq = entry'.seq
      /\ Snapshot(view, entry').status = entry'.status
  BY SnapshotTells DEF SlotInv
<1>10. ViewShape(view') /\ view'.owner = view.owner
       /\ view'.id = entry'.id /\ view'.seq = entry'.seq /\ view'.status = entry'.status
  BY <1>4, <1>9 DEF ViewShape
<1>11. JobSound(job') /\ job'.stage = "idle"
  BY <1>5 DEF SlotInv, JobSound, JobShape, Working
<1>12. child' = NoChild
  BY <1>1, <1>5 DEF SlotInv, HeldWhileWorking
<1>13. Releases
  BY <1>1, <1>2, <1>7 DEF Releases, SlotInv, EntrySound
<1> QED BY <1>7, <1>8, <1>10, <1>11, <1>12, <1>13
        DEF SlotInv, PublishedTogether, HeldWhileWorking, OrphanIsCancelled, NoChild

LEMMA LateSound == ASSUME SlotInv, RequestLate PROVE SlotInv' /\ Rests
<1>1. entry' = [entry EXCEPT !.late = TRUE] /\ UNCHANGED <<open, view, job, child>>
  BY DEF RequestLate
<1>2. entry' \in Entries
  BY <1>1, EntryMembers DEF SlotInv, EntrySound, Statuses
<1>3. /\ entry'.status = entry.status /\ entry'.active = entry.active /\ entry'.id = entry.id
      /\ entry'.owner = entry.owner /\ entry'.cancelled = entry.cancelled /\ entry'.seq = entry.seq
  BY <1>1 DEF SlotInv, EntrySound, Entries
<1>4. EntrySound'
  BY <1>2, <1>3 DEF SlotInv, EntrySound
<1> QED BY <1>1, <1>3, <1>4 DEF SlotInv, PublishedTogether, HeldWhileWorking, OrphanIsCancelled,
        JobSound, JobShape, ViewShape, Rests

-----------------------------------------------------------------------------
(* Theorems.                                                                *)

LEMMA SlotInitial == Init => SlotInv
<1> SUFFICES ASSUME Init PROVE SlotInv
  OBVIOUS
<1>1. EntrySound
  BY DEF Init, EntrySound, Entries, Statuses, NoEntry
<1>2. ViewShape(view) /\ JobSound(job)
  BY DEF Init, ViewShape, NoView, JobSound, JobShape, NoJob, Working, Answers
<1> QED BY <1>1, <1>2 DEF Init, SlotInv, PublishedTogether, HeldWhileWorking, OrphanIsCancelled,
        NoEntry, NoView, NoJob

\* Every step keeps the invariant and is one of the slot, or leaves it alone.
LEMMA SlotStep == SlotInv /\ [Next]_vars => SlotInv' /\ (Begins \/ Cancels \/ Releases \/ Rests)
<1> SUFFICES ASSUME SlotInv, [Next]_vars PROVE SlotInv' /\ (Begins \/ Cancels \/ Releases \/ Rests)
  OBVIOUS
<1>1. ASSUME GoesOn PROVE SlotInv' /\ Rests
  BY <1>1, GoesOnSound DEF GoesOn, Rests
<1>2. ASSUME NEW w \in Windows, CloseOwner(w) PROVE SlotInv' /\ (Cancels \/ Rests)
  BY <1>2, CloseSound
<1>3. ASSUME NEW w \in Windows, NEW id \in 1..MaxRequests, UiCancel(w, id)
      PROVE  SlotInv' /\ (Cancels \/ Rests)
  BY <1>3, ToldSound DEF UiCancel
<1>4. ASSUME NEW w \in Windows, NEW op, NEW consent, UiBegin(w, op, consent) PROVE SlotInv' /\ Begins
  BY <1>4, BeginSound
<1>5. CASE Worker
  BY <1>1, <1>5, ThreadGoesOn, FinishSound DEF Worker
<1>6. CASE Child
  BY <1>1, <1>6, ChildGoesOn
<1>7. CASE RequestLate
  BY <1>7, LateSound
<1>8. CASE GraceOver \/ Registered \/ Disturbed
  BY <1>1, <1>8, TimeGoesOn
<1>9. CASE UNCHANGED vars
  BY <1>9 DEF vars, env, SlotInv, EntrySound, ViewShape, JobSound, JobShape, PublishedTogether,
              HeldWhileWorking, OrphanIsCancelled, Rests
<1> QED BY <1>2, <1>3, <1>4, <1>5, <1>6, <1>7, <1>8, <1>9 DEF Next

\* The native slot, the desktop's view of the operation, its job on the worker thread and the
\* report always fit together: what service.rs and ui_service.rs of the diagnostics keep true
\* while they hold their mutex, whatever order threads, windows and deadlines take.
THEOREM SlotCorrect == Spec => []SlotInv
<1> QED BY SlotInitial, SlotStep, PTL DEF Spec

\* The slot is held exactly as long as the thread works, and a process belongs to a call of it.
THEOREM DiagnosticsHeld == Spec => []HeldWhileWorking
<1>1. SlotInv => HeldWhileWorking
  BY DEF SlotInv
<1> QED BY <1>1, SlotCorrect, PTL

\* What every window reads is the slot itself.
THEOREM DiagnosticsPublished == Spec => []PublishedTogether
<1>1. SlotInv => PublishedTogether
  BY DEF SlotInv
<1> QED BY <1>1, SlotCorrect, PTL

\* The request of a destroyed window is being stopped.
THEOREM DiagnosticsOrphan == Spec => []OrphanIsCancelled
<1>1. SlotInv => OrphanIsCancelled
  BY DEF SlotInv
<1> QED BY <1>1, SlotCorrect, PTL

\* The safety part of ImplementsSlot: the diagnostics start as a free slot, and every step of
\* windows, thread, child, time and other programs begins, cancels or releases an operation as
\* the abstract slot does, or changes none of it.
THEOREM DiagnosticsImplementSlot == Spec => Slot!Init /\ [][Slot!Next]_(Slot!slotVars)
<1>1. Init => Slot!Init
  BY DEF Init, NoEntry, Slot!Init
<1>2. SlotInv /\ [Next]_vars => [Slot!Next]_(Slot!slotVars)
  <2> SUFFICES ASSUME SlotInv, [Next]_vars PROVE [Slot!Next]_(Slot!slotVars)
    OBVIOUS
  <2>1. CASE Begins
    BY <2>1 DEF Begins, Slot!Next, Slot!Begin
  <2>2. CASE Cancels
    BY <2>2 DEF Cancels, Slot!Next, Slot!Cancel
  <2>3. CASE Releases
    BY <2>3 DEF Releases, Slot!Next, Slot!Release
  <2>4. CASE Rests
    BY <2>4 DEF Rests, Slot!slotVars
  <2> QED BY <2>1, <2>2, <2>3, <2>4, SlotStep
<1> QED BY <1>1, <1>2, SlotCorrect, PTL DEF Spec

-----------------------------------------------------------------------------
(* The suite.  What the slot does not say: what has been probed, what has   *)
(* been left, and that the child works on what the thread waits for.        *)

\* A reply that can be compared with the plan.
ReplyTyped(r) == r.good \in BOOLEAN /\ r.ready \subseteq Formats

\* The thread's state, field by field.
JobTyped(j) ==
    /\ JobShape(j)
    /\ j.call \in {"none", "ready", "poll", "complete"}
    /\ j.op \in {"none", "inspect", "suite"}
    /\ j.answer \in Errors \cup {"none", "ok"}
    /\ j.outcome \in Answers
    /\ j.grace \in {"unset", "open", "over"}
    /\ j.cleanup \in BOOLEAN
    /\ j.probes \in [Formats -> 0..10]
    /\ j.ready \subseteq Formats

\* What has been done when the thread is where it is.  A stage that probes has probes left,
\* and what a cleanup follows without an error has all of them, of one registration.
Reached(j) ==
    /\ j.stage \in {"prepare", "probe", "cleanup"} => j.ready # {}
    /\ j.stage \in {"inspect", "prepare"} => j.probes = NoJob.probes
    /\ j.stage = "probe" => ~ProbesDone(j)
    /\ j.stage = "reinspect" => ProbesDone(j)
    /\ j.stage = "cleanup" /\ j.outcome = "ok" => ProbesDone(j) /\ j.seen = j.token
    /\ j.stage \in Working => j.cleanup

\* A report of success is of a whole plan and of a cleanup that was made.
Reports(j) ==
    j.stage = "finish" /\ j.status = "completed" =>
        /\ j.reported /\ j.cleanup
        /\ j.op = "suite" => ProbesDone(j) /\ j.seen = j.token

\* A process that was left behind is on its way to a failure.
Reaps(j) ==
    j.zombie =>
        /\ j.stage \in {"cleanup", "finish", "idle"}
        /\ j.stage = "cleanup" => j.outcome = "failed"
        /\ j.stage = "finish" => j.status = "failed"

\* A directory that was made is cleaned up, or the request fails.
Clears(j) ==
    scratch.dir =>
        /\ j.stage # "inspect"
        /\ j.stage = "reinspect" => j.ready # {}
        /\ j.stage = "finish" => j.status = "failed"

ChildShape(c) ==
    c = [x \in {"req", "root", "token", "ready", "reply", "code", "kids", "at"} |-> c[x]]

\* The child, field by field.
ChildTyped ==
    /\ ChildShape(child)
    /\ child.root \in {"none", "new", "run", "dead", "killed"}
    /\ child.code \in {0, 1, 124}
    /\ child.ready \subseteq Formats
    /\ ReplyTyped(child.reply)

ScratchShape(s) ==
    s = [x \in {"dir", "files", "manifest", "gone", "foreign", "damaged"} |-> s[x]]

\* The directory; what nobody knows is in one.
ScratchTyped ==
    /\ ScratchShape(scratch)
    /\ scratch.files \in 0..SlotFiles /\ scratch.gone \in 0..(SlotFiles + 1)
    /\ scratch.foreign => scratch.dir

\* The child works on the current request of the thread.  Once it holds every file, none of them
\* is a changed one; and a cleanup that reports success has removed the directory.
Serves ==
    /\ child.root # "none" => job.stage \in Working /\ child.req = CurrentRequest
    /\ child.req.op = "cleanup" /\ child.at = 2 => ~scratch.damaged
    /\ job.stage = "cleanup" /\ child.reply.good => ~scratch.dir

\* What a request that is over has left and reported.
Ended ==
    ~entry.active =>
        /\ scratch.dir \/ job.zombie => entry.status = "failed"
        /\ entry.status = "completed" =>
              /\ view.result = "completed" /\ view.cleanup
              /\ view.op = "suite" => ProbesDone(job) /\ job.seen = job.token

\* The numbers of requests and of what windows were told, and what no step of the suite changes.
Numbers ==
    /\ entry.id \in 0..MaxRequests
    /\ entry.seq \in 0..3
    /\ entry.active => entry.seq = IF entry.status = "running" THEN 1 ELSE 2
    /\ view.op = job.op /\ view.result \in Terminal \cup {"none"} /\ view.cleanup \in BOOLEAN
    /\ open \subseteq Windows /\ token \in Nat /\ ready \subseteq Formats

\* The suite, its child and its directory fit together.
SuiteInv ==
    /\ JobTyped(job) /\ Reached(job) /\ Reports(job) /\ Reaps(job) /\ Clears(job)
    /\ ChildTyped /\ ScratchTyped /\ Serves /\ Ended /\ Numbers

-----------------------------------------------------------------------------
\* k has the work of j: what of it does not depend on where the thread is.
Same(j, k) ==
    /\ k.op = j.op /\ k.ready = j.ready /\ k.probes = j.probes /\ k.outcome = j.outcome
    /\ k.zombie = j.zombie /\ k.cleanup = j.cleanup /\ k.seen = j.seen /\ k.token = j.token
    /\ k.grace = j.grace

\* j is sound where it stands.
Sound(j) == JobTyped(j) /\ Reached(j) /\ Reports(j) /\ Reaps(j) /\ Clears(j)
\* k goes on with the work of j.
Resumes(j, k) == Sound(k) /\ k.op = j.op

\* An invocation of j has ended with an answer, which says so when a process was left behind.
Settling(j, answer, reply) ==
    /\ JobTyped(j) /\ Reached(j) /\ Clears(j)
    /\ answer \in Answers /\ ReplyTyped(reply)
    /\ j.zombie => answer = "failed" \/ (j.stage = "cleanup" /\ j.outcome = "failed")
    /\ j.stage = "cleanup" /\ reply.good => ~scratch.dir

LEMMA SameDone == ASSUME NEW j, NEW k, Same(j, k) PROVE ProbesDone(k) <=> ProbesDone(j)
BY DEF Same, ProbesDone

LEMMA SameTyped ==
    ASSUME NEW j, JobTyped(j), NEW k, Same(j, k), JobShape(k),
           k.call \in {"none", "ready", "poll", "complete"}, k.answer \in Errors \cup {"none", "ok"}
    PROVE  JobTyped(k)
BY DEF Same, JobTyped

LEMMA GotoIs ==
    ASSUME NEW j, JobTyped(j), NEW stage
    PROVE  LET k == Goto(j, stage)
           IN  JobTyped(k) /\ Same(j, k) /\ k.stage = stage
<1> DEFINE k == Goto(j, stage)
<1>1. JobShape(k) /\ Same(j, k) /\ k.stage = stage /\ k.call = "ready" /\ k.answer = "none"
  BY DEF Goto, JobTyped, JobShape, Same
<1> HIDE DEF k
<1>2. JobTyped(k)
  BY <1>1, SameTyped
<1> QED BY <1>1, <1>2 DEF k

LEMMA DoneIs ==
    ASSUME NEW j, JobTyped(j), NEW s, NEW r
    PROVE  LET k == Done(j, s, r)
           IN  JobTyped(k) /\ Same(j, k) /\ k.stage = "finish" /\ k.status = s /\ k.reported = r
<1> DEFINE k == Done(j, s, r)
<1>1. /\ JobShape(k) /\ Same(j, k) /\ k.stage = "finish" /\ k.status = s /\ k.reported = r
      /\ k.call = "none" /\ k.answer = "none"
  BY DEF Done, JobTyped, JobShape, Same
<1> HIDE DEF k
<1>2. JobTyped(k)
  BY <1>1, SameTyped
<1> QED BY <1>1, <1>2 DEF k

\* The status a suite ends with tells what it left and why it stopped.
LEMMA FinalizeResumes ==
    ASSUME NEW j, JobTyped(j),
           j.cleanup /\ j.zombie => j.outcome = "failed",
           ~(j.cleanup /\ scratch.dir),
           j.outcome = "ok" /\ j.cleanup => ProbesDone(j) /\ j.seen = j.token
    PROVE  Resumes(j, Finalize(j))
<1> DEFINE s == IF ~j.cleanup THEN "failed"
                ELSE IF j.outcome # "ok" THEN j.outcome
                ELSE IF StopReason # "none" THEN StopReason ELSE "completed"
           k == Finalize(j)
<1>1. k = Done(j, s, TRUE)
  BY DEF Finalize
<1>2. /\ ~j.cleanup => s = "failed"
      /\ j.cleanup /\ j.outcome # "ok" => s = j.outcome
      /\ s = "completed" => j.cleanup /\ j.outcome = "ok"
  BY DEF JobTyped, Answers, Errors
<1> HIDE DEF s, k
<1>3. JobTyped(k) /\ Same(j, k) /\ k.stage = "finish" /\ k.status = s /\ k.reported = TRUE
  <2>1. \A r : LET d == Done(j, s, r)
               IN  JobTyped(d) /\ Same(j, d) /\ d.stage = "finish" /\ d.status = s /\ d.reported = r
    BY DoneIs
  <2> QED BY <1>1, <2>1, Zenon
<1>4. Reached(k)
  BY <1>3 DEF Reached, Working
<1>5. Reports(k)
  BY <1>2, <1>3, SameDone DEF Reports, Same
<1>6. Reaps(k) /\ Clears(k)
  BY <1>2, <1>3 DEF Reaps, Clears, Same, JobTyped
<1> QED BY <1>3, <1>4, <1>5, <1>6 DEF Resumes, Sound, Same, k

\* The format whose probe is due is one of those to be probed, and has probes left.
LEMMA DueIs ==
    ASSUME NEW j, JobTyped(j), ~ProbesDone(j)
    PROVE  /\ FormatDue(j) \in Formats /\ FormatDue(j) \in j.ready
           /\ j.probes[FormatDue(j)] \in 0..9
<1>1. PICK f \in j.ready : j.probes[f] # 10
  BY DEF ProbesDone
<1>2. f \in Formats /\ \A g \in Formats : j.probes[g] \in 0..10
  BY DEF JobTyped
<1>3. CASE "hwp" \in j.ready /\ j.probes["hwp"] < 10
  BY <1>2, <1>3 DEF FormatDue, Formats
<1>4. CASE ~("hwp" \in j.ready /\ j.probes["hwp"] < 10)
  <2>1. f = "hwpx" /\ FormatDue(j) = "hwpx"
    BY <1>1, <1>2, <1>4 DEF FormatDue, Formats
  <2> QED BY <1>1, <1>2, <2>1
<1> QED BY <1>3, <1>4

LEMMA CollectedResumes ==
    ASSUME NEW j, JobTyped(j), j.cleanup, NEW outcome \in Answers,
           j.zombie => outcome = "failed",
           scratch.dir => j.ready # {},
           outcome = "ok" => ProbesDone(j) /\ j.seen = j.token
    PROVE  Resumes(j, Collected(j, outcome))
<1> DEFINE p == IF outcome = "ok" THEN j.probes ELSE NoJob.probes
           k == [j EXCEPT !.outcome = outcome, !.probes = p]
           g == [k EXCEPT !.grace = Opened(k.grace)]
           c == Goto(g, "cleanup")
<1>1. p \in [Formats -> 0..10] /\ (outcome = "ok" => p = j.probes)
  BY DEF JobTyped, NoJob
<1>2. /\ JobShape(k) /\ k.outcome = outcome /\ k.probes = p
      /\ k.op = j.op /\ k.ready = j.ready /\ k.zombie = j.zombie /\ k.cleanup = j.cleanup
      /\ k.seen = j.seen /\ k.token = j.token /\ k.grace = j.grace
      /\ k.call = j.call /\ k.answer = j.answer
  <2> HIDE DEF p
  <2> QED BY DEF JobTyped, JobShape
<1>3. JobTyped(k)
  <2> HIDE DEF p, k
  <2> QED BY <1>1, <1>2 DEF JobTyped
<1>4. outcome = "ok" => ProbesDone(k) /\ k.seen = k.token
  <2> HIDE DEF p, k
  <2> QED BY <1>1, <1>2 DEF ProbesDone
<1>5. /\ JobShape(g) /\ g.outcome = k.outcome /\ g.probes = k.probes
      /\ g.op = k.op /\ g.ready = k.ready /\ g.zombie = k.zombie /\ g.cleanup = k.cleanup
      /\ g.seen = k.seen /\ g.token = k.token /\ g.grace = Opened(k.grace)
      /\ g.call = k.call /\ g.answer = k.answer
  <2> HIDE DEF k
  <2> QED BY <1>3 DEF JobTyped, JobShape
<1>6. JobTyped(g)
  <2> HIDE DEF k, g
  <2> QED BY <1>3, <1>5 DEF JobTyped, Opened
<1>7. Collected(j, outcome) = IF k.ready = {} THEN Finalize(k) ELSE c
  BY DEF Collected
<1> HIDE DEF p, k, g
<1>8. CASE k.ready = {}
  <2>1. Resumes(k, Finalize(k))
    BY <1>2, <1>3, <1>4, <1>8, FinalizeResumes
  <2> QED BY <1>2, <1>7, <1>8, <2>1 DEF Resumes
<1>9. CASE k.ready # {}
  <2>1. JobTyped(c) /\ Same(g, c) /\ c.stage = "cleanup"
    BY <1>6, GotoIs
  <2> HIDE DEF c
  <2>2. ProbesDone(c) <=> ProbesDone(k)
    BY <1>5, <2>1 DEF Same, ProbesDone
  <2>3. Reached(c)
    BY <1>2, <1>4, <1>5, <1>9, <2>1, <2>2 DEF Reached, Same
  <2>4. Reports(c) /\ Reaps(c) /\ Clears(c)
    BY <1>2, <1>5, <2>1 DEF Reports, Reaps, Clears, Same
  <2>5. c.op = j.op
    BY <1>2, <1>5, <2>1 DEF Same
  <2> QED BY <1>7, <1>9, <2>1, <2>3, <2>4, <2>5 DEF Resumes, Sound
<1> QED BY <1>8, <1>9

\* A suite that goes on to a stage of its own, nothing having been left behind.
LEMMA GotoResumes ==
    ASSUME NEW j, JobTyped(j), j.cleanup, ~j.zombie, NEW stage \in {"prepare", "probe", "reinspect"},
           stage # "reinspect" => j.ready # {},
           stage = "prepare" => j.probes = NoJob.probes,
           stage = "probe" => ~ProbesDone(j),
           stage = "reinspect" => ProbesDone(j),
           scratch.dir => j.ready # {}
    PROVE  Resumes(j, Goto(j, stage))
<1> DEFINE k == Goto(j, stage)
<1>1. JobTyped(k) /\ Same(j, k) /\ k.stage = stage
  BY GotoIs
<1> HIDE DEF k
<1>2. Reached(k)
  BY <1>1, SameDone DEF Reached, Same
<1>3. Reports(k) /\ Reaps(k) /\ Clears(k)
  BY <1>1 DEF Reports, Reaps, Clears, Same
<1> QED BY <1>1, <1>2, <1>3 DEF Resumes, Sound, Same, k

LEMMA DoneResumes ==
    ASSUME NEW j, JobTyped(j), j.cleanup, ~scratch.dir, NEW s, NEW r,
           j.zombie => s = "failed",
           s = "completed" => r /\ j.op # "suite"
    PROVE  Resumes(j, Done(j, s, r))
<1> DEFINE k == Done(j, s, r)
<1>1. JobTyped(k) /\ Same(j, k) /\ k.stage = "finish" /\ k.status = s /\ k.reported = r
  BY DoneIs
<1> HIDE DEF k
<1>2. Reached(k) /\ Reports(k)
  BY <1>1 DEF Reached, Reports, Same, Working
<1>3. Reaps(k) /\ Clears(k)
  BY <1>1 DEF Reaps, Clears, Same
<1> QED BY <1>1, <1>2, <1>3 DEF Resumes, Sound, Same, k

LEMMA InspectResumes ==
    ASSUME NEW j, NEW answer, NEW reply, Settling(j, answer, reply), j.stage = "inspect"
    PROVE  Resumes(j, AfterInspect(j, answer, reply))
<1> DEFINE k == [j EXCEPT !.token = reply.token, !.ready = reply.ready]
           next == IF reply.ready = {} THEN "reinspect" ELSE "prepare"
<1>1. /\ JobTyped(j) /\ j.cleanup /\ ~scratch.dir /\ j.probes = NoJob.probes
      /\ answer \in Answers /\ reply.ready \subseteq Formats
      /\ j.zombie => answer = "failed"
  BY DEF Settling, Reached, Clears, ReplyTyped, Working
<1>2. /\ JobShape(k) /\ k.ready = reply.ready /\ k.probes = j.probes /\ k.op = j.op
      /\ k.zombie = j.zombie /\ k.cleanup = j.cleanup /\ k.grace = j.grace
      /\ k.outcome = j.outcome /\ k.call = j.call /\ k.answer = j.answer
  BY <1>1 DEF JobTyped, JobShape
<1>3. JobTyped(k)
  <2> HIDE DEF k
  <2> QED BY <1>1, <1>2 DEF JobTyped
<1>4. AfterInspect(j, answer, reply) = IF answer # "ok" THEN Done(j, answer, j.op = "suite")
                                      ELSE IF j.op = "inspect" THEN Done(j, "completed", TRUE)
                                      ELSE Goto(k, next)
  BY DEF AfterInspect
<1> HIDE DEF k
<1>5. CASE answer # "ok"
  <2>1. answer # "completed"
    BY <1>1 DEF Answers, Errors
  <2>2. Resumes(j, Done(j, answer, j.op = "suite"))
    BY <1>1, <2>1, DoneResumes
  <2> QED BY <1>4, <1>5, <2>2
<1>6. CASE answer = "ok" /\ j.op = "inspect"
  <2>1. Resumes(j, Done(j, "completed", TRUE))
    BY <1>1, <1>6, DoneResumes
  <2> QED BY <1>4, <1>6, <2>1
<1>7. CASE answer = "ok" /\ j.op # "inspect"
  <2>1. reply.ready = {} => ProbesDone(k)
    BY <1>2 DEF ProbesDone
  <2>2. /\ next \in {"prepare", "probe", "reinspect"} /\ next # "probe"
        /\ next = "reinspect" <=> reply.ready = {}
    OBVIOUS
  <2> HIDE DEF next
  <2>3. Resumes(k, Goto(k, next))
    BY <1>1, <1>2, <1>3, <1>7, <2>1, <2>2, GotoResumes
  <2> QED BY <1>2, <1>4, <1>7, <2>3 DEF Resumes
<1> QED BY <1>5, <1>6, <1>7

LEMMA PrepareResumes ==
    ASSUME NEW j, NEW answer, NEW reply, Settling(j, answer, reply), j.stage = "prepare"
    PROVE  Resumes(j, AfterPrepare(j, answer, reply))
<1>1. /\ JobTyped(j) /\ j.cleanup /\ j.ready # {} /\ j.probes = NoJob.probes
      /\ answer \in Answers /\ (j.zombie => answer = "failed")
  BY DEF Settling, Reached, Working
<1>2. CASE answer = "ok" /\ reply.good
  <2>1. ~ProbesDone(j)
    BY <1>1 DEF ProbesDone, NoJob, JobTyped
  <2>2. Resumes(j, Goto(j, "probe"))
    BY <1>1, <1>2, <2>1, GotoResumes
  <2> QED BY <1>2, <2>2 DEF AfterPrepare
<1>3. CASE ~(answer = "ok" /\ reply.good)
  <2> DEFINE o == IF answer = "ok" THEN "failed" ELSE answer
  <2>1. o \in Answers /\ o # "ok" /\ (j.zombie => o = "failed")
    BY <1>1 DEF Answers, Errors
  <2>2. AfterPrepare(j, answer, reply) = Collected(j, o)
    BY <1>3 DEF AfterPrepare
  <2> HIDE DEF o
  <2> QED BY <1>1, <2>1, <2>2, CollectedResumes
<1> QED BY <1>2, <1>3

LEMMA ProbeResumes ==
    ASSUME NEW j, NEW answer, NEW reply, Settling(j, answer, reply), j.stage = "probe"
    PROVE  Resumes(j, AfterProbe(j, answer, reply))
<1> DEFINE f == FormatDue(j)
           p == [j.probes EXCEPT ![f] = @ + 1]
           k == [j EXCEPT !.probes = p]
           next == IF ProbesDone(k) THEN "reinspect" ELSE "probe"
<1>1. /\ JobTyped(j) /\ j.cleanup /\ j.ready # {} /\ ~ProbesDone(j)
      /\ answer \in Answers /\ (j.zombie => answer = "failed")
  BY DEF Settling, Reached, Working
<1>2. f \in Formats /\ f \in j.ready /\ j.probes[f] \in 0..9
  BY <1>1, DueIs
<1>3. p \in [Formats -> 0..10]
  <2> HIDE DEF f
  <2> QED BY <1>1, <1>2 DEF JobTyped
<1>4. /\ JobShape(k) /\ k.probes = p /\ k.ready = j.ready /\ k.op = j.op
      /\ k.zombie = j.zombie /\ k.cleanup = j.cleanup /\ k.grace = j.grace
      /\ k.outcome = j.outcome /\ k.call = j.call /\ k.answer = j.answer
  <2> HIDE DEF p
  <2> QED BY <1>1 DEF JobTyped, JobShape
<1>5. JobTyped(k)
  <2> HIDE DEF p, k
  <2> QED BY <1>1, <1>3, <1>4 DEF JobTyped
<1>6. AfterProbe(j, answer, reply) =
        IF answer # "ok" THEN Collected(j, answer)
        ELSE IF ~reply.good \/ reply.token # j.token THEN Collected(k, "failed")
        ELSE Goto(k, next)
  BY DEF AfterProbe
<1>7. /\ next \in {"prepare", "probe", "reinspect"} /\ next # "prepare"
      /\ next = "reinspect" <=> ProbesDone(k)
  OBVIOUS
<1> HIDE DEF f, p, k, next
<1>8. CASE answer # "ok"
  <2>1. Resumes(j, Collected(j, answer))
    BY <1>1, <1>8, CollectedResumes
  <2> QED BY <1>6, <1>8, <2>1
<1>9. CASE answer = "ok" /\ (~reply.good \/ reply.token # j.token)
  <2>1. "failed" \in Answers
    BY DEF Answers, Errors
  <2>2. Resumes(k, Collected(k, "failed"))
    BY <1>1, <1>4, <1>5, <2>1, CollectedResumes
  <2> QED BY <1>4, <1>6, <1>9, <2>2 DEF Resumes
<1>10. CASE answer = "ok" /\ ~(~reply.good \/ reply.token # j.token)
  <2>1. Resumes(k, Goto(k, next))
    BY <1>1, <1>4, <1>5, <1>7, <1>10, GotoResumes
  <2> QED BY <1>4, <1>6, <1>10, <2>1 DEF Resumes
<1> QED BY <1>8, <1>9, <1>10

LEMMA ReinspectResumes ==
    ASSUME NEW j, NEW answer, NEW reply, Settling(j, answer, reply), j.stage = "reinspect"
    PROVE  Resumes(j, AfterReinspect(j, answer, reply))
<1> DEFINE k == [j EXCEPT !.seen = reply.token]
           o == IF answer = "ok" /\ reply.token # j.token THEN "failed" ELSE answer
<1>1. /\ JobTyped(j) /\ j.cleanup /\ ProbesDone(j) /\ (scratch.dir => j.ready # {})
      /\ answer \in Answers /\ (j.zombie => answer = "failed")
  BY DEF Settling, Reached, Clears, Working
<1>2. /\ JobShape(k) /\ k.probes = j.probes /\ k.ready = j.ready /\ k.op = j.op
      /\ k.zombie = j.zombie /\ k.cleanup = j.cleanup /\ k.grace = j.grace
      /\ k.outcome = j.outcome /\ k.call = j.call /\ k.answer = j.answer
      /\ k.seen = reply.token /\ k.token = j.token
  BY <1>1 DEF JobTyped, JobShape
<1>3. /\ o \in Answers /\ (k.zombie => o = "failed")
      /\ o = "ok" => reply.token = j.token
  BY <1>1, <1>2 DEF Answers, Errors
<1>4. AfterReinspect(j, answer, reply) = Collected(k, o)
  BY DEF AfterReinspect
<1> HIDE DEF k, o
<1>5. JobTyped(k) /\ ProbesDone(k)
  BY <1>1, <1>2 DEF JobTyped, ProbesDone
<1>6. Resumes(k, Collected(k, o))
  BY <1>1, <1>2, <1>3, <1>5, CollectedResumes
<1> QED BY <1>2, <1>4, <1>6 DEF Resumes

LEMMA CleanupResumes ==
    ASSUME NEW j, NEW answer, NEW reply, Settling(j, answer, reply), j.stage = "cleanup",
           j.outcome = "ok" => ProbesDone(j) /\ j.seen = j.token
    PROVE  Resumes(j, AfterCleanup(j, answer, reply))
<1> DEFINE c == answer = "ok" /\ reply.good
           k == [j EXCEPT !.cleanup = c]
<1>1. /\ JobTyped(j) /\ (c => ~scratch.dir)
      /\ j.zombie => answer = "failed" \/ j.outcome = "failed"
  BY DEF Settling
<1>2. /\ JobShape(k) /\ k.probes = j.probes /\ k.ready = j.ready /\ k.op = j.op
      /\ k.zombie = j.zombie /\ k.cleanup = c /\ k.grace = j.grace
      /\ k.outcome = j.outcome /\ k.call = j.call /\ k.answer = j.answer
      /\ k.seen = j.seen /\ k.token = j.token
  <2> HIDE DEF c
  <2> QED BY <1>1 DEF JobTyped, JobShape
<1>3. c \in BOOLEAN /\ (c => answer = "ok")
  OBVIOUS
<1>4. AfterCleanup(j, answer, reply) = Finalize(k)
  BY DEF AfterCleanup
<1> HIDE DEF c, k
<1>5. JobTyped(k) /\ (ProbesDone(k) <=> ProbesDone(j))
  BY <1>1, <1>2, <1>3 DEF JobTyped, ProbesDone
<1>6. Resumes(k, Finalize(k))
  BY <1>1, <1>2, <1>3, <1>5, FinalizeResumes
<1> QED BY <1>2, <1>4, <1>6 DEF Resumes

LEMMA SettleResumes ==
    ASSUME NEW j, j.stage \in Working, NEW answer, NEW reply, Settling(j, answer, reply),
           Settle(j, answer, reply)
    PROVE  Resumes(j, job')
<1>1. j.stage = "cleanup" => (j.outcome = "ok" => ProbesDone(j) /\ j.seen = j.token)
  BY DEF Settling, Reached
<1> QED BY <1>1, InspectResumes, PrepareResumes, ProbeResumes, ReinspectResumes, CleanupResumes
        DEF Settle, Working

-----------------------------------------------------------------------------
(* What is sent to a child, and what comes back.                            *)

\* Every probe of a plan is one its child accepts.
LEMMA StepsValid ==
    ASSUME NEW f \in Formats, NEW i \in 1..10
    PROVE  LET r == StepRequest(Steps(f)[i])
           IN  /\ ValidRequest(r) /\ r.format # "none"
               /\ r.op \notin {"prepare", "cleanup", "inspect"}
<1>1. f # "none"
  BY DEF Formats
<1>2. CASE i = 1
  BY <1>1, <1>2 DEF Steps, StepRequest, ValidRequest, ScopeValid, NoSlot
<1>3. CASE i = 10
  BY <1>1, <1>3 DEF Steps, StepRequest, ValidRequest, ScopeValid, NoSlot
<1>4. CASE i \in 2..9
  <2> DEFINE n == i - 1
             k == (n + 1) \div 2
             role == IF n % 2 = 1 THEN 0 ELSE 3
             copy == IF k = 4 THEN 3 ELSE k
             s == Steps(f)[i]
  <2>1. s = [op |-> ImageOps[k], format |-> f, slot |-> Copies(f)[copy + role]]
    BY <1>4 DEF Steps
  <2>2. k \in 1..4 /\ role \in {0, 3} /\ copy \in 1..3
    BY <1>4
  <2>3. \/ k = 1 /\ copy + role \in {1, 4}
        \/ k = 2 /\ copy + role \in {2, 5}
        \/ k \in {3, 4} /\ copy + role \in {3, 6}
    BY <2>2
  <2>4. /\ \A c \in {1, 4} : Copies(f)[c][1] = f /\ Copies(f)[c][3] = "shell"
        /\ \A c \in {2, 5} : Copies(f)[c][1] = f /\ Copies(f)[c][3] = "cache"
        /\ \A c \in {3, 6} : Copies(f)[c][1] = f /\ Copies(f)[c][3] = "force"
        /\ \A c \in 1..6 : Copies(f)[c] # NoSlot
    BY DEF Copies, NoSlot
  <2>5. /\ ImageOps[1] = "shell" /\ ImageOps[2] = "cache-only" /\ ImageOps[3] = "force-extract"
        /\ ImageOps[4] = "cache-only"
    BY DEF ImageOps
  <2> DEFINE slot == Copies(f)[copy + role]
             op == ImageOps[k]
  <2>6. /\ op \in {"shell", "cache-only", "force-extract"} /\ slot[1] = f /\ slot # NoSlot
        /\ Permits(slot, op)
    <3>1. /\ \A c \in {1, 4} : Permits(Copies(f)[c], "shell")
          /\ \A c \in {2, 5} : Permits(Copies(f)[c], "cache-only")
          /\ \A c \in {3, 6} : Permits(Copies(f)[c], "force-extract")
                               /\ Permits(Copies(f)[c], "cache-only")
      BY <2>4 DEF Permits
    <3>2. copy + role \in 1..6
      BY <2>3
    <3>3. PICK c \in 1..6 : c = copy + role
      BY <3>2
    <3>4. slot = Copies(f)[c]
      BY <3>3
    <3>5. CASE k = 1 /\ c \in {1, 4}
      BY <2>4, <2>5, <3>1, <3>4, <3>5
    <3>6. CASE k = 2 /\ c \in {2, 5}
      BY <2>4, <2>5, <3>1, <3>4, <3>6
    <3>7. CASE k \in {3, 4} /\ c \in {3, 6}
      BY <2>4, <2>5, <3>1, <3>4, <3>7
    <3> QED BY <2>3, <3>3, <3>5, <3>6, <3>7
  <2>7. s = [op |-> op, format |-> f, slot |-> slot]
    BY <2>1
  <2> HIDE DEF op, slot, s
  <2>8. StepRequest(s) = [op |-> op, format |-> f, slot |-> slot, scope |-> TRUE]
    BY <2>6, <2>7 DEF StepRequest
  <2> QED BY <1>1, <2>6, <2>8 DEF ValidRequest, ScopeValid, s
<1> QED BY <1>2, <1>3, <1>4

LEMMA PlainValid ==
    ASSUME NEW op \in {"inspect", "prepare", "cleanup"}
    PROVE  ValidRequest(PlainRequest(op)) /\ PlainRequest(op).op = op
           /\ PlainRequest(op).format = "none"
BY DEF ValidRequest, ScopeValid, PlainRequest, NoSlot

LEMMA CurrentIs ==
    ASSUME job.stage \in Working, JobTyped(job), Reached(job)
    PROVE  /\ ValidRequest(CurrentRequest)
           /\ CurrentRequest.op = "prepare" => job.stage = "prepare"
           /\ CurrentRequest.op = "cleanup" => job.stage = "cleanup"
           /\ job.stage = "cleanup" => CurrentRequest.op = "cleanup" /\ CurrentRequest.format = "none"
<1>1. CASE job.stage = "probe"
  <2> DEFINE f == FormatDue(job)
  <2>1. f \in Formats /\ job.probes[f] + 1 \in 1..10
    BY <1>1, DueIs DEF Reached
  <2>2. CurrentRequest = StepRequest(Steps(f)[job.probes[f] + 1])
    BY <1>1 DEF CurrentRequest
  <2> HIDE DEF f
  <2> QED BY <1>1, <2>1, <2>2, StepsValid
<1>2. CASE job.stage \in {"inspect", "reinspect"}
  <2>1. CurrentRequest = PlainRequest("inspect")
    BY <1>2 DEF CurrentRequest
  <2> QED BY <1>2, <2>1, PlainValid
<1>3. CASE job.stage = "prepare"
  <2>1. CurrentRequest = PlainRequest("prepare")
    BY <1>3 DEF CurrentRequest
  <2> QED BY <1>3, <2>1, PlainValid
<1>4. CASE job.stage = "cleanup"
  <2>1. CurrentRequest = PlainRequest("cleanup")
    BY <1>4 DEF CurrentRequest
  <2> QED BY <1>4, <2>1, PlainValid
<1> QED BY <1>1, <1>2, <1>3, <1>4 DEF Working

\* k is j at another point of the same call.
Alike(j, k) ==
    /\ JobShape(k)
    /\ k.stage = j.stage /\ k.op = j.op /\ k.id = j.id /\ k.token = j.token /\ k.seen = j.seen
    /\ k.ready = j.ready /\ k.probes = j.probes /\ k.outcome = j.outcome
    /\ k.cleanup = j.cleanup /\ k.zombie = j.zombie
    /\ k.status = j.status /\ k.reported = j.reported
    /\ k.call \in {"none", "ready", "poll", "complete"} /\ k.answer \in Errors \cup {"none", "ok"}
    /\ k.grace \in {"unset", "open", "over"}

LEMMA AlikeSound ==
    ASSUME NEW j, NEW k, Sound(j), Alike(j, k)
    PROVE  Sound(k)
<1>1. ProbesDone(k) <=> ProbesDone(j)
  BY DEF Alike, ProbesDone
<1>2. JobTyped(k)
  BY DEF Sound, Alike, JobTyped
<1>3. Reached(k) /\ Reports(k) /\ Reaps(k) /\ Clears(k)
  BY <1>1 DEF Sound, Alike, Reached, Reports, Reaps, Clears
<1> QED BY <1>2, <1>3 DEF Sound

LEMMA AlikeCurrent ==
    ASSUME job.stage \in Working, Alike(job, job')
    PROVE  CurrentRequest' = CurrentRequest
<1>1. FormatDue(job') = FormatDue(job)
  BY DEF Alike, FormatDue
<1>2. job'.stage = job.stage /\ job'.probes = job.probes
  BY DEF Alike
<1> QED BY <1>1, <1>2 DEF CurrentRequest, Working

\* Priming: what is said of the thread after a step that leaves the directory alone.
LEMMA SoundNext ==
    ASSUME Sound(job'), scratch' = scratch
    PROVE  (JobTyped(job) /\ Reached(job) /\ Reports(job) /\ Reaps(job) /\ Clears(job))'
BY DEF Sound, JobTyped, Reached, Reports, Reaps, Clears, JobShape, ProbesDone

LEMMA RestTyped ==
    ASSUME SuiteInv, UNCHANGED <<Ui, scratch, env>>, job'.op = job.op
    PROVE  ScratchTyped' /\ Numbers'
BY DEF SuiteInv, ScratchTyped, ScratchShape, Numbers, Ui, env

-----------------------------------------------------------------------------
(* Steps of the thread.                                                     *)

LEMMA SettledSound ==
    ASSUME SlotInv, SuiteInv, job.stage \in Working, Resumes(job, job'), child' = NoChild,
           UNCHANGED <<Ui, scratch, env>>
    PROVE  SuiteInv'
<1>1. (JobTyped(job) /\ Reached(job) /\ Reports(job) /\ Reaps(job) /\ Clears(job))'
  BY SoundNext DEF Resumes
<1>2. ScratchTyped' /\ Numbers'
  BY RestTyped DEF Resumes
<1>3. /\ NoChild.root = "none" /\ ~NoChild.reply.good /\ NoChild.req.op = "none"
      /\ ChildShape(NoChild) /\ NoChild.code = 0 /\ NoChild.ready = {} /\ ReplyTyped(NoChild.reply)
  BY DEF NoChild, NoReply, PlainRequest, ChildShape, ReplyTyped
<1>4. ChildTyped' /\ Serves'
  BY <1>3 DEF ChildTyped, Serves, ChildShape, ReplyTyped
<1>5. entry'.active
  BY DEF SlotInv, HeldWhileWorking, Working, Ui
<1> QED BY <1>1, <1>2, <1>4, <1>5 DEF SuiteInv, Ended

LEMMA BeforeLaunch ==
    ASSUME SlotInv, SuiteInv, job.call = "ready", NEW answer \in Answers,
           Settle(job, answer, NoReply), UNCHANGED <<Ui, scratch, env>>
    PROVE  SuiteInv'
<1>1. job.stage \in Working
  BY DEF SlotInv, JobSound
<1>2. Settling(job, answer, NoReply)
  BY <1>1 DEF SuiteInv, Settling, Reaps, Working, NoReply, ReplyTyped
<1>3. Resumes(job, job') /\ child' = NoChild
  BY <1>1, <1>2, SettleResumes DEF Settle
<1> QED BY <1>1, <1>3, SettledSound

\* A call has been answered: its child is terminated.
LEMMA AnsweredSound ==
    ASSUME SlotInv, SuiteInv, job.stage \in Working, NEW answer \in Answers, NEW reply,
           ReplyTyped(reply), job.stage = "cleanup" /\ reply.good => ~scratch.dir,
           Answered(answer, reply)
    PROVE  SuiteInv'
<1> DEFINE g == IF answer = "ok" \/ job.stage = "cleanup" THEN job.grace ELSE Opened(job.grace)
<1>1. /\ job' = [job EXCEPT !.call = "complete", !.answer = answer, !.grace = g]
      /\ child' = [NoChild EXCEPT !.req = CurrentRequest, !.root = "killed", !.reply = reply]
      /\ UNCHANGED <<Ui, scratch, env>>
  BY DEF Answered
<1>2. g \in {"unset", "open", "over"}
  BY DEF Opened, SuiteInv, JobTyped
<1> HIDE DEF g
<1>3. Alike(job, job')
  BY <1>1, <1>2 DEF Alike, SuiteInv, JobTyped, JobShape, Answers
<1>4. Sound(job') /\ job'.stage = job.stage /\ job'.op = job.op
  BY <1>3, AlikeSound DEF SuiteInv, Sound, Alike
<1>5. (JobTyped(job) /\ Reached(job) /\ Reports(job) /\ Reaps(job) /\ Clears(job))'
  BY <1>1, <1>4, SoundNext
<1>6. CurrentRequest' = CurrentRequest
  BY <1>3, AlikeCurrent
<1>7. ScratchTyped' /\ Numbers'
  BY <1>1, <1>4, RestTyped
<1>8. /\ child'.req = CurrentRequest /\ child'.root = "killed" /\ child'.reply = reply
      /\ child'.at = 0 /\ child'.code = 0 /\ child'.ready = {} /\ ChildShape(child')
  BY <1>1 DEF NoChild, ChildShape
<1>9. ChildTyped'
  BY <1>8 DEF ChildTyped, ChildShape, ReplyTyped
<1>10. Serves'
  BY <1>1, <1>4, <1>6, <1>8 DEF Serves
<1>11. entry'.active
  BY <1>1 DEF SlotInv, HeldWhileWorking, Working, Ui
<1> QED BY <1>5, <1>7, <1>9, <1>10, <1>11 DEF SuiteInv, Ended

LEMMA LaunchSound ==
    ASSUME SlotInv, SuiteInv, Launch
    PROVE  SuiteInv'
<1>1. job.stage \in Working
  BY DEF Launch, SlotInv, JobSound
<1>2. Alike(job, job') /\ UNCHANGED <<Ui, scratch, env>>
  BY DEF Launch, Alike, SuiteInv, JobTyped, JobShape
<1>3. Sound(job') /\ job'.stage = job.stage /\ job'.op = job.op
  BY <1>2, AlikeSound DEF SuiteInv, Sound, Alike
<1>4. (JobTyped(job) /\ Reached(job) /\ Reports(job) /\ Reaps(job) /\ Clears(job))'
  BY <1>2, <1>3, SoundNext
<1>5. CurrentRequest' = CurrentRequest
  BY <1>1, <1>2, AlikeCurrent
<1>6. ScratchTyped' /\ Numbers'
  BY <1>2, <1>3, RestTyped
<1>7. child' = [NoChild EXCEPT !.req = CurrentRequest, !.root = "new"]
  BY DEF Launch, Launched
<1>8. /\ child'.req = CurrentRequest /\ child'.root = "new" /\ child'.reply = NoReply
      /\ child'.at = 0 /\ child'.code = 0 /\ child'.ready = {} /\ ChildShape(child')
  BY <1>7 DEF NoChild, ChildShape
<1>9. ~NoReply.good /\ ReplyTyped(NoReply)
  BY DEF NoReply, ReplyTyped
<1>10. ChildTyped'
  BY <1>8, <1>9 DEF ChildTyped, ChildShape, ReplyTyped
<1>11. Serves'
  BY <1>1, <1>2, <1>3, <1>5, <1>8, <1>9 DEF Serves
<1>12. entry'.active
  BY <1>1, <1>2 DEF SlotInv, HeldWhileWorking, Working, Ui
<1> QED BY <1>4, <1>6, <1>10, <1>11, <1>12 DEF SuiteInv, Ended

\* A step of the child, or of the thread on it, within one call.
LEMMA ChildStep ==
    ASSUME SlotInv, SuiteInv, child.root # "none", UNCHANGED Others,
           ChildTyped', ScratchTyped', child'.req = child.req,
           child'.req.op = "cleanup" /\ child'.at = 2 => ~scratch'.damaged,
           job.stage = "cleanup" /\ child'.reply.good => ~scratch'.dir,
           scratch'.dir => scratch.dir \/ job.stage = "prepare"
    PROVE  SuiteInv'
<1>1. job.stage \in Working /\ child.req = CurrentRequest
  BY DEF SuiteInv, Serves
<1>2. job' = job /\ UNCHANGED <<Ui, env>>
  BY DEF Others
<1>3. CurrentRequest' = CurrentRequest
  BY <1>2 DEF CurrentRequest, FormatDue
<1>4. Serves'
  BY <1>1, <1>2, <1>3 DEF Serves
<1>5. Clears(job)'
  BY <1>1, <1>2 DEF SuiteInv, Clears, Working
<1>6. (JobTyped(job) /\ Reached(job) /\ Reports(job) /\ Reaps(job))'
  BY <1>2 DEF SuiteInv, JobTyped, Reached, Reports, Reaps, JobShape, ProbesDone
<1>7. Numbers'
  BY <1>2 DEF SuiteInv, Numbers, Ui, env
<1>8. entry'.active
  BY <1>1, <1>2 DEF SlotInv, HeldWhileWorking, Working, Ui
<1> QED BY <1>4, <1>5, <1>6, <1>7, <1>8 DEF SuiteInv, Ended

LEMMA ThreadSound ==
    ASSUME SlotInv, SuiteInv,
           \/ StoppedBeforeLaunch \/ SpawnFails \/ Launch \/ WriterThreadFails
           \/ PollStops \/ PollRefuses \/ PollReaps \/ PollReturns \/ Reclaimed \/ GivesUp
    PROVE  SuiteInv' /\ scratch' = scratch
<1>1. "failed" \in Answers /\ "timed-out" \in Answers /\ "cancelled" \in Answers /\ "ok" \in Answers
  BY DEF Answers, Errors
<1>2. ReplyTyped(NoReply) /\ ~NoReply.good
  BY DEF ReplyTyped, NoReply
<1>3. job.call # "none" => job.stage \in Working
  BY DEF SlotInv, JobSound
<1>4. CASE StoppedBeforeLaunch
  <2>1. CallStop \in Answers
    BY <1>1, <1>4, CallStopIs DEF StoppedBeforeLaunch
  <2> QED BY <1>4, <2>1, BeforeLaunch DEF StoppedBeforeLaunch
<1>5. CASE SpawnFails
  BY <1>1, <1>5, BeforeLaunch DEF SpawnFails
<1>6. CASE Launch
  BY <1>6, LaunchSound DEF Launch
<1>7. CASE WriterThreadFails
  BY <1>1, <1>2, <1>3, <1>7, AnsweredSound DEF WriterThreadFails, Answered
<1>8. CASE PollStops
  <2> DEFINE a == IF CallStop # "none" THEN CallStop ELSE "timed-out"
  <2>1. a \in Answers
    BY <1>1, CallStopIs
  <2>2. Answered(a, NoReply) /\ job.call = "poll"
    BY <1>8 DEF PollStops
  <2> HIDE DEF a
  <2> QED BY <1>2, <1>3, <2>1, <2>2, AnsweredSound DEF Answered
<1>9. CASE PollRefuses
  BY <1>1, <1>2, <1>3, <1>9, AnsweredSound DEF PollRefuses, Answered
<1>10. CASE PollReaps
  <2>1. /\ child.root = "dead" /\ child' = [child EXCEPT !.kids = FALSE]
        /\ UNCHANGED <<Ui, job, scratch, env>>
    BY <1>10 DEF PollReaps
  <2>2. /\ ChildShape(child') /\ child'.root = child.root /\ child'.code = child.code
        /\ child'.ready = child.ready /\ child'.reply = child.reply /\ child'.req = child.req
        /\ child'.at = child.at
    BY <2>1 DEF SuiteInv, ChildTyped, ChildShape
  <2>3. ChildTyped'
    BY <2>2 DEF SuiteInv, ChildTyped, ChildShape, ReplyTyped
  <2>4. ScratchTyped'
    BY <2>1 DEF SuiteInv, ScratchTyped, ScratchShape
  <2>5. UNCHANGED Others
    BY <2>1 DEF Others
  <2> QED BY <2>1, <2>2, <2>3, <2>4, <2>5, ChildStep DEF SuiteInv, Serves
<1>11. CASE PollReturns
  <2>1. Decode(child) \in Answers
    BY <1>1 DEF Decode
  <2>2. ReplyTyped(child.reply) /\ (job.stage = "cleanup" /\ child.reply.good => ~scratch.dir)
    BY DEF SuiteInv, ChildTyped, Serves
  <2> QED BY <1>3, <1>11, <2>1, <2>2, AnsweredSound DEF PollReturns, Answered
<1>12. CASE Reclaimed \/ GivesUp
  <2> DEFINE z == [GraceStarts EXCEPT !.zombie = TRUE]
  <2>1. job.stage \in Working /\ job.answer \in Answers
    BY <1>12 DEF Reclaimed, GivesUp, SlotInv, JobSound
  <2>2. Sound(job)
    BY DEF SuiteInv, Sound
  <2>3. Alike(job, GraceStarts)
    BY <2>2 DEF Sound, GraceStarts, Alike, JobTyped, JobShape, Opened
  <2>4. Sound(GraceStarts) /\ GraceStarts.stage = job.stage /\ GraceStarts.op = job.op
    BY <2>2, <2>3, AlikeSound DEF Alike
  <2>5. /\ JobShape(z) /\ z.stage = job.stage /\ z.op = job.op /\ z.token = GraceStarts.token
        /\ z.ready = GraceStarts.ready /\ z.probes = GraceStarts.probes /\ z.seen = GraceStarts.seen
        /\ z.outcome = GraceStarts.outcome /\ z.cleanup = GraceStarts.cleanup
        /\ z.call = GraceStarts.call /\ z.answer = GraceStarts.answer /\ z.grace = GraceStarts.grace
        /\ z.status = GraceStarts.status
    BY <2>4 DEF Sound, JobTyped, JobShape
  <2> HIDE DEF z
  <2>6. JobTyped(z)
    BY <2>4, <2>5 DEF Sound, JobTyped
  <2>7. Reached(z) /\ Clears(z)
    BY <2>4, <2>5 DEF Sound, Reached, Clears, ProbesDone
  <2>8. Settling(z, "failed", NoReply)
    BY <1>1, <1>2, <2>6, <2>7 DEF Settling
  <2>9. Settling(job, job.answer, child.reply)
    BY <2>1 DEF SuiteInv, Settling, Reaps, ChildTyped, Serves, Working
  <2>10. Settling(GraceStarts, "failed", NoReply)
    BY <1>1, <1>2, <2>1, <2>4 DEF Sound, Settling, Reaps, Working
  <2>11. /\ UNCHANGED <<Ui, scratch, env>>
         /\ \/ Settle(job, job.answer, child.reply) \/ Settle(GraceStarts, "failed", NoReply)
            \/ Settle(z, "failed", NoReply)
    BY <1>12 DEF Reclaimed, GivesUp, z
  <2>12. Resumes(job, job') /\ child' = NoChild
    <3>1. CASE Settle(job, job.answer, child.reply)
      BY <2>1, <2>9, <3>1, SettleResumes DEF Settle
    <3>2. CASE Settle(GraceStarts, "failed", NoReply)
      <4>1. Resumes(GraceStarts, job') /\ child' = NoChild
        BY <2>1, <2>4, <2>10, <3>2, SettleResumes DEF Settle
      <4> QED BY <2>4, <4>1 DEF Resumes
    <3>3. CASE Settle(z, "failed", NoReply)
      <4>1. Resumes(z, job') /\ child' = NoChild
        BY <2>1, <2>5, <2>8, <3>3, SettleResumes DEF Settle
      <4> QED BY <2>5, <4>1 DEF Resumes
    <3> QED BY <2>11, <3>1, <3>2, <3>3
  <2> QED BY <2>1, <2>11, <2>12, SettledSound
<1> QED BY <1>4, <1>5, <1>6, <1>7, <1>8, <1>9, <1>10, <1>11, <1>12

-----------------------------------------------------------------------------
(* Steps of the child, with what they do to a directory.                    *)

\* What UnknownKept says of one step.
KeepsUnknown ==
    entry.id' = entry.id =>
        /\ scratch.foreign => scratch'.dir
        /\ scratch'.gone > scratch.gone => ~scratch.damaged

LEMMA UntouchedKept == ASSUME SuiteInv, scratch' = scratch PROVE KeepsUnknown
BY DEF SuiteInv, ScratchTyped, KeepsUnknown

LEMMA ExitsIs ==
    ASSUME SuiteInv, NEW good \in BOOLEAN, Exits(good)
    PROVE  /\ ChildTyped' /\ child'.req = child.req /\ child'.at = child.at
           /\ child'.reply.good = good /\ UNCHANGED Others
<1>1. PICK kids \in BOOLEAN :
          child' = [child EXCEPT !.root = "dead", !.code = 0, !.kids = kids,
                        !.reply = [good |-> good, token |-> child.token,
                                   ready |-> child.ready, written |-> TRUE]]
  BY DEF Exits
<1> DEFINE r == [good |-> good, token |-> child.token, ready |-> child.ready, written |-> TRUE]
<1>2. r.good = good /\ r.ready = child.ready
  OBVIOUS
<1> HIDE DEF r
<1>3. child' = [child EXCEPT !.root = "dead", !.code = 0, !.kids = kids, !.reply = r]
  BY <1>1 DEF r
<1>4. /\ ChildShape(child') /\ child'.root = "dead" /\ child'.code = 0 /\ child'.reply = r
      /\ child'.ready = child.ready /\ child'.req = child.req /\ child'.at = child.at
  BY <1>3 DEF SuiteInv, ChildTyped, ChildShape
<1>5. ChildTyped'
  BY <1>2, <1>4 DEF SuiteInv, ChildTyped, ChildShape, ReplyTyped
<1> QED BY <1>2, <1>4, <1>5 DEF Exits

\* The child replies and leaves the directory as it is.
LEMMA RepliesSound ==
    ASSUME SlotInv, SuiteInv, child.root # "none", NEW good \in BOOLEAN, Exits(good),
           job.stage = "cleanup" /\ good => ~scratch.dir, scratch' = scratch
    PROVE  SuiteInv'
<1>1. /\ ChildTyped' /\ child'.req = child.req /\ child'.at = child.at
      /\ child'.reply.good = good /\ UNCHANGED Others
  BY ExitsIs
<1>2. ScratchTyped'
  BY DEF SuiteInv, ScratchTyped, ScratchShape
<1> QED BY <1>1, <1>2, ChildStep DEF SuiteInv, Serves

\* The child starts or ends without a reply.
Ran(r, c, t, y) == child' = [child EXCEPT !.root = r, !.code = c, !.token = t, !.ready = y]

LEMMA RunsSound ==
    ASSUME SlotInv, SuiteInv, child.root # "none", NEW r \in {"run", "dead"},
           NEW c \in {0, 1, 124}, NEW t, NEW y, y \subseteq Formats,
           Ran(r, c, t, y), UNCHANGED <<Others, scratch>>
    PROVE  SuiteInv'
<1>1. /\ ChildShape(child') /\ child'.root = r /\ child'.code = c /\ child'.ready = y
      /\ child'.reply = child.reply /\ child'.req = child.req /\ child'.at = child.at
  BY DEF Ran, SuiteInv, ChildTyped, ChildShape
<1>2. ChildTyped'
  BY <1>1 DEF SuiteInv, ChildTyped, ChildShape, ReplyTyped
<1>3. ScratchTyped'
  BY DEF SuiteInv, ScratchTyped, ScratchShape
<1> QED BY <1>1, <1>2, <1>3, ChildStep DEF SuiteInv, Serves

\* The child is at another point of its work on the directory.
LEMMA MovesSound ==
    ASSUME SlotInv, SuiteInv, child.root # "none", NEW n, child' = [child EXCEPT !.at = n],
           UNCHANGED Others, ScratchTyped',
           child.req.op = "cleanup" /\ n = 2 => ~scratch'.damaged,
           job.stage # "cleanup" \/ scratch'.dir = scratch.dir,
           scratch'.dir => scratch.dir \/ job.stage = "prepare"
    PROVE  SuiteInv'
<1>1. /\ ChildShape(child') /\ child'.root = child.root /\ child'.code = child.code
      /\ child'.ready = child.ready /\ child'.reply = child.reply /\ child'.req = child.req
      /\ child'.at = n
  BY DEF SuiteInv, ChildTyped, ChildShape
<1>2. ChildTyped'
  BY <1>1 DEF SuiteInv, ChildTyped, ChildShape, ReplyTyped
<1> QED BY <1>1, <1>2, ChildStep DEF SuiteInv, Serves

\* Another version of the directory.
LEMMA ScratchIs ==
    ASSUME SuiteInv, NEW s, ScratchShape(s), s.files \in 0..SlotFiles,
           s.gone \in 0..(SlotFiles + 1), s.foreign => s.dir, scratch' = s
    PROVE  ScratchTyped'
BY DEF ScratchTyped, ScratchShape

LEMMA ChildSound ==
    ASSUME SlotInv, SuiteInv, Child
    PROVE  SuiteInv' /\ KeepsUnknown
<1>1. child.root \in {"new", "run"}
  BY DEF Child, ChildStarts, ChildFails, ChildInspects, ChildProbes, PrepareDirectory, PrepareFile,
         PrepareReplies, CleanupLoads, CleanupGuards, CleanupDeletes, CleanupRemoves, Runs
<1>2. /\ job.stage \in Working /\ child.req = CurrentRequest /\ JobTyped(job) /\ Reached(job)
      /\ ChildTyped /\ ScratchTyped /\ ScratchShape(scratch)
  BY <1>1 DEF SuiteInv, Serves, ScratchTyped
<1>3. /\ child.req.op = "prepare" => job.stage = "prepare"
      /\ child.req.op = "cleanup" => job.stage = "cleanup"
      /\ job.stage = "cleanup" => child.req.op = "cleanup" /\ child.req.format = "none"
  BY <1>2, CurrentIs
<1>5. CASE ChildStarts
  <2>1. Ran("run", child.code, token, ready)
    BY <1>2, <1>5 DEF Ran, ChildStarts, Captured, ChildTyped, ChildShape
  <2>2. UNCHANGED <<Others, scratch>> /\ child.code \in {0, 1, 124} /\ ready \subseteq Formats
    BY <1>2, <1>5 DEF ChildStarts, ChildTyped, SuiteInv, Numbers
  <2>3. SuiteInv'
    BY <1>1, <2>1, <2>2, RunsSound
  <2> QED BY <2>2, <2>3, UntouchedKept
<1>14. ASSUME NEW code \in FailureCodes, ChildFails(code) PROVE SuiteInv' /\ KeepsUnknown
  <2>1. Ran("dead", code, child.token, child.ready)
    BY <1>2, <1>14 DEF Ran, ChildFails, ChildTyped, ChildShape
  <2>2. UNCHANGED <<Others, scratch>> /\ code \in {0, 1, 124} /\ child.ready \subseteq Formats
    BY <1>2, <1>14 DEF ChildFails, FailureCodes, ChildTyped
  <2>3. SuiteInv'
    BY <1>1, <2>1, <2>2, RunsSound
  <2> QED BY <2>2, <2>3, UntouchedKept
<1>6. CASE ChildInspects
  <2>1. Exits(TRUE) /\ scratch' = scratch /\ child.req.op = "inspect"
    BY <1>6 DEF ChildInspects
  <2> QED BY <1>1, <1>3, <2>1, RepliesSound, UntouchedKept
<1>7. CASE ChildProbes
  <2>1. PICK valid \in BOOLEAN : Exits(valid /\ Stable /\ ImageHolds)
    BY <1>7 DEF ChildProbes
  <2>2. PICK g \in BOOLEAN : Exits(g)
    BY <2>1
  <2>3. scratch' = scratch /\ child.req.format # "none"
    BY <1>7 DEF ChildProbes
  <2> QED BY <1>1, <1>3, <2>2, <2>3, RepliesSound, UntouchedKept
<1>8. CASE PrepareDirectory
  <2>1. /\ scratch' = [scratch EXCEPT !.dir = TRUE] /\ child' = [child EXCEPT !.at = 1]
        /\ UNCHANGED Others /\ job.stage = "prepare" /\ child.req.op # "cleanup"
    BY <1>3, <1>8 DEF PrepareDirectory
  <2>2. /\ ScratchShape(scratch') /\ scratch'.files = scratch.files /\ scratch'.gone = scratch.gone
        /\ scratch'.foreign = scratch.foreign /\ scratch'.dir
    BY <1>2, <2>1 DEF ScratchShape
  <2>3. ScratchTyped'
    BY <1>2, <2>2 DEF ScratchTyped, ScratchShape
  <2>4. KeepsUnknown
    BY <1>2, <2>2 DEF KeepsUnknown, ScratchTyped
  <2> QED BY <1>1, <2>1, <2>3, <2>4, MovesSound
<1>9. CASE PrepareFile
  <2>1. PICK n, m, f : /\ scratch' = [scratch EXCEPT !.files = f, !.manifest = m]
                       /\ child' = [child EXCEPT !.at = n] /\ f \in 0..SlotFiles
                       /\ UNCHANGED Others /\ job.stage = "prepare" /\ child.req.op # "cleanup"
    <3>1. UNCHANGED Others /\ job.stage = "prepare" /\ child.req.op # "cleanup"
      BY <1>3, <1>9 DEF PrepareFile
    <3>2. CASE /\ scratch.files < SlotFiles
               /\ scratch' = [scratch EXCEPT !.files = @ + 1] /\ UNCHANGED child
      <4>1. scratch' = [scratch EXCEPT !.files = scratch.files + 1, !.manifest = scratch.manifest]
        BY <1>2, <3>2 DEF ScratchShape
      <4>2. child' = [child EXCEPT !.at = child.at]
        BY <1>2, <3>2 DEF ChildTyped, ChildShape
      <4>3. scratch.files + 1 \in 0..SlotFiles
        BY <1>2, <3>2, SlotFilesAssumption DEF ScratchTyped
      <4> QED BY <3>1, <4>1, <4>2, <4>3
    <3>3. CASE /\ scratch.files = SlotFiles
               /\ scratch' = [scratch EXCEPT !.manifest = TRUE] /\ child' = [child EXCEPT !.at = 2]
      <4>1. scratch' = [scratch EXCEPT !.files = scratch.files, !.manifest = TRUE]
        BY <1>2, <3>3 DEF ScratchShape
      <4> QED BY <1>2, <3>1, <3>3, <4>1 DEF ScratchTyped
    <3> QED BY <1>9, <3>2, <3>3 DEF PrepareFile
  <2>2. /\ ScratchShape(scratch') /\ scratch'.files = f /\ scratch'.gone = scratch.gone
        /\ scratch'.foreign = scratch.foreign /\ scratch'.dir = scratch.dir
    BY <1>2, <2>1 DEF ScratchShape
  <2>3. ScratchTyped'
    BY <1>2, <2>1, <2>2 DEF ScratchTyped, ScratchShape
  <2>4. KeepsUnknown
    BY <1>2, <2>2 DEF KeepsUnknown, ScratchTyped
  <2> QED BY <1>1, <2>1, <2>2, <2>3, <2>4, MovesSound
<1>10. CASE PrepareReplies
  <2>1. Exits(Intact /\ Stable) /\ scratch' = scratch /\ job.stage = "prepare"
    BY <1>3, <1>10 DEF PrepareReplies
  <2>2. PICK g \in BOOLEAN : Exits(g)
    BY <2>1
  <2> QED BY <1>1, <2>1, <2>2, RepliesSound, UntouchedKept
<1>11. CASE CleanupLoads \/ CleanupGuards
  <2>1. scratch' = scratch
    BY <1>11 DEF CleanupLoads, CleanupGuards
  <2>2. \/ \E n \in {1, 2} : /\ child' = [child EXCEPT !.at = n] /\ UNCHANGED Others
                             /\ ~scratch.damaged
        \/ Exits(~scratch.dir) \/ Exits(FALSE)
    BY <1>11 DEF CleanupLoads, CleanupGuards, Intact
  <2>3. ScratchTyped'
    BY <1>2, <2>1 DEF ScratchTyped, ScratchShape
  <2>4. ASSUME NEW n \in {1, 2}, child' = [child EXCEPT !.at = n], UNCHANGED Others, ~scratch.damaged
        PROVE  SuiteInv'
    BY <1>1, <2>1, <2>3, <2>4, MovesSound
  <2>5. CASE Exits(~scratch.dir)
    <3>1. PICK g \in BOOLEAN : g = ~scratch.dir
      OBVIOUS
    <3>2. Exits(g) /\ (g => ~scratch.dir)
      BY <2>5, <3>1
    <3> QED BY <1>1, <2>1, <3>2, RepliesSound, UntouchedKept
  <2>6. CASE Exits(FALSE)
    BY <1>1, <2>1, <2>6, RepliesSound, UntouchedKept
  <2> QED BY <2>1, <2>2, <2>4, <2>5, <2>6, UntouchedKept
<1>12. CASE CleanupDeletes
  <2>1. CASE Exits(FALSE) /\ scratch' = scratch
    BY <1>1, <2>1, RepliesSound, UntouchedKept
  <2>2. CASE scratch' = [scratch EXCEPT !.gone = @ + 1] /\ UNCHANGED <<child, Others>>
    <3>1. /\ ScratchShape(scratch') /\ scratch'.files = scratch.files
          /\ scratch'.gone = scratch.gone + 1 /\ scratch'.damaged = scratch.damaged
          /\ scratch'.foreign = scratch.foreign /\ scratch'.dir = scratch.dir
      BY <1>2, <2>2 DEF ScratchShape
    <3>2. ScratchTyped'
      BY <1>2, <1>12, <3>1, SlotFilesAssumption DEF ScratchTyped, ScratchShape, CleanupDeletes
    <3>3. ~scratch.damaged
      BY <1>12 DEF CleanupDeletes, SuiteInv, Serves
    <3>4. KeepsUnknown
      BY <1>2, <3>1, <3>3 DEF KeepsUnknown, ScratchTyped
    <3>5. ChildTyped'
      BY <1>2, <2>2 DEF ChildTyped, ChildShape, ReplyTyped
    <3> QED BY <1>1, <2>2, <3>1, <3>2, <3>3, <3>4, <3>5, ChildStep DEF SuiteInv, Serves
  <2> QED BY <1>12, <2>1, <2>2 DEF CleanupDeletes
<1>13. CASE CleanupRemoves
  <2>1. CASE Exits(FALSE) /\ scratch' = scratch
    BY <1>1, <2>1, RepliesSound, UntouchedKept
  <2>2. CASE ~scratch.foreign /\ scratch' = NoScratch /\ Exits(TRUE)
    <3>1. /\ ScratchShape(NoScratch) /\ NoScratch.files = 0 /\ NoScratch.gone = 0
          /\ ~NoScratch.foreign /\ ~NoScratch.dir /\ ~NoScratch.damaged
      BY DEF NoScratch, ScratchShape
    <3>2. ScratchTyped'
      BY <2>2, <3>1, SlotFilesAssumption, ScratchIs
    <3>3. KeepsUnknown
      BY <1>2, <2>2, <3>1 DEF KeepsUnknown, ScratchTyped
    <3>4. /\ ChildTyped' /\ child'.req = child.req /\ child'.at = child.at
          /\ child'.reply.good = TRUE /\ UNCHANGED Others
      BY <2>2, ExitsIs
    <3> QED BY <1>1, <2>2, <3>1, <3>2, <3>3, <3>4, ChildStep
  <2> QED BY <1>13, <2>1, <2>2 DEF CleanupRemoves
<1> QED BY <1>5, <1>6, <1>7, <1>8, <1>9, <1>10, <1>11, <1>12, <1>13, <1>14 DEF Child

-----------------------------------------------------------------------------
(* Steps of windows, of time and of other programs.                         *)

LEMMA BeginSuite ==
    ASSUME SlotInv, SuiteInv, NEW w \in Windows, NEW op \in {"inspect", "suite"}, NEW consent,
           UiBegin(w, op, consent)
    PROVE  SuiteInv' /\ KeepsUnknown
<1> DEFINE fresh == [NoView EXCEPT !.owner = w, !.op = op]
           n == entry.id + 1
<1>1. /\ entry' = [NoEntry EXCEPT !.owner = w, !.id = n, !.seq = 1,
                                  !.status = "running", !.active = TRUE]
      /\ ~entry.active /\ entry.id < MaxRequests /\ child' = child /\ UNCHANGED env
      /\ view' = Snapshot(fresh, entry') /\ scratch' = NoScratch
      /\ job' = [NoJob EXCEPT !.stage = "inspect", !.call = "ready", !.op = op, !.id = entry'.id]
  BY DEF UiBegin, ServiceBegin
<1>2. /\ entry'.id = n /\ entry'.seq = 1 /\ entry'.status = "running" /\ entry'.active = TRUE
  BY <1>1 DEF NoEntry
<1>3. n \in 0..MaxRequests /\ entry.id # n
  BY <1>1, BoundsAssumption DEF SuiteInv, Numbers
<1>4. view'.op = op /\ view'.result = "none" /\ view'.cleanup = TRUE
  BY <1>1 DEF NoView, Snapshot
<1>5. /\ JobShape(job') /\ job'.stage = "inspect" /\ job'.call = "ready" /\ job'.op = op
      /\ job'.answer = "none" /\ job'.outcome = "ok" /\ job'.grace = "unset"
      /\ job'.cleanup = TRUE /\ job'.probes = NoJob.probes /\ job'.ready = {}
      /\ job'.zombie = FALSE
  <2>1. JobShape(NoJob)
    BY DEF NoJob, JobShape
  <2>2. /\ NoJob.answer = "none" /\ NoJob.outcome = "ok" /\ NoJob.grace = "unset"
        /\ NoJob.cleanup = TRUE /\ NoJob.ready = {} /\ NoJob.zombie = FALSE
    BY DEF NoJob
  <2>3. \A m : LET k == [NoJob EXCEPT !.stage = "inspect", !.call = "ready", !.op = op, !.id = m]
              IN  /\ JobShape(k) /\ k.stage = "inspect" /\ k.call = "ready" /\ k.op = op
                  /\ k.answer = "none" /\ k.outcome = "ok" /\ k.grace = "unset"
                  /\ k.cleanup = TRUE /\ k.probes = NoJob.probes /\ k.ready = {}
                  /\ k.zombie = FALSE
    BY <2>1, <2>2 DEF JobShape
  <2> QED BY <1>1, <2>3, Zenon
<1>6. NoJob.probes \in [Formats -> 0..10]
  BY DEF NoJob
<1>7. /\ ScratchShape(NoScratch) /\ NoScratch.files = 0 /\ NoScratch.gone = 0
      /\ NoScratch.foreign = FALSE /\ NoScratch.dir = FALSE /\ NoScratch.damaged = FALSE
  BY DEF NoScratch, ScratchShape
<1>8. ScratchTyped'
  BY <1>1, <1>7, SlotFilesAssumption, ScratchIs
<1>9. (JobTyped(job) /\ Reached(job) /\ Reports(job) /\ Reaps(job) /\ Clears(job))'
  <2>1. JobTyped(job')
    BY <1>5, <1>6 DEF JobTyped, Answers
  <2>2. Reached(job') /\ Reports(job') /\ Reaps(job')
    BY <1>5 DEF Reached, Reports, Reaps, Working
  <2>3. Clears(job)'
    BY <1>1, <1>7 DEF Clears
  <2> QED BY <2>1, <2>2, <2>3 DEF JobTyped, JobShape, Reached, Reports, Reaps, ProbesDone
<1>10. child = NoChild
  BY <1>1 DEF SlotInv, HeldWhileWorking
<1>11. NoChild.root = "none" /\ NoChild.req.op = "none" /\ ~NoChild.reply.good
  BY DEF NoChild, NoReply, PlainRequest
<1>12. ChildTyped' /\ Serves'
  BY <1>1, <1>7, <1>10, <1>11 DEF SuiteInv, ChildTyped, ChildShape, ReplyTyped, Serves
<1>13. Ended'
  BY <1>2 DEF Ended
<1>14. Numbers'
  <2>1. open' = open
    BY DEF UiBegin
  <2>2. open \subseteq Windows /\ token' \in Nat /\ ready' \subseteq Formats
    BY <1>1 DEF SuiteInv, Numbers, env
  <2>3. /\ view'.op = job'.op /\ view'.result \in Terminal \cup {"none"} /\ view'.cleanup \in BOOLEAN
    BY <1>4, <1>5
  <2>4. entry'.id \in 0..MaxRequests /\ entry'.seq = 1 /\ entry'.seq \in 0..3
    BY <1>2, <1>3
  <2>5. entry'.active => entry'.seq = IF entry'.status = "running" THEN 1 ELSE 2
    BY <1>2
  <2> HIDE DEF n, fresh
  <2> QED BY <2>1, <2>2, <2>3, <2>4, <2>5 DEF Numbers
<1>15. KeepsUnknown
  BY <1>2, <1>3 DEF KeepsUnknown
<1> QED BY <1>8, <1>9, <1>12, <1>13, <1>14, <1>15 DEF SuiteInv

\* Steps of the slot between the begin and the finish of a request.
LEMMA SlotMoves ==
    ASSUME SuiteInv, UNCHANGED <<job, child, scratch, env>>, open' \subseteq open,
           view'.op = view.op, view'.result = view.result, view'.cleanup = view.cleanup,
           entry'.active = entry.active, entry'.id = entry.id, entry'.seq \in 0..3,
           ~entry.active => entry'.status = entry.status,
           entry.active => entry'.seq = IF entry'.status = "running" THEN 1 ELSE 2
    PROVE  SuiteInv' /\ KeepsUnknown
<1>1. (JobTyped(job) /\ Reached(job) /\ Reports(job) /\ Reaps(job) /\ Clears(job))'
  BY DEF SuiteInv, JobTyped, JobShape, Reached, Reports, Reaps, Clears, ProbesDone
<1>2. ChildTyped' /\ ScratchTyped'
  BY DEF SuiteInv, ChildTyped, ChildShape, ReplyTyped, ScratchTyped, ScratchShape
<1>3. CurrentRequest' = CurrentRequest
  BY DEF CurrentRequest, FormatDue
<1>4. Serves'
  BY <1>3 DEF SuiteInv, Serves
<1>5. Ended' /\ Numbers'
  BY DEF SuiteInv, Ended, Numbers, ProbesDone, env
<1> QED BY <1>1, <1>2, <1>4, <1>5, UntouchedKept DEF SuiteInv

LEMMA CancelSuite ==
    ASSUME SlotInv, SuiteInv, NEW w, NEW id, ServiceCancel(w, id), view' = Snapshot(view, entry'),
           open' \subseteq open,
           UNCHANGED <<job, child, scratch, env>>
    PROVE  SuiteInv' /\ KeepsUnknown
<1>1. view'.op = view.op /\ view'.result = view.result /\ view'.cleanup = view.cleanup
  BY DEF Snapshot, SlotInv, ViewShape
<1>2. CASE entry.active /\ entry.status # "cancelling"
  <2>1. entry' = [entry EXCEPT !.cancelled = TRUE, !.status = "cancelling", !.seq = entry.seq + 1]
    BY <1>2 DEF ServiceCancel
  <2>2. entry.status = "running" /\ entry.seq = 1
    BY <1>2 DEF SlotInv, EntrySound, SuiteInv, Numbers
  <2>3. /\ entry'.status = "cancelling" /\ entry'.id = entry.id /\ entry'.active = entry.active
        /\ entry'.seq = 2
    BY <2>1, <2>2 DEF SlotInv, EntrySound, Entries
  <2> QED BY <1>1, <1>2, <2>3, SlotMoves
<1>3. CASE ~(entry.active /\ entry.status # "cancelling")
  <2>1. entry' = entry
    BY <1>3 DEF ServiceCancel
  <2> QED BY <1>1, <2>1, SlotMoves DEF SuiteInv, Numbers
<1> QED BY <1>2, <1>3

LEMMA CloseSuite ==
    ASSUME SlotInv, SuiteInv, NEW w, CloseOwner(w)
    PROVE  SuiteInv' /\ KeepsUnknown
<1>1. CASE view.owner = w /\ ServiceCancel(w, view.id) /\ view' = Snapshot(view, entry')
  BY <1>1, CancelSuite DEF CloseOwner
<1>2. CASE UNCHANGED <<entry, view>>
  BY <1>2, SlotMoves DEF CloseOwner, SuiteInv, Numbers
<1> QED BY <1>1, <1>2 DEF CloseOwner

LEMMA LateSuite ==
    ASSUME SlotInv, SuiteInv, RequestLate
    PROVE  SuiteInv' /\ KeepsUnknown
<1>1. entry' = [entry EXCEPT !.late = TRUE] /\ UNCHANGED <<open, view, job, child, scratch, env>>
  BY DEF RequestLate
<1>2. /\ entry'.status = entry.status /\ entry'.active = entry.active /\ entry'.id = entry.id
      /\ entry'.seq = entry.seq
  BY <1>1 DEF SlotInv, EntrySound, Entries
<1> QED BY <1>1, <1>2, SlotMoves DEF SuiteInv, Numbers

\* The report is published with the end of the request.
LEMMA FinishSuite ==
    ASSUME SlotInv, SuiteInv, UiFinish
    PROVE  SuiteInv' /\ KeepsUnknown
<1> DEFINE s == IF job.status = "failed" THEN "failed"
                ELSE IF entry.cancelled THEN "cancelled"
                ELSE IF entry.late THEN "timed-out" ELSE job.status
           r == IF job.reported THEN job.status ELSE "none"
<1>1. /\ job.stage = "finish" /\ job.status \in Terminal /\ job.call = "none" /\ entry.active
  BY DEF UiFinish, ServiceFinish, SlotInv, JobSound, Working
<1>2. /\ entry' = [entry EXCEPT !.status = s, !.seq = entry.seq + 1, !.active = FALSE]
      /\ view' = [Snapshot(view, entry') EXCEPT !.result = r, !.cleanup = job.cleanup]
      /\ job' = [job EXCEPT !.stage = "idle", !.call = "none"]
      /\ UNCHANGED <<child, scratch, env>>
  BY DEF UiFinish, ServiceFinish
<1>3. /\ job.status = "failed" => s = "failed"
      /\ s = "completed" => job.status = "completed"
  OBVIOUS
<1>4. r \in Terminal \cup {"none"} /\ (job.reported => r = job.status)
  BY <1>1
<1> HIDE DEF s, r
<1>5. /\ entry'.status = s /\ entry'.active = FALSE /\ entry'.id = entry.id
      /\ entry'.seq = entry.seq + 1
  BY <1>2 DEF SlotInv, EntrySound, Entries
<1>6. view'.op = view.op /\ view'.result = r /\ view'.cleanup = job.cleanup
  BY <1>2 DEF Snapshot, SlotInv, ViewShape
<1>7. /\ JobShape(job') /\ job'.stage = "idle" /\ job'.call = "none" /\ job'.op = job.op
      /\ job'.token = job.token /\ job'.seen = job.seen /\ job'.ready = job.ready
      /\ job'.probes = job.probes /\ job'.outcome = job.outcome /\ job'.cleanup = job.cleanup
      /\ job'.zombie = job.zombie /\ job'.answer = job.answer /\ job'.grace = job.grace
  BY <1>2 DEF SuiteInv, JobTyped, JobShape
<1>8. JobTyped(job)'
  BY <1>7 DEF SuiteInv, JobTyped, JobShape
<1>9. (Reached(job) /\ Reports(job) /\ Reaps(job) /\ Clears(job))'
  BY <1>7 DEF Reached, Reports, Reaps, Clears, Working
<1>10. child = NoChild
  BY <1>1 DEF SlotInv, HeldWhileWorking
<1>11. NoChild.root = "none" /\ NoChild.req.op = "none" /\ ~NoChild.reply.good
  BY DEF NoChild, NoReply, PlainRequest
<1>12. ChildTyped' /\ Serves' /\ ScratchTyped'
  BY <1>2, <1>10, <1>11
     DEF SuiteInv, ChildTyped, ChildShape, ReplyTyped, Serves, ScratchTyped, ScratchShape
<1>13. Ended'
  <2>1. scratch'.dir \/ job'.zombie => entry'.status = "failed"
    BY <1>1, <1>2, <1>3, <1>5, <1>7 DEF SuiteInv, Reaps, Clears
  <2>2. ASSUME entry'.status = "completed"
        PROVE  /\ view'.result = "completed" /\ view'.cleanup
               /\ view'.op = "suite" => ProbesDone(job') /\ job'.seen = job'.token
    <3>1. job.status = "completed"
      BY <1>3, <1>5, <2>2
    <3>2. /\ job.reported /\ job.cleanup
          /\ job.op = "suite" => ProbesDone(job) /\ job.seen = job.token
      BY <1>1, <3>1 DEF SuiteInv, Reports
    <3>3. ProbesDone(job') <=> ProbesDone(job)
      BY <1>7 DEF ProbesDone
    <3> QED BY <1>4, <1>6, <1>7, <3>1, <3>2, <3>3 DEF SuiteInv, Numbers
  <2> QED BY <2>1, <2>2 DEF Ended, ProbesDone
<1>14. Numbers'
  <2>1. entry.seq \in {1, 2} /\ entry.id \in 0..MaxRequests
    BY <1>1 DEF SuiteInv, Numbers
  <2>2. open' \subseteq Windows /\ token' \in Nat /\ ready' \subseteq Formats
    BY <1>2 DEF SuiteInv, Numbers, env, UiFinish
  <2>3. view.op = job.op /\ job.cleanup \in BOOLEAN
    BY DEF SuiteInv, Numbers, JobTyped
  <2> QED BY <1>4, <1>5, <1>6, <1>7, <2>1, <2>2, <2>3 DEF Numbers
<1> QED BY <1>2, <1>8, <1>9, <1>12, <1>13, <1>14, UntouchedKept DEF SuiteInv

LEMMA GraceSuite ==
    ASSUME SlotInv, SuiteInv, GraceOver
    PROVE  SuiteInv' /\ KeepsUnknown
<1>1. job.stage # "idle" /\ job' = [job EXCEPT !.grace = "over"] /\ UNCHANGED <<Ui, child, scratch, env>>
  BY DEF GraceOver
<1>2. Alike(job, job')
  BY <1>1 DEF Alike, SuiteInv, JobTyped, JobShape
<1>3. Sound(job') /\ job'.stage = job.stage /\ job'.op = job.op
  BY <1>2, AlikeSound DEF SuiteInv, Sound, Alike
<1>4. (JobTyped(job) /\ Reached(job) /\ Reports(job) /\ Reaps(job) /\ Clears(job))'
  BY <1>1, <1>3, SoundNext
<1>5. ScratchTyped' /\ Numbers'
  BY <1>1, <1>3, RestTyped
<1>6. job.stage \in Working => CurrentRequest' = CurrentRequest
  BY <1>2, AlikeCurrent
<1>7. ChildTyped' /\ Serves'
  BY <1>1, <1>3, <1>6 DEF SuiteInv, ChildTyped, ChildShape, ReplyTyped, Serves
<1>8. entry'.active
  BY <1>1 DEF SlotInv, HeldWhileWorking, Ui
<1> QED BY <1>1, <1>4, <1>5, <1>7, <1>8, UntouchedKept DEF SuiteInv, Ended

LEMMA WorldSuite ==
    ASSUME SlotInv, SuiteInv, Registered \/ Disturbed
    PROVE  SuiteInv' /\ KeepsUnknown
<1>1. UNCHANGED <<Ui, job, child>>
  BY DEF Registered, Disturbed
<1>2. CurrentRequest' = CurrentRequest
  BY <1>1 DEF CurrentRequest, FormatDue
<1>3. (JobTyped(job) /\ Reached(job) /\ Reports(job) /\ Reaps(job))' /\ ChildTyped'
  BY <1>1 DEF SuiteInv, JobTyped, JobShape, Reached, Reports, Reaps, ProbesDone, ChildTyped,
              ChildShape, ReplyTyped
<1>4. CASE Registered
  <2>1. scratch' = scratch /\ token' \in Nat /\ ready' \subseteq Formats
    BY <1>4, ReadyAssumption DEF Registered, SuiteInv, Numbers, Formats
  <2>2. Numbers'
    BY <1>1, <2>1 DEF SuiteInv, Numbers, Ui
  <2>3. ScratchTyped' /\ Clears(job)'
    BY <1>1, <2>1 DEF SuiteInv, ScratchTyped, ScratchShape, Clears
  <2>4. Serves' /\ Ended'
    BY <1>1, <1>2, <2>1 DEF SuiteInv, Serves, Ended, Ui, ProbesDone
  <2> QED BY <1>3, <2>1, <2>2, <2>3, <2>4, UntouchedKept DEF SuiteInv
<1>5. CASE Disturbed
  <2>1. PICK f, d : /\ scratch' = [scratch EXCEPT !.foreign = f, !.damaged = d]
                    /\ d = scratch.damaged \/ child.at # 2
    <3>1. CASE scratch' = [scratch EXCEPT !.foreign = TRUE]
      <4>1. scratch' = [scratch EXCEPT !.foreign = TRUE, !.damaged = scratch.damaged]
        BY <3>1 DEF SuiteInv, ScratchTyped, ScratchShape
      <4> QED BY <4>1
    <3>2. CASE scratch' = [scratch EXCEPT !.damaged = TRUE] /\ child.at # 2
      <4>1. scratch' = [scratch EXCEPT !.foreign = scratch.foreign, !.damaged = TRUE]
        BY <3>2 DEF SuiteInv, ScratchTyped, ScratchShape
      <4> QED BY <3>2, <4>1
    <3> QED BY <1>5, <3>1, <3>2 DEF Disturbed
  <2>2. /\ ScratchShape(scratch') /\ scratch'.files = scratch.files /\ scratch'.gone = scratch.gone
        /\ scratch'.dir = scratch.dir /\ scratch'.damaged = d /\ scratch.dir
    BY <1>5, <2>1 DEF SuiteInv, ScratchTyped, ScratchShape, Disturbed
  <2>3. ScratchTyped' /\ Clears(job)'
    BY <1>1, <2>2 DEF SuiteInv, ScratchTyped, ScratchShape, Clears
  <2>4. Numbers'
    BY <1>1, <1>5 DEF SuiteInv, Numbers, Ui, Disturbed, env
  <2>5. Serves' /\ Ended'
    BY <1>1, <1>2, <2>1, <2>2 DEF SuiteInv, Serves, Ended, Ui, ProbesDone
  <2>6. KeepsUnknown
    BY <2>2 DEF KeepsUnknown, SuiteInv, ScratchTyped
  <2> QED BY <1>3, <2>3, <2>4, <2>5, <2>6 DEF SuiteInv
<1> QED BY <1>4, <1>5

-----------------------------------------------------------------------------

LEMMA SuiteInitial == Init => SuiteInv
<1> SUFFICES ASSUME Init PROVE SuiteInv
  OBVIOUS
<1>1. NoJob.probes \in [Formats -> 0..10]
  BY DEF NoJob
<1>2. JobTyped(job) /\ Reached(job) /\ Reports(job) /\ Reaps(job) /\ Clears(job)
  <2>1. JobShape(NoJob)
    BY DEF NoJob, JobShape
  <2>2. /\ NoJob.stage = "idle" /\ NoJob.call = "none" /\ NoJob.op = "none" /\ NoJob.ready = {}
        /\ NoJob.answer = "none" /\ NoJob.outcome = "ok" /\ NoJob.cleanup = TRUE
        /\ NoJob.grace = "unset" /\ NoJob.zombie = FALSE
    BY DEF NoJob
  <2>3. JobTyped(NoJob)
    BY <1>1, <2>1, <2>2 DEF JobTyped, Answers
  <2>4. Reached(NoJob) /\ Reports(NoJob) /\ Reaps(NoJob)
    BY <2>2 DEF Reached, Reports, Reaps, Working
  <2>5. Clears(job)
    BY DEF Init, Clears, NoScratch
  <2> QED BY <2>3, <2>4, <2>5 DEF Init
<1>3. ChildTyped /\ Serves
  BY DEF Init, ChildTyped, ChildShape, ReplyTyped, Serves, NoChild, NoReply, PlainRequest
<1>4. ScratchTyped
  BY SlotFilesAssumption DEF Init, ScratchTyped, ScratchShape, NoScratch
<1>5. Ended
  BY DEF Init, Ended, NoEntry, NoJob, NoScratch
<1>6. Numbers
  BY BoundsAssumption, ReadyAssumption DEF Init, Numbers, NoEntry, NoView, NoJob, Formats, Terminal
<1> QED BY <1>2, <1>3, <1>4, <1>5, <1>6 DEF SuiteInv

LEMMA SuiteStep == SlotInv /\ SuiteInv /\ [Next]_vars => SuiteInv' /\ [KeepsUnknown]_vars
<1> SUFFICES ASSUME SlotInv, SuiteInv, [Next]_vars PROVE SuiteInv' /\ [KeepsUnknown]_vars
  OBVIOUS
<1>1. ASSUME NEW w \in Windows, CloseOwner(w) PROVE SuiteInv' /\ KeepsUnknown
  BY <1>1, CloseSuite
<1>2. ASSUME NEW w \in Windows, NEW id \in 1..MaxRequests, UiCancel(w, id)
      PROVE  SuiteInv' /\ KeepsUnknown
  BY <1>2, CancelSuite DEF UiCancel
<1>3. ASSUME NEW w \in Windows, NEW op \in {"inspect", "suite"}, NEW consent, UiBegin(w, op, consent)
      PROVE  SuiteInv' /\ KeepsUnknown
  BY <1>3, BeginSuite
<1>4. CASE Worker
  BY <1>4, ThreadSound, FinishSuite, UntouchedKept DEF Worker
<1>5. CASE Child
  BY <1>5, ChildSound
<1>6. CASE RequestLate \/ GraceOver
  BY <1>6, LateSuite, GraceSuite
<1>7. CASE Registered \/ Disturbed
  BY <1>7, WorldSuite
<1>8. CASE UNCHANGED vars
  BY <1>8, SlotMoves DEF vars, SuiteInv, Numbers, env
<1> QED BY <1>1, <1>2, <1>3, <1>4, <1>5, <1>6, <1>7, <1>8 DEF Next

LEMMA SuiteCorrect == Spec => [](SlotInv /\ SuiteInv)
<1>1. Init => SlotInv /\ SuiteInv
  BY SlotInitial, SuiteInitial
<1>2. SlotInv /\ SuiteInv /\ [Next]_vars => (SlotInv /\ SuiteInv)'
  BY SlotStep, SuiteStep
<1> QED BY <1>1, <1>2, PTL DEF Spec

\* Together the two invariants are what the diagnostics promise.
LEMMA SuitePromises == SlotInv /\ SuiteInv => DiagnosticsSound
<1> SUFFICES ASSUME SlotInv, SuiteInv PROVE DiagnosticsSound
  OBVIOUS
<1>1. TypeOK
  <2>1. open \subseteq Windows
    BY DEF SuiteInv, Numbers
  <2>2. entry \in Entries /\ entry.id \in 0..MaxRequests /\ entry.seq \in 0..3
    BY DEF SlotInv, EntrySound, SuiteInv, Numbers
  <2>3. entry \in [owner : Windows \cup {"nobody"}, id : 0..MaxRequests, seq : 0..3,
                   status : Terminal \cup {"none", "running", "cancelling"},
                   cancelled : BOOLEAN, late : BOOLEAN, active : BOOLEAN]
    BY <2>2 DEF Entries, Statuses
  <2>4. /\ ViewShape(view) /\ view.owner = entry.owner /\ view.id = entry.id
        /\ view.seq = entry.seq /\ view.status = entry.status
        /\ view.op \in {"none", "inspect", "suite"} /\ view.result \in Terminal \cup {"none"}
        /\ view.cleanup \in BOOLEAN
    BY DEF SlotInv, PublishedTogether, SuiteInv, Numbers, JobTyped
  <2>5. view \in [owner : Windows \cup {"nobody"}, id : 0..MaxRequests, seq : 0..3,
                  status : Terminal \cup {"none", "running", "cancelling"},
                  op : {"none", "inspect", "suite"}, result : Terminal \cup {"none"},
                  cleanup : BOOLEAN]
    <3>1. /\ view.owner \in Windows \cup {"nobody"} /\ view.id \in 0..MaxRequests
          /\ view.seq \in 0..3 /\ view.status \in Terminal \cup {"none", "running", "cancelling"}
      BY <2>3, <2>4
    <3> QED BY <2>4, <3>1 DEF ViewShape
  <2>6. /\ job.stage \in {"idle", "inspect", "prepare", "probe", "reinspect", "cleanup", "finish"}
        /\ job.call \in {"none", "ready", "poll", "complete"}
        /\ job.answer \in Errors \cup {"none", "ok"} /\ job.outcome \in Errors \cup {"ok"}
        /\ job.grace \in {"unset", "open", "over"} /\ job.cleanup \in BOOLEAN
        /\ job.probes \in [Formats -> 0..10] /\ job.ready \subseteq Formats
    BY DEF SlotInv, JobSound, Working, SuiteInv, JobTyped, Answers
  <2> QED BY <2>1, <2>3, <2>5, <2>6 DEF TypeOK, SuiteInv, ChildTyped, ScratchTyped, Numbers
<1>2. ReleasedClean
  <2>1. ASSUME ~entry.active, entry.status # "failed"
        PROVE  ~job.zombie /\ child = NoChild /\ ~scratch.dir
    BY <2>1 DEF SlotInv, HeldWhileWorking, SuiteInv, Ended
  <2> QED BY <2>1 DEF ReleasedClean
<1>3. CompletedReport
  <2>1. entry.status = "completed" => ~entry.active
    BY DEF SlotInv, EntrySound
  <2> QED BY <2>1 DEF CompletedReport, SuiteInv, Ended
<1>4. RequestsAccepted
  BY CurrentIs DEF RequestsAccepted, SuiteInv, Serves
<1> QED BY <1>1, <1>2, <1>3, <1>4 DEF DiagnosticsSound, SlotInv

\* Whatever order windows, thread, child, deadlines and other programs take: a request that did
\* not fail has left neither a process nor a directory (process.rs and scratch_delete.rs reclaim them), a
\* suite that is reported as completed has ten probes of each ready format made against one
\* registration (suite.rs), and every request that is sent is one its child accepts (protocol.rs).
THEOREM DiagnosticsAlwaysSound == Spec => []DiagnosticsSound
<1> QED BY SuiteCorrect, SuitePromises, PTL

\* The cleanup never removes a directory with an entry nobody knows, and deletes no file of a
\* directory that was changed: the guards of scratch_delete.rs hold against any interleaving.
THEOREM DiagnosticsKeepUnknown == Spec => UnknownKept
<1>1. SlotInv /\ SuiteInv /\ [Next]_vars => [KeepsUnknown]_vars
  BY SuiteStep
<1> QED BY <1>1, SuiteCorrect, PTL DEF Spec, UnknownKept, KeepsUnknown
=============================================================================
