-------------------------- MODULE ThumbnailWorker --------------------------
(***************************************************************************)
(* One thumbnail of the Windows handler (process/mod.rs, child.rs,         *)
(* pipe_io.rs) and the worker process that makes it (thumbnail-worker).    *)
(* The calling thread starts a process in a job, a writer thread that      *)
(* feeds it the document and a reader thread that turns what it prints     *)
(* into frames; it takes frames from a channel until a deadline, ends the  *)
(* process and joins both threads, for as long as that takes.              *)
(***************************************************************************)
EXTENDS Naturals, Sequences

CONSTANTS PipeFrames,   \* frames the output pipe holds before the worker blocks
          ChannelBound, \* bound: results the reader puts into the channel unread
          MaxStrays     \* bound: frames out of order or broken, of a worker gone wrong

ASSUME WorkerAssumption == PipeFrames \in Nat \ {0} /\ ChannelBound \in Nat \ {0} /\ MaxStrays \in Nat

VARIABLES stage,        \* the calling thread: what it does next
          ends,      \* pipe ends the handler's process has open
          worker,    \* the worker process
          inJob,     \* the process belongs to the job, and the job's handle is open
          writer, reader,  \* the two threads
          pipe,      \* frames in the output pipe
          channel,   \* results the reader has sent
          receiving, \* the receiver of the channel exists
          candidate, \* FrameSelector: the preview to fall back to
          result,    \* what the call returns
          expired,   \* the deadline has passed
          lateFrames, \* (history) frames accepted since
          sent,      \* (history) kinds of frames the worker has written in order
          strays     \* (history) frames the worker has written otherwise

rendering == <<stage, ends, worker, inJob, writer, reader, pipe, channel, receiving, candidate,
               result, expired, lateFrames, sent, strays>>
hidden == <<lateFrames, sent, strays>>
threads == <<writer, reader, pipe, channel>>

Alive == worker \in {"suspended", "reading", "preview", "page", "complete", "exiting"}
Kinds == {"PreviewCandidate", "DirectBitmap", "DirectFailed", "Complete"}
\* A frame that does not decode, whole or cut short
Broken == "broken"
Handles == {"input_write", "input_read", "output_read", "output_write"}

InitRendering ==
  /\ stage = "prepare" /\ ends = {} /\ worker = "none" /\ inJob = FALSE
  /\ writer = "none" /\ reader = "none" /\ pipe = <<>> /\ channel = <<>> /\ receiving = FALSE
  /\ candidate = FALSE /\ result = "none" /\ expired = FALSE
  /\ lateFrames = 0 /\ sent = {} /\ strays = 0

-----------------------------------------------------------------------------
(***************************************************************************)
(* render_thumbnail                                                        *)
(***************************************************************************)
\* The job's handle is closed: JOB_OBJECT_LIMIT_KILL_ON_JOB_CLOSE
CloseJob == inJob' = FALSE /\ worker' = IF inJob /\ Alive THEN "dead" ELSE worker
Return(r) == stage' = "returned" /\ result' = r /\ ends' = {}

\* The input is too long, or a pipe, the job or the attributes cannot be made
CannotStart ==
  /\ stage \in {"prepare", "create"} /\ Return("error")
  /\ UNCHANGED <<worker, inJob, threads, receiving, candidate, expired, hidden>>
CreatePipes ==
  /\ stage = "prepare" /\ stage' = "create" /\ ends' = Handles
  /\ UNCHANGED <<worker, inJob, threads, receiving, candidate, result, expired, hidden>>
\* CreateProcessW, suspended, with the child's ends of the pipes
CreateProcess ==
  /\ stage = "create" /\ stage' = "assign" /\ worker' = "suspended"
  /\ UNCHANGED <<ends, inJob, threads, receiving, candidate, result, expired, hidden>>
AssignProcess ==
  /\ stage = "assign"
  /\ \/ stage' = "resume" /\ inJob' = TRUE /\ UNCHANGED <<worker, ends, result>>
     \/ Return("error") /\ worker' = "dead" /\ UNCHANGED inJob      \* TerminateProcess
  /\ UNCHANGED <<threads, receiving, candidate, expired, hidden>>
ResumeThread ==
  /\ stage = "resume"
  /\ \/ stage' = "threads" /\ worker' = "reading" /\ UNCHANGED <<inJob, ends, result>>
     \/ Return("error") /\ CloseJob
  /\ UNCHANGED <<threads, receiving, candidate, expired, hidden>>
SpawnThreads ==
  /\ stage = "threads" /\ stage' = "drop"
  /\ writer' = "running" /\ reader' = "running" /\ receiving' = TRUE
  /\ UNCHANGED <<ends, worker, inJob, pipe, channel, candidate, result, expired, hidden>>
\* (mutant) The parent keeps its copy of the child's end of the output.
DropInputOnly ==
  /\ stage = "drop" /\ stage' = "check" /\ ends' = ends \ {"input_read"}
  /\ UNCHANGED <<worker, inJob, threads, receiving, candidate, result, expired, hidden>>
\* What the child has inherited is closed in the parent
DropChildEnds ==
  /\ stage = "drop" /\ stage' = "check" /\ ends' = ends \ {"input_read", "output_write"}
  /\ UNCHANGED <<worker, inJob, threads, receiving, candidate, result, expired, hidden>>

\* The result is chosen: the receiver is dropped with its loop.
Chosen(r) == stage' = "terminate" /\ result' = r /\ receiving' = FALSE /\ channel' = <<>>
Fallback == Chosen(IF candidate THEN "preview" ELSE "error")
\* await_result_until: nothing is taken from the channel once the deadline has passed
CheckDeadline ==
  /\ stage = "check"
  /\ IF expired THEN Fallback
     ELSE stage' = "receive" /\ UNCHANGED <<result, receiving, channel>>
Check ==
  /\ CheckDeadline
  /\ UNCHANGED <<ends, worker, inJob, writer, reader, pipe, candidate, expired, hidden>>
\* FrameSelector::accept
Accept(f) ==
  CASE f = "PreviewCandidate" /\ ~candidate ->
         stage' = "check" /\ candidate' = TRUE /\ channel' = Tail(channel) /\ UNCHANGED <<result, receiving>>
    [] f = "DirectBitmap" -> Chosen("page") /\ UNCHANGED candidate
    [] f \in {"DirectFailed", "Complete", Broken} -> Fallback /\ UNCHANGED candidate
    [] OTHER -> Chosen("error") /\ UNCHANGED candidate           \* ProcessError::Protocol
Receive ==
  /\ stage = "receive"
  /\ \/ channel # <<>> /\ Accept(Head(channel)) /\ lateFrames' = IF expired THEN lateFrames + 1 ELSE lateFrames
     \/ /\ channel = <<>> /\ (reader = "done" \/ expired)        \* disconnected, or timed out
        /\ Fallback /\ UNCHANGED <<candidate, lateFrames>>
  /\ UNCHANGED <<ends, worker, inJob, writer, reader, pipe, expired, sent, strays>>

\* TerminateJobObject
KillJob == worker' = IF inJob /\ Alive THEN "dead" ELSE worker
Terminate ==
  /\ stage = "terminate" /\ stage' = "join_writer" /\ KillJob
  /\ UNCHANGED <<ends, inJob, threads, receiving, candidate, result, expired, hidden>>
JoinWriter ==
  /\ stage = "join_writer" /\ writer = "done" /\ stage' = "join_reader"
  /\ UNCHANGED <<ends, worker, inJob, threads, receiving, candidate, result, expired, hidden>>
JoinReader ==
  /\ stage = "join_reader" /\ reader = "done" /\ stage' = "returned" /\ CloseJob
  /\ UNCHANGED <<ends, threads, receiving, candidate, result, expired, hidden>>

Caller == \/ CannotStart \/ CreatePipes \/ CreateProcess \/ AssignProcess \/ ResumeThread
          \/ SpawnThreads \/ DropChildEnds \/ Check \/ Receive \/ Terminate \/ JoinWriter
          \/ JoinReader

(***************************************************************************)
(* The two threads.  A pipe breaks when the last handle to its other end   *)
(* is closed; until then a thread that waits on it waits.                  *)
(***************************************************************************)
InputReadable == Alive \/ "input_read" \in ends
OutputWritable == Alive \/ "output_write" \in ends
WriterEnds == writer' = "done" /\ ends' = ends \ {"input_write"}
\* spawn_writer: the worker takes the whole request, or the pipe is broken
WriterFeeds ==
  /\ writer = "running" /\ worker = "reading"
  /\ WriterEnds /\ worker' = "preview"
  /\ UNCHANGED <<stage, inJob, reader, pipe, channel, receiving, candidate, result, expired, hidden>>
WriterFails ==
  /\ writer = "running" /\ ~InputReadable /\ WriterEnds
  /\ UNCHANGED <<stage, worker, inJob, reader, pipe, channel, receiving, candidate, result, expired,
                 hidden>>

ReaderEnds == reader' = "done" /\ ends' = ends \ {"output_read"}
\* spawn_reader: sends what it has read, an error too, and stops after Complete or when
\* nobody receives any more
Sends(f) ==
  IF receiving
  THEN /\ Len(channel) < ChannelBound /\ channel' = Append(channel, f)
       /\ IF f = "Complete" THEN ReaderEnds ELSE UNCHANGED <<reader, ends>>
  ELSE ReaderEnds /\ UNCHANGED channel
\* (mutant) What a dead worker has left in the pipe is not read.
ReadLiving ==
  /\ reader = "running"
  /\ \/ pipe # <<>> /\ Alive /\ Sends(Head(pipe)) /\ pipe' = Tail(pipe)
     \/ ~OutputWritable /\ Sends(Broken) /\ UNCHANGED pipe
\* read_frame: what is in the pipe is read even when the worker is dead
ReadFrame ==
  /\ reader = "running"
  /\ \/ pipe # <<>> /\ Sends(Head(pipe)) /\ pipe' = Tail(pipe)
     \/ pipe = <<>> /\ ~OutputWritable /\ Sends(Broken) /\ UNCHANGED pipe
ReaderReads ==
  /\ ReadFrame
  /\ UNCHANGED <<stage, worker, inJob, writer, receiving, candidate, result, expired, hidden>>

(***************************************************************************)
(* The worker: worker::run, or whatever a worker that has gone wrong does. *)
(***************************************************************************)
worked == <<stage, ends, inJob, writer, reader, channel, receiving, candidate, result, expired, lateFrames>>
Writes(f) == /\ Len(pipe) < PipeFrames /\ reader # "done" /\ pipe' = Append(pipe, f)
WritesInOrder(f) == Writes(f) /\ sent' = sent \cup {f} /\ UNCHANGED strays
WorkerPreviews ==
  /\ worker = "preview" /\ worker' = "page"
  /\ \/ WritesInOrder("PreviewCandidate")
     \/ UNCHANGED <<pipe, sent, strays>>               \* there is none, or it is not usable
  /\ UNCHANGED worked
WorkerRenders ==
  /\ worker = "page" /\ worker' = "complete"
  /\ WritesInOrder("DirectBitmap") \/ WritesInOrder("DirectFailed")
  /\ UNCHANGED worked
WorkerCompletes ==
  /\ worker = "complete" /\ worker' = "exiting" /\ WritesInOrder("Complete")
  /\ UNCHANGED worked
\* It ends: it is done, its pipe is broken, its memory is used up; part of a frame may be written.
WorkerDies ==
  /\ Alive /\ worker # "suspended" /\ worker' = "dead"
  /\ \/ UNCHANGED pipe
     \/ worker # "exiting" /\ Writes(Broken)
  /\ UNCHANGED <<worked, sent, strays>>
WorkerStrays ==
  /\ worker \in {"preview", "page", "complete"} /\ strays < MaxStrays /\ strays' = strays + 1
  /\ \E f \in Kinds \cup {Broken} : Writes(f)
  /\ UNCHANGED <<worked, worker, sent>>

SelectionTimesOut ==
  /\ ~expired /\ stage \notin {"returned", "gone"} /\ expired' = TRUE
  /\ UNCHANGED <<stage, ends, worker, inJob, threads, receiving, candidate, result, hidden>>
\* The process of the host ends, and with it its threads and its handles.
HostDies ==
  /\ stage \notin {"returned", "gone"} /\ stage' = "gone" /\ ends' = {} /\ CloseJob
  /\ writer' = "done" /\ reader' = "done" /\ receiving' = FALSE /\ channel' = <<>>
  /\ UNCHANGED <<pipe, candidate, result, expired, hidden>>

NextRendering ==
  \/ Caller \/ WriterFeeds \/ WriterFails \/ ReaderReads
  \/ WorkerPreviews \/ WorkerRenders \/ WorkerCompletes \/ WorkerDies \/ WorkerStrays
  \/ SelectionTimesOut \/ HostDies

\* The threads run and time passes; nothing is assumed of the worker.
RenderingSpec ==
  /\ InitRendering /\ [][NextRendering]_rendering
  /\ WF_rendering(Caller) /\ WF_rendering(WriterFails)
  /\ WF_rendering(ReaderReads) /\ WF_rendering(SelectionTimesOut)

-----------------------------------------------------------------------------
RenderingTypeOK ==
  /\ stage \in {"prepare", "create", "assign", "resume", "threads", "drop", "check", "receive",
             "terminate", "join_writer", "join_reader", "returned", "gone"}
  /\ ends \subseteq Handles
  /\ worker \in {"none", "suspended", "reading", "preview", "page", "complete", "exiting", "dead"}
  /\ inJob \in BOOLEAN /\ receiving \in BOOLEAN /\ candidate \in BOOLEAN /\ expired \in BOOLEAN
  /\ writer \in {"none", "running", "done"} /\ reader \in {"none", "running", "done"}
  /\ pipe \in Seq(Kinds \cup {Broken}) /\ channel \in Seq(Kinds \cup {Broken})
  /\ result \in {"none", "page", "preview", "error"} /\ (stage = "returned" => result # "none")
  /\ sent \subseteq Kinds /\ strays \in 0..MaxStrays

\* When the call has returned nothing of it is left: the worker is dead, both threads have
\* ended and no pipe is open.  When the host has died, at most a worker is left that was never
\* resumed: it was created and not yet assigned to the job.
NothingLeft ==
  /\ stage = "returned" => /\ worker \in {"none", "dead"} /\ ends = {} /\ ~inJob
                        /\ writer # "running" /\ reader # "running"
  /\ stage = "gone" => worker \in {"none", "dead", "suspended"}

\* A page that the worker has rendered before the deadline is shown, even if the worker dies
\* right after it; the preview is only shown when there is no page.
PageIsShown ==
  stage = "returned" /\ "DirectBitmap" \in sent /\ strays = 0 /\ ~expired => result = "page"

\* Of what arrives after the deadline one frame is taken at most: the one that was waited for.
OneLateFrame == lateFrames <= 1

\* What is shown is what the worker has sent, whole and in its place.
OnlySentIsShown ==
  strays = 0 => /\ result = "page" => "DirectBitmap" \in sent
                /\ result = "preview" => "PreviewCandidate" \in sent

\* The call returns, whatever the worker does: the joins without a deadline end, because the
\* worker is dead and the handler holds no end of its own that would keep a pipe open.
CallReturns == stage # "prepare" ~> stage \in {"returned", "gone"}

\* A call leaves nothing behind and returns the best it was sent in time.
RenderingSound == NothingLeft /\ PageIsShown /\ OneLateFrame /\ OnlySentIsShown
=============================================================================
