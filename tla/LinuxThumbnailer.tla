-------------------------- MODULE LinuxThumbnailer --------------------------
(***************************************************************************)
(* The Linux thumbnailer (linux-thumbnailer/src): a supervisor that runs   *)
(* itself again as a worker, waits for it until a deadline or a signal,    *)
(* and gives the worker's temporary PNG to the file the file manager asked *)
(* for: by a rename, or into the empty file it has created and holds open. *)
(* That file is known again by its device and inode alone.  Nobody holds   *)
(* it open for the supervisor, so another file can have taken its number,  *)
(* or somebody can have written into it: both are written over.            *)
(***************************************************************************)
EXTENDS Naturals

CONSTANT MaxReplaced  \* bound: times others change the output path or the file there

ASSUME ThumbnailerAssumption == MaxReplaced \in Nat

VARIABLES step,        \* the supervisor
          task,        \* the worker
          temp,        \* the temporary file: none, part of a PNG, or one that is whole
          dest,        \* the file at the output path
          content,     \* what the files there hold: "old" and "later" are bytes of others,
                       \* "later" since the file was opened or made here
          precreated,  \* PendingOutput.precreated: the empty file that was there, or nothing
          opened,      \* the file commit_precreated has opened
          committed,   \* PendingOutput.committed
          interrupted, \* INTERRUPTED
          overdue,        \* the deadline has passed
          torn,        \* (history) writing into the output file has failed
          replaced

thumbnailer == <<step, task, temp, dest, content, precreated, opened, committed, interrupted,
                 overdue, torn, replaced>>
places == <<temp, dest, content>>
pending == <<precreated, opened, committed>>
clock == <<interrupted, overdue>>

\* Files, by device and inode: the one that is there first, another one, the temporary one
Existing == {"first", "second"}
NoFile == "nothing"
Other == "other"  \* a link or a directory

InitThumbnailer ==
  /\ step = "parse" /\ task = "none" /\ temp = "none"
  /\ \E first \in {"empty", "old"} : content = [first |-> first, second |-> "old", made |-> "none"]
  /\ dest \in {NoFile, "first", Other}
  /\ precreated = NoFile /\ opened = NoFile /\ committed = FALSE
  /\ interrupted = FALSE /\ overdue = FALSE /\ torn = FALSE /\ replaced = 0

Ended == step \in {"succeeded", "failed", "killed"}
TaskRuns == task \in {"reading", "creating", "writing", "syncing"}

-----------------------------------------------------------------------------
(***************************************************************************)
(* The supervisor                                                          *)
(***************************************************************************)
\* What run_supervisor returns: the child guard goes first, then the pending output
Leave == step' = "drop_child"

\* cli::parse and the signal handlers; a link or a directory is refused as output
Parse ==
  /\ step = "parse"
  /\ \/ step' = "failed"
     \/ dest # Other /\ step' = "identify"
  /\ UNCHANGED <<task, places, pending, clock, torn, replaced>>
\* PendingOutput::new: the file that is there must be a regular one or none, and its identity
\* is kept if it is empty; a temporary name that nothing has is found
Identify ==
  /\ step = "identify"
  /\ \/ step' = "failed" /\ UNCHANGED precreated
     \/ /\ dest # Other /\ step' = "spawn"
        /\ precreated' = IF dest # NoFile /\ content[dest] = "empty" THEN dest ELSE NoFile
  /\ UNCHANGED <<task, places, opened, committed, clock, torn, replaced>>
Spawn ==
  /\ step = "spawn"
  /\ \/ step' = "wait" /\ task' = "reading"
     \/ Leave /\ UNCHANGED task
  /\ UNCHANGED <<places, pending, clock, torn, replaced>>
\* (mutant) The worker is waited for as long as it runs.
WaitForever ==
  /\ step = "wait" /\ task \in {"ended", "broken"}
  /\ IF task = "ended" THEN step' = "check" ELSE Leave
  /\ UNCHANGED <<task, places, pending, clock, torn, replaced>>
\* wait_until, and what run_supervisor makes of the status
Wait ==
  /\ step = "wait"
  /\ IF interrupted \/ overdue THEN Leave
     ELSE /\ task \in {"ended", "broken"}
          /\ IF task = "ended" THEN step' = "check" ELSE Leave
  /\ UNCHANGED <<task, places, pending, clock, torn, replaced>>
CheckSignal ==
  /\ step = "check"
  /\ IF interrupted THEN Leave ELSE step' = "validate"
  /\ UNCHANGED <<task, places, pending, clock, torn, replaced>>
\* validate_png: also of a worker that has said it was done
ValidatePng ==
  /\ step = "validate"
  /\ IF temp = "whole" THEN step' = IF precreated = NoFile THEN "target" ELSE "open" ELSE Leave
  /\ UNCHANGED <<task, places, pending, clock, torn, replaced>>
\* validate_replace_target
ReplaceTarget ==
  /\ step = "target"
  /\ IF dest = Other THEN Leave ELSE step' = "rename"
  /\ UNCHANGED <<task, places, pending, clock, torn, replaced>>
\* The old file or the new one, never a part; a link that has come since is replaced.
Rename ==
  /\ step = "rename" /\ Leave
  /\ \/ /\ dest' = "made" /\ content' = [content EXCEPT !.made = temp]
        /\ temp' = "none" /\ committed' = TRUE
     \/ UNCHANGED <<dest, content, temp, committed>>
  /\ UNCHANGED <<task, precreated, opened, clock, torn, replaced>>
\* (mutant) Whatever file is there now is taken.
OpenWhatIsThere ==
  /\ step = "open"
  /\ IF dest \in Existing THEN step' = "truncate" /\ opened' = dest ELSE Leave /\ UNCHANGED opened
  /\ UNCHANGED <<task, places, precreated, committed, clock, torn, replaced>>
\* commit_precreated: the file that was opened has the identity of the one that was there;
\* whether it is still empty is not asked.
OpenPrecreated ==
  /\ step = "open"
  /\ \/ dest = precreated /\ step' = "truncate" /\ opened' = dest
     \/ Leave /\ UNCHANGED opened
  /\ UNCHANGED <<task, places, precreated, committed, clock, torn, replaced>>
\* The open file is written, whatever the path names by now
Truncate ==
  /\ step = "truncate"
  /\ \/ step' = "write" /\ content' = [content EXCEPT ![opened] = "empty"]
     \/ Leave /\ UNCHANGED content
  /\ UNCHANGED <<task, temp, dest, pending, clock, torn, replaced>>
\* What somebody else writes meanwhile stays, in part at least.
Written(bytes) == content' = [content EXCEPT ![opened] = IF @ = "later" THEN @ ELSE bytes]
WriteSome ==
  /\ step = "write" /\ step' = "write_rest" /\ Written("part")
  /\ UNCHANGED <<task, temp, dest, pending, clock, torn, replaced>>
WriteRest ==
  /\ step = "write_rest"
  /\ \/ step' = "remove" /\ Written("whole") /\ UNCHANGED torn
     \/ Leave /\ torn' = TRUE /\ UNCHANGED content
  /\ UNCHANGED <<task, temp, dest, pending, clock, replaced>>
RemoveTemporary ==
  /\ step = "remove" /\ Leave
  /\ \/ temp' = "none" /\ committed' = TRUE
     \/ UNCHANGED <<temp, committed>>
  /\ UNCHANGED <<task, dest, content, precreated, opened, clock, torn, replaced>>

\* ChildGuard::drop kills and waits; PendingOutput::drop removes what was not committed
KillAndWait == task' = IF TaskRuns THEN "broken" ELSE task
DropChild ==
  /\ step = "drop_child" /\ KillAndWait /\ step' = "drop_output"
  /\ UNCHANGED <<places, pending, clock, torn, replaced>>
DropOutput ==
  /\ step = "drop_output"
  /\ temp' = IF committed THEN temp ELSE "none"
  /\ step' = IF committed THEN "succeeded" ELSE "failed"
  /\ UNCHANGED <<task, dest, content, pending, clock, torn, replaced>>

Supervisor == \/ Parse \/ Identify \/ Spawn \/ Wait \/ CheckSignal \/ ValidatePng \/ ReplaceTarget
              \/ Rename \/ OpenPrecreated \/ Truncate \/ WriteSome \/ WriteRest \/ RemoveTemporary
              \/ DropChild \/ DropOutput

(***************************************************************************)
(* The worker: run_worker removes its file when it fails, but not when it  *)
(* is killed or runs out of memory.                                        *)
(***************************************************************************)
others == <<step, dest, content, pending, clock, torn, replaced>>
\* The input is read and the page drawn within the limits of memory and size
RenderInput ==
  /\ task = "reading" /\ task' \in {"creating", "broken"}
  /\ UNCHANGED <<temp, others>>
CreateTemporary ==
  /\ task = "creating"
  /\ IF temp = "none" THEN task' = "writing" /\ temp' = "part"
     ELSE task' = "broken" /\ UNCHANGED temp
  /\ UNCHANGED others
WritePng ==
  /\ task = "writing"
  /\ \/ task' = "syncing" /\ temp' = "whole"
     \/ task' = "broken" /\ temp' = "none"
  /\ UNCHANGED others
SyncPng ==
  /\ task = "syncing"
  /\ \/ task' = "ended" /\ UNCHANGED temp
     \/ task' = "broken" /\ temp' = "none"
  /\ UNCHANGED others
WorkerAborts ==
  /\ TaskRuns /\ task' = "broken"
  /\ UNCHANGED <<temp, others>>
WorkerStep == RenderInput \/ CreateTemporary \/ WritePng \/ SyncPng \/ WorkerAborts

(***************************************************************************)
(* Signals, time and the file manager                                      *)
(***************************************************************************)
Signal ==
  /\ step \notin {"parse"} /\ ~Ended /\ ~interrupted /\ interrupted' = TRUE
  /\ UNCHANGED <<step, task, places, pending, overdue, torn, replaced>>
SupervisorTimesOut ==
  /\ step = "wait" /\ ~overdue /\ overdue' = TRUE
  /\ UNCHANGED <<step, task, places, pending, interrupted, torn, replaced>>
\* SIGKILL: nothing is dropped, and the worker goes on
Killed ==
  /\ ~Ended /\ step' = "killed"
  /\ UNCHANGED <<task, places, pending, clock, torn, replaced>>
Somebodys(f) == IF f \in {opened, "made"} THEN "later" ELSE "old"
\* commit_precreated holds a descriptor: the number of its file is not given out.
Held == step \in {"truncate", "write", "write_rest"}
\* The file manager, or another program, removes the output or puts another file or a link
\* there; a new file can get the number of the one that was removed.
OutputReplaced ==
  /\ ~Ended /\ replaced < MaxReplaced /\ replaced' = replaced + 1
  /\ \/ dest' \in {NoFile, "second", Other} /\ UNCHANGED content
     \/ /\ dest # "first" /\ ~Held /\ dest' = "first"
        /\ content' = [content EXCEPT !.first = Somebodys("first")]
  /\ UNCHANGED <<step, task, temp, pending, clock, torn>>
\* Another program writes into the file that is there.
OutputFilled ==
  /\ ~Ended /\ replaced < MaxReplaced /\ replaced' = replaced + 1
  /\ dest \in DOMAIN content /\ content' = [content EXCEPT ![dest] = Somebodys(dest)]
  /\ UNCHANGED <<step, task, temp, dest, pending, clock, torn>>

NextThumbnailer == \/ Supervisor \/ WorkerStep \/ Signal \/ SupervisorTimesOut \/ Killed
                   \/ OutputReplaced \/ OutputFilled

\* The supervisor runs and time passes; nothing is assumed of the worker.
ThumbnailerSpec ==
  /\ InitThumbnailer /\ [][NextThumbnailer]_thumbnailer
  /\ WF_thumbnailer(Supervisor) /\ WF_thumbnailer(SupervisorTimesOut)

-----------------------------------------------------------------------------
ThumbnailerTypeOK ==
  /\ step \in {"parse", "identify", "spawn", "wait", "check", "validate", "target", "rename",
               "open", "truncate", "write", "write_rest", "remove", "drop_child", "drop_output",
               "succeeded", "failed", "killed"}
  /\ task \in {"none", "reading", "creating", "writing", "syncing", "ended", "broken"}
  /\ temp \in {"none", "part", "whole"}
  /\ dest \in {NoFile, "first", "second", "made", Other}
  /\ content \in [Existing \cup {"made"} -> {"none", "empty", "old", "part", "whole", "later"}]
  /\ precreated \in Existing \cup {NoFile} /\ opened \in Existing \cup {NoFile}
  /\ committed \in BOOLEAN /\ interrupted \in BOOLEAN /\ overdue \in BOOLEAN /\ torn \in BOOLEAN
  /\ replaced \in 0..MaxReplaced

\* Unless it was killed, the supervisor leaves neither its temporary file nor its worker: the
\* worker is dead before the file is removed, so that it cannot make it anew.
NothingLeftOver ==
  step \in {"succeeded", "failed"} => temp = "none" /\ ~TaskRuns

\* Success means that the file it made, or the one that was waiting for it, got a whole PNG,
\* even if the path names another file by now; it still holds it but for what others wrote
\* into it since.
SuccessIsWhole ==
  step = "succeeded" =>
    content[IF precreated = NoFile THEN "made" ELSE precreated] \in {"whole", "later"}

\* A file is written in place only if it has the identity of the empty one that was waiting for
\* the picture, and is left half written only if writing it failed or was killed; any other
\* file is only ever replaced as a whole, and not by a thumbnailer that fails.
OnlyTheWaitingFile ==
  /\ \A f \in Existing : content[f] \in {"part", "whole", "later"} => f = precreated
  /\ \A f \in Existing : content[f] = "part" => torn \/ step \in {"write_rest", "killed"}
  /\ dest = "made" => precreated = NoFile /\ step # "failed"
\* The supervisor ends, whatever the worker does.
SupervisorEnds == step # "parse" ~> Ended

\* A thumbnailer that was not killed leaves no temporary file and no worker, its success is a
\* whole PNG, and whatever becomes of the path and the file meanwhile, it writes into no file
\* but one with the identity of the empty one, and replaces none when it fails.
ThumbnailerSound == NothingLeftOver /\ SuccessIsWhole /\ OnlyTheWaitingFile
=============================================================================
