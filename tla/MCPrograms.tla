---------------------------- MODULE MCPrograms ----------------------------
(***************************************************************************)
(* The parts that must come to an end, on small instances: files on their  *)
(* way to a window, the two kinds of print, what PDF jobs leave behind and *)
(* the two programs that render a thumbnail; and the PDF jobs with         *)
(* arbitrary windows: many that send one page each ("crowd"), and two that *)
(* send pages of two snapshots ("pages").  They share no state, so one run *)
(* explores each on its own: part says which, and the others stay as they  *)
(* are at first.                                                           *)
(***************************************************************************)
EXTENDS PendingOpen, NativePrint, PrintFocus, PdfTempDirs, ThumbnailWorker, LinuxThumbnailer,
        PdfJobs

VARIABLE part

windows == <<pendingOpen, printing, focusing>>
exports == <<tempDirs, vars>>
thumbnails == <<rendering, thumbnailer>>
all == <<part, windows, exports, thumbnails>>

InitPrograms ==
  /\ part \in {"files", "print", "focus", "temp", "crowd", "pages", "worker", "linux"}
  /\ InitPendingOpen /\ InitPrinting /\ InitFocus
  /\ InitTempDirs /\ Init /\ InitRendering /\ InitThumbnailer
  /\ part = "files" \/ arrived = 0
  /\ part = "focus" \/ focused
  /\ part = "linux" \/ (dest = NoFile /\ content.first = "old")

NextWindows ==
  \/ part = "files" /\ NextPendingOpen /\ UNCHANGED <<printing, focusing>>
  \/ part = "print" /\ NextPrinting /\ UNCHANGED <<pendingOpen, focusing>>
  \/ part = "focus" /\ NextFocus /\ UNCHANGED <<pendingOpen, printing>>
\* Ids are UUIDs: which one a job gets does not matter.
IdsInOrder == ids' = 1..Cardinality(ids')
OnePageJobs ==
  \A id \in DOMAIN jobs' :
    jobs'[id].count = 1 /\ jobs'[id].snapshot = "s1" /\ jobs'[id].bytes <= 1
TwoWindows ==
  /\ caller' \subseteq {"w1", "w2"} /\ Cardinality(ids') <= 2
  /\ \A id \in DOMAIN jobs' : jobs'[id].target \in {"a", "b"}
NextExports ==
  \/ part = "temp" /\ NextTempDirs /\ UNCHANGED vars
  \/ part = "crowd" /\ Next /\ IdsInOrder /\ OnePageJobs /\ UNCHANGED tempDirs
  \/ part = "pages" /\ Next /\ IdsInOrder /\ TwoWindows /\ UNCHANGED tempDirs
NextThumbnails ==
  \/ part = "worker" /\ NextRendering /\ UNCHANGED thumbnailer
  \/ part = "linux" /\ NextThumbnailer /\ UNCHANGED rendering

NextPrograms ==
  /\ UNCHANGED part
  /\ \/ NextWindows /\ UNCHANGED <<exports, thumbnails>>
     \/ NextExports /\ UNCHANGED <<windows, thumbnails>>
     \/ NextThumbnails /\ UNCHANGED <<windows, exports>>

\* The fairness of each part's own specification, for the part that is explored
ProgramsSpec ==
  /\ InitPrograms /\ [][NextPrograms]_all
  /\ WF_pendingOpen(part = "files" /\ LaunchStep)
  /\ \A l \in Labels : WF_pendingOpen(part = "files" /\ PageStep(l))
  /\ WF_printing(part = "print" /\ DialogReturns) /\ WF_printing(part = "print" /\ WatchdogRuns)
  /\ WF_focusing(part = "focus" /\ FocusChanged) /\ WF_focusing(part = "focus" /\ TimerRuns)
  /\ WF_focusing(part = "focus" /\ WatchdogSamples)
  /\ \A o \in Observers : WF_focusing(part = "focus" /\ SampleAnswers(o))
  /\ WF_focusing(part = "focus" /\ ChecksSample) /\ WF_focusing(part = "focus" /\ ChecksReturn)
  /\ WF_tempDirs(part = "temp" /\ Start) /\ WF_tempDirs(part = "temp" /\ Exit)
  /\ WF_tempDirs(part = "temp" /\ Cleaning)
  /\ \A d \in TempDirs : /\ WF_tempDirs(part = "temp" /\ Ages(d))
                         /\ WF_tempDirs(part = "temp" /\ JobEnds(d))
  /\ WF_rendering(part = "worker" /\ Caller) /\ WF_rendering(part = "worker" /\ WriterFails)
  /\ WF_rendering(part = "worker" /\ ReaderReads)
  /\ WF_rendering(part = "worker" /\ SelectionTimesOut)
  /\ WF_thumbnailer(part = "linux" /\ Supervisor)
  /\ WF_thumbnailer(part = "linux" /\ SupervisorTimesOut)

\* What is not finished is not ended: a print keeps its operation and a timeout that answers
\* for it, and leaves none when it is settled; the wait for a dialog ends only in a window that
\* has the focus, as far as the page can know; and a cleaning takes neither the directory of a
\* job that goes on nor one that holds a file of others.
NothingCutShort ==
  /\ [](StillAnswerable /\ NoStrayTimeout) /\ ReturnsFocused
  /\ []JobsKeepTheirs /\ ForeignStays

\* Every part keeps its types.
ProgramsTypeOK == /\ PendingOpenTypeOK /\ PrintingTypeOK /\ FocusTypeOK /\ TempDirsTypeOK
                  /\ TypeOK /\ RenderingTypeOK /\ ThumbnailerTypeOK
=============================================================================
