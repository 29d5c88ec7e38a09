--------------------------- MODULE ServicesProofs ---------------------------
(***************************************************************************)
(* What holds of the small services and programs for every value of the    *)
(* constants: the handlers a window waits for, the print on Linux, the     *)
(* wait for the dialog of Windows, the directories that PDF jobs leave     *)
(* behind, the Linux thumbnailer and the thumbnail calls of Windows.       *)
(***************************************************************************)
EXTENDS HandlerRuntime, NativePrint, PrintFocus, PdfTempDirs, LinuxThumbnailer, ThumbnailWorker,
        FiniteSetTheorems, TLAPS

-----------------------------------------------------------------------------
(***************************************************************************)
(* Handlers.  That every waiter is in the set of the current registration  *)
(* is what makes the microtask of any other registration harmless.         *)
(***************************************************************************)
HandingInv == HandingTypeOK /\ WaitersAreServed

LEMMA HandingInitial == InitHanding => HandingInv
BY DEF InitHanding, HandingInv, HandingTypeOK, WaitersAreServed

LEMMA HandingInductive == HandingInv /\ [NextHanding]_handing => HandingInv'
<1> SUFFICES ASSUME HandingInv, [NextHanding]_handing PROVE HandingInv'
  OBVIOUS
<1> USE RuntimeAssumption DEF HandingInv, HandingTypeOK, WaitersAreServed, OwnedBy
<1>1. ASSUME NEW c \in Callers, WaitForHandlers(c) PROVE HandingInv'
  BY <1>1 DEF WaitForHandlers
<1>2. ASSUME NEW c \in Callers, TimesOut(c) PROVE HandingInv'
  BY <1>2 DEF TimesOut, Reject
<1>3. ASSUME NEW r \in Runtimes, Install(r) PROVE HandingInv'
  <2>1. HandingTypeOK'
    BY <1>3 DEF Install, ReplacePrevious, ScheduleAdopted
  <2>2. WaitersAreServed'
    BY <1>3 DEF Install, ReplacePrevious, ScheduleAdopted
  <2> QED BY <2>1, <2>2
<1>4. ASSUME NEW r \in Runtimes, Dispose(r) PROVE HandingInv'
  BY <1>4 DEF Dispose, Reject
<1>5. ASSUME NEW r \in Runtimes, Resolve(r) PROVE HandingInv'
  BY <1>5 DEF Resolve
<1>6. CASE UNCHANGED handing
  BY <1>6 DEF handing, waiters
<1> QED BY <1>1, <1>2, <1>3, <1>4, <1>5, <1>6 DEF NextHanding

\* Every reachable state is well typed: the active registration is never a disposed one
\* (EmbedRuntimeRegistration.dispose).
THEOREM HandingCorrect == HandingSpec => []HandingTypeOK
BY HandingInitial, HandingInductive, PTL DEF HandingSpec, HandingInv

\* Nobody waits for nothing (adoptPendingWaiters, scheduleResolution).
THEOREM WaitersServed == HandingSpec => []WaitersAreServed
BY HandingInitial, HandingInductive, PTL DEF HandingSpec, HandingInv

\* A caller is resolved only with the handlers of the current registration.
THEOREM HandlersAlive == HandingSpec => HandlersAreAlive
<1> DEFINE Serves == \A c \in Callers : waiter[c] = "waiting" /\ waiter'[c] = "resolved" => got'[c] = current'
<1>1. HandingInv /\ [NextHanding]_handing => [Serves]_handing
  <2> SUFFICES ASSUME HandingInv, NextHanding PROVE Serves
    OBVIOUS
  <2> USE RuntimeAssumption DEF HandingInv, HandingTypeOK, WaitersAreServed, OwnedBy
  <2>1. ASSUME NEW c \in Callers, WaitForHandlers(c) PROVE Serves
    BY <2>1 DEF WaitForHandlers
  <2>2. ASSUME NEW c \in Callers, TimesOut(c) PROVE Serves
    BY <2>2 DEF TimesOut, Reject
  <2>3. ASSUME NEW r \in Runtimes, Install(r) PROVE Serves
    BY <2>3 DEF Install, ReplacePrevious
  <2>4. ASSUME NEW r \in Runtimes, Dispose(r) PROVE Serves
    BY <2>4 DEF Dispose, Reject
  <2>5. ASSUME NEW r \in Runtimes, Resolve(r) PROVE Serves
    BY <2>5 DEF Resolve
  <2> QED BY <2>1, <2>2, <2>3, <2>4, <2>5 DEF NextHanding
<1>2. HandingSpec => [][Serves]_handing
  BY <1>1, HandingInitial, HandingInductive, PTL DEF HandingSpec
<1> QED BY <1>2 DEF HandlersAreAlive

-----------------------------------------------------------------------------
(***************************************************************************)
(* The print on Linux.                                                     *)
(***************************************************************************)
\* Signals come only to an operation that was started, which is kept until the print is
\* settled, and a failure is remembered until the finished signal.
Started ==
  /\ stand = "asked" => /\ operation = "none" /\ completion /\ source = "none"
                        /\ ~keepalive /\ ~watchdog
  /\ stand = "dialog" => (operation = "none" => completion) /\ (completion => keepalive) /\ source = "none"
  /\ operation = "failed" => failure
  /\ operation = "finished" => ~completion
  /\ completion /\ stand = "returned" => operation \in {"running", "failed"}
  /\ source \in {"armed", "run", "removed"} => stand = "returned"

PrintingInv == PrintingTypeOK /\ Started /\ StillAnswerable /\ NoStrayTimeout

LEMMA PrintingInitial == InitPrinting => PrintingInv
BY DEF InitPrinting, PrintingInv, PrintingTypeOK, Started, StillAnswerable, NoStrayTimeout

LEMMA PrintingInductive == PrintingInv /\ [NextPrinting]_printing => PrintingInv'
<1> SUFFICES ASSUME PrintingInv, [NextPrinting]_printing PROVE PrintingInv'
  OBVIOUS
<1> USE DEF PrintingInv, PrintingTypeOK, Started, StillAnswerable, NoStrayTimeout
<1>1. CASE OpenDialog
  BY <1>1 DEF OpenDialog, Completes
<1>2. CASE UserPrints
  BY <1>2 DEF UserPrints, printState
<1>3. CASE DialogCancelled
  BY <1>3 DEF DialogCancelled, SettlePrint, Completes, RemoveWatchdog
<1>4. CASE DialogReturns
  BY <1>4 DEF DialogReturns, ArmWatchdog
<1>5. CASE Failed
  BY <1>5 DEF Failed
<1>6. CASE Finished
  BY <1>6 DEF Finished, ResultOfFinished, SettlePrint, Completes, RemoveWatchdog
<1>7. CASE WatchdogRuns
  BY <1>7 DEF WatchdogRuns, SettlePrint, Completes, RemoveWatchdog
<1>8. CASE UNCHANGED printing
  BY <1>8 DEF printing, printState
<1> QED BY <1>1, <1>2, <1>3, <1>4, <1>5, <1>6, <1>7, <1>8 DEF NextPrinting

\* The state of a print is well typed: no timeout of GLib is removed twice.
THEOREM PrintingCorrect == PrintingSpec => []PrintingTypeOK
BY PrintingInitial, PrintingInductive, PTL DEF PrintingSpec, PrintingInv

\* As long as a print is not settled something is left that will settle it.
THEOREM PrintAnswerable == PrintingSpec => []StillAnswerable
BY PrintingInitial, PrintingInductive, PTL DEF PrintingSpec, PrintingInv

\* A settled print leaves no timeout behind.
THEOREM PrintLeavesNoTimeout == PrintingSpec => []NoStrayTimeout
BY PrintingInitial, PrintingInductive, PTL DEF PrintingSpec, PrintingInv

\* A failed print is never told as done.
THEOREM PrintFailureTold == PrintingSpec => FailureTold
<1> DEFINE Told == operation = "failed" /\ completion /\ ~completion' => outcome' = "error"
<1>1. PrintingInv /\ [NextPrinting]_printing => [Told]_printing
  BY DEF PrintingInv, PrintingTypeOK, Started, NextPrinting, OpenDialog, UserPrints, printState,
         DialogCancelled, DialogReturns, Failed, Finished, ResultOfFinished, WatchdogRuns,
         SettlePrint, Completes
<1>2. PrintingSpec => [][Told]_printing
  BY <1>1, PrintingInitial, PrintingInductive, PTL DEF PrintingSpec
<1> QED BY <1>2 DEF FailureTold

-----------------------------------------------------------------------------
(***************************************************************************)
(* The directories of PDF jobs.                                            *)
(***************************************************************************)
\* Only a directory that nobody uses gets a day old, and what is being removed is such a
\* directory.
Unused == \A d \in TempDirs :
  tempDir[d].age = "old" \/ d \in removing => tempDir[d].user = "orphan"
TempDirShapes ==
  /\ tempDir \in [TempDirs -> [user : {"none", "gone", "job", "other", "orphan"}, age : {"young", "old"},
                              pageFiles : Nat, foreign : BOOLEAN]]
  /\ removing \subseteq TempDirs
TempDirsInv == TempDirShapes /\ Unused

LEMMA TempDirsInitial == InitTempDirs => TempDirsInv
BY TempDirsAssumption DEF InitTempDirs, NeverUsed, TempDirsInv, TempDirShapes, Unused

LEMMA TempDirsInductive == TempDirsInv /\ [NextTempDirs]_tempDirs => TempDirsInv'
<1> SUFFICES ASSUME TempDirsInv, [NextTempDirs]_tempDirs PROVE TempDirsInv'
  OBVIOUS
<1> USE TempDirsAssumption DEF TempDirsInv, TempDirShapes, Unused
<1>1. CASE Crash
  BY <1>1 DEF Crash, Halts, Leaves
<1>2. CASE Exit \/ Start
  BY <1>2 DEF Exit, Halts, Start
<1>3. ASSUME NEW d \in TempDirs, Scan(d) PROVE TempDirsInv'
  BY <1>3 DEF Scan, SafeOrphan
<1>4. ASSUME NEW d \in TempDirs, RemovePage(d) PROVE TempDirsInv'
  <2>1. tempDir' = [tempDir EXCEPT ![d] = [tempDir[d] EXCEPT !.pageFiles = @ - 1, !.age = "young"]]
    BY <1>4 DEF RemovePage
  <2>2. tempDir[d].pageFiles - 1 \in Nat
    BY <1>4 DEF RemovePage
  <2> QED BY <1>4, <2>1, <2>2 DEF RemovePage
<1>5. ASSUME NEW d \in TempDirs, RemoveDir(d) PROVE TempDirsInv'
  <2>1. removing' = {}
    BY <1>5 DEF RemoveDir
  <2>2. CASE UNCHANGED tempDir
    BY <2>1, <2>2
  <2>3. CASE tempDir' = [tempDir EXCEPT ![d] = [user |-> "gone", age |-> "young", pageFiles |-> 0,
                                                foreign |-> FALSE]]
    <3>1. TempDirShapes'
      BY <2>1, <2>3
    <3>2. Unused'
      BY <2>1, <2>3
    <3> QED BY <3>1, <3>2
  <2> QED BY <1>5, <2>2, <2>3 DEF RemoveDir, Gone, NeverUsed
<1>6. ASSUME NEW d \in TempDirs, JobBegins(d) PROVE TempDirsInv'
  <2>1. PICK u \in {"job", "other"} :
          tempDir' = [tempDir EXCEPT ![d] = [user |-> u, age |-> "young", pageFiles |-> 0,
                                             foreign |-> FALSE]]
    BY <1>6 DEF JobBegins, NeverUsed
  <2>2. tempDir[d].user = "none" /\ removing' = removing
    BY <1>6 DEF JobBegins, NeverUsed
  <2>3. TempDirShapes'
    BY <2>1, <2>2
  <2>4. Unused'
    BY <2>1, <2>2
  <2> QED BY <2>3, <2>4
<1>7. ASSUME NEW d \in TempDirs, PageWritten(d) PROVE TempDirsInv'
  <2>1. tempDir' = [tempDir EXCEPT ![d] = [tempDir[d] EXCEPT !.pageFiles = @ + 1, !.age = "young"]]
    BY <1>7 DEF PageWritten
  <2> QED BY <1>7, <2>1 DEF PageWritten
<1>8. ASSUME NEW d \in TempDirs, JobEnds(d) PROVE TempDirsInv'
  BY <1>8 DEF JobEnds, Gone, NeverUsed
<1>9. ASSUME NEW d \in TempDirs, Ages(d) PROVE TempDirsInv'
  <2>1. tempDir' = [tempDir EXCEPT ![d] = [tempDir[d] EXCEPT !.age = "old"]]
    BY <1>9 DEF Ages
  <2> QED BY <1>9, <2>1 DEF Ages
<1>10. ASSUME NEW d \in TempDirs, ForeignFile(d) PROVE TempDirsInv'
  <2>1. tempDir' = [tempDir EXCEPT ![d] = [tempDir[d] EXCEPT !.foreign = TRUE, !.age = "young"]]
    BY <1>10 DEF ForeignFile
  <2>2. removing' = removing
    BY <1>10 DEF ForeignFile
  <2>3. PICK e \in [user : {"none", "gone", "job", "other", "orphan"}, age : {"young"},
                    pageFiles : Nat, foreign : BOOLEAN] :
          tempDir' = [tempDir EXCEPT ![d] = e] /\ e.user = tempDir[d].user
    <3> DEFINE e == [tempDir[d] EXCEPT !.foreign = TRUE, !.age = "young"]
    <3>1. /\ e \in [user : {"none", "gone", "job", "other", "orphan"}, age : {"young"},
                    pageFiles : Nat, foreign : BOOLEAN]
          /\ e.user = tempDir[d].user
      OBVIOUS
    <3>2. tempDir' = [tempDir EXCEPT ![d] = e]
      BY <2>1
    <3> HIDE DEF e
    <3> QED BY <3>1, <3>2
  <2>4. TempDirShapes'
    BY <2>2, <2>3
  <2>5. Unused'
    BY <2>2, <2>3
  <2> QED BY <2>4, <2>5
<1>11. ASSUME NEW d \in TempDirs, RemovalFails(d) PROVE TempDirsInv'
  BY <1>11 DEF RemovalFails
<1>12. CASE UNCHANGED tempDirs
  BY <1>12 DEF tempDirs
<1> QED BY <1>1, <1>2, <1>3, <1>4, <1>5, <1>6, <1>7, <1>8, <1>9, <1>10, <1>11, <1>12
        DEF NextTempDirs, Cleaning

\* The cleaning never touches the directory of a job, of this or of another process.
THEOREM JobsKept == TempDirsSpec => []JobsKeepTheirs
<1>1. TempDirsInv => JobsKeepTheirs
  BY DEF TempDirsInv, TempDirShapes, Unused, JobsKeepTheirs
<1> QED BY <1>1, TempDirsInitial, TempDirsInductive, PTL DEF TempDirsSpec

\* One directory is emptied at a time, and while it is, this start may still remove one.
TempDirsBounds ==
  /\ \A d \in TempDirs : tempDir[d].pageFiles <= MaxPageFiles + 1
  /\ running \in BOOLEAN /\ unscanned \subseteq TempDirs
  /\ \A d \in removing : removed < MaxRemovals /\ \A e \in removing : d = e
  /\ removed \in 0..MaxRemovals /\ incidents \in 0..MaxIncidents
  /\ \A d \in unscanned \cup removing : running

LEMMA NothingCleaned ==
  ASSUME running = FALSE, unscanned = {}, removing = {}, removed = 0, incidents \in 0..MaxIncidents,
         \A d \in TempDirs : tempDir[d].pageFiles <= MaxPageFiles + 1
  PROVE  TempDirsBounds
<1>1. removed \in 0..MaxRemovals
  BY TempDirsAssumption
<1>2. running \in BOOLEAN /\ unscanned \subseteq TempDirs /\ \A d \in unscanned \cup removing : running
  OBVIOUS
<1>3. \A d \in removing : removed < MaxRemovals /\ \A e \in removing : d = e
  OBVIOUS
<1> QED BY <1>1, <1>2, <1>3 DEF TempDirsBounds

LEMMA NothingCleanedNext ==
  ASSUME running' = FALSE, unscanned' = {}, removing' = {}, removed' = 0, incidents' \in 0..MaxIncidents,
         \A d \in TempDirs : tempDir'[d].pageFiles <= MaxPageFiles + 1
  PROVE  TempDirsBounds'
<1>1. removed' \in 0..MaxRemovals
  BY TempDirsAssumption
<1>2. running' \in BOOLEAN /\ unscanned' \subseteq TempDirs /\ \A d \in unscanned' \cup removing' : running'
  OBVIOUS
<1>3. \A d \in removing' : removed' < MaxRemovals /\ \A e \in removing' : d = e
  OBVIOUS
<1> QED BY <1>1, <1>2, <1>3 DEF TempDirsBounds

LEMMA TempDirsBounded == TempDirsInv /\ TempDirsBounds /\ [NextTempDirs]_tempDirs => TempDirsBounds'
<1> SUFFICES ASSUME TempDirsInv, TempDirsBounds, [NextTempDirs]_tempDirs PROVE TempDirsBounds'
  OBVIOUS
<1> USE TempDirsAssumption DEF TempDirsInv, TempDirShapes, TempDirsBounds
<1>1. CASE Crash
  <2>1. \A d \in TempDirs : tempDir'[d].pageFiles = tempDir[d].pageFiles
    BY <1>1 DEF Crash, Leaves
  <2>2. running' = FALSE /\ unscanned' = {} /\ removing' = {} /\ removed' = 0
    BY <1>1 DEF Crash, Halts
  <2>3. incidents' \in 0..MaxIncidents
    BY <1>1 DEF Crash, Incident
  <2>4. \A d \in TempDirs : tempDir'[d].pageFiles <= MaxPageFiles + 1
    BY <2>1
  <2> QED BY ONLY <2>2, <2>3, <2>4, NothingCleanedNext
<1>2. CASE Exit
  <2>1. running' = FALSE /\ unscanned' = {} /\ removing' = {} /\ removed' = 0
    BY <1>2 DEF Exit, Halts
  <2>2. incidents' \in 0..MaxIncidents /\ \A d \in TempDirs : tempDir'[d].pageFiles <= MaxPageFiles + 1
    BY <1>2 DEF Exit
  <2> QED BY ONLY <2>1, <2>2, NothingCleanedNext
<1>12. CASE Start
  <2>1. unscanned' \subseteq TempDirs
    BY <1>12 DEF Start, Present
  <2>2. running' = TRUE /\ UNCHANGED <<tempDir, removing, removed, incidents>>
    BY <1>12 DEF Start
  <2> QED BY <2>1, <2>2
<1>3. ASSUME NEW d \in TempDirs, Scan(d) PROVE TempDirsBounds'
  BY <1>3 DEF Scan, LeftAfter, Enough
<1>4. ASSUME NEW d \in TempDirs, RemovePage(d) PROVE TempDirsBounds'
  <2>1. tempDir' = [tempDir EXCEPT ![d] = [tempDir[d] EXCEPT !.pageFiles = @ - 1, !.age = "young"]]
    BY <1>4 DEF RemovePage
  <2> QED BY <1>4, <2>1 DEF RemovePage
<1>5. ASSUME NEW d \in TempDirs, RemoveDir(d) PROVE TempDirsBounds'
  BY <1>5 DEF RemoveDir, Gone, NeverUsed
<1>6. ASSUME NEW d \in TempDirs, JobBegins(d) PROVE TempDirsBounds'
  <2>1. PICK u \in {"job", "other"} :
          tempDir' = [tempDir EXCEPT ![d] = [user |-> u, age |-> "young", pageFiles |-> 0,
                                             foreign |-> FALSE]]
    BY ONLY <1>6 DEF JobBegins, NeverUsed
  <2>2. UNCHANGED <<running, unscanned, removing, removed, incidents>>
    BY <1>6 DEF JobBegins
  <2>3. \A e \in TempDirs : tempDir'[e].pageFiles <= MaxPageFiles + 1
    BY <2>1
  <2> QED BY <2>2, <2>3
<1>7. ASSUME NEW d \in TempDirs, PageWritten(d) PROVE TempDirsBounds'
  <2>1. tempDir' = [tempDir EXCEPT ![d] = [tempDir[d] EXCEPT !.pageFiles = @ + 1, !.age = "young"]]
    BY <1>7 DEF PageWritten
  <2> QED BY <1>7, <2>1 DEF PageWritten
<1>8. ASSUME NEW d \in TempDirs, JobEnds(d) PROVE TempDirsBounds'
  BY <1>8 DEF JobEnds, Gone, NeverUsed
<1>9. ASSUME NEW d \in TempDirs, Ages(d) \/ ForeignFile(d) PROVE TempDirsBounds'
  <2>1. \A e \in TempDirs : tempDir'[e].pageFiles = tempDir[e].pageFiles
    BY <1>9 DEF Ages, ForeignFile
  <2>2. UNCHANGED <<running, unscanned, removing, removed>> /\ incidents' \in 0..MaxIncidents
    BY <1>9 DEF Ages, ForeignFile, Incident
  <2> QED BY <2>1, <2>2
<1>10. ASSUME NEW d \in TempDirs, RemovalFails(d) PROVE TempDirsBounds'
  BY <1>10 DEF RemovalFails, Incident
<1>11. CASE UNCHANGED tempDirs
  BY <1>11 DEF tempDirs
<1> QED BY <1>1, <1>2, <1>3, <1>4, <1>5, <1>6, <1>7, <1>8, <1>9, <1>10, <1>11, <1>12
        DEF NextTempDirs, Cleaning

\* The cleaning empties one directory at a time and removes no more than its limit, and a
\* program that does not run cleans nothing (cleanup_orphan_directories).
THEOREM TempDirsTypes == TempDirsSpec => []TempDirsTypeOK
<1>1. InitTempDirs => TempDirsBounds
  <2> SUFFICES ASSUME InitTempDirs PROVE TempDirsBounds
    OBVIOUS
  <2>1. \A d \in TempDirs : tempDir[d].pageFiles = 0
    BY DEF InitTempDirs, NeverUsed
  <2>2. /\ running = FALSE /\ unscanned = {} /\ removing = {} /\ removed = 0 /\ incidents = 0
    BY DEF InitTempDirs
  <2>3. incidents \in 0..MaxIncidents /\ \A d \in TempDirs : tempDir[d].pageFiles <= MaxPageFiles + 1
    BY <2>1, <2>2, TempDirsAssumption
  <2> QED BY ONLY <2>2, <2>3, NothingCleaned
<1>2. ASSUME TempDirsInv, TempDirsBounds PROVE TempDirsTypeOK
  <2>1. Cardinality(removing) \in {0, 1}
    <3>1. CASE removing = {}
      BY <3>1, FS_EmptySet
    <3>2. ASSUME NEW d \in removing PROVE Cardinality(removing) = 1
      <4>1. removing = {d}
        BY <1>2 DEF TempDirsBounds
      <4> QED BY <4>1, FS_Singleton
    <3> QED BY <3>1, <3>2
  <2>2. tempDir \in [TempDirs -> [user : {"none", "gone", "job", "other", "orphan"},
                     age : {"young", "old"}, pageFiles : 0..MaxPageFiles + 1, foreign : BOOLEAN]]
    BY <1>2, TempDirsAssumption DEF TempDirsInv, TempDirShapes, TempDirsBounds
  <2>3. removing \subseteq TempDirs
    BY <1>2 DEF TempDirsInv, TempDirShapes
  <2> QED BY <1>2, <2>1, <2>2, <2>3 DEF TempDirsBounds, TempDirsTypeOK
<1> QED BY <1>1, <1>2, TempDirsInitial, TempDirsInductive, TempDirsBounded, PTL DEF TempDirsSpec

\* The cleaning leaves a directory that holds a file of others (safe_orphan_page_files, and
\* fs::remove_dir fails).
THEOREM ForeignKept == TempDirsSpec => ForeignStays
<1> DEFINE Stays == \A d \in TempDirs :
             tempDir[d].foreign /\ tempDir[d].user = "orphan" => d \in Present'
<1>1. TempDirsInv /\ [NextTempDirs]_tempDirs => [Stays]_tempDirs
  <2> SUFFICES ASSUME TempDirsInv, NextTempDirs, NEW e \in TempDirs, tempDir[e].foreign,
                      tempDir[e].user = "orphan"
               PROVE e \in Present'
    OBVIOUS
  <2>1. tempDir[e].user = "orphan"
    OBVIOUS
  <2>2. tempDir'[e].user = "orphan"
    <3> USE <2>1 DEF TempDirsInv, TempDirShapes
    <3>1. CASE Crash
      BY <3>1 DEF Crash, Halts, Leaves
    <3>2. CASE Exit \/ Start
      BY <3>2 DEF Exit, Halts, Start
    <3>3. ASSUME NEW d \in TempDirs, Scan(d) \/ RemovePage(d) PROVE tempDir'[e].user = "orphan"
      BY <3>3 DEF Scan, RemovePage
    <3>4. ASSUME NEW d \in TempDirs, RemoveDir(d) PROVE tempDir'[e].user = "orphan"
      BY <3>4 DEF RemoveDir, IsEmpty
    <3>5. ASSUME NEW d \in TempDirs, JobBegins(d) PROVE tempDir'[e].user = "orphan"
      BY <3>5 DEF JobBegins, NeverUsed
    <3>6. ASSUME NEW d \in TempDirs, PageWritten(d) \/ JobEnds(d) PROVE tempDir'[e].user = "orphan"
      BY <3>6 DEF PageWritten, JobEnds
    <3>7. ASSUME NEW d \in TempDirs, Ages(d) \/ ForeignFile(d) \/ RemovalFails(d)
          PROVE tempDir'[e].user = "orphan"
      BY <3>7 DEF Ages, ForeignFile, RemovalFails
    <3> QED BY <3>1, <3>2, <3>3, <3>4, <3>5, <3>6, <3>7 DEF NextTempDirs, Cleaning
  <2> QED BY <2>2 DEF Present
<1>2. TempDirsSpec => [][Stays]_tempDirs
  BY <1>1, TempDirsInitial, TempDirsInductive, PTL DEF TempDirsSpec
<1> QED BY <1>2 DEF ForeignStays
-----------------------------------------------------------------------------
(***************************************************************************)
(* The wait for the dialog of Windows.                                     *)
(***************************************************************************)
LossUnderway == \E i \in DOMAIN focusEvents : ~focusEvents[i]
\* An answer that is as new as the last event and says that the window had the focus is right,
\* or the event that says otherwise is on its way; questions are asked only during the wait.
ChecksTrue ==
  /\ focused \in BOOLEAN /\ focusEvents \in Seq(BOOLEAN) /\ generation \in Nat
  /\ waiting \in BOOLEAN /\ returned \in BOOLEAN /\ dog \in BOOLEAN /\ (dog => waiting)
  /\ timer \subseteq {g \in Nat : g <= generation} /\ (timer # {} => waiting)
  /\ \A o \in Observers : samples[o].at # "none" => waiting /\ samples[o].generation <= generation
  /\ \A c \in checks :
       /\ waiting /\ c.generation <= generation
       /\ ~returned /\ c.at = "sampled" /\ c.focus /\ c.generation = generation
          => focused \/ LossUnderway
Sample == [at : {"none", "asked", "sampled"}, generation : Nat, focus : BOOLEAN]
Question == {s \in Sample : s.at # "none"}
FocusInv == ChecksTrue /\ checks \subseteq Question /\ samples \in [Observers -> Sample]

\* What a new sample or question is, as a member of its set.
LEMMA SampleMembers ==
  /\ NoSample \in Sample /\ NoSample.at = "none"
  /\ \A g \in Nat : [at |-> "asked", generation |-> g, focus |-> FALSE] \in Question
  /\ \A s \in Sample, f \in BOOLEAN :
       /\ [s EXCEPT !.at = "sampled", !.focus = f] \in Question
       /\ [s EXCEPT !.at = "sampled", !.focus = f].generation = s.generation
       /\ [s EXCEPT !.at = "sampled", !.focus = f].focus = f
BY DEF NoSample, Sample, Question

LEMMA FocusInitial == InitFocus => FocusInv
<1> SUFFICES ASSUME InitFocus PROVE FocusInv
  OBVIOUS
<1>1. samples = [o \in Observers |-> NoSample]
  BY DEF InitFocus
<1>2. samples \in [Observers -> Sample] /\ \A o \in Observers : samples[o].at = "none"
  BY <1>1, SampleMembers
<1>3. checks = {} /\ timer = {} /\ focusEvents \in Seq(BOOLEAN)
  BY DEF InitFocus, NoTimer
<1>4. ChecksTrue
  BY <1>2, <1>3 DEF InitFocus, ChecksTrue
<1> QED BY <1>2, <1>3, <1>4 DEF FocusInv

LEMMA TailShifts ==
  ASSUME NEW S, NEW s \in Seq(S), s # <<>>
  PROVE  /\ Head(s) = s[1] /\ Tail(s) \in Seq(S) /\ Head(s) \in S
         /\ \A i \in DOMAIN s : i # 1 => i - 1 \in DOMAIN Tail(s) /\ Tail(s)[i - 1] = s[i]
OBVIOUS

\* An event that says the window has the focus hides no loss that is on its way.
LEMMA LossArrives ==
  ASSUME focusEvents \in Seq(BOOLEAN), focusEvents # <<>>, focusEvents' = Tail(focusEvents),
         Head(focusEvents)
  PROVE  LossUnderway => LossUnderway'
<1> SUFFICES ASSUME NEW i \in DOMAIN focusEvents, ~focusEvents[i] PROVE LossUnderway'
  BY DEF LossUnderway
<1>1. i # 1
  BY TailShifts, Zenon
<1>2. i - 1 \in DOMAIN focusEvents' /\ focusEvents'[i - 1] = focusEvents[i]
  BY <1>1, TailShifts, Zenon
<1> QED BY <1>2, Zenon DEF LossUnderway

LEMMA FocusInductive == FocusInv /\ [NextFocus]_focusing => FocusInv'
<1> SUFFICES ASSUME FocusInv, [NextFocus]_focusing PROVE FocusInv'
  OBVIOUS
<1> USE DEF FocusInv, ChecksTrue
<1>0. focusEvents' = focusEvents => LossUnderway' = LossUnderway
  BY DEF LossUnderway
<1>a. \A c \in checks : c \in Sample /\ c.generation \in Nat /\ c.focus \in BOOLEAN
  BY DEF Question, Sample
<1>b. \A o \in Observers : samples[o].generation \in Nat
  BY DEF Sample
<1>1. CASE FocusTurns
  BY <1>1 DEF FocusTurns, asking, LossUnderway
<1>2. CASE WaitForReturn
  <2>1. PICK e \in Question : samples' = [samples EXCEPT !["first"] = e] /\ e.generation = generation
    BY <1>2, SampleMembers DEF WaitForReturn, Asked
  <2> QED BY <1>0, <1>2, <2>1 DEF WaitForReturn, Observers, Question
<1>3. CASE FocusChanged
  <2> USE <1>3 DEF FocusChanged, asking
  <2>1. focusEvents' \in Seq(BOOLEAN) /\ Head(focusEvents) \in BOOLEAN
    BY TailShifts, Zenon
  <2>2. CASE waiting /\ ~returned
    <3>1. generation' = generation + 1 /\ timer' \subseteq {generation'}
      BY <2>2 DEF Observe, NoTimer
    <3>2. timer' \subseteq {g \in Nat : g <= generation'}
      BY <3>1
    <3>3. /\ \A o \in Observers : samples'[o].at # "none" => samples'[o].generation <= generation'
          /\ \A c \in checks' : c.generation < generation'
      BY <3>1, <1>a, <1>b
    <3>4. samples' = samples /\ checks' = checks /\ waiting' /\ ~returned'
      BY <2>2
    <3>5. ChecksTrue'
      BY <2>1, <3>1, <3>2, <3>3, <3>4, <1>a
    <3> QED BY <3>4, <3>5
  <2>3. CASE ~(waiting /\ ~returned)
    BY <2>1, <2>3
  <2> QED BY <2>2, <2>3
<1>4. ASSUME NEW o \in Observers, SampleFocus(o) PROVE FocusInv'
  <2> DEFINE e == [samples[o] EXCEPT !.at = "sampled", !.focus = focused]
  <2>1. samples' = [samples EXCEPT ![o] = e]
    BY <1>4 DEF SampleFocus
  <2>2. e \in Sample /\ e.generation = samples[o].generation
    BY SampleMembers DEF Question
  <2>3. waiting
    BY <1>4 DEF SampleFocus
  <2> HIDE DEF e
  <2>4. samples' \in [Observers -> Sample]
    BY <2>1, <2>2
  <2>5. \A p \in Observers : samples'[p].generation = samples[p].generation
    BY <2>1, <2>2
  <2>6. ChecksTrue'
    BY <1>0, <1>4, <1>b, <2>3, <2>5 DEF SampleFocus
  <2> QED BY <1>4, <2>4, <2>6 DEF SampleFocus
<1>5. ASSUME NEW o \in Observers, SampleReturns(o) PROVE FocusInv'
  <2>1. samples' \in [Observers -> Sample]
    BY <1>5, SampleMembers DEF SampleReturns
  <2>2. \A p \in Observers : samples'[p] = samples[p] \/ samples'[p].at = "none"
    BY <1>5, SampleMembers DEF SampleReturns
  <2>3. timer' \subseteq timer \cup {generation} /\ waiting /\ dog' \in BOOLEAN
    BY <1>5 DEF SampleReturns, Observe, NoTimer, Reschedule
  <2> QED BY <1>0, <1>5, <2>1, <2>2, <2>3 DEF SampleReturns
<1>6. ASSUME NEW o \in Observers, SampleFails(o) PROVE FocusInv'
  <2>1. samples' \in [Observers -> Sample]
    BY <1>6, SampleMembers DEF SampleFails
  <2>2. \A p \in Observers : samples'[p] = samples[p] \/ samples'[p].at = "none"
    BY <1>6, SampleMembers DEF SampleFails
  <2>3. waiting /\ dog' \in BOOLEAN
    BY <1>6 DEF SampleFails, Reschedule
  <2> QED BY <1>0, <1>6, <2>1, <2>2, <2>3 DEF SampleFails
<1>7. CASE WatchdogSamples
  <2>1. PICK e \in Question : samples' = [samples EXCEPT !["watchdog"] = e] /\ e.generation = generation
    BY <1>7, SampleMembers DEF WatchdogSamples, Asked
  <2>2. waiting /\ samples' \in [Observers -> Sample]
    BY <1>7, <2>1 DEF WatchdogSamples, Question
  <2>3. \A p \in Observers : samples'[p] = samples[p] \/ samples'[p].generation = generation
    BY <2>1 DEF Observers
  <2>4. /\ UNCHANGED <<focused, focusEvents, waiting, generation, timer, returned>>
        /\ checks' = checks /\ dog' = FALSE
    BY <1>7 DEF WatchdogSamples
  <2>5. \A p \in Observers : samples'[p].at # "none" => samples'[p].generation <= generation
    BY <1>b, <2>2, <2>3
  <2>6. \A c \in checks' : /\ waiting' /\ c.generation <= generation'
                           /\ ~returned' /\ c.at = "sampled" /\ c.focus /\ c.generation = generation'
                              => focused' \/ LossUnderway'
    BY <1>0, <2>2, <2>4
  <2>7. ChecksTrue'
    BY <2>2, <2>4, <2>5, <2>6
  <2> QED BY <2>2, <2>4, <2>7
<1>8. CASE TimerRuns
  <2>1. \A g \in timer : LET a == [at |-> "asked", generation |-> g, focus |-> FALSE]
                        IN a \in Question /\ a.at = "asked" /\ a.generation <= generation
    BY SampleMembers
  <2>2. \A c \in checks' : c \in checks \/ (c \in Question /\ c.at = "asked" /\ c.generation <= generation)
    BY <1>8, <2>1, Zenon DEF TimerRuns
  <2> QED BY <1>0, <1>8, <2>2 DEF TimerRuns, NoTimer
<1>9. ASSUME NEW c \in checks, CheckSamples(c) PROVE FocusInv'
  <2> DEFINE e == [c EXCEPT !.at = "sampled", !.focus = focused]
  <2>1. checks' = (checks \ {c}) \cup {e}
    BY <1>9 DEF CheckSamples
  <2>2. c \in Sample
    BY DEF Question
  <2>3. e \in Question /\ e.generation = c.generation /\ e.focus = focused
    BY <2>2, SampleMembers
  <2> HIDE DEF e
  <2> QED BY <1>0, <1>9, <2>1, <2>3 DEF CheckSamples
<1>10. ASSUME NEW c \in checks, CheckReturns(c) \/ CheckFails(c) PROVE FocusInv'
  <2>1. returned' \in BOOLEAN /\ ~returned
    BY <1>10, <1>a DEF CheckReturns, CheckFails, StableFocus
  <2>2. checks' \subseteq checks
    BY <1>10 DEF CheckReturns, CheckFails
  <2>3. UNCHANGED <<focused, focusEvents, waiting, generation, samples, timer, dog>>
    BY <1>10 DEF CheckReturns, CheckFails
  <2>4. \A q \in checks' : /\ waiting' /\ q.generation <= generation'
                           /\ ~returned' /\ q.at = "sampled" /\ q.focus /\ q.generation = generation'
                              => focused' \/ LossUnderway'
    BY <1>0, <2>1, <2>2, <2>3
  <2>5. ChecksTrue'
    BY <2>1, <2>3, <2>4
  <2> QED BY <2>2, <2>3, <2>5
<1>11. CASE UNCHANGED focusing
  BY <1>0, <1>11 DEF focusing, asking
<1> QED BY <1>1, <1>2, <1>3, <1>4, <1>5, <1>6, <1>7, <1>8, <1>9, <1>10, <1>11
        DEF NextFocus, Answers, SampleAnswers, ChecksSample, ChecksReturn

\* The wait ends only for a window that has the focus, unless the event that says otherwise has
\* not arrived yet.
THEOREM FocusReturned == FocusSpec => ReturnsFocused
<1> DEFINE Returns == ~returned /\ returned' => focused \/ LossUnderway
<1>1. FocusInv /\ [NextFocus]_focusing => [Returns]_focusing
  BY DEF FocusInv, ChecksTrue, NextFocus, Answers, SampleAnswers, ChecksSample, ChecksReturn,
         FocusTurns, WaitForReturn, FocusChanged,
         SampleFocus, SampleReturns, SampleFails, WatchdogSamples, TimerRuns, CheckSamples,
         CheckReturns, CheckFails, StableFocus
<1>2. FocusSpec => [][Returns]_focusing
  BY <1>1, FocusInitial, FocusInductive, PTL DEF FocusSpec
<1> QED BY <1>2 DEF ReturnsFocused, LossUnderway

\* Every change of focus is one the page has handled or has still to handle.
FocusBounds ==
  /\ turns \in 0..MaxTurns /\ generation + Len(focusEvents) <= turns
  /\ timer = {} \/ \E g \in Nat : timer = {g}
  /\ \A o \in Observers : samples[o].at = "none" => samples[o].generation = 0

LEMMA FocusBounded == FocusInv /\ FocusBounds /\ [NextFocus]_focusing => FocusBounds'
<1> SUFFICES ASSUME FocusInv, FocusBounds, [NextFocus]_focusing PROVE FocusBounds'
  OBVIOUS
<1>a. /\ focusEvents \in Seq(BOOLEAN) /\ generation \in Nat /\ MaxTurns \in Nat /\ focused \in BOOLEAN
      /\ samples \in [Observers -> Sample] /\ Len(focusEvents) \in Nat
  BY PrintFocusAssumption DEF FocusInv, ChecksTrue
<1> DEFINE Idle == \A o \in Observers : samples[o].at = "none" => samples[o].generation = 0
           Counts == turns \in 0..MaxTurns /\ generation + Len(focusEvents) <= turns
           OneTimer == timer = {} \/ \E g \in Nat : timer = {g}
<1>b. Idle /\ Counts /\ OneTimer
  BY DEF FocusBounds
<1>c. ASSUME Idle', Counts', OneTimer' PROVE FocusBounds'
  BY <1>c DEF FocusBounds
<1>d. ASSUME UNCHANGED <<turns, generation, focusEvents>> PROVE Counts'
  BY <1>b, <1>d
<1>e. ASSUME UNCHANGED timer PROVE OneTimer'
  BY <1>b, <1>e
<1>f. ASSUME UNCHANGED samples PROVE Idle'
  BY <1>b, <1>f
<1>1. CASE FocusTurns
  <2>1. Len(focusEvents') = Len(focusEvents) + 1
    BY <1>1, <1>a DEF FocusTurns
  <2>2. Counts'
    BY <1>1, <1>a, <1>b, <2>1 DEF FocusTurns
  <2> QED BY <1>1, <1>c, <1>e, <1>f, <2>2 DEF FocusTurns, asking
<1>2. CASE FocusChanged
  <2>1. Len(focusEvents') = Len(focusEvents) - 1
    BY <1>2, <1>a DEF FocusChanged
  <2>2. timer' = timer \/ timer' = {} \/ timer' = {generation + 1}
    BY <1>2 DEF FocusChanged, Observe, NoTimer
  <2>3. generation' \in {generation, generation + 1} /\ turns' = turns /\ samples' = samples
    BY <1>2 DEF FocusChanged, asking
  <2>4. Counts'
    BY <1>a, <1>b, <2>1, <2>3
  <2>5. OneTimer'
    BY <1>a, <1>b, <2>2
  <2> QED BY <1>c, <1>f, <2>3, <2>4, <2>5
<1>3. ASSUME NEW o \in Observers, SampleReturns(o) PROVE FocusBounds'
  <2>1. timer' = timer \/ timer' = {} \/ timer' = {generation}
    BY <1>3 DEF SampleReturns, Observe, NoTimer
  <2>2. OneTimer'
    BY <1>a, <1>b, <2>1
  <2>3. Idle'
    BY <1>3, <1>a, <1>b DEF SampleReturns, NoSample
  <2> QED BY <1>3, <1>c, <1>d, <2>2, <2>3 DEF SampleReturns
<1>4. CASE WaitForReturn \/ WatchdogSamples
  <2>1. Idle'
    BY <1>4, <1>a, <1>b DEF WaitForReturn, WatchdogSamples, Asked
  <2> QED BY <1>4, <1>c, <1>d, <1>e, <2>1 DEF WaitForReturn, WatchdogSamples
<1>5. ASSUME NEW o \in Observers, SampleFocus(o) PROVE FocusBounds'
  <2>1. samples' = [samples EXCEPT ![o] = [samples[o] EXCEPT !.at = "sampled", !.focus = focused]]
    BY <1>5 DEF SampleFocus
  <2>2. Idle'
    BY <1>a, <1>b, <2>1 DEF Sample
  <2> QED BY <1>5, <1>c, <1>d, <1>e, <2>2 DEF SampleFocus
<1>6. ASSUME NEW o \in Observers, SampleFails(o) PROVE FocusBounds'
  <2>1. Idle'
    BY <1>6, <1>a, <1>b DEF SampleFails, NoSample
  <2> QED BY <1>6, <1>c, <1>d, <1>e, <2>1 DEF SampleFails
<1>7. CASE TimerRuns
  <2>1. OneTimer'
    BY <1>7 DEF TimerRuns, NoTimer
  <2> QED BY <1>7, <1>c, <1>d, <1>f, <2>1 DEF TimerRuns
<1>8. ASSUME NEW c \in checks, CheckSamples(c) \/ CheckReturns(c) \/ CheckFails(c) PROVE FocusBounds'
  <2>1. UNCHANGED <<turns, generation, focusEvents, timer, samples>>
    BY <1>8 DEF CheckSamples, CheckReturns, CheckFails
  <2> QED BY <1>c, <1>d, <1>e, <1>f, <2>1
<1>9. CASE UNCHANGED focusing
  <2>1. UNCHANGED <<turns, generation, focusEvents, timer, samples>>
    BY <1>9 DEF focusing, asking
  <2> QED BY <1>c, <1>d, <1>e, <1>f, <2>1
<1> QED BY <1>1, <1>2, <1>3, <1>4, <1>5, <1>6, <1>7, <1>8, <1>9
        DEF NextFocus, Answers, SampleAnswers, ChecksSample, ChecksReturn

\* The wait counts no more events than there were changes, and has one timeout at most
\* (observeCurrentFocus, stability.observe).
THEOREM FocusTypes == FocusSpec => []FocusTypeOK
<1>1. InitFocus => FocusBounds
  BY PrintFocusAssumption DEF InitFocus, FocusBounds, NoTimer, NoSample
<1>2. ASSUME FocusInv, FocusBounds PROVE FocusTypeOK
  <2>1. Cardinality(timer) \in {0, 1}
    BY <1>2, FS_EmptySet, FS_Singleton DEF FocusBounds
  <2>2. /\ focused \in BOOLEAN /\ waiting \in BOOLEAN /\ dog \in BOOLEAN /\ returned \in BOOLEAN
        /\ focusEvents \in Seq(BOOLEAN) /\ generation \in Nat
        /\ timer \subseteq 0..generation
    BY <1>2 DEF FocusInv, ChecksTrue
  <2>3. generation <= MaxTurns
    BY <1>2, <2>2, PrintFocusAssumption DEF FocusBounds
  <2>4. ASSUME NEW o \in Observers
        PROVE  samples[o] \in Sample /\ samples[o].generation <= generation
    <3>1. samples[o] \in Sample
      BY <1>2 DEF FocusInv
    <3>2. samples[o].at # "none" => samples[o].generation <= generation
      BY <1>2 DEF FocusInv, ChecksTrue
    <3>3. samples[o].at = "none" => samples[o].generation = 0
      BY <1>2 DEF FocusBounds
    <3> QED BY <2>2, <3>1, <3>2, <3>3
  <2>5. ASSUME NEW c \in checks PROVE c \in Sample /\ c.generation <= generation
    BY <1>2 DEF FocusInv, ChecksTrue, Question
  <2> QED BY <2>1, <2>2, <2>3, <2>4, <2>5 DEF FocusTypeOK, Sample
<1> QED BY <1>1, <1>2, FocusInitial, FocusInductive, FocusBounded, PTL DEF FocusSpec

-----------------------------------------------------------------------------
(***************************************************************************)
(* The Linux thumbnailer.  The worker is dead before the temporary file is *)
(* removed, and only a file with the identity of the one that was seen     *)
(* empty is ever written in place.                                         *)
(***************************************************************************)
Committing == {"open", "truncate", "write", "write_rest", "remove"}
\* The worker: it is started once, its file is whole when it says that it is done, and it is
\* dead once the child guard has been dropped.
WorkerFacts ==
  /\ step \in {"parse", "identify", "spawn"} => task = "none"
  /\ task \in {"none", "reading", "creating"} => temp = "none"
  /\ step \in {"check", "validate", "target", "rename"} \cup Committing => task = "ended"
  /\ step \in {"target", "rename"} \cup Committing => temp = "whole"
  /\ step \in {"drop_output", "succeeded", "failed"} => ~TaskRuns
  /\ step = "failed" => temp = "none"
\* What is committed is whole, and is the file that the path named at first if that one waited
\* for the picture.
CommitFacts ==
  /\ step \in {"target", "rename"} => precreated = NoFile
  /\ step \in Committing => precreated \in Existing
  /\ step \in Committing \ {"open"} => opened = precreated
  /\ step = "remove" => content[precreated] \in {"whole", "later"}
  /\ committed => /\ step \in {"drop_child", "drop_output", "succeeded", "killed"}
                  /\ task = "ended" /\ temp = "none"
                  /\ IF precreated = NoFile THEN content["made"] \in {"whole", "later"}
                     ELSE opened = precreated /\ content[precreated] \in {"whole", "later"}
  /\ step = "succeeded" => committed
\* Whose file has been written
FileFacts ==
  /\ step \in {"parse", "identify"} =>
       opened = NoFile /\ \A f \in Existing : content[f] \in {"empty", "old"}
  /\ \A f \in Existing : content[f] \in {"part", "whole", "later"} => f = precreated
  /\ \A f \in Existing : content[f] = "part" => torn \/ step \in {"write_rest", "killed"}
  /\ opened \in {NoFile, precreated}
  /\ dest = "made" => precreated = NoFile /\ committed
ThumbnailerInv == ThumbnailerTypeOK /\ WorkerFacts /\ CommitFacts /\ FileFacts

LEMMA ThumbnailerInitial == InitThumbnailer => ThumbnailerInv
<1> SUFFICES ASSUME InitThumbnailer PROVE ThumbnailerInv
  OBVIOUS
<1> USE DEF InitThumbnailer, Existing, NoFile, Other
<1>1. ThumbnailerTypeOK
  <2>1. content \in [Existing \cup {"made"} -> {"none", "empty", "old", "part", "whole", "later"}]
    OBVIOUS
  <2>2. replaced \in 0..MaxReplaced
    BY ThumbnailerAssumption
  <2> QED BY <2>1, <2>2 DEF ThumbnailerTypeOK
<1>2. WorkerFacts
  BY DEF WorkerFacts, TaskRuns, Committing
<1>3. CommitFacts
  BY DEF CommitFacts, Committing
<1>4. FileFacts
  BY DEF FileFacts
<1> QED BY <1>1, <1>2, <1>3, <1>4 DEF ThumbnailerInv

LEMMA ThumbnailerInductive == ThumbnailerInv /\ [NextThumbnailer]_thumbnailer => ThumbnailerInv'
<1> SUFFICES ASSUME ThumbnailerInv, [NextThumbnailer]_thumbnailer PROVE ThumbnailerInv'
  OBVIOUS
<1> USE ThumbnailerAssumption DEF ThumbnailerInv, ThumbnailerTypeOK, WorkerFacts, CommitFacts, FileFacts,
            Existing, NoFile, Other, Committing, TaskRuns, places, pending, clock, others
<1>1. CASE Parse \/ Identify \/ Spawn
  <2>1. CASE Parse
    BY <2>1 DEF Parse
  <2>2. CASE Identify
    <3> USE <2>2 DEF Identify
    <3>1. ThumbnailerTypeOK'
      OBVIOUS
    <3>2. WorkerFacts' /\ CommitFacts'
      OBVIOUS
    <3>3. FileFacts'
      OBVIOUS
    <3> QED BY <3>1, <3>2, <3>3
  <2>3. CASE Spawn
    BY <2>3 DEF Spawn, Leave
  <2> QED BY <1>1, <2>1, <2>2, <2>3
<1>2. CASE Wait \/ CheckSignal \/ ValidatePng \/ ReplaceTarget
  BY <1>2 DEF Wait, CheckSignal, ValidatePng, ReplaceTarget, Leave
<1>3. CASE Rename
  <2> USE <1>3 DEF Rename, Leave
  <2>1. ThumbnailerTypeOK'
    OBVIOUS
  <2>2. WorkerFacts'
    OBVIOUS
  <2>3. CommitFacts'
    OBVIOUS
  <2>4. FileFacts'
    OBVIOUS
  <2> QED BY <2>1, <2>2, <2>3, <2>4
<1>4. CASE OpenPrecreated \/ RemoveTemporary
  <2> USE <1>4 DEF OpenPrecreated, RemoveTemporary, Leave
  <2>1. ThumbnailerTypeOK'
    OBVIOUS
  <2>2. WorkerFacts'
    OBVIOUS
  <2>3. CommitFacts'
    OBVIOUS
  <2>4. FileFacts'
    OBVIOUS
  <2> QED BY <2>1, <2>2, <2>3, <2>4
<1>5. CASE Truncate \/ WriteSome \/ WriteRest
  <2> USE <1>5 DEF Truncate, WriteSome, WriteRest, Written, Leave
  <2>1. ThumbnailerTypeOK'
    OBVIOUS
  <2>2. WorkerFacts'
    OBVIOUS
  <2>3. CommitFacts'
    OBVIOUS
  <2>4. FileFacts'
    OBVIOUS
  <2> QED BY <2>1, <2>2, <2>3, <2>4
<1>6. CASE DropChild \/ DropOutput
  BY <1>6 DEF DropChild, DropOutput, KillAndWait
<1>7. CASE WorkerStep
  BY <1>7 DEF WorkerStep, RenderInput, CreateTemporary, WritePng, SyncPng, WorkerAborts
<1>8. CASE Signal \/ SupervisorTimesOut
  <2>1. interrupted' \in BOOLEAN /\ overdue' \in BOOLEAN
    BY <1>8 DEF Signal, SupervisorTimesOut
  <2>2. UNCHANGED <<step, task, temp, dest, content, precreated, opened, committed, torn, replaced>>
    BY <1>8 DEF Signal, SupervisorTimesOut
  <2> QED BY <2>1, <2>2
<1>9. CASE Killed
  BY <1>9 DEF Killed, Ended
<1>10. CASE OutputReplaced \/ OutputFilled
  <2> USE <1>10 DEF OutputReplaced, OutputFilled, Held, Somebodys, Ended
  <2>1. ThumbnailerTypeOK'
    OBVIOUS
  <2>2. WorkerFacts'
    OBVIOUS
  <2>3. CommitFacts'
    <3>1. \A f \in Existing \cup {"made"} :
            f \in {opened, "made"} /\ content[f] \in {"whole", "later"} =>
              content'[f] \in {"whole", "later"}
      OBVIOUS
    <3>2. UNCHANGED <<step, task, temp, precreated, opened, committed>>
      OBVIOUS
    <3>3. precreated \in Existing \cup {NoFile} /\ CommitFacts
      OBVIOUS
    <3> QED BY ONLY <3>1, <3>2, <3>3 DEF CommitFacts, Committing, Existing, NoFile
  <2>4. FileFacts'
    <3>1. \A f \in Existing : content'[f] \in {content[f], Somebodys(f)}
      OBVIOUS
    <3>2. dest' = "made" => dest = "made"
      OBVIOUS
    <3>3. UNCHANGED <<step, precreated, opened, committed, torn>>
      OBVIOUS
    <3>4. FileFacts
      OBVIOUS
    <3> QED BY ONLY <3>1, <3>2, <3>3, <3>4 DEF FileFacts, Somebodys, Existing, NoFile
  <2> QED BY <2>1, <2>2, <2>3, <2>4
<1>11. CASE UNCHANGED thumbnailer
  BY <1>11 DEF thumbnailer
<1> QED BY <1>1, <1>2, <1>3, <1>4, <1>5, <1>6, <1>7, <1>8, <1>9, <1>10, <1>11 DEF NextThumbnailer, Supervisor

\* A thumbnailer that was not killed leaves no temporary file and no worker, its success is a whole
\* picture, and no file but one with the identity of the empty one that waited is written in place
\* (PendingOutput::commit and drop, ChildGuard::drop), whoever writes into it or takes its number.
THEOREM ThumbnailerAlwaysSound == ThumbnailerSpec => [](ThumbnailerTypeOK /\ ThumbnailerSound)
<1>1. ThumbnailerInv => ThumbnailerTypeOK /\ ThumbnailerSound
  BY DEF ThumbnailerInv, WorkerFacts, CommitFacts, FileFacts, ThumbnailerSound, NothingLeftOver,
         SuccessIsWhole, OnlyTheWaitingFile
<1> QED BY <1>1, ThumbnailerInitial, ThumbnailerInductive, PTL DEF ThumbnailerSpec

-----------------------------------------------------------------------------
(***************************************************************************)
(* One thumbnail of the Windows handler.  What is held at each stage, what *)
(* is late, whose frames are in the two queues, and where the page is in   *)
(* them: five parts, each kept by every step.                              *)
(***************************************************************************)
\* What the handler holds at each stage: its process, the job, the threads and the pipes
CallRuns == stage \in {"drop", "check", "receive", "terminate", "join_writer", "join_reader"}
Listening == stage \in {"drop", "check", "receive"} /\ receiving /\ reader = "running"
StageFacts ==
  /\ stage \in {"prepare", "create"} => worker = "none" /\ ~inJob
  /\ stage = "prepare" => ends = {}
  /\ stage = "assign" => worker = "suspended" /\ ~inJob
  /\ stage = "resume" => worker = "suspended" /\ inJob
  /\ stage = "threads" => worker \in {"reading", "dead"} /\ inJob
  /\ stage \in {"prepare", "create", "assign", "resume", "threads"} =>
       writer = "none" /\ reader = "none" /\ ~receiving /\ channel = <<>> /\ result = "none"
  /\ CallRuns => inJob /\ worker \notin {"none", "suspended"} /\ writer # "none" /\ reader # "none"
  /\ stage \in {"drop", "check", "receive"} => receiving /\ result = "none"
  /\ stage \in {"terminate", "join_writer", "join_reader", "returned"} => result # "none"
  /\ stage \in {"join_writer", "join_reader"} => worker = "dead"
  /\ stage = "join_reader" => writer = "done"
  /\ stage \in {"check", "receive", "terminate", "join_writer", "join_reader"} =>
       ends \subseteq {"input_write", "output_read"}
  /\ CallRuns /\ writer = "done" => "input_write" \notin ends
  /\ CallRuns /\ reader = "done" => "output_read" \notin ends
  /\ stage = "returned" => /\ worker \in {"none", "dead"} /\ ends = {} /\ ~inJob
                           /\ writer # "running" /\ reader # "running"
  /\ stage = "gone" => /\ worker \in {"none", "dead", "suspended"} /\ ~inJob
                       /\ writer = "done" /\ reader = "done"
LateFacts ==
  /\ lateFrames \in 0..1 /\ (lateFrames # 0 => expired) /\ (stage = "receive" => lateFrames = 0)
\* Frames are the ones of a worker in order, as long as it did not stray.
FrameFacts ==
  strays = 0 =>
  /\ \A i \in 1..Len(pipe) : pipe[i] \in sent \cup {Broken}
  /\ \A i \in 1..Len(channel) : channel[i] \in sent \cup {Broken}
  /\ candidate => "PreviewCandidate" \in sent
  /\ result = "page" => "DirectBitmap" \in sent
  /\ result = "preview" => "PreviewCandidate" \in sent
\* The page is the next frame, or the next after a preview that the selector takes.
PageIsNext(q) == q # <<>> /\ q[1] = "DirectBitmap"
InPlace(q) ==
  \/ PageIsNext(q)
  \/ ~candidate /\ Len(q) > 1 /\ q[1] = "PreviewCandidate" /\ q[2] = "DirectBitmap"
PageOnItsWay ==
  \/ stage \in {"drop", "check", "receive"} /\ InPlace(channel)
  \/ Listening /\ channel = <<>> /\ InPlace(pipe)
  \/ Listening /\ ~candidate /\ channel = <<"PreviewCandidate">> /\ PageIsNext(pipe)
OrderFacts ==
  /\ worker \in {"none", "suspended", "reading"} => pipe = <<>> /\ channel = <<>> /\ ~candidate
  /\ "DirectBitmap" \in sent => worker \in {"complete", "exiting", "dead"}
  /\ strays = 0 /\ ~expired /\ worker \in {"reading", "preview", "page"} =>
       /\ (worker = "reading" /\ stage = "threads") \/ Listening
       /\ worker = "preview" => pipe = <<>> /\ channel = <<>> /\ ~candidate
       /\ worker = "page" => \/ pipe = <<>> /\ channel = <<>>
                             \/ ~candidate /\ channel = <<"PreviewCandidate">> /\ pipe = <<>>
                             \/ ~candidate /\ channel = <<>> /\ pipe = <<"PreviewCandidate">>
  /\ strays = 0 /\ ~expired /\ "DirectBitmap" \in sent =>
       result = "page" \/ stage = "gone" \/ PageOnItsWay
ControlTyped ==
  /\ stage \in {"prepare", "create", "assign", "resume", "threads", "drop", "check", "receive",
             "terminate", "join_writer", "join_reader", "returned", "gone"}
  /\ worker \in {"none", "suspended", "reading", "preview", "page", "complete", "exiting", "dead"}
  /\ inJob \in BOOLEAN /\ receiving \in BOOLEAN /\ candidate \in BOOLEAN /\ expired \in BOOLEAN
  /\ writer \in {"none", "running", "done"} /\ reader \in {"none", "running", "done"}
  /\ result \in {"none", "page", "preview", "error"}
SetsTyped == ends \subseteq Handles /\ sent \subseteq Kinds
QueuesTyped ==
  pipe \in Seq(Kinds \cup {Broken}) /\ channel \in Seq(Kinds \cup {Broken}) /\ strays \in 0..MaxStrays
RenderingInv ==
  ControlTyped /\ SetsTyped /\ QueuesTyped /\ StageFacts /\ LateFacts /\ FrameFacts /\ OrderFacts

\* What a receive comes to: a preview is kept, the page is taken, or the call settles for less.
TakesPreview ==
  /\ channel # <<>> /\ Head(channel) = "PreviewCandidate" /\ ~candidate
  /\ stage' = "check" /\ candidate' = TRUE /\ channel' = Tail(channel) /\ UNCHANGED <<result, receiving>>
TakesPage ==
  /\ channel # <<>> /\ Head(channel) = "DirectBitmap"
  /\ Chosen("page") /\ UNCHANGED candidate
Settles ==
  /\ channel # <<>> \/ reader = "done" \/ expired
  /\ channel # <<>> => Head(channel) # "DirectBitmap"
  /\ channel # <<>> /\ Head(channel) = "PreviewCandidate" => candidate
  /\ Chosen("error") \/ (candidate /\ Chosen("preview"))
  /\ UNCHANGED candidate
LEMMA ReceiveFacts == Receive => TakesPreview \/ TakesPage \/ Settles
<1> SUFFICES ASSUME Receive PROVE TakesPreview \/ TakesPage \/ Settles
  OBVIOUS
<1>0. Fallback => Chosen("error") \/ (candidate /\ Chosen("preview"))
  BY DEF Fallback
<1>1. CASE channel = <<>>
  BY <1>0, <1>1 DEF Receive, Settles
<1>2. CASE channel # <<>> /\ Head(channel) = "PreviewCandidate" /\ ~candidate
  BY <1>2 DEF Receive, Accept, TakesPreview, Broken
<1>3. CASE channel # <<>> /\ Head(channel) = "DirectBitmap"
  BY <1>3 DEF Receive, Accept, TakesPage, Broken
<1>4. CASE channel # <<>> /\ Head(channel) \in {"DirectFailed", "Complete", Broken}
  BY <1>0, <1>4 DEF Receive, Accept, Settles, Broken
<1>5. CASE /\ channel # <<>> /\ Head(channel) \notin {"DirectBitmap", "DirectFailed", "Complete", Broken}
           /\ ~(Head(channel) = "PreviewCandidate" /\ ~candidate)
  BY <1>5 DEF Receive, Accept, Settles, Broken
<1> QED BY <1>1, <1>2, <1>3, <1>4, <1>5

LEMMA TailTyped == ASSUME NEW S, NEW q \in Seq(S), q # <<>> PROVE Tail(q) \in Seq(S)
OBVIOUS

LEMMA RenderingInitial == InitRendering => RenderingInv
<1> SUFFICES ASSUME InitRendering PROVE RenderingInv
  OBVIOUS
<1> USE DEF InitRendering
<1>1. ControlTyped /\ SetsTyped
  BY DEF ControlTyped, SetsTyped
<1>2. QueuesTyped
  BY WorkerAssumption DEF QueuesTyped
<1>3. StageFacts
  BY DEF StageFacts, CallRuns
<1>4. LateFacts /\ FrameFacts
  BY DEF LateFacts, FrameFacts
<1>5. OrderFacts
  BY DEF OrderFacts
<1> QED BY <1>1, <1>2, <1>3, <1>4, <1>5 DEF RenderingInv

LEMMA ControlHolds == ControlTyped /\ [NextRendering]_rendering => ControlTyped'
<1> SUFFICES ASSUME ControlTyped, [NextRendering]_rendering PROVE ControlTyped'
  OBVIOUS
<1> USE DEF hidden, threads, Alive, ControlTyped
<1>1. CASE CannotStart \/ CreatePipes
  BY <1>1 DEF CannotStart, CreatePipes, Return
<1>2. CASE CreateProcess
  BY <1>2 DEF CreateProcess
<1>3. CASE AssignProcess
  BY <1>3 DEF AssignProcess, Return
<1>4. CASE ResumeThread
  BY <1>4 DEF ResumeThread, Return, CloseJob
<1>5. CASE SpawnThreads \/ DropChildEnds
  BY <1>5 DEF SpawnThreads, DropChildEnds
<1>6. CASE Check
  BY <1>6 DEF Check, CheckDeadline, Fallback, Chosen
<1>7. CASE Receive
  BY <1>7 DEF Receive, Accept, Fallback, Chosen
<1>8. CASE Terminate \/ JoinWriter \/ JoinReader
  BY <1>8 DEF Terminate, JoinWriter, JoinReader, KillJob, CloseJob
<1>9. CASE WriterFeeds \/ WriterFails
  BY <1>9 DEF WriterFeeds, WriterFails, WriterEnds, InputReadable
<1>10. CASE ReaderReads
  BY <1>10 DEF ReaderReads, ReadFrame, Sends, ReaderEnds, OutputWritable
<1>11. CASE WorkerPreviews
  BY <1>11 DEF WorkerPreviews, WritesInOrder, Writes, worked
<1>12. CASE WorkerRenders
  BY <1>12 DEF WorkerRenders, WritesInOrder, Writes, worked
<1>13. CASE WorkerCompletes
  BY <1>13 DEF WorkerCompletes, WritesInOrder, Writes, worked
<1>14. CASE WorkerDies
  BY <1>14 DEF WorkerDies, Writes, worked
<1>15. CASE WorkerStrays
  BY <1>15 DEF WorkerStrays, Writes, worked
<1>16. CASE SelectionTimesOut
  BY <1>16 DEF SelectionTimesOut
<1>17. CASE HostDies
  BY <1>17 DEF HostDies, CloseJob
<1>18. CASE UNCHANGED rendering
  BY <1>18 DEF rendering
<1> QED BY <1>1, <1>2, <1>3, <1>4, <1>5, <1>6, <1>7, <1>8, <1>9, <1>10, <1>11, <1>12, <1>13, <1>14, <1>15, <1>16, <1>17, <1>18
        DEF NextRendering, Caller

LEMMA SetsHold == SetsTyped /\ [NextRendering]_rendering => SetsTyped'
<1> SUFFICES ASSUME SetsTyped, [NextRendering]_rendering PROVE SetsTyped'
  OBVIOUS
<1> USE DEF hidden, threads, Alive, SetsTyped, Handles, Kinds, Broken
<1>1. CASE CannotStart \/ CreatePipes
  BY <1>1 DEF CannotStart, CreatePipes, Return
<1>2. CASE CreateProcess
  BY <1>2 DEF CreateProcess
<1>3. CASE AssignProcess
  BY <1>3 DEF AssignProcess, Return
<1>4. CASE ResumeThread
  BY <1>4 DEF ResumeThread, Return, CloseJob
<1>5. CASE SpawnThreads \/ DropChildEnds
  BY <1>5 DEF SpawnThreads, DropChildEnds
<1>6. CASE Check
  BY <1>6 DEF Check, CheckDeadline, Fallback, Chosen
<1>7. CASE Receive
  BY <1>7 DEF Receive, Accept, Fallback, Chosen
<1>8. CASE Terminate \/ JoinWriter \/ JoinReader
  BY <1>8 DEF Terminate, JoinWriter, JoinReader, KillJob, CloseJob
<1>9. CASE WriterFeeds \/ WriterFails
  BY <1>9 DEF WriterFeeds, WriterFails, WriterEnds, InputReadable
<1>10. CASE ReaderReads
  BY <1>10 DEF ReaderReads, ReadFrame, Sends, ReaderEnds, OutputWritable
<1>11. CASE WorkerPreviews
  BY <1>11 DEF WorkerPreviews, WritesInOrder, Writes, worked
<1>12. CASE WorkerRenders
  BY <1>12 DEF WorkerRenders, WritesInOrder, Writes, worked
<1>13. CASE WorkerCompletes
  BY <1>13 DEF WorkerCompletes, WritesInOrder, Writes, worked
<1>14. CASE WorkerDies
  BY <1>14 DEF WorkerDies, Writes, worked
<1>15. CASE WorkerStrays
  BY <1>15 DEF WorkerStrays, Writes, worked
<1>16. CASE SelectionTimesOut
  BY <1>16 DEF SelectionTimesOut
<1>17. CASE HostDies
  BY <1>17 DEF HostDies, CloseJob
<1>18. CASE UNCHANGED rendering
  BY <1>18 DEF rendering
<1> QED BY <1>1, <1>2, <1>3, <1>4, <1>5, <1>6, <1>7, <1>8, <1>9, <1>10, <1>11, <1>12, <1>13, <1>14, <1>15, <1>16, <1>17, <1>18
        DEF NextRendering, Caller

LEMMA QueuesHold == QueuesTyped /\ [NextRendering]_rendering => QueuesTyped'
<1> SUFFICES ASSUME QueuesTyped, [NextRendering]_rendering PROVE QueuesTyped'
  OBVIOUS
<1> USE WorkerAssumption DEF hidden, threads, Alive, QueuesTyped, Kinds, Broken
<1>1. CASE CannotStart \/ CreatePipes
  BY <1>1 DEF CannotStart, CreatePipes, Return
<1>2. CASE CreateProcess
  BY <1>2 DEF CreateProcess
<1>3. CASE AssignProcess
  BY <1>3 DEF AssignProcess, Return
<1>4. CASE ResumeThread
  BY <1>4 DEF ResumeThread, Return, CloseJob
<1>5. CASE SpawnThreads \/ DropChildEnds
  BY <1>5 DEF SpawnThreads, DropChildEnds
<1>6. CASE Check
  <2>1. channel' = channel \/ channel' = <<>>
    BY <1>6 DEF Check, CheckDeadline, Fallback, Chosen
  <2>2. <<>> \in Seq(Kinds \cup {Broken})
    OBVIOUS
  <2>3. UNCHANGED <<pipe, strays>>
    BY <1>6 DEF Check, CheckDeadline, Fallback, Chosen
  <2> QED BY <2>1, <2>2, <2>3
<1>7. CASE Receive
  <2>1. channel' = channel \/ channel' = <<>> \/ (channel # <<>> /\ channel' = Tail(channel))
    <3>1. CASE TakesPreview
      BY <3>1 DEF TakesPreview
    <3>2. CASE TakesPage \/ Settles
      BY <3>2 DEF TakesPage, Settles, Chosen
    <3> QED BY ReceiveFacts, <1>7, <3>1, <3>2
  <2>2. <<>> \in Seq(Kinds \cup {Broken})
    OBVIOUS
  <2>3. UNCHANGED <<pipe, strays>>
    BY <1>7 DEF Receive
  <2> QED BY TailTyped, <2>1, <2>2, <2>3
<1>8. CASE Terminate \/ JoinWriter \/ JoinReader
  BY <1>8 DEF Terminate, JoinWriter, JoinReader, KillJob, CloseJob
<1>9. CASE WriterFeeds \/ WriterFails
  BY <1>9 DEF WriterFeeds, WriterFails, WriterEnds, InputReadable
<1>10. CASE ReaderReads
  <2>1. PICK f \in Kinds \cup {Broken} : Sends(f)
    BY <1>10 DEF ReaderReads, ReadFrame
  <2>2. channel' = channel \/ channel' = Append(channel, f)
    BY <2>1 DEF Sends
  <2>3. pipe' = pipe \/ (pipe # <<>> /\ pipe' = Tail(pipe))
    BY <1>10 DEF ReaderReads, ReadFrame
  <2>4. UNCHANGED strays
    BY <1>10 DEF ReaderReads
  <2>5. channel' \in Seq(Kinds \cup {Broken})
    BY <2>2
  <2>6. pipe' \in Seq(Kinds \cup {Broken})
    BY TailTyped, <2>3
  <2> QED BY <2>4, <2>5, <2>6
<1>11. CASE WorkerPreviews
  <2>1. pipe' = pipe \/ \E f \in Kinds \cup {Broken} : pipe' = Append(pipe, f)
    BY <1>11 DEF WorkerPreviews, WritesInOrder, Writes, worked
  <2>2. UNCHANGED channel
    BY <1>11 DEF WorkerPreviews, WritesInOrder, Writes, worked
  <2>3. strays' \in 0..MaxStrays
    BY <1>11 DEF WorkerPreviews, WritesInOrder, Writes, worked
  <2> QED BY <2>1, <2>2, <2>3
<1>12. CASE WorkerRenders
  <2>1. pipe' = pipe \/ \E f \in Kinds \cup {Broken} : pipe' = Append(pipe, f)
    BY <1>12 DEF WorkerRenders, WritesInOrder, Writes, worked
  <2>2. UNCHANGED channel
    BY <1>12 DEF WorkerRenders, WritesInOrder, Writes, worked
  <2>3. strays' \in 0..MaxStrays
    BY <1>12 DEF WorkerRenders, WritesInOrder, Writes, worked
  <2> QED BY <2>1, <2>2, <2>3
<1>13. CASE WorkerCompletes
  <2>1. pipe' = pipe \/ \E f \in Kinds \cup {Broken} : pipe' = Append(pipe, f)
    BY <1>13 DEF WorkerCompletes, WritesInOrder, Writes, worked
  <2>2. UNCHANGED channel
    BY <1>13 DEF WorkerCompletes, WritesInOrder, Writes, worked
  <2>3. strays' \in 0..MaxStrays
    BY <1>13 DEF WorkerCompletes, WritesInOrder, Writes, worked
  <2> QED BY <2>1, <2>2, <2>3
<1>14. CASE WorkerDies
  <2>1. pipe' = pipe \/ \E f \in Kinds \cup {Broken} : pipe' = Append(pipe, f)
    BY <1>14 DEF WorkerDies, Writes, worked
  <2>2. UNCHANGED channel
    BY <1>14 DEF WorkerDies, Writes, worked
  <2>3. strays' \in 0..MaxStrays
    BY <1>14 DEF WorkerDies, Writes, worked
  <2> QED BY <2>1, <2>2, <2>3
<1>15. CASE WorkerStrays
  <2>1. pipe' = pipe \/ \E f \in Kinds \cup {Broken} : pipe' = Append(pipe, f)
    BY <1>15 DEF WorkerStrays, Writes, worked
  <2>2. UNCHANGED channel
    BY <1>15 DEF WorkerStrays, Writes, worked
  <2>3. strays' \in 0..MaxStrays
    BY <1>15 DEF WorkerStrays, Writes, worked
  <2> QED BY <2>1, <2>2, <2>3
<1>16. CASE SelectionTimesOut
  BY <1>16 DEF SelectionTimesOut
<1>17. CASE HostDies
  BY <1>17 DEF HostDies, CloseJob
<1>18. CASE UNCHANGED rendering
  BY <1>18 DEF rendering
<1> QED BY <1>1, <1>2, <1>3, <1>4, <1>5, <1>6, <1>7, <1>8, <1>9, <1>10, <1>11, <1>12, <1>13, <1>14, <1>15, <1>16, <1>17, <1>18
        DEF NextRendering, Caller

LEMMA StagesHold == ControlTyped /\ SetsTyped /\ StageFacts /\ [NextRendering]_rendering => StageFacts'
<1> SUFFICES ASSUME ControlTyped, SetsTyped, StageFacts, [NextRendering]_rendering PROVE StageFacts'
  OBVIOUS
<1> USE DEF hidden, threads, Alive, ControlTyped, SetsTyped, StageFacts, CallRuns, Handles
<1>1. CASE CannotStart \/ CreatePipes
  BY <1>1 DEF CannotStart, CreatePipes, Return
<1>2. CASE CreateProcess
  BY <1>2 DEF CreateProcess
<1>3. CASE AssignProcess
  BY <1>3 DEF AssignProcess, Return
<1>4. CASE ResumeThread
  BY <1>4 DEF ResumeThread, Return, CloseJob
<1>5. CASE SpawnThreads \/ DropChildEnds
  BY <1>5 DEF SpawnThreads, DropChildEnds
<1>6. CASE Check
  BY <1>6 DEF Check, CheckDeadline, Fallback, Chosen
<1>7. CASE Receive
  BY <1>7 DEF Receive, Accept, Fallback, Chosen
<1>8. CASE Terminate \/ JoinWriter \/ JoinReader
  BY <1>8 DEF Terminate, JoinWriter, JoinReader, KillJob, CloseJob
<1>9. CASE WriterFeeds \/ WriterFails
  BY <1>9 DEF WriterFeeds, WriterFails, WriterEnds, InputReadable
<1>10. CASE ReaderReads
  BY <1>10 DEF ReaderReads, ReadFrame, Sends, ReaderEnds, OutputWritable
<1>11. CASE WorkerPreviews
  BY <1>11 DEF WorkerPreviews, WritesInOrder, Writes, worked
<1>12. CASE WorkerRenders
  BY <1>12 DEF WorkerRenders, WritesInOrder, Writes, worked
<1>13. CASE WorkerCompletes
  BY <1>13 DEF WorkerCompletes, WritesInOrder, Writes, worked
<1>14. CASE WorkerDies
  BY <1>14 DEF WorkerDies, Writes, worked
<1>15. CASE WorkerStrays
  BY <1>15 DEF WorkerStrays, Writes, worked
<1>16. CASE SelectionTimesOut
  BY <1>16 DEF SelectionTimesOut
<1>17. CASE HostDies
  BY <1>17 DEF HostDies, CloseJob
<1>18. CASE UNCHANGED rendering
  BY <1>18 DEF rendering
<1> QED BY <1>1, <1>2, <1>3, <1>4, <1>5, <1>6, <1>7, <1>8, <1>9, <1>10, <1>11, <1>12, <1>13, <1>14, <1>15, <1>16, <1>17, <1>18
        DEF NextRendering, Caller

LEMMA LateHolds == ControlTyped /\ LateFacts /\ [NextRendering]_rendering => LateFacts'
<1> SUFFICES ASSUME ControlTyped, LateFacts, [NextRendering]_rendering PROVE LateFacts'
  OBVIOUS
<1> USE DEF hidden, threads, Alive, ControlTyped, LateFacts
<1>1. CASE CannotStart \/ CreatePipes
  BY <1>1 DEF CannotStart, CreatePipes, Return
<1>2. CASE CreateProcess
  BY <1>2 DEF CreateProcess
<1>3. CASE AssignProcess
  BY <1>3 DEF AssignProcess, Return
<1>4. CASE ResumeThread
  BY <1>4 DEF ResumeThread, Return, CloseJob
<1>5. CASE SpawnThreads \/ DropChildEnds
  BY <1>5 DEF SpawnThreads, DropChildEnds
<1>6. CASE Check
  BY <1>6 DEF Check, CheckDeadline, Fallback, Chosen
<1>7. CASE Receive
  BY <1>7 DEF Receive, Accept, Fallback, Chosen
<1>8. CASE Terminate \/ JoinWriter \/ JoinReader
  BY <1>8 DEF Terminate, JoinWriter, JoinReader, KillJob, CloseJob
<1>9. CASE WriterFeeds \/ WriterFails
  BY <1>9 DEF WriterFeeds, WriterFails, WriterEnds, InputReadable
<1>10. CASE ReaderReads
  BY <1>10 DEF ReaderReads, ReadFrame, Sends, ReaderEnds, OutputWritable
<1>11. CASE WorkerPreviews
  BY <1>11 DEF WorkerPreviews, WritesInOrder, Writes, worked
<1>12. CASE WorkerRenders
  BY <1>12 DEF WorkerRenders, WritesInOrder, Writes, worked
<1>13. CASE WorkerCompletes
  BY <1>13 DEF WorkerCompletes, WritesInOrder, Writes, worked
<1>14. CASE WorkerDies
  BY <1>14 DEF WorkerDies, Writes, worked
<1>15. CASE WorkerStrays
  BY <1>15 DEF WorkerStrays, Writes, worked
<1>16. CASE SelectionTimesOut
  BY <1>16 DEF SelectionTimesOut
<1>17. CASE HostDies
  BY <1>17 DEF HostDies, CloseJob
<1>18. CASE UNCHANGED rendering
  BY <1>18 DEF rendering
<1> QED BY <1>1, <1>2, <1>3, <1>4, <1>5, <1>6, <1>7, <1>8, <1>9, <1>10, <1>11, <1>12, <1>13, <1>14, <1>15, <1>16, <1>17, <1>18
        DEF NextRendering, Caller

LEMMA FramesHold == ControlTyped /\ SetsTyped /\ QueuesTyped /\ FrameFacts /\ [NextRendering]_rendering => FrameFacts'
<1> SUFFICES ASSUME ControlTyped, SetsTyped, QueuesTyped, FrameFacts, [NextRendering]_rendering PROVE FrameFacts'
  OBVIOUS
<1> USE DEF hidden, threads, Alive, ControlTyped, SetsTyped, QueuesTyped, Kinds, Broken, FrameFacts
<1>1. CASE CannotStart \/ CreatePipes
  BY <1>1 DEF CannotStart, CreatePipes, Return
<1>2. CASE CreateProcess
  BY <1>2 DEF CreateProcess
<1>3. CASE AssignProcess
  BY <1>3 DEF AssignProcess, Return
<1>4. CASE ResumeThread
  BY <1>4 DEF ResumeThread, Return, CloseJob
<1>5. CASE SpawnThreads \/ DropChildEnds
  BY <1>5 DEF SpawnThreads, DropChildEnds
<1>6. CASE Check
  BY <1>6 DEF Check, CheckDeadline, Fallback, Chosen
<1>7. CASE Receive
  <2>1. UNCHANGED <<pipe, sent, strays>>
    BY <1>7 DEF Receive
  <2>2. CASE TakesPreview
    <3>1. strays = 0 => \A i \in 1..Len(channel') : channel'[i] \in sent \cup {Broken}
      BY <2>2 DEF TakesPreview
    <3>2. strays = 0 => "PreviewCandidate" \in sent
      BY <2>2 DEF TakesPreview
    <3> QED BY <2>1, <2>2, <3>1, <3>2 DEF TakesPreview
  <2>3. CASE TakesPage
    <3>1. strays = 0 => "DirectBitmap" \in sent
      BY <2>3 DEF TakesPage
    <3> QED BY <2>1, <2>3, <3>1 DEF TakesPage, Chosen
  <2>4. CASE Settles
    BY <2>1, <2>4 DEF Settles, Chosen
  <2> QED BY <2>2, <2>3, <2>4, <1>7, ReceiveFacts
<1>8. CASE Terminate \/ JoinWriter \/ JoinReader
  BY <1>8 DEF Terminate, JoinWriter, JoinReader, KillJob, CloseJob
<1>9. CASE WriterFeeds \/ WriterFails
  BY <1>9 DEF WriterFeeds, WriterFails, WriterEnds, InputReadable
<1>10. CASE ReaderReads
  <2>0. \/ pipe = <<>> /\ Sends(Broken) /\ pipe' = pipe
        \/ pipe # <<>> /\ Sends(Head(pipe)) /\ pipe' = Tail(pipe)
    BY <1>10 DEF ReaderReads, ReadFrame
  <2>1. PICK f : Sends(f) /\ ((f = Broken /\ pipe' = pipe) \/ (f = Head(pipe) /\ pipe # <<>> /\ pipe' = Tail(pipe)))
    <3>1. CASE pipe = <<>>
      <4> WITNESS Broken
      <4> QED BY <2>0, <3>1
    <3>2. CASE pipe # <<>>
      <4> WITNESS Head(pipe)
      <4> QED BY <2>0, <3>2
    <3> QED BY <3>1, <3>2
  <2>2. strays = 0 => f \in sent \cup {Broken}
    BY <2>1
  <2>3. UNCHANGED <<sent, strays, candidate, result>>
    BY <1>10 DEF ReaderReads
  <2>4. channel' = channel \/ channel' = Append(channel, f)
    BY <2>1 DEF Sends
  <2>5. strays = 0 => \A i \in 1..Len(channel') : channel'[i] \in sent \cup {Broken}
    BY <2>2, <2>4
  <2>6. strays = 0 => \A i \in 1..Len(pipe') : pipe'[i] \in sent \cup {Broken}
    BY <2>1
  <2> QED BY <2>3, <2>5, <2>6
<1>11. CASE WorkerPreviews
  <2>1. \/ UNCHANGED <<pipe, sent, strays>>
        \/ \E f \in Kinds : pipe' = Append(pipe, f) /\ sent' = sent \cup {f} /\ UNCHANGED strays
    BY <1>11 DEF WorkerPreviews, WritesInOrder, Writes, worked
  <2>2. UNCHANGED <<channel, candidate, result>>
    BY <1>11 DEF WorkerPreviews, WritesInOrder, Writes, worked
  <2> QED BY <2>1, <2>2
<1>12. CASE WorkerRenders
  <2>1. \/ UNCHANGED <<pipe, sent, strays>>
        \/ \E f \in Kinds : pipe' = Append(pipe, f) /\ sent' = sent \cup {f} /\ UNCHANGED strays
    BY <1>12 DEF WorkerRenders, WritesInOrder, Writes, worked
  <2>2. UNCHANGED <<channel, candidate, result>>
    BY <1>12 DEF WorkerRenders, WritesInOrder, Writes, worked
  <2> QED BY <2>1, <2>2
<1>13. CASE WorkerCompletes
  <2>1. \/ UNCHANGED <<pipe, sent, strays>>
        \/ \E f \in Kinds : pipe' = Append(pipe, f) /\ sent' = sent \cup {f} /\ UNCHANGED strays
    BY <1>13 DEF WorkerCompletes, WritesInOrder, Writes, worked
  <2>2. UNCHANGED <<channel, candidate, result>>
    BY <1>13 DEF WorkerCompletes, WritesInOrder, Writes, worked
  <2> QED BY <2>1, <2>2
<1>14. CASE WorkerDies
  <2>1. \/ UNCHANGED <<pipe, sent, strays>>
        \/ pipe' = Append(pipe, Broken) /\ UNCHANGED <<sent, strays>>
    BY <1>14 DEF WorkerDies, Writes, worked
  <2>2. UNCHANGED <<channel, candidate, result>>
    BY <1>14 DEF WorkerDies, Writes, worked
  <2> QED BY <2>1, <2>2
<1>15. CASE WorkerStrays
  <2>1. strays' # 0
    BY <1>15 DEF WorkerStrays, Writes, worked
  <2> QED BY <2>1
<1>16. CASE SelectionTimesOut
  BY <1>16 DEF SelectionTimesOut
<1>17. CASE HostDies
  BY <1>17 DEF HostDies, CloseJob
<1>18. CASE UNCHANGED rendering
  BY <1>18 DEF rendering
<1> QED BY <1>1, <1>2, <1>3, <1>4, <1>5, <1>6, <1>7, <1>8, <1>9, <1>10, <1>11, <1>12, <1>13, <1>14, <1>15, <1>16, <1>17, <1>18
        DEF NextRendering, Caller

LEMMA OrderHolds == ControlTyped /\ QueuesTyped /\ StageFacts /\ OrderFacts /\ [NextRendering]_rendering => OrderFacts'
<1> SUFFICES ASSUME ControlTyped, QueuesTyped, StageFacts, OrderFacts, [NextRendering]_rendering PROVE OrderFacts'
  OBVIOUS
<1> USE DEF hidden, threads, Alive, ControlTyped, QueuesTyped, StageFacts, CallRuns, Listening, OrderFacts, PageOnItsWay, InPlace, PageIsNext
<1>1. CASE CannotStart \/ CreatePipes
  BY <1>1 DEF CannotStart, CreatePipes, Return
<1>2. CASE CreateProcess
  BY <1>2 DEF CreateProcess
<1>3. CASE AssignProcess
  BY <1>3 DEF AssignProcess, Return
<1>4. CASE ResumeThread
  BY <1>4 DEF ResumeThread, Return, CloseJob
<1>5. CASE SpawnThreads \/ DropChildEnds
  BY <1>5 DEF SpawnThreads, DropChildEnds
<1>6. CASE Check
  BY <1>6 DEF Check, CheckDeadline, Fallback, Chosen
<1>7. CASE Receive
  <2>0. UNCHANGED <<worker, expired, strays, sent, pipe, reader>> /\ stage = "receive"
    BY <1>7 DEF Receive
  <2>1. CASE TakesPreview
    <3>1. /\ channel[1] = "PreviewCandidate" /\ Len(channel') = Len(channel) - 1
          /\ Len(channel) > 1 => channel'[1] = channel[2]
          /\ channel = <<"PreviewCandidate">> => channel' = <<>>
      BY <2>1 DEF TakesPreview
    <3>2. strays = 0 /\ ~expired /\ PageOnItsWay => PageOnItsWay'
      <4>0. /\ stage' = "check" /\ candidate' = TRUE /\ ~candidate /\ receiving' = receiving
            /\ channel # <<>> /\ Len(channel) >= 1
        BY <2>1 DEF TakesPreview
      <4>1. CASE InPlace(channel)
        BY <4>0, <4>1, <2>0, <3>1
      <4>2. CASE Listening /\ channel = <<"PreviewCandidate">> /\ PageIsNext(pipe)
        BY <4>0, <4>2, <2>0, <3>1
      <4> QED BY <4>0, <4>1, <4>2
    <3>3. /\ worker \notin {"none", "suspended", "reading"}
          /\ worker = "preview" => strays # 0 \/ expired
      BY <2>0, <2>1 DEF TakesPreview
    <3>4. strays = 0 /\ ~expired /\ worker = "page" => Listening' /\ pipe' = <<>> /\ channel' = <<>>
      BY <2>0, <2>1, <3>1 DEF TakesPreview
    <3> QED BY <2>0, <2>1, <3>2, <3>3, <3>4 DEF TakesPreview
  <2>2. CASE TakesPage
    BY <2>0, <2>2 DEF TakesPage, Chosen
  <2>3. CASE Settles
    BY <2>0, <2>3 DEF Settles, Chosen
  <2> QED BY <1>7, <2>1, <2>2, <2>3, ReceiveFacts
<1>8. CASE Terminate \/ JoinWriter \/ JoinReader
  BY <1>8 DEF Terminate, JoinWriter, JoinReader, KillJob, CloseJob
<1>9. CASE WriterFeeds \/ WriterFails
  BY <1>9 DEF WriterFeeds, WriterFails, WriterEnds, InputReadable
<1>10. CASE ReaderReads
  <2>0. UNCHANGED <<stage, worker, receiving, candidate, result, expired, sent, strays>> /\ reader = "running"
    BY <1>10 DEF ReaderReads, ReadFrame
  <2>1. \/ pipe = <<>> /\ ~Alive /\ Sends(Broken) /\ pipe' = pipe
        \/ pipe # <<>> /\ Sends(pipe[1]) /\ pipe' = Tail(pipe)
    BY <1>10 DEF ReaderReads, ReadFrame, OutputWritable
  <2>2. CASE ~receiving
    BY <2>0, <2>1, <2>2 DEF Sends, ReaderEnds
  <2>3. CASE receiving /\ pipe = <<>>
    <3>1. Len(channel') = Len(channel) + 1 /\ \A i \in 1..Len(channel) : channel'[i] = channel[i]
      BY <2>1, <2>3 DEF Sends
    <3> QED BY <2>0, <2>1, <2>3, <3>1
  <2>4. CASE receiving /\ pipe # <<>>
    <3>1. /\ channel' = Append(channel, pipe[1]) /\ pipe' = Tail(pipe)
          /\ pipe[1] # "Complete" => reader' = reader
      BY <2>1, <2>4, Zenon DEF Sends
    <3>2. /\ Len(channel') = Len(channel) + 1 /\ \A i \in 1..Len(channel) : channel'[i] = channel[i]
          /\ channel'[Len(channel) + 1] = pipe[1]
      BY <3>1, <2>4
    <3>3. Len(pipe') = Len(pipe) - 1 /\ \A i \in 1..Len(pipe) - 1 : pipe'[i] = pipe[i + 1]
      BY <3>1, <2>4
    <3>4. strays = 0 /\ ~expired /\ PageOnItsWay => PageOnItsWay'
      <4>1. CASE InPlace(channel)
        BY <4>1, <2>0, <3>2
      <4>2. CASE Listening /\ channel = <<>> /\ InPlace(pipe)
        BY <4>2, <2>0, <3>1, <3>2, <3>3
      <4>3. CASE Listening /\ ~candidate /\ channel = <<"PreviewCandidate">> /\ PageIsNext(pipe)
        BY <4>3, <2>0, <3>1, <3>2, <3>3
      <4> QED BY <4>1, <4>2, <4>3
    <3>5. strays = 0 /\ ~expired /\ worker = "page" =>
            Listening' /\ pipe' = <<>> /\ channel' = <<"PreviewCandidate">> /\ ~candidate'
      <4> SUFFICES ASSUME strays = 0, ~expired, worker = "page"
                   PROVE  Listening' /\ pipe' = <<>> /\ channel' = <<"PreviewCandidate">> /\ ~candidate'
        OBVIOUS
      <4>1. Listening /\ ~candidate /\ channel = <<>> /\ pipe = <<"PreviewCandidate">>
        BY <2>4
      <4>2. pipe' = <<>> /\ channel' = <<"PreviewCandidate">> /\ reader' = reader
        BY <3>1, <4>1
      <4> QED BY <2>0, <4>1, <4>2
    <3>6. worker \notin {"none", "suspended", "reading"} /\ (worker = "preview" => strays # 0 \/ expired)
      BY <2>4
    <3> QED BY <2>0, <3>4, <3>5, <3>6
  <2> QED BY <2>2, <2>3, <2>4
<1>11. CASE WorkerPreviews
  <2>1. CASE WritesInOrder("PreviewCandidate")
    <3>1. strays = 0 /\ ~expired => pipe' = <<"PreviewCandidate">>
      BY <1>11, <2>1 DEF WorkerPreviews, WritesInOrder, Writes, worked
    <3> QED BY <1>11, <2>1, <3>1 DEF WorkerPreviews, WritesInOrder, Writes, worked
  <2>2. CASE UNCHANGED <<pipe, sent, strays>>
    BY <1>11, <2>2 DEF WorkerPreviews, worked
  <2> QED BY <1>11, <2>1, <2>2 DEF WorkerPreviews
<1>12. CASE WorkerRenders
  BY <1>12 DEF WorkerRenders, WritesInOrder, Writes, worked
<1>13. CASE WorkerCompletes
  BY <1>13 DEF WorkerCompletes, WritesInOrder, Writes, worked
<1>14. CASE WorkerDies
  <2>1. /\ Len(pipe') >= Len(pipe) /\ \A i \in 1..Len(pipe) : pipe'[i] = pipe[i]
        /\ worker \notin {"none", "suspended"} /\ worker' = "dead"
        /\ UNCHANGED <<worked, sent, strays>>
    BY <1>14 DEF WorkerDies, Writes
  <2> QED BY <2>1 DEF worked
<1>15. CASE WorkerStrays
  BY <1>15 DEF WorkerStrays, Writes, worked
<1>16. CASE SelectionTimesOut
  BY <1>16 DEF SelectionTimesOut
<1>17. CASE HostDies
  BY <1>17 DEF HostDies, CloseJob
<1>18. CASE UNCHANGED rendering
  BY <1>18 DEF rendering
<1> QED BY <1>1, <1>2, <1>3, <1>4, <1>5, <1>6, <1>7, <1>8, <1>9, <1>10, <1>11, <1>12, <1>13, <1>14, <1>15, <1>16, <1>17, <1>18
        DEF NextRendering, Caller

LEMMA RenderingInductive == RenderingInv /\ [NextRendering]_rendering => RenderingInv'
BY ControlHolds, SetsHold, QueuesHold, StagesHold, LateHolds, FramesHold, OrderHolds DEF RenderingInv

\* A call leaves no process, thread or pipe behind, takes at most one late frame, and shows the
\* page that the worker has sent in time, whatever the order in which it dies, its output is
\* read, and the deadline passes (render_thumbnail, pipe_io.rs).
THEOREM RenderingAlwaysSound == RenderingSpec => [](RenderingTypeOK /\ RenderingSound)
<1>1. RenderingInv => RenderingTypeOK
  BY DEF RenderingInv, ControlTyped, SetsTyped, QueuesTyped, StageFacts, RenderingTypeOK
<1>2. RenderingInv => RenderingSound
  <2> SUFFICES ASSUME RenderingInv PROVE RenderingSound
    OBVIOUS
  <2>1. NothingLeft
    BY DEF RenderingInv, StageFacts, NothingLeft
  <2>2. PageIsShown
    BY DEF RenderingInv, OrderFacts, PageIsShown, PageOnItsWay, Listening
  <2>3. OneLateFrame
    BY DEF RenderingInv, LateFacts, OneLateFrame
  <2>4. OnlySentIsShown
    BY DEF RenderingInv, FrameFacts, OnlySentIsShown
  <2> QED BY <2>1, <2>2, <2>3, <2>4 DEF RenderingSound
<1> QED BY <1>1, <1>2, RenderingInitial, RenderingInductive, PTL DEF RenderingSpec
=============================================================================
