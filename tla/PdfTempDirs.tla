--------------------------- MODULE PdfTempDirs ---------------------------
(***************************************************************************)
(* The directories that PDF jobs leave in the system's temporary directory *)
(* (pdf_temp_cleanup.rs): a crash leaves those of its jobs, and the next   *)
(* start of the program removes a few that are a day old and hold nothing  *)
(* but pages.  Jobs of another process that uses the same directory go on  *)
(* meanwhile, other programs may put files of theirs anywhere, a removal   *)
(* may fail and a crash may cut the cleaning short.  A job that ends drops *)
(* its TempDir, and with it whatever is there.                             *)
(***************************************************************************)
EXTENDS Naturals, FiniteSets

CONSTANTS TempDirs,      \* names with the product's prefix
          MaxScan,       \* max_scan_entries
          MaxRemovals,   \* max_removals
          MaxPageFiles,  \* max_child_entries
          MaxIncidents   \* bound: crashes, failed removals, files of others

ASSUME TempDirsAssumption ==
  MaxScan \in Nat /\ MaxRemovals \in Nat \ {0} /\ MaxPageFiles \in Nat \ {0} /\ MaxIncidents \in Nat

VARIABLES tempDir,       \* each directory
          running,    \* the program
          unscanned,  \* entries the cleaning has still to look at
          removing,   \* directories whose page files are being removed: at most one
          removed,    \* directories removed by this start
          incidents

tempDirs == <<tempDir, running, unscanned, removing, removed, incidents>>

NeverUsed == [user |-> "none", age |-> "young", pageFiles |-> 0, foreign |-> FALSE]
Gone == [NeverUsed EXCEPT !.user = "gone"]
Present == {d \in TempDirs : tempDir[d].user \notin {"none", "gone"}}
Incident == incidents < MaxIncidents /\ incidents' = incidents + 1

InitTempDirs ==
  /\ tempDir = [d \in TempDirs |-> NeverUsed] /\ running = FALSE /\ unscanned = {} /\ removing = {}
  /\ removed = 0 /\ incidents = 0

-----------------------------------------------------------------------------
(***************************************************************************)
(* Jobs                                                                    *)
(***************************************************************************)
\* A job of the program starts after the cleaning; one of another process at any time.
\* Names are random and never used again.
JobBegins(d) ==
  /\ tempDir[d] = NeverUsed
  /\ \E u \in {"job", "other"} : /\ u = "job" => running /\ unscanned = {} /\ removing = {}
                                 /\ tempDir' = [tempDir EXCEPT ![d] = [NeverUsed EXCEPT !.user = u]]
  /\ UNCHANGED <<running, unscanned, removing, removed, incidents>>
PageWritten(d) ==
  /\ tempDir[d].user \in {"job", "other"} /\ tempDir[d].pageFiles <= MaxPageFiles
  /\ tempDir' = [tempDir EXCEPT ![d].pageFiles = @ + 1, ![d].age = "young"]
  /\ UNCHANGED <<running, unscanned, removing, removed, incidents>>
JobEnds(d) ==
  /\ tempDir[d].user \in {"job", "other"} /\ tempDir' = [tempDir EXCEPT ![d] = Gone]
  /\ UNCHANGED <<running, unscanned, removing, removed, incidents>>
\* A job ends within minutes, so only a directory that nobody uses gets a day old.
Ages(d) ==
  /\ tempDir[d].user = "orphan" /\ tempDir[d].age = "young" /\ d \notin removing
  /\ tempDir' = [tempDir EXCEPT ![d].age = "old"]
  /\ UNCHANGED <<running, unscanned, removing, removed, incidents>>
ForeignFile(d) ==
  /\ d \in Present /\ ~tempDir[d].foreign /\ Incident
  /\ tempDir' = [tempDir EXCEPT ![d].foreign = TRUE, ![d].age = "young"]
  /\ UNCHANGED <<running, unscanned, removing, removed>>

-----------------------------------------------------------------------------
(***************************************************************************)
(* The program                                                             *)
(***************************************************************************)
Leaves(users) == tempDir' = [d \in TempDirs |-> IF tempDir[d].user \in users
                                             THEN [tempDir[d] EXCEPT !.user = "orphan"] ELSE tempDir[d]]
Halts == running /\ running' = FALSE /\ unscanned' = {} /\ removing' = {} /\ removed' = 0
\* A crash of the program, or of the other process as well
Crash == /\ Halts /\ Incident /\ (Leaves({"job"}) \/ Leaves({"job", "other"}))
Exit == /\ Halts /\ unscanned = {} /\ removing = {} /\ \A d \in TempDirs : tempDir[d].user # "job"
        /\ UNCHANGED <<tempDir, incidents>>
\* setup: the cleaning sees the first entries of the directory, in an order that is the system's
Start ==
  /\ ~running /\ running' = TRUE
  /\ unscanned' \in {s \in SUBSET Present :
                       Cardinality(s) = MaxScan \/ (s = Present /\ Cardinality(s) < MaxScan)}
  /\ UNCHANGED <<tempDir, removing, removed, incidents>>
\* safe_orphan_page_files
SafeOrphan(d) == tempDir[d].age = "old" /\ ~tempDir[d].foreign /\ tempDir[d].pageFiles <= MaxPageFiles
\* (mutant) A directory that is not safe ends the cleaning.
StopAt(d) == {}
LeftAfter(d) == unscanned \ {d}
Enough == removed >= MaxRemovals
Scan(d) ==
  /\ d \in unscanned /\ removing = {}
  /\ unscanned' = IF Enough THEN {}
                  ELSE IF d \in Present /\ SafeOrphan(d) THEN unscanned \ {d} ELSE LeftAfter(d)
  /\ removing' = IF ~Enough /\ d \in Present /\ SafeOrphan(d) THEN {d} ELSE {}
  /\ UNCHANGED <<tempDir, running, removed, incidents>>
RemovePage(d) ==
  /\ d \in removing /\ tempDir[d].pageFiles > 0
  /\ tempDir' = [tempDir EXCEPT ![d].pageFiles = @ - 1, ![d].age = "young"]
  /\ UNCHANGED <<running, unscanned, removing, removed, incidents>>
IsEmpty(d) == ~tempDir[d].foreign
\* fs::remove_dir fails when there is still something in it.
RemoveDir(d) ==
  /\ d \in removing /\ tempDir[d].pageFiles = 0 /\ removing' = {}
  /\ IF IsEmpty(d) THEN tempDir' = [tempDir EXCEPT ![d] = Gone] /\ removed' = removed + 1
                   ELSE UNCHANGED <<tempDir, removed>>
  /\ UNCHANGED <<running, unscanned, incidents>>
RemovalFails(d) ==
  /\ d \in removing /\ Incident /\ removing' = {}
  /\ UNCHANGED <<tempDir, running, unscanned, removed>>

Cleaning == \E d \in TempDirs : Scan(d) \/ RemovePage(d) \/ RemoveDir(d)
NextTempDirs ==
  \/ Crash \/ Exit \/ Start \/ Cleaning
  \/ \E d \in TempDirs : \/ JobBegins(d) \/ PageWritten(d) \/ JobEnds(d) \/ Ages(d)
                         \/ ForeignFile(d) \/ RemovalFails(d)
\* The program is started again and again, jobs end and time passes.
TempDirsSpec ==
  /\ InitTempDirs /\ [][NextTempDirs]_tempDirs
  /\ WF_tempDirs(Start) /\ WF_tempDirs(Exit) /\ WF_tempDirs(Cleaning)
  /\ \A d \in TempDirs : WF_tempDirs(Ages(d)) /\ WF_tempDirs(JobEnds(d))

-----------------------------------------------------------------------------
TempDirsTypeOK ==
  /\ tempDir \in [TempDirs -> [user : {"none", "gone", "job", "other", "orphan"}, age : {"young", "old"},
                            pageFiles : 0..MaxPageFiles + 1, foreign : BOOLEAN]]
  /\ running \in BOOLEAN /\ unscanned \subseteq TempDirs /\ removing \subseteq TempDirs
  /\ Cardinality(removing) <= 1 /\ removed \in 0..MaxRemovals /\ incidents \in 0..MaxIncidents
  /\ ~running => unscanned = {} /\ removing = {}

\* The cleaning never touches the directory of a job that is going on, of this or of another
\* process.
JobsKeepTheirs == \A d \in removing : tempDir[d].user = "orphan"

\* The cleaning never removes a file that is not a page of the product, even if it appears
\* while its directory is being emptied.
ForeignStays ==
  [][\A d \in TempDirs :
       tempDir[d].foreign /\ tempDir[d].user = "orphan" => d \in Present']_tempDirs

\* What a crash left is removed by one of the next starts, however few each of them removes and
\* whatever else lies beside it (where the entries are not more than a cleaning looks at).
OrphansGo ==
  \A d \in TempDirs :
    (tempDir[d].user = "orphan" /\ tempDir[d].pageFiles <= MaxPageFiles)
      ~> (d \notin Present \/ tempDir[d].foreign)
=============================================================================
