------------------------- MODULE RegistrationProofs -------------------------
(***************************************************************************)
(* What is proved of the Windows handler.  Of its registration: whatever   *)
(* fails, is cut short or is set by another program in between, an         *)
(* extension that is this handler's has a whole snapshot, and the class    *)
(* outlives its associations.  The invariant says, for the registry call   *)
(* that comes next, what the calls before it have established:             *)
(* SnapshotTaken while extensions are saved and associated, Restored while *)
(* they are given back.                                                    *)
(*                                                                         *)
(* Of its COM server: the counts are true at every interleaving.  A count  *)
(* of references is the cardinality of a set of tokens, one for each       *)
(* reference a thread holds and one for each call that still has one; a    *)
(* step adds, removes or exchanges one token.                              *)
(***************************************************************************)
EXTENDS Registration, ThumbnailServer, FiniteSetTheorems, TLAPS

WritePlaces == {"state-", "data", "kind", "state+"}
ClearPlaces == {"unstate", "unkind", "undata", "unkey"}
Leaving == {"root"} \cup ClassPlaces

\* What this handler has not touched is as its owner left it.
Untouched == \A e \in Extensions : assoc[e] # Ours /\ e \notin raced => assoc[e] = original[e]

PlacesAgree ==
  /\ mode = "idle" <=> at = "none"
  /\ mode = "install" <=> at \in InstallPlaces
  /\ last # "none" => mode = "idle"
  /\ mode = "idle" => ~failed
  /\ at \in {"none", "path", "server", "model"} \cup Leaving => ext = 1

\* The extension whose snapshot is being written.
Writing ==
  /\ at \in WritePlaces =>
       assoc[ext] # Ours /\ saw \in Theirs /\ (ext \notin raced => saw = original[ext])
  /\ at \in {"data", "kind", "state+"} => backup[ext].state = "none"
  /\ at \in {"kind", "state+"} => backup[ext].data = saw
  /\ at = "state+" => backup[ext].kind = saw

\* The extensions whose snapshots this install has taken or found.
Taken(e) == backup[e].state # "none" /\ (e \notin raced => Saved(e) = original[e])
SnapshotTaken ==
  \A e \in Extensions :
    (\/ at \in {"server", "model"} \/ (at = "associate" /\ e >= ext)
     \/ (at \in {"look"} \cup WritePlaces /\ e < ext)) => Taken(e)

\* The extension that is given back, and those that have been.
GivingBack ==
  /\ at = "giveback" => backup[ext].state # "none" /\ (assoc[ext] = Ours \/ ext \in raced)
  /\ at \in ClearPlaces => assoc[ext] # Ours
  /\ at \in {"unkind", "undata", "unkey"} => backup[ext].state = "none"
Restored ==
  \A e \in Extensions :
    ~failed /\ (at \in Leaving \/ (at \in RestorePlaces /\ e < ext)) =>
      assoc[e] # Ours /\ backup[e].state = "none"

\* The class is whole before it is associated, and taken apart in order.
ClassParts ==
  /\ at = "model" => {"key", "inproc", "server"} \subseteq class
  /\ at = "associate" => class = Whole
  /\ at \in {"unmodel", "uninproc", "unclass"} => "server" \notin class
  /\ at \in {"uninproc", "unclass"} => "model" \notin class
  /\ at = "unclass" => "inproc" \notin class

KeyLeft == \E e \in Extensions : backup[e].key /\ backup[e].state = "none"
\* Why an uninstall has failed, and what one that has not has left.
Failing ==
  /\ failed => faulted \/ (at \in ClassPlaces /\ KeyLeft)
  /\ last = "error" => faulted \/ KeyLeft
  /\ at \in ClassPlaces /\ ~failed => \A e \in Extensions : ~backup[e].key

RegistrationInv ==
  /\ RegistrationTypeOK
  /\ SnapshotWhole /\ SnapshotKept /\ Untouched
  /\ PlacesAgree /\ Writing /\ SnapshotTaken
  /\ GivingBack /\ Restored
  /\ ClassParts /\ Failing /\ RemovedMeansClean

LEMMA SavedIs ==
  ASSUME RegistrationTypeOK, SnapshotWhole, NEW e \in Extensions, backup[e].state # "none"
  PROVE  /\ Saved(e) \in Theirs /\ ~Torn(e)
         /\ Saved(e) = IF backup[e].state = "absent" THEN Missing ELSE backup[e].data
BY DEF RegistrationTypeOK, SnapshotWhole, SnapshotType, Saved, Torn, Theirs

LEMMA OursIsNotTheirs == Ours \notin Theirs /\ Missing \in Theirs
BY RegistrationAssumption DEF Theirs

LEMMA RegistrationInitial == InitRegistration => RegistrationInv
<1> SUFFICES ASSUME InitRegistration PROVE RegistrationInv
  OBVIOUS
<1>1. NoSnapshot \in SnapshotType /\ NoSnapshot.state = "none" /\ NoSnapshot.key = FALSE
  BY OursIsNotTheirs DEF NoSnapshot, SnapshotType
<1>2. backup \in [Extensions -> SnapshotType]
      /\ \A e \in Extensions : backup[e].state = "none" /\ ~backup[e].key
  BY <1>1 DEF InitRegistration
<1>3. RegistrationTypeOK
  <2>1. 1 \in Extensions /\ 0 \in 0..MaxEdits /\ 0 \in 0..MaxFaults
    BY RegistrationAssumption DEF Extensions
  <2>2. assoc \in [Extensions -> Theirs \cup {Ours}]
    BY DEF InitRegistration
  <2> QED BY <1>2, <2>1, <2>2, OursIsNotTheirs DEF InitRegistration, RegistrationTypeOK
<1>4. \A e \in Extensions : assoc[e] # Ours
  BY OursIsNotTheirs DEF InitRegistration
<1> QED
  BY <1>2, <1>3, <1>4 DEF InitRegistration, RegistrationInv, SnapshotWhole, SnapshotKept, Untouched, PlacesAgree,
     Writing, SnapshotTaken, GivingBack, Restored, ClassParts, Failing, RemovedMeansClean,
     InstallPlaces, RestorePlaces, ClassPlaces, WritePlaces, ClearPlaces, Leaving

\* What a snapshot holds depends on that snapshot alone.
LEMMA SavedSame ==
  ASSUME NEW e, backup'[e] = backup[e]
  PROVE  Saved(e)' = Saved(e) /\ Torn(e)' = Torn(e)
BY DEF Saved, Torn

LEMMA ExtensionsAre ==
  /\ 1 \in Extensions /\ \A e \in Extensions : e \in Nat /\ 1 <= e /\ e <= ExtensionCount
  /\ \A e \in Extensions : e < ExtensionCount => e + 1 \in Extensions
BY RegistrationAssumption DEF Extensions

\* A snapshot after each write, as a member of its type.
LEMMA SnapshotMembers ==
  ASSUME NEW s \in SnapshotType, NEW v \in Theirs, NEW b \in BOOLEAN
  PROVE  /\ NoSnapshot \in SnapshotType
         /\ \A t \in {"none", "absent", "present"} : /\ [s EXCEPT !.state = t] \in SnapshotType
                                                    /\ [s EXCEPT !.key = b, !.state = t] \in SnapshotType
         /\ [s EXCEPT !.data = v, !.key = b] \in SnapshotType
         /\ [s EXCEPT !.data = v] \in SnapshotType
         /\ [s EXCEPT !.kind = v] \in SnapshotType
         /\ [s EXCEPT !.key = b] \in SnapshotType
BY OursIsNotTheirs DEF SnapshotType, NoSnapshot

\* Only the snapshot of ext has changed, to s.
OneSnapshot(s) == s \in SnapshotType /\ backup' = [backup EXCEPT ![ext] = s]

LEMMA OneSnapshotIs ==
  ASSUME RegistrationTypeOK, NEW s, OneSnapshot(s)
  PROVE  /\ backup' \in [Extensions -> SnapshotType] /\ backup'[ext] = s
         /\ \A e \in Extensions : e # ext => backup'[e] = backup[e] /\ Saved(e)' = Saved(e)
BY SavedSame DEF RegistrationTypeOK, OneSnapshot

\* The snapshot being written or cleared belongs to an extension that is not ours.
LEMMA OneSnapshotKeeps ==
  ASSUME RegistrationInv, NEW s, OneSnapshot(s), assoc[ext] # Ours,
         s.state = "present" => s.key /\ s.kind = s.data /\ s.data # Missing,
         UNCHANGED <<assoc, original, raced>>
  PROVE  SnapshotWhole' /\ SnapshotKept' /\ Untouched'
<1> USE DEF RegistrationInv
<1>1. SnapshotWhole'
  BY OneSnapshotIs DEF SnapshotWhole
<1>2. \A e \in Extensions : e # ext => Torn(e)' = Torn(e)
  BY OneSnapshotIs, SavedSame
<1>3. SnapshotKept'
  BY <1>2, OneSnapshotIs DEF SnapshotKept
<1> QED BY <1>1, <1>3 DEF Untouched

(***************************************************************************)
(* An uninstall goes on to its next part, and an install rolls back.       *)
(***************************************************************************)
PartDone(error) ==
  \/ /\ at \in RestorePlaces /\ ext < ExtensionCount /\ ext' = ext + 1 /\ at' = "restore"
     /\ failed' = (failed \/ error) /\ UNCHANGED <<mode, last>>
  \/ /\ at \in RestorePlaces /\ ext = ExtensionCount /\ ext' = 1 /\ at' = "root"
     /\ failed' = (failed \/ error) /\ UNCHANGED <<mode, last>>
  \/ /\ at = "root" /\ at' = "unserver"
     /\ failed' = (failed \/ error) /\ UNCHANGED <<mode, ext, last>>
  \/ /\ at \in ClassPlaces /\ mode' = "idle" /\ at' = "none" /\ ext' = 1 /\ failed' = FALSE
     /\ last' \in {"refused", "error", "removed"}
     /\ last' = "removed" => ~failed /\ ~error
     /\ last' = "error" => failed \/ error

LEMMA NextPartGoes ==
  ASSUME RegistrationInv, at \in RestorePlaces \cup Leaving, NEW error \in BOOLEAN, NextPart(error)
  PROVE  PartDone(error)
<1> USE DEF RegistrationInv, RegistrationTypeOK, NextPart, PartDone
<1>1. CASE at \in RestorePlaces
  BY <1>1, ExtensionsAre, RegistrationAssumption DEF RestorePlaces
<1>2. CASE at = "root"
  BY <1>2 DEF RestorePlaces
<1>3. CASE at \in ClassPlaces
  <2>1. /\ at \notin RestorePlaces /\ at # "root" /\ mode \in {"rollback", "uninstall"}
    BY <1>3 DEF RestorePlaces, ClassPlaces, PlacesAgree, InstallPlaces
  <2>2. mode \in {"rollback", "uninstall"} /\ Ends(CASE mode = "rollback" -> "refused"
              [] mode = "uninstall" /\ (failed \/ error) -> "error"
              [] OTHER -> "removed")
    BY <2>1
  <2>3. /\ mode' = "idle" /\ at' = "none" /\ ext' = 1 /\ failed' = FALSE
        /\ last' = (CASE mode = "rollback" -> "refused"
              [] mode = "uninstall" /\ (failed \/ error) -> "error"
              [] OTHER -> "removed")
    BY <2>2 DEF Ends
  <2>4. CASE mode = "rollback"
    BY <1>3, <2>3, <2>4
  <2>5. CASE mode = "uninstall" /\ (failed \/ error)
    BY <1>3, <2>3, <2>5
  <2>6. CASE mode = "uninstall" /\ ~(failed \/ error)
    BY <1>3, <2>3, <2>6
  <2> QED BY <2>1, <2>4, <2>5, <2>6
<1> QED BY <1>1, <1>2, <1>3 DEF Leaving

\* A part that is done, or skipped because a call of it failed.
LEMMA PartDoneKeeps ==
  ASSUME RegistrationInv, NEW error \in BOOLEAN, PartDone(error),
         at \in RestorePlaces /\ ~failed /\ ~error => assoc[ext] # Ours /\ backup'[ext].state = "none",
         backup' = backup \/ (at = "unkey" /\ OneSnapshot(NoSnapshot)),
         class' = class \/ (at = "unclass" /\ class' = class \ {"key"}),
         at \in ClassPlaces /\ ~error => class' = {},
         error => faulted' \/ (at = "root" /\ \E e \in Extensions : backup[e].key),
         at = "root" /\ ~error => \A e \in Extensions : ~backup[e].key,
         faulted' \in BOOLEAN, faulted => faulted', saw' \in Theirs \cup {Ours},
         changes' \in 0..MaxEdits, faults' \in 0..MaxFaults,
         UNCHANGED <<assoc, original, raced>>
  PROVE  RegistrationInv'
<1> USE OursIsNotTheirs, ExtensionsAre DEF RegistrationInv, RestorePlaces, ClassPlaces, Leaving
<1>a. /\ mode \in {"rollback", "uninstall"} /\ at \in RestorePlaces \cup Leaving
      /\ at' \in {"restore", "root", "unserver", "none"} /\ ext' \in Extensions /\ failed' \in BOOLEAN
      /\ (mode' = "idle" /\ at' = "none" /\ ~failed') \/ (mode' = mode /\ at' # "none" /\ last' = last)
      /\ at' # "restore" => ext' = 1
  BY DEF PartDone, RegistrationTypeOK, PlacesAgree, InstallPlaces
<1>b. /\ NoSnapshot \in SnapshotType /\ NoSnapshot.state = "none" /\ NoSnapshot.key = FALSE
  BY DEF NoSnapshot, SnapshotType
<1>c. /\ backup' \in [Extensions -> SnapshotType]
      /\ \A e \in Extensions : backup'[e] = backup[e] \/ (at = "unkey" /\ e = ext /\ backup'[e] = NoSnapshot)
  BY OneSnapshotIs DEF RegistrationTypeOK
<1>1. RegistrationTypeOK'
  BY <1>a, <1>c DEF RegistrationTypeOK, PartDone, Whole, InstallPlaces
<1>2. SnapshotWhole' /\ SnapshotKept' /\ Untouched'
  <2>1. CASE backup' = backup
    BY <2>1, SavedSame DEF SnapshotWhole, SnapshotKept, Untouched
  <2>2. CASE at = "unkey" /\ OneSnapshot(NoSnapshot)
    BY <1>b, <2>2, OneSnapshotKeeps DEF GivingBack, ClearPlaces
  <2> QED BY <2>1, <2>2
<1>3. PlacesAgree'
  BY <1>a DEF PlacesAgree, InstallPlaces
<1>4. Writing' /\ SnapshotTaken' /\ GivingBack'
  BY <1>a DEF Writing, SnapshotTaken, GivingBack, WritePlaces, ClearPlaces
<1>5. Restored'
  BY <1>b, <1>c DEF Restored, PartDone, RegistrationTypeOK
<1>6. ClassParts'
  BY <1>a DEF ClassParts
<1>7. Failing'
  <2>1. at' = "unserver" => at = "root" /\ backup' = backup /\ failed' = (failed \/ error)
    BY DEF PartDone
  <2>2. failed' => faulted' \/ (at' \in ClassPlaces /\ KeyLeft')
    <3>1. CASE at \in RestorePlaces
      BY <3>1 DEF PartDone, Failing
    <3>2. CASE at = "root"
      <4>1. at' = "unserver" /\ backup' = backup /\ failed' = (failed \/ error) /\ (failed => faulted)
        BY <3>2 DEF PartDone, Failing
      <4>2. CASE ~failed /\ error /\ ~faulted'
        <5>1. PICK e \in Extensions : backup[e].key
          BY <4>2
        <5>2. backup[e].state = "none"
          BY <3>2, <4>2 DEF Restored
        <5> QED BY <4>1, <5>1, <5>2 DEF KeyLeft
      <4> QED BY <4>1, <4>2 DEF RegistrationTypeOK
    <3>3. CASE at \in ClassPlaces
      BY <3>3 DEF PartDone
    <3> QED BY <1>a, <3>1, <3>2, <3>3
  <2>3. last' = "error" => faulted' \/ KeyLeft'
    <3>1. CASE at \in ClassPlaces
      BY <3>1 DEF PartDone, Failing, KeyLeft
    <3>2. CASE at \notin ClassPlaces
      BY <1>a, <3>2 DEF PartDone, PlacesAgree
    <3> QED BY <3>1, <3>2
  <2>4. at' \in ClassPlaces /\ ~failed' => \A e \in Extensions : ~backup'[e].key
    BY <1>a, <2>1
  <2> QED BY <2>2, <2>3, <2>4 DEF Failing
<1>8. RemovedMeansClean'
  <2>1. CASE mode' = "idle" /\ last' = "removed"
    <3>1. at \in ClassPlaces /\ ~failed /\ ~error /\ backup' = backup
      BY <1>a, <2>1 DEF PartDone, PlacesAgree
    <3>2. class' = {} /\ \A e \in Extensions : assoc[e] # Ours /\ ~backup[e].key
      BY <3>1 DEF Restored, Failing
    <3> QED BY <3>1, <3>2 DEF RemovedMeansClean, Untouched
  <2> QED BY <2>1 DEF RemovedMeansClean
<1> QED BY <1>1, <1>2, <1>3, <1>4, <1>5, <1>6, <1>7, <1>8

\* An install that fails, whose failed write may have created its key.
LEMMA RollsBackKeeps ==
  ASSUME RegistrationInv, mode = "install", mode' = "rollback", at' = "restore", ext' = 1,
         failed' = FALSE, class' \in SUBSET Whole,
         backup' = backup \/ (at \in {"data", "state+"} /\ OneSnapshot([backup[ext] EXCEPT !.key = TRUE])),
         faulted' \in BOOLEAN, saw' \in Theirs \cup {Ours},
         changes' \in 0..MaxEdits, faults' \in 0..MaxFaults,
         UNCHANGED <<last, assoc, original, raced>>
  PROVE  RegistrationInv'
<1> USE OursIsNotTheirs, ExtensionsAre
    DEF RegistrationInv, RestorePlaces, ClassPlaces, Leaving, InstallPlaces, WritePlaces, ClearPlaces
<1>a. ~failed' /\ last = "none" /\ at \in InstallPlaces
  BY DEF PlacesAgree
<1>b. backup' \in [Extensions -> SnapshotType]
  BY OneSnapshotIs DEF RegistrationTypeOK
<1>1. RegistrationTypeOK'
  BY <1>b DEF RegistrationTypeOK
<1>2. SnapshotWhole' /\ SnapshotKept' /\ Untouched'
  <2>1. CASE backup' = backup
    BY <2>1, SavedSame DEF SnapshotWhole, SnapshotKept, Untouched
  <2>2. CASE at \in {"data", "state+"} /\ OneSnapshot([backup[ext] EXCEPT !.key = TRUE])
    <3> DEFINE s == [backup[ext] EXCEPT !.key = TRUE]
    <3>1. backup[ext] \in SnapshotType /\ backup[ext].state = "none" /\ assoc[ext] # Ours
      BY <2>2 DEF RegistrationTypeOK, Writing
    <3>2. s.state = "none"
      BY <3>1 DEF SnapshotType
    <3>3. OneSnapshot(s)
      BY <2>2
    <3> HIDE DEF s
    <3> QED BY <3>1, <3>2, <3>3, OneSnapshotKeeps
  <2> QED BY <2>1, <2>2
<1>3. PlacesAgree' /\ Writing' /\ SnapshotTaken' /\ GivingBack' /\ ClassParts'
  BY <1>a DEF PlacesAgree, Writing, SnapshotTaken, GivingBack, ClassParts
<1>4. Restored'
  BY DEF Restored
<1>5. Failing' /\ RemovedMeansClean'
  BY <1>a DEF Failing, RemovedMeansClean
<1> QED BY <1>1, <1>2, <1>3, <1>4, <1>5

LEMMA StartInstallKeeps == ASSUME RegistrationInv, StartInstall PROVE RegistrationInv'
<1> USE DEF RegistrationInv
<1>a. /\ mode = "idle" /\ at = "none" /\ mode' = "install" /\ at' = "path" /\ ext' = 1
      /\ failed' = FALSE /\ last' = "none" /\ faulted' = FALSE /\ UNCHANGED <<assoc, backup, class, saw, original, raced, changes, faults>>
  BY DEF StartInstall, place, PlacesAgree, InstallPlaces, RestorePlaces, ClassPlaces, WritePlaces, ClearPlaces, Leaving
<1> USE <1>a, OursIsNotTheirs, ExtensionsAre, SavedSame DEF InstallPlaces, RestorePlaces, ClassPlaces, WritePlaces, ClearPlaces, Leaving
<1>1. RegistrationTypeOK'
  BY DEF RegistrationTypeOK, Whole
<1>2. SnapshotWhole' /\ SnapshotKept' /\ Untouched'
  BY DEF SnapshotWhole, SnapshotKept, Untouched
<1>3. PlacesAgree'
  BY DEF PlacesAgree
<1>4. Writing'
  BY DEF Writing
<1>5. SnapshotTaken'
  BY DEF SnapshotTaken, Taken
<1>6. GivingBack'
  BY DEF GivingBack
<1>7. Restored'
  BY DEF Restored
<1>8. ClassParts'
  BY DEF ClassParts, Whole
<1>9. Failing'
  BY DEF Failing, KeyLeft
<1>10. RemovedMeansClean'
  BY DEF RemovedMeansClean
<1> QED BY <1>1, <1>2, <1>3, <1>4, <1>5, <1>6, <1>7, <1>8, <1>9, <1>10

LEMMA FindHandlerKeeps == ASSUME RegistrationInv, FindHandler PROVE RegistrationInv'
<1> USE DEF RegistrationInv
<1>a. /\ at = "path" /\ at' = "look" /\ mode = "install" /\ ext = 1 /\ UNCHANGED <<mode, ext, failed, last>>
      /\ UNCHANGED <<assoc, backup, class, saw, original, raced, changes, faults, faulted>>
  BY DEF FindHandler, Proceed, place, PlacesAgree, InstallPlaces, RestorePlaces, ClassPlaces, WritePlaces, ClearPlaces, Leaving
<1> USE <1>a, OursIsNotTheirs, ExtensionsAre, SavedSame DEF InstallPlaces, RestorePlaces, ClassPlaces, WritePlaces, ClearPlaces, Leaving
<1>1. RegistrationTypeOK'
  BY DEF RegistrationTypeOK, Whole
<1>2. SnapshotWhole' /\ SnapshotKept' /\ Untouched'
  BY DEF SnapshotWhole, SnapshotKept, Untouched
<1>3. PlacesAgree'
  BY DEF PlacesAgree
<1>4. Writing'
  BY DEF Writing
<1>5. SnapshotTaken'
  BY DEF SnapshotTaken, Taken
<1>6. GivingBack'
  BY DEF GivingBack
<1>7. Restored'
  BY DEF Restored
<1>8. ClassParts'
  BY DEF ClassParts, Whole
<1>9. Failing'
  BY DEF Failing, KeyLeft
<1>10. RemovedMeansClean'
  BY DEF RemovedMeansClean
<1> QED BY <1>1, <1>2, <1>3, <1>4, <1>5, <1>6, <1>7, <1>8, <1>9, <1>10

LEMMA InvalidateSnapshotKeeps == ASSUME RegistrationInv, InvalidateSnapshot PROVE RegistrationInv'
<1> USE DEF RegistrationInv
<1>a. /\ at = "state-" /\ at' = "data" /\ mode = "install" /\ UNCHANGED <<mode, ext, failed, last>>
      /\ UNCHANGED <<assoc, class, saw, original, raced, changes, faults, faulted>>
  BY DEF InvalidateSnapshot, Proceed, place, PlacesAgree, RegistrationTypeOK, InstallPlaces, RestorePlaces, ClassPlaces, WritePlaces, ClearPlaces, Leaving
<1>b. PICK s \in SnapshotType : OneSnapshot(s) /\ s.state = "none" /\ s.key = backup[ext].key
  <2> DEFINE s == [backup[ext] EXCEPT !.state = "none"]
  <2>1. backup[ext] \in SnapshotType
    BY <1>a DEF RegistrationTypeOK, Writing, WritePlaces
  <2>2. s \in SnapshotType
    BY <2>1, SnapshotMembers, OursIsNotTheirs DEF SnapshotType
  <2>3. backup' = [backup EXCEPT ![ext] = s]
    BY DEF InvalidateSnapshot
  <2>4. s.state = "none" /\ s.key = backup[ext].key
    BY <2>1 DEF SnapshotType
  <2> QED BY <2>2, <2>3, <2>4 DEF OneSnapshot
<1> USE <1>a, <1>b, OursIsNotTheirs, ExtensionsAre, SavedSame DEF InstallPlaces, RestorePlaces, ClassPlaces, WritePlaces, ClearPlaces, Leaving
<1>1. RegistrationTypeOK'
  BY OneSnapshotIs DEF RegistrationTypeOK, Whole
<1>2. SnapshotWhole' /\ SnapshotKept' /\ Untouched'
  BY OneSnapshotKeeps DEF Writing, GivingBack
<1>3. PlacesAgree'
  BY DEF PlacesAgree
<1>4. Writing'
  BY OneSnapshotIs DEF RegistrationTypeOK, Writing
<1>5. SnapshotTaken'
  BY OneSnapshotIs DEF RegistrationTypeOK, SnapshotTaken, Taken
<1>6. GivingBack'
  BY OneSnapshotIs DEF RegistrationTypeOK, GivingBack
<1>7. Restored'
  BY OneSnapshotIs DEF RegistrationTypeOK, Restored
<1>8. ClassParts'
  BY DEF ClassParts, Whole
<1>9. Failing'
  BY OneSnapshotIs DEF RegistrationTypeOK, Failing, KeyLeft, PlacesAgree
<1>10. RemovedMeansClean'
  BY OneSnapshotIs DEF RegistrationTypeOK, RemovedMeansClean
<1> QED BY <1>1, <1>2, <1>3, <1>4, <1>5, <1>6, <1>7, <1>8, <1>9, <1>10

LEMMA WriteDataKeeps == ASSUME RegistrationInv, WriteData PROVE RegistrationInv'
<1> USE DEF RegistrationInv
<1>a. /\ at = "data" /\ at' = "kind" /\ mode = "install" /\ UNCHANGED <<mode, ext, failed, last>>
      /\ UNCHANGED <<assoc, class, saw, original, raced, changes, faults, faulted>>
  BY DEF WriteData, Proceed, place, PlacesAgree, RegistrationTypeOK, InstallPlaces, RestorePlaces, ClassPlaces, WritePlaces, ClearPlaces, Leaving
<1>b. PICK s \in SnapshotType : OneSnapshot(s) /\ s.state = backup[ext].state /\ s.data = saw
  <2> DEFINE s == [backup[ext] EXCEPT !.data = saw, !.key = backup[ext].key \/ saw # Missing]
  <2>1. backup[ext] \in SnapshotType /\ saw \in Theirs
    BY <1>a DEF RegistrationTypeOK, Writing, WritePlaces
  <2>2. s \in SnapshotType
    BY <2>1, SnapshotMembers, OursIsNotTheirs DEF SnapshotType
  <2>3. backup' = [backup EXCEPT ![ext] = s]
    BY DEF WriteData
  <2>4. s.state = backup[ext].state /\ s.data = saw
    BY <2>1 DEF SnapshotType
  <2> QED BY <2>2, <2>3, <2>4 DEF OneSnapshot
<1> USE <1>a, <1>b, OursIsNotTheirs, ExtensionsAre, SavedSame DEF InstallPlaces, RestorePlaces, ClassPlaces, WritePlaces, ClearPlaces, Leaving
<1>1. RegistrationTypeOK'
  BY OneSnapshotIs DEF RegistrationTypeOK, Whole
<1>2. SnapshotWhole' /\ SnapshotKept' /\ Untouched'
  BY OneSnapshotKeeps DEF Writing, GivingBack
<1>3. PlacesAgree'
  BY DEF PlacesAgree
<1>4. Writing'
  BY OneSnapshotIs DEF RegistrationTypeOK, Writing
<1>5. SnapshotTaken'
  BY OneSnapshotIs DEF RegistrationTypeOK, SnapshotTaken, Taken
<1>6. GivingBack'
  BY OneSnapshotIs DEF RegistrationTypeOK, GivingBack
<1>7. Restored'
  BY OneSnapshotIs DEF RegistrationTypeOK, Restored
<1>8. ClassParts'
  BY DEF ClassParts, Whole
<1>9. Failing'
  BY OneSnapshotIs DEF RegistrationTypeOK, Failing, KeyLeft, PlacesAgree
<1>10. RemovedMeansClean'
  BY OneSnapshotIs DEF RegistrationTypeOK, RemovedMeansClean
<1> QED BY <1>1, <1>2, <1>3, <1>4, <1>5, <1>6, <1>7, <1>8, <1>9, <1>10

LEMMA WriteKindKeeps == ASSUME RegistrationInv, WriteKind PROVE RegistrationInv'
<1> USE DEF RegistrationInv
<1>a. /\ at = "kind" /\ at' = "state+" /\ mode = "install" /\ UNCHANGED <<mode, ext, failed, last>>
      /\ UNCHANGED <<assoc, class, saw, original, raced, changes, faults, faulted>>
  BY DEF WriteKind, Proceed, place, PlacesAgree, RegistrationTypeOK, InstallPlaces, RestorePlaces, ClassPlaces, WritePlaces, ClearPlaces, Leaving
<1>b. PICK s \in SnapshotType : OneSnapshot(s) /\ s.state = backup[ext].state /\ s.data = backup[ext].data /\ s.kind = saw
  <2> DEFINE s == [backup[ext] EXCEPT !.kind = saw]
  <2>1. backup[ext] \in SnapshotType /\ saw \in Theirs
    BY <1>a DEF RegistrationTypeOK, Writing, WritePlaces
  <2>2. s \in SnapshotType
    BY <2>1, SnapshotMembers, OursIsNotTheirs DEF SnapshotType
  <2>3. backup' = [backup EXCEPT ![ext] = s]
    BY DEF WriteKind
  <2>4. s.state = backup[ext].state /\ s.data = backup[ext].data /\ s.kind = saw
    BY <2>1 DEF SnapshotType
  <2> QED BY <2>2, <2>3, <2>4 DEF OneSnapshot
<1> USE <1>a, <1>b, OursIsNotTheirs, ExtensionsAre, SavedSame DEF InstallPlaces, RestorePlaces, ClassPlaces, WritePlaces, ClearPlaces, Leaving
<1>1. RegistrationTypeOK'
  BY OneSnapshotIs DEF RegistrationTypeOK, Whole
<1>2. SnapshotWhole' /\ SnapshotKept' /\ Untouched'
  BY OneSnapshotKeeps DEF Writing, GivingBack
<1>3. PlacesAgree'
  BY DEF PlacesAgree
<1>4. Writing'
  BY OneSnapshotIs DEF RegistrationTypeOK, Writing
<1>5. SnapshotTaken'
  BY OneSnapshotIs DEF RegistrationTypeOK, SnapshotTaken, Taken
<1>6. GivingBack'
  BY OneSnapshotIs DEF RegistrationTypeOK, GivingBack
<1>7. Restored'
  BY OneSnapshotIs DEF RegistrationTypeOK, Restored
<1>8. ClassParts'
  BY DEF ClassParts, Whole
<1>9. Failing'
  BY OneSnapshotIs DEF RegistrationTypeOK, Failing, KeyLeft, PlacesAgree
<1>10. RemovedMeansClean'
  BY OneSnapshotIs DEF RegistrationTypeOK, RemovedMeansClean
<1> QED BY <1>1, <1>2, <1>3, <1>4, <1>5, <1>6, <1>7, <1>8, <1>9, <1>10

LEMMA ClearStateKeeps == ASSUME RegistrationInv, ClearState PROVE RegistrationInv'
<1> USE DEF RegistrationInv
<1>a. /\ at = "unstate" /\ at' = "unkind" /\ mode \in {"rollback", "uninstall"} /\ UNCHANGED <<mode, ext, failed, last>>
      /\ UNCHANGED <<assoc, class, saw, original, raced, changes, faults, faulted>>
  BY DEF ClearState, Proceed, place, PlacesAgree, RegistrationTypeOK, InstallPlaces, RestorePlaces, ClassPlaces, WritePlaces, ClearPlaces, Leaving
<1>b. PICK s \in SnapshotType : OneSnapshot(s) /\ s.state = "none"
  <2> DEFINE s == [backup[ext] EXCEPT !.state = "none"]
  <2>1. backup[ext] \in SnapshotType
    BY <1>a DEF RegistrationTypeOK, Writing, WritePlaces
  <2>2. s \in SnapshotType
    BY <2>1, SnapshotMembers, OursIsNotTheirs DEF SnapshotType
  <2>3. backup' = [backup EXCEPT ![ext] = s]
    BY DEF ClearState
  <2>4. s.state = "none"
    BY <2>1 DEF SnapshotType
  <2> QED BY <2>2, <2>3, <2>4 DEF OneSnapshot
<1> USE <1>a, <1>b, OursIsNotTheirs, ExtensionsAre, SavedSame DEF InstallPlaces, RestorePlaces, ClassPlaces, WritePlaces, ClearPlaces, Leaving
<1>1. RegistrationTypeOK'
  BY OneSnapshotIs DEF RegistrationTypeOK, Whole
<1>2. SnapshotWhole' /\ SnapshotKept' /\ Untouched'
  BY OneSnapshotKeeps DEF Writing, GivingBack
<1>3. PlacesAgree'
  BY DEF PlacesAgree
<1>4. Writing'
  BY OneSnapshotIs DEF RegistrationTypeOK, Writing
<1>5. SnapshotTaken'
  BY OneSnapshotIs DEF RegistrationTypeOK, SnapshotTaken, Taken
<1>6. GivingBack'
  BY OneSnapshotIs DEF RegistrationTypeOK, GivingBack
<1>7. Restored'
  BY OneSnapshotIs DEF RegistrationTypeOK, Restored
<1>8. ClassParts'
  BY DEF ClassParts, Whole
<1>9. Failing'
  BY OneSnapshotIs DEF RegistrationTypeOK, Failing, KeyLeft, PlacesAgree
<1>10. RemovedMeansClean'
  BY OneSnapshotIs DEF RegistrationTypeOK, RemovedMeansClean
<1> QED BY <1>1, <1>2, <1>3, <1>4, <1>5, <1>6, <1>7, <1>8, <1>9, <1>10

LEMMA ClearKindKeeps == ASSUME RegistrationInv, ClearKind PROVE RegistrationInv'
<1> USE DEF RegistrationInv
<1>a. /\ at = "unkind" /\ at' = "undata" /\ mode \in {"rollback", "uninstall"} /\ UNCHANGED <<mode, ext, failed, last>>
      /\ UNCHANGED <<assoc, class, saw, original, raced, changes, faults, faulted>>
  BY DEF ClearKind, Proceed, place, PlacesAgree, RegistrationTypeOK, InstallPlaces, RestorePlaces, ClassPlaces, WritePlaces, ClearPlaces, Leaving
<1>b. PICK s \in SnapshotType : OneSnapshot(s) /\ s.state = backup[ext].state
  <2> DEFINE s == [backup[ext] EXCEPT !.kind = Missing]
  <2>1. backup[ext] \in SnapshotType
    BY <1>a DEF RegistrationTypeOK, Writing, WritePlaces
  <2>2. s \in SnapshotType
    BY <2>1, SnapshotMembers, OursIsNotTheirs DEF SnapshotType
  <2>3. backup' = [backup EXCEPT ![ext] = s]
    BY DEF ClearKind
  <2>4. s.state = backup[ext].state
    BY <2>1 DEF SnapshotType
  <2> QED BY <2>2, <2>3, <2>4 DEF OneSnapshot
<1> USE <1>a, <1>b, OursIsNotTheirs, ExtensionsAre, SavedSame DEF InstallPlaces, RestorePlaces, ClassPlaces, WritePlaces, ClearPlaces, Leaving
<1>1. RegistrationTypeOK'
  BY OneSnapshotIs DEF RegistrationTypeOK, Whole
<1>2. SnapshotWhole' /\ SnapshotKept' /\ Untouched'
  BY OneSnapshotKeeps DEF Writing, GivingBack
<1>3. PlacesAgree'
  BY DEF PlacesAgree
<1>4. Writing'
  BY OneSnapshotIs DEF RegistrationTypeOK, Writing
<1>5. SnapshotTaken'
  BY OneSnapshotIs DEF RegistrationTypeOK, SnapshotTaken, Taken
<1>6. GivingBack'
  BY OneSnapshotIs DEF RegistrationTypeOK, GivingBack
<1>7. Restored'
  BY OneSnapshotIs DEF RegistrationTypeOK, Restored
<1>8. ClassParts'
  BY DEF ClassParts, Whole
<1>9. Failing'
  BY OneSnapshotIs DEF RegistrationTypeOK, Failing, KeyLeft, PlacesAgree
<1>10. RemovedMeansClean'
  BY OneSnapshotIs DEF RegistrationTypeOK, RemovedMeansClean
<1> QED BY <1>1, <1>2, <1>3, <1>4, <1>5, <1>6, <1>7, <1>8, <1>9, <1>10

LEMMA ClearDataKeeps == ASSUME RegistrationInv, ClearData PROVE RegistrationInv'
<1> USE DEF RegistrationInv
<1>a. /\ at = "undata" /\ at' = "unkey" /\ mode \in {"rollback", "uninstall"} /\ UNCHANGED <<mode, ext, failed, last>>
      /\ UNCHANGED <<assoc, class, saw, original, raced, changes, faults, faulted>>
  BY DEF ClearData, Proceed, place, PlacesAgree, RegistrationTypeOK, InstallPlaces, RestorePlaces, ClassPlaces, WritePlaces, ClearPlaces, Leaving
<1>b. PICK s \in SnapshotType : OneSnapshot(s) /\ s.state = backup[ext].state
  <2> DEFINE s == [backup[ext] EXCEPT !.data = Missing]
  <2>1. backup[ext] \in SnapshotType
    BY <1>a DEF RegistrationTypeOK, Writing, WritePlaces
  <2>2. s \in SnapshotType
    BY <2>1, SnapshotMembers, OursIsNotTheirs DEF SnapshotType
  <2>3. backup' = [backup EXCEPT ![ext] = s]
    BY DEF ClearData
  <2>4. s.state = backup[ext].state
    BY <2>1 DEF SnapshotType
  <2> QED BY <2>2, <2>3, <2>4 DEF OneSnapshot
<1> USE <1>a, <1>b, OursIsNotTheirs, ExtensionsAre, SavedSame DEF InstallPlaces, RestorePlaces, ClassPlaces, WritePlaces, ClearPlaces, Leaving
<1>1. RegistrationTypeOK'
  BY OneSnapshotIs DEF RegistrationTypeOK, Whole
<1>2. SnapshotWhole' /\ SnapshotKept' /\ Untouched'
  BY OneSnapshotKeeps DEF Writing, GivingBack
<1>3. PlacesAgree'
  BY DEF PlacesAgree
<1>4. Writing'
  BY OneSnapshotIs DEF RegistrationTypeOK, Writing
<1>5. SnapshotTaken'
  BY OneSnapshotIs DEF RegistrationTypeOK, SnapshotTaken, Taken
<1>6. GivingBack'
  BY OneSnapshotIs DEF RegistrationTypeOK, GivingBack
<1>7. Restored'
  BY OneSnapshotIs DEF RegistrationTypeOK, Restored
<1>8. ClassParts'
  BY DEF ClassParts, Whole
<1>9. Failing'
  BY OneSnapshotIs DEF RegistrationTypeOK, Failing, KeyLeft, PlacesAgree
<1>10. RemovedMeansClean'
  BY OneSnapshotIs DEF RegistrationTypeOK, RemovedMeansClean
<1> QED BY <1>1, <1>2, <1>3, <1>4, <1>5, <1>6, <1>7, <1>8, <1>9, <1>10

\* An extension is looked at, and saved unless it is ours with a snapshot already.
LEMMA LookAtExtensionKeeps == ASSUME RegistrationInv, LookAtExtension PROVE RegistrationInv'
<1> USE DEF RegistrationInv
<1>a. /\ at = "look" /\ mode = "install" /\ last = "none" /\ saw' = assoc[ext]
      /\ ext \in Extensions /\ ~Torn(ext) /\ saw' \in Theirs \cup {Ours}
      /\ UNCHANGED <<assoc, backup, class, original, faulted, changes, faults>>
  <2>1. at = "look" /\ mode = "install" /\ last = "none" /\ ext \in Extensions
    BY DEF LookAtExtension, PlacesAgree, InstallPlaces, RegistrationTypeOK
  <2>2. ~Torn(ext)
    BY <2>1 DEF Torn, SnapshotWhole
  <2> QED BY <2>1, <2>2 DEF LookAtExtension, RegistrationTypeOK
<1> USE OursIsNotTheirs, ExtensionsAre, SavedSame
    DEF InstallPlaces, RestorePlaces, ClassPlaces, WritePlaces, ClearPlaces, Leaving
<1>1. CASE assoc[ext] # Ours
  <2>1. /\ at' = "state-" /\ UNCHANGED <<mode, ext, failed, last>> /\ raced' = raced \ SavedNow
        /\ raced' \subseteq raced
        /\ \A e \in Extensions : e # ext => (e \in raced' <=> e \in raced)
        /\ ext \in raced' => assoc[ext] # original[ext]
    BY <1>a, <1>1 DEF LookAtExtension, Proceed, SavedNow
  <2>2. RegistrationTypeOK'
    BY <1>a, <2>1 DEF RegistrationTypeOK
  <2>3. SnapshotWhole'
    BY <1>a DEF SnapshotWhole
  <2>4. SnapshotKept'
    BY <1>a, <1>1, <2>1 DEF SnapshotKept
  <2>5. Untouched'
    BY <1>a, <1>1, <2>1 DEF Untouched, SavedNow
  <2>6. PlacesAgree'
    BY <1>a, <2>1 DEF PlacesAgree
  <2>7. Writing'
    <3>1. assoc[ext] \in Theirs
      BY <1>a, <1>1
    <3>2. ext \notin raced' => assoc[ext] = original[ext]
      BY <1>1, <2>1, <1>a DEF SavedNow, Untouched
    <3> QED BY <1>a, <1>1, <2>1, <3>1, <3>2 DEF Writing
  <2>8. SnapshotTaken'
    BY <1>a, <2>1 DEF SnapshotTaken, Taken
  <2>9. GivingBack' /\ Restored' /\ ClassParts' /\ Failing' /\ RemovedMeansClean'
    BY <1>a, <2>1 DEF GivingBack, Restored, ClassParts, Failing, RemovedMeansClean
  <2> QED BY <2>2, <2>3, <2>4, <2>5, <2>6, <2>7, <2>8, <2>9
<1>2. CASE assoc[ext] = Ours
  <2>1. Taken(ext) /\ raced' = raced
    BY <1>a, <1>2 DEF SnapshotKept, Taken, LookAtExtension
  <2>2. \/ ext < ExtensionCount /\ ext' = ext + 1 /\ at' = "look" /\ UNCHANGED <<mode, failed, last>>
        \/ ext = ExtensionCount /\ at' = "server" /\ ext' = 1 /\ UNCHANGED <<mode, failed, last>>
    <3>1. NextOf("look", AfterSnapshots)
      BY <1>a, <1>2, <2>1 DEF LookAtExtension, Taken
    <3> QED BY <1>a, <3>1, RegistrationAssumption DEF NextOf, AfterSnapshots
  <2>3. RegistrationTypeOK'
    BY <1>a, <2>1, <2>2 DEF RegistrationTypeOK
  <2>4. SnapshotWhole' /\ SnapshotKept' /\ Untouched'
    BY <1>a, <2>1 DEF SnapshotWhole, SnapshotKept, Untouched
  <2>5. SnapshotTaken'
    BY <1>a, <2>1, <2>2 DEF SnapshotTaken, Taken
  <2>6. PlacesAgree' /\ Writing' /\ GivingBack' /\ Restored' /\ ClassParts'
    BY <1>a, <2>2 DEF PlacesAgree, Writing, GivingBack, Restored, ClassParts
  <2>7. Failing' /\ RemovedMeansClean'
    BY <1>a, <2>2 DEF Failing, RemovedMeansClean
  <2> QED BY <2>3, <2>4, <2>5, <2>6, <2>7
<1> QED BY <1>1, <1>2

\* The snapshot whose State is written is whole, and holds what the extension had.
LEMMA CommitSnapshotKeeps == ASSUME RegistrationInv, CommitSnapshot PROVE RegistrationInv'
<1> USE DEF RegistrationInv
<1>a. /\ at = "state+" /\ mode = "install" /\ last = "none" /\ ext \in Extensions
      /\ saw \in Theirs /\ assoc[ext] # Ours /\ (ext \notin raced => saw = original[ext])
      /\ backup[ext].data = saw /\ backup[ext].kind = saw /\ backup[ext] \in SnapshotType
      /\ UNCHANGED <<assoc, class, saw, original, faulted, raced, changes, faults>>
  BY DEF CommitSnapshot, PlacesAgree, InstallPlaces, RegistrationTypeOK, Writing, WritePlaces
<1>b. \/ ext < ExtensionCount /\ ext' = ext + 1 /\ at' = "look" /\ UNCHANGED <<mode, failed, last>>
      \/ ext = ExtensionCount /\ at' = "server" /\ ext' = 1 /\ UNCHANGED <<mode, failed, last>>
  BY <1>a, ExtensionsAre, RegistrationAssumption DEF CommitSnapshot, NextOf, AfterSnapshots
<1>c. PICK s \in SnapshotType :
        /\ OneSnapshot(s) /\ s.key /\ s.data = saw /\ s.kind = saw
        /\ s.state = IF saw = Missing THEN "absent" ELSE "present"
  <2> DEFINE s == [backup[ext] EXCEPT !.key = TRUE, !.state = IF saw = Missing THEN "absent" ELSE "present"]
  <2>1. s \in SnapshotType
    BY <1>a, SnapshotMembers DEF SnapshotType
  <2>2. backup' = [backup EXCEPT ![ext] = s]
    BY DEF CommitSnapshot
  <2>3. s.key /\ s.data = saw /\ s.kind = saw /\ s.state = IF saw = Missing THEN "absent" ELSE "present"
    BY <1>a DEF SnapshotType
  <2> QED BY <2>1, <2>2, <2>3 DEF OneSnapshot
<1>d. \A e \in Extensions : e = ext => backup'[e].state # "none" /\ Saved(e)' = saw
  BY <1>a, <1>c, OneSnapshotIs DEF Saved
<1> USE OursIsNotTheirs, ExtensionsAre, OneSnapshotIs
    DEF InstallPlaces, RestorePlaces, ClassPlaces, WritePlaces, ClearPlaces, Leaving
<1>1. RegistrationTypeOK'
  BY <1>a, <1>b, <1>c DEF RegistrationTypeOK
<1>2. SnapshotWhole' /\ SnapshotKept' /\ Untouched'
  BY <1>a, <1>c, OneSnapshotKeeps
<1>3. SnapshotTaken'
  BY <1>a, <1>b, <1>c, <1>d DEF SnapshotTaken, Taken
<1>4. PlacesAgree' /\ Writing' /\ GivingBack' /\ Restored' /\ ClassParts'
  BY <1>a, <1>b DEF PlacesAgree, Writing, GivingBack, Restored, ClassParts
<1>5. Failing' /\ RemovedMeansClean'
  BY <1>a, <1>b DEF Failing, RemovedMeansClean
<1> QED BY <1>1, <1>2, <1>3, <1>4, <1>5

LEMMA RegisterServerKeeps == ASSUME RegistrationInv, RegisterServer PROVE RegistrationInv'
<1> USE DEF RegistrationInv
<1>a. /\ at = "server" /\ at' = "model" /\ mode = "install" /\ last = "none"
      /\ ext = 1 /\ class' = class \cup {"key", "inproc", "server"} /\ UNCHANGED <<mode, ext, failed, last>>
      /\ UNCHANGED <<assoc, backup, saw, original, faulted, raced, changes, faults>>
  BY DEF RegisterServer, Proceed, PlacesAgree, InstallPlaces, RegistrationTypeOK
<1> USE <1>a, OursIsNotTheirs, ExtensionsAre, SavedSame
    DEF InstallPlaces, RestorePlaces, ClassPlaces, WritePlaces, ClearPlaces, Leaving
<1>1. RegistrationTypeOK'
  BY DEF RegistrationTypeOK, Whole
<1>2. SnapshotWhole' /\ SnapshotKept' /\ Untouched'
  BY DEF SnapshotWhole, SnapshotKept, Untouched
<1>3. SnapshotTaken'
  BY DEF SnapshotTaken, Taken
<1>4. PlacesAgree' /\ Writing' /\ GivingBack' /\ Restored' /\ ClassParts'
  BY DEF PlacesAgree, Writing, GivingBack, Restored, ClassParts
<1>5. Failing' /\ RemovedMeansClean'
  BY DEF Failing, RemovedMeansClean
<1> QED BY <1>1, <1>2, <1>3, <1>4, <1>5

LEMMA RegisterModelKeeps == ASSUME RegistrationInv, RegisterModel PROVE RegistrationInv'
<1> USE DEF RegistrationInv
<1>a. /\ at = "model" /\ at' = "associate" /\ mode = "install" /\ last = "none"
      /\ ext' = 1 /\ class' = Whole /\ UNCHANGED <<mode, failed, last>>
      /\ UNCHANGED <<assoc, backup, saw, original, faulted, raced, changes, faults>>
  BY DEF RegisterModel, PlacesAgree, InstallPlaces, RegistrationTypeOK, ClassParts, Whole
<1> USE <1>a, OursIsNotTheirs, ExtensionsAre, SavedSame
    DEF InstallPlaces, RestorePlaces, ClassPlaces, WritePlaces, ClearPlaces, Leaving
<1>1. RegistrationTypeOK'
  BY DEF RegistrationTypeOK
<1>2. SnapshotWhole' /\ SnapshotKept' /\ Untouched'
  BY DEF SnapshotWhole, SnapshotKept, Untouched
<1>3. SnapshotTaken'
  BY DEF SnapshotTaken, Taken
<1>4. PlacesAgree' /\ Writing' /\ GivingBack' /\ Restored' /\ ClassParts'
  BY DEF PlacesAgree, Writing, GivingBack, Restored, ClassParts
<1>5. Failing' /\ RemovedMeansClean'
  BY DEF Failing, RemovedMeansClean
<1> QED BY <1>1, <1>2, <1>3, <1>4, <1>5

\* An extension becomes ours only when its snapshot has been taken and the class is whole.
LEMMA AssociateKeeps == ASSUME RegistrationInv, Associate PROVE RegistrationInv'
<1> USE DEF RegistrationInv
<1>a. /\ at = "associate" /\ mode = "install" /\ last = "none" /\ ext \in Extensions
      /\ assoc' \in [Extensions -> Theirs \cup {Ours}] /\ assoc'[ext] = Ours
      /\ \A e \in Extensions : e # ext => assoc'[e] = assoc[e]
      /\ UNCHANGED <<backup, class, saw, original, faulted, raced, changes, faults>>
  BY DEF Associate, PlacesAgree, InstallPlaces, RegistrationTypeOK
<1>b. Taken(ext) /\ ~Torn(ext)
  BY <1>a, ExtensionsAre, SavedIs DEF SnapshotTaken, Taken
<1>c. \/ ext < ExtensionCount /\ ext' = ext + 1 /\ at' = "associate" /\ UNCHANGED <<mode, failed, last>>
      \/ mode' = "idle" /\ at' = "none" /\ ext' = 1 /\ failed' = FALSE /\ last' = "installed"
  BY DEF Associate, NextOf, Ends
<1> USE <1>a, <1>c, OursIsNotTheirs, ExtensionsAre, SavedSame
    DEF InstallPlaces, RestorePlaces, ClassPlaces, WritePlaces, ClearPlaces, Leaving
<1>1. RegistrationTypeOK'
  BY DEF RegistrationTypeOK
<1>2. SnapshotWhole' /\ SnapshotKept' /\ Untouched'
  BY <1>b DEF SnapshotWhole, SnapshotKept, Untouched, Taken
<1>3. SnapshotTaken'
  BY DEF SnapshotTaken, Taken
<1>4. PlacesAgree' /\ Writing' /\ GivingBack' /\ Restored' /\ ClassParts'
  BY DEF PlacesAgree, Writing, GivingBack, Restored, ClassParts
<1>5. Failing' /\ RemovedMeansClean'
  BY DEF Failing, RemovedMeansClean
<1> QED BY <1>1, <1>2, <1>3, <1>4, <1>5

LEMMA StartUninstallKeeps == ASSUME RegistrationInv, StartUninstall PROVE RegistrationInv'
<1> USE DEF RegistrationInv
<1>a. /\ mode' = "uninstall" /\ at' = "restore" /\ ext' = 1 /\ ~failed' /\ failed' = FALSE
      /\ last' = "none" /\ faulted' = FALSE
      /\ UNCHANGED <<assoc, backup, class, saw, original, raced, changes, faults>>
  BY DEF StartUninstall
<1> USE <1>a, OursIsNotTheirs, ExtensionsAre, SavedSame
    DEF InstallPlaces, RestorePlaces, ClassPlaces, WritePlaces, ClearPlaces, Leaving
<1>1. RegistrationTypeOK'
  BY DEF RegistrationTypeOK
<1>2. SnapshotWhole' /\ SnapshotKept' /\ Untouched'
  BY DEF SnapshotWhole, SnapshotKept, Untouched
<1>3. SnapshotTaken' /\ Restored'
  BY DEF SnapshotTaken, Taken, Restored
<1>4. PlacesAgree' /\ Writing' /\ GivingBack' /\ ClassParts'
  BY DEF PlacesAgree, Writing, GivingBack, ClassParts
<1>5. Failing' /\ RemovedMeansClean'
  BY DEF Failing, RemovedMeansClean
<1> QED BY <1>1, <1>2, <1>3, <1>4, <1>5

LEMMA RestoreExtensionKeeps == ASSUME RegistrationInv, RestoreExtension PROVE RegistrationInv'
<1> USE DEF RegistrationInv
<1>a. /\ at = "restore" /\ mode \in {"rollback", "uninstall"} /\ last = "none" /\ ext \in Extensions
      /\ saw' \in Theirs \cup {Ours} /\ ~Torn(ext)
      /\ UNCHANGED <<assoc, backup, class, original, faulted, raced, changes, faults>>
  BY DEF RestoreExtension, PlacesAgree, InstallPlaces, RegistrationTypeOK, Torn, SnapshotWhole
<1>1. CASE backup[ext].state = "none"
  <2>1. NextPart(FALSE)
    BY <1>1, <1>a DEF RestoreExtension
  <2>2. PartDone(FALSE)
    BY <2>1, <1>a, NextPartGoes DEF RestorePlaces
  <2>3. assoc[ext] # Ours
    BY <1>1, <1>a DEF SnapshotKept
  <2> QED BY <1>1, <1>a, <2>2, <2>3, PartDoneKeeps DEF RegistrationTypeOK, ClassPlaces
<1>2. CASE backup[ext].state # "none"
  <2>a. /\ at' = (IF assoc[ext] = Ours THEN "giveback" ELSE "unstate")
        /\ UNCHANGED <<mode, ext, failed, last>>
    BY <1>2, <1>a DEF RestoreExtension, Proceed
  <2> USE <1>a, <2>a, OursIsNotTheirs, ExtensionsAre, SavedSame
      DEF InstallPlaces, RestorePlaces, ClassPlaces, WritePlaces, ClearPlaces, Leaving
  <2>1. RegistrationTypeOK'
    BY DEF RegistrationTypeOK
  <2>2. SnapshotWhole' /\ SnapshotKept' /\ Untouched'
    BY DEF SnapshotWhole, SnapshotKept, Untouched
  <2>3. SnapshotTaken' /\ Restored'
    BY DEF SnapshotTaken, Taken, Restored
  <2>4. PlacesAgree' /\ Writing' /\ ClassParts'
    BY DEF PlacesAgree, Writing, ClassParts
  <2>5. GivingBack'
    BY <1>2 DEF GivingBack
  <2>6. Failing' /\ RemovedMeansClean'
    BY DEF Failing, RemovedMeansClean
  <2> QED BY <2>1, <2>2, <2>3, <2>4, <2>5, <2>6
<1> QED BY <1>1, <1>2

\* What an extension gets back is what it had.
LEMMA GiveBackKeeps == ASSUME RegistrationInv, GiveBack PROVE RegistrationInv'
<1> USE DEF RegistrationInv
<1>a. /\ at = "giveback" /\ at' = "unstate" /\ mode \in {"rollback", "uninstall"} /\ last = "none"
      /\ ext \in Extensions /\ backup[ext].state # "none" /\ (assoc[ext] = Ours \/ ext \in raced)
      /\ UNCHANGED <<mode, ext, failed, last>>
      /\ UNCHANGED <<backup, class, saw, original, faulted, raced, changes, faults>>
  BY DEF GiveBack, Proceed, PlacesAgree, InstallPlaces, RegistrationTypeOK, GivingBack
<1>b. /\ assoc' = [assoc EXCEPT ![ext] = Saved(ext)] /\ Saved(ext) \in Theirs
      /\ ext \notin raced => Saved(ext) = original[ext]
  BY <1>a, SavedIs DEF GiveBack, SnapshotKept
<1>c. /\ assoc' \in [Extensions -> Theirs \cup {Ours}] /\ assoc'[ext] = Saved(ext)
      /\ assoc'[ext] # Ours
      /\ \A e \in Extensions : e # ext => assoc'[e] = assoc[e]
  BY <1>a, <1>b, OursIsNotTheirs DEF RegistrationTypeOK
<1> USE <1>a, <1>c, OursIsNotTheirs, ExtensionsAre, SavedSame
    DEF InstallPlaces, RestorePlaces, ClassPlaces, WritePlaces, ClearPlaces, Leaving
<1>1. RegistrationTypeOK'
  BY DEF RegistrationTypeOK
<1>2. SnapshotWhole' /\ SnapshotKept'
  BY DEF SnapshotWhole, SnapshotKept
<1>3. Untouched'
  BY <1>b DEF Untouched
<1>4. SnapshotTaken' /\ Restored'
  BY DEF SnapshotTaken, Taken, Restored
<1>5. PlacesAgree' /\ Writing' /\ GivingBack' /\ ClassParts'
  BY DEF PlacesAgree, Writing, GivingBack, ClassParts
<1>6. Failing' /\ RemovedMeansClean'
  BY DEF Failing, RemovedMeansClean
<1> QED BY <1>1, <1>2, <1>3, <1>4, <1>5, <1>6

LEMMA ClearKeyKeeps == ASSUME RegistrationInv, ClearKey PROVE RegistrationInv'
<1> USE DEF RegistrationInv
<1>a. /\ at = "unkey" /\ ext \in Extensions /\ assoc[ext] # Ours
      /\ UNCHANGED <<assoc, class, saw, original, faulted, raced, changes, faults>>
  BY DEF ClearKey, RegistrationTypeOK, GivingBack, ClearPlaces
<1>b. NoSnapshot \in SnapshotType /\ NoSnapshot.state = "none"
  BY OursIsNotTheirs DEF NoSnapshot, SnapshotType
<1>c. OneSnapshot(NoSnapshot)
  BY <1>b DEF ClearKey, OneSnapshot
<1>d. backup'[ext].state = "none"
  BY <1>b, <1>c, OneSnapshotIs
<1>e. PartDone(FALSE)
  BY <1>a, NextPartGoes DEF ClearKey, RestorePlaces
<1> QED
  BY <1>a, <1>c, <1>d, <1>e, PartDoneKeeps DEF RegistrationTypeOK, ClassPlaces

LEMMA DeleteRootKeeps == ASSUME RegistrationInv, DeleteRoot PROVE RegistrationInv'
<1> USE DEF RegistrationInv
<1> DEFINE left == \E e \in Extensions : backup[e].key
<1>a. /\ at = "root" /\ NextPart(left) /\ left \in BOOLEAN
      /\ UNCHANGED <<assoc, backup, class, saw, original, faulted, raced, changes, faults>>
  BY DEF DeleteRoot
<1>b. PartDone(left)
  <2> HIDE DEF left
  <2> QED BY <1>a, NextPartGoes DEF Leaving
<1>c. CASE left
  <2>1. PartDone(TRUE)
    BY <1>b, <1>c DEF PartDone
  <2> QED BY <1>a, <1>c, <2>1, PartDoneKeeps DEF RegistrationTypeOK, RestorePlaces, ClassPlaces
<1>d. CASE ~left
  <2>1. PartDone(FALSE)
    BY <1>b, <1>d DEF PartDone
  <2> QED BY <1>a, <1>d, <2>1, PartDoneKeeps DEF RegistrationTypeOK, RestorePlaces, ClassPlaces
<1> QED BY <1>c, <1>d

LEMMA RemoveFromClassKeeps == ASSUME RegistrationInv, RemoveFromClass PROVE RegistrationInv'
<1> USE DEF RegistrationInv
<1>a. /\ at \in ClassPlaces /\ mode \in {"rollback", "uninstall"} /\ last = "none" /\ ext = 1
      /\ UNCHANGED <<assoc, backup, saw, original, faulted, raced, changes, faults>>
  BY DEF RemoveFromClass, ClassPlaces, PlacesAgree, InstallPlaces, Leaving, RegistrationTypeOK
<1>1. CASE at = "unclass"
  <2>1. NextPart(FALSE) /\ class' = class \ {"key"}
    BY <1>1 DEF RemoveFromClass
  <2>2. PartDone(FALSE)
    BY <1>1, <2>1, NextPartGoes DEF Leaving, ClassPlaces
  <2>3. class' = {}
    BY <1>1, <2>1 DEF ClassParts, RegistrationTypeOK, Whole
  <2> QED BY <1>1, <1>a, <2>1, <2>2, <2>3, PartDoneKeeps DEF RegistrationTypeOK, RestorePlaces
<1>2. CASE at # "unclass"
  <2>a. /\ UNCHANGED <<mode, ext, failed, last>>
        /\ \/ at = "unserver" /\ class' = class \ {"server"} /\ at' = "unmodel"
           \/ at = "unmodel" /\ class' = class \ {"model"} /\ at' = "uninproc"
           \/ at = "uninproc" /\ class' = class \ {"inproc"} /\ at' = "unclass"
    BY <1>a, <1>2 DEF RemoveFromClass, ClassPlaces, Proceed
  <2> USE <1>a, <2>a, OursIsNotTheirs, ExtensionsAre, SavedSame
      DEF InstallPlaces, RestorePlaces, ClassPlaces, WritePlaces, ClearPlaces, Leaving
  <2>1. RegistrationTypeOK'
    BY DEF RegistrationTypeOK
  <2>2. SnapshotWhole' /\ SnapshotKept' /\ Untouched'
    BY DEF SnapshotWhole, SnapshotKept, Untouched
  <2>3. SnapshotTaken' /\ Restored'
    BY DEF SnapshotTaken, Taken, Restored
  <2>4. PlacesAgree' /\ Writing' /\ GivingBack' /\ ClassParts'
    BY DEF PlacesAgree, Writing, GivingBack, ClassParts
  <2>5. Failing' /\ RemovedMeansClean'
    BY DEF Failing, KeyLeft, RemovedMeansClean
  <2> QED BY <2>1, <2>2, <2>3, <2>4, <2>5
<1> QED BY <1>1, <1>2

LEMMA CallFailsKeeps == ASSUME RegistrationInv, CallFails PROVE RegistrationInv'
<1> USE DEF RegistrationInv
<1>a. /\ mode # "idle" /\ GiveUp /\ faulted' = TRUE /\ last = "none" /\ faults' \in 0..MaxFaults
      /\ UNCHANGED <<assoc, saw, original, raced, changes>>
  BY RegistrationAssumption DEF CallFails, PlacesAgree, RegistrationTypeOK
<1>1. CASE mode = "install"
  <2>1. mode' = "rollback" /\ at' = "restore" /\ ext' = 1 /\ failed' = FALSE /\ UNCHANGED last
    BY <1>1, <1>a DEF GiveUp
  <2>2. /\ backup' = backup \/ (at \in {"data", "state+"} /\ backup' = [backup EXCEPT ![ext].key = TRUE])
        /\ class' \in SUBSET Whole
    BY DEF CallFails, RegistrationTypeOK, Whole
  <2>3. backup' = backup \/ (at \in {"data", "state+"} /\ OneSnapshot([backup[ext] EXCEPT !.key = TRUE]))
    <3>1. backup[ext] \in SnapshotType
      BY DEF RegistrationTypeOK
    <3>2. [backup[ext] EXCEPT !.key = TRUE] \in SnapshotType
      BY <3>1, SnapshotMembers, OursIsNotTheirs
    <3> QED BY <2>2, <3>2 DEF OneSnapshot
  <2> QED BY <1>1, <1>a, <2>1, <2>2, <2>3, RollsBackKeeps DEF RegistrationTypeOK
<1>2. CASE mode # "install"
  <2>1. /\ NextPart(TRUE) /\ at \in RestorePlaces \cup Leaving /\ UNCHANGED <<backup, class>>
    BY <1>2, <1>a DEF CallFails, GiveUp, PlacesAgree, RegistrationTypeOK, InstallPlaces, Leaving
  <2>2. PartDone(TRUE)
    BY <2>1, NextPartGoes
  <2> QED BY <1>a, <2>1, <2>2, PartDoneKeeps DEF RegistrationTypeOK
<1> QED BY <1>1, <1>2

LEMMA InterruptedKeeps == ASSUME RegistrationInv, Interrupted PROVE RegistrationInv'
<1> USE DEF RegistrationInv
<1>a. /\ mode' = "idle" /\ at' = "none" /\ ext' = 1 /\ failed' = FALSE /\ last' = "interrupted"
      /\ faults' \in 0..MaxFaults
      /\ UNCHANGED <<assoc, backup, class, saw, original, faulted, raced, changes>>
  BY RegistrationAssumption DEF Interrupted, Ends, RegistrationTypeOK
<1> USE <1>a, OursIsNotTheirs, ExtensionsAre, SavedSame
    DEF InstallPlaces, RestorePlaces, ClassPlaces, WritePlaces, ClearPlaces, Leaving
<1>1. RegistrationTypeOK'
  BY DEF RegistrationTypeOK
<1>2. SnapshotWhole' /\ SnapshotKept' /\ Untouched'
  BY DEF SnapshotWhole, SnapshotKept, Untouched
<1>3. SnapshotTaken' /\ Restored'
  BY DEF SnapshotTaken, Taken, Restored
<1>4. PlacesAgree' /\ Writing' /\ GivingBack' /\ ClassParts'
  BY DEF PlacesAgree, Writing, GivingBack, ClassParts
<1>5. Failing' /\ RemovedMeansClean'
  BY DEF Failing, RemovedMeansClean
<1> QED BY <1>1, <1>2, <1>3, <1>4, <1>5

\* Another program never makes an extension ours; what it does between a read and its write
\* is a race.
LEMMA OtherProgramTakesKeeps ==
  ASSUME RegistrationInv, NEW o \in Extensions, NEW v \in Theirs, OtherProgramTakes(o, v)
  PROVE  RegistrationInv'
<1> USE DEF RegistrationInv
<1>a. /\ UNCHANGED <<mode, at, ext, failed, last>> /\ UNCHANGED <<backup, class, saw, faulted, faults>>
      /\ changes' \in 0..MaxEdits
      /\ assoc' \in [Extensions -> Theirs \cup {Ours}] /\ assoc'[o] = v
      /\ original' \in [Extensions -> Theirs] /\ original'[o] = v
      /\ \A e \in Extensions : e # o => assoc'[e] = assoc[e] /\ original'[e] = original[e]
  BY RegistrationAssumption DEF OtherProgramTakes, place, RegistrationTypeOK
<1>b. /\ raced' \in SUBSET Extensions /\ (o \in raced' <=> Between(o))
      /\ \A e \in Extensions : e # o => (e \in raced' <=> e \in raced)
  BY DEF OtherProgramTakes, RegistrationTypeOK
<1> USE <1>a, OursIsNotTheirs, ExtensionsAre, SavedSame
    DEF InstallPlaces, RestorePlaces, ClassPlaces, WritePlaces, ClearPlaces, Leaving
<1>1. RegistrationTypeOK'
  BY <1>b DEF RegistrationTypeOK
<1>2. SnapshotWhole' /\ SnapshotKept' /\ Untouched'
  BY <1>b DEF SnapshotWhole, SnapshotKept, Untouched
<1>3. PlacesAgree' /\ ClassParts' /\ Failing'
  BY DEF PlacesAgree, ClassParts, Failing, KeyLeft
<1>4. Writing'
  BY <1>b DEF Writing, Between, PlacesAgree, RegistrationTypeOK
<1>5. SnapshotTaken'
  <2> SUFFICES ASSUME NEW e \in Extensions,
                      \/ at \in {"server", "model"} \/ (at = "associate" /\ e >= ext)
                      \/ (at \in {"look"} \cup WritePlaces /\ e < ext)
               PROVE  Taken(e)'
    BY DEF SnapshotTaken
  <2>1. Taken(e)
    BY DEF SnapshotTaken
  <2>2. CASE e = o
    <3>1. ext \in Extensions /\ mode = "install"
      BY DEF PlacesAgree, RegistrationTypeOK
    <3>2. Between(o)
      BY <2>2, <3>1 DEF Between
    <3> QED BY <1>b, <2>1, <2>2, <3>2 DEF Taken
  <2>3. CASE e # o
    BY <1>b, <2>1, <2>3 DEF Taken
  <2> QED BY <2>2, <2>3
<1>6. GivingBack' /\ Restored'
  BY <1>b DEF GivingBack, Restored, Between, RegistrationTypeOK
<1>7. RemovedMeansClean'
  <2>1. mode = "idle" => ~Between(o)
    BY DEF Between, PlacesAgree
  <2> QED BY <1>b, <2>1 DEF RemovedMeansClean
<1> QED BY <1>1, <1>2, <1>3, <1>4, <1>5, <1>6, <1>7

LEMMA RegistrationStutters ==
  ASSUME RegistrationInv, UNCHANGED registration PROVE RegistrationInv'
BY SavedSame DEF registration, place, RegistrationInv, RegistrationTypeOK, SnapshotWhole, SnapshotKept,
   Untouched, PlacesAgree, Writing, SnapshotTaken, Taken, GivingBack, Restored, ClassParts, Failing,
   KeyLeft, RemovedMeansClean

LEMMA RegistrationInductive ==
  ASSUME RegistrationInv, [NextRegistration]_registration PROVE RegistrationInv'
<1>1. CASE InstallStep
  BY <1>1, FindHandlerKeeps, LookAtExtensionKeeps, InvalidateSnapshotKeeps, WriteDataKeeps, WriteKindKeeps,
     CommitSnapshotKeeps, RegisterServerKeeps, RegisterModelKeeps, AssociateKeeps DEF InstallStep
<1>2. CASE UninstallStep
  BY <1>2, RestoreExtensionKeeps, GiveBackKeeps, ClearStateKeeps, ClearKindKeeps, ClearDataKeeps,
     ClearKeyKeeps, DeleteRootKeeps, RemoveFromClassKeeps DEF UninstallStep
<1>3. CASE StartInstall \/ StartUninstall
  BY <1>3, StartInstallKeeps, StartUninstallKeeps
<1>4. CASE CallFails \/ Interrupted
  BY <1>4, CallFailsKeeps, InterruptedKeeps
<1>5. CASE \E e \in Extensions, v \in Theirs : OtherProgramTakes(e, v)
  BY <1>5, OtherProgramTakesKeeps
<1> QED
  BY <1>1, <1>2, <1>3, <1>4, <1>5, RegistrationStutters DEF NextRegistration

LEMMA RegistrationHolds == RegistrationSpec => []RegistrationInv
<1> QED
  BY RegistrationInitial, RegistrationInductive, PTL DEF RegistrationSpec

\* Every variable keeps its type.
THEOREM RegistrationTypes == RegistrationSpec => []RegistrationTypeOK
<1>1. RegistrationInv => RegistrationTypeOK
  BY DEF RegistrationInv
<1> QED BY <1>1, RegistrationHolds, PTL

\* An extension that is ours has a whole snapshot of what it had before, at every instant of
\* an install, an uninstall, a rollback or after one that was cut short (install_inner).
THEOREM SnapshotsKept == RegistrationSpec => []SnapshotKept
<1>1. RegistrationInv => SnapshotKept
  BY DEF RegistrationInv
<1> QED BY <1>1, RegistrationHolds, PTL

\* A snapshot that has a State is never torn (write_snapshot).
THEOREM SnapshotsWhole == RegistrationSpec => []SnapshotWhole
<1>1. RegistrationInv => SnapshotWhole
  BY DEF RegistrationInv
<1> QED BY <1>1, RegistrationHolds, PTL

\* An uninstall that reports success has given everything back and left nothing behind
\* (uninstall_inner).
THEOREM SuccessIsClean == RegistrationSpec => []RemovedMeansClean
<1>1. RegistrationInv => RemovedMeansClean
  BY DEF RegistrationInv
<1> QED BY <1>1, RegistrationHolds, PTL

\* An uninstall that reports an error had a call that failed, or met the key of a snapshot
\* that was never finished (restore_extension, delete_root_if_empty).
THEOREM ErrorsExplained == RegistrationSpec => []ErrorsAreExplained
<1>1. RegistrationInv => ErrorsAreExplained
  BY DEF RegistrationInv, Failing, KeyLeft, ErrorsAreExplained
<1> QED BY <1>1, RegistrationHolds, PTL

\* The four together: at every instant of a registration it can be taken back, and an uninstall
\* tells the truth about what it has left (registration/windows.rs).
THEOREM RegistrationCorrect == RegistrationSpec => []RegistrationSound
<1> QED
  BY SnapshotsKept, SnapshotsWhole, SuccessIsClean, ErrorsExplained, PTL DEF RegistrationSound

(***************************************************************************)
(* The action properties: which steps change an association or the class.  *)
(***************************************************************************)
LEMMA AssociationsChange ==
  ASSUME RegistrationInv, NextRegistration, NEW e \in Extensions, assoc'[e] # assoc[e]
  PROVE  \/ at = "associate" /\ e = ext /\ assoc'[e] = Ours
         \/ at = "giveback" /\ e = ext /\ assoc'[e] \in Theirs
         \/ assoc'[e] \in Theirs /\ original'[e] = assoc'[e]
<1> USE DEF RegistrationInv
<1>1. assoc' # assoc
  OBVIOUS
<1>2. CASE Associate
  BY <1>2 DEF Associate, RegistrationTypeOK
<1>3. CASE GiveBack
  <2>1. ext \in Extensions /\ backup[ext].state # "none" /\ at = "giveback"
    BY <1>3 DEF GiveBack, GivingBack, RegistrationTypeOK
  <2>2. Saved(ext) \in Theirs
    BY <2>1, SavedIs
  <2> QED BY <1>3, <2>1, <2>2 DEF GiveBack, RegistrationTypeOK
<1>4. ASSUME NEW o \in Extensions, NEW v \in Theirs, OtherProgramTakes(o, v)
      PROVE  assoc'[e] \in Theirs /\ original'[e] = assoc'[e]
  BY <1>4 DEF OtherProgramTakes, RegistrationTypeOK
<1>5. \/ Associate \/ GiveBack \/ \E o \in Extensions, v \in Theirs : OtherProgramTakes(o, v)
  BY <1>1 DEF NextRegistration, InstallStep, UninstallStep, StartInstall, StartUninstall, CallFails, Interrupted,
     FindHandler, LookAtExtension, InvalidateSnapshot, WriteData, WriteKind, CommitSnapshot, RegisterServer,
     RegisterModel, RestoreExtension, ClearState, ClearKind, ClearData, ClearKey, DeleteRoot, RemoveFromClass
<1> QED BY <1>2, <1>3, <1>4, <1>5

LEMMA ClassIsTakenApart ==
  ASSUME RegistrationInv, NextRegistration, class = Whole, class' # Whole
  PROVE  at \in ClassPlaces
BY DEF RegistrationInv, NextRegistration, InstallStep, UninstallStep, StartInstall, StartUninstall, CallFails,
   Interrupted, FindHandler, LookAtExtension, InvalidateSnapshot, WriteData, WriteKind, CommitSnapshot,
   RegisterServer, RegisterModel, Associate, RestoreExtension, GiveBack, ClearState, ClearKind, ClearData,
   ClearKey, DeleteRoot, RemoveFromClass, OtherProgramTakes, Whole

\* An extension is given only to a whole class, and the class of one is taken apart only by an
\* uninstall that has failed to restore it (install_inner, uninstall_inner).
THEOREM ClassOutlives == RegistrationSpec => ClassOutlivesAssociations
<1> DEFINE Step == /\ \A e \in Extensions : assoc[e] # Ours /\ assoc'[e] = Ours => class = Whole
                   /\ class = Whole /\ class' # Whole /\ (\E e \in Extensions : assoc[e] = Ours) => failed
<1>1. ASSUME RegistrationInv, [NextRegistration]_registration PROVE [Step]_registration
  <2> USE DEF RegistrationInv
  <2>1. CASE UNCHANGED registration
    BY <2>1
  <2>2. CASE NextRegistration
    <3>1. ASSUME NEW e \in Extensions, assoc[e] # Ours, assoc'[e] = Ours PROVE class = Whole
      BY <1>1, <2>2, <3>1, AssociationsChange, OursIsNotTheirs DEF ClassParts
    <3>2. ASSUME class = Whole, class' # Whole, NEW e \in Extensions, assoc[e] = Ours PROVE failed
      BY <1>1, <2>2, <3>2, ClassIsTakenApart DEF Restored, Leaving
    <3> QED BY <3>1, <3>2
  <2> QED BY <1>1, <2>1, <2>2
<1> QED BY <1>1, RegistrationHolds, PTL DEF RegistrationSpec, ClassOutlivesAssociations

\* What another program has set is replaced by this handler only, which has saved it first.
THEOREM OthersAreKept == RegistrationSpec => OthersKept
<1> DEFINE Step == \A e \in Extensions :
       assoc[e] # Ours /\ assoc'[e] # assoc[e] /\ original'[e] = original[e] /\ e \notin raced =>
         assoc'[e] = Ours /\ Saved(e) = assoc[e]
<1>1. ASSUME RegistrationInv, [NextRegistration]_registration PROVE [Step]_registration
  <2> USE DEF RegistrationInv
  <2>1. CASE UNCHANGED registration
    BY <2>1
  <2>2. CASE NextRegistration
    <3> SUFFICES ASSUME NEW e \in Extensions, assoc[e] # Ours, assoc'[e] # assoc[e],
                        original'[e] = original[e], e \notin raced
                 PROVE  assoc'[e] = Ours /\ Saved(e) = assoc[e]
      OBVIOUS
    <3>1. assoc[e] = original[e]
      BY <1>1 DEF Untouched
    <3>2. at = "associate" /\ e = ext /\ assoc'[e] = Ours
      BY <1>1, <2>2, <3>1, AssociationsChange DEF GivingBack
    <3>3. Saved(e) = original[e]
      BY <1>1, <3>2, ExtensionsAre DEF SnapshotTaken, Taken
    <3> QED BY <3>1, <3>2, <3>3
  <2> QED BY <1>1, <2>1, <2>2
<1> QED BY <1>1, RegistrationHolds, PTL DEF RegistrationSpec, OthersKept

-----------------------------------------------------------------------------
(* Tokens: what a count of references or locks stands for.                  *)

LEMMA TokenIs ==
    ASSUME NEW h, NEW p, NEW t, NEW i
    PROVE  <<t, i>> \in Tokens(h, p) <=>
             t \in Threads /\ i \in 0..h[t] /\ (i > 0 \/ t \in p)
BY DEF Tokens

LEMMA TokensArePairs ==
    ASSUME NEW h, NEW p, NEW x \in Tokens(h, p)
    PROVE  \E t, i : x = <<t, i>>
BY DEF Tokens

LEMMA SameTokens ==
    ASSUME NEW S, NEW T, \A x \in S : \E t, i : x = <<t, i>>, \A x \in T : \E t, i : x = <<t, i>>,
           \A t, i : <<t, i>> \in S <=> <<t, i>> \in T
    PROVE  S = T
OBVIOUS

LEMMA NoTokens ==
    ASSUME NEW h, \A t \in Threads : h[t] = 0
    PROVE  Tokens(h, {}) = {}
BY DEF Tokens

LEMMA TokenTaken ==
    ASSUME NEW h \in [Threads -> Nat], NEW p, NEW t \in Threads, NEW g,
           g = [h EXCEPT ![t] = h[t] + 1]
    PROVE  /\ Tokens(g, p) = Tokens(h, p) \cup {<<t, h[t] + 1>>}
           /\ <<t, h[t] + 1>> \notin Tokens(h, p)
<1> DEFINE S == Tokens(g, p)
           T == Tokens(h, p) \cup {<<t, h[t] + 1>>}
<1>1. \A u \in Threads : g[u] = IF u = t THEN h[t] + 1 ELSE h[u]
  OBVIOUS
<1>2. ASSUME NEW u, NEW i PROVE <<u, i>> \in S <=> <<u, i>> \in T
  <2>1. <<u, i>> \in S <=> u \in Threads /\ i \in 0..g[u] /\ (i > 0 \/ u \in p)
    BY TokenIs
  <2>2. <<u, i>> \in T <=> (u \in Threads /\ i \in 0..h[u] /\ (i > 0 \/ u \in p))
                           \/ (u = t /\ i = h[t] + 1)
    BY TokenIs
  <2> HIDE DEF S, T
  <2> QED BY <1>1, <2>1, <2>2
<1>3. \A x \in S : \E u, i : x = <<u, i>>
  BY TokensArePairs
<1>4. \A x \in T : \E u, i : x = <<u, i>>
  BY TokensArePairs
<1>5. S = T
  <2> HIDE DEF S, T
  <2> QED BY <1>2, <1>3, <1>4, SameTokens
<1>6. <<t, h[t] + 1>> \notin Tokens(h, p)
  BY TokenIs
<1> QED BY <1>5, <1>6

LEMMA TokenGiven ==
    ASSUME NEW h \in [Threads -> Nat], NEW p, NEW t \in Threads, h[t] > 0, NEW g,
           g = [h EXCEPT ![t] = h[t] - 1]
    PROVE  /\ Tokens(g, p) = Tokens(h, p) \ {<<t, h[t]>>}
           /\ <<t, h[t]>> \in Tokens(h, p)
<1> DEFINE S == Tokens(g, p)
           T == Tokens(h, p) \ {<<t, h[t]>>}
<1>1. \A u \in Threads : g[u] = IF u = t THEN h[t] - 1 ELSE h[u]
  OBVIOUS
<1>2. ASSUME NEW u, NEW i PROVE <<u, i>> \in S <=> <<u, i>> \in T
  <2>1. <<u, i>> \in S <=> u \in Threads /\ i \in 0..g[u] /\ (i > 0 \/ u \in p)
    BY TokenIs
  <2>2. <<u, i>> \in T <=> /\ u \in Threads /\ i \in 0..h[u] /\ (i > 0 \/ u \in p)
                           /\ ~(u = t /\ i = h[t])
    BY TokenIs
  <2> HIDE DEF S, T
  <2> QED BY <1>1, <2>1, <2>2
<1>3. \A x \in S : \E u, i : x = <<u, i>>
  BY TokensArePairs
<1>4. \A x \in T : \E u, i : x = <<u, i>>
  BY TokensArePairs
<1>5. S = T
  <2> HIDE DEF S, T
  <2> QED BY <1>2, <1>3, <1>4, SameTokens
<1>6. <<t, h[t]>> \in Tokens(h, p)
  BY TokenIs
<1> QED BY <1>5, <1>6

\* A thread joins or leaves those that have one more.
LEMMA TokenOfCall ==
    ASSUME NEW h \in [Threads -> Nat], NEW p, NEW t \in Threads
    PROVE  <<t, 0>> \in Tokens(h, p) <=> t \in p
<1>1. h[t] \in Nat
  OBVIOUS
<1> QED BY <1>1, TokenIs

LEMMA TokenJoins ==
    ASSUME NEW h \in [Threads -> Nat], NEW p, NEW t \in Threads, NEW q, q = p \cup {t}
    PROVE  Tokens(h, q) = Tokens(h, p) \cup {<<t, 0>>}
<1> DEFINE S == Tokens(h, q)
           T == Tokens(h, p) \cup {<<t, 0>>}
<1>1. h[t] \in Nat
  OBVIOUS
<1>2. ASSUME NEW u, NEW i PROVE <<u, i>> \in S <=> <<u, i>> \in T
  <2>1. <<u, i>> \in S <=> u \in Threads /\ i \in 0..h[u] /\ (i > 0 \/ u \in q)
    BY TokenIs
  <2>2. <<u, i>> \in T <=> (u \in Threads /\ i \in 0..h[u] /\ (i > 0 \/ u \in p))
                           \/ (u = t /\ i = 0)
    BY TokenIs
  <2> HIDE DEF S, T
  <2> QED BY <1>1, <2>1, <2>2
<1>3. (\A x \in S : \E u, i : x = <<u, i>>) /\ \A x \in T : \E u, i : x = <<u, i>>
  BY TokensArePairs
<1>4. S = T
  <2> HIDE DEF S, T
  <2> QED BY <1>2, <1>3, SameTokens
<1> QED BY <1>4

LEMMA TokenLeaves ==
    ASSUME NEW h \in [Threads -> Nat], NEW p, NEW t \in Threads, NEW q, q = p \ {t}
    PROVE  Tokens(h, q) = Tokens(h, p) \ {<<t, 0>>}
<1> DEFINE S == Tokens(h, q)
           T == Tokens(h, p) \ {<<t, 0>>}
<1>1. h[t] \in Nat
  OBVIOUS
<1>2. ASSUME NEW u, NEW i PROVE <<u, i>> \in S <=> <<u, i>> \in T
  <2>1. <<u, i>> \in S <=> u \in Threads /\ i \in 0..h[u] /\ (i > 0 \/ u \in q)
    BY TokenIs
  <2>2. <<u, i>> \in T <=> /\ u \in Threads /\ i \in 0..h[u] /\ (i > 0 \/ u \in p)
                           /\ ~(u = t /\ i = 0)
    BY TokenIs
  <2> HIDE DEF S, T
  <2> QED BY <1>1, <2>1, <2>2
<1>3. (\A x \in S : \E u, i : x = <<u, i>>) /\ \A x \in T : \E u, i : x = <<u, i>>
  BY TokensArePairs
<1>4. S = T
  <2> HIDE DEF S, T
  <2> QED BY <1>2, <1>3, SameTokens
<1> QED BY <1>4

-----------------------------------------------------------------------------
(* The invariant of the server.                                             *)

Freeing == {"destroy", "drop"}
Handing == {"query", "release"}
Reading == {"stat", "read"}
Using == {"lock", "stat", "read", "render"}

\* What holds of the call a thread is in: its object is there, and a call that uses an object is
\* made with a reference to it.
CallSound(t) ==
  LET c == call[t] IN
  /\ c.at = "idle" => c = Idle
  /\ c.at # "idle" => c.on \in Objects /\ object[c.on].kind # "free"
  /\ c.at \in Freeing => object[c.on].references = 0
  /\ c.at \in Freeing \cup Handing => c = At(c.at, c.on)
  /\ c.at \in Using => held[t][c.on] > 0
  /\ c.at \in Reading => object[c.on].reader = t /\ object[c.on].bytes = {}
  /\ c.at = "render" => object[c.on].bytes = {c.length}

\* An object that is there is used or being freed by one thread; bytes are read once.
ObjectSound(o) ==
  /\ object[o].kind = "free" => object[o] = Unused
  /\ object[o].references = 0 => object[o].kind = "free" \/ FreedBy(o) # {}
  /\ object[o].bytes = {} \/ \E n \in 0..MaxInput : object[o].bytes = {n}

FreedOnce ==
  \A t, u \in Threads :
    call[t].at \in Freeing /\ call[u].at \in Freeing /\ call[t].on = call[u].on => t = u

Referred(o) == IsFiniteSet(Users(o)) /\ object[o].references = Cardinality(Users(o))

Counted ==
  /\ IsFiniteSet(Living) /\ count = Cardinality(Living)
  /\ IsFiniteSet(Tokens(locked, {})) /\ locks = Cardinality(Tokens(locked, {}))

\* What lived as the question was asked and was not dropped since still lives.
Asked ==
  /\ query.lived \subseteq Living /\ query.lock <= locks
  /\ query.at \in {"locks", "unload"} => query.lived = {}
  /\ query.at = "unload" => query.lock = 0

ServerInv ==
  /\ ServerTypeOK
  /\ \A t \in Threads : CallSound(t)
  /\ \A o \in Objects : ObjectSound(o) /\ Referred(o)
  /\ FreedOnce /\ Counted /\ Asked

ObjectStates == [kind : {"free", "factory", "provider"}, references : Nat,
                 bytes : SUBSET (0..MaxInput), reader : Threads \cup {"nobody"}]
Calls == [at : Places, on : Objects \cup {NoObject}, length : 0..MaxInput]
Queries == [at : {"idle", "objects", "locks", "unload"}, lived : SUBSET Objects, lock : Nat]
Row(o) == [t \in Threads |-> held[t][o]]

LEMMA ServerTypes ==
    ASSUME ServerInv
    PROVE  /\ object \in [Objects -> ObjectStates] /\ call \in [Threads -> Calls]
           /\ held \in [Threads -> [Objects -> Nat]] /\ locked \in [Threads -> 0..MaxLocks]
           /\ query \in Queries /\ locks \in Nat /\ count \in Nat
           /\ \A o \in Objects : Row(o) \in [Threads -> Nat] /\ Users(o) = Tokens(Row(o), HandedBy(o))
BY DEF ServerInv, ServerTypeOK, ObjectStates, Calls, Queries, Row, Users

LEMMA ServerTyped ==
    ASSUME object' \in [Objects -> ObjectStates], call' \in [Threads -> Calls],
           held' \in [Threads -> [Objects -> Nat]], locked' \in [Threads -> 0..MaxLocks],
           query' \in Queries, locks' \in Nat, Counted'
    PROVE  ServerTypeOK'
<1>1. IsFiniteSet(Objects) /\ Living' \subseteq Objects
  BY ServerAssumption DEF Living, Allocated
<1>2. /\ Cardinality(Living') \in Nat /\ Cardinality(Objects) \in Nat
      /\ Cardinality(Living') <= Cardinality(Objects)
  BY <1>1, FS_Subset, FS_CardinalityType
<1>3. count' = Cardinality(Living')
  BY DEF Counted
<1> QED BY <1>2, <1>3 DEF ServerTypeOK, ObjectStates, Calls, Queries

\* An object somebody has a reference to is there and is not being freed.
LEMMA UsedLives ==
    ASSUME ServerInv, NEW o \in Objects, NEW t \in Threads, held[t][o] > 0 \/ t \in HandedBy(o)
    PROVE  object[o].references > 0 /\ object[o].kind # "free" /\ FreedBy(o) = {}
<1>1. /\ Row(o) \in [Threads -> Nat] /\ Users(o) = Tokens(Row(o), HandedBy(o))
      /\ Row(o)[t] = held[t][o] /\ object[o] \in ObjectStates
  BY ServerTypes DEF Row
<1>2. <<t, held[t][o]>> \in Users(o) \/ <<t, 0>> \in Users(o)
  BY <1>1, TokenIs
<1>3. IsFiniteSet(Users(o)) /\ object[o].references = Cardinality(Users(o))
  BY DEF ServerInv, Referred
<1>4. Cardinality(Users(o)) # 0
  BY <1>2, <1>3, FS_EmptySet
<1>5. object[o].references > 0
  BY <1>1, <1>3, <1>4 DEF ObjectStates
<1>6. object[o].kind # "free"
  BY <1>5 DEF ServerInv, ObjectSound, Unused
<1>7. FreedBy(o) = {}
  BY <1>5 DEF ServerInv, CallSound, FreedBy, Freeing
<1> QED BY <1>5, <1>6, <1>7

\* Who has a reference to an object follows from the references held and the calls.
LEMMA UsersSame ==
    ASSUME NEW o \in Objects, \A t \in Threads : held'[t][o] = held[t][o],
           HandedBy(o)' = HandedBy(o)
    PROVE  Users(o)' = Users(o)
BY DEF Users

LEMMA LivingSame ==
    ASSUME \A o \in Objects : object'[o].kind = "free" <=> object[o].kind = "free",
           \A t \in Threads, o \in Objects : call'[t] = At("drop", o) <=> call[t] = At("drop", o)
    PROVE  Living' = Living
BY DEF Living, Allocated

LEMMA CountedSame ==
    ASSUME ServerInv, Living' = Living, UNCHANGED <<count, locks, locked>>
    PROVE  Counted'
BY DEF ServerInv, Counted

LEMMA AskedSame ==
    ASSUME ServerInv, Living \subseteq Living', UNCHANGED <<locks, query>>
    PROVE  Asked'
BY DEF ServerInv, Asked

\* A call's object and what it says of itself.
LEMMA CallsAre ==
    ASSUME ServerInv, NEW t \in Threads
    PROVE  /\ call[t] \in Calls /\ CallSound(t)
           /\ call[t].at # "idle" => call[t].on \in Objects
           /\ call[t].at = "idle" => call[t].on \notin Objects
           /\ \A p : At("drop", p).at = "drop" /\ At("drop", p).on = p
<1>1. call[t] \in Calls /\ CallSound(t)
  BY ServerTypes DEF ServerInv
<1> QED BY <1>1, ServerAssumption DEF CallSound, Idle, At

-----------------------------------------------------------------------------
(* Steps on the references of one object.                                   *)

\* An object that is made: nobody knew its place.
LEMMA CreateKeeps ==
    ASSUME ServerInv, NEW t \in Threads, NEW o \in Objects, NEW kind \in {"factory", "provider"},
           call[t] = Idle, Create(t, o, kind), UNCHANGED <<locks, held, locked, query>>
    PROVE  ServerInv'
<1> DEFINE made == [Unused EXCEPT !.kind = kind, !.references = 1]
           c == At("query", o)
<1>1. /\ object[o] = Unused /\ object' = [object EXCEPT ![o] = made] /\ count' = count + 1
      /\ call' = [call EXCEPT ![t] = c]
  BY DEF Create, Goes
<1>2. made \in ObjectStates /\ c \in Calls /\ c.at = "query" /\ c.on = o /\ c = At(c.at, c.on)
  <2>1. made \in ObjectStates
    BY DEF ObjectStates, Unused
  <2> QED BY <2>1, ServerAssumption DEF Calls, At, Places
<1>3. /\ made.kind = kind /\ made.references = 1 /\ made.bytes = {} /\ kind # "free"
      /\ object[o].kind = "free" /\ object[o].references = 0
  BY <1>1 DEF Unused
<1> HIDE DEF made, c
<1>4. /\ object' \in [Objects -> ObjectStates] /\ call' \in [Threads -> Calls]
      /\ object'[o] = made /\ \A p \in Objects : p # o => object'[p] = object[p]
      /\ call'[t] = c /\ \A u \in Threads : u # t => call'[u] = call[u]
  BY <1>1, <1>2, ServerTypes
<1>5. \A u \in Threads : call[u].on # o
  BY <1>3, CallsAre DEF CallSound
<1>6. \A u \in Threads : held[u][o] = 0
  BY <1>3, UsedLives, ServerTypes
<1>7. HandedBy(o) = {} /\ HandedBy(o)' = {t}
  BY <1>2, <1>4, <1>5 DEF HandedBy
<1>8. ASSUME NEW p \in Objects, p # o
      PROVE  HandedBy(p)' = HandedBy(p) /\ FreedBy(p)' = FreedBy(p)
  BY <1>2, <1>4, <1>8, CallsAre DEF HandedBy, FreedBy, Idle
<1>9. \A u \in Threads : CallSound(u)'
  <2>1. CallSound(t)'
    BY <1>2, <1>3, <1>4 DEF CallSound, Freeing, Handing, Using, Reading
  <2>2. ASSUME NEW u \in Threads, u # t PROVE CallSound(u)'
    BY <1>4, <1>5, <2>2, CallsAre DEF CallSound, Freeing, Handing, Using, Reading
  <2> QED BY <2>1, <2>2
<1>10. ASSUME NEW p \in Objects PROVE ObjectSound(p)' /\ Referred(p)'
  <2>1. CASE p = o
    <3>1. ObjectSound(o)'
      BY <1>3, <1>4 DEF ObjectSound
    <3>2. Users(o) = {} /\ IsFiniteSet(Users(o))
      <4>1. IsFiniteSet(Users(o)) /\ Cardinality(Users(o)) = 0
        BY <1>3 DEF ServerInv, Referred
      <4> QED BY <4>1, FS_EmptySet
    <3>3. Users(o)' = Tokens(Row(o), HandedBy(o)') /\ HandedBy(o)' = HandedBy(o) \cup {t}
      BY <1>7 DEF Users, Row
    <3>4. Users(o) = Tokens(Row(o), HandedBy(o)) /\ Row(o) \in [Threads -> Nat]
      BY ServerTypes
    <3>5. Users(o)' = {<<t, 0>>}
      <4>1. Users(o)' = Users(o) \cup {<<t, 0>>}
        BY <3>3, <3>4, TokenJoins
      <4> QED BY <3>2, <4>1
    <3>6. IsFiniteSet({<<t, 0>>}) /\ Cardinality({<<t, 0>>}) = 1
      BY FS_Singleton
    <3>7. Referred(o)'
      BY <1>3, <1>4, <3>5, <3>6 DEF Referred
    <3> QED BY <2>1, <3>1, <3>7
  <2>2. CASE p # o
    <3>1. Users(p)' = Users(p)
      BY <1>8, <2>2, UsersSame
    <3> QED BY <1>4, <1>8, <2>2, <3>1 DEF ServerInv, ObjectSound, Referred
  <2> QED BY <2>1, <2>2
<1>11. FreedOnce'
  BY <1>2, <1>4 DEF ServerInv, FreedOnce, Freeing
<1>12. Living' = Living \cup {o} /\ o \notin Living
  <2>1. \A u \in Threads, p \in Objects : call'[u] = At("drop", p) <=> call[u] = At("drop", p)
    BY <1>2, <1>4, CallsAre DEF Idle, At
  <2>2. \A u \in Threads : call[u] # At("drop", o)
    BY <1>5, CallsAre
  <2> QED BY <1>3, <1>4, <2>1, <2>2 DEF Living, Allocated
<1>13. Counted'
  BY <1>1, <1>12, FS_AddElement DEF ServerInv, Counted
<1>14. Asked'
  BY <1>12, AskedSame
<1>15. ServerTypeOK'
  BY <1>4, <1>13, ServerTypes, ServerTyped
<1> QED BY <1>9, <1>10, <1>11, <1>13, <1>14, <1>15 DEF ServerInv

\* The other objects when a thread goes to or from a call on one of them.
LEMMA OtherObjectsKept ==
    ASSUME ServerInv, NEW t \in Threads, NEW o \in Objects, NEW c,
           call' = [call EXCEPT ![t] = c],
           call[t] = Idle \/ call[t].on = o, c = Idle \/ c.on = o,
           \A u \in Threads, p \in Objects : p # o => held'[u][p] = held[u][p],
           \A p \in Objects : p # o => object'[p] = object[p]
    PROVE  /\ \A p \in Objects : p # o =>
                ObjectSound(p)' /\ Referred(p)' /\ (p \in Living' <=> p \in Living)
           /\ call'[t] = c /\ \A u \in Threads : u # t => call'[u] = call[u]
<1>1. call'[t] = c /\ \A u \in Threads : u # t => call'[u] = call[u]
  BY ServerTypes
<1>2. \A p \in Objects : Idle.on # p
  BY ServerAssumption DEF Idle
<1>3. ASSUME NEW p \in Objects, p # o
      PROVE  ObjectSound(p)' /\ Referred(p)' /\ (p \in Living' <=> p \in Living)
  <2>1. call[t].on # p /\ call'[t].on # p
    BY <1>1, <1>2, <1>3
  <2>2. HandedBy(p)' = HandedBy(p) /\ FreedBy(p)' = FreedBy(p)
    BY <1>1, <2>1 DEF HandedBy, FreedBy
  <2>3. Users(p)' = Users(p)
    BY <1>3, <2>2, UsersSame
  <2>4. ObjectSound(p)' /\ Referred(p)'
    BY <1>3, <2>2, <2>3 DEF ServerInv, ObjectSound, Referred
  <2>5. At("drop", p).on = p
    BY DEF At
  <2>6. \A u \in Threads : call'[u] = At("drop", p) <=> call[u] = At("drop", p)
    BY <1>1, <2>1, <2>5
  <2> QED BY <1>3, <2>4, <2>6 DEF Living, Allocated
<1> QED BY <1>1, <1>3

\* A call that goes on as it was: its object is there as before.
LEMMA CallKept ==
    ASSUME ServerInv, NEW u \in Threads, call'[u] = call[u],
           NEW o, call[u].on = o,
           /\ object'[o].kind = object[o].kind /\ object'[o].bytes = object[o].bytes
           /\ object'[o].reader = object[o].reader
           /\ call[u].at \in Freeing => object'[o].references = object[o].references
           /\ call[u].at \in Using => held'[u][o] > 0
    PROVE  CallSound(u)'
<1>1. PICK c, p : c = call[u] /\ p = c.on
  OBVIOUS
<1>2. CallSound(u) /\ (c.at # "idle" => p \in Objects)
  BY <1>1, CallsAre
<1>3. /\ c.at \in Reading => c.at \in Using
      /\ c.at = "render" => c.at \in Using
  BY DEF Reading, Using
<1>4. /\ object'[p].kind = object[p].kind /\ object'[p].bytes = object[p].bytes
      /\ object'[p].reader = object[p].reader
      /\ c.at \in Freeing => object'[p].references = object[p].references
      /\ c.at \in Using => held'[u][p] > 0
  BY <1>1, <1>2
<1> QED BY <1>1, <1>2, <1>3, <1>4 DEF CallSound

\* A reference that is taken is counted.
LEMMA ReferenceTaken ==
    ASSUME ServerInv, NEW u \in Threads, NEW o \in Objects, HandedBy(o)' = HandedBy(o),
           object[o].references > 0, FreedBy(o) = {},
           object' = [object EXCEPT ![o].references = @ + 1],
           held' = [held EXCEPT ![u][o] = @ + 1]
    PROVE  /\ object' \in [Objects -> ObjectStates] /\ held' \in [Threads -> [Objects -> Nat]]
           /\ \A p \in Objects : /\ object'[p].kind = object[p].kind
                                 /\ object'[p].bytes = object[p].bytes
                                 /\ object'[p].reader = object[p].reader
                                 /\ p # o => object'[p] = object[p]
           /\ \A v \in Threads, p \in Objects : /\ held'[v][p] >= held[v][p]
                                                /\ p # o => held'[v][p] = held[v][p]
           /\ ObjectSound(o)' /\ Referred(o)'
<1>1. /\ object' \in [Objects -> ObjectStates]
      /\ \A p \in Objects : /\ object'[p].kind = object[p].kind
                            /\ object'[p].bytes = object[p].bytes
                            /\ object'[p].reader = object[p].reader
                            /\ p # o => object'[p] = object[p]
      /\ object'[o].references = object[o].references + 1
  <2>1. object[o] \in ObjectStates
    BY ServerTypes
  <2>2. [object[o] EXCEPT !.references = @ + 1] \in ObjectStates
    BY <2>1 DEF ObjectStates
  <2> QED BY <2>1, <2>2, ServerTypes DEF ObjectStates
<1>2. /\ held' \in [Threads -> [Objects -> Nat]]
      /\ \A v \in Threads, p \in Objects :
           held'[v][p] = IF v = u /\ p = o THEN held[v][p] + 1 ELSE held[v][p]
  BY ServerTypes
<1>3. \A v \in Threads, p \in Objects : /\ held'[v][p] >= held[v][p]
                                        /\ p # o => held'[v][p] = held[v][p]
  BY <1>2, ServerTypes
<1>4. ObjectSound(o)'
  <2>1. object[o].references \in Nat /\ object[o].kind # "free"
    BY ServerTypes DEF ObjectStates, ServerInv, ObjectSound, Unused
  <2> QED BY <1>1, <2>1 DEF ObjectSound, ServerInv
<1>5. Referred(o)'
  <2>1. PICK h, g, p : h = Row(o) /\ g = Row(o)' /\ p = HandedBy(o)
    OBVIOUS
  <2>2. h \in [Threads -> Nat] /\ Users(o) = Tokens(h, p) /\ Users(o)' = Tokens(g, p)
    BY <2>1, ServerTypes DEF Users, Row
  <2>3. g = [h EXCEPT ![u] = h[u] + 1]
    BY <1>2, <2>1 DEF Row
  <2>4. /\ Users(o)' = Users(o) \cup {<<u, h[u] + 1>>}
        /\ <<u, h[u] + 1>> \notin Users(o)
    <3>1. /\ Tokens(g, p) = Tokens(h, p) \cup {<<u, h[u] + 1>>}
          /\ <<u, h[u] + 1>> \notin Tokens(h, p)
      <4>1. h \in [Threads -> Nat] /\ u \in Threads
        BY <2>2
      <4> QED BY ONLY <2>3, <4>1, TokenTaken
    <3> QED BY <2>2, <3>1
  <2>5. IsFiniteSet(Users(o)) /\ object[o].references = Cardinality(Users(o))
    BY DEF ServerInv, Referred
  <2>6. object[o].references \in Nat
    BY ServerTypes DEF ObjectStates
  <2>7. IsFiniteSet(Users(o)') /\ Cardinality(Users(o)') = Cardinality(Users(o)) + 1
    BY <2>4, <2>5, FS_AddElement
  <2> QED BY <1>1, <2>5, <2>7 DEF Referred
<1> QED BY <1>1, <1>2, <1>3, <1>4, <1>5

\* The parts of the invariant that a step on one object keeps when no object comes or goes.
LEMMA PartsKept ==
    ASSUME ServerInv, NEW o \in Objects, object' \in [Objects -> ObjectStates],
           call' \in [Threads -> Calls], held' \in [Threads -> [Objects -> Nat]],
           UNCHANGED <<count, locks, locked, query>>,
           \A u \in Threads : CallSound(u)',
           ObjectSound(o)' /\ Referred(o)',
           \A p \in Objects : p # o =>
             ObjectSound(p)' /\ Referred(p)' /\ (p \in Living' <=> p \in Living),
           o \in Living' <=> o \in Living, FreedOnce'
    PROVE  ServerInv'
<1>1. Living' = Living
  BY DEF Living, Allocated
<1>2. Counted' /\ Asked'
  BY <1>1, CountedSame, AskedSame
<1>3. ServerTypeOK'
  BY <1>2, ServerTypes, ServerTyped
<1> QED BY <1>2, <1>3 DEF ServerInv

\* A thread that hands out a new object's interface goes on to give up its own reference.
LEMMA QueryKeeps ==
    ASSUME ServerInv, NEW t \in Threads, QueryInterface(t)
    PROVE  ServerInv'
<1>1. PICK o, c : o = call[t].on /\ c = At("release", o)
  OBVIOUS
<1>2. o \in Objects /\ call[t].at = "query" /\ call' = [call EXCEPT ![t] = c]
  BY <1>1, CallsAre DEF QueryInterface, Goes
<1>3. c \in Calls /\ c.at = "release" /\ c.on = o /\ c = At(c.at, c.on)
  BY <1>1, <1>2, ServerAssumption DEF Calls, At, Places
<1>4. t \in HandedBy(o)
  BY <1>1, <1>2 DEF HandedBy
<1>5. object[o].references > 0 /\ object[o].kind # "free" /\ FreedBy(o) = {}
  BY <1>2, <1>4, UsedLives
<1>6. /\ call' \in [Threads -> Calls] /\ call'[t] = c
      /\ \A u \in Threads : u # t => call'[u] = call[u]
  BY <1>2, <1>3, ServerTypes
<1>7. HandedBy(o)' = HandedBy(o)
  BY <1>1, <1>2, <1>3, <1>6 DEF HandedBy
<1>8. /\ object' \in [Objects -> ObjectStates] /\ held' \in [Threads -> [Objects -> Nat]]
      /\ \A q \in Objects : /\ object'[q].kind = object[q].kind
                            /\ object'[q].bytes = object[q].bytes
                            /\ object'[q].reader = object[q].reader
                            /\ q # o => object'[q] = object[q]
      /\ \A v \in Threads, q \in Objects : /\ held'[v][q] >= held[v][q]
                                           /\ q # o => held'[v][q] = held[v][q]
      /\ ObjectSound(o)' /\ Referred(o)'
  <2>1. CASE UNCHANGED <<object, held>>
    <3>1. Users(o)' = Users(o)
      BY <1>2, <1>7, <2>1, UsersSame
    <3>2. FreedBy(o)' = FreedBy(o)
      BY <1>1, <1>2, <1>3, <1>6 DEF FreedBy
    <3>3. ObjectSound(o)' /\ Referred(o)'
      BY <1>2, <2>1, <3>1, <3>2 DEF ServerInv, ObjectSound, Referred
    <3> QED BY <2>1, <3>3, ServerTypes
  <2>2. CASE /\ object' = [object EXCEPT ![o].references = @ + 1]
             /\ held' = [held EXCEPT ![t][o] = @ + 1]
    BY <1>2, <1>5, <1>7, <2>2, ReferenceTaken
  <2> QED BY <1>1, <2>1, <2>2 DEF QueryInterface
<1>9. \A q \in Objects : q # o =>
            ObjectSound(q)' /\ Referred(q)' /\ (q \in Living' <=> q \in Living)
  <2>1. /\ \A u \in Threads, q \in Objects : q # o => held'[u][q] = held[u][q]
        /\ \A q \in Objects : q # o => object'[q] = object[q]
    BY <1>8
  <2> QED BY <1>1, <1>2, <1>3, <2>1, OtherObjectsKept
<1>10. \A u \in Threads : CallSound(u)'
  <2>1. CallSound(t)'
    BY <1>2, <1>3, <1>5, <1>6, <1>8 DEF CallSound, Freeing, Handing, Using, Reading
  <2>2. ASSUME NEW u \in Threads, u # t PROVE CallSound(u)'
    <3>1. CASE call[u].at = "idle"
      BY <1>6, <2>2, <3>1, CallsAre DEF CallSound, Freeing, Handing, Using, Reading
    <3>2. CASE call[u].at # "idle"
      <4>1. PICK p \in Objects : p = call[u].on
        BY <3>2, CallsAre
      <4>2. call[u].at \in Freeing => p # o
        BY <1>5, <4>1 DEF FreedBy, Freeing
      <4>3. call[u].at \in Using => held[u][p] > 0
        BY <4>1, CallsAre DEF CallSound
      <4>4. held[u][p] \in Nat /\ held'[u][p] \in Nat /\ held'[u][p] >= held[u][p]
        BY <1>8, ServerTypes
      <4> QED BY <1>6, <1>8, <2>2, <4>1, <4>2, <4>3, <4>4, CallKept
    <3> QED BY <3>1, <3>2
  <2> QED BY <2>1, <2>2
<1>11. o \in Living' <=> o \in Living
  <2>1. \A u \in Threads : call'[u] # At("drop", o) /\ call[u] # At("drop", o)
    BY <1>2, <1>3, <1>5, <1>6, CallsAre DEF FreedBy
  <2> QED BY <1>2, <1>8, <2>1 DEF Living, Allocated
<1>12. FreedOnce'
  BY <1>3, <1>6 DEF ServerInv, FreedOnce, Freeing
<1>13. UNCHANGED <<count, locks, locked, query>>
  BY DEF QueryInterface
<1> QED BY <1>2, <1>6, <1>8, <1>9, <1>10, <1>11, <1>12, <1>13, PartsKept

\* A thread that has a reference takes one more, for itself or for another thread.
LEMMA AddRefKeeps ==
    ASSUME ServerInv, NEW t \in Threads, NEW u \in Threads, NEW o \in Objects, AddRef(t, u, o)
    PROVE  ServerInv'
<1>1. UNCHANGED <<count, locks, call, locked, query>> /\ held[t][o] > 0 /\ call[t] = Idle
  BY DEF AddRef, MayCall
<1>2. object[o].references > 0 /\ object[o].kind # "free" /\ FreedBy(o) = {}
  BY <1>1, UsedLives
<1>3. HandedBy(o)' = HandedBy(o)
  BY <1>1 DEF HandedBy
<1>4. /\ object' \in [Objects -> ObjectStates] /\ held' \in [Threads -> [Objects -> Nat]]
      /\ \A q \in Objects : /\ object'[q].kind = object[q].kind
                            /\ object'[q].bytes = object[q].bytes
                            /\ object'[q].reader = object[q].reader
                            /\ q # o => object'[q] = object[q]
      /\ \A v \in Threads, q \in Objects : /\ held'[v][q] >= held[v][q]
                                           /\ q # o => held'[v][q] = held[v][q]
      /\ ObjectSound(o)' /\ Referred(o)'
  BY <1>2, <1>3, ReferenceTaken DEF AddRef
<1>5. \A q \in Objects : q # o =>
            ObjectSound(q)' /\ Referred(q)' /\ (q \in Living' <=> q \in Living)
  <2>1. /\ \A v \in Threads, q \in Objects : q # o => held'[v][q] = held[v][q]
        /\ \A q \in Objects : q # o => object'[q] = object[q]
    BY <1>4
  <2>2. call' = [call EXCEPT ![t] = Idle]
    BY <1>1, ServerTypes
  <2> QED BY <1>1, <2>1, <2>2, OtherObjectsKept
<1>6. \A v \in Threads : CallSound(v)'
  <2>1. SUFFICES ASSUME NEW v \in Threads PROVE CallSound(v)'
    OBVIOUS
  <2>2. CASE call[v].at = "idle"
    BY <1>1, <2>2, CallsAre DEF CallSound, Freeing, Handing, Using, Reading
  <2>3. CASE call[v].at # "idle"
    <3>1. PICK p \in Objects : p = call[v].on
      BY <2>3, CallsAre
    <3>2. call[v].at \in Freeing => p # o
      BY <1>2, <3>1 DEF FreedBy, Freeing
    <3>3. call[v].at \in Using => held[v][p] > 0
      BY <3>1, CallsAre DEF CallSound
    <3>4. held[v][p] \in Nat /\ held'[v][p] \in Nat /\ held'[v][p] >= held[v][p]
      BY <1>4, ServerTypes
    <3> QED BY <1>1, <1>4, <3>1, <3>2, <3>3, <3>4, CallKept
  <2> QED BY <2>2, <2>3
<1>7. o \in Living' <=> o \in Living
  BY <1>1, <1>4 DEF Living, Allocated
<1>8. FreedOnce' /\ call' \in [Threads -> Calls]
  BY <1>1, ServerTypes DEF ServerInv, FreedOnce
<1> QED BY <1>1, <1>4, <1>5, <1>6, <1>7, <1>8, PartsKept

\* A thread gives up a reference: it is counted down in the call that follows.
LEMMA StartReleaseKeeps ==
    ASSUME ServerInv, NEW t \in Threads, NEW o \in Objects, StartRelease(t, o)
    PROVE  ServerInv'
<1>1. PICK c : c = At("release", o)
  OBVIOUS
<1>2. /\ UNCHANGED <<object, count, locks, locked, query>> /\ held[t][o] > 0 /\ call[t] = Idle
      /\ call' = [call EXCEPT ![t] = c] /\ held' = [held EXCEPT ![t][o] = @ - 1]
  BY <1>1 DEF StartRelease, MayCall, Goes
<1>3. c \in Calls /\ c.at = "release" /\ c.on = o /\ c = At(c.at, c.on)
  BY <1>1, <1>2, ServerAssumption DEF Calls, At, Places
<1>4. object[o].references > 0 /\ object[o].kind # "free" /\ FreedBy(o) = {}
  BY <1>2, UsedLives
<1>5. /\ call' \in [Threads -> Calls] /\ call'[t] = c
      /\ \A u \in Threads : u # t => call'[u] = call[u]
  BY <1>2, <1>3, ServerTypes
<1>6. /\ held' \in [Threads -> [Objects -> Nat]]
      /\ \A v \in Threads, p \in Objects :
           held'[v][p] = IF v = t /\ p = o THEN held[v][p] - 1 ELSE held[v][p]
  BY <1>2, ServerTypes
<1>7. IsFiniteSet(Users(o)') /\ Cardinality(Users(o)') = Cardinality(Users(o))
  <2>1. PICK h, g, p, q : h = Row(o) /\ g = Row(o)' /\ p = HandedBy(o) /\ q = HandedBy(o)'
    OBVIOUS
  <2>2. h \in [Threads -> Nat] /\ Users(o) = Tokens(h, p) /\ Users(o)' = Tokens(g, q)
    BY <2>1, ServerTypes DEF Users, Row
  <2>3. g = [h EXCEPT ![t] = h[t] - 1] /\ h[t] = held[t][o]
    BY <1>6, <2>1 DEF Row
  <2>4. g \in [Threads -> Nat] /\ t \in Threads /\ h[t] > 0 /\ h \in [Threads -> Nat]
    BY <1>2, <2>2, <2>3
  <2>5. q = p \cup {t} /\ t \notin p
    BY <1>2, <1>3, <1>5, <2>1 DEF HandedBy, Idle
  <2>6. Tokens(g, p) = Tokens(h, p) \ {<<t, h[t]>>} /\ <<t, h[t]>> \in Tokens(h, p)
    <3>1. g = [h EXCEPT ![t] = h[t] - 1]
      BY <2>3
    <3> QED BY ONLY <2>4, <3>1, TokenGiven
  <2>7. Tokens(g, q) = Tokens(g, p) \cup {<<t, 0>>}
    BY ONLY <2>4, <2>5, TokenJoins
  <2>8. <<t, 0>> \notin Tokens(g, p)
    BY ONLY <2>4, <2>5, TokenOfCall
  <2>9. IsFiniteSet(Tokens(h, p))
    BY <2>2 DEF ServerInv, Referred
  <2>10. PICK S, T, U : S = Tokens(h, p) /\ T = Tokens(g, p) /\ U = Tokens(g, q)
    OBVIOUS
  <2>11. IsFiniteSet(T) /\ Cardinality(T) = Cardinality(S) - 1
    BY <2>6, <2>9, <2>10, FS_RemoveElement
  <2>12. IsFiniteSet(U) /\ Cardinality(U) = Cardinality(T) + 1
    BY <2>7, <2>8, <2>10, <2>11, FS_AddElement
  <2>13. Cardinality(S) \in Nat
    BY <2>9, <2>10, FS_CardinalityType
  <2> QED BY <2>2, <2>10, <2>11, <2>12, <2>13
<1>8. Referred(o)' /\ ObjectSound(o)'
  <2>1. FreedBy(o)' = FreedBy(o)
    BY <1>2, <1>3, <1>5 DEF FreedBy, Idle
  <2> QED BY <1>2, <1>7, <2>1 DEF Referred, ServerInv, ObjectSound
<1>9. \A q \in Objects : q # o =>
            ObjectSound(q)' /\ Referred(q)' /\ (q \in Living' <=> q \in Living)
  <2>1. /\ \A u \in Threads, q \in Objects : q # o => held'[u][q] = held[u][q]
        /\ \A q \in Objects : q # o => object'[q] = object[q]
    BY <1>2, <1>6
  <2> QED BY <1>2, <1>3, <2>1, OtherObjectsKept
<1>10. \A u \in Threads : CallSound(u)'
  <2>1. CallSound(t)'
    BY <1>2, <1>3, <1>4, <1>5 DEF CallSound, Freeing, Handing, Using, Reading
  <2>2. ASSUME NEW u \in Threads, u # t PROVE CallSound(u)'
    <3>1. CASE call[u].at = "idle"
      BY <1>5, <2>2, <3>1, CallsAre DEF CallSound, Freeing, Handing, Using, Reading
    <3>2. CASE call[u].at # "idle"
      <4>1. PICK p \in Objects : p = call[u].on
        BY <3>2, CallsAre
      <4>2. call[u].at \in Using => held[u][p] > 0
        BY <4>1, CallsAre DEF CallSound
      <4> QED BY <1>2, <1>5, <1>6, <2>2, <4>1, <4>2, CallKept
    <3> QED BY <3>1, <3>2
  <2> QED BY <2>1, <2>2
<1>11. o \in Living' <=> o \in Living
  <2>1. \A u \in Threads : call'[u] # At("drop", o) /\ call[u] # At("drop", o)
    BY <1>2, <1>3, <1>4, <1>5, CallsAre DEF FreedBy
  <2> QED BY <1>2, <2>1 DEF Living, Allocated
<1>12. FreedOnce'
  BY <1>3, <1>5 DEF ServerInv, FreedOnce, Freeing
<1> QED BY <1>2, <1>5, <1>6, <1>8, <1>9, <1>10, <1>11, <1>12, PartsKept, ServerTypes

\* A reference that is given up is counted down; with the last the object is destroyed.
LEMMA ReleaseKeeps ==
    ASSUME ServerInv, NEW t \in Threads, Release(t)
    PROVE  ServerInv'
<1>1. PICK o, c : /\ o = call[t].on
                  /\ c = IF object[o].references = 1 THEN At("destroy", o) ELSE Idle
  OBVIOUS
<1>2. /\ UNCHANGED <<count, locks, held, locked, query>> /\ call[t].at = "release"
      /\ o \in Objects /\ call' = [call EXCEPT ![t] = c]
      /\ object' = [object EXCEPT ![o].references = @ - 1]
  BY <1>1, CallsAre DEF Release, Goes
<1>3. c = Idle \/ (c.at = "destroy" /\ c.on = o /\ c = At(c.at, c.on))
  BY <1>1 DEF At
<1>4. c \in Calls /\ Idle.at = "idle"
  BY <1>1, <1>2, ServerAssumption DEF Calls, At, Places, Idle
<1>5. t \in HandedBy(o)
  BY <1>1, <1>2 DEF HandedBy
<1>6. object[o].references > 0 /\ object[o].kind # "free" /\ FreedBy(o) = {}
  BY <1>2, <1>5, UsedLives
<1>7. /\ call' \in [Threads -> Calls] /\ call'[t] = c
      /\ \A u \in Threads : u # t => call'[u] = call[u]
  BY <1>2, <1>4, ServerTypes
<1>8. /\ object' \in [Objects -> ObjectStates]
      /\ \A q \in Objects : /\ object'[q].kind = object[q].kind
                            /\ object'[q].bytes = object[q].bytes
                            /\ object'[q].reader = object[q].reader
                            /\ q # o => object'[q] = object[q]
      /\ object'[o].references = object[o].references - 1
  <2>1. object[o] \in ObjectStates
    BY <1>2, ServerTypes
  <2>2. [object[o] EXCEPT !.references = @ - 1] \in ObjectStates
    BY <1>6, <2>1 DEF ObjectStates
  <2> QED BY <1>2, <2>1, <2>2, ServerTypes DEF ObjectStates
<1>9. Referred(o)'
  <2>1. PICK h, p, q : h = Row(o) /\ p = HandedBy(o) /\ q = HandedBy(o)'
    OBVIOUS
  <2>2. h \in [Threads -> Nat] /\ Users(o) = Tokens(h, p) /\ Users(o)' = Tokens(h, q)
    BY <1>2, <2>1, ServerTypes DEF Users, Row
  <2>3. q = p \ {t} /\ t \in p /\ t \in Threads /\ h \in [Threads -> Nat]
    BY <1>2, <1>3, <1>4, <1>5, <1>7, <2>1, <2>2 DEF HandedBy
  <2>4. Tokens(h, q) = Tokens(h, p) \ {<<t, 0>>} /\ <<t, 0>> \in Tokens(h, p)
    BY ONLY <2>3, TokenLeaves, TokenOfCall
  <2>5. IsFiniteSet(Tokens(h, p)) /\ object[o].references = Cardinality(Tokens(h, p))
    BY <1>2, <2>2 DEF ServerInv, Referred
  <2>6. IsFiniteSet(Tokens(h, q)) /\ Cardinality(Tokens(h, q)) = Cardinality(Tokens(h, p)) - 1
    BY ONLY <2>4, <2>5, FS_RemoveElement
  <2> QED BY <1>8, <2>2, <2>5, <2>6 DEF Referred
<1>10. ObjectSound(o)'
  <2>1. object'[o].references = 0 => FreedBy(o)' # {}
    <3>1. SUFFICES ASSUME object'[o].references = 0 PROVE t \in FreedBy(o)'
      OBVIOUS
    <3>2. object[o].references = 1
      <4>1. object[o].references \in Nat
        BY <1>2, ServerTypes DEF ObjectStates
      <4> QED BY <1>8, <3>1, <4>1
    <3> QED BY <1>1, <1>7, <3>2 DEF FreedBy, At
  <2> QED BY <1>2, <1>6, <1>8, <2>1 DEF ServerInv, ObjectSound
<1>11. \A q \in Objects : q # o =>
            ObjectSound(q)' /\ Referred(q)' /\ (q \in Living' <=> q \in Living)
  <2>1. /\ \A u \in Threads, q \in Objects : q # o => held'[u][q] = held[u][q]
        /\ \A q \in Objects : q # o => object'[q] = object[q]
    BY <1>2, <1>8
  <2>2. /\ call[t].on = o /\ (c = Idle \/ c.on = o) /\ o \in Objects
        /\ call' = [call EXCEPT ![t] = c]
    BY <1>1, <1>2, <1>3
  <2> QED BY <2>1, <2>2, OtherObjectsKept
<1>12. \A u \in Threads : CallSound(u)'
  <2>1. CallSound(t)'
    <3>1. CASE c = Idle
      BY <1>4, <1>7, <3>1 DEF CallSound, Freeing, Handing, Using, Reading
    <3>2. CASE c # Idle
      <4>1. c.at = "destroy" /\ c.on = o /\ c = At(c.at, c.on) /\ object[o].references = 1
        BY <1>1, <1>3, <3>2
      <4>2. object'[o].references = 0 /\ object'[o].kind # "free"
        BY <1>2, <1>6, <1>8, <4>1
      <4> QED BY <1>2, <1>7, <4>1, <4>2 DEF CallSound, Freeing, Handing, Using, Reading
    <3> QED BY <3>1, <3>2
  <2>2. ASSUME NEW u \in Threads, u # t PROVE CallSound(u)'
    <3>1. CASE call[u].at = "idle"
      BY <1>7, <2>2, <3>1, CallsAre DEF CallSound, Freeing, Handing, Using, Reading
    <3>2. CASE call[u].at # "idle"
      <4>1. PICK p \in Objects : p = call[u].on
        BY <3>2, CallsAre
      <4>2. call[u].at \in Using => held[u][p] > 0
        BY <4>1, CallsAre DEF CallSound
      <4>3. call[u].at \in Freeing => p # o
        BY <1>6, <4>1 DEF FreedBy, Freeing
      <4> QED BY <1>2, <1>7, <1>8, <2>2, <4>1, <4>2, <4>3, CallKept
    <3> QED BY <3>1, <3>2
  <2> QED BY <2>1, <2>2
<1>13. o \in Living' <=> o \in Living
  <2>1. \A u \in Threads : call[u] # At("drop", o)
    BY <1>6, CallsAre DEF FreedBy
  <2>2. call'[t] # At("drop", o)
    BY <1>3, <1>4, <1>7, CallsAre
  <2> QED BY <1>2, <1>7, <1>8, <2>1, <2>2 DEF Living, Allocated
<1>14. FreedOnce'
  <2>1. \A u \in Threads : call[u].at \in Freeing => call[u].on # o
    BY <1>6 DEF FreedBy, Freeing
  <2> QED BY <1>3, <1>4, <1>7, <2>1 DEF ServerInv, FreedOnce, Freeing
<1> QED BY <1>2, <1>7, <1>8, <1>9, <1>10, <1>11, <1>12, <1>13, <1>14, PartsKept, ServerTypes

\* The object that is destroyed is counted no more, and no answer waits for it.
LEMMA DestroyKeeps ==
    ASSUME ServerInv, NEW t \in Threads, Destroy(t)
    PROVE  ServerInv'
<1>1. PICK o, c : o = call[t].on /\ c = At("drop", o)
  OBVIOUS
<1>2. /\ UNCHANGED <<object, locks, held, locked>> /\ call[t].at = "destroy"
      /\ o \in Objects /\ call' = [call EXCEPT ![t] = c] /\ count' = count - 1
      /\ query' = [query EXCEPT !.lived = @ \ {o}]
  BY <1>1, CallsAre DEF Destroy, Goes, Forgotten
<1>3. c \in Calls /\ c.at = "drop" /\ c.on = o /\ c = At(c.at, c.on)
  BY <1>1, <1>2, ServerAssumption DEF Calls, At, Places
<1>4. /\ call' \in [Threads -> Calls] /\ call'[t] = c
      /\ \A u \in Threads : u # t => call'[u] = call[u]
  BY <1>2, <1>3, ServerTypes
<1>5. object[o].kind # "free" /\ object[o].references = 0
  BY <1>1, <1>2, CallsAre DEF CallSound, Freeing
<1>6. FreedBy(o)' = FreedBy(o) /\ HandedBy(o)' = HandedBy(o) /\ FreedBy(o) # {}
  BY <1>1, <1>2, <1>3, <1>4 DEF FreedBy, HandedBy
<1>7. Referred(o)' /\ ObjectSound(o)'
  <2>1. Users(o)' = Users(o)
    BY <1>2, <1>6, UsersSame
  <2> QED BY <1>2, <1>6, <2>1 DEF Referred, ServerInv, ObjectSound
<1>8. \A q \in Objects : q # o =>
            ObjectSound(q)' /\ Referred(q)' /\ (q \in Living' <=> q \in Living)
  <2>1. call[t].on = o /\ c.on = o /\ o \in Objects /\ call' = [call EXCEPT ![t] = c]
    BY <1>1, <1>2, <1>3
  <2>2. /\ \A u \in Threads, q \in Objects : q # o => held'[u][q] = held[u][q]
        /\ \A q \in Objects : q # o => object'[q] = object[q]
    BY <1>2
  <2> QED BY <2>1, <2>2, OtherObjectsKept
<1>9. \A u \in Threads : CallSound(u)'
  <2>1. CallSound(t)'
    BY <1>2, <1>3, <1>4, <1>5 DEF CallSound, Freeing, Handing, Using, Reading
  <2>2. ASSUME NEW u \in Threads, u # t PROVE CallSound(u)'
    BY <1>2, <1>4, <2>2 DEF ServerInv, CallSound
  <2> QED BY <2>1, <2>2
<1>10. FreedOnce'
  BY <1>1, <1>2, <1>3, <1>4 DEF ServerInv, FreedOnce, Freeing
<1>11. Living' = Living \ {o} /\ o \in Living
  <2>1. \A u \in Threads : call[u] # At("drop", o)
    BY <1>1, <1>2, CallsAre DEF ServerInv, FreedOnce, Freeing
  <2>2. o \in Living
    BY <1>2, <1>5, <2>1 DEF Living, Allocated
  <2>3. o \notin Living'
    BY <1>1, <1>4 DEF Living
  <2>4. Living \subseteq Objects /\ Living' \subseteq Objects
    BY DEF Living, Allocated
  <2> QED BY <1>8, <2>2, <2>3, <2>4
<1>12. Counted'
  BY <1>2, <1>11, FS_RemoveElement DEF ServerInv, Counted
<1>13. query' \in Queries /\ Asked'
  <2>1. query \in Queries
    BY ServerTypes
  <2>2. /\ query'.lived = query.lived \ {o} /\ query'.at = query.at /\ query'.lock = query.lock
        /\ query' \in Queries
    BY <1>2, <2>1 DEF Queries
  <2> QED BY <1>2, <1>11, <2>2 DEF ServerInv, Asked
<1>14. ServerTypeOK'
  BY <1>2, <1>4, <1>12, <1>13, ServerTypes, ServerTyped
<1> QED BY <1>7, <1>8, <1>9, <1>10, <1>12, <1>13, <1>14 DEF ServerInv

\* The place of an object that was destroyed is free again.
LEMMA DropKeeps ==
    ASSUME ServerInv, NEW t \in Threads, Drop(t)
    PROVE  ServerInv'
<1>1. PICK o : o = call[t].on
  OBVIOUS
<1>2. /\ UNCHANGED <<count, locks, held, locked, query>> /\ call[t].at = "drop"
      /\ o \in Objects /\ call' = [call EXCEPT ![t] = Idle]
      /\ object' = [object EXCEPT ![o] = Unused] /\ call[t] = At("drop", o)
  BY <1>1, CallsAre DEF Drop, Goes, CallSound, Freeing
<1>3. Idle \in Calls /\ Idle.at = "idle" /\ Unused \in ObjectStates
  BY ServerAssumption DEF Calls, Places, Idle, ObjectStates, Unused
<1>4. /\ call' \in [Threads -> Calls] /\ call'[t] = Idle
      /\ \A u \in Threads : u # t => call'[u] = call[u]
      /\ object' \in [Objects -> ObjectStates] /\ object'[o] = Unused
      /\ \A q \in Objects : q # o => object'[q] = object[q]
  BY <1>2, <1>3, ServerTypes
<1>5. object[o].references = 0
  BY <1>1, <1>2, CallsAre DEF CallSound, Freeing
<1>6. ASSUME NEW u \in Threads, u # t PROVE call[u].on # o
  <2>1. SUFFICES ASSUME call[u].on = o PROVE FALSE
    OBVIOUS
  <2>2. call[u].at # "idle"
    BY <1>2, <2>1, CallsAre
  <2>3. call[u].at \notin Freeing
    BY <1>1, <1>2, <1>6, <2>1 DEF ServerInv, FreedOnce, Freeing
  <2>4. call[u].at \in Using \cup Handing
    BY <2>2, <2>3, ServerTypes DEF Calls, Places, Using, Handing, Freeing
  <2>5. held[u][o] > 0 \/ u \in HandedBy(o)
    BY <2>1, <2>4, CallsAre DEF CallSound, HandedBy, Using, Handing
  <2> QED BY <1>2, <1>5, <2>5, UsedLives
<1>7. Referred(o)' /\ ObjectSound(o)'
  <2>1. HandedBy(o)' = HandedBy(o)
    BY <1>1, <1>2, <1>3, <1>4 DEF HandedBy
  <2>2. Users(o)' = Users(o)
    BY <1>2, <2>1, UsersSame
  <2> QED BY <1>2, <1>4, <1>5, <2>2 DEF Referred, ServerInv, ObjectSound, Unused
<1>8. \A q \in Objects : q # o =>
            ObjectSound(q)' /\ Referred(q)' /\ (q \in Living' <=> q \in Living)
  <2>1. call[t].on = o /\ o \in Objects /\ call' = [call EXCEPT ![t] = Idle]
    BY <1>1, <1>2
  <2>2. /\ \A u \in Threads, q \in Objects : q # o => held'[u][q] = held[u][q]
        /\ \A q \in Objects : q # o => object'[q] = object[q]
    BY <1>2, <1>4
  <2> QED BY <2>1, <2>2, OtherObjectsKept
<1>9. \A u \in Threads : CallSound(u)'
  <2>1. CallSound(t)'
    BY <1>3, <1>4 DEF CallSound, Freeing, Handing, Using, Reading
  <2>2. ASSUME NEW u \in Threads, u # t PROVE CallSound(u)'
    <3>1. CASE call[u].at = "idle"
      BY <1>4, <2>2, <3>1, CallsAre DEF CallSound, Freeing, Handing, Using, Reading
    <3>2. CASE call[u].at # "idle"
      <4>1. PICK p \in Objects : p = call[u].on /\ p # o
        BY <1>6, <2>2, <3>2, CallsAre
      <4>2. call[u].at \in Using => held[u][p] > 0
        BY <4>1, CallsAre DEF CallSound
      <4> QED BY <1>2, <1>4, <2>2, <4>1, <4>2, CallKept
    <3> QED BY <3>1, <3>2
  <2> QED BY <2>1, <2>2
<1>10. FreedOnce'
  BY <1>3, <1>4 DEF ServerInv, FreedOnce, Freeing
<1>11. o \in Living' <=> o \in Living
  BY <1>2, <1>4 DEF Living, Allocated, Unused
<1> QED BY <1>2, <1>4, <1>7, <1>8, <1>9, <1>10, <1>11, PartsKept, ServerTypes

-----------------------------------------------------------------------------
(* Steps on the document bytes of a provider.                               *)

\* What a provider's calls do to its mutex and its bytes no other call sees change.
LEMMA ReadMoves ==
    ASSUME ServerInv, NEW t \in Threads, NEW o \in Objects, NEW c \in Calls,
           call' = [call EXCEPT ![t] = c], held[t][o] > 0,
           call[t] = Idle \/ (call[t].at \in Using /\ call[t].on = o),
           c = Idle \/ (c.at \in Using /\ c.on = o),
           UNCHANGED <<count, locks, held, locked, query>>,
           object' \in [Objects -> ObjectStates],
           \A q \in Objects : q # o => object'[q] = object[q],
           object'[o].kind = object[o].kind, object'[o].references = object[o].references,
           object'[o].bytes = {} \/ \E n \in 0..MaxInput : object'[o].bytes = {n},
           object'[o].reader = object[o].reader \/ object[o].reader \in {t, "nobody"},
           object'[o].bytes = object[o].bytes \/ (object[o].bytes = {} /\ object[o].reader = t),
           c.at \in Reading => object'[o].reader = t /\ object'[o].bytes = {},
           c.at = "render" => object'[o].bytes = {c.length}
    PROVE  ServerInv'
<1>1. /\ call' \in [Threads -> Calls] /\ call'[t] = c
      /\ \A u \in Threads : u # t => call'[u] = call[u]
  BY ServerTypes
<1>2. Idle.at = "idle" /\ \A p \in Objects : At("drop", p).at = "drop"
  BY DEF Idle, At
<1>3. object[o].references > 0 /\ object[o].kind # "free" /\ FreedBy(o) = {}
  BY UsedLives
<1>4. HandedBy(o)' = HandedBy(o) /\ FreedBy(o)' = FreedBy(o)
  BY <1>1, <1>2 DEF HandedBy, FreedBy, Using
<1>5. Referred(o)' /\ ObjectSound(o)'
  <2>1. Users(o)' = Users(o)
    BY <1>4, UsersSame
  <2> QED BY <1>3, <1>4, <2>1 DEF Referred, ServerInv, ObjectSound
<1>6. \A q \in Objects : q # o =>
            ObjectSound(q)' /\ Referred(q)' /\ (q \in Living' <=> q \in Living)
  <2>1. /\ call[t] = Idle \/ call[t].on = o
        /\ c = Idle \/ c.on = o
        /\ \A u \in Threads, q \in Objects : q # o => held'[u][q] = held[u][q]
    OBVIOUS
  <2> QED BY <2>1, OtherObjectsKept
<1>7. \A u \in Threads : CallSound(u)'
  <2>1. CallSound(t)'
    BY <1>1, <1>2, <1>3 DEF CallSound, Freeing, Handing, Using, Reading
  <2>2. ASSUME NEW u \in Threads, u # t PROVE CallSound(u)'
    <3>1. CASE call[u].at = "idle"
      BY <1>1, <2>2, <3>1, CallsAre DEF CallSound, Freeing, Handing, Using, Reading
    <3>2. CASE call[u].at # "idle"
      <4>1. PICK p \in Objects : p = call[u].on
        BY <3>2, CallsAre
      <4>2. CallSound(u) /\ object'[p].kind = object[p].kind
            /\ object'[p].references = object[p].references
        BY CallsAre
      <4>3. call[u].at \in Reading =>
              object'[p].reader = object[p].reader /\ object'[p].bytes = object[p].bytes
        BY <2>2, <4>1, <4>2, ServerAssumption DEF CallSound
      <4>4. call[u].at = "render" => object'[p].bytes = object[p].bytes
        BY <2>2, <4>1, <4>2 DEF CallSound
      <4> QED BY <1>1, <2>2, <4>1, <4>2, <4>3, <4>4 DEF CallSound
    <3> QED BY <3>1, <3>2
  <2> QED BY <2>1, <2>2
<1>8. o \in Living' <=> o \in Living
  <2>1. \A u \in Threads : call'[u] # At("drop", o) /\ call[u] # At("drop", o)
    BY <1>1, <1>2, <1>3, CallsAre DEF Using, FreedBy
  <2> QED BY <2>1 DEF Living, Allocated
<1>9. FreedOnce'
  BY <1>1, <1>2 DEF ServerInv, FreedOnce, Freeing, Using
<1> QED BY <1>1, <1>5, <1>6, <1>7, <1>8, <1>9, PartsKept, ServerTypes

LEMMA StartInitializeKeeps ==
    ASSUME ServerInv, NEW t \in Threads, NEW o \in Objects, StartInitialize(t, o)
    PROVE  ServerInv'
<1>1. PICK c : c = At("lock", o)
  OBVIOUS
<1>2. c \in Calls /\ c.at = "lock" /\ c.on = o
  BY <1>1, ServerAssumption DEF Calls, At, Places
<1>3. /\ UNCHANGED <<object, count, locks, held, locked, query>> /\ held[t][o] > 0
      /\ call[t] = Idle /\ call' = [call EXCEPT ![t] = c]
  BY <1>1 DEF StartInitialize, Provides, MayCall, Goes
<1>4. object \in [Objects -> ObjectStates] /\ ObjectSound(o)
  BY ServerTypes DEF ServerInv
<1> QED BY <1>2, <1>3, <1>4, ReadMoves DEF Using, Reading, ObjectSound

\* A thumbnail is made of the bytes there are.
LEMMA StartThumbnailKeeps ==
    ASSUME ServerInv, NEW t \in Threads, NEW o \in Objects, StartThumbnail(t, o)
    PROVE  ServerInv'
<1>1. object \in [Objects -> ObjectStates] /\ ObjectSound(o)
  BY ServerTypes DEF ServerInv
<1>2. PICK n \in 0..MaxInput : object[o].bytes = {n}
  BY <1>1 DEF ObjectSound, StartThumbnail
<1>3. PICK c : c = [at |-> "render", on |-> o, length |-> n]
  OBVIOUS
<1>4. (CHOOSE m \in object[o].bytes : TRUE) = n
  BY <1>2
<1>5. /\ UNCHANGED <<object, count, locks, held, locked, query>> /\ held[t][o] > 0
      /\ call[t] = Idle /\ call' = [call EXCEPT ![t] = c]
  BY <1>3, <1>4 DEF StartThumbnail, Provides, MayCall, Goes
<1>6. c \in Calls /\ c.at = "render" /\ c.on = o /\ c.length = n
  BY <1>3 DEF Calls, Places
<1> QED BY <1>1, <1>2, <1>5, <1>6, ReadMoves DEF Using, Reading

\* The calls of a provider that go on: the mutex, the length, the chunks and the image.
LEMMA ProviderKeeps ==
    ASSUME ServerInv, NEW t \in Threads, Lock(t) \/ Stat(t) \/ ReadChunk(t) \/ EndThumbnail(t)
    PROVE  ServerInv'
<1>1. PICK b, o : b = call[t] /\ o = b.on
  OBVIOUS
<1>2. /\ UNCHANGED <<count, locks, held, locked, query>> /\ b.at \in Using
      /\ o \in Objects /\ held[t][o] > 0 /\ CallSound(t) /\ b \in Calls
      /\ object \in [Objects -> ObjectStates] /\ ObjectSound(o)
  <2>1. b.at \in Using /\ UNCHANGED <<count, locks, held, locked, query>>
    BY <1>1 DEF Lock, Stat, ReadChunk, EndThumbnail, Using
  <2>2. b.at # "idle"
    BY <2>1 DEF Using
  <2> QED BY <1>1, <2>1, <2>2, CallsAre, ServerTypes DEF CallSound, ServerInv
<1>3. Idle \in Calls /\ Idle.at = "idle"
  BY ServerAssumption DEF Calls, Places, Idle
<1>4. ASSUME NEW bytes \in {object[o].bytes, {b.length}}, ReadEnds(t, bytes), b.at \in Reading
      PROVE  ServerInv'
  <2>1. /\ call' = [call EXCEPT ![t] = Idle]
        /\ object' = [object EXCEPT ![o].reader = "nobody", ![o].bytes = bytes]
    BY <1>1, <1>4 DEF ReadEnds, Goes
  <2>2. object[o].reader = t /\ object[o].bytes = {}
    BY <1>1, <1>2, <1>4 DEF CallSound
  <2>3. b.length \in 0..MaxInput /\ object[o] \in ObjectStates
    BY <1>2 DEF Calls
  <2>4. [object[o] EXCEPT !.reader = "nobody", !.bytes = bytes] \in ObjectStates
    BY <1>4, <2>3 DEF ObjectStates
  <2>5. /\ object' \in [Objects -> ObjectStates]
        /\ \A q \in Objects : q # o => object'[q] = object[q]
        /\ object'[o].kind = object[o].kind /\ object'[o].references = object[o].references
        /\ object'[o].reader = "nobody" /\ object'[o].bytes = bytes
    BY <1>2, <2>1, <2>3, <2>4 DEF ObjectStates
  <2>6. bytes = {} \/ \E n \in 0..MaxInput : bytes = {n}
    BY <1>4, <2>2, <2>3
  <2>7. /\ Idle.at \notin Reading /\ Idle.at # "render"
        /\ object'[o].bytes = {} \/ \E n \in 0..MaxInput : object'[o].bytes = {n}
        /\ call[t].at \in Using /\ call[t].on = o
    BY <1>1, <1>2, <1>3, <2>5, <2>6 DEF Reading
  <2>8. UNCHANGED <<count, locks, held, locked, query>> /\ held[t][o] > 0 /\ o \in Objects
    BY <1>2
  <2> QED BY <1>3, <2>1, <2>2, <2>5, <2>7, <2>8, ReadMoves
<1>5. ASSUME NEW c \in Calls, call' = [call EXCEPT ![t] = c], UNCHANGED object,
             c = Idle \/ (c.at = "read" /\ c.on = o /\ b.at \in Reading)
      PROVE  ServerInv'
  <2>1. /\ c = Idle \/ (c.at \in Using /\ c.on = o)
        /\ c.at \in Reading => object[o].reader = t /\ object[o].bytes = {}
        /\ c.at # "render"
    BY <1>1, <1>2, <1>3, <1>5 DEF CallSound, Using, Reading
  <2> QED BY <1>1, <1>2, <1>5, <2>1, ReadMoves DEF ObjectSound
<1>6. CASE Lock(t)
  <2>1. CASE object[o].bytes # {}
    BY <1>1, <1>3, <1>5, <1>6, <2>1 DEF Lock, Goes
  <2>2. CASE object[o].bytes = {}
    <3>1. PICK c : c = At("stat", o)
      OBVIOUS
    <3>2. c \in Calls /\ c.at = "stat" /\ c.on = o
      BY <1>2, <3>1, ServerAssumption DEF Calls, At, Places
    <3>3. /\ call' = [call EXCEPT ![t] = c] /\ object' = [object EXCEPT ![o].reader = t]
          /\ object[o].reader = "nobody"
      BY <1>1, <1>6, <2>2, <3>1 DEF Lock, Goes
    <3>4. object[o] \in ObjectStates /\ [object[o] EXCEPT !.reader = t] \in ObjectStates
      BY <1>2 DEF ObjectStates
    <3>5. /\ object' \in [Objects -> ObjectStates]
          /\ \A q \in Objects : q # o => object'[q] = object[q]
          /\ object'[o].kind = object[o].kind /\ object'[o].references = object[o].references
          /\ object'[o].reader = t /\ object'[o].bytes = object[o].bytes
      BY <1>2, <3>3, <3>4 DEF ObjectStates
    <3> QED BY <1>1, <1>2, <2>2, <3>2, <3>3, <3>5, ReadMoves DEF Using, Reading
  <2> QED BY <2>1, <2>2
<1>7. CASE Stat(t)
  <2>1. PICK c : c = At("read", o)
    OBVIOUS
  <2>2. c \in Calls /\ c.at = "read" /\ c.on = o /\ b.at \in Reading
    BY <1>1, <1>2, <1>7, <2>1, ServerAssumption DEF Calls, At, Places, Stat, Reading
  <2> QED BY <1>1, <1>4, <1>5, <1>7, <2>1, <2>2 DEF Stat, ReadFails, Goes
<1>8. CASE ReadChunk(t)
  <2>1. b.at \in Reading /\ b.at = "read"
    BY <1>1, <1>8 DEF ReadChunk, Reading
  <2>2. CASE ReadFails(t) \/ ReadEnds(t, {b.length})
    BY <1>1, <1>4, <2>1, <2>2 DEF ReadFails
  <2>3. CASE ~(ReadFails(t) \/ ReadEnds(t, {b.length}))
    <3>1. PICK n \in 1..Chunk : /\ b.length + n <= MaxInput /\ UNCHANGED object
                                /\ Goes(t, [call[t] EXCEPT !.length = @ + n])
      <4>1. b.length \in 0..MaxInput /\ MaxInput \in Nat /\ Chunk \in Nat
        BY <1>2, ServerAssumption DEF Calls
      <4> QED BY <1>1, <1>8, <2>3, <4>1 DEF ReadChunk
    <3>2. PICK c : c = [b EXCEPT !.length = @ + n]
      OBVIOUS
    <3>3. c \in Calls /\ c.at = "read" /\ c.on = o
      BY <1>1, <1>2, <2>1, <3>1, <3>2, ServerAssumption DEF Calls
    <3> QED BY <1>1, <1>5, <2>1, <3>1, <3>2, <3>3 DEF Goes
  <2> QED BY <2>2, <2>3
<1>9. CASE EndThumbnail(t)
  BY <1>3, <1>5, <1>9 DEF EndThumbnail, Goes
<1> QED BY <1>6, <1>7, <1>8, <1>9

-----------------------------------------------------------------------------
(* The locks, the question whether the server may be unloaded, and the      *)
(* theorem.                                                                 *)

\* Steps that touch no object and no call.
LEMMA ObjectsUntouched ==
    ASSUME ServerInv, UNCHANGED <<object, count, call, held>>,
           locked' \in [Threads -> 0..MaxLocks], locks' \in Nat, query' \in Queries,
           IsFiniteSet(Tokens(locked', {})), locks' = Cardinality(Tokens(locked', {})),
           Asked'
    PROVE  ServerInv'
<1>1. \A o \in Objects : HandedBy(o)' = HandedBy(o) /\ FreedBy(o)' = FreedBy(o)
  BY DEF HandedBy, FreedBy
<1>2. \A o \in Objects : Users(o)' = Users(o)
  BY <1>1, UsersSame
<1>3. \A o \in Objects : ObjectSound(o)' /\ Referred(o)'
  BY <1>1, <1>2 DEF ServerInv, ObjectSound, Referred
<1>4. (\A t \in Threads : CallSound(t)') /\ FreedOnce'
  BY DEF ServerInv, CallSound, FreedOnce
<1>5. Counted'
  <2>1. Living' = Living
    BY DEF Living, Allocated
  <2> QED BY <2>1 DEF ServerInv, Counted
<1>6. ServerTypeOK'
  BY <1>5, ServerTypes, ServerTyped
<1> QED BY <1>3, <1>4, <1>5, <1>6 DEF ServerInv

LEMMA LockServerKeeps ==
    ASSUME ServerInv, NEW t \in Threads, LockServer(t)
    PROVE  ServerInv'
<1>1. /\ UNCHANGED <<object, count, call, held, query>> /\ locked[t] < MaxLocks
      /\ locks' = locks + 1 /\ locked' = [locked EXCEPT ![t] = locked[t] + 1]
  BY DEF LockServer
<1>2. PICK h, g : h = locked /\ g = locked'
  OBVIOUS
<1>3. h \in [Threads -> 0..MaxLocks] /\ MaxLocks \in Nat /\ locks \in Nat /\ query \in Queries
  BY <1>2, ServerTypes, ServerAssumption
<1>4. h \in [Threads -> Nat] /\ g = [h EXCEPT ![t] = h[t] + 1] /\ g \in [Threads -> 0..MaxLocks]
  BY <1>1, <1>2, <1>3
<1>5. PICK S, T : S = Tokens(h, {}) /\ T = Tokens(g, {})
  OBVIOUS
<1>6. T = S \cup {<<t, h[t] + 1>>} /\ <<t, h[t] + 1>> \notin S
  BY ONLY <1>4, <1>5, TokenTaken, t \in Threads
<1>7. IsFiniteSet(S) /\ locks = Cardinality(S)
  BY <1>2, <1>5 DEF ServerInv, Counted
<1>8. IsFiniteSet(T) /\ locks' = Cardinality(T)
  BY <1>1, <1>6, <1>7, FS_AddElement
<1>9. Asked'
  BY <1>1, <1>3 DEF ServerInv, Asked, Living, Allocated, Queries
<1> QED BY <1>1, <1>2, <1>3, <1>4, <1>5, <1>8, <1>9, ObjectsUntouched

\* An unlock takes away one of the locks there are, whosever it is; where there is none it takes
\* nothing.
LEMMA UnlockServerKeeps ==
    ASSUME ServerInv, NEW t \in Threads, UnlockServer(t)
    PROVE  ServerInv'
<1>0. PICK u \in Threads :
        /\ locked[u] > 0 \/ \A v \in Threads : locked[v] = 0
        /\ locked' = [locked EXCEPT ![u] = IF locked[u] = 0 THEN 0 ELSE locked[u] - 1]
  BY DEF UnlockServer, LosesLock
<1>1. /\ UNCHANGED <<object, count, call, held>>
      /\ locks' = IF locks = 0 THEN 0 ELSE locks - 1
      /\ query' = [query EXCEPT !.lock = IF query.lock > locks' THEN locks' ELSE query.lock]
  BY DEF UnlockServer, LockReleased
<1>2. PICK h, g : h = locked /\ g = locked'
  OBVIOUS
<1>3. h \in [Threads -> 0..MaxLocks] /\ MaxLocks \in Nat /\ locks \in Nat /\ query \in Queries
  BY <1>2, ServerTypes, ServerAssumption
<1>4. locks' \in Nat /\ locks' <= locks /\ g \in [Threads -> 0..MaxLocks]
  BY <1>0, <1>1, <1>2, <1>3
<1>5. PICK S, T : S = Tokens(h, {}) /\ T = Tokens(g, {})
  OBVIOUS
<1>6. IsFiniteSet(S) /\ locks = Cardinality(S)
  BY <1>2, <1>5 DEF ServerInv, Counted
<1>7. IsFiniteSet(T) /\ locks' = Cardinality(T)
  <2>1. CASE h[u] > 0
    <3>1. h \in [Threads -> Nat] /\ g = [h EXCEPT ![u] = h[u] - 1] /\ h[u] > 0 /\ u \in Threads
      <4>1. h \in [Threads -> Nat]
        BY <1>3
      <4>2. g = [h EXCEPT ![u] = IF h[u] = 0 THEN 0 ELSE h[u] - 1]
        BY <1>0, <1>2
      <4>3. h[u] # 0
        BY <2>1, <4>1
      <4> QED BY <2>1, <4>1, <4>2, <4>3
    <3>2. T = S \ {<<u, h[u]>>} /\ <<u, h[u]>> \in S
      BY ONLY <1>5, <3>1, TokenGiven
    <3>3. locks # 0
      BY <1>6, <3>2, FS_EmptySet
    <3> QED BY <1>1, <1>6, <3>2, <3>3, FS_RemoveElement
  <2>2. CASE ~(h[u] > 0)
    <3>1. h[u] = 0
      BY <1>3, <2>2
    <3>2. g = h /\ \A v \in Threads : h[v] = 0
      BY <1>0, <1>2, <1>3, <3>1
    <3>3. S = {} /\ T = {}
      BY <1>5, <3>2, NoTokens
    <3> QED BY <1>1, <1>6, <3>3, FS_EmptySet
  <2> QED BY <2>1, <2>2
<1>8. query' \in Queries /\ Asked'
  <2>1. /\ query'.at = query.at /\ query'.lived = query.lived /\ query' \in Queries
        /\ query'.lock = IF query.lock > locks' THEN locks' ELSE query.lock
        /\ query.lock \in Nat
    BY <1>1, <1>3, <1>4 DEF Queries
  <2>2. Living' = Living
    BY <1>1 DEF Living, Allocated
  <2> QED BY <1>4, <2>1, <2>2 DEF ServerInv, Asked
<1> QED BY <1>1, <1>2, <1>4, <1>5, <1>7, <1>8, ObjectsUntouched

\* The question asks for the objects and the locks there are, and for nothing else.
LEMMA QuestionKeeps ==
    ASSUME ServerInv, CanUnloadNow \/ ReadObjects \/ ReadLocks \/ HostKnows
    PROVE  ServerInv'
<1>1. UNCHANGED <<object, count, call, held, locks, locked>>
  BY DEF CanUnloadNow, ReadObjects, ReadLocks, HostKnows
<1>2. Living' = Living /\ Living \subseteq Objects
  BY <1>1 DEF Living, Allocated
<1>3. query \in Queries /\ locks \in Nat /\ locked \in [Threads -> 0..MaxLocks]
  BY ServerTypes
<1>4. query' \in Queries /\ Asked'
  <2>1. ASSUME query' = [at |-> "idle", lived |-> {}, lock |-> 0]
        PROVE  query' \in Queries /\ Asked'
    BY <1>1, <1>3, <2>1 DEF Queries, Asked
  <2>2. CASE CanUnloadNow
    <3>1. query' = [at |-> "objects", lock |-> locks, lived |-> Living]
      BY <2>2 DEF CanUnloadNow, Living
    <3> QED BY <1>1, <1>2, <1>3, <3>1 DEF Queries, Asked
  <2>3. CASE ReadObjects
    <3>1. CASE count = 0
      <4>1. Living = {}
        BY <3>1, FS_EmptySet DEF ServerInv, Counted
      <4>2. query.lived = {} /\ query' = [query EXCEPT !.at = "locks"]
        BY <2>3, <3>1, <4>1 DEF ServerInv, Asked, ReadObjects
      <4>3. query'.lived = {} /\ query'.lock = query.lock /\ query'.at = "locks"
            /\ query' \in Queries
        BY <1>3, <4>2 DEF Queries
      <4> QED BY <1>1, <1>2, <4>3 DEF ServerInv, Asked
    <3>2. CASE count # 0
      BY <2>1, <2>3, <3>2 DEF ReadObjects, Replied
    <3> QED BY <3>1, <3>2
  <2>4. CASE ReadLocks
    <3>1. CASE locks = 0
      <4>1. query' = [query EXCEPT !.at = "unload"] /\ query.at = "locks"
        BY <2>4, <3>1 DEF ReadLocks, Replied
      <4>2. query'.lived = query.lived /\ query'.lock = query.lock /\ query'.at = "unload"
            /\ query' \in Queries /\ query.lock \in Nat
        BY <1>3, <4>1 DEF Queries
      <4> QED BY <1>1, <1>2, <3>1, <4>1, <4>2 DEF ServerInv, Asked
    <3>2. CASE locks # 0
      BY <2>1, <2>4, <3>2 DEF ReadLocks, Replied
    <3> QED BY <3>1, <3>2
  <2>5. CASE HostKnows
    BY <2>1, <2>5 DEF HostKnows, Replied
  <2> QED BY <2>2, <2>3, <2>4, <2>5
<1>5. IsFiniteSet(Tokens(locked', {})) /\ locks' = Cardinality(Tokens(locked', {}))
  BY <1>1 DEF ServerInv, Counted
<1> QED BY <1>1, <1>3, <1>4, <1>5, ObjectsUntouched

\* The server starts without an object, a lock or a call.
LEMMA InitServerInv == InitServer => ServerInv
<1> SUFFICES ASSUME InitServer PROVE ServerInv
  OBVIOUS
<1>1. /\ Unused \in ObjectStates /\ Idle \in Calls /\ Idle.at = "idle" /\ Unused.references = 0
      /\ Unused.kind = "free" /\ Unused.bytes = {}
  BY ServerAssumption DEF Unused, Idle, ObjectStates, Calls, Places
<1>2. ServerTypeOK
  <2>1. Cardinality(Objects) \in Nat /\ MaxLocks \in Nat
    BY FS_CardinalityType, ServerAssumption
  <2>2. query \in Queries
    BY DEF InitServer, Queries
  <2> QED BY <1>1, <2>1, <2>2 DEF InitServer, ServerTypeOK, ObjectStates, Calls, Queries
<1>3. \A t \in Threads : CallSound(t)
  BY <1>1 DEF InitServer, CallSound, Freeing, Handing, Using, Reading
<1>4. ASSUME NEW o \in Objects PROVE ObjectSound(o) /\ Referred(o)
  <2>1. PICK h : h = [t \in Threads |-> held[t][o]]
    OBVIOUS
  <2>2. \A t \in Threads : h[t] = 0
    BY <2>1 DEF InitServer
  <2>3. HandedBy(o) = {}
    BY <1>1 DEF InitServer, HandedBy
  <2>4. Users(o) = {}
    BY <2>1, <2>2, <2>3, NoTokens DEF Users
  <2> QED BY <1>1, <2>4, FS_EmptySet DEF InitServer, ObjectSound, Referred
<1>5. FreedOnce
  BY <1>1 DEF InitServer, FreedOnce, Freeing
<1>6. Living = {}
  BY <1>1 DEF InitServer, Living, Allocated
<1>7. Counted
  <2>1. Tokens(locked, {}) = {}
    BY NoTokens DEF InitServer
  <2> QED BY <1>6, <2>1, FS_EmptySet DEF InitServer, Counted
<1>8. Asked
  BY DEF InitServer, Asked
<1> QED BY <1>2, <1>3, <1>4, <1>5, <1>7, <1>8 DEF ServerInv

LEMMA ServerInvNext == ServerInv /\ [NextServer]_server => ServerInv'
<1> SUFFICES ASSUME ServerInv, [NextServer]_server PROVE ServerInv'
  OBVIOUS
<1>1. ASSUME NEW t \in Threads, GetClassObject(t) \/ CreateInstance(t) PROVE ServerInv'
  <2>1. /\ UNCHANGED <<locks, held, locked, query>>
        /\ \E o \in Objects : Create(t, o, "factory") \/ Create(t, o, "provider")
        /\ call[t] = Idle
    BY <1>1 DEF GetClassObject, CreateInstance, MayCall
  <2> QED BY <2>1, CreateKeeps
<1>2. ASSUME NEW t \in Threads, QueryInterface(t) \/ Release(t) \/ Destroy(t) \/ Drop(t)
      PROVE  ServerInv'
  BY <1>2, QueryKeeps, ReleaseKeeps, DestroyKeeps, DropKeeps
<1>3. ASSUME NEW t \in Threads, LockServer(t) \/ UnlockServer(t) PROVE ServerInv'
  BY <1>3, LockServerKeeps, UnlockServerKeeps
<1>4. ASSUME NEW t \in Threads, Lock(t) \/ Stat(t) \/ ReadChunk(t) \/ EndThumbnail(t)
      PROVE  ServerInv'
  BY <1>4, ProviderKeeps
<1>5. ASSUME NEW t \in Threads, NEW o \in Objects,
             \/ StartRelease(t, o) \/ StartInitialize(t, o) \/ StartThumbnail(t, o)
             \/ \E u \in Threads : AddRef(t, u, o)
      PROVE  ServerInv'
  BY <1>5, StartReleaseKeeps, StartInitializeKeeps, StartThumbnailKeeps, AddRefKeeps
<1>6. CASE CanUnloadNow \/ ReadObjects \/ ReadLocks \/ HostKnows
  BY <1>6, QuestionKeeps
<1>7. CASE UNCHANGED server
  <2>1. UNCHANGED <<object, count, locks, call, held, locked, query>>
    BY <1>7 DEF server
  <2>2. Living' = Living
    BY <2>1 DEF Living, Allocated
  <2>3. Asked' /\ IsFiniteSet(Tokens(locked', {})) /\ locks' = Cardinality(Tokens(locked', {}))
    BY <2>1, <2>2 DEF ServerInv, Asked, Counted
  <2> QED BY <2>1, <2>3, ServerTypes, ObjectsUntouched
<1> QED BY <1>1, <1>2, <1>3, <1>4, <1>5, <1>6, <1>7 DEF NextServer

LEMMA ServerCorrect == ServerSpec => []ServerInv
BY InitServerInv, ServerInvNext, PTL DEF ServerSpec

\* However many threads of a host call the thumbnail handler, at every interleaving of the atomic
\* steps of AddRef, Release, LockServer, Initialize and DllCanUnloadNow: an object's count of
\* references is the number of its users and it is freed by the one call that gave up the last;
\* the counts the module keeps are those of its objects and locks; the host is told it may unload
\* only when nothing that lived as it asked is left; and a thumbnail is made of bytes that do not
\* change under it (lib.rs, class_factory.rs, provider.rs).
THEOREM ServerAlwaysSound == ServerSpec => []ServerSound
<1>1. ServerInv => ServerSound
  <2> SUFFICES ASSUME ServerInv PROVE ServerSound
    OBVIOUS
  <2>1. ReferencesTrue
    <3>1. SUFFICES ASSUME NEW o \in Objects
                   PROVE  /\ object[o].references = Cardinality(Users(o))
                          /\ object[o].references = 0 <=> object[o].kind = "free" \/ FreedBy(o) # {}
      BY DEF ReferencesTrue
    <3>2. ObjectSound(o) /\ Referred(o)
      BY DEF ServerInv
    <3>3. object[o].kind = "free" => object[o].references = 0
      BY <3>2 DEF ObjectSound, Unused
    <3>4. FreedBy(o) # {} => object[o].references = 0
      BY DEF ServerInv, CallSound, FreedBy, Freeing
    <3> QED BY <3>2, <3>3, <3>4 DEF ObjectSound, Referred
  <2>2. CountsTrue
    BY DEF ServerInv, Counted, CountsTrue
  <2>3. UnloadSparesTheLiving
    BY DEF ServerInv, Asked, UnloadSparesTheLiving
  <2>4. RendersItsBytes
    BY DEF ServerInv, CallSound, RendersItsBytes
  <2> QED BY <2>1, <2>2, <2>3, <2>4 DEF ServerSound
<1> QED BY <1>1, ServerCorrect, PTL
=============================================================================
