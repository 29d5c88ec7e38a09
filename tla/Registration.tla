---------------------------- MODULE Registration ----------------------------
(***************************************************************************)
(* The registration of the Windows thumbnail handler in one registry scope *)
(* (registration/windows.rs).  Every registry call is a step of its own:   *)
(* it may fail, the process may end before it, and another program may     *)
(* take a file extension between two of them.  What an extension had is    *)
(* saved in a snapshot of three values, written in an order that lets a    *)
(* reader tell a whole snapshot from a torn one.                           *)
(***************************************************************************)
EXTENDS Naturals

CONSTANTS ExtensionCount,  \* EXTENSIONS has this many, taken in order
          Handlers,        \* handlers of other programs
          Missing, Ours,    \* no value, and the CLSID of this handler
          MaxEdits,      \* bound: changes another program makes
          MaxFaults        \* bound: registry calls that fail and runs that are cut short

ASSUME RegistrationAssumption ==
  /\ ExtensionCount \in Nat \ {0}
  /\ Missing # Ours /\ Missing \notin Handlers /\ Ours \notin Handlers
  /\ MaxEdits \in Nat /\ MaxFaults \in Nat

Extensions == 1..ExtensionCount
Theirs == Handlers \cup {Missing}

VARIABLES assoc,     \* the value of each extension's thumbnail handler
          backup,    \* the snapshot key of each extension and its values
          class,     \* the keys and values of the CLSID that exist
          mode,      \* the call under way
          at, ext,   \* the registry call it makes next, and the extension of it
          saw,       \* the association it has read
          failed,    \* a step of this uninstall or rollback has failed
          last,      \* how the last call ended
          original,  \* (history) what each extension had before this handler
          faulted,   \* (history) a registry call of the last or current call has failed
          raced,     \* (history) extensions taken by others between a read and its write
          changes, faults

place == <<mode, at, ext, failed, last>>
registration == <<assoc, backup, class, place, saw, original, faulted, raced, changes, faults>>

NoSnapshot == [key |-> FALSE, state |-> "none", kind |-> Missing, data |-> Missing]
Whole == {"key", "inproc", "server", "model"}

RestorePlaces == {"restore", "giveback", "unstate", "unkind", "undata", "unkey"}
ClassPlaces == {"unserver", "unmodel", "uninproc", "unclass"}
InstallPlaces == {"path", "look", "state-", "data", "kind", "state+", "server", "model",
                  "associate"}

InitRegistration ==
  /\ assoc \in [Extensions -> Theirs]
  /\ original = assoc
  /\ backup = [e \in Extensions |-> NoSnapshot]
  /\ class = {}
  /\ mode = "idle" /\ at = "none" /\ ext = 1 /\ failed = FALSE /\ last = "none"
  /\ saw = Missing
  /\ faulted = FALSE /\ raced = {}
  /\ changes = 0 /\ faults = 0

-----------------------------------------------------------------------------
(* read_snapshot: nothing without State; a State without its values is invalid data.  *)
Torn(e) == /\ backup[e].state = "present"
           /\ backup[e].data = Missing \/ backup[e].kind = Missing
\* What a whole snapshot holds: the kind and the bytes may come from two different values
Saved(e) == CASE backup[e].state = "absent" -> Missing
              [] backup[e].state = "present" /\ backup[e].kind = backup[e].data -> backup[e].data
              [] OTHER -> "mangled"

(***************************************************************************)
(* Where a call goes next.                                                 *)
(***************************************************************************)
Proceed(p) == at' = p /\ UNCHANGED <<mode, ext, failed, last>>
Ends(how) == /\ mode' = "idle" /\ at' = "none" /\ ext' = 1 /\ failed' = FALSE /\ last' = how

AfterSnapshots == at' = "server" /\ ext' = 1 /\ UNCHANGED <<mode, failed, last>>
\* The next extension of an install, or what follows the last one
NextOf(first, then) == IF ext < ExtensionCount
                       THEN /\ ext' = ext + 1 /\ at' = first
                            /\ UNCHANGED <<mode, failed, last>>
                       ELSE then
\* An uninstall goes on to its next part whether or not this one has failed
NextPart(error) ==
  LET bad == failed \/ error IN
  IF at \in RestorePlaces
  THEN /\ IF ext < ExtensionCount THEN ext' = ext + 1 /\ at' = "restore"
                                  ELSE ext' = 1 /\ at' = "root"
       /\ failed' = bad /\ UNCHANGED <<mode, last>>
  ELSE IF at = "root"
  THEN at' = "unserver" /\ failed' = bad /\ UNCHANGED <<mode, ext, last>>
  ELSE Ends(CASE mode = "rollback" -> "refused"
              [] mode = "uninstall" /\ bad -> "error"
              [] OTHER -> "removed")
\* A step has failed: an install rolls back, an uninstall records the error and goes on
GiveUp == IF mode = "install"
          THEN /\ mode' = "rollback" /\ at' = "restore" /\ ext' = 1 /\ failed' = FALSE
               /\ UNCHANGED last
          ELSE NextPart(TRUE)

(***************************************************************************)
(* install_inner: the handler's own path, a snapshot of every extension,   *)
(* the class, and only then the associations.                              *)
(***************************************************************************)
StartInstall ==
  /\ mode = "idle" /\ mode' = "install" /\ at' = "path" /\ ext' = 1 /\ failed' = FALSE
  /\ last' = "none" /\ faulted' = FALSE
  /\ UNCHANGED <<assoc, backup, class, saw, original, raced, changes, faults>>

FindHandler ==
  /\ at = "path" /\ Proceed("look")
  /\ UNCHANGED <<assoc, backup, class, saw, original, faulted, raced, changes, faults>>

\* (history) The snapshot about to be taken is of what the extension really had
SavedNow == {e \in {ext} : assoc[e] = original[e]}
\* (mutant) What is already ours is saved, and what is not is taken for saved.
LookInverted ==
  /\ at = "look" /\ saw' = assoc[ext] /\ UNCHANGED raced
  /\ IF assoc[ext] = Ours THEN Proceed("state-") ELSE NextOf("look", AfterSnapshots)
  /\ UNCHANGED <<assoc, backup, class, original, faulted, changes, faults>>
\* snapshot_extension: an extension that is already ours keeps its snapshot, and must have one.
LookAtExtension ==
  /\ at = "look" /\ saw' = assoc[ext]
  /\ IF Torn(ext) THEN GiveUp /\ UNCHANGED raced
     ELSE IF assoc[ext] # Ours THEN Proceed("state-") /\ raced' = raced \ SavedNow
     ELSE /\ UNCHANGED raced
          /\ IF backup[ext].state = "none" THEN GiveUp ELSE NextOf("look", AfterSnapshots)
  /\ UNCHANGED <<assoc, backup, class, original, faulted, changes, faults>>

\* (mutant) State is written first, before the values it stands for.
StateFirst ==
  /\ at = "state-" /\ Proceed("data")
  /\ backup' = [backup EXCEPT ![ext].key = TRUE,
                              ![ext].state = IF saw = Missing THEN "absent" ELSE "present"]
  /\ UNCHANGED <<assoc, class, saw, original, faulted, raced, changes, faults>>
\* write_snapshot: State goes first and comes back last.
InvalidateSnapshot ==
  /\ at = "state-" /\ backup' = [backup EXCEPT ![ext].state = "none"] /\ Proceed("data")
  /\ UNCHANGED <<assoc, class, saw, original, faulted, raced, changes, faults>>
\* A value is written under its key, which the write creates; deleting creates nothing.
WriteData ==
  /\ at = "data"
  /\ backup' = [backup EXCEPT ![ext].data = saw, ![ext].key = @ \/ saw # Missing]
  /\ Proceed("kind")
  /\ UNCHANGED <<assoc, class, saw, original, faulted, raced, changes, faults>>
WriteKind ==
  /\ at = "kind" /\ backup' = [backup EXCEPT ![ext].kind = saw] /\ Proceed("state+")
  /\ UNCHANGED <<assoc, class, saw, original, faulted, raced, changes, faults>>
CommitSnapshot ==
  /\ at = "state+"
  /\ backup' = [backup EXCEPT ![ext].key = TRUE,
                              ![ext].state = IF saw = Missing THEN "absent" ELSE "present"]
  /\ NextOf("look", AfterSnapshots)
  /\ UNCHANGED <<assoc, class, saw, original, faulted, raced, changes, faults>>

\* register_clsid
RegisterServer ==
  /\ at = "server" /\ class' = class \cup {"key", "inproc", "server"} /\ Proceed("model")
  /\ UNCHANGED <<assoc, backup, saw, original, faulted, raced, changes, faults>>
RegisterModel ==
  /\ at = "model" /\ class' = class \cup {"model"}
  /\ at' = "associate" /\ ext' = 1 /\ UNCHANGED <<mode, failed, last>>
  /\ UNCHANGED <<assoc, backup, saw, original, faulted, raced, changes, faults>>
Associate ==
  /\ at = "associate" /\ assoc' = [assoc EXCEPT ![ext] = Ours]
  /\ NextOf("associate", Ends("installed"))
  /\ UNCHANGED <<backup, class, saw, original, faulted, raced, changes, faults>>

(***************************************************************************)
(* uninstall_inner: every extension that is still ours gets its value      *)
(* back, then the root of the snapshots and the class go.  An error skips  *)
(* the rest of its part and the others are done nevertheless.              *)
(***************************************************************************)
StartUninstall ==
  /\ mode = "idle" /\ mode' = "uninstall" /\ at' = "restore" /\ ext' = 1 /\ failed' = FALSE
  /\ last' = "none" /\ faulted' = FALSE
  /\ UNCHANGED <<assoc, backup, class, saw, original, raced, changes, faults>>

RestoreExtension ==
  /\ at = "restore"
  /\ IF Torn(ext) THEN GiveUp /\ UNCHANGED saw
     ELSE IF backup[ext].state = "none" THEN NextPart(FALSE) /\ UNCHANGED saw
     ELSE saw' = assoc[ext] /\ Proceed(IF assoc[ext] = Ours THEN "giveback" ELSE "unstate")
  /\ UNCHANGED <<assoc, backup, class, original, faulted, raced, changes, faults>>

GiveBack ==
  /\ at = "giveback" /\ assoc' = [assoc EXCEPT ![ext] = Saved(ext)] /\ Proceed("unstate")
  /\ UNCHANGED <<backup, class, saw, original, faulted, raced, changes, faults>>

\* clear_snapshot: the values, then their key
ClearState ==
  /\ at = "unstate" /\ backup' = [backup EXCEPT ![ext].state = "none"] /\ Proceed("unkind")
  /\ UNCHANGED <<assoc, class, saw, original, faulted, raced, changes, faults>>
ClearKind ==
  /\ at = "unkind" /\ backup' = [backup EXCEPT ![ext].kind = Missing] /\ Proceed("undata")
  /\ UNCHANGED <<assoc, class, saw, original, faulted, raced, changes, faults>>
ClearData ==
  /\ at = "undata" /\ backup' = [backup EXCEPT ![ext].data = Missing] /\ Proceed("unkey")
  /\ UNCHANGED <<assoc, class, saw, original, faulted, raced, changes, faults>>
ClearKey ==
  /\ at = "unkey" /\ backup' = [backup EXCEPT ![ext] = NoSnapshot] /\ NextPart(FALSE)
  /\ UNCHANGED <<assoc, class, saw, original, faulted, raced, changes, faults>>

\* The registry refuses to delete a key that has subkeys.
DeleteRoot ==
  /\ at = "root" /\ NextPart(\E e \in Extensions : backup[e].key)
  /\ UNCHANGED <<assoc, backup, class, saw, original, faulted, raced, changes, faults>>

\* remove_clsid
RemoveFromClass ==
  /\ at \in ClassPlaces
  /\ CASE at = "unserver" -> class' = class \ {"server"} /\ Proceed("unmodel")
       [] at = "unmodel"  -> class' = class \ {"model"} /\ Proceed("uninproc")
       [] at = "uninproc" -> class' = class \ {"inproc"} /\ Proceed("unclass")
       [] at = "unclass"  -> class' = class \ {"key"} /\ NextPart(FALSE)
  /\ UNCHANGED <<assoc, backup, saw, original, faulted, raced, changes, faults>>

(***************************************************************************)
(* What goes wrong, and what others do.                                    *)
(***************************************************************************)
\* A registry call fails.  A failed write may have created the key it was to write under.
CallFails ==
  /\ mode # "idle" /\ faults < MaxFaults /\ faults' = faults + 1
  /\ GiveUp /\ faulted' = TRUE
  /\ \/ UNCHANGED <<backup, class>>
     \/ /\ at = "state+" \/ (at = "data" /\ saw # Missing)
        /\ backup' = [backup EXCEPT ![ext].key = TRUE] /\ UNCHANGED class
     \/ at = "server" /\ class' = class \cup {"key", "inproc"} /\ UNCHANGED backup
  /\ UNCHANGED <<assoc, saw, original, raced, changes>>
\* The installer is stopped, or the machine.
Interrupted ==
  /\ mode # "idle" /\ faults < MaxFaults /\ faults' = faults + 1
  /\ Ends("interrupted")
  /\ UNCHANGED <<assoc, backup, class, saw, original, faulted, raced, changes>>

\* The association of e has been read and what follows from it is not written yet.
Between(e) ==
  \/ mode = "install" /\ \/ at \in {"server", "model"}
                         \/ at = "look" /\ e < ext
                         \/ at \in {"state-", "data", "kind", "state+"} /\ e <= ext
                         \/ at = "associate" /\ e >= ext
  \/ at = "giveback" /\ e = ext
OtherProgramTakes(e, v) ==
  /\ changes < MaxEdits /\ changes' = changes + 1
  /\ v # assoc[e]
  /\ assoc' = [assoc EXCEPT ![e] = v]
  /\ original' = [original EXCEPT ![e] = v]
  /\ raced' = IF Between(e) THEN raced \cup {e} ELSE raced \ {e}
  /\ UNCHANGED <<backup, class, place, saw, faulted, faults>>

InstallStep == \/ FindHandler \/ LookAtExtension \/ InvalidateSnapshot \/ WriteData \/ WriteKind
               \/ CommitSnapshot \/ RegisterServer \/ RegisterModel \/ Associate
UninstallStep == \/ RestoreExtension \/ GiveBack \/ ClearState \/ ClearKind \/ ClearData
                 \/ ClearKey \/ DeleteRoot \/ RemoveFromClass
NextRegistration ==
  \/ StartInstall \/ InstallStep \/ StartUninstall \/ UninstallStep
  \/ CallFails \/ Interrupted
  \/ \E e \in Extensions, v \in Theirs : OtherProgramTakes(e, v)

RegistrationSpec == InitRegistration /\ [][NextRegistration]_registration

-----------------------------------------------------------------------------
SnapshotType == [key : BOOLEAN, state : {"none", "absent", "present"}, kind : Theirs, data : Theirs]
RegistrationTypeOK ==
  /\ assoc \in [Extensions -> Theirs \cup {Ours}]
  /\ backup \in [Extensions -> SnapshotType]
  /\ class \in SUBSET Whole
  /\ mode \in {"idle", "install", "rollback", "uninstall"}
  /\ at \in {"none", "root"} \cup InstallPlaces \cup RestorePlaces \cup ClassPlaces
  /\ ext \in Extensions
  /\ saw \in Theirs \cup {Ours}
  /\ failed \in BOOLEAN
  /\ last \in {"none", "installed", "refused", "removed", "error", "interrupted"}
  /\ original \in [Extensions -> Theirs]
  /\ faulted \in BOOLEAN /\ raced \in SUBSET Extensions
  /\ changes \in 0..MaxEdits /\ faults \in 0..MaxFaults

\* As long as an extension is ours, its snapshot is whole and holds what the extension had
\* before, at every instant, whatever failed or was cut short (unless another program took
\* the extension between the read and the write).
SnapshotKept ==
  \A e \in Extensions : assoc[e] = Ours => /\ backup[e].state # "none" /\ ~Torn(e)
                                           /\ e \notin raced => Saved(e) = original[e]

\* A snapshot with a State is never torn: it is what one write_snapshot has written.
SnapshotWhole ==
  \A e \in Extensions : backup[e].state = "present" =>
     /\ backup[e].key /\ backup[e].kind = backup[e].data /\ backup[e].data # Missing

\* An uninstall that reports success has left nothing: no extension is ours, each has what
\* it had or what was set since, and neither the class nor a snapshot is left.
RemovedMeansClean ==
  mode = "idle" /\ last = "removed" =>
    /\ class = {}
    /\ \A e \in Extensions : /\ assoc[e] # Ours /\ ~backup[e].key
                              /\ e \notin raced => assoc[e] = original[e]

\* An extension is given to a class that is registered as a whole, and the class is taken
\* from under one only by an uninstall that could not restore it and says so.
ClassOutlivesAssociations ==
  [][/\ \A e \in Extensions : assoc[e] # Ours /\ assoc'[e] = Ours => class = Whole
     /\ class = Whole /\ class' # Whole /\ (\E e \in Extensions : assoc[e] = Ours) => failed
    ]_registration

\* What another program has set is replaced only by this handler, whose snapshot then holds
\* it (unless it was set between the read and the write).
OthersKept ==
  [][\A e \in Extensions :
       assoc[e] # Ours /\ assoc'[e] # assoc[e] /\ original'[e] = original[e] /\ e \notin raced =>
         assoc'[e] = Ours /\ Saved(e) = assoc[e]]_registration

\* An uninstall none of whose calls fails reports success, unless an earlier call that failed
\* or was cut short has left a snapshot key without a State behind: restore_extension takes
\* it for no snapshot and leaves it, and the root cannot be deleted above it.
ErrorsAreExplained ==
  last = "error" => faulted \/ \E e \in Extensions : backup[e].key /\ backup[e].state = "none"

\* A registration can be taken back at every instant, and an uninstall tells the truth about
\* what it has left.
RegistrationSound == SnapshotKept /\ SnapshotWhole /\ RemovedMeansClean /\ ErrorsAreExplained
=============================================================================
