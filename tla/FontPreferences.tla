------------------------- MODULE FontPreferences -------------------------
(***************************************************************************)
(* Whether local fonts are used (local_font_preferences.rs,                *)
(* local_font_commands.rs, core/local-font-preferences.ts): one choice on  *)
(* disk, one native snapshot of it with a revision, and a copy in every    *)
(* window, which asks for it, changes it and hears what the others change. *)
(* Answers and events overtake each other; the file may change under the   *)
(* program, a write and a question may fail.  Every window listens from    *)
(* the start: the time before its listener is registered                   *)
(* (local-font-lifecycle.ts:26-29) is not modelled, in which it misses     *)
(* what others change and the refresh that follows may join an older one.  *)
(***************************************************************************)
EXTENDS Integers, Sequences, FiniteSets

CONSTANTS Views,       \* windows
          MaxSaves,    \* bound: choices the user makes
          MaxLooks,    \* bound: times a window asks on its own
          MaxTroubles  \* bound: changes of the file and failures

ASSUME FontsAssumption == MaxSaves \in Nat /\ MaxLooks \in Nat /\ MaxTroubles \in Nat

FontChoices == {"enabled", "disabled"}
FontActions == FontChoices \cup {"dismiss"}
NoAction == "none"

VARIABLES fontFile,   \* local-font-preferences.json
          native,     \* the snapshot that LocalFontPreferences keeps
          broadcast,  \* (history) revision of the last change that was emitted
          snapshot, temporary,  \* the copy of each window
          requests,   \* commands of each window; fresh: no operation was started or accepted since
          news,       \* events on their way to each window
          wish,       \* (history) the last action of each window
          saves, looks, troubles

window == <<snapshot, temporary, requests, news, wish>>
fonts == <<fontFile, native, broadcast, window, saves, looks, troubles>>

Unknown == [choice |-> "unset", persisted |-> FALSE, dismissed |-> FALSE, error |-> "none", revision |-> -1]
InitFonts ==
  /\ fontFile \in {"absent", "enabled"} /\ native = [Unknown EXCEPT !.revision = 0] /\ broadcast = -1
  /\ snapshot = [v \in Views |-> Unknown] /\ temporary = [v \in Views |-> NoAction]
  /\ requests = [v \in Views |-> {}] /\ news = [v \in Views |-> <<>>]
  /\ wish = [v \in Views |-> NoAction] /\ saves = 0 /\ looks = 0 /\ troubles = 0

-----------------------------------------------------------------------------
(***************************************************************************)
(* The native service                                                      *)
(***************************************************************************)
\* read_preference
OnDisk == [choice |-> IF fontFile \in FontChoices THEN fontFile ELSE "unset",
           persisted |-> fontFile \in FontChoices,
           error |-> IF fontFile = "bad" THEN "invalid" ELSE "none"]
\* refresh
Refreshed ==
  IF [choice |-> native.choice, persisted |-> native.persisted, error |-> native.error] = OnDisk THEN native
  ELSE [choice |-> OnDisk.choice, persisted |-> OnDisk.persisted, error |-> OnDisk.error,
        dismissed |-> native.dismissed, revision |-> native.revision + 1]
Answer(v, q, at, value) ==
  requests' = [requests EXCEPT ![v] = (@ \ {q}) \cup {[q EXCEPT !.at = at, !.value = IF q.fresh THEN value ELSE Unknown]}]
Trouble == troubles < MaxTroubles /\ troubles' = troubles + 1

FileChanges(to) ==
  /\ fontFile # to /\ fontFile' = to /\ Trouble
  /\ UNCHANGED <<native, broadcast, window, saves, looks>>
GetPreferences(v, q) ==
  /\ q.at = "sent" /\ q.action = NoAction
  /\ \/ native' = Refreshed /\ Answer(v, q, "answered", Refreshed) /\ UNCHANGED troubles
     \/ Trouble /\ Answer(v, q, "failed", Unknown) /\ UNCHANGED native
  /\ UNCHANGED <<fontFile, broadcast, snapshot, temporary, news, wish, saves, looks>>
SetTo(a) == IF a = "dismiss" THEN [Refreshed EXCEPT !.dismissed = TRUE, !.revision = @ + 1]
  ELSE [choice |-> a, persisted |-> TRUE, dismissed |-> FALSE, error |-> "none", revision |-> Refreshed.revision + 1]
SetPreferences(v, q) ==
  /\ q.at = "sent" /\ q.action # NoAction
  /\ \/ /\ native' = SetTo(q.action) /\ fontFile' = IF q.action = "dismiss" THEN fontFile ELSE q.action
        /\ Answer(v, q, "answered", native') /\ broadcast' = native'.revision
        /\ news' = [u \in Views |-> Append(news[u], native')]
        /\ UNCHANGED troubles
     \/ /\ native' = native \/ (q.action # "dismiss" /\ native' = Refreshed)  \* no path; no write
        /\ Trouble /\ Answer(v, q, "failed", Unknown)
        /\ UNCHANGED <<fontFile, broadcast, news>>
  /\ UNCHANGED <<snapshot, temporary, wish, saves, looks>>

-----------------------------------------------------------------------------
(***************************************************************************)
(* A window                                                                *)
(***************************************************************************)
\* operation += 1: what the requests still bring does not matter any more
Stale(qs) == {[q EXCEPT !.fresh = FALSE, !.value = Unknown] : q \in qs}
Asks(a) == [action |-> a, at |-> "sent", fresh |-> TRUE, value |-> Unknown]
IsNews(v, value) == value.revision >= snapshot[v].revision /\ value # snapshot[v]
\* acceptFontPreferences, with the requests of the window that are left
TakeOver(v, value, left) ==
  IF IsNews(v, value)
  THEN /\ snapshot' = [snapshot EXCEPT ![v] = value]
       /\ temporary' = [temporary EXCEPT ![v] = IF value.revision > snapshot[v].revision THEN NoAction ELSE @]
       /\ requests' = [requests EXCEPT ![v] = Stale(left)]
  ELSE requests' = [requests EXCEPT ![v] = left] /\ UNCHANGED <<snapshot, temporary>>

\* refreshFontPreferences: one at a time
Refresh(v) ==
  /\ \A q \in requests[v] : q.action # NoAction
  /\ looks < MaxLooks /\ looks' = looks + 1
  /\ requests' = [requests EXCEPT ![v] = @ \cup {Asks(NoAction)}]
  /\ UNCHANGED <<fontFile, native, broadcast, snapshot, temporary, news, wish, saves, troubles>>
Save(v, a) ==
  /\ saves < MaxSaves /\ saves' = saves + 1
  /\ requests' = [requests EXCEPT ![v] = Stale(@) \cup {Asks(a)}]
  /\ wish' = [wish EXCEPT ![v] = a]
  /\ UNCHANGED <<fontFile, native, broadcast, snapshot, temporary, news, looks, troubles>>
Left(v, q) == requests[v] \ {q}
Ignore(v, q) == requests' = [requests EXCEPT ![v] = Left(v, q)] /\ UNCHANGED <<snapshot, temporary>>
GetReturns(v, q) ==
  /\ q.at = "answered" /\ q.action = NoAction
  /\ IF q.fresh THEN TakeOver(v, q.value, Left(v, q)) ELSE Ignore(v, q)
  /\ UNCHANGED <<fontFile, native, broadcast, news, wish, saves, looks, troubles>>
SaveReturns(v, q) ==
  /\ q.at = "answered" /\ q.action # NoAction
  /\ IF q.fresh /\ q.value.revision >= snapshot[v].revision
     THEN /\ snapshot' = [snapshot EXCEPT ![v] = q.value]
          /\ temporary' = [temporary EXCEPT ![v] = NoAction]
          /\ requests' = [requests EXCEPT ![v] = Left(v, q)]
     ELSE Ignore(v, q)
  /\ UNCHANGED <<fontFile, native, broadcast, news, wish, saves, looks, troubles>>
\* (mutant) A failure counts whatever has happened since.
FailsAnyway(q) == TRUE
FailureCounts(q) == q.fresh
\* The catch of refreshFontPreferences and of saveFontPreference
RequestFails(v, q) ==
  /\ q.at = "failed" /\ requests' = [requests EXCEPT ![v] = Left(v, q)]
  /\ CASE ~FailureCounts(q) -> UNCHANGED <<snapshot, temporary>>
       [] FailureCounts(q) /\ q.action = NoAction ->
            /\ snapshot' = [snapshot EXCEPT ![v].choice = "unset", ![v].persisted = FALSE, ![v].error = "restore"]
            /\ temporary' = [temporary EXCEPT ![v] = NoAction]
       [] OTHER ->
            /\ snapshot' = [snapshot EXCEPT ![v].error = "save"]
            /\ temporary' = [temporary EXCEPT ![v] = q.action]
  /\ UNCHANGED <<fontFile, native, broadcast, news, wish, saves, looks, troubles>>
\* (mutant) A window that asks does not listen.
BusyIgnores(v, value) == IF requests[v] # {} THEN UNCHANGED <<snapshot, temporary, requests>>
                         ELSE TakeOver(v, value, requests[v])
Hear(v, value) == TakeOver(v, value, requests[v])
ChangeArrives(v) ==
  /\ news[v] # <<>> /\ news' = [news EXCEPT ![v] = Tail(@)]
  /\ Hear(v, Head(news[v]))
  /\ UNCHANGED <<fontFile, native, broadcast, wish, saves, looks, troubles>>

NextFonts ==
  \/ \E to \in {"absent", "bad"} : FileChanges(to)
  \/ \E v \in Views :
       \/ Refresh(v) \/ ChangeArrives(v)
       \/ \E a \in FontActions : Save(v, a)
       \/ \E q \in requests[v] : \/ GetPreferences(v, q) \/ SetPreferences(v, q)
                                 \/ GetReturns(v, q) \/ SaveReturns(v, q) \/ RequestFails(v, q)
FontsSpec == InitFonts /\ [][NextFonts]_fonts

-----------------------------------------------------------------------------
FontSnapshots == [choice : FontChoices \cup {"unset"}, persisted : BOOLEAN, dismissed : BOOLEAN,
              error : {"none", "invalid", "restore", "save"}, revision : Int]
FontsTypeOK ==
  /\ fontFile \in FontChoices \cup {"absent", "bad"} /\ native \in FontSnapshots /\ native.revision >= 0
  /\ native.persisted <=> native.choice \in FontChoices
  /\ snapshot \in [Views -> FontSnapshots] /\ temporary \in [Views -> FontActions \cup {NoAction}]
  /\ \A v \in Views : snapshot[v].revision <= native.revision

\* What native has told: its state, its answers and its events, and what windows keep of them.
Told == {native} \cup (UNION {{news[v][i] : i \in DOMAIN news[v]} : v \in Views})
  \cup (UNION {{q.value : q \in {r \in requests[v] : r.at = "answered" /\ r.fresh}} : v \in Views})
  \cup {s \in {snapshot[v] : v \in Views} : s.error \in {"none", "invalid"} /\ s.revision >= 0}
\* A revision names one state: two snapshots with the same revision are the same, so that a
\* window may keep either, in whatever order they reach it.
OneStatePerRevision == \A s, t \in Told : s.revision = t.revision => s = t

\* The copy of a window never goes back to an older state.
NeverBack == [][\A v \in Views : snapshot'[v].revision >= snapshot[v].revision]_fonts

\* When the events of a window have arrived, it knows of every change that was told: an answer
\* that is left out because of a later operation is never the only one to carry it.
HeardAll == \A v \in Views : news[v] = <<>> => snapshot[v].revision >= broadcast

\* A failure never brings back an older choice: what a window takes up as its unsaved choice is
\* the last one the user made there.
LastWishOnly ==
  [][\A v \in Views : temporary'[v] \in {NoAction, temporary[v], wish[v]}]_fonts

\* Windows agree, once they have heard all: the last revision they know is the last one there
\* is, and a revision means the same to all of them.
FontsAgree == OneStatePerRevision /\ HeardAll
=============================================================================
