------------------------- MODULE RecentDocuments -------------------------
(***************************************************************************)
(* The list of recent documents (recent_documents.rs, recent-store.ts).    *)
(* The commands run one after another on the main thread; each reads the   *)
(* store and writes it over in place, so that a write that fails or is cut *)
(* by a crash leaves a file that is read as empty or, cut within a         *)
(* character, not at all.  Documents appear and vanish from the disk       *)
(* meanwhile.  A page keeps the paths of its last list under ids of its    *)
(* own, and its lists and removals may overlap; a removal reads the path   *)
(* and a clear forgets the ids in the step of the command, although an     *)
(* await lies between them (recent-store.ts:47-50, 57-58).                 *)
(***************************************************************************)
EXTENDS Naturals, Sequences, FiniteSets, Functions

CONSTANTS Documents,  \* supported documents: paths that same_document_path tells apart
          MaxRecent,  \* MAX_RECENT_DOCUMENTS
          MaxLists,   \* bound: lists the page asks for
          MaxMishaps  \* bound: files that come or go, writes that fail

ASSUME RecentAssumption == MaxRecent \in Nat \ {0} /\ MaxLists \in Nat /\ MaxMishaps \in Nat

VARIABLES store,      \* the documents of recent-documents.json, as read_store reads them
          readable,   \* the file is text: read_store does not fail
          onDisk,     \* documents that exist
          order,      \* (history) every document recorded, the latest first
          lastCommand, \* (history) the last command
          lists,      \* answers of list_recent_documents on their way to the page
          listed,     \* nativeListGeneration
          paths,      \* nativePathsById: of an id the generation and the place
          shown,      \* (history) the document each id was shown for
          removals,   \* removeRecentDoc between its read of the path and the removal of the id
          asked, mishaps

file == <<store, readable, onDisk, order, lastCommand>>
page == <<lists, listed, paths, shown, removals, asked>>
recent == <<file, page, mishaps>>

InitRecent ==
  /\ store = <<>> /\ readable = TRUE /\ onDisk = Documents /\ order = <<>> /\ lastCommand = "none"
  /\ lists = {} /\ listed = 0 /\ paths = {} /\ shown = {} /\ removals = {}
  /\ asked = 0 /\ mishaps = 0

\* retain and filter: the elements of s that are in S, in their order
Only(s, S) ==
  LET upTo[n \in 0..Len(s)] ==
        IF n = 0 THEN <<>>
        ELSE IF s[n] \in S THEN Append(upTo[n - 1], s[n]) ELSE upTo[n - 1]
  IN upTo[Len(s)]
Without(s, d) == Only(s, Range(s) \ {d})
FirstOf(s, n) == IF Len(s) > n THEN SubSeq(s, 1, n) ELSE s
\* list_documents_at
Listing == FirstOf(Only(store, onDisk), MaxRecent)

\* write_store: the file is truncated before it is written
WriteStore(s, command) ==
  \/ store' = s /\ readable' = TRUE /\ lastCommand' = command /\ UNCHANGED mishaps
  \/ /\ mishaps < MaxMishaps /\ mishaps' = mishaps + 1 /\ lastCommand' = "failed"
     /\ \/ UNCHANGED <<store, readable>>
        \/ store' = <<>> /\ readable' \in BOOLEAN /\ (readable' \/ s # <<>>)
\* read_store fails, and the command with it
StoreUnreadable == ~readable /\ lastCommand' = "failed" /\ UNCHANGED <<store, readable, mishaps>>
Done == lastCommand' # "failed"

\* (mutant) The earlier entry of the document stays.
WithBoth(d) == FirstOf(<<d>> \o Listing, MaxRecent)
\* record_document_at
WithLatest(d) == FirstOf(<<d>> \o Without(Listing, d), MaxRecent)
Record(d) ==
  /\ d \in onDisk /\ (StoreUnreadable \/ (readable /\ WriteStore(WithLatest(d), "record")))
  /\ order' = IF Done THEN <<d>> \o Without(order, d) ELSE order
  /\ UNCHANGED <<onDisk, page>>
\* (mutant) What is not on the disk now is removed as well.
Pruned(d) == Without(Listing, d)
\* remove_document_at keeps what is missing at the moment.
WithRemoved(d) == Without(store, d)
RemoveDocument(d) ==
  \/ StoreUnreadable
  \/ readable /\ d \in Range(store) /\ WriteStore(WithRemoved(d), "remove")
  \/ /\ readable /\ d \notin Range(store) /\ lastCommand' = "remove"
     /\ UNCHANGED <<store, readable, mishaps>>
Clear ==
  /\ WriteStore(<<>>, "clear")
  /\ order' = IF Done THEN <<>> ELSE order
  /\ paths' = IF Done THEN {} ELSE paths
  /\ UNCHANGED <<onDisk, lists, listed, shown, removals, asked>>
FileComesOrGoes(d) ==
  /\ mishaps < MaxMishaps /\ mishaps' = mishaps + 1
  /\ onDisk' = (onDisk \ {d}) \cup ({d} \ onDisk) /\ lastCommand' = "none"
  /\ UNCHANGED <<store, readable, order, page>>

\* The main thread answers; the answer is on its way.
ListDocuments ==
  /\ asked < MaxLists /\ asked' = asked + 1
  /\ \/ /\ readable /\ lists' = lists \cup {[number |-> asked', documents |-> Listing]}
        /\ lastCommand' = "list" /\ UNCHANGED <<store, readable, mishaps>>
     \/ StoreUnreadable /\ UNCHANGED lists
  /\ UNCHANGED <<onDisk, order, listed, paths, shown, removals>>
\* (mutant) An id names only a place of the list.
PlaceOnly(g, i) == <<0, i>>
Id(g, i) == <<g, i>>
\* listRecentDocs after its await
ShowList(a) ==
  /\ lists' = lists \ {a} /\ listed' = listed + 1
  /\ paths' = {[id |-> Id(listed', i), path |-> a.documents[i]] : i \in 1..Len(a.documents)}
  /\ shown' = shown \cup paths'
  /\ UNCHANGED <<file, removals, asked, mishaps>>
\* removeRecentDoc: the user picks an id of any list that was shown; an id without a path is ignored
RemoveShown(e) ==
  /\ \E p \in paths : /\ p.id = e.id /\ p \notin removals
                      /\ RemoveDocument(p.path) /\ order' = IF Done THEN Without(order, p.path) ELSE order
                      /\ removals' = IF Done THEN removals \cup {p} ELSE removals
  /\ UNCHANGED <<onDisk, lists, listed, paths, shown, asked>>
IdRemoved(p) ==
  /\ removals' = removals \ {p} /\ paths' = {q \in paths : q.id # p.id}
  /\ UNCHANGED <<file, lists, listed, shown, asked, mishaps>>

NextRecent == \/ \E d \in Documents : Record(d) \/ FileComesOrGoes(d)
              \/ Clear \/ ListDocuments
              \/ \E a \in lists : ShowList(a)
              \/ \E e \in shown : RemoveShown(e)
              \/ \E p \in removals : IdRemoved(p)
RecentSpec == InitRecent /\ [][NextRecent]_recent

-----------------------------------------------------------------------------
Distinct(s) == \A i, j \in 1..Len(s) : i < j => s[i] # s[j]
RecentTypeOK ==
  /\ store \in Seq(Documents) /\ Distinct(store) /\ Len(store) <= MaxRecent
  /\ readable \in BOOLEAN /\ (~readable => store = <<>>)
  /\ onDisk \subseteq Documents /\ lastCommand \in {"none", "record", "remove", "clear", "list", "failed"}
  /\ \A p \in paths \cup shown \cup removals : p.path \in Documents

\* The list has the documents in the order they were last used and none that was removed,
\* whatever was missing, lost or recorded again in between.
LatestFirst == \A i, j \in 1..Len(store) :
  i <= j => \E k, m \in 1..Len(order) : k <= m /\ order[k] = store[i] /\ order[m] = store[j]

\* A document leaves the list only when it or everything is removed, when a write failed, when
\* another one is recorded while it is missing, or when enough documents that do exist are later.
LossIsExplained ==
  [][\A d \in Range(store) \ Range(store') :
       \/ lastCommand' = "failed" \/ d \notin Range(order')
       \/ /\ lastCommand' = "record"
          /\ d \in onDisk => Len(store') = MaxRecent /\ Range(store') \subseteq onDisk]_recent

\* What the user picks is opened or removed as the document that the entry showed, or not at
\* all, however many lists have been shown since.
IdsAreTrue ==
  \A p \in paths \cup removals, e \in shown : p.id = e.id => p.path = e.path

\* What the user sees and picks is what was recorded, in its order and under its ids.
ListIsTrue == LatestFirst /\ IdsAreTrue
=============================================================================
