------------------------- MODULE DocumentSessions -------------------------
(***************************************************************************)
(* The native document sessions of the desktop backend:                    *)
(* DocumentSessionManager of apps/desktop/src-tauri/src/state.rs, the      *)
(* files on disk it shares with every other program, and the mutex in      *)
(* AppState that serialises its commands.                                  *)
(*                                                                         *)
(* A command that is refused changes nothing, so it is no step here: the   *)
(* guards of an action are the early returns of the command.  Only the     *)
(* commit of a staged save is split, because other programs can touch the  *)
(* target between its check, its rename and its metadata read, although    *)
(* no other command can run while it holds the mutex.                      *)
(*                                                                         *)
(* A body stands for the bytes of a file and a meta for its length and     *)
(* modification time; both are numbers drawn from one clock, so equal      *)
(* numbers mean equal bytes (the 32-bit content hash is taken as free of   *)
(* collisions).                                                            *)
(***************************************************************************)
EXTENDS Integers, FiniteSets

CONSTANTS
  Docs,         \* document ids (UUIDs): each is issued at most once
  Paths,        \* the paths documents are opened from and saved to
  HwpxPaths,    \* the paths whose extension is .hwpx; the others end in .hwp
  Pages,        \* page indexes that are rendered
  NoDoc,        \* active_doc_id = None
  NoPath,       \* source_path = None
  MaxContent,   \* bound: bodies and metas that ever come into being
  MaxRevision   \* bound: the revision at which no more commands are sent

ASSUME DocumentSessionsAssumption ==
  /\ HwpxPaths \subseteq Paths
  /\ NoDoc \notin Docs
  /\ NoPath \notin Paths
  /\ MaxContent \in Nat
  /\ MaxRevision \in Nat

VARIABLES
  disk,         \* what each path holds
  clock,        \* the newest body or meta
  live,         \* the keys of the sessions map
  issued,       \* the ids that were ever given out
  active,       \* active_doc_id
  srcPath,      \* DocumentSession.source_path
  format,       \* DocumentSession.source_format
  fingerprint,  \* DocumentSession.source_fingerprint
  dirty,        \* DocumentSession.dirty
  revision,     \* DocumentSession.revision
  core,         \* DocumentSession.core: the body it was parsed from, or Unloaded
  cache,        \* DocumentSession.page_svg_cache
  stage,        \* where the commit that holds the mutex is, or "free"
  req,          \* the arguments of that commit
  from,         \* history: the session's source path and the clock, at that commit's check
  known,        \* history: the bodies each session took as its baseline or wrote
  spent,        \* history: the <<doc, expected revision>> of completed commits
  torn          \* history: sessions whose last commit failed after the rename

sessionVars == <<live, issued, active, srcPath, format, fingerprint, dirty,
                 revision, core, cache>>
historyVars == <<from, known, spent, torn>>
vars == <<disk, clock, sessionVars, stage, req, historyVars>>

-----------------------------------------------------------------------------
Formats == {"hwp", "hwpx"}
Clock   == 0 .. MaxContent

\* DocumentFormat::from_path
FormatOf(p) == IF p \in HwpxPaths THEN "hwpx" ELSE "hwp"

Absent  == [meta |-> 0, body |-> 0, fmt |-> "none"]
File    == [meta : Clock, body : Clock, fmt : Formats \cup {"none"}]

\* FileFingerprint: the length and time of the metadata, the hash of the bytes
NoPrint     == [meta |-> 0, hash |-> 0]
Fingerprint == [meta : Clock, hash : Clock]
PrintOf(f)  == [meta |-> f.meta, hash |-> f.body]

Unloaded    == 0
NoSvg       == [rev |-> 0, body |-> 0]
EmptyCache  == [pg \in Pages |-> NoSvg]
NoRevision  == 0            \* expected_revision = None
Revision    == 0 .. MaxRevision + 1
Stages      == {"free", "write", "refresh"}

Request == [doc : Docs \cup {NoDoc}, target : Paths \cup {NoPath}, body : Clock,
            fmt : Formats \cup {"none"}, exp : Revision, allow : BOOLEAN]
NoRequest == [doc |-> NoDoc, target |-> NoPath, body |-> 0, fmt |-> "none",
              exp |-> NoRevision, allow |-> FALSE]

NoOrigin == [path |-> NoPath, clock |-> 0]

Unlocked == stage = "free"

\* AppState::has_dirty_sessions
HasDirtySessions == \E d \in live : dirty[d]

Init ==
  /\ disk \in [Paths -> {Absent}]
  /\ clock = 0
  /\ live = {} /\ issued = {} /\ active = NoDoc
  /\ srcPath = [d \in Docs |-> NoPath]
  /\ format = [d \in Docs |-> "hwp"]
  /\ fingerprint = [d \in Docs |-> NoPrint]
  /\ dirty = [d \in Docs |-> FALSE]
  /\ revision = [d \in Docs |-> 0]
  /\ core = [d \in Docs |-> Unloaded]
  /\ cache = [d \in Docs |-> EmptyCache]
  /\ stage = "free" /\ req = NoRequest
  /\ from = NoOrigin /\ known = [d \in Docs |-> {}] /\ spent = {} /\ torn = {}

-----------------------------------------------------------------------------
\* Insert a fresh session with these fields, and make it the active one.
InsertSession(d, p, f, fp, c) ==
  /\ Unlocked
  /\ d \in Docs \ issued
  /\ live' = live \cup {d}
  /\ issued' = issued \cup {d}
  /\ active' = d
  /\ srcPath' = [srcPath EXCEPT ![d] = p]
  /\ format' = [format EXCEPT ![d] = f]
  /\ fingerprint' = [fingerprint EXCEPT ![d] = fp]
  /\ dirty' = [dirty EXCEPT ![d] = FALSE]
  /\ revision' = [revision EXCEPT ![d] = 1]
  /\ core' = [core EXCEPT ![d] = c]
  /\ cache' = [cache EXCEPT ![d] = EmptyCache]
  /\ known' = [known EXCEPT ![d] = {fp.hash} \ {0}]
  /\ UNCHANGED <<disk, stage, req, from, spent, torn>>

\* create_document: a blank document without a source
CreateDocument(d) ==
  /\ clock < MaxContent
  /\ clock' = clock + 1
  /\ InsertSession(d, NoPath, "hwp", NoPrint, clock + 1)

\* source_fingerprint.or_else(file_fingerprint): without a fingerprint of the
\* bytes the client read, what the path holds now becomes the baseline.
Baseline(p, given) ==
  IF given # NoPrint THEN given
  ELSE IF disk[p] # Absent THEN PrintOf(disk[p]) ELSE NoPrint

\* open_document_tracking: metadata only, the core is loaded on demand
OpenDocumentTracking(d, p, given) ==
  /\ InsertSession(d, p, FormatOf(p), Baseline(p, given), Unloaded)
  /\ UNCHANGED clock

\* close_document: the session is dropped with all it holds; another one, whichever
\* the map yields first, becomes the active one.
CloseDocument(d) ==
  /\ Unlocked
  /\ d \in live
  /\ live' = live \ {d}
  /\ active' \in IF active # d THEN {active}
                 ELSE IF live' = {} THEN {NoDoc} ELSE live'
  /\ srcPath' = [srcPath EXCEPT ![d] = NoPath]
  /\ format' = [format EXCEPT ![d] = "hwp"]
  /\ fingerprint' = [fingerprint EXCEPT ![d] = NoPrint]
  /\ dirty' = [dirty EXCEPT ![d] = FALSE]
  /\ revision' = [revision EXCEPT ![d] = 0]
  /\ core' = [core EXCEPT ![d] = Unloaded]
  /\ cache' = [cache EXCEPT ![d] = EmptyCache]
  /\ known' = [known EXCEPT ![d] = {}]
  /\ torn' = torn \ {d}
  /\ UNCHANGED <<disk, clock, issued, stage, req, from, spent>>

\* mark_document_dirty
MarkDocumentDirty(d) ==
  /\ Unlocked
  /\ d \in live
  /\ dirty' = [dirty EXCEPT ![d] = TRUE]
  /\ UNCHANGED <<disk, clock, live, issued, active, srcPath, format, fingerprint,
                 revision, core, cache, stage, req, historyVars>>

\* ensure_core_loaded: an unloaded core is parsed from the source path, as it
\* is now.
CanLoadCore(d) ==
  core[d] # Unloaded \/ (srcPath[d] # NoPath /\ disk[srcPath[d]] # Absent)

LoadedCore(d) == IF core[d] # Unloaded THEN core[d] ELSE disk[srcPath[d]].body

\* query_document
QueryDocument(d) ==
  /\ Unlocked
  /\ d \in live
  /\ CanLoadCore(d)
  /\ core' = [core EXCEPT ![d] = LoadedCore(d)]
  /\ UNCHANGED <<disk, clock, live, issued, active, srcPath, format, fingerprint,
                 dirty, revision, cache, stage, req, historyVars>>

\* render_page_svg: a page asked for at another revision is dropped from the
\* cache first; a page cached at the session's revision is served as it is.
RenderPageSvg(d, pg, rev) ==
  LET cached == rev \in {NoRevision, revision[d]} /\ cache[d][pg].rev = revision[d]
  IN /\ Unlocked
     /\ d \in live
     /\ cached \/ CanLoadCore(d)
     /\ core' = IF cached THEN core ELSE [core EXCEPT ![d] = LoadedCore(d)]
     /\ cache' = IF cached THEN cache
                 ELSE [cache EXCEPT ![d][pg] =
                         [rev |-> revision[d], body |-> LoadedCore(d)]]
     /\ UNCHANGED <<disk, clock, live, issued, active, srcPath, format, fingerprint,
                    dirty, revision, stage, req, historyVars>>

\* (mutant) check_revision that takes any earlier revision
AnyRevision(d, exp) == exp <= revision[d]

\* check_revision
RevisionMatches(d, exp) == exp \in {NoRevision, revision[d]}

\* mutate_document
MutateDocument(d, exp) ==
  /\ Unlocked
  /\ d \in live
  /\ revision[d] < MaxRevision /\ clock < MaxContent
  /\ RevisionMatches(d, exp)
  /\ CanLoadCore(d)
  /\ clock' = clock + 1
  /\ core' = [core EXCEPT ![d] = clock + 1]
  /\ dirty' = [dirty EXCEPT ![d] = TRUE]
  /\ revision' = [revision EXCEPT ![d] = @ + 1]
  /\ cache' = [cache EXCEPT ![d] = EmptyCache]
  /\ torn' = torn \ {d}
  /\ UNCHANGED <<disk, live, issued, active, srcPath, format, fingerprint,
                 stage, req, from, known, spent>>

-----------------------------------------------------------------------------
(* The commit of a staged save.                                            *)

\* (mutant) the hash of the bytes is not compared
MetadataModified(d, target) ==
  /\ srcPath[d] = target
  /\ fingerprint[d] # NoPrint
  /\ disk[target].meta # fingerprint[d].meta

\* external_modification_status(target).changed
ExternallyModified(d, target) ==
  /\ srcPath[d] = target
  /\ fingerprint[d] # NoPrint
  /\ \/ disk[target] = Absent
     \/ PrintOf(disk[target]) # fingerprint[d]

\* Every check commit_staged_document_save makes before it writes
CommitAllowed(r) ==
  /\ r.doc \in live
  /\ RevisionMatches(r.doc, r.exp)
  /\ r.allow \/ ~ExternallyModified(r.doc, r.target)

\* format is the format the client asks for, r.fmt the one of the staged bytes
CommitCheck(r, format_) ==
  /\ Unlocked
  /\ CommitAllowed(r)
  /\ FormatOf(r.target) = format_
  /\ r.fmt = format_
  /\ revision[r.doc] < MaxRevision
  /\ stage' = "write" /\ req' = r
  /\ from' = [path |-> srcPath[r.doc], clock |-> clock]
  /\ UNCHANGED <<disk, clock, sessionVars, known, spent, torn>>

\* finish_document_save up to the fingerprint: the rename of atomic_write has
\* replaced the target, whatever it holds by now, and the session names it as its source.
CommitWrite ==
  /\ stage = "write"
  /\ clock < MaxContent
  /\ clock' = clock + 1
  /\ disk' = [disk EXCEPT ![req.target] =
                [meta |-> clock + 1, body |-> req.body, fmt |-> req.fmt]]
  /\ core' = [core EXCEPT ![req.doc] = req.body]
  /\ srcPath' = [srcPath EXCEPT ![req.doc] = req.target]
  /\ format' = [format EXCEPT ![req.doc] = req.fmt]
  /\ known' = [known EXCEPT ![req.doc] = @ \cup {req.body}]
  /\ torn' = torn \cup {req.doc}
  /\ stage' = "refresh"
  /\ UNCHANGED <<live, issued, active, fingerprint, dirty, revision, cache, req, from, spent>>

\* atomic_write fails: the temporary file is gone and nothing has changed
CommitWriteFails ==
  /\ stage = "write"
  /\ stage' = "free" /\ req' = NoRequest /\ from' = NoOrigin
  /\ UNCHANGED <<disk, clock, sessionVars, known, spent, torn>>

\* (mutant) the new baseline is read back from the path
RefreshFromDisk ==
  /\ stage = "refresh"
  /\ disk[req.target] # Absent
  /\ fingerprint' = [fingerprint EXCEPT ![req.doc] = PrintOf(disk[req.target])]
  /\ revision' = [revision EXCEPT ![req.doc] = @ + 1]
  /\ dirty' = [dirty EXCEPT ![req.doc] = FALSE]
  /\ cache' = [cache EXCEPT ![req.doc] = EmptyCache]
  /\ torn' = torn \ {req.doc}
  /\ stage' = "free" /\ req' = NoRequest /\ from' = NoOrigin
  /\ UNCHANGED <<disk, clock, live, issued, active, srcPath, format, core, known, spent>>

\* refresh_source_fingerprint_from_bytes and the rest of finish_document_save:
\* the metadata is what the path has now, the hash is that of the written bytes.
CommitRefresh ==
  /\ stage = "refresh"
  /\ disk[req.target] # Absent
  /\ fingerprint' = [fingerprint EXCEPT ![req.doc] =
                       [meta |-> disk[req.target].meta, hash |-> req.body]]
  /\ revision' = [revision EXCEPT ![req.doc] = @ + 1]
  /\ dirty' = [dirty EXCEPT ![req.doc] = FALSE]
  /\ cache' = [cache EXCEPT ![req.doc] = EmptyCache]
  /\ spent' = IF req.exp = NoRevision THEN spent ELSE spent \cup {<<req.doc, req.exp>>}
  /\ torn' = torn \ {req.doc}
  /\ stage' = "free" /\ req' = NoRequest /\ from' = NoOrigin
  /\ UNCHANGED <<disk, clock, live, issued, active, srcPath, format, core, known>>

\* The metadata of the file just written cannot be read: the command returns an
\* error and leaves the session between two saves.
CommitRefreshFails ==
  /\ stage = "refresh"
  /\ stage' = "free" /\ req' = NoRequest /\ from' = NoOrigin
  /\ UNCHANGED <<disk, clock, sessionVars, known, spent, torn>>

-----------------------------------------------------------------------------
(* Other programs.  A rewrite may keep length and time (keep = TRUE).      *)

ExternalWrite(p, keep) ==
  /\ clock < MaxContent
  /\ keep => disk[p] # Absent
  /\ clock' = clock + 1
  /\ disk' = [disk EXCEPT ![p] =
                [meta |-> IF keep THEN disk[p].meta ELSE clock + 1,
                 body |-> clock + 1, fmt |-> FormatOf(p)]]
  /\ UNCHANGED <<sessionVars, stage, req, historyVars>>

\* Somebody, the editor of a client say, composes bytes that were never seen before.
NewContent ==
  /\ clock < MaxContent
  /\ clock' = clock + 1
  /\ UNCHANGED <<disk, sessionVars, stage, req, historyVars>>

ExternalDelete(p) ==
  /\ disk[p] # Absent
  /\ disk' = [disk EXCEPT ![p] = Absent]
  /\ UNCHANGED <<clock, sessionVars, stage, req, historyVars>>

-----------------------------------------------------------------------------
\* What a client can send: bytes it holds, a revision it has seen (or none)
ClientBody == 1 .. clock
ClientPrint == {NoPrint} \cup [meta : 1 .. clock, hash : 1 .. clock]

Open ==
  \E d \in Docs, p \in Paths : \E given \in ClientPrint : OpenDocumentTracking(d, p, given)

Commit ==
  \E d \in live, p \in Paths, b \in ClientBody, f \in Formats, g \in Formats,
     allow \in BOOLEAN : \E exp \in 0 .. revision[d] :
       CommitCheck([doc |-> d, target |-> p, body |-> b, fmt |-> f, exp |-> exp,
                    allow |-> allow], g)

Command ==
  \/ \E d \in Docs : CreateDocument(d)
  \/ Open
  \/ \E d \in live : CloseDocument(d)
  \/ \E d \in live : MarkDocumentDirty(d)
  \/ \E d \in live : QueryDocument(d)
  \/ \E d \in live, pg \in Pages : \E rev \in 0 .. revision[d] : RenderPageSvg(d, pg, rev)
  \/ \E d \in live : \E exp \in 0 .. revision[d] : MutateDocument(d, exp)
  \/ Commit

CommitStep == CommitWrite \/ CommitWriteFails \/ CommitRefresh \/ CommitRefreshFails

External ==
  \/ \E p \in Paths, keep \in BOOLEAN : ExternalWrite(p, keep)
  \/ \E p \in Paths : ExternalDelete(p)
  \/ NewContent

Next == Command \/ CommitStep \/ External

Spec == Init /\ [][Next]_vars

-----------------------------------------------------------------------------
(* Properties                                                              *)

\* Every variable keeps its type; the requests and sessions stay well formed.
TypeOK ==
  /\ disk \in [Paths -> File]
  /\ clock \in Clock
  /\ live \subseteq issued /\ issued \subseteq Docs
  /\ active \in Docs \cup {NoDoc}
  /\ srcPath \in [Docs -> Paths \cup {NoPath}]
  /\ format \in [Docs -> Formats]
  /\ fingerprint \in [Docs -> Fingerprint]
  /\ dirty \in [Docs -> BOOLEAN]
  /\ revision \in [Docs -> Revision]
  /\ core \in [Docs -> Clock]
  /\ cache \in [Docs -> [Pages -> [rev : Revision, body : Clock]]]
  /\ stage \in Stages
  /\ req \in Request
  /\ stage # "free" => /\ req.doc \in live /\ req.target \in Paths /\ req.fmt \in Formats
                       /\ revision[req.doc] <= MaxRevision
  /\ from \in [path : Paths \cup {NoPath}, clock : Clock]
  /\ known \in [Docs -> SUBSET Clock]
  /\ spent \subseteq Docs \X Revision
  /\ torn \subseteq Docs

\* close_document hands the active role on: there is an active document exactly
\* when a session is open, and it is one of them.
ActiveIsLive == IF live = {} THEN active = NoDoc ELSE active \in live

\* The baseline a session compares its source with is the fingerprint of bytes it
\* adopted when it was opened or wrote itself, never of bytes some other program
\* put there (file_fingerprint_from_bytes hashes its own bytes for that reason).
BaselineAdopted ==
  \A d \in live : fingerprint[d] # NoPrint => fingerprint[d].hash \in known[d]

\* The file at its own path that a commit replaces without the user's consent holds bytes the
\* session had adopted or written, even if another program kept its length and time; or what
\* somebody wrote there after the commit's check.  The check and the rename are apart, and a
\* change between the two is overwritten unseen: nothing older is.
OverwritesKnownOrLater ==
  [][LET old == disk[req.target] IN
       /\ stage = "write" /\ stage' = "refresh" /\ ~req.allow
       /\ from.path = req.target /\ fingerprint[req.doc] # NoPrint /\ old # Absent
       => old.body \in known[req.doc] \/ old.body > from.clock]_vars

\* Two saves that started from the same revision do not both complete: the
\* revision check of commit_staged_document_save stops the second one.
RevisionSpentOnce ==
  [][\A d \in Docs : \A r \in 1 .. MaxRevision :
       <<d, r>> \in spent => ~(stage = "refresh" /\ stage' = "free"
                               /\ req.doc = d /\ req.exp = r
                               /\ revision'[d] # revision[d])]_vars

\* A page cached at the session's revision shows the session's core, so
\* render_page_svg serves no stale page; a commit that failed after its rename is
\* the exception, since it replaced the core and kept revision and cache.
CacheFresh ==
  \A d \in live : \A pg \in Pages :
    d \notin torn /\ cache[d][pg].rev = revision[d] => cache[d][pg].body = core[d]

\* The extension of a file tells the format of its bytes, and a session's format is
\* the one of its source path: no save writes HWP bytes under an .hwpx name.
ExtensionsTellFormat ==
  /\ \A p \in Paths : disk[p] # Absent => disk[p].fmt = FormatOf(p)
  /\ \A d \in live : srcPath[d] # NoPath => format[d] = FormatOf(srcPath[d])

\* The plan of the save adapter says that path, format, fingerprint, revision,
\* dirty flag and cache change only after a save has succeeded: a commit that
\* returns an error leaves its session as the check found it.
FailedCommitLeavesSession ==
  [][stage = "refresh" /\ stage' = "free" /\ revision' = revision
       => srcPath'[req.doc] = from.path]_vars

\* What the manager keeps of its documents agrees with itself and with the files: the active
\* one, the baselines, the pages that were rendered and the formats, after every command and
\* every failure of one, and at each step of a commit under way.
SessionsSound == ActiveIsLive /\ BaselineAdopted /\ CacheFresh /\ ExtensionsTellFormat
=============================================================================
