---------------------- MODULE DocumentSessionsProofs ----------------------
(***************************************************************************)
(* Theorems about the native document sessions, for any number of          *)
(* documents, paths, pages, bodies and revisions.                          *)
(***************************************************************************)
EXTENDS DocumentSessions, TLAPS

\* While a commit holds the mutex its request is one the checks let through, and
\* the revision it was checked against is still the session's.
LockHolds ==
  stage # "free" =>
    /\ req.body # 0
    /\ req.exp \in {NoRevision, revision[req.doc]}
    /\ req.fmt = FormatOf(req.target)
    /\ stage = "refresh" => req.body \in known[req.doc]
    /\ stage = "refresh" => req.doc \in torn

\* What a commit that was not asked for overwrites is known since its check, or came after it.
WriteChecked ==
  stage = "write" =>
    /\ from.clock <= clock
    /\ /\ ~req.allow /\ from.path = req.target /\ fingerprint[req.doc] # NoPrint
       /\ disk[req.target] # Absent
       => disk[req.target].body \in known[req.doc] \/ disk[req.target].body > from.clock

\* A file that is there has bytes, and bytes have a number.
FilesHaveBodies == \A p \in Paths : disk[p] # Absent => disk[p].body # 0

\* Every number in use has been drawn: nothing holds or is about to write a later one.
NumbersDrawn ==
  /\ \A p \in Paths : disk[p] # Absent => disk[p].meta \in 1 .. clock /\ disk[p].body \in 1 .. clock
  /\ req.body <= clock

\* A session has a positive revision, and the pages it cached show some body.
RevisionsPositive ==
  \A d \in live : /\ revision[d] # 0
                  /\ \A pg \in Pages : cache[d][pg].rev # 0 => cache[d][pg].body # 0

\* A completed commit left its session at a later revision.
SpentIsPast ==
  \A d \in Docs : \A r \in Revision :
    <<d, r>> \in spent => d \in issued /\ (d \in live => r < revision[d])

\* The inductive invariant.
IInv ==
  /\ TypeOK
  /\ ActiveIsLive
  /\ LockHolds
  /\ WriteChecked
  /\ BaselineAdopted
  /\ FilesHaveBodies
  /\ NumbersDrawn
  /\ RevisionsPositive
  /\ CacheFresh
  /\ ExtensionsTellFormat
  /\ SpentIsPast
-----------------------------------------------------------------------------
(* Type correctness                                                        *)

\* A file, fingerprint and cache of the empty kind have their types.
LEMMA EmptyValuesTyped ==
  /\ Absent \in File
  /\ NoPrint \in Fingerprint
  /\ EmptyCache \in [Pages -> [rev : Revision, body : Clock]]
  /\ NoRequest \in Request
  /\ NoOrigin \in [path : Paths \cup {NoPath}, clock : Clock]
  /\ \A p \in Paths : FormatOf(p) \in Formats
BY DocumentSessionsAssumption
   DEF Absent, File, NoPrint, Fingerprint, EmptyCache, NoSvg, NoRequest, NoOrigin, Request,
       Clock, Formats, Revision, NoRevision, FormatOf

\* Inserting a session of the right types keeps every type.
LEMMA InsertTyped ==
  ASSUME TypeOK, clock' \in Clock, NEW d, NEW p \in Paths \cup {NoPath},
         NEW f \in Formats, NEW fp \in Fingerprint, NEW c \in Clock,
         InsertSession(d, p, f, fp, c)
  PROVE  TypeOK'
<1>1. d \in Docs /\ stage = "free" /\ stage' = "free"
  BY DEF InsertSession, Unlocked
<1>2. 1 \in Revision
  BY DocumentSessionsAssumption DEF Revision
<1>3. /\ srcPath' \in [Docs -> Paths \cup {NoPath}]
      /\ format' \in [Docs -> Formats]
      /\ fingerprint' \in [Docs -> Fingerprint]
      /\ dirty' \in [Docs -> BOOLEAN]
      /\ revision' \in [Docs -> Revision]
      /\ core' \in [Docs -> Clock]
  BY <1>2 DEF TypeOK, InsertSession
<1>4. cache' \in [Docs -> [Pages -> [rev : Revision, body : Clock]]]
  BY EmptyValuesTyped DEF TypeOK, InsertSession
<1>5. known' \in [Docs -> SUBSET Clock]
  <2>1. {fp.hash} \ {0} \in SUBSET Clock
    BY DEF Fingerprint
  <2> QED
    BY <2>1 DEF TypeOK, InsertSession
<1>6. live' \subseteq issued' /\ issued' \subseteq Docs /\ active' \in Docs \cup {NoDoc}
  BY <1>1 DEF TypeOK, InsertSession
<1> QED
  BY <1>1, <1>3, <1>4, <1>5, <1>6 DEF TypeOK, InsertSession

LEMMA TypeInit == Init => TypeOK
BY DocumentSessionsAssumption, EmptyValuesTyped
   DEF Init, TypeOK, Clock, Revision, Stages, Unloaded, Formats

\* What the core of a session becomes when it is loaded is a body.
LEMMA LoadedCoreTyped ==
  ASSUME TypeOK, NEW d \in Docs, CanLoadCore(d)
  PROVE  LoadedCore(d) \in Clock
BY DEF TypeOK, CanLoadCore, LoadedCore, File

\* The fingerprint of a file, given by the client or read, is a fingerprint.
LEMMA BaselineTyped ==
  ASSUME TypeOK, NEW p \in Paths, NEW given \in ClientPrint
  PROVE  Baseline(p, given) \in Fingerprint
<1>1. [meta : 1 .. clock, hash : 1 .. clock] \subseteq Fingerprint
  BY DocumentSessionsAssumption DEF TypeOK, Fingerprint, Clock
<1>2. given \in Fingerprint
  BY <1>1, EmptyValuesTyped DEF ClientPrint
<1>3. PrintOf(disk[p]) \in Fingerprint
  BY DEF TypeOK, File, PrintOf, Fingerprint
<1> QED
  BY <1>2, <1>3, EmptyValuesTyped DEF Baseline

LEMMA TypeNext ==
  TypeOK /\ [Next]_vars => TypeOK'
<1> SUFFICES ASSUME TypeOK, [Next]_vars PROVE TypeOK'
  OBVIOUS
<1>1. ASSUME NEW d \in Docs, CreateDocument(d) PROVE TypeOK'
  <2>1. clock' \in Clock /\ clock + 1 \in Clock
    BY <1>1, DocumentSessionsAssumption DEF TypeOK, CreateDocument, Clock
  <2>2. NoPath \in Paths \cup {NoPath} /\ "hwp" \in Formats
    BY DEF Formats
  <2> QED
    BY <1>1, <2>1, <2>2, EmptyValuesTyped, InsertTyped DEF CreateDocument
<1>2. ASSUME NEW d \in Docs, NEW p \in Paths, NEW given \in ClientPrint,
             OpenDocumentTracking(d, p, given)
      PROVE  TypeOK'
  <2>1. clock' \in Clock /\ Unloaded \in Clock
    BY <1>2, DocumentSessionsAssumption DEF TypeOK, OpenDocumentTracking, Clock, Unloaded
  <2> QED
    BY <1>2, <2>1, EmptyValuesTyped, BaselineTyped, InsertTyped DEF OpenDocumentTracking
<1>3. ASSUME NEW d \in live, CloseDocument(d) PROVE TypeOK'
  <2>1. 0 \in Revision /\ Unloaded \in Clock /\ "hwp" \in Formats
    BY DocumentSessionsAssumption DEF Revision, Clock, Unloaded, Formats
  <2>2. stage = "free" /\ stage' = "free"
    BY <1>3 DEF CloseDocument, Unlocked
  <2>3. active' \in Docs \cup {NoDoc}
    BY <1>3 DEF TypeOK, CloseDocument
  <2>4. cache' \in [Docs -> [Pages -> [rev : Revision, body : Clock]]]
    BY <1>3, EmptyValuesTyped DEF TypeOK, CloseDocument
  <2>5. fingerprint' \in [Docs -> Fingerprint]
    BY <1>3, EmptyValuesTyped DEF TypeOK, CloseDocument
  <2> QED
    BY <1>3, <2>1, <2>2, <2>3, <2>4, <2>5 DEF TypeOK, CloseDocument
<1>4. ASSUME NEW d \in live, MarkDocumentDirty(d) PROVE TypeOK'
  BY <1>4 DEF TypeOK, MarkDocumentDirty, Unlocked, historyVars
<1>5. ASSUME NEW d \in live, QueryDocument(d) PROVE TypeOK'
  BY <1>5, LoadedCoreTyped DEF TypeOK, QueryDocument, Unlocked, historyVars
<1>6. ASSUME NEW d \in live, NEW pg \in Pages, NEW rev \in 0 .. revision[d],
             RenderPageSvg(d, pg, rev)
      PROVE  TypeOK'
  <2>1. core' \in [Docs -> Clock]
    BY <1>6, LoadedCoreTyped DEF TypeOK, RenderPageSvg
  <2>2. cache' \in [Docs -> [Pages -> [rev : Revision, body : Clock]]]
    BY <1>6, LoadedCoreTyped DEF TypeOK, RenderPageSvg
  <2> QED
    BY <1>6, <2>1, <2>2 DEF TypeOK, RenderPageSvg, Unlocked, historyVars
<1>7. ASSUME NEW d \in live, NEW exp \in 0 .. revision[d], MutateDocument(d, exp)
      PROVE  TypeOK'
  <2>1. clock + 1 \in Clock /\ revision[d] + 1 \in Revision
    BY <1>7, DocumentSessionsAssumption DEF TypeOK, MutateDocument, Clock, Revision
  <2> QED
    BY <1>7, <2>1, EmptyValuesTyped DEF TypeOK, MutateDocument, Unlocked
<1>8. ASSUME Commit PROVE TypeOK'
  <2>0. PICK d \in live, p \in Paths, b \in ClientBody, f \in Formats, g \in Formats,
             allow \in BOOLEAN : \E exp \in 0 .. revision[d] :
               CommitCheck([doc |-> d, target |-> p, body |-> b, fmt |-> f,
                            exp |-> exp, allow |-> allow], g)
    BY <1>8 DEF Commit
  <2>1. PICK exp \in 0 .. revision[d] :
               CommitCheck([doc |-> d, target |-> p, body |-> b, fmt |-> f,
                            exp |-> exp, allow |-> allow], g)
    BY <2>0
  <2>2. b \in Clock /\ exp \in Revision
    BY DocumentSessionsAssumption DEF TypeOK, ClientBody, Clock, Revision
  <2>3. /\ req' \in Request /\ req'.doc \in live /\ req'.target \in Paths /\ req'.fmt \in Formats
        /\ revision[req'.doc] <= MaxRevision
    BY <2>1, <2>2, DocumentSessionsAssumption DEF CommitCheck, Request, TypeOK, Revision
  <2>4. from' \in [path : Paths \cup {NoPath}, clock : Clock] /\ stage' \in Stages
    BY <2>1, DocumentSessionsAssumption DEF CommitCheck, TypeOK, Stages, Clock
  <2> QED
    BY <2>1, <2>3, <2>4 DEF CommitCheck, TypeOK, sessionVars
<1>9. CASE CommitWrite
  <2>1. clock + 1 \in Clock /\ req.body \in Clock
    BY <1>9, DocumentSessionsAssumption DEF TypeOK, CommitWrite, Clock, Request
  <2>2. req.doc \in live /\ req.doc \in Docs /\ req.target \in Paths /\ req.fmt \in Formats
    BY <1>9 DEF TypeOK, CommitWrite
  <2>3. disk' \in [Paths -> File]
    BY <1>9, <2>1, <2>2 DEF TypeOK, CommitWrite, File
  <2> QED
    BY <1>9, <2>1, <2>2, <2>3 DEF TypeOK, CommitWrite, Stages
<1>10. CASE CommitWriteFails
  BY <1>10, EmptyValuesTyped DEF TypeOK, CommitWriteFails, sessionVars, Stages
<1>11. CASE CommitRefresh
  <2>1. req.doc \in Docs /\ req.target \in Paths /\ req.body \in Clock /\ req.exp \in Revision
    BY <1>11 DEF TypeOK, CommitRefresh, Request
  <2>2. [meta |-> disk[req.target].meta, hash |-> req.body] \in Fingerprint
    BY <2>1 DEF TypeOK, File, Fingerprint
  <2>3. revision' \in [Docs -> Revision]
    BY <1>11, <2>1, DocumentSessionsAssumption DEF TypeOK, CommitRefresh, Revision
  <2> QED
    BY <1>11, <2>1, <2>2, <2>3, EmptyValuesTyped DEF TypeOK, CommitRefresh, Stages
<1>12. CASE CommitRefreshFails
  BY <1>12, EmptyValuesTyped DEF TypeOK, CommitRefreshFails, sessionVars, Stages
<1>13. ASSUME NEW p \in Paths, NEW keep \in BOOLEAN, ExternalWrite(p, keep) PROVE TypeOK'
  <2>1. clock + 1 \in Clock /\ FormatOf(p) \in Formats
    BY <1>13, EmptyValuesTyped, DocumentSessionsAssumption DEF TypeOK, ExternalWrite, Clock
  <2>2. disk' \in [Paths -> File]
    BY <1>13, <2>1 DEF TypeOK, ExternalWrite, File
  <2> QED
    BY <1>13, <2>1, <2>2 DEF TypeOK, ExternalWrite, sessionVars, historyVars
<1>14. ASSUME NEW p \in Paths, ExternalDelete(p) PROVE TypeOK'
  BY <1>14, EmptyValuesTyped DEF TypeOK, ExternalDelete, sessionVars, historyVars
<1>15. CASE NewContent
  <2>1. clock + 1 \in Clock
    BY <1>15, DocumentSessionsAssumption DEF TypeOK, NewContent, Clock
  <2> QED
    BY <1>15, <2>1 DEF TypeOK, NewContent, sessionVars, historyVars
<1>16. CASE UNCHANGED vars
  BY <1>16 DEF TypeOK, vars, sessionVars, historyVars
<1> QED
  BY <1>1, <1>2, <1>3, <1>4, <1>5, <1>6, <1>7, <1>8, <1>9, <1>10, <1>11, <1>12,
     <1>13, <1>14, <1>15, <1>16
     DEF Next, Command, Open, CommitStep, External, TypeOK

\* Every reachable state of the native sessions is well typed: the session
\* fields, the cache, the lock of a running commit and the files.
THEOREM TypeCorrect == Spec => []TypeOK
BY TypeInit, TypeNext, PTL DEF Spec

-----------------------------------------------------------------------------
(* The inductive invariant                                                 *)

LEMMA InvariantInit == Init => IInv
<1> SUFFICES ASSUME Init PROVE IInv
  OBVIOUS
<1>1. TypeOK
  BY TypeInit
<1>2. ActiveIsLive /\ LockHolds /\ WriteChecked /\ BaselineAdopted /\ RevisionsPositive /\ CacheFresh
  BY DEF Init, ActiveIsLive, LockHolds, WriteChecked, BaselineAdopted, RevisionsPositive, CacheFresh
<1>3. FilesHaveBodies /\ ExtensionsTellFormat
  BY DEF Init, FilesHaveBodies, ExtensionsTellFormat
<1>5. NumbersDrawn
  BY DEF Init, NumbersDrawn, NoRequest
<1>4. SpentIsPast
  BY DEF Init, SpentIsPast
<1> QED
  BY <1>1, <1>2, <1>3, <1>4, <1>5 DEF IInv

\* A step that neither opens nor closes a session keeps the set of open sessions
\* and the active one.
LEMMA OpenOrClose ==
  ASSUME [Next]_vars
  PROVE  \/ UNCHANGED <<live, issued, active>>
         \/ \E d \in Docs : CreateDocument(d)
         \/ \E d \in Docs, p \in Paths : \E given \in ClientPrint :
              OpenDocumentTracking(d, p, given)
         \/ \E d \in live : CloseDocument(d)
<1>1. CASE Command
  <2>1. CASE \E d \in live : MarkDocumentDirty(d)
    BY <2>1 DEF MarkDocumentDirty
  <2>2. CASE \E d \in live : QueryDocument(d)
    BY <2>2 DEF QueryDocument
  <2>3. CASE \E d \in live, pg \in Pages : \E rev \in 0 .. revision[d] :
               RenderPageSvg(d, pg, rev)
    BY <2>3 DEF RenderPageSvg
  <2>4. CASE \E d \in live : \E exp \in 0 .. revision[d] : MutateDocument(d, exp)
    BY <2>4 DEF MutateDocument
  <2>5. CASE Commit
    BY <2>5 DEF Commit, CommitCheck, sessionVars
  <2> QED
    BY <1>1, <2>1, <2>2, <2>3, <2>4, <2>5 DEF Command, Open
<1>2. CASE CommitStep
  BY <1>2 DEF CommitStep, CommitWrite, CommitWriteFails, CommitRefresh,
              CommitRefreshFails, sessionVars
<1>3. CASE External
  BY <1>3 DEF External, ExternalWrite, ExternalDelete, NewContent, sessionVars
<1>4. CASE UNCHANGED vars
  BY <1>4 DEF vars, sessionVars
<1> QED
  BY <1>1, <1>2, <1>3, <1>4 DEF Next

LEMMA ActiveIsLiveNext ==
  ASSUME IInv, [Next]_vars
  PROVE  ActiveIsLive'
<1>1. CASE UNCHANGED <<live, issued, active>>
  BY <1>1 DEF IInv, ActiveIsLive
<1>2. ASSUME NEW d \in Docs, live' = live \cup {d}, active' = d PROVE ActiveIsLive'
  BY <1>2 DEF ActiveIsLive
<1>3. ASSUME NEW d \in live, CloseDocument(d) PROVE ActiveIsLive'
  BY <1>3, DocumentSessionsAssumption DEF IInv, ActiveIsLive, CloseDocument
<1> QED
  BY <1>1, <1>2, <1>3, OpenOrClose
     DEF CreateDocument, OpenDocumentTracking, InsertSession

\* Only the rename of a commit and other programs change files.
LEMMA FileSteps ==
  ASSUME [Next]_vars
  PROVE  UNCHANGED disk \/ CommitWrite \/ External
<1>1. CASE Command
  <2>1. CASE \E d \in Docs : CreateDocument(d)
    BY <2>1 DEF CreateDocument, InsertSession
  <2>2. CASE Open
    BY <2>2 DEF Open, OpenDocumentTracking, InsertSession
  <2>3. CASE \E d \in live : CloseDocument(d)
    BY <2>3 DEF CloseDocument
  <2>4. CASE \E d \in live : MarkDocumentDirty(d)
    BY <2>4 DEF MarkDocumentDirty
  <2>5. CASE \E d \in live : QueryDocument(d)
    BY <2>5 DEF QueryDocument
  <2>6. CASE \E d \in live, pg \in Pages : \E rev \in 0 .. revision[d] :
               RenderPageSvg(d, pg, rev)
    BY <2>6 DEF RenderPageSvg
  <2>7. CASE \E d \in live : \E exp \in 0 .. revision[d] : MutateDocument(d, exp)
    BY <2>7 DEF MutateDocument
  <2>8. CASE Commit
    BY <2>8 DEF Commit, CommitCheck
  <2> QED
    BY <1>1, <2>1, <2>2, <2>3, <2>4, <2>5, <2>6, <2>7, <2>8 DEF Command
<1>2. CASE CommitStep
  BY <1>2 DEF CommitStep, CommitWriteFails, CommitRefresh, CommitRefreshFails
<1>3. CASE UNCHANGED vars
  BY <1>3 DEF vars
<1> QED
  BY <1>1, <1>2, <1>3 DEF Next

\* A file that is there has a body: other programs and commits write bodies.
LEMMA FilesHaveBodiesNext ==
  ASSUME IInv, [Next]_vars
  PROVE  FilesHaveBodies'
<1>1. CASE UNCHANGED disk
  BY <1>1 DEF IInv, FilesHaveBodies
<1>2. CASE CommitWrite
  BY <1>2 DEF IInv, TypeOK, LockHolds, FilesHaveBodies, CommitWrite
<1>3. ASSUME NEW p \in Paths, NEW keep \in BOOLEAN, ExternalWrite(p, keep)
      PROVE  FilesHaveBodies'
  <2>1. clock + 1 # 0
    BY DocumentSessionsAssumption DEF IInv, TypeOK, Clock
  <2> QED
    BY <1>3, <2>1 DEF IInv, TypeOK, FilesHaveBodies, ExternalWrite
<1>4. ASSUME NEW p \in Paths, ExternalDelete(p) PROVE FilesHaveBodies'
  BY <1>4 DEF IInv, TypeOK, FilesHaveBodies, ExternalDelete
<1> QED
  BY <1>1, <1>2, <1>3, <1>4, FileSteps DEF External, NewContent

\* The clock never goes back, and only a new request brings a new body.
LEMMA ClockSteps ==
  ASSUME TypeOK, [Next]_vars
  PROVE  /\ clock' = clock \/ clock' = clock + 1
         /\ UNCHANGED req \/ req' = NoRequest \/ req'.body \in ClientBody
<1>1. CASE Command
  <2>1. CASE \E d \in Docs : CreateDocument(d)
    BY <2>1 DEF CreateDocument, InsertSession
  <2>2. CASE Open
    BY <2>2 DEF Open, OpenDocumentTracking, InsertSession
  <2>3. CASE \E d \in live : CloseDocument(d)
    BY <2>3 DEF CloseDocument
  <2>4. CASE \E d \in live : MarkDocumentDirty(d)
    BY <2>4 DEF MarkDocumentDirty
  <2>5. CASE \E d \in live : QueryDocument(d)
    BY <2>5 DEF QueryDocument
  <2>6. CASE \E d \in live, pg \in Pages : \E rev \in 0 .. revision[d] :
               RenderPageSvg(d, pg, rev)
    BY <2>6 DEF RenderPageSvg
  <2>7. CASE \E d \in live : \E exp \in 0 .. revision[d] : MutateDocument(d, exp)
    BY <2>7 DEF MutateDocument
  <2>8. CASE Commit
    BY <2>8 DEF Commit, CommitCheck
  <2> QED
    BY <1>1, <2>1, <2>2, <2>3, <2>4, <2>5, <2>6, <2>7, <2>8 DEF Command
<1>2. CASE CommitStep
  BY <1>2 DEF CommitStep, CommitWrite, CommitWriteFails, CommitRefresh, CommitRefreshFails
<1>3. CASE External
  BY <1>3 DEF External, ExternalWrite, ExternalDelete, NewContent
<1>4. CASE UNCHANGED vars
  BY <1>4 DEF vars
<1> QED
  BY <1>1, <1>2, <1>3, <1>4 DEF Next

LEMMA NumbersDrawnNext ==
  ASSUME IInv, [Next]_vars
  PROVE  NumbersDrawn'
<1>1. clock \in Nat /\ clock' \in Nat /\ clock <= clock'
  BY ClockSteps, DocumentSessionsAssumption DEF IInv, TypeOK, Clock
<1>2. req'.body <= clock'
  BY <1>1, ClockSteps, DocumentSessionsAssumption
     DEF IInv, TypeOK, NumbersDrawn, NoRequest, ClientBody, Request, Clock
<1>3. ASSUME NEW p \in Paths, disk'[p] # Absent
      PROVE  disk'[p].meta \in 1 .. clock' /\ disk'[p].body \in 1 .. clock'
  <2>1. CASE UNCHANGED disk
    BY <1>1, <1>3, <2>1 DEF IInv, NumbersDrawn
  <2>2. CASE CommitWrite
    <3>1. req.body \in 1 .. clock /\ clock' = clock + 1
      BY <1>1, <2>2, DocumentSessionsAssumption
         DEF IInv, TypeOK, LockHolds, NumbersDrawn, CommitWrite, Request, Clock
    <3> QED
      BY <1>1, <1>3, <2>2, <3>1 DEF IInv, TypeOK, NumbersDrawn, CommitWrite
  <2>3. ASSUME NEW q \in Paths, NEW keep \in BOOLEAN, ExternalWrite(q, keep)
        PROVE  disk'[p].meta \in 1 .. clock' /\ disk'[p].body \in 1 .. clock'
    BY <1>1, <1>3, <2>3 DEF IInv, TypeOK, NumbersDrawn, ExternalWrite
  <2>4. ASSUME NEW q \in Paths, ExternalDelete(q)
        PROVE  disk'[p].meta \in 1 .. clock' /\ disk'[p].body \in 1 .. clock'
    BY <1>1, <1>3, <2>4 DEF IInv, TypeOK, NumbersDrawn, ExternalDelete
  <2> QED
    BY <2>1, <2>2, <2>3, <2>4, FileSteps DEF External, NewContent
<1> QED
  BY <1>2, <1>3 DEF NumbersDrawn

\* The commit that holds the mutex keeps its request until it lets go of it.
LEMMA LockHoldsNext ==
  ASSUME IInv, [Next]_vars
  PROVE  LockHolds'
<1>1. CASE stage' = "free"
  BY <1>1 DEF LockHolds
<1>2. CASE CommitWrite
  BY <1>2 DEF IInv, TypeOK, LockHolds, CommitWrite
<1>3. CASE Commit
  <2>1. PICK d \in live, p \in Paths, b \in ClientBody, f \in Formats, g \in Formats,
             allow \in BOOLEAN : \E exp \in 0 .. revision[d] :
               CommitCheck([doc |-> d, target |-> p, body |-> b, fmt |-> f,
                            exp |-> exp, allow |-> allow], g)
    BY <1>3 DEF Commit
  <2>2. PICK exp \in 0 .. revision[d] :
               CommitCheck([doc |-> d, target |-> p, body |-> b, fmt |-> f,
                            exp |-> exp, allow |-> allow], g)
    BY <2>1
  <2>3. b # 0
    BY DocumentSessionsAssumption DEF ClientBody
  <2> QED
    BY <2>2, <2>3 DEF CommitCheck, CommitAllowed, RevisionMatches, LockHolds, sessionVars
<1>4. CASE stage # "free" /\ External
  BY <1>4 DEF IInv, LockHolds, External, ExternalWrite, ExternalDelete, NewContent, sessionVars,
              historyVars
<1>5. CASE UNCHANGED vars
  BY <1>5 DEF IInv, LockHolds, vars, sessionVars, historyVars
<1> QED
  BY <1>1, <1>2, <1>3, <1>4, <1>5
     DEF Next, Command, Open, CommitStep, External, ExternalWrite, ExternalDelete, NewContent,
         CreateDocument, OpenDocumentTracking, InsertSession, CloseDocument,
         MarkDocumentDirty, QueryDocument, RenderPageSvg, MutateDocument,
         CommitWriteFails, CommitRefresh, CommitRefreshFails, Unlocked

\* The check finds bytes the session knows; other programs only bring later ones.
LEMMA WriteCheckedNext ==
  ASSUME IInv, [Next]_vars
  PROVE  WriteChecked'
<1>1. CASE stage' # "write"
  BY <1>1 DEF WriteChecked
<1>2. CASE Commit
  <2>1. PICK d \in live, p \in Paths, b \in ClientBody, f \in Formats, g \in Formats,
             allow \in BOOLEAN : \E exp \in 0 .. revision[d] :
               CommitCheck([doc |-> d, target |-> p, body |-> b, fmt |-> f,
                            exp |-> exp, allow |-> allow], g)
    BY <1>2 DEF Commit
  <2>2. PICK exp \in 0 .. revision[d] :
               CommitCheck([doc |-> d, target |-> p, body |-> b, fmt |-> f,
                            exp |-> exp, allow |-> allow], g)
    BY <2>1
  <2>3. /\ req'.doc = d /\ req'.target = p /\ req'.allow = allow /\ d \in live
        /\ allow \/ ~ExternallyModified(d, p)
        /\ from' = [path |-> srcPath[d], clock |-> clock]
        /\ UNCHANGED <<disk, clock, fingerprint, known>>
    BY <2>2 DEF CommitCheck, CommitAllowed, sessionVars
  <2>4. from'.clock <= clock'
    BY <2>3, DocumentSessionsAssumption DEF IInv, TypeOK, Clock
  <2>5. ASSUME ~allow, srcPath[d] = p, fingerprint[d] # NoPrint
        PROVE  disk[p].body \in known[d]
    <3>1. PrintOf(disk[p]) = fingerprint[d]
      BY <2>3, <2>5 DEF ExternallyModified
    <3> QED
      BY <2>3, <2>5, <3>1 DEF IInv, BaselineAdopted, PrintOf
  <2> QED
    BY <2>3, <2>4, <2>5 DEF WriteChecked
<1>3. CASE stage = "write" /\ External
  <2>1. /\ stage' = stage /\ req' = req /\ from' = from
        /\ UNCHANGED <<fingerprint, known>>
    BY <1>3 DEF External, ExternalWrite, ExternalDelete, NewContent, sessionVars, historyVars
  <2>2. clock \in Nat /\ from.clock \in Nat /\ from.clock <= clock /\ req.target \in Paths
    BY <1>3, DocumentSessionsAssumption DEF IInv, TypeOK, WriteChecked, Clock
  <2>3. ASSUME NEW p \in Paths, NEW keep \in BOOLEAN, ExternalWrite(p, keep)
        PROVE  WriteChecked'
    <3>1. /\ clock' = clock + 1
          /\ \A q \in Paths : disk'[q] = disk[q] \/ disk'[q].body > from.clock
      BY <2>2, <2>3 DEF IInv, TypeOK, ExternalWrite
    <3>2. disk'[req.target] = disk[req.target] \/ disk'[req.target].body > from.clock
      BY <2>2, <3>1
    <3> QED
      BY <1>3, <2>1, <2>2, <3>1, <3>2 DEF IInv, WriteChecked
  <2>4. ASSUME NEW p \in Paths, ExternalDelete(p) PROVE WriteChecked'
    <3>1. /\ clock' = clock
          /\ \A q \in Paths : disk'[q] = disk[q] \/ disk'[q] = Absent
      BY <2>4 DEF IInv, TypeOK, ExternalDelete
    <3>2. disk'[req.target] = disk[req.target] \/ disk'[req.target] = Absent
      BY <2>2, <3>1
    <3> QED
      BY <1>3, <2>1, <3>1, <3>2 DEF IInv, WriteChecked
  <2>5. CASE NewContent
    BY <1>3, <2>1, <2>2, <2>5 DEF IInv, WriteChecked, NewContent
  <2> QED
    BY <1>3, <2>3, <2>4, <2>5 DEF External
<1>4. CASE UNCHANGED vars
  BY <1>4 DEF IInv, WriteChecked, vars, sessionVars, historyVars
<1> QED
  BY <1>1, <1>2, <1>3, <1>4
     DEF Next, Command, Open, CommitStep, External, ExternalWrite, ExternalDelete, NewContent,
         CreateDocument, OpenDocumentTracking, InsertSession, CloseDocument,
         MarkDocumentDirty, QueryDocument, RenderPageSvg, MutateDocument,
         CommitWrite, CommitWriteFails, CommitRefresh, CommitRefreshFails, Unlocked

\* The bytes of the baseline of a new session are the first ones it knows.
LEMMA BaselineHasBytes ==
  ASSUME IInv, NEW p \in Paths, NEW given \in ClientPrint, Baseline(p, given) # NoPrint
  PROVE  Baseline(p, given).hash # 0
<1>1. given # NoPrint => given.hash # 0
  BY DEF ClientPrint
<1>2. disk[p] # Absent => PrintOf(disk[p]).hash # 0
  BY DEF IInv, FilesHaveBodies, PrintOf
<1> QED
  BY <1>1, <1>2 DEF Baseline

\* Among the steps that keep the open sessions, only a commit changes a baseline
\* or the bodies a session adopted.
LEMMA SourceSteps ==
  ASSUME [Next]_vars
  PROVE  \/ UNCHANGED <<srcPath, format, fingerprint, known>>
         \/ CommitWrite \/ CommitRefresh
         \/ \E d \in Docs : CreateDocument(d)
         \/ \E d \in Docs, p \in Paths : \E given \in ClientPrint :
              OpenDocumentTracking(d, p, given)
         \/ \E d \in live : CloseDocument(d)
<1>1. CASE Command
  <2>1. CASE \E d \in live : MarkDocumentDirty(d)
    BY <2>1 DEF MarkDocumentDirty, historyVars
  <2>2. CASE \E d \in live : QueryDocument(d)
    BY <2>2 DEF QueryDocument, historyVars
  <2>3. CASE \E d \in live, pg \in Pages : \E rev \in 0 .. revision[d] :
               RenderPageSvg(d, pg, rev)
    BY <2>3 DEF RenderPageSvg, historyVars
  <2>4. CASE \E d \in live : \E exp \in 0 .. revision[d] : MutateDocument(d, exp)
    BY <2>4 DEF MutateDocument
  <2>5. CASE Commit
    BY <2>5 DEF Commit, CommitCheck, sessionVars
  <2> QED
    BY <1>1, <2>1, <2>2, <2>3, <2>4, <2>5 DEF Command, Open
<1>2. CASE CommitStep
  BY <1>2 DEF CommitStep, CommitWriteFails, CommitRefreshFails, sessionVars
<1>3. CASE External
  BY <1>3 DEF External, ExternalWrite, ExternalDelete, NewContent, sessionVars, historyVars
<1>4. CASE UNCHANGED vars
  BY <1>4 DEF vars, sessionVars, historyVars
<1> QED
  BY <1>1, <1>2, <1>3, <1>4 DEF Next

LEMMA BaselineAdoptedNext ==
  ASSUME IInv, [Next]_vars
  PROVE  BaselineAdopted'
<1> USE DEF IInv, TypeOK, BaselineAdopted
<1>1. CASE UNCHANGED <<live, fingerprint, known>>
  BY <1>1
<1>2. ASSUME NEW d \in Docs, CreateDocument(d) PROVE BaselineAdopted'
  BY <1>2 DEF CreateDocument, InsertSession
<1>3. ASSUME NEW d \in Docs, NEW p \in Paths, NEW given \in ClientPrint,
             OpenDocumentTracking(d, p, given)
      PROVE  BaselineAdopted'
  BY <1>3, BaselineHasBytes DEF OpenDocumentTracking, InsertSession
<1>4. ASSUME NEW d \in live, CloseDocument(d) PROVE BaselineAdopted'
  BY <1>4 DEF CloseDocument
<1>5. CASE CommitWrite
  BY <1>5 DEF CommitWrite
<1>6. CASE CommitRefresh
  BY <1>6 DEF CommitRefresh, LockHolds
<1> QED
  BY <1>1, <1>2, <1>3, <1>4, <1>5, <1>6, OpenOrClose, SourceSteps

\* Only these commands touch revisions, cores and cached pages.
LEMMA CoreSteps ==
  ASSUME [Next]_vars
  PROVE  \/ UNCHANGED <<live, revision, core, cache, torn>>
         \/ CommitWrite \/ CommitRefresh
         \/ \E d \in Docs : CreateDocument(d)
         \/ \E d \in Docs, p \in Paths : \E given \in ClientPrint :
              OpenDocumentTracking(d, p, given)
         \/ \E d \in live : CloseDocument(d)
         \/ \E d \in live : QueryDocument(d)
         \/ \E d \in live, pg \in Pages : \E rev \in 0 .. revision[d] :
              RenderPageSvg(d, pg, rev)
         \/ \E d \in live : \E exp \in 0 .. revision[d] : MutateDocument(d, exp)
<1>1. CASE Command
  <2>1. CASE \E d \in live : MarkDocumentDirty(d)
    BY <2>1 DEF MarkDocumentDirty, historyVars
  <2>2. CASE Commit
    BY <2>2 DEF Commit, CommitCheck, sessionVars
  <2> QED
    BY <1>1, <2>1, <2>2 DEF Command, Open
<1>2. CASE CommitStep
  BY <1>2 DEF CommitStep, CommitWriteFails, CommitRefreshFails, sessionVars
<1>3. CASE External
  BY <1>3 DEF External, ExternalWrite, ExternalDelete, NewContent, sessionVars, historyVars
<1>4. CASE UNCHANGED vars
  BY <1>4 DEF vars, sessionVars, historyVars
<1> QED
  BY <1>1, <1>2, <1>3, <1>4 DEF Next

\* A core that is loaded is a body, never the mark of an unloaded one.
LEMMA LoadedCoreIsBody ==
  ASSUME IInv, NEW d \in live, CanLoadCore(d)
  PROVE  /\ LoadedCore(d) # 0
         /\ core[d] # 0 => LoadedCore(d) = core[d]
BY DEF IInv, TypeOK, FilesHaveBodies, CanLoadCore, LoadedCore, Unloaded

LEMMA RevisionsPositiveNext ==
  ASSUME IInv, [Next]_vars
  PROVE  RevisionsPositive'
<1> USE DEF IInv, TypeOK, RevisionsPositive
<1>1. CASE UNCHANGED <<live, revision, core, cache, torn>>
  BY <1>1
<1>2. ASSUME NEW d \in Docs, NEW p, NEW f, NEW fp, NEW c, InsertSession(d, p, f, fp, c)
      PROVE  RevisionsPositive'
  BY <1>2 DEF InsertSession, EmptyCache, NoSvg
<1>3. ASSUME NEW d \in live, CloseDocument(d) PROVE RevisionsPositive'
  BY <1>3 DEF CloseDocument
<1>4. ASSUME NEW d \in live, QueryDocument(d) PROVE RevisionsPositive'
  BY <1>4 DEF QueryDocument
<1>5. ASSUME NEW d \in live, NEW pg \in Pages, NEW rev \in 0 .. revision[d],
             RenderPageSvg(d, pg, rev)
      PROVE  RevisionsPositive'
  <2>1. CASE UNCHANGED cache
    BY <1>5, <2>1 DEF RenderPageSvg
  <2>2. CASE CanLoadCore(d)
             /\ cache' = [cache EXCEPT ![d][pg] =
                            [rev |-> revision[d], body |-> LoadedCore(d)]]
    BY <1>5, <2>2, LoadedCoreIsBody DEF RenderPageSvg
  <2> QED
    BY <1>5, <2>1, <2>2 DEF RenderPageSvg
<1>6. ASSUME NEW d \in live, NEW exp \in 0 .. revision[d], MutateDocument(d, exp)
      PROVE  RevisionsPositive'
  <2>1. revision[d] + 1 # 0
    BY DocumentSessionsAssumption DEF Revision
  <2> QED
    BY <1>6, <2>1 DEF MutateDocument, EmptyCache, NoSvg
<1>7. CASE CommitWrite
  BY <1>7 DEF CommitWrite
<1>8. CASE CommitRefresh
  <2>1. revision[req.doc] + 1 # 0
    BY <1>8, DocumentSessionsAssumption DEF CommitRefresh, Revision, Request
  <2> QED
    BY <1>8, <2>1 DEF CommitRefresh, EmptyCache, NoSvg
<1> QED
  BY <1>1, <1>2, <1>3, <1>4, <1>5, <1>6, <1>7, <1>8, CoreSteps
     DEF CreateDocument, OpenDocumentTracking

LEMMA CacheFreshNext ==
  ASSUME IInv, [Next]_vars
  PROVE  CacheFresh'
<1> USE DEF IInv, TypeOK, CacheFresh
<1>1. CASE UNCHANGED <<live, revision, core, cache, torn>>
  BY <1>1
<1>2. ASSUME NEW d \in Docs, NEW p, NEW f, NEW fp, NEW c, InsertSession(d, p, f, fp, c)
      PROVE  CacheFresh'
  BY <1>2 DEF InsertSession, EmptyCache, NoSvg
<1>3. ASSUME NEW d \in live, CloseDocument(d) PROVE CacheFresh'
  BY <1>3 DEF CloseDocument
<1>4. ASSUME NEW d \in live, QueryDocument(d) PROVE CacheFresh'
  <2>1. ASSUME NEW pg \in Pages, d \notin torn, cache[d][pg].rev = revision[d]
        PROVE  LoadedCore(d) = cache[d][pg].body
    BY <1>4, <2>1, LoadedCoreIsBody DEF QueryDocument, RevisionsPositive
  <2> QED
    BY <1>4, <2>1 DEF QueryDocument, historyVars
<1>5. ASSUME NEW d \in live, NEW pg \in Pages, NEW rev \in 0 .. revision[d],
             RenderPageSvg(d, pg, rev)
      PROVE  CacheFresh'
  <2>1. CASE UNCHANGED <<core, cache>>
    BY <1>5, <2>1 DEF RenderPageSvg, historyVars
  <2>2. CASE /\ CanLoadCore(d)
             /\ core' = [core EXCEPT ![d] = LoadedCore(d)]
             /\ cache' = [cache EXCEPT ![d][pg] =
                            [rev |-> revision[d], body |-> LoadedCore(d)]]
    <3>1. ASSUME NEW q \in Pages, d \notin torn, cache[d][q].rev = revision[d]
          PROVE  LoadedCore(d) = cache[d][q].body
      BY <2>2, <3>1, LoadedCoreIsBody DEF RevisionsPositive
    <3> QED
      BY <1>5, <2>2, <3>1 DEF RenderPageSvg, historyVars
  <2> QED
    BY <1>5, <2>1, <2>2 DEF RenderPageSvg
<1>6. ASSUME NEW d \in live, NEW exp \in 0 .. revision[d], MutateDocument(d, exp)
      PROVE  CacheFresh'
  <2>1. revision[d] + 1 # 0
    BY DocumentSessionsAssumption DEF Revision
  <2> QED
    BY <1>6, <2>1 DEF MutateDocument, EmptyCache, NoSvg
<1>7. CASE CommitWrite
  BY <1>7 DEF CommitWrite
<1>8. CASE CommitRefresh
  <2>1. revision[req.doc] + 1 # 0
    BY <1>8, DocumentSessionsAssumption DEF CommitRefresh, Revision, Request
  <2> QED
    BY <1>8, <2>1 DEF CommitRefresh, EmptyCache, NoSvg
<1> QED
  BY <1>1, <1>2, <1>3, <1>4, <1>5, <1>6, <1>7, <1>8, CoreSteps
     DEF CreateDocument, OpenDocumentTracking

\* The extension names the format of every file and every session.
LEMMA ExtensionsTellFormatNext ==
  ASSUME IInv, [Next]_vars
  PROVE  ExtensionsTellFormat'
<1> USE DEF IInv, TypeOK
<1>1. \A p \in Paths : disk'[p] # Absent => disk'[p].fmt = FormatOf(p)
  <2> USE DEF ExtensionsTellFormat
  <2>1. CASE UNCHANGED disk
    BY <2>1
  <2>2. CASE CommitWrite
    BY <2>2 DEF CommitWrite, LockHolds
  <2>3. ASSUME NEW p \in Paths, NEW keep \in BOOLEAN, ExternalWrite(p, keep)
        PROVE  \A q \in Paths : disk'[q] # Absent => disk'[q].fmt = FormatOf(q)
    BY <2>3 DEF ExternalWrite
  <2>4. ASSUME NEW p \in Paths, ExternalDelete(p)
        PROVE  \A q \in Paths : disk'[q] # Absent => disk'[q].fmt = FormatOf(q)
    BY <2>4 DEF ExternalDelete
  <2> QED
    BY <2>1, <2>2, <2>3, <2>4, FileSteps DEF External, NewContent
<1>2. \A d \in live' : srcPath'[d] # NoPath => format'[d] = FormatOf(srcPath'[d])
  <2> USE DEF ExtensionsTellFormat
  <2>1. CASE UNCHANGED <<live, srcPath, format>>
    BY <2>1
  <2>2. ASSUME NEW d \in Docs, NEW p, NEW fp, NEW c,
               InsertSession(d, p, FormatOf(p), fp, c) \/ InsertSession(d, NoPath, "hwp", fp, c)
        PROVE  \A e \in live' : srcPath'[e] # NoPath => format'[e] = FormatOf(srcPath'[e])
    BY <2>2 DEF InsertSession
  <2>3. ASSUME NEW d \in live, CloseDocument(d)
        PROVE  \A e \in live' : srcPath'[e] # NoPath => format'[e] = FormatOf(srcPath'[e])
    BY <2>3 DEF CloseDocument
  <2>4. CASE CommitWrite
    BY <2>4 DEF CommitWrite, LockHolds
  <2>5. CASE CommitRefresh
    BY <2>5 DEF CommitRefresh
  <2> QED
    BY <2>1, <2>2, <2>3, <2>4, <2>5, OpenOrClose, SourceSteps
       DEF CreateDocument, OpenDocumentTracking
<1> QED
  BY <1>1, <1>2 DEF ExtensionsTellFormat

\* A revision only grows while its session is open, and a completed commit leaves
\* its session beyond the revision it was given.
LEMMA SpentIsPastNext ==
  ASSUME IInv, [Next]_vars
  PROVE  SpentIsPast'
<1> USE DEF IInv, TypeOK, SpentIsPast
<1>1. CASE UNCHANGED <<live, issued, revision, spent>>
  BY <1>1
<1>2. ASSUME NEW d \in Docs, NEW p, NEW f, NEW fp, NEW c, InsertSession(d, p, f, fp, c)
      PROVE  SpentIsPast'
  BY <1>2 DEF InsertSession
<1>3. ASSUME NEW d \in live, CloseDocument(d) PROVE SpentIsPast'
  BY <1>3 DEF CloseDocument
<1>4. ASSUME NEW d \in live, NEW exp \in 0 .. revision[d], MutateDocument(d, exp)
      PROVE  SpentIsPast'
  BY <1>4, DocumentSessionsAssumption DEF MutateDocument, Revision
<1>5. CASE CommitRefresh
  <2>1. /\ req.doc \in live /\ req.doc \in Docs
        /\ req.exp \in {0, revision[req.doc]}
        /\ revision[req.doc] < revision[req.doc] + 1
    BY <1>5, DocumentSessionsAssumption
       DEF CommitRefresh, LockHolds, NoRevision, Revision
  <2>2. spent' \subseteq spent \cup {<<req.doc, revision[req.doc]>>}
    BY <1>5, <2>1 DEF CommitRefresh, NoRevision
  <2> QED
    BY <1>5, <2>1, <2>2, DocumentSessionsAssumption DEF CommitRefresh, Revision
<1>6. \/ UNCHANGED <<revision, spent>> \/ ~UNCHANGED <<live, issued, active>>
      \/ \E d \in live : \E exp \in 0 .. revision[d] : MutateDocument(d, exp)
      \/ CommitRefresh
  <2>1. CASE \E d \in live : MarkDocumentDirty(d)
    BY <2>1 DEF MarkDocumentDirty, historyVars
  <2>2. CASE \E d \in live : QueryDocument(d)
    BY <2>2 DEF QueryDocument, historyVars
  <2>3. CASE \E d \in live, pg \in Pages : \E rev \in 0 .. revision[d] :
               RenderPageSvg(d, pg, rev)
    BY <2>3 DEF RenderPageSvg, historyVars
  <2>4. CASE Commit
    BY <2>4 DEF Commit, CommitCheck, sessionVars
  <2>5. CASE CommitStep
    BY <2>5 DEF CommitStep, CommitWrite, CommitWriteFails, CommitRefreshFails, sessionVars
  <2>6. CASE External
    BY <2>6 DEF External, ExternalWrite, ExternalDelete, NewContent, sessionVars, historyVars
  <2>7. CASE UNCHANGED vars
    BY <2>7 DEF vars, sessionVars, historyVars
  <2>8. CASE \E d \in Docs : CreateDocument(d)
    BY <2>8 DEF CreateDocument, InsertSession
  <2>9. CASE Open
    BY <2>9 DEF Open, OpenDocumentTracking, InsertSession
  <2>10. CASE \E d \in live : CloseDocument(d)
    BY <2>10 DEF CloseDocument
  <2> HIDE DEF IInv, TypeOK, SpentIsPast
  <2> QED
    BY <2>1, <2>2, <2>3, <2>4, <2>5, <2>6, <2>7, <2>8, <2>9, <2>10 DEF Next, Command
<1> QED
  BY <1>1, <1>2, <1>3, <1>4, <1>5, <1>6, OpenOrClose
     DEF CreateDocument, OpenDocumentTracking

LEMMA InvariantNext == IInv /\ [Next]_vars => IInv'
<1> SUFFICES ASSUME IInv, [Next]_vars PROVE IInv'
  OBVIOUS
<1>1. TypeOK'
  BY TypeNext DEF IInv
<1> QED
  BY <1>1, ActiveIsLiveNext, LockHoldsNext, WriteCheckedNext, BaselineAdoptedNext, FilesHaveBodiesNext,
     NumbersDrawnNext, RevisionsPositiveNext, CacheFreshNext, ExtensionsTellFormatNext,
     SpentIsPastNext
     DEF IInv

\* The strengthened invariant holds of every reachable state.
THEOREM Invariance == Spec => []IInv
BY InvariantInit, InvariantNext, PTL DEF Spec

-----------------------------------------------------------------------------
(* What it gives                                                           *)

\* close_document always hands the active role to an open session, or to none when
\* it closed the last one.
THEOREM ActiveCorrect == Spec => []ActiveIsLive
<1>1. IInv => ActiveIsLive
  BY DEF IInv
<1> QED
  BY <1>1, Invariance, PTL

\* The external-modification baseline of every open session belongs to bytes the
\* session adopted or wrote.
THEOREM BaselineCorrect == Spec => []BaselineAdopted
<1>1. IInv => BaselineAdopted
  BY DEF IInv
<1> QED
  BY <1>1, Invariance, PTL

\* The page cache never serves a page of another core at the current revision.
THEOREM CacheCorrect == Spec => []CacheFresh
<1>1. IInv => CacheFresh
  BY DEF IInv
<1> QED
  BY <1>1, Invariance, PTL

\* No save puts bytes of one format under the extension of the other.
THEOREM FormatCorrect == Spec => []ExtensionsTellFormat
<1>1. IInv => ExtensionsTellFormat
  BY DEF IInv
<1> QED
  BY <1>1, Invariance, PTL

\* The four together: what DocumentSessionManager keeps of its documents holds at every step
\* of every command, for any number of documents and paths.
THEOREM SessionsCorrect == Spec => []SessionsSound
<1> QED
  BY ActiveCorrect, BaselineCorrect, CacheCorrect, FormatCorrect, PTL DEF SessionsSound

\* A commit without consent replaces, under its session's own path, bytes the session knows or
\* bytes that came after its check, whatever other programs did before it and meanwhile.
THEOREM OverwriteCorrect == Spec => OverwritesKnownOrLater
<1>1. IInv /\ [Next]_vars =>
        [LET old == disk[req.target] IN
           /\ stage = "write" /\ stage' = "refresh" /\ ~req.allow
           /\ from.path = req.target /\ fingerprint[req.doc] # NoPrint /\ old # Absent
           => old.body \in known[req.doc] \/ old.body > from.clock]_vars
  BY DEF IInv, WriteChecked
<1> QED
  BY <1>1, Invariance, PTL DEF Spec, OverwritesKnownOrLater

\* Of the saves that started from one revision of a document, at most one completes.
THEOREM RevisionCorrect == Spec => RevisionSpentOnce
<1>1. ASSUME IInv, NEW d \in Docs, NEW r \in 1 .. MaxRevision, <<d, r>> \in spent,
             stage = "refresh", req.doc = d, req.exp = r
      PROVE  FALSE
  <2>1. d \in live /\ r = revision[d]
    BY <1>1 DEF IInv, TypeOK, LockHolds, NoRevision
  <2> QED
    BY <1>1, <2>1, DocumentSessionsAssumption DEF IInv, SpentIsPast, TypeOK, Revision
<1>2. IInv /\ [Next]_vars =>
        [\A d \in Docs : \A r \in 1 .. MaxRevision :
           <<d, r>> \in spent => ~(stage = "refresh" /\ stage' = "free"
                                   /\ req.doc = d /\ req.exp = r
                                   /\ revision'[d] # revision[d])]_vars
  BY <1>1
<1> QED
  BY <1>2, Invariance, PTL DEF Spec, RevisionSpentOnce

=============================================================================
