--------------------------- MODULE UpdaterProofs ---------------------------
(***************************************************************************)
(* Proofs about the updater, for any windows, versions and bounds.  What   *)
(* is offered fits the package that would be applied, what an installation *)
(* or a restart overruns became unsaved after the last question, a window  *)
(* never announces twice and knows the latest operation once nothing is on *)
(* its way to it.                                                          *)
(*                                                                         *)
(* Three things are added to make that inductive: the package that an      *)
(* apply carries while `pending` is empty, where the latest operation is   *)
(* on its way to a window that has asked (in its copy, in an answer or in  *)
(* the last of its events), and that the answer to the last question holds *)
(* until the process ends.                                                 *)
(***************************************************************************)
EXTENDS Updater, TLAPS

Types ==
  /\ TypeOK
  /\ kind \in {"appImage", "windows", "manual"} /\ ended \in {"no", "restart", "installer"}
  /\ unsaved \in {"none", "before", "after"} /\ link \in [Windows -> {"none", "listening", "asked"}]
  /\ replies \in [Windows -> SUBSET Snapshot] /\ events \in [Windows -> Seq(Snapshot)]
  /\ announced \in [Windows -> [1 .. MaxOps -> Nat]]

\* An apply has taken the package out of pending.
Carried ==
  task.at \in {"download", "ready", "install"} =>
    pending = NoVersion /\ task.package \in Versions

\* Documents were looked at when the download was there, and from then on no document is
\* unsaved since before.
AnswerHolds == Asked \/ ended # "no" => unsaved # "before"

\* Nothing that a window saw or will see is of a later operation.
NoneAhead ==
  \A w \in Windows :
    /\ ui[w].op <= state.op
    /\ \A s \in replies[w] : s.op <= state.op
    /\ \A i \in 1 .. Len(events[w]) : events[w][i].op <= state.op

\* A window that has asked knows the latest operation or will be told of it.
Told ==
  \A w \in Windows : link[w] = "asked" =>
    \/ ui[w].op = state.op
    \/ \E s \in replies[w] : s.op = state.op
    \/ events[w] # <<>> /\ events[w][Len(events[w])].op = state.op

IInv == Types /\ PendingFits /\ Carried /\ AnswerHolds /\ NoneAhead /\ Told /\ AnnouncedOnce

USE UpdaterAssumption DEF UpdaterAssumption

-----------------------------------------------------------------------------
(* Snapshots                                                               *)

\* The fields of a snapshot, one by one.
LEMMA SnapshotFields ==
  ASSUME NEW s \in Snapshot
  PROVE  /\ s.status \in Statuses /\ s.op \in 0 .. MaxOps /\ s.trigger \in {"startup", "manual"}
         /\ s.version \in Versions \cup {NoVersion} /\ s.bytes \in 0 .. MaxBytes
         /\ s.blocked \in BOOLEAN
BY DEF Snapshot

\* Changing one field leaves a snapshot, of the same operation.
LEMMA OneField ==
  ASSUME NEW s \in Snapshot
  PROVE  /\ \A x \in Statuses :
              /\ [s EXCEPT !.status = x] \in Snapshot
              /\ [s EXCEPT !.status = x].op = s.op /\ [s EXCEPT !.status = x].status = x
              /\ [s EXCEPT !.status = x].version = s.version
         /\ \A x \in Versions :
              /\ [s EXCEPT !.version = x] \in Snapshot
              /\ [s EXCEPT !.version = x].op = s.op
              /\ [s EXCEPT !.version = x].status = s.status
              /\ [s EXCEPT !.version = x].version = x
         /\ \A x \in 0 .. MaxBytes :
              /\ [s EXCEPT !.bytes = x] \in Snapshot
              /\ [s EXCEPT !.bytes = x].op = s.op /\ [s EXCEPT !.bytes = x].status = s.status
              /\ [s EXCEPT !.bytes = x].version = s.version
         /\ \A x \in BOOLEAN :
              /\ [s EXCEPT !.blocked = x] \in Snapshot
              /\ [s EXCEPT !.blocked = x].op = s.op
              /\ [s EXCEPT !.blocked = x].status = s.status
              /\ [s EXCEPT !.blocked = x].version = s.version
BY DEF Snapshot

\* The snapshots that operations publish are snapshots of the operation that is running.
LEMMA PublishedTypes ==
  ASSUME state \in Snapshot
  PROVE  /\ Fresh \in Snapshot /\ Failed \in Snapshot /\ Blocked \in Snapshot
         /\ Failed.op = state.op /\ Failed.status = "error" /\ Failed.version = state.version
         /\ Blocked.op = state.op /\ Blocked.status = "available"
         /\ Blocked.version = state.version
<1>1. Fresh \in Snapshot
  BY DEF Snapshot, Fresh, Statuses
<1>2. /\ Failed \in Snapshot /\ Failed.op = state.op /\ Failed.status = "error"
      /\ Failed.version = state.version
  <2> DEFINE s == [state EXCEPT !.status = "error"]
  <2>1. s \in Snapshot /\ s.op = state.op /\ s.status = "error" /\ s.version = state.version
    BY OneField DEF Statuses
  <2>2. Failed = [s EXCEPT !.bytes = 0]
    BY DEF Failed
  <2> HIDE DEF s
  <2> QED BY <2>1, <2>2, OneField
<1>3. /\ Blocked \in Snapshot /\ Blocked.op = state.op /\ Blocked.status = "available"
      /\ Blocked.version = state.version
  <2> DEFINE s == [state EXCEPT !.status = "available"]
             r == [s EXCEPT !.blocked = TRUE]
  <2>1. s \in Snapshot /\ s.op = state.op /\ s.status = "available" /\ s.version = state.version
    BY OneField DEF Statuses
  <2>2. Blocked = [r EXCEPT !.bytes = 0]
    BY DEF Blocked
  <2> HIDE DEF s
  <2>3. r \in Snapshot /\ r.op = state.op /\ r.status = "available" /\ r.version = state.version
    BY <2>1, OneField
  <2> HIDE DEF r
  <2> QED BY <2>2, <2>3, OneField
<1> QED BY <1>1, <1>2, <1>3

\* What a window shows has an operation number and bytes.
LEMMA ShownFields ==
  ASSUME TypeOK, NEW w \in Windows
  PROVE  ui[w].op \in 0 .. MaxOps /\ ui[w].bytes \in 0 .. MaxBytes
BY DEF TypeOK, Snapshot, NoSnapshot, Fresh

-----------------------------------------------------------------------------
(* Publishing keeps every window told                                      *)

\* An event is appended, and possibly an answer added: everybody who listens is told of
\* the published snapshot.
LEMMA PublishTells ==
  ASSUME Types, NoneAhead, Told, NEW s \in Snapshot, s.op >= state.op, Publish(s),
         UNCHANGED uiVars,
         UNCHANGED replies \/ (\E by \in Callers : Reply(by, s))
  PROVE  /\ events' \in [Windows -> Seq(Snapshot)] /\ replies' \in [Windows -> SUBSET Snapshot]
         /\ NoneAhead' /\ Told'
<1>1. state' = s /\ state'.op \in 0 .. MaxOps /\ state.op \in 0 .. MaxOps
  BY SnapshotFields DEF Publish, Types, TypeOK
<1>2. ui' = ui /\ link' = link
  BY DEF uiVars
<1>3. \A w \in Windows : replies[w] \subseteq replies'[w] /\ replies'[w] \subseteq replies[w] \cup {s}
  <2>1. CASE UNCHANGED replies BY <2>1
  <2>2. CASE \E by \in Callers : Reply(by, s) BY <2>2 DEF Reply, Types
  <2> QED BY <2>1, <2>2
<1>4. replies' \in [Windows -> SUBSET Snapshot]
  <2>1. CASE UNCHANGED replies BY <2>1 DEF Types
  <2>2. CASE \E by \in Callers : Reply(by, s) BY <2>2 DEF Reply, Types
  <2> QED BY <2>1, <2>2
<1>5. ASSUME NEW w \in Windows
      PROVE  events'[w] = events[w] \/ (w \in Listening /\ events'[w] = Append(events[w], s))
  BY DEF Publish
<1>6. ASSUME NEW w \in Windows, w \in Listening
      PROVE  events'[w] = Append(events[w], s)
  BY <1>6 DEF Publish
<1>7. \A w \in Windows : events[w] \in Seq(Snapshot)
  BY DEF Types
<1>8. events' \in [Windows -> Seq(Snapshot)]
  <2>1. events' = [w \in Windows |-> IF w \in Listening THEN Append(events[w], s) ELSE events[w]]
    BY DEF Publish
  <2>2. \A w \in Windows : Append(events[w], s) \in Seq(Snapshot) BY <1>7
  <2> QED BY <2>1, <2>2, <1>7
<1>9. NoneAhead'
  <2> SUFFICES ASSUME NEW w \in Windows
               PROVE  /\ ui'[w].op <= state'.op
                      /\ \A r \in replies'[w] : r.op <= state'.op
                      /\ \A i \in 1 .. Len(events'[w]) : events'[w][i].op <= state'.op
    BY DEF NoneAhead
  <2>1. ui'[w].op <= state'.op
    BY <1>1, <1>2, ShownFields DEF NoneAhead, Types
  <2>2. ASSUME NEW r \in replies'[w] PROVE r.op <= state'.op
    <3>1. CASE r = s BY <3>1, <1>1
    <3>2. CASE r \in replies[w]
      <4>1. r \in Snapshot BY <3>2 DEF Types
      <4>2. r.op \in Int /\ r.op <= state.op BY <4>1, <3>2, SnapshotFields DEF NoneAhead
      <4> QED BY <4>2, <1>1
    <3> QED BY <3>1, <3>2, <1>3
  <2>3. ASSUME NEW i \in 1 .. Len(events'[w]) PROVE events'[w][i].op <= state'.op
    <3>1. \A j \in 1 .. Len(events[w]) : events[w][j] \in Snapshot BY <1>7
    <3>2. \A j \in 1 .. Len(events[w]) : events[w][j].op \in Int /\ events[w][j].op <= state.op
      BY <3>1, SnapshotFields DEF NoneAhead
    <3>3. CASE events'[w] = events[w] BY <3>3, <3>2, <1>1
    <3>4. CASE events'[w] = Append(events[w], s)
      <4>1. i \in 1 .. Len(events[w]) + 1 BY <3>4, <1>7
      <4>2. CASE i = Len(events[w]) + 1 BY <4>2, <3>4, <1>7, <1>1
      <4>3. CASE i \in 1 .. Len(events[w])
        <5>1. events'[w][i] = events[w][i] BY <4>3, <3>4, <1>7
        <5> QED BY <5>1, <4>3, <3>2, <1>1
      <4> QED BY <4>1, <4>2, <4>3, <1>7
    <3> QED BY <3>3, <3>4, <1>5
  <2> QED BY <2>1, <2>2, <2>3
<1>10. Told'
  <2> SUFFICES ASSUME NEW w \in Windows, link[w] = "asked"
               PROVE  events'[w] # <<>> /\ events'[w][Len(events'[w])].op = state'.op
    BY <1>2 DEF Told
  <2>1. w \in Listening BY DEF Listening
  <2>2. events'[w] = Append(events[w], s) BY <2>1, <1>6
  <2>3. events'[w] # <<>> /\ events'[w][Len(events'[w])] = s BY <2>2, <1>7
  <2> QED BY <2>3, <1>1
<1> QED BY <1>4, <1>8, <1>9, <1>10

-----------------------------------------------------------------------------
(* Steps of the service                                                    *)

\* What the step of an operation must leave behind besides what Publish does.
ServiceTyped ==
  /\ pending \in Versions \cup {NoVersion} /\ task \in Task
  /\ task.at = "none" => state.status \notin Running
  /\ task.at = "asked" => state.status = "available"
  /\ task.at \notin {"none", "asked"} => state.status \in Running

\* A step that publishes keeps the invariant when it keeps the service well typed and the
\* package where the snapshot says it is.
LEMMA PublishingStep ==
  ASSUME IInv, NEW s \in Snapshot, s.op >= state.op, Publish(s),
         UNCHANGED <<kind, unsaved, ended, uiVars>>,
         UNCHANGED replies \/ (\E by \in Callers : Reply(by, s)),
         ServiceTyped', PendingFits', Carried', AnswerHolds'
  PROVE  IInv'
<1>1. /\ events' \in [Windows -> Seq(Snapshot)] /\ replies' \in [Windows -> SUBSET Snapshot]
      /\ NoneAhead' /\ Told'
  BY PublishTells DEF IInv
<1>2. ui' = ui /\ link' = link /\ announced' = announced
  BY DEF uiVars
<1>3. state' = s
  BY DEF Publish
<1>4. TypeOK'
  BY <1>1, <1>2, <1>3 DEF IInv, Types, TypeOK, ServiceTyped
<1>5. Types'
  BY <1>1, <1>2, <1>4 DEF IInv, Types
<1>6. AnnouncedOnce'
  BY <1>2 DEF IInv, AnnouncedOnce
<1> QED BY <1>1, <1>5, <1>6 DEF IInv

\* The fields of the operation.
LEMMA TaskFields ==
  ASSUME NEW t \in Task
  PROVE  /\ t.at \in Steps /\ t.by \in Callers
         /\ t.package \in Versions \cup {NoVersion} /\ t.got \in 0 .. MaxBytes
BY DEF Task

\* A step that is not the end of the process keeps the answer when it keeps documents and
\* asks no less than before.
LEMMA AnswerKept ==
  ASSUME AnswerHolds, UNCHANGED <<unsaved, ended>>, Asked' => Asked \/ unsaved = "none"
  PROVE  AnswerHolds'
BY DEF AnswerHolds

\* An operation ends with a snapshot that is not of a running operation, and with the
\* offer it leaves.
LEMMA FinishingStep ==
  ASSUME IInv, NEW s \in Snapshot, s.op = state.op, Finishes(s), s.status \notin Running,
         pending' \in Versions \cup {NoVersion},
         pending' # NoVersion <=> s.status = "available",
         pending' # NoVersion => pending' = s.version,
         s.status = "restartRequired" => Asked
  PROVE  IInv'
<1>1. NoTask \in Task /\ NoTask.at = "none"
  BY DEF Task, Steps, NoTask, Operation, Callers
<1>2. task' = NoTask /\ state' = s
  BY DEF Finishes, Publish
<1>3. Publish(s) /\ UNCHANGED <<kind, unsaved, ended, uiVars>>
  BY DEF Finishes
<1>4. \E by \in Callers : Reply(by, s)
  BY TaskFields DEF Finishes, IInv, Types, TypeOK
<1>5. ServiceTyped'
  BY <1>1, <1>2 DEF ServiceTyped
<1>6. PendingFits' /\ Carried'
  BY <1>1, <1>2 DEF PendingFits, Carried
<1>7. s.op >= state.op
  BY SnapshotFields
<1>8. AnswerHolds'
  BY <1>1, <1>2, <1>3, AnswerKept DEF Asked, IInv
<1> QED BY <1>3, <1>4, <1>5, <1>6, <1>7, <1>8, PublishingStep

\* An operation goes on with a snapshot of a running operation.
LEMMA ContinuingStep ==
  ASSUME IInv, NEW s \in Snapshot, s.op >= state.op, NEW t \in Task, Continues(s, t),
         s.status \in Running, t.at \in {"check", "download", "install"},
         pending' = NoVersion, t.at = "install" => task.at = "ready",
         t.at # "check" => t.package \in Versions /\ t.package = s.version
  PROVE  IInv'
<1>1. task' = t /\ state' = s
  BY DEF Continues, Publish
<1>2. Publish(s) /\ UNCHANGED <<kind, unsaved, ended, uiVars>> /\ UNCHANGED replies
  BY DEF Continues
<1>3. ServiceTyped'
  BY <1>1 DEF ServiceTyped
<1>4. PendingFits' /\ Carried'
  BY <1>1 DEF PendingFits, Carried, Running
<1>5. AnswerHolds'
  BY <1>1, <1>2, AnswerKept DEF Asked, IInv, Running
<1> QED BY <1>2, <1>3, <1>4, <1>5, PublishingStep

\* The bookkeeping of checks: nothing is pending while one runs.
LEMMA CheckRunning ==
  ASSUME IInv, task.at = "check"
  PROVE  pending = NoVersion
BY DEF IInv, Types, TypeOK, PendingFits, Running

\* A step of an operation that changes nothing but how far it is
LEMMA SilentStep ==
  ASSUME IInv, NEW t \in Task, task' = t, t.at # "none",
         UNCHANGED <<kind, state, pending, unsaved, ended, uiVars, events, replies>>,
         ServiceTyped', PendingFits', Carried', AnswerHolds'
  PROVE  IInv'
<1>1. ui' = ui /\ link' = link /\ announced' = announced
  BY DEF uiVars
<1>2. TypeOK'
  BY <1>1 DEF IInv, Types, TypeOK, ServiceTyped
<1>3. Types'
  BY <1>1, <1>2 DEF IInv, Types
<1>4. NoneAhead' /\ Told' /\ AnnouncedOnce'
  BY <1>1 DEF IInv, NoneAhead, Told, AnnouncedOnce
<1> QED BY <1>3, <1>4 DEF IInv

-----------------------------------------------------------------------------
(* Actions of the service                                                  *)

LEMMA CheckStep ==
  ASSUME IInv, NEW by \in Callers, Check(by)
  PROVE  IInv'
<1>1. state.op + 1 \in 0 .. MaxOps /\ state.op \in 0 .. MaxOps
  BY SnapshotFields DEF Check, IInv, Types, TypeOK
<1>2. Checking(by) \in Snapshot /\ Checking(by).op >= state.op /\ Checking(by).status \in Running
  BY <1>1 DEF Checking, Snapshot, Statuses, Running
<1>3. Operation("check", by, NoVersion) \in Task /\ Operation("check", by, NoVersion).at = "check"
  BY DEF Operation, Task, Steps
<1>4. Continues(Checking(by), Operation("check", by, NoVersion)) /\ pending' = NoVersion
  BY DEF Check
<1> QED BY <1>2, <1>3, <1>4, ContinuingStep

LEMMA CheckEndsStep ==
  ASSUME IInv, CheckEnds
  PROVE  IInv'
<1>0. state \in Snapshot
  BY DEF IInv, Types, TypeOK
<1>1. CASE NoUpdate
  <2> DEFINE s == [state EXCEPT !.status = "idle"]
  <2>1. s \in Snapshot /\ s.op = state.op /\ s.status = "idle"
    BY <1>0, OneField DEF Statuses
  <2>2. Finishes(s) /\ pending' = pending /\ task.at = "check"
    BY <1>1 DEF NoUpdate
  <2> HIDE DEF s
  <2> QED BY <2>1, <2>2, CheckRunning, FinishingStep DEF Running
<1>2. ASSUME NEW v \in Versions, Found(v)
      PROVE  IInv'
  <2> DEFINE r == [state EXCEPT !.status = "available"]
             s == [r EXCEPT !.version = v]
  <2>1. Finishes(s) /\ pending' = v
    BY <1>2 DEF Found
  <2>2. r \in Snapshot /\ r.op = state.op /\ r.status = "available"
    BY <1>0, OneField DEF Statuses
  <2> HIDE DEF r
  <2>3. s \in Snapshot /\ s.op = state.op /\ s.status = "available" /\ s.version = v
    BY <2>2, OneField
  <2> HIDE DEF s
  <2> QED BY <2>1, <2>3, FinishingStep DEF Running
<1>3. CASE CheckFails
  <2>1. Finishes(Failed) /\ pending' = NoVersion
    BY <1>3 DEF CheckFails
  <2> QED BY <2>1, <1>0, PublishedTypes, FinishingStep DEF Running
<1> QED BY <1>1, <1>2, <1>3 DEF CheckEnds

LEMMA ApplyStep ==
  ASSUME IInv, NEW by \in Callers, Apply(by)
  PROVE  IInv'
<1> DEFINE t == Operation("asked", by, NoVersion)
<1>0. /\ pending \in Versions /\ pending = state.version /\ state.status = "available"
      /\ task.at = "none"
  BY DEF Apply, Acquired, IInv, Types, TypeOK, PendingFits
<1>1. t \in Task /\ t.at = "asked"
  BY DEF Operation, Task, Steps
<1>2. task' = t /\ UNCHANGED <<kind, state, pending, unsaved, ended, uiVars, events, replies>>
  BY DEF Apply
<1> HIDE DEF t
<1>3. ServiceTyped'
  BY <1>0, <1>1, <1>2 DEF ServiceTyped
<1>4. PendingFits' /\ Carried'
  BY <1>0, <1>1, <1>2 DEF PendingFits, Carried
<1>5. AnswerHolds'
  BY <1>1, <1>2, AnswerKept DEF Asked, IInv
<1> QED BY <1>1, <1>2, <1>3, <1>4, <1>5, SilentStep

LEMMA BeginDownloadStep ==
  ASSUME IInv, BeginDownload
  PROVE  IInv'
<1> DEFINE r == [state EXCEPT !.status = "downloading"]
           q == [r EXCEPT !.blocked = FALSE]
           s == [q EXCEPT !.bytes = 0]
           t == Operation("download", task.by, pending)
<1>0. state \in Snapshot /\ pending \in Versions /\ pending = state.version /\ task \in Task
  BY DEF BeginDownload, IInv, Types, TypeOK, PendingFits
<1>1. t \in Task /\ t.at = "download" /\ t.package = pending
  BY <1>0, TaskFields DEF Operation, Task, Steps
<1>2. Continues(s, t) /\ pending' = NoVersion
  BY DEF BeginDownload
<1>3. r \in Snapshot /\ r.op = state.op /\ r.status = "downloading" /\ r.version = state.version
  BY <1>0, OneField DEF Statuses
<1> HIDE DEF r
<1>4. q \in Snapshot /\ q.op = state.op /\ q.status = "downloading" /\ q.version = state.version
  BY <1>3, OneField
<1> HIDE DEF q, t
<1>5. s \in Snapshot /\ s.op = state.op /\ s.status = "downloading" /\ s.version = state.version
  BY <1>4, OneField
<1> HIDE DEF s
<1>6. s.op >= state.op
  BY <1>0, <1>5, SnapshotFields
<1> QED BY <1>0, <1>1, <1>2, <1>5, <1>6, ContinuingStep DEF Running

LEMMA ChunkStep ==
  ASSUME IInv, NEW total \in 0 .. MaxBytes, Chunk(total)
  PROVE  IInv'
<1>0. state \in Snapshot /\ task \in Task /\ state.status \in Running
  BY DEF Chunk, IInv, Types, TypeOK
<1>1. task.got + 1 \in 0 .. MaxBytes
  BY <1>0, TaskFields DEF Chunk
<1>2. /\ task' \in Task /\ task'.at = "download" /\ task'.package = task.package
      /\ task.at = "download"
  BY <1>0, <1>1, TaskFields DEF Chunk, Task
<1>3. pending' = pending /\ pending \in Versions \cup {NoVersion}
  BY DEF Chunk, IInv, Types, TypeOK
<1>4. pending = NoVersion /\ task.package \in Versions /\ task.package = state.version
  BY <1>2 DEF IInv, Carried, PendingFits
<1>5. CASE UNCHANGED <<state, events>>
  <2>1. Types'
    BY <1>0, <1>2, <1>3, <1>5 DEF Chunk, IInv, Types, TypeOK, uiVars
  <2>2. PendingFits' /\ Carried' /\ AnswerHolds'
    BY <1>2, <1>3, <1>4, <1>5, AnswerKept DEF Chunk, PendingFits, Carried, Asked, IInv
  <2>3. NoneAhead' /\ Told' /\ AnnouncedOnce'
    BY <1>5 DEF Chunk, IInv, NoneAhead, Told, AnnouncedOnce, uiVars
  <2> QED BY <2>1, <2>2, <2>3 DEF IInv
<1>6. CASE Publish([state EXCEPT !.bytes = task.got + 1])
  <2> DEFINE s == [state EXCEPT !.bytes = task.got + 1]
  <2>1. /\ s \in Snapshot /\ s.op = state.op /\ s.status = state.status
        /\ s.version = state.version
    BY <1>0, <1>1, OneField
  <2>2. Publish(s)
    BY <1>6
  <2> HIDE DEF s
  <2>3. state' = s
    BY <2>2 DEF Publish
  <2>4. ServiceTyped' /\ PendingFits' /\ Carried'
    BY <1>0, <1>2, <1>3, <1>4, <2>1, <2>3 DEF ServiceTyped, PendingFits, Carried
  <2>5. UNCHANGED <<kind, unsaved, ended, uiVars>> /\ UNCHANGED replies
    BY DEF Chunk
  <2>6. s.op >= state.op
    BY <1>0, <2>1, SnapshotFields
  <2>7. AnswerHolds'
    BY <1>2, <2>1, <2>3, <2>5, AnswerKept DEF Asked, IInv
  <2> QED BY <2>1, <2>2, <2>4, <2>5, <2>6, <2>7, PublishingStep
<1> QED BY <1>5, <1>6 DEF Chunk

LEMMA DownloadEndsStep ==
  ASSUME IInv, DownloadEnds
  PROVE  IInv'
<1>0. state \in Snapshot /\ task \in Task
  BY DEF IInv, Types, TypeOK
<1>1. CASE Refused
  <2>1. Finishes(Blocked) /\ pending' = task.package
    BY <1>1 DEF Refused
  <2>2. task.package \in Versions /\ task.package = state.version
    BY <1>1 DEF Refused, IInv, Carried, PendingFits
  <2> QED BY <2>1, <2>2, <1>0, PublishedTypes, FinishingStep DEF Running
<1>2. CASE AskAgain
  <2> DEFINE t == [task EXCEPT !.at = "ready"]
  <2>1. t \in Task /\ t.at = "ready" /\ t.package = task.package
    BY <1>0, TaskFields DEF Task, Steps
  <2>2. /\ task' = t /\ unsaved = "none"
        /\ UNCHANGED <<kind, state, pending, unsaved, ended, uiVars, events, replies>>
    BY <1>2 DEF AskAgain
  <2> HIDE DEF t
  <2>3. /\ pending = NoVersion /\ task.package \in Versions /\ task.package = state.version
        /\ state.status \in Running
    BY <1>2 DEF AskAgain, IInv, Carried, PendingFits, Types, TypeOK
  <2>4. ServiceTyped'
    BY <2>1, <2>2, <2>3 DEF ServiceTyped
  <2>5. PendingFits' /\ Carried'
    BY <2>1, <2>2, <2>3 DEF PendingFits, Carried
  <2>6. AnswerHolds'
    BY <2>2, AnswerKept DEF IInv
  <2> QED BY <2>1, <2>2, <2>4, <2>5, <2>6, SilentStep
<1>3. CASE ApplyFails
  <2>1. Finishes(Failed) /\ pending' = NoVersion
    BY <1>3 DEF ApplyFails
  <2> QED BY <2>1, <1>0, PublishedTypes, FinishingStep DEF Running
<1> QED BY <1>1, <1>2, <1>3 DEF DownloadEnds

LEMMA InstallStep ==
  ASSUME IInv, Install
  PROVE  IInv'
<1>0. state \in Snapshot /\ task \in Task
  BY DEF IInv, Types, TypeOK
<1> DEFINE s == [state EXCEPT !.status = "installing"]
           t == [task EXCEPT !.at = "install"]
<1>1. /\ s \in Snapshot /\ s.op = state.op /\ s.status = "installing"
      /\ s.version = state.version
  BY <1>0, OneField DEF Statuses
<1>2. t \in Task /\ t.at = "install" /\ t.package = task.package
  BY <1>0, TaskFields DEF Task, Steps
<1>3. Continues(s, t) /\ pending' = pending /\ task.at = "ready"
  BY DEF Install
<1> HIDE DEF s, t
<1>4. pending = NoVersion /\ task.package \in Versions /\ task.package = state.version
  BY DEF Install, IInv, Carried, PendingFits
<1>5. s.op >= state.op
  BY <1>0, <1>1, SnapshotFields
<1> QED BY <1>1, <1>2, <1>3, <1>4, <1>5, ContinuingStep DEF Running

LEMMA InstallEndsStep ==
  ASSUME IInv, InstallEnds
  PROVE  IInv'
<1>0. state \in Snapshot
  BY DEF IInv, Types, TypeOK
<1>1. CASE Installed
  <2> DEFINE s == [state EXCEPT !.status = "restartRequired"]
  <2>1. s \in Snapshot /\ s.op = state.op /\ s.status = "restartRequired"
    BY <1>0, OneField DEF Statuses
  <2>2. Finishes(s) /\ pending' = pending
    BY <1>1 DEF Installed
  <2> HIDE DEF s
  <2>3. pending = NoVersion /\ Asked
    BY <1>1 DEF Installed, IInv, Carried, Asked
  <2> QED BY <2>1, <2>2, <2>3, FinishingStep DEF Running
<1>2. CASE InstallerTakesOver
  BY <1>2 DEF InstallerTakesOver, serviceVars, uiVars, IInv, Types, TypeOK, PendingFits, Carried,
              AnswerHolds, Asked, NoneAhead, Told, AnnouncedOnce
<1> QED BY <1>1, <1>2 DEF InstallEnds

\* Calls that begin no operation publish what is there, or that documents are unsaved.
LEMMA OtherCallsStep ==
  ASSUME IInv, NEW by \in Callers, CheckManual(by) \/ ApplyBlocked(by)
  PROVE  IInv'
<1>0. state \in Snapshot /\ state.op \in Int
  BY SnapshotFields DEF IInv, Types, TypeOK
<1>1. CASE CheckManual(by)
  <2>1. /\ Publish(state) /\ Reply(by, state) /\ UNCHANGED <<kind, unsaved, ended, uiVars>>
        /\ UNCHANGED <<pending, task>>
    BY <1>1 DEF CheckManual
  <2>2. state' = state
    BY <2>1 DEF Publish
  <2>3. ServiceTyped' /\ PendingFits' /\ Carried'
    BY <2>1, <2>2 DEF IInv, Types, TypeOK, ServiceTyped, PendingFits, Carried
  <2>4. AnswerHolds'
    BY <2>1, <2>2, AnswerKept DEF IInv, Asked
  <2> QED BY <1>0, <2>1, <2>3, <2>4, PublishingStep
<1>2. CASE ApplyBlocked(by)
  <2>1. /\ Publish(Blocked) /\ Reply(by, Blocked) /\ UNCHANGED <<kind, unsaved, ended, uiVars>>
        /\ UNCHANGED <<pending, task>> /\ state.status = "available" /\ task.at = "none"
    BY <1>2 DEF ApplyBlocked, Acquired
  <2>2. state' = Blocked
    BY <2>1 DEF Publish
  <2>3. /\ Blocked \in Snapshot /\ Blocked.op = state.op /\ Blocked.status = "available"
        /\ Blocked.version = state.version
    BY <1>0, PublishedTypes
  <2>4. ServiceTyped' /\ PendingFits' /\ Carried'
    BY <2>1, <2>2, <2>3 DEF IInv, Types, TypeOK, ServiceTyped, PendingFits, Carried, Running
  <2>5. Blocked.op >= state.op
    BY <1>0, <2>3
  <2>6. AnswerHolds'
    BY <2>1, <2>2, <2>3, AnswerKept DEF IInv, Asked
  <2> QED BY <2>1, <2>3, <2>4, <2>5, <2>6, PublishingStep
<1> QED BY <1>1, <1>2

-----------------------------------------------------------------------------
(* Steps of the windows                                                    *)

\* A window that takes a snapshot never goes back to an earlier operation, keeps its
\* copy well typed and announces at most once.
LEMMA Accepted ==
  ASSUME IInv, NEW w \in Windows, NEW s \in Snapshot, s.op <= state.op, Accept(w, s)
  PROVE  /\ ui' \in [Windows -> Snapshot \cup {NoSnapshot}]
         /\ announced' \in [Windows -> [1 .. MaxOps -> Nat]] /\ AnnouncedOnce'
         /\ \A x \in Windows \ {w} : ui'[x] = ui[x]
         /\ ui'[w] = s \/ ui'[w] = ui[w]
         /\ ui'[w].op <= state.op /\ ui'[w].op >= ui[w].op /\ ui'[w].op >= s.op
<1>0. /\ ui \in [Windows -> Snapshot \cup {NoSnapshot}]
      /\ announced \in [Windows -> [1 .. MaxOps -> Nat]]
  BY DEF IInv, Types, TypeOK
<1>1. ui[w].op \in Nat /\ s.op \in Nat /\ state.op \in Nat /\ ui[w].op <= state.op
  BY ShownFields, SnapshotFields DEF IInv, Types, TypeOK, NoneAhead
<1>2. ui[w] = NoSnapshot => ui[w].op = 0
  BY DEF NoSnapshot, Fresh
<1>3. CASE Stale(ui[w], s)
  <2>1. ui' = ui /\ announced' = announced
    BY <1>3 DEF Accept
  <2>2. ui[w].op >= s.op
    BY <1>1, <1>3 DEF Stale
  <2> QED BY <1>0, <1>1, <2>1, <2>2 DEF IInv, AnnouncedOnce
<1>4. CASE ~Stale(ui[w], s)
  <2>1. ui' = [ui EXCEPT ![w] = s]
    BY <1>4 DEF Accept
  <2>2. s.op >= ui[w].op
    BY <1>1, <1>2, <1>4 DEF Stale
  <2>3. /\ ui' \in [Windows -> Snapshot \cup {NoSnapshot}] /\ ui'[w] = s
        /\ \A x \in Windows \ {w} : ui'[x] = ui[x]
    BY <1>0, <2>1
  <2>4. CASE IsNews(w, s)
    <3>1. announced' = [announced EXCEPT ![w][s.op] = @ + 1] /\ announced[w][s.op] = 0
      BY <1>4, <2>4 DEF Accept, IsNews
    <3>2. announced' \in [Windows -> [1 .. MaxOps -> Nat]]
      <4> DEFINE f == [announced[w] EXCEPT ![s.op] = @ + 1]
      <4>1. f \in [1 .. MaxOps -> Nat]
        <5>1. f = [o \in 1 .. MaxOps |-> IF o = s.op THEN announced[w][o] + 1 ELSE announced[w][o]]
          BY <1>0
        <5>2. \A o \in 1 .. MaxOps : announced[w][o] \in Nat /\ announced[w][o] + 1 \in Nat
          BY <1>0
        <5> HIDE DEF f
        <5> QED BY <5>1, <5>2
      <4>2. announced' = [announced EXCEPT ![w] = f]
        BY <3>1
      <4> HIDE DEF f
      <4> QED BY <1>0, <4>1, <4>2
    <3>3. AnnouncedOnce'
      BY <1>0, <3>1 DEF IInv, AnnouncedOnce
    <3> QED BY <1>1, <2>2, <2>3, <3>2, <3>3
  <2>5. CASE ~IsNews(w, s)
    <3>1. announced' = announced
      BY <1>4, <2>5 DEF Accept
    <3> QED BY <1>0, <1>1, <2>2, <2>3, <3>1 DEF IInv, AnnouncedOnce
  <2> QED BY <2>4, <2>5
<1> QED BY <1>3, <1>4

LEMMA EventStep ==
  ASSUME IInv, NEW w \in Windows, Event(w)
  PROVE  IInv'
<1> DEFINE s == Head(events[w])
<1>1. /\ events \in [Windows -> Seq(Snapshot)] /\ events[w] \in Seq(Snapshot) /\ events[w] # <<>>
      /\ Len(events[w]) \in Nat \ {0}
  BY DEF Event, IInv, Types
<1>2. s \in Snapshot /\ s = events[w][1] /\ s.op <= state.op
  BY <1>1 DEF IInv, NoneAhead
<1>3. Accept(w, s) /\ events' = [events EXCEPT ![w] = Tail(@)]
  BY DEF Event
<1>4. UNCHANGED <<serviceVars, unsaved, ended, link, replies>>
  BY DEF Event
<1>5. /\ ui' \in [Windows -> Snapshot \cup {NoSnapshot}]
      /\ announced' \in [Windows -> [1 .. MaxOps -> Nat]] /\ AnnouncedOnce'
      /\ \A x \in Windows \ {w} : ui'[x] = ui[x]
      /\ ui'[w].op <= state.op /\ ui'[w].op >= ui[w].op /\ ui'[w].op >= s.op
      /\ ui'[w].op \in Int /\ ui[w].op \in Int /\ s.op \in Int /\ state.op \in Int
  <2>1. ui'[w] = s \/ ui'[w] = ui[w]
    BY <1>2, <1>3, Accepted
  <2>2. ui[w].op \in Int /\ s.op \in Int /\ state.op \in Int
    BY <1>2, ShownFields, SnapshotFields DEF IInv, Types, TypeOK
  <2> QED BY <1>2, <1>3, <2>1, <2>2, Accepted
<1> HIDE DEF s
<1>6. /\ events' \in [Windows -> Seq(Snapshot)]
      /\ \A x \in Windows \ {w} : events'[x] = events[x]
      /\ events'[w] = Tail(events[w])
  <2>1. Tail(events[w]) \in Seq(Snapshot)
    BY <1>1
  <2> QED BY <1>1, <1>3, <2>1
<1>7. /\ Len(events'[w]) = Len(events[w]) - 1
      /\ \A i \in 1 .. Len(events'[w]) : events'[w][i] = events[w][i + 1]
  BY <1>1, <1>6
<1>8. Types'
  BY <1>4, <1>5, <1>6 DEF IInv, Types, TypeOK, serviceVars
<1>9. PendingFits' /\ Carried' /\ AnswerHolds'
  BY <1>4, AnswerKept DEF IInv, PendingFits, Carried, Asked, serviceVars
<1>10. NoneAhead'
  <2>1. ASSUME NEW x \in Windows \ {w}
        PROVE  /\ ui'[x].op <= state'.op
               /\ \A r \in replies'[x] : r.op <= state'.op
               /\ \A i \in 1 .. Len(events'[x]) : events'[x][i].op <= state'.op
    BY <1>4, <1>5, <1>6 DEF IInv, NoneAhead, serviceVars
  <2>2. ui'[w].op <= state'.op /\ \A r \in replies'[w] : r.op <= state'.op
    BY <1>4, <1>5 DEF IInv, NoneAhead, serviceVars
  <2>3. ASSUME NEW i \in 1 .. Len(events'[w])
        PROVE  events'[w][i].op <= state'.op
    <3>1. i + 1 \in 1 .. Len(events[w]) /\ events'[w][i] = events[w][i + 1]
      BY <1>1, <1>7
    <3> QED BY <3>1, <1>4 DEF IInv, NoneAhead, serviceVars
  <2> QED BY <2>1, <2>2, <2>3 DEF NoneAhead
<1>11. Told'
  <2> SUFFICES ASSUME NEW x \in Windows, link[x] = "asked"
               PROVE  \/ ui'[x].op = state.op
                      \/ \E r \in replies[x] : r.op = state.op
                      \/ events'[x] # <<>> /\ events'[x][Len(events'[x])].op = state.op
    BY <1>4 DEF Told, serviceVars
  <2>1. \/ ui[x].op = state.op
        \/ \E r \in replies[x] : r.op = state.op
        \/ events[x] # <<>> /\ events[x][Len(events[x])].op = state.op
    BY DEF IInv, Told
  <2>2. CASE x # w
    BY <2>1, <2>2, <1>5, <1>6
  <2>3. CASE x = w /\ ui[w].op = state.op
    BY <2>3, <1>5
  <2>4. CASE \E r \in replies[x] : r.op = state.op
    BY <2>4
  <2>5. CASE x = w /\ events[w][Len(events[w])].op = state.op
    <3>1. CASE Len(events[w]) = 1
      BY <2>5, <3>1, <1>2, <1>5
    <3>2. CASE Len(events[w]) # 1
      <4>1. Len(events'[w]) \in 1 .. Len(events'[w])
        <5> DEFINE n == Len(events[w])
                   m == Len(events'[w])
        <5>1. n \in Nat \ {0} /\ n # 1 /\ m = n - 1
          BY <1>1, <1>7, <3>2
        <5> HIDE DEF n, m
        <5>2. m \in Nat /\ m >= 1
          BY <5>1
        <5>3. m \in 1 .. m
          BY <5>2
        <5> QED BY <5>3 DEF m
      <4>2. events'[w][Len(events'[w])] = events[w][Len(events'[w]) + 1]
        BY <4>1, <1>7
      <4>3. Len(events'[w]) + 1 = Len(events[w])
        BY <1>1, <1>7
      <4>4. events'[w] # <<>>
        BY <4>1
      <4> QED BY <2>5, <4>2, <4>3, <4>4
    <3> QED BY <3>1, <3>2
  <2> QED BY <2>1, <2>2, <2>3, <2>4, <2>5
<1> QED BY <1>5, <1>8, <1>9, <1>10, <1>11 DEF IInv

LEMMA AnswerStep ==
  ASSUME IInv, NEW w \in Windows, Answer(w)
  PROVE  IInv'
<1>1. PICK s \in replies[w] : Accept(w, s) /\ replies' = [replies EXCEPT ![w] = @ \ {s}]
  BY DEF Answer
<1>2. s \in Snapshot /\ s.op <= state.op
  BY DEF IInv, Types, NoneAhead
<1>3. UNCHANGED <<serviceVars, unsaved, ended, link, events>>
  BY DEF Answer
<1>4. /\ ui' \in [Windows -> Snapshot \cup {NoSnapshot}]
      /\ announced' \in [Windows -> [1 .. MaxOps -> Nat]] /\ AnnouncedOnce'
      /\ \A x \in Windows \ {w} : ui'[x] = ui[x]
      /\ ui'[w].op <= state.op /\ ui'[w].op >= ui[w].op /\ ui'[w].op >= s.op
      /\ ui'[w].op \in Int /\ ui[w].op \in Int /\ s.op \in Int /\ state.op \in Int
  <2>1. ui'[w] = s \/ ui'[w] = ui[w]
    BY <1>1, <1>2, Accepted
  <2>2. ui[w].op \in Int /\ s.op \in Int /\ state.op \in Int
    BY <1>2, ShownFields, SnapshotFields DEF IInv, Types, TypeOK
  <2> QED BY <1>1, <1>2, <2>1, <2>2, Accepted
<1>5. /\ replies' \in [Windows -> SUBSET Snapshot]
      /\ \A x \in Windows \ {w} : replies'[x] = replies[x]
      /\ replies'[w] = replies[w] \ {s}
  BY <1>1 DEF IInv, Types
<1>6. Types'
  BY <1>3, <1>4, <1>5 DEF IInv, Types, TypeOK, serviceVars
<1>7. PendingFits' /\ Carried' /\ AnswerHolds'
  BY <1>3, AnswerKept DEF IInv, PendingFits, Carried, Asked, serviceVars
<1>8. NoneAhead'
  BY <1>3, <1>4, <1>5 DEF IInv, NoneAhead, serviceVars
<1>9. Told'
  <2> SUFFICES ASSUME NEW x \in Windows, link[x] = "asked"
               PROVE  \/ ui'[x].op = state.op
                      \/ \E r \in replies'[x] : r.op = state.op
                      \/ events[x] # <<>> /\ events[x][Len(events[x])].op = state.op
    BY <1>3 DEF Told, serviceVars
  <2>1. \/ ui[x].op = state.op
        \/ \E r \in replies[x] : r.op = state.op
        \/ events[x] # <<>> /\ events[x][Len(events[x])].op = state.op
    BY DEF IInv, Told
  <2>2. CASE x # w
    BY <2>1, <2>2, <1>4, <1>5
  <2>3. CASE x = w /\ (ui[w].op = state.op \/ s.op = state.op)
    BY <2>3, <1>4
  <2>4. CASE x = w /\ s.op # state.op
    BY <2>1, <2>3, <2>4, <1>5
  <2> QED BY <2>2, <2>3, <2>4
<1> QED BY <1>4, <1>6, <1>7, <1>8, <1>9 DEF IInv

LEMMA ConnectStep ==
  ASSUME IInv, NEW w \in Windows, Listen(w) \/ GetState(w)
  PROVE  IInv'
<1>0. state \in Snapshot /\ state.op \in Int
  BY SnapshotFields DEF IInv, Types, TypeOK
<1>1. CASE Listen(w)
  BY <1>1 DEF Listen, serviceVars, IInv, Types, TypeOK, PendingFits, Carried, AnswerHolds,
              Asked, NoneAhead, Told, AnnouncedOnce
<1>2. CASE GetState(w)
  <2>1. /\ link' = [link EXCEPT ![w] = "asked"]
        /\ replies' = [replies EXCEPT ![w] = @ \cup {state}]
        /\ UNCHANGED <<serviceVars, unsaved, ended, ui, announced, events>>
    BY <1>2 DEF GetState, Reply
  <2>2. /\ link' \in [Windows -> {"none", "listening", "asked"}]
        /\ \A x \in Windows \ {w} : link'[x] = link[x]
        /\ replies' \in [Windows -> SUBSET Snapshot]
        /\ \A x \in Windows \ {w} : replies'[x] = replies[x]
        /\ replies'[w] = replies[w] \cup {state}
    BY <1>0, <2>1 DEF IInv, Types
  <2>3. Types'
    BY <2>1, <2>2 DEF IInv, Types, TypeOK, serviceVars
  <2>4. PendingFits' /\ Carried' /\ AnswerHolds' /\ AnnouncedOnce'
    BY <2>1, AnswerKept DEF IInv, PendingFits, Carried, AnnouncedOnce, Asked, serviceVars
  <2>5. NoneAhead' /\ Told'
    BY <1>0, <2>1, <2>2 DEF IInv, NoneAhead, Told, serviceVars
  <2> QED BY <2>3, <2>4, <2>5 DEF IInv
<1> QED BY <1>1, <1>2

-----------------------------------------------------------------------------
(* The invariant                                                           *)

LEMMA InitIInv == Init => IInv
<1> SUFFICES ASSUME Init PROVE IInv
  OBVIOUS
<1>1. Fresh \in Snapshot /\ Fresh.op = 0 /\ Fresh.status = "idle"
  BY DEF Fresh, Snapshot, Statuses
<1>2. NoSnapshot.op = 0
  BY DEF NoSnapshot, Fresh
<1>3. NoTask \in Task /\ NoTask.at = "none"
  BY DEF Task, Steps, NoTask, Operation, Callers
<1>4. Types
  BY <1>1, <1>3 DEF Init, Types, TypeOK, Running
<1>5. PendingFits /\ Carried /\ AnswerHolds /\ AnnouncedOnce
  BY <1>1, <1>3 DEF Init, PendingFits, Carried, AnswerHolds, Asked, AnnouncedOnce
<1>6. NoneAhead /\ Told
  BY <1>1, <1>2 DEF Init, NoneAhead, Told
<1> QED BY <1>4, <1>5, <1>6 DEF IInv

LEMMA NextIInv == IInv /\ [Next]_vars => IInv'
<1> SUFFICES ASSUME IInv, [Next]_vars PROVE IInv'
  OBVIOUS
<1>1. CASE Check(Startup)
  BY <1>1, CheckStep DEF Callers
<1>2. ASSUME NEW w \in Windows \cup {Elsewhere}, Calls(w)
      PROVE  IInv'
  <2>1. w \in Callers
    BY DEF Callers
  <2> QED BY <1>2, <2>1, CheckStep, OtherCallsStep, ApplyStep DEF Calls
<1>3. ASSUME NEW w \in Windows, Listen(w) \/ GetState(w) \/ Event(w) \/ Answer(w)
      PROVE  IInv'
  BY <1>3, ConnectStep, EventStep, AnswerStep
<1>4. ASSUME NEW total \in 0 .. MaxBytes, Chunk(total)
      PROVE  IInv'
  BY <1>4, ChunkStep
<1>5. CASE Ends
  BY <1>5, CheckEndsStep, BeginDownloadStep, DownloadEndsStep, InstallStep, InstallEndsStep DEF Ends
<1>6. CASE Restart
  BY <1>6 DEF Restart, serviceVars, uiVars, IInv, Types, TypeOK, PendingFits, Carried, AnswerHolds,
              Asked, NoneAhead, Told, AnnouncedOnce
<1>7. CASE Documents
  BY <1>7 DEF Documents, serviceVars, uiVars, IInv, Types, TypeOK, PendingFits, Carried, AnswerHolds,
              Asked, NoneAhead, Told, AnnouncedOnce
<1>8. CASE UNCHANGED vars
  BY <1>8 DEF vars, serviceVars, uiVars, IInv, Types, TypeOK, PendingFits, Carried, AnswerHolds,
              Asked, NoneAhead, Told, AnnouncedOnce
<1> QED BY <1>1, <1>2, <1>3, <1>4, <1>5, <1>6, <1>7, <1>8 DEF Next

\* The state of the updater, what is on its way and what windows show fit together in
\* every state, however many windows, releases and operations there are.
THEOREM UpdaterInvariance == Spec => []IInv
BY InitIInv, NextIInv, PTL DEF Spec

\* Every snapshot is well typed, and the snapshot says that an operation runs exactly
\* while one holds the busy flag of UpdaterService.
THEOREM UpdaterTypes == Spec => []TypeOK
<1>1. IInv => TypeOK
  BY DEF IInv, Types
<1> QED BY <1>1, UpdaterInvariance, PTL

\* What UpdaterState offers and what ServiceInner.pending would install are the same.
THEOREM UpdaterPendingFits == Spec => []PendingFits
<1>1. IInv => PendingFits
  BY DEF IInv
<1> QED BY <1>1, UpdaterInvariance, PTL

\* A window announces the update of an operation at most once.
THEOREM UpdaterAnnouncedOnce == Spec => []AnnouncedOnce
<1>1. IInv => AnnouncedOnce
  BY DEF IInv
<1> QED BY <1>1, UpdaterInvariance, PTL

\* A window of DesktopUpdaterController to which nothing is on its way knows the latest
\* operation: none was missed between listening and asking.
THEOREM UpdaterUiKnows == Spec => []UiKnowsOperation
<1>1. IInv => UiKnowsOperation
  BY DEF IInv, Told, UiKnowsOperation
<1> QED BY <1>1, UpdaterInvariance, PTL

\* All of it together: offers, packages, announcements and what windows know fit.
THEOREM UpdaterCorrect == Spec => []UpdaterSound
<1> QED
  BY UpdaterTypes, UpdaterPendingFits, UpdaterAnnouncedOnce, UpdaterUiKnows, PTL DEF UpdaterSound

\* What UpdaterService::apply saw when the download was there holds while it installs, and
\* until the process ends: only a document that became unsaved later is overrun.
THEOREM UpdaterOverrunsOnlyLateEdits == Spec => []OverrunsOnlyLateEdits
<1>1. IInv => OverrunsOnlyLateEdits
  BY DEF IInv, AnswerHolds, Asked, OverrunsOnlyLateEdits
<1> QED BY <1>1, UpdaterInvariance, PTL
=============================================================================
