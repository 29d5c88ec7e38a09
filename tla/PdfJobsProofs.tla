--------------------------- MODULE PdfJobsProofs ---------------------------
(***************************************************************************)
(* Proofs about PdfJobs and PdfExport, for any windows, targets, job ids,  *)
(* limits, times and documents.                                            *)
(*                                                                         *)
(* The first part is about the jobs of the backend with arbitrary clients. *)
(* The second is about the pipelines of the windows: that they are such    *)
(* clients, so that everything the first part proves holds of them, and    *)
(* that a pipeline, its calls on the wire and its job stay in step.        *)
(***************************************************************************)
EXTENDS PdfExport, FiniteSetTheorems, TLAPS

USE PdfJobsAssumption DEF PdfJobsAssumption

-----------------------------------------------------------------------------
(* The inductive invariant                                                 *)

\* The map of jobs is a finite function; every job is well typed and within its limits.
JobsOK ==
  /\ jobs = [id \in Active |-> jobs[id]] /\ IsFiniteSet(Active)
  /\ Active \subseteq ids /\ ids \subseteq JobIds
  /\ \A id \in Active : jobs[id] \in Job
  /\ \A id \in Active : jobs[id].bytes <= MaxJobBytes /\ Len(jobs[id].pages) <= jobs[id].count

RestOK ==
  /\ export \subseteq [job : Job, left : 0 .. MaxExport]
  /\ \A e, f \in export : e = f
  /\ DOMAIN files \subseteq Targets /\ \A t \in DOMAIN files : files[t] \in Job
  /\ sleep \in 0 .. ReaperInterval /\ caller \subseteq Windows

\* The pages a job holds are the first ones of its snapshot, in order.
InOrder(j) ==
  \A i \in 1 .. Len(j.pages) : j.pages[i].snapshot = j.snapshot /\ j.pages[i].index = i - 1

PagesInOrder == \A id \in Active : InOrder(jobs[id])

\* What is being exported, and what was, is complete.
ExportWhole == \A e \in export : InOrder(e.job) /\ Len(e.job.pages) = e.job.count
FilesWhole == \A t \in DOMAIN files : InOrder(files[t]) /\ Len(files[t].pages) = files[t].count

IInv ==
  /\ JobsOK /\ RestOK
  /\ WithinCapacity /\ OneJobEach
  /\ PagesInOrder /\ ExportWhole /\ FilesWhole
  /\ ReapedInTime

-----------------------------------------------------------------------------
(* Actions that only take jobs away                                        *)

\* Taking jobs away keeps what holds of each of them, and of any two.
LEMMA RestrictOK ==
  ASSUME IInv, NEW S \in SUBSET Active, jobs' = Restrict(jobs, S), ids' = ids
  PROVE  JobsOK' /\ WithinCapacity' /\ OneJobEach' /\ PagesInOrder'
<1>1. Active' = S /\ \A id \in S : jobs'[id] = jobs[id]
  BY DEF Active, Restrict
<1>2. JobsOK'
  <2>1. IsFiniteSet(S)
    BY FS_Subset DEF IInv, JobsOK
  <2>2. jobs' = [id \in S |-> jobs'[id]]
    BY DEF Restrict
  <2> QED
    BY <1>1, <2>1, <2>2 DEF IInv, JobsOK
<1>3. WithinCapacity'
  <2>1. Cardinality(S) <= Cardinality(Active) /\ Cardinality(S) \in Nat /\ Cardinality(Active) \in Nat
    BY FS_Subset, FS_CardinalityType DEF IInv, JobsOK
  <2> QED
    BY <1>1, <2>1 DEF IInv, WithinCapacity
<1>4. OneJobEach'
  BY <1>1 DEF IInv, OneJobEach
<1>5. PagesInOrder'
  BY <1>1 DEF IInv, PagesInOrder
<1> QED
  BY <1>2, <1>3, <1>4, <1>5

\* What is left of the jobs is as old as it was.
LEMMA RestrictTimely ==
  ASSUME IInv, NEW S \in SUBSET Active, jobs' = Restrict(jobs, S), sleep' = sleep
  PROVE  ReapedInTime'
<1>1. Active' = S /\ \A id \in S : jobs'[id] = jobs[id]
  BY DEF Active, Restrict
<1> QED
  BY <1>1 DEF IInv, ReapedInTime

LEMMA FreshActive == Fresh \subseteq Active
  BY DEF Fresh

LEMMA KeptActive == ASSUME NEW w PROVE Kept(w) \subseteq Active
  BY DEF Kept, Fresh

\* The parts that do not look at the jobs do not change with them.
LEMMA OthersUnchanged ==
  ASSUME IInv, UNCHANGED <<export, files, sleep>>, caller' \subseteq Windows
  PROVE  RestOK' /\ ExportWhole' /\ FilesWhole'
  BY DEF IInv, RestOK, ExportWhole, FilesWhole, InOrder

LEMMA TakeAway ==
  ASSUME IInv, NEW S \in SUBSET Active, jobs' = Restrict(jobs, S),
         UNCHANGED <<ids, export, files, sleep>>, caller' \subseteq Windows
  PROVE  IInv'
  BY RestrictOK, RestrictTimely, OthersUnchanged DEF IInv

-----------------------------------------------------------------------------
(* Every action                                                            *)

LEMMA BeginOK ==
  ASSUME IInv, NEW w \in Windows, NEW s \in Snapshots, NEW t \in Targets,
         NEW n \in 1 .. MaxPages, NEW id \in JobIds, Begin(w, s, t, n, id)
  PROVE  IInv'
<1> DEFINE K == Kept(w)
           j == NewJob(w, s, t, n)
<1>1. K \subseteq Active /\ id \notin ids /\ id \notin K
  BY KeptActive DEF Begin, IInv, JobsOK
<1>2. Active' = K \cup {id} /\ jobs'[id] = j /\ \A k \in K : jobs'[k] = jobs[k]
  BY <1>1 DEF Begin, Active
<1>3. j \in Job /\ j.pages = <<>> /\ j.bytes = 0 /\ j.age = 0 /\ j.idle = 0
      /\ j.owner = w /\ j.target = t /\ Len(j.pages) = 0 /\ Len(j.pages) <= j.count
      /\ j.bytes <= MaxJobBytes
  BY DEF NewJob, Job, Page
<1> HIDE DEF j, K
<1>4. IsFiniteSet(K) /\ Cardinality(K) \in Nat /\ Cardinality(K \cup {id}) = Cardinality(K) + 1
  BY <1>1, FS_Subset, FS_AddElement, FS_CardinalityType DEF IInv, JobsOK
<1>5. JobsOK'
  <2>1. IsFiniteSet(K \cup {id})
    BY <1>4, FS_AddElement
  <2>2. jobs' = [k \in Active' |-> jobs'[k]]
    BY <1>2 DEF K, Begin
  <2>3. Active' \subseteq ids' /\ ids' \subseteq JobIds
    BY <1>1, <1>2 DEF Begin, IInv, JobsOK
  <2>4. \A k \in Active' : jobs'[k] \in Job
    BY <1>1, <1>2, <1>3 DEF IInv, JobsOK
  <2>5. \A k \in Active' : jobs'[k].bytes <= MaxJobBytes /\ Len(jobs'[k].pages) <= jobs'[k].count
    BY <1>1, <1>2, <1>3 DEF IInv, JobsOK
  <2> QED
    BY <1>2, <2>1, <2>2, <2>3, <2>4, <2>5 DEF JobsOK
<1>6. WithinCapacity'
  BY <1>2, <1>4 DEF K, Begin, HasRoom, WithinCapacity
<1>7. OneJobEach'
  <2>1. \A k \in K : jobs[k].owner # w /\ jobs[k].target # t
    BY DEF K, Begin, HasRoom, Kept, Of, Fresh
  <2> QED
    BY <1>1, <1>2, <1>3, <2>1 DEF IInv, OneJobEach
<1>8. PagesInOrder'
  <2>1. InOrder(j)
    BY <1>3 DEF InOrder
  <2> QED
    BY <1>1, <1>2, <2>1 DEF IInv, PagesInOrder
<1>9. ReapedInTime'
  <2>1. sleep' = sleep /\ sleep \in 0 .. ReaperInterval
    BY DEF Begin, IInv, RestOK
  <2>2. \A k \in K : sleep > 0 => /\ jobs[k].idle + sleep < IdleTTL + ReaperInterval
                                  /\ jobs[k].age + sleep < MaxLifetime + ReaperInterval
    BY <1>1 DEF IInv, ReapedInTime
  <2>3. 0 + sleep < IdleTTL + ReaperInterval /\ 0 + sleep < MaxLifetime + ReaperInterval
    BY <2>1
  <2> QED
    BY <1>2, <1>3, <2>1, <2>2, <2>3 DEF ReapedInTime
<1>10. RestOK' /\ ExportWhole' /\ FilesWhole'
  BY OthersUnchanged DEF Begin
<1> QED
  BY <1>5, <1>6, <1>7, <1>8, <1>9, <1>10 DEF IInv

LEMMA AppendOK ==
  ASSUME IInv, NEW w \in Windows, NEW id \in JobIds, NEW s \in Snapshots, NEW i \in 0 .. MaxPages,
         NEW body \in Bodies, NEW size \in PageSizes, AppendPage(w, id, s, i, body, size)
  PROVE  IInv'
<1> DEFINE old == jobs[id]
           page == [snapshot |-> s, index |-> i, body |-> body]
           new == WithPage(old, page, size)
<1>1. id \in Fresh /\ Fresh \subseteq Active /\ old \in Job /\ Accepts(old, s, i, size)
  BY FreshActive DEF AppendPage, Owned, IInv, JobsOK
<1>2. Active' = Fresh /\ jobs'[id] = new /\ \A k \in Fresh \ {id} : jobs'[k] = jobs[k]
  <2> DEFINE f == [k \in Fresh |-> jobs[k]]
             g == WithPage(f[id], page, size)
  <2>1. jobs' = [f EXCEPT ![id] = g]
    BY DEF AppendPage, Restrict
  <2>2. g = new
    BY <1>1
  <2>3. DOMAIN f = Fresh /\ \A k \in Fresh : f[k] = jobs[k]
    OBVIOUS
  <2>4. f = [k \in DOMAIN f |-> f[k]]
    OBVIOUS
  <2> HIDE DEF f, g, new
  <2> QED
    BY <1>1, <2>1, <2>2, <2>3, <2>4 DEF Active
<1>3. /\ old.pages \in Seq(Page) /\ Len(old.pages) \in Nat
      /\ old.bytes \in Nat /\ old.count \in 1 .. MaxPages /\ size \in Nat
  BY <1>1 DEF Job
<1>4. /\ s = old.snapshot /\ i = Len(old.pages) /\ i < old.count
      /\ old.bytes + size <= MaxJobBytes
      /\ i \in 0 .. MaxPages - 1 /\ page \in Page
  BY <1>1, <1>3 DEF Accepts, Page
<1>5. /\ new \in Job
      /\ new.pages = Append(old.pages, page) /\ new.bytes = old.bytes + size /\ new.idle = 0
      /\ new.age = old.age /\ new.owner = old.owner /\ new.target = old.target
      /\ new.count = old.count /\ new.snapshot = old.snapshot
  <2>1. Append(old.pages, page) \in Seq(Page) /\ old.bytes + size \in Nat
    BY <1>3, <1>4
  <2>2. /\ new.pages = Append(old.pages, page) /\ new.bytes = old.bytes + size /\ new.idle = 0
        /\ new.age = old.age /\ new.owner = old.owner /\ new.target = old.target
        /\ new.count = old.count /\ new.snapshot = old.snapshot
    BY <1>1 DEF WithPage, Job
  <2>3. new \in Job
    BY <1>1, <2>1 DEF WithPage, Job
  <2> QED
    BY <2>2, <2>3
<1> HIDE DEF new, old, page
<1>6. Len(new.pages) = Len(old.pages) + 1 /\ Len(new.pages) <= new.count /\ new.bytes <= MaxJobBytes
  BY <1>3, <1>4, <1>5
<1>7. InOrder(new)
  <2>1. InOrder(old)
    BY <1>1 DEF old, IInv, PagesInOrder
  <2>2. \A k \in 1 .. Len(old.pages) : new.pages[k] = old.pages[k]
    BY <1>3, <1>4, <1>5
  <2>3. new.pages[Len(old.pages) + 1] = page
    BY <1>3, <1>4, <1>5
  <2>4. ASSUME NEW k \in 1 .. Len(new.pages)
        PROVE  new.pages[k].snapshot = new.snapshot /\ new.pages[k].index = k - 1
    <3>1. CASE k \in 1 .. Len(old.pages)
      BY <3>1, <2>1, <2>2, <1>5 DEF InOrder
    <3>2. CASE k = Len(old.pages) + 1
      BY <3>2, <2>3, <1>3, <1>4, <1>5 DEF page
    <3> QED
      BY <3>1, <3>2, <2>4, <1>3, <1>6
  <2> QED
    BY <2>4 DEF InOrder
<1>8. JobsOK'
  <2>1. IsFiniteSet(Fresh)
    BY <1>1, FS_Subset DEF IInv, JobsOK
  <2>2. jobs' = [k \in Active' |-> jobs'[k]]
    BY <1>2 DEF AppendPage, Restrict
  <2>3. Active' \subseteq ids' /\ ids' \subseteq JobIds
    BY <1>1, <1>2 DEF AppendPage, IInv, JobsOK
  <2>4. \A k \in Active' : /\ jobs'[k] \in Job /\ jobs'[k].bytes <= MaxJobBytes
                           /\ Len(jobs'[k].pages) <= jobs'[k].count
    BY <1>1, <1>2, <1>5, <1>6 DEF IInv, JobsOK
  <2> QED
    BY <1>2, <2>1, <2>2, <2>3, <2>4 DEF JobsOK
<1>9. WithinCapacity'
  <2>1. /\ Cardinality(Fresh) <= Cardinality(Active)
        /\ Cardinality(Fresh) \in Nat /\ Cardinality(Active) \in Nat
    BY <1>1, FS_Subset, FS_CardinalityType DEF IInv, JobsOK
  <2> QED
    BY <1>2, <2>1 DEF IInv, WithinCapacity
<1>10. OneJobEach'
  BY <1>1, <1>2, <1>5 DEF old, IInv, OneJobEach
<1>11. PagesInOrder'
  BY <1>1, <1>2, <1>7 DEF IInv, PagesInOrder
<1>12. ReapedInTime'
  <2>1. sleep' = sleep /\ sleep \in 0 .. ReaperInterval
    BY DEF AppendPage, IInv, RestOK
  <2>2. 0 + sleep < IdleTTL + ReaperInterval
    BY <2>1
  <2> QED
    BY <1>1, <1>2, <1>5, <2>1, <2>2 DEF old, IInv, ReapedInTime
<1>13. RestOK' /\ ExportWhole' /\ FilesWhole'
  BY OthersUnchanged DEF AppendPage
<1> QED
  BY <1>8, <1>9, <1>10, <1>11, <1>12, <1>13 DEF IInv

LEMMA CommitOK ==
  ASSUME IInv, NEW w \in Windows, NEW id \in JobIds, NEW s \in Snapshots, Commit(w, id, s)
  PROVE  IInv'
<1>1. id \in Active /\ jobs[id] \in Job /\ InOrder(jobs[id]) /\ Len(jobs[id].pages) = jobs[id].count
  BY DEF Commit, Owned, Complete, Fresh, IInv, JobsOK, PagesInOrder
<1>2. export' = {[job |-> jobs[id], left |-> MaxExport]}
  BY DEF Commit
<1>3. RestOK'
  BY <1>1, <1>2 DEF Commit, IInv, RestOK
<1>4. ExportWhole'
  BY <1>1, <1>2 DEF ExportWhole
<1>5. FilesWhole'
  BY DEF Commit, IInv, FilesWhole
<1>6. JobsOK' /\ WithinCapacity' /\ OneJobEach' /\ PagesInOrder' /\ ReapedInTime'
  <2>1. Fresh \ {id} \in SUBSET Active
    BY FreshActive
  <2> QED
    BY <2>1, RestrictOK, RestrictTimely DEF Commit
<1> QED
  BY <1>3, <1>4, <1>5, <1>6 DEF IInv

LEMMA ExportEndOK ==
  ASSUME IInv, ExportDone \/ ExportFails
  PROVE  IInv'
<1>1. UNCHANGED <<jobs, ids, sleep>> /\ export' = {} /\ caller' \subseteq Windows
  <2>1. \A e \in export : e.job.owner \in Windows
    BY DEF IInv, RestOK, Job
  <2> QED
    BY <2>1 DEF ExportDone, ExportFails
<1>2. JobsOK' /\ WithinCapacity' /\ OneJobEach' /\ PagesInOrder' /\ ReapedInTime'
  BY <1>1 DEF IInv, JobsOK, WithinCapacity, OneJobEach, PagesInOrder, ReapedInTime, Active, InOrder
<1>3. DOMAIN files' \subseteq Targets /\ (\A t \in DOMAIN files' : files'[t] \in Job) /\ FilesWhole'
  <2>1. CASE ExportFails
    BY <2>1 DEF ExportFails, IInv, RestOK, FilesWhole, InOrder
  <2>2. CASE ExportDone
    <3>1. PICK e \in export :
            files' = [t \in DOMAIN files \cup {e.job.target} |->
                        IF t = e.job.target THEN e.job ELSE files[t]]
      BY <2>2 DEF ExportDone
    <3>2. e.job \in Job /\ e.job.target \in Targets
      BY DEF IInv, RestOK, Job
    <3>3. \A t \in DOMAIN files' : files'[t] = e.job \/ (t \in DOMAIN files /\ files'[t] = files[t])
      BY <3>1
    <3>4. DOMAIN files' \subseteq Targets
      BY <3>1, <3>2 DEF IInv, RestOK
    <3>5. InOrder(e.job) /\ Len(e.job.pages) = e.job.count
      BY DEF IInv, ExportWhole
    <3> QED
      BY <3>2, <3>3, <3>4, <3>5 DEF IInv, RestOK, FilesWhole
  <2> QED
    BY <2>1, <2>2
<1>4. RestOK'
  BY <1>1, <1>3 DEF IInv, RestOK
<1>5. ExportWhole'
  BY <1>1 DEF ExportWhole
<1> QED
  BY <1>2, <1>3, <1>4, <1>5 DEF IInv

LEMMA ReapOK ==
  ASSUME IInv, Reap
  PROVE  IInv'
<1>1. JobsOK' /\ WithinCapacity' /\ OneJobEach' /\ PagesInOrder'
  BY RestrictOK, FreshActive DEF Reap
<1>2. RestOK' /\ ExportWhole' /\ FilesWhole'
  BY DEF Reap, IInv, RestOK, ExportWhole, FilesWhole, InOrder
<1>3. ReapedInTime'
  <2>1. Active' = Fresh /\ \A id \in Fresh : jobs'[id] = jobs[id]
    BY DEF Reap, Restrict, Active
  <2>2. \A id \in Fresh : jobs[id].idle < IdleTTL /\ jobs[id].age < MaxLifetime
    BY DEF Fresh, Expired, IInv, JobsOK, Job
  <2>3. \A id \in Fresh : jobs[id].idle \in Nat /\ jobs[id].age \in Nat
    BY DEF Fresh, IInv, JobsOK, Job
  <2> QED
    BY <2>1, <2>2, <2>3 DEF Reap, ReapedInTime
<1> QED
  BY <1>1, <1>2, <1>3 DEF IInv

LEMMA TickOK ==
  ASSUME IInv, Tick
  PROVE  IInv'
<1> DEFINE aged(j) == [j EXCEPT !.age = Older(@), !.idle = Older(@)]
<1>1. Active' = Active /\ \A id \in Active : jobs'[id] = aged(jobs[id])
  BY DEF Tick, Active
<1>2. \A a \in Nat : Older(a) \in Nat /\ Older(a) <= a + 1
  BY DEF Older
<1>3. ASSUME NEW j \in Job
      PROVE  /\ aged(j) \in Job /\ aged(j).age <= j.age + 1 /\ aged(j).idle <= j.idle + 1
             /\ aged(j).owner = j.owner /\ aged(j).target = j.target /\ aged(j).count = j.count
             /\ aged(j).snapshot = j.snapshot /\ aged(j).pages = j.pages /\ aged(j).bytes = j.bytes
  BY <1>2 DEF Job
<1> HIDE DEF aged
<1>4. \A id \in Active : jobs[id] \in Job
  BY DEF IInv, JobsOK
<1>5. JobsOK'
  <2>1. jobs' = [id \in Active' |-> jobs'[id]]
    BY <1>1 DEF Tick
  <2>2. ids' = ids
    BY DEF Tick
  <2> QED
    BY <1>1, <1>3, <1>4, <2>1, <2>2 DEF IInv, JobsOK
<1>6. WithinCapacity' /\ OneJobEach'
  BY <1>1, <1>3, <1>4 DEF IInv, WithinCapacity, OneJobEach
<1>7. PagesInOrder'
  BY <1>1, <1>3, <1>4 DEF IInv, PagesInOrder, InOrder
<1>8. RestOK' /\ ExportWhole'
  <2>1. \A e \in export : /\ e \in [job : Job, left : 0 .. MaxExport] /\ e.left > 0
    BY DEF Tick, IInv, RestOK
  <2>2. \A e \in export : /\ [e EXCEPT !.left = @ - 1] \in [job : Job, left : 0 .. MaxExport]
                          /\ [e EXCEPT !.left = @ - 1].job = e.job
    BY <2>1
  <2>3. \A f \in export' : \E e \in export : f = [e EXCEPT !.left = @ - 1]
    BY DEF Tick
  <2>4. export' \subseteq [job : Job, left : 0 .. MaxExport] /\ ExportWhole'
    BY <2>2, <2>3 DEF IInv, ExportWhole
  <2>5. \A e, f \in export' : e = f
    BY <2>3 DEF IInv, RestOK
  <2>6. sleep \in 0 .. ReaperInterval /\ sleep' = IF sleep > 0 THEN sleep - 1 ELSE 0
    BY DEF Tick, IInv, RestOK
  <2>7. sleep' \in 0 .. ReaperInterval
    BY <2>6
  <2> QED
    BY <2>4, <2>5, <2>7 DEF Tick, IInv, RestOK
<1>9. FilesWhole'
  BY DEF Tick, IInv, FilesWhole
<1>10. ReapedInTime'
  <2> SUFFICES ASSUME sleep' > 0, NEW id \in Active'
               PROVE  /\ jobs'[id].idle + sleep' < IdleTTL + ReaperInterval
                      /\ jobs'[id].age + sleep' < MaxLifetime + ReaperInterval
    BY DEF ReapedInTime
  <2>0. sleep \in Nat /\ sleep' = IF sleep > 0 THEN sleep - 1 ELSE 0
    <3>1. sleep \in Nat
      BY DEF IInv, RestOK
    <3> QED
      BY <3>1 DEF Tick
  <2>1. sleep > 0 /\ sleep' = sleep - 1
    BY <2>0
  <2>2. /\ jobs[id].idle + sleep < IdleTTL + ReaperInterval
        /\ jobs[id].age + sleep < MaxLifetime + ReaperInterval
    BY <1>1, <2>1 DEF IInv, ReapedInTime
  <2>3. jobs[id].idle \in Nat /\ jobs[id].age \in Nat /\ jobs'[id].idle \in Nat /\ jobs'[id].age \in Nat
    BY <1>1, <1>3, <1>4 DEF Job
  <2>4. jobs'[id].idle <= jobs[id].idle + 1 /\ jobs'[id].age <= jobs[id].age + 1
    BY <1>1, <1>3, <1>4
  <2> QED
    BY <2>0, <2>1, <2>2, <2>3, <2>4
<1> QED
  BY <1>5, <1>6, <1>7, <1>8, <1>9, <1>10 DEF IInv

LEMMA InitOK == Init => IInv
<1> SUFFICES ASSUME Init PROVE IInv
  OBVIOUS
<1>1. Active = {} /\ export = {} /\ DOMAIN files = {}
  BY DEF Init, Active
<1>2. JobsOK
  BY <1>1, FS_EmptySet DEF Init, JobsOK
<1>3. WithinCapacity
  BY <1>1, FS_EmptySet DEF WithinCapacity
<1>4. RestOK /\ OneJobEach /\ PagesInOrder /\ ExportWhole /\ FilesWhole /\ ReapedInTime
  BY <1>1 DEF Init, RestOK, OneJobEach, PagesInOrder, ExportWhole, FilesWhole, ReapedInTime
<1> QED
  BY <1>2, <1>3, <1>4 DEF IInv

LEMMA CommandOK ==
  ASSUME IInv, NEW w \in Windows, Command(w)
  PROVE  IInv'
<1>1. ASSUME NEW s \in Snapshots, NEW t \in Targets, NEW n \in 1 .. MaxPages, NEW id \in JobIds,
             Begin(w, s, t, n, id)
      PROVE  IInv'
  BY <1>1, BeginOK
<1>2. CASE BeginRefused(w)
  BY <1>2, KeptActive, TakeAway DEF BeginRefused
<1>3. ASSUME NEW id \in JobIds, NEW s \in Snapshots, NEW i \in 0 .. MaxPages,
             NEW body \in Bodies, NEW size \in PageSizes, AppendPage(w, id, s, i, body, size)
      PROVE  IInv'
  BY <1>3, AppendOK
<1>4. ASSUME NEW id \in JobIds, NEW s \in Snapshots, Commit(w, id, s)
      PROVE  IInv'
  BY <1>4, CommitOK
<1>5. ASSUME NEW id \in JobIds, Remove(w, id) \/ Refuse(w, id)
      PROVE  IInv'
  <2>1. PICK S \in SUBSET Active : jobs' = Restrict(jobs, S)
    BY <1>5, FreshActive DEF Remove, Refuse
  <2> QED
    BY <1>5, <2>1, TakeAway DEF Remove, Refuse
<1>6. CASE DiscardForWindow(w)
  <2>1. Active \ Of(w) \in SUBSET Active
    OBVIOUS
  <2> QED
    BY <1>6, <2>1, TakeAway DEF DiscardForWindow
<1> QED
  BY <1>1, <1>2, <1>3, <1>4, <1>5, <1>6 DEF Command

LEMMA NextOK == IInv /\ [Next]_vars => IInv'
<1> SUFFICES ASSUME IInv, [Next]_vars PROVE IInv'
  OBVIOUS
<1>1. CASE UNCHANGED vars
  BY <1>1 DEF vars, IInv, JobsOK, RestOK, WithinCapacity, OneJobEach, PagesInOrder, ExportWhole,
              FilesWhole, ReapedInTime, Active, InOrder
<1>2. CASE Next
  BY <1>2, CommandOK, ExportEndOK, ReapOK, TickOK DEF Next
<1> QED
  BY <1>1, <1>2

-----------------------------------------------------------------------------
(* Theorems                                                                *)

\* The jobs' types, limits, contents and ages, for every instance.
THEOREM PdfInvariance == Spec => []IInv
  BY InitOK, NextOK, PTL DEF Spec

\* Jobs are well typed and within their limits, and one at most is exported.
THEOREM PdfTypes == Spec => []TypeOK
<1>1. IInv => TypeOK
  BY DEF IInv, JobsOK, RestOK, TypeOK
<1> QED
  BY <1>1, PdfInvariance, PTL

\* At most max_active_jobs jobs hold temporary files.
THEOREM PdfCapacity == Spec => []WithinCapacity
<1>1. IInv => WithinCapacity
  BY DEF IInv
<1> QED
  BY <1>1, PdfInvariance, PTL

\* One job per window and per target.
THEOREM PdfOneJobEach == Spec => []OneJobEach
<1>1. IInv => OneJobEach
  BY DEF IInv
<1> QED
  BY <1>1, PdfInvariance, PTL

\* Every PDF that was written is whole: all pages of one snapshot, once and in order.
THEOREM PdfIsWhole == Spec => []WholePdf
<1>1. IInv => WholePdf
  <2> SUFFICES ASSUME IInv, NEW t \in DOMAIN files
               PROVE  /\ Len(files[t].pages) = files[t].count
                      /\ \A i \in 1 .. files[t].count :
                           files[t].pages[i].snapshot = files[t].snapshot /\ files[t].pages[i].index = i - 1
    BY DEF WholePdf
  <2> QED
    BY DEF IInv, FilesWhole, InOrder
<1> QED
  BY <1>1, PdfInvariance, PTL

\* The three together: what PdfExportJobs promises of the jobs it holds and the files it writes.
THEOREM PdfJobsCorrect == Spec => []JobsSound
<1> QED
  BY PdfCapacity, PdfOneJobEach, PdfIsWhole, PTL DEF JobsSound

\* No job outlives its limits by more than one reaper interval while the reaper can run.
THEOREM PdfReaped == Spec => []ReapedInTime
<1>1. IInv => ReapedInTime
  BY DEF IInv
<1> QED
  BY <1>1, PdfInvariance, PTL

\* Which jobs a step takes along: an overdue one, or one of the window it acts for.
LEMMA ForeignStep ==
  ASSUME IInv, [Next]_vars, NEW id \in Active
  PROVE  UsedByOwner(id)
<1>1. CASE UNCHANGED vars
  BY <1>1 DEF vars, Active, UsedByOwner
<1>2. CASE Reap
  <2>1. CASE id \in Fresh
    BY <2>1, <1>2, FreshActive DEF Reap, Restrict, UsedByOwner
  <2> QED
    BY <2>1 DEF Fresh, UsedByOwner
<1>3. CASE Tick
  <2>1. id \in DOMAIN jobs' /\ jobs'[id] = [jobs[id] EXCEPT !.age = Older(@), !.idle = Older(@)]
    BY <1>3 DEF Tick, Active
  <2>2. jobs[id] \in Job
    BY DEF IInv, JobsOK
  <2>3. Holds(jobs'[id]) = Holds(jobs[id])
    BY <2>1, <2>2 DEF Holds, Job
  <2> QED
    BY <2>1, <2>3 DEF UsedByOwner
<1>4. CASE ExportDone \/ ExportFails
  BY <1>4 DEF ExportDone, ExportFails, Active, UsedByOwner
<1>5. ASSUME NEW w \in Windows, Command(w)
      PROVE  UsedByOwner(id)
  <2>1. caller' = {w}
    BY <1>5 DEF Command, Begin, BeginRefused, AppendPage, Commit, Remove, Refuse, DiscardForWindow
  <2>2. CASE id \in Fresh /\ jobs[id].owner # w
    <3>1. id \in DOMAIN jobs' /\ jobs'[id] = jobs[id]
      <4>1. ASSUME NEW s \in Snapshots, NEW t \in Targets, NEW n \in 1 .. MaxPages,
                   NEW k \in JobIds, Begin(w, s, t, n, k)
            PROVE  id \in DOMAIN jobs' /\ jobs'[id] = jobs[id]
        <5>1. id # k /\ id \in Kept(w)
          BY <2>2, <4>1 DEF Begin, Kept, Of, Fresh, IInv, JobsOK
        <5> QED
          BY <4>1, <5>1 DEF Begin
      <4>2. ASSUME NEW k \in JobIds, NEW s \in Snapshots, NEW i \in 0 .. MaxPages,
                   NEW body \in Bodies, NEW size \in PageSizes, AppendPage(w, k, s, i, body, size)
            PROVE  id \in DOMAIN jobs' /\ jobs'[id] = jobs[id]
        BY <2>2, <4>2 DEF AppendPage, Owned, Restrict
      <4>3. ASSUME NEW k \in JobIds, NEW s \in Snapshots, Commit(w, k, s)
            PROVE  id \in DOMAIN jobs' /\ jobs'[id] = jobs[id]
        BY <2>2, <4>3 DEF Commit, Owned, Restrict
      <4>4. ASSUME NEW k \in JobIds, Remove(w, k) \/ Refuse(w, k)
            PROVE  id \in DOMAIN jobs' /\ jobs'[id] = jobs[id]
        BY <2>2, <4>4 DEF Remove, Refuse, Owned, Restrict
      <4>5. CASE BeginRefused(w) \/ DiscardForWindow(w)
        BY <2>2, <4>5 DEF BeginRefused, DiscardForWindow, Kept, Of, Fresh, Restrict
      <4> QED
        BY <1>5, <4>1, <4>2, <4>3, <4>4, <4>5 DEF Command
    <3> QED
      BY <3>1 DEF UsedByOwner
  <2> QED
    BY <2>1, <2>2 DEF Fresh, UsedByOwner
<1> QED
  BY <1>1, <1>2, <1>3, <1>4, <1>5 DEF Next

\* A job that is not overdue is changed and ended by its own window only.
THEOREM PdfForeignSafe == Spec => ForeignSafe
<1>1. IInv /\ [Next]_vars => [\A id \in Active : UsedByOwner(id)]_vars
  BY ForeignStep
<1> QED
  BY <1>1, PdfInvariance, PTL DEF Spec, ForeignSafe

-----------------------------------------------------------------------------
(* The pipelines of the windows                                            *)

USE PdfExportAssumption DEF PdfExportAssumption

\* The calls a window sends
Call == [name : Calls, target : Targets, snapshot : Snapshots, job : JobIds \cup {NoJob},
         index : 0 .. MaxPages, count : 1 .. MaxPages, body : Bodies]
Requests(w) == 1 .. Len(wire[w])
\* The snapshot whose export runs
Exporting(s) == \E e \in export : e.job.snapshot = s

ExportTyped ==
  /\ pipe \in [Windows -> Pipe] /\ content \in [Windows -> Bodies] /\ windows \subseteq Windows
  /\ wire \in [Windows -> Seq(Call)]
  /\ DOMAIN taken \subseteq Snapshots /\ \A s \in DOMAIN taken : taken[s] \in Bodies
  /\ written \subseteq DOMAIN taken

\* What a pipeline knows at each of its stages
PipeOK(p) ==
  /\ p.snapshot \in DOMAIN taken \cup {NoSnapshot}
  /\ p.at # "idle" => p.target \in Targets /\ p.told = "nothing"
  /\ p.at \in {"idle", "capture"} => p.answer = "none"
  /\ p.at = "capture" => p.snapshot = NoSnapshot /\ p.next = 0
  /\ p.at \in Calls => p.snapshot \in DOMAIN taken
  /\ p.at = "begin" => p.next = 0 /\ (p.answer = "ok" => p.job \in JobIds)
  /\ p.at \in {"append", "commit", "abort"} => p.job \in JobIds
  /\ p.at = "append" => p.next < PagesOf[taken[p.snapshot]]
CallOK(c) ==
  /\ c.snapshot \in DOMAIN taken /\ c.body = taken[c.snapshot] /\ c.count = PagesOf[c.body]
  /\ c.name # "begin" => c.job \in JobIds
PipesOK == \A w \in Windows : PipeOK(pipe[w])
WireOK == \A w \in Windows : \A i \in Requests(w) : CallOK(wire[w][i])

\* A pipeline waits for one call at a time.  From the answer to its begin on nothing of an
\* earlier pipeline of the window is left on the wire.
Unhandled(w) == pipe[w].answer = "none" /\ ~(pipe[w].at = "commit" /\ Exporting(pipe[w].snapshot))
Begun(w) == pipe[w].at \in {"append", "commit", "abort"} \/ pipe[w].answer # "none"
WaitsInStep(w) ==
  IF Begun(w)
  THEN wire[w] = IF Unhandled(w) THEN <<CallOf(pipe[w], taken[pipe[w].snapshot])>> ELSE <<>>
  ELSE /\ wire[w] # <<>> /\ wire[w][Len(wire[w])] = CallOf(pipe[w], taken[pipe[w].snapshot])
       /\ \A i \in 1 .. Len(wire[w]) - 1 : wire[w][i].snapshot # pipe[w].snapshot
InStep == \A w \in Windows : pipe[w].at \in Calls => WaitsInStep(w)

\* A snapshot is one window's.
OwnSnapshots ==
  /\ \A w, v \in Windows : pipe[w].snapshot = pipe[v].snapshot /\ pipe[w].snapshot # NoSnapshot => w = v
  /\ \A w, v \in Windows : \A i \in Requests(v) : wire[v][i].snapshot = pipe[w].snapshot => v = w
  /\ \A w \in Windows, e \in export : e.job.snapshot = pipe[w].snapshot => e.job.owner = w

\* A snapshot is committed at most once.
CommittedOnce ==
  /\ \A v, u \in Windows : \A i \in Requests(v), k \in Requests(u) :
       wire[v][i].name = "commit" /\ wire[u][k].name = "commit" /\ wire[v][i].snapshot = wire[u][k].snapshot
         => v = u /\ i = k
  /\ \A v \in Windows : \A i \in Requests(v) :
       wire[v][i].name = "commit" => wire[v][i].snapshot \notin written /\ ~Exporting(wire[v][i].snapshot)
  /\ \A e \in export : e.job.snapshot \notin written

\* A snapshot that was not committed, and whose commit nobody waits for, is never written.
NeverWritten(s) ==
  /\ s \notin written /\ ~Exporting(s)
  /\ \A v \in Windows : \A i \in Requests(v) : wire[v][i].name = "commit" => wire[v][i].snapshot # s
ToldOK ==
  \A w \in Windows :
    /\ (\/ pipe[w].at \in {"begin", "append", "abort"} \/ pipe[w].told = "failed"
        \/ (pipe[w].at = "commit" /\ pipe[w].answer = "failed"))
       => NeverWritten(pipe[w].snapshot)
    /\ (pipe[w].told = "saved" \/ (pipe[w].at = "commit" /\ pipe[w].answer = "ok"))
       => pipe[w].snapshot \in written

\* The job of a running pipeline
Held(w, n) ==
  \/ pipe[w].job \in overdue
  \/ /\ pipe[w].job \in Active
     /\ jobs[pipe[w].job].owner = w /\ jobs[pipe[w].job].snapshot = pipe[w].snapshot
     /\ Len(jobs[pipe[w].job].pages) = n
JobsHeld ==
  \A w \in Windows :
    /\ pipe[w].at \in {"begin", "append"} /\ pipe[w].answer = "ok" =>
         Held(w, IF pipe[w].at = "begin" THEN 0 ELSE pipe[w].next + 1)
    /\ pipe[w].at \in {"append", "commit"} /\ Unhandled(w) => Held(w, pipe[w].next)

\* A job, or a PDF, shows the body its snapshot holds, and all of its pages.
Shows(j) ==
  /\ j.snapshot \in DOMAIN taken /\ j.count = PagesOf[taken[j.snapshot]]
  /\ \A i \in 1 .. Len(j.pages) : j.pages[i].body = taken[j.snapshot]
AllShow ==
  /\ \A id \in Active : Shows(jobs[id])
  /\ \A e \in export : Shows(e.job)
  /\ \A t \in DOMAIN files : Shows(files[t])

\* Pipelines, calls and jobs in step: the inductive invariant, together with that of the jobs
EInv ==
  /\ ExportTyped /\ PipesOK /\ WireOK /\ InStep
  /\ OwnSnapshots /\ CommittedOnce /\ ToldOK /\ JobsHeld /\ AllShow

-----------------------------------------------------------------------------
(* Steps of the windows are steps of the jobs                              *)

LEMMA HeadCall ==
  ASSUME ExportTyped, WireOK, NEW w \in Windows, wire[w] # <<>>
  PROVE  /\ Head(wire[w]) \in Call /\ CallOK(Head(wire[w])) /\ Head(wire[w]) = wire[w][1]
         /\ 1 \in Requests(w) /\ Len(wire[w]) \in Nat
<1>1. wire[w] \in Seq(Call)
  BY DEF ExportTyped
<1>2. Len(wire[w]) \in Nat /\ Len(wire[w]) > 0
  BY <1>1
<1>3. Head(wire[w]) = wire[w][1] /\ wire[w][1] \in Call
  BY <1>1, <1>2
<1> QED
  BY <1>2, <1>3 DEF WireOK, Requests

LEMMA HandleCommands ==
  ASSUME ExportTyped, WireOK, NEW w \in Windows, Handle(w)
  PROVE  Command(w) \/ UNCHANGED vars
<1> DEFINE c == Head(wire[w])
<1>1. /\ wire[w] # <<>>
      /\ HandleBegin(w, c) \/ HandleAppend(w, c) \/ HandleCommit(w, c) \/ HandleAbort(w, c)
  BY DEF Handle
<1>2. c \in Call /\ CallOK(c)
  BY <1>1, HeadCall
<1> HIDE DEF c
<1>3. /\ c.snapshot \in Snapshots /\ c.target \in Targets /\ c.count \in 1 .. MaxPages
      /\ c.index \in 0 .. MaxPages /\ c.body \in Bodies
      /\ c.name # "begin" => c.job \in JobIds
  BY <1>2 DEF Call, CallOK
<1>4. CASE HandleBegin(w, c)
  BY <1>3, <1>4 DEF HandleBegin, Command
<1>5. CASE HandleAppend(w, c)
  BY <1>3, <1>5 DEF HandleAppend, Command
<1>6. CASE HandleCommit(w, c)
  BY <1>3, <1>6 DEF HandleCommit, Command
<1>7. CASE HandleAbort(w, c)
  BY <1>3, <1>7 DEF HandleAbort, Command
<1> QED
  BY <1>1, <1>4, <1>5, <1>6, <1>7

LEMMA ExportStepImplements ==
  ASSUME ExportTyped, WireOK, [ExportNext]_exportVars
  PROVE  [Next]_vars
<1>1. ASSUME NEW w \in Windows, WindowStep(w)
      PROVE  [Next]_vars
  <2>1. CASE Handle(w)
    BY <2>1, HandleCommands DEF Next
  <2>2. CASE Destroy(w)
    BY <2>2 DEF Destroy, Next, Command
  <2>3. CASE \/ \E t \in Targets : Start(w, t)
             \/ \E s \in Snapshots : Capture(w, s)
             \/ CaptureFails(w) \/ Receive(w) \/ RenderFails(w) \/ Late(w)
             \/ \E b \in Bodies : Edit(w, b)
             \/ Reload(w)
    BY <2>3 DEF Start, Capture, CaptureFails, Receive, RenderFails, Late, Edit, Reload
  <2> QED
    BY <1>1, <2>1, <2>2, <2>3 DEF WindowStep
<1>2. CASE Exported \/ NotExported \/ Reaped \/ TimePasses
  BY <1>2 DEF Exported, NotExported, Reaped, TimePasses, Next
<1>3. CASE UNCHANGED exportVars
  BY <1>3 DEF exportVars
<1> QED
  BY <1>1, <1>2, <1>3 DEF ExportNext

-----------------------------------------------------------------------------
(* The wire                                                                *)

LEMMA CallSent ==
  ASSUME ExportTyped, NEW w \in Windows, NEW c \in Call, wire' = [wire EXCEPT ![w] = Append(@, c)]
  PROVE  /\ wire' \in [Windows -> Seq(Call)]
         /\ \A v \in Windows : \A i \in Requests(v) : i \in Requests(v)' /\ wire'[v][i] = wire[v][i]
         /\ \A v \in Windows : \A i \in Requests(v)' :
              i \in Requests(v) \/ (v = w /\ i = Len(wire[w]) + 1)
         /\ wire'[w][Len(wire[w]) + 1] = c /\ Len(wire[w]) \in Nat /\ Len(wire'[w]) = Len(wire[w]) + 1
         /\ \A v \in Windows : v # w => wire'[v] = wire[v]
<1>1. /\ wire \in [Windows -> Seq(Call)] /\ wire[w] \in Seq(Call)
      /\ wire'[w] = Append(wire[w], c) /\ \A v \in Windows : v # w => wire'[v] = wire[v]
  BY DEF ExportTyped
<1>2. wire'[w] \in Seq(Call) /\ Len(wire'[w]) = Len(wire[w]) + 1 /\ Len(wire[w]) \in Nat
      /\ wire'[w][Len(wire[w]) + 1] = c /\ \A i \in 1 .. Len(wire[w]) : wire'[w][i] = wire[w][i]
  BY <1>1
<1>3. wire' \in [Windows -> Seq(Call)]
  BY <1>1, <1>2
<1> QED
  BY <1>1, <1>2, <1>3 DEF Requests

LEMMA CallTaken ==
  ASSUME ExportTyped, NEW w \in Windows, wire[w] # <<>>, wire' = [wire EXCEPT ![w] = Tail(@)]
  PROVE  /\ wire' \in [Windows -> Seq(Call)]
         /\ \A i \in Requests(w)' : i + 1 \in Requests(w) /\ wire'[w][i] = wire[w][i + 1] /\ i + 1 # 1
         /\ Len(wire[w]) \in Nat /\ Len(wire'[w]) = Len(wire[w]) - 1
         /\ \A v \in Windows : v # w => wire'[v] = wire[v] /\ Requests(v)' = Requests(v)
<1>1. /\ wire \in [Windows -> Seq(Call)] /\ wire[w] \in Seq(Call)
      /\ wire'[w] = Tail(wire[w]) /\ \A v \in Windows : v # w => wire'[v] = wire[v]
  BY DEF ExportTyped
<1>2. wire'[w] \in Seq(Call) /\ Len(wire'[w]) = Len(wire[w]) - 1 /\ Len(wire[w]) \in Nat
      /\ \A i \in 1 .. Len(wire'[w]) : wire'[w][i] = wire[w][i + 1] /\ i + 1 \in 1 .. Len(wire[w]) /\ i + 1 # 1
  BY <1>1
<1>3. wire' \in [Windows -> Seq(Call)]
  BY <1>1, <1>2
<1> QED
  BY <1>1, <1>2, <1>3 DEF Requests

-----------------------------------------------------------------------------
(* Steps of a window that leave the jobs alone                             *)

LEMMA StopOK ==
  ASSUME EInv, UNCHANGED <<vars, windows, taken, written>>, overdue \subseteq overdue',
         content' \in [Windows -> Bodies],
         NEW w \in Windows, NEW p \in Pipe, pipe' = [pipe EXCEPT ![w] = p],
         p.at \in {"idle", "capture"}, PipeOK(p), p.snapshot \in {pipe[w].snapshot, NoSnapshot},
         p.told = "saved" => p.snapshot \in written,
         p.told = "failed" => NeverWritten(p.snapshot),
         \/ wire' = wire
         \/ \E c \in Call : /\ CallOK(c) /\ c.name = "abort" /\ c.snapshot = pipe[w].snapshot
                            /\ wire' = [wire EXCEPT ![w] = Append(@, c)]
  PROVE  EInv'
<1>1. /\ pipe \in [Windows -> Pipe] /\ pipe' \in [Windows -> Pipe] /\ pipe'[w] = p
      /\ \A v \in Windows : v # w => pipe'[v] = pipe[v]
  BY DEF EInv, ExportTyped
<1>2. /\ wire' \in [Windows -> Seq(Call)]
      /\ \A v \in Windows : \A i \in Requests(v) : i \in Requests(v)' /\ wire'[v][i] = wire[v][i]
      /\ \A v \in Windows : \A i \in Requests(v)' :
           \/ i \in Requests(v)
           \/ /\ v = w /\ wire'[v][i].name = "abort" /\ CallOK(wire'[v][i])
              /\ wire'[v][i].snapshot = pipe[w].snapshot
      /\ \A v \in Windows : v # w => wire'[v] = wire[v]
  <2>1. CASE wire' = wire
    BY <2>1 DEF EInv, ExportTyped, Requests
  <2>2. CASE wire' # wire
    <3>1. PICK c \in Call : /\ CallOK(c) /\ c.name = "abort" /\ c.snapshot = pipe[w].snapshot
                            /\ wire' = [wire EXCEPT ![w] = Append(@, c)]
      BY <2>2
    <3>2. ExportTyped
      BY DEF EInv
    <3>3. \A v \in Windows : \A i \in Requests(v)' : i \in Requests(v) \/ (v = w /\ wire'[v][i] = c)
      BY <3>1, <3>2, CallSent
    <3>4. /\ wire' \in [Windows -> Seq(Call)] /\ \A v \in Windows : v # w => wire'[v] = wire[v]
          /\ \A v \in Windows : \A i \in Requests(v) : i \in Requests(v)' /\ wire'[v][i] = wire[v][i]
      BY <3>1, <3>2, CallSent
    <3> QED
      BY <3>1, <3>3, <3>4
  <2> QED
    BY <2>1, <2>2
<1>3. UNCHANGED <<jobs, export, files, taken, written>>
  BY DEF vars
<1>4. ExportTyped'
  BY <1>1, <1>2, <1>3 DEF EInv, ExportTyped
<1>5. PipesOK'
  BY <1>1, <1>3 DEF EInv, PipesOK, PipeOK
<1>6. WireOK'
  BY <1>2, <1>3 DEF EInv, WireOK, CallOK
<1>7. InStep'
  <2> SUFFICES ASSUME NEW v \in Windows, pipe'[v].at \in Calls
               PROVE  WaitsInStep(v)'
    BY DEF InStep
  <2>1. v # w
    BY <1>1 DEF Calls
  <2> QED
    <3>1. pipe'[v] = pipe[v] /\ wire'[v] = wire[v] /\ taken' = taken /\ export' = export
      BY <2>1, <1>1, <1>2, <1>3
    <3>2. Begun(v)' = Begun(v) /\ Unhandled(v)' = Unhandled(v)
      BY <3>1 DEF Begun, Unhandled, Exporting
    <3> QED
      BY <3>1, <3>2 DEF EInv, InStep, WaitsInStep, CallOf
<1>8. OwnSnapshots'
  <2>1. \A v \in Windows : pipe[v].snapshot \in DOMAIN taken \cup {NoSnapshot} /\ NoSnapshot \notin DOMAIN taken
    BY DEF EInv, ExportTyped, PipesOK, PipeOK
  <2>2. \A v \in Windows : pipe'[v].snapshot \in {pipe[v].snapshot, NoSnapshot}
    BY <1>1
  <2>3. \A v \in Windows : \A i \in Requests(v)' : wire'[v][i].snapshot \in DOMAIN taken
    BY <1>3, <1>6 DEF WireOK, CallOK
  <2>4. \A v, u \in Windows : \A i \in Requests(v)' : wire'[v][i].snapshot = pipe'[u].snapshot => v = u
    BY <1>2, <2>1, <2>2, <2>3 DEF EInv, OwnSnapshots
  <2>5. \A v, u \in Windows : pipe'[v].snapshot = pipe'[u].snapshot /\ pipe'[v].snapshot # NoSnapshot => v = u
    BY <2>2 DEF EInv, OwnSnapshots
  <2>6. \A v \in Windows, e \in export : e.job.snapshot = pipe'[v].snapshot => e.job.owner = v
    <3>1. \A e \in export : e.job.snapshot \in DOMAIN taken
      BY DEF EInv, AllShow, Shows
    <3> QED
      BY <3>1, <2>1, <2>2 DEF EInv, OwnSnapshots
  <2> QED
    BY <1>3, <2>4, <2>5, <2>6 DEF OwnSnapshots
<1>9. CommittedOnce'
  <2>1. \A v \in Windows : \A i \in Requests(v)' : wire'[v][i].name = "commit" =>
          i \in Requests(v) /\ wire[v][i] = wire'[v][i]
    BY <1>2
  <2>2. (\A s : Exporting(s)' = Exporting(s)) /\ written' = written
    BY <1>3 DEF Exporting
  <2> QED
    BY <2>1, <2>2, <1>3 DEF EInv, CommittedOnce
<1>10. ToldOK'
  <2>1. ASSUME NEW s, NeverWritten(s) PROVE NeverWritten(s)'
    BY <1>2, <1>3, <2>1 DEF NeverWritten, Exporting
  <2> QED
    BY <1>1, <1>3, <2>1 DEF EInv, ToldOK
<1>11. JobsHeld'
  BY <1>1, <1>3 DEF EInv, JobsHeld, Held, Unhandled, Exporting, Active
<1>12. AllShow'
  BY <1>3 DEF EInv, AllShow, Shows, Active
<1> QED
  BY <1>4, <1>5, <1>6, <1>7, <1>8, <1>9, <1>10, <1>11, <1>12 DEF EInv

LEMMA CallOfTyped ==
  ASSUME NEW p \in Pipe, p.at \in Calls, p.target \in Targets, p.snapshot \in Snapshots, NEW b \in Bodies
  PROVE  CallOf(p, b) \in Call
<1>1. PagesOf[b] \in 1 .. MaxPages /\ PagesOf[b] \in 0 .. MaxPages
  OBVIOUS
<1> QED
  BY <1>1 DEF CallOf, Call, Pipe, Calls

\* A snapshot that is drawn now is nobody else's.
LEMMA CaptureOK ==
  ASSUME EInv, NEW w \in Windows, NEW s \in Snapshots, Capture(w, s), overdue \subseteq overdue'
  PROVE  EInv'
<1>a. PICK p : p = [pipe[w] EXCEPT !.at = "begin", !.snapshot = s, !.answer = "none"]
  OBVIOUS
<1>b. PICK c : c = CallOf(p, content[w])
  OBVIOUS
<1>1. /\ pipe \in [Windows -> Pipe] /\ content \in [Windows -> Bodies] /\ pipe[w] \in Pipe
      /\ PipeOK(pipe[w]) /\ pipe[w].at = "capture" /\ s \notin DOMAIN taken
      /\ UNCHANGED <<jobs, export, files, content, windows, written>>
  BY DEF EInv, ExportTyped, PipesOK, Capture, vars
<1>2. /\ p \in Pipe /\ p.at = "begin" /\ p.snapshot = s /\ p.answer = "none" /\ p.told = "nothing"
      /\ p.target \in Targets
  BY <1>1, <1>a DEF PipeOK, Pipe, Calls
<1>3. pipe' = [pipe EXCEPT ![w] = p] /\ wire' = [wire EXCEPT ![w] = Append(@, c)]
  <2>1. [[pipe[w] EXCEPT !.at = "begin", !.snapshot = s] EXCEPT !.answer = "none"] = p
    BY <1>1, <1>a DEF Pipe
  <2>2. CallOf([pipe[w] EXCEPT !.at = "begin", !.snapshot = s], content[w]) = c
    BY <1>1, <1>a, <1>b DEF CallOf, Pipe
  <2> QED
    BY <2>1, <2>2 DEF Capture, Send
<1>4. /\ c \in Call /\ c.name = "begin" /\ c.snapshot = s /\ c.body = content[w]
      /\ c.count = PagesOf[c.body]
  BY <1>1, <1>2, <1>b, CallOfTyped DEF CallOf, Calls
<1>5. /\ DOMAIN taken' = DOMAIN taken \cup {s} /\ taken'[s] = content[w]
      /\ \A k \in DOMAIN taken : taken'[k] = taken[k] /\ k # s
  BY <1>1 DEF Capture
<1>6. CallOf(p, taken'[s]) = c /\ p.next = pipe[w].next /\ p.job = pipe[w].job
  BY <1>1, <1>5, <1>a, <1>b DEF Pipe
<1>7. /\ pipe' \in [Windows -> Pipe] /\ pipe'[w] = p
      /\ \A v \in Windows : v # w => pipe'[v] = pipe[v]
  BY <1>1, <1>2, <1>3
<1>8. /\ wire' \in [Windows -> Seq(Call)]
      /\ \A v \in Windows : \A i \in Requests(v) : i \in Requests(v)' /\ wire'[v][i] = wire[v][i]
      /\ \A v \in Windows : \A i \in Requests(v)' :
           i \in Requests(v) \/ (v = w /\ i = Len(wire[w]) + 1 /\ wire'[v][i] = c)
      /\ \A v \in Windows : v # w => wire'[v] = wire[v]
      /\ wire'[w][Len(wire[w]) + 1] = c /\ Len(wire[w]) \in Nat /\ Len(wire'[w]) = Len(wire[w]) + 1
  BY <1>3, <1>4, CallSent DEF EInv
<1>9. /\ \A v \in Windows : pipe[v].snapshot # s
      /\ \A v \in Windows : \A i \in Requests(v) : wire[v][i].snapshot # s
      /\ \A e \in export : e.job.snapshot # s
      /\ s \notin written
  <2>1. NoSnapshot # s
    OBVIOUS
  <2> QED
    BY <2>1, <1>1 DEF EInv, ExportTyped, PipesOK, PipeOK, WireOK, CallOK, AllShow, Shows
<1>10. ExportTyped'
  BY <1>1, <1>5, <1>7, <1>8 DEF EInv, ExportTyped
<1>11. PipesOK'
  <2>1. ASSUME NEW v \in Windows, v # w PROVE PipeOK(pipe[v])'
    BY <2>1, <1>5, <1>7 DEF EInv, PipesOK, PipeOK, Calls
  <2>2. PipeOK(p)'
    BY <1>1, <1>2, <1>5, <1>6 DEF PipeOK, Calls
  <2>3. ASSUME NEW v \in Windows PROVE PipeOK(pipe[v])'
    BY <2>1, <2>2, <1>7
  <2> QED
    BY <2>3 DEF PipesOK
<1>12. WireOK'
  BY <1>4, <1>5, <1>8 DEF EInv, WireOK, CallOK
<1>13. InStep'
  <2>1. ASSUME NEW v \in Windows, v # w, pipe'[v].at \in Calls PROVE WaitsInStep(v)'
    <3>1. pipe'[v] = pipe[v] /\ wire'[v] = wire[v] /\ export' = export
      BY <2>1, <1>1, <1>7, <1>8
    <3>2. Begun(v)' = Begun(v) /\ Unhandled(v)' = Unhandled(v)
      BY <3>1 DEF Begun, Unhandled, Exporting
    <3>3. taken'[pipe[v].snapshot] = taken[pipe[v].snapshot]
      BY <2>1, <3>1, <1>5 DEF EInv, PipesOK, PipeOK
    <3> QED
      BY <2>1, <3>1, <3>2, <3>3 DEF EInv, InStep, WaitsInStep, CallOf
  <2>2. WaitsInStep(w)'
    <3>1. ~Begun(w)'
      BY <1>2, <1>7 DEF Begun
    <3>2. wire'[w] # <<>>
      BY <1>8
    <3>3. wire'[w][Len(wire'[w])] = CallOf(p, taken'[s])
      BY <1>6, <1>8
    <3>4. \A i \in 1 .. Len(wire'[w]) - 1 : wire'[w][i].snapshot # s
      <4>1. \A i \in 1 .. Len(wire'[w]) - 1 : i \in Requests(w)
        BY <1>8 DEF Requests
      <4> QED
        BY <4>1, <1>8, <1>9
    <3> QED
      BY <3>1, <3>2, <3>3, <3>4, <1>2, <1>7 DEF WaitsInStep
  <2> QED
    BY <2>1, <2>2 DEF InStep
<1>14. OwnSnapshots'
  <2>1. \A v, u \in Windows : \A i \in Requests(v)' : wire'[v][i].snapshot = pipe'[u].snapshot => v = u
    <3>1. ASSUME NEW v \in Windows, NEW u \in Windows, NEW i \in Requests(v)',
                 wire'[v][i].snapshot = pipe'[u].snapshot
          PROVE  v = u
      <4>1. CASE i \in Requests(v)
        <5>1. wire[v][i].snapshot = pipe'[u].snapshot /\ wire[v][i].snapshot # s
          BY <3>1, <4>1, <1>8, <1>9
        <5>2. wire[v][i].snapshot = pipe[u].snapshot
          BY <5>1, <1>2, <1>7
        <5> QED
          BY <4>1, <5>2 DEF EInv, OwnSnapshots
      <4>2. CASE v = w /\ wire'[v][i] = c
        BY <3>1, <4>2, <1>2, <1>4, <1>7, <1>9
      <4> QED
        BY <3>1, <4>1, <4>2, <1>8
    <3> QED
      BY <3>1
  <2>2. \A v, u \in Windows : pipe'[v].snapshot = pipe'[u].snapshot /\ pipe'[v].snapshot # NoSnapshot => v = u
    BY <1>2, <1>7, <1>9 DEF EInv, OwnSnapshots
  <2>3. \A v \in Windows, e \in export' : e.job.snapshot = pipe'[v].snapshot => e.job.owner = v
    BY <1>1, <1>2, <1>7, <1>9 DEF EInv, OwnSnapshots
  <2> QED
    BY <2>1, <2>2, <2>3 DEF OwnSnapshots
<1>15. \A v \in Windows : \A i \in Requests(v)' : wire'[v][i].name = "commit" =>
          i \in Requests(v) /\ wire[v][i] = wire'[v][i]
  BY <1>4, <1>8
<1>16. CommittedOnce'
  <2>1. (\A k : Exporting(k)' = Exporting(k)) /\ written' = written /\ export' = export
    BY <1>1 DEF Exporting
  <2> QED
    BY <1>15, <2>1 DEF EInv, CommittedOnce
<1>17. ToldOK'
  <2>1. ASSUME NEW k, NeverWritten(k) PROVE NeverWritten(k)'
    BY <1>1, <1>15, <2>1 DEF NeverWritten, Exporting
  <2>2. NeverWritten(s)
    BY <1>9 DEF NeverWritten, Exporting
  <2> QED
    BY <1>1, <1>2, <1>7, <2>1, <2>2 DEF EInv, ToldOK
<1>18. JobsHeld'
  BY <1>1, <1>2, <1>7 DEF EInv, JobsHeld, Held, Unhandled, Exporting, Active
<1>19. AllShow'
  BY <1>1, <1>5 DEF EInv, AllShow, Shows, Active
<1> QED
  BY <1>10, <1>11, <1>12, <1>13, <1>14, <1>16, <1>17, <1>18, <1>19 DEF EInv

\* The next call follows the answer to the one before, on an empty wire.
LEMMA NextCallOK ==
  ASSUME EInv, UNCHANGED <<vars, content, windows, taken, written>>, overdue \subseteq overdue',
         NEW w \in Windows, NEW p \in Pipe, pipe' = [pipe EXCEPT ![w] = p],
         wire' = [wire EXCEPT ![w] = Append(@, CallOf(p, taken[p.snapshot]))],
         pipe[w].at \in Calls, pipe[w].answer # "none", NeverWritten(pipe[w].snapshot),
         p.at \in {"append", "commit", "abort"}, p.answer = "none", PipeOK(p),
         p.snapshot = pipe[w].snapshot, p.job = pipe[w].job,
         p.at \in {"append", "commit"} => Held(w, p.next)
  PROVE  EInv'
<1> DEFINE c == CallOf(p, taken[p.snapshot])
           s == p.snapshot
<1>1. /\ pipe \in [Windows -> Pipe] /\ pipe' \in [Windows -> Pipe] /\ pipe'[w] = p
      /\ \A v \in Windows : v # w => pipe'[v] = pipe[v]
  BY DEF EInv, ExportTyped
<1>2. /\ s \in DOMAIN taken /\ s \in Snapshots /\ s # NoSnapshot /\ taken[s] \in Bodies
      /\ p.target \in Targets /\ p.at \in Calls /\ p.job \in JobIds
      /\ p.told = "nothing"
  BY DEF PipeOK, Calls, EInv, ExportTyped
<1>3. /\ c \in Call /\ c.name = p.at /\ c.snapshot = s /\ c.body = taken[s]
      /\ c.count = PagesOf[c.body] /\ c.job = p.job
  BY <1>2, CallOfTyped DEF CallOf
<1> HIDE DEF c, s
<1>4. wire[w] = <<>>
  BY DEF EInv, InStep, WaitsInStep, Begun, Unhandled
<1>5. UNCHANGED <<jobs, export, files, taken, written>>
  BY DEF vars
<1>6. wire' = [wire EXCEPT ![w] = Append(@, c)]
  BY DEF c
<1>7. /\ wire' \in [Windows -> Seq(Call)]
      /\ \A v \in Windows : \A i \in Requests(v) : i \in Requests(v)' /\ wire'[v][i] = wire[v][i]
      /\ \A v \in Windows : \A i \in Requests(v)' :
           (i \in Requests(v) /\ v # w) \/ (v = w /\ i = 1 /\ wire'[v][i] = c)
      /\ \A v \in Windows : v # w => wire'[v] = wire[v]
      /\ wire'[w] = <<c>>
  <2>1. /\ wire' \in [Windows -> Seq(Call)]
        /\ \A v \in Windows : \A i \in Requests(v) : i \in Requests(v)' /\ wire'[v][i] = wire[v][i]
        /\ \A v \in Windows : v # w => wire'[v] = wire[v]
        /\ \A v \in Windows : \A i \in Requests(v)' : i \in Requests(v) \/ (v = w /\ i = Len(wire[w]) + 1)
    BY <1>3, <1>6, CallSent DEF EInv
  <2>2. wire'[w] = <<c>> /\ wire'[w][1] = c /\ Len(wire[w]) + 1 = 1 /\ Requests(w) = {}
    BY <1>4, <1>6 DEF EInv, ExportTyped, Requests
  <2> QED
    BY <2>1, <2>2
<1>8. ExportTyped'
  BY <1>1, <1>5, <1>7 DEF EInv, ExportTyped
<1>9. PipesOK'
  BY <1>1, <1>5 DEF EInv, PipesOK, PipeOK
<1>10. WireOK'
  BY <1>2, <1>3, <1>5, <1>7 DEF EInv, WireOK, CallOK
<1>11. InStep'
  <2>1. ASSUME NEW v \in Windows, v # w, pipe'[v].at \in Calls PROVE WaitsInStep(v)'
    <3>1. pipe'[v] = pipe[v] /\ wire'[v] = wire[v] /\ export' = export /\ taken' = taken
      BY <2>1, <1>1, <1>5, <1>7
    <3>2. Begun(v)' = Begun(v) /\ Unhandled(v)' = Unhandled(v)
      BY <3>1 DEF Begun, Unhandled, Exporting
    <3> QED
      BY <2>1, <3>1, <3>2 DEF EInv, InStep, WaitsInStep, CallOf
  <2>2. WaitsInStep(w)'
    <3>1. Begun(w)'
      BY <1>1 DEF Begun
    <3>2. Unhandled(w)'
      BY <1>1, <1>5 DEF Unhandled, NeverWritten, Exporting
    <3> QED
      BY <3>1, <3>2, <1>1, <1>5, <1>7 DEF WaitsInStep, c
  <2> QED
    BY <2>1, <2>2 DEF InStep
<1>12. \A v \in Windows : pipe'[v].snapshot = pipe[v].snapshot
  BY <1>1
<1>13. OwnSnapshots'
  <2>1. \A v, u \in Windows : \A i \in Requests(v)' : wire'[v][i].snapshot = pipe'[u].snapshot => v = u
    BY <1>2, <1>3, <1>7, <1>12 DEF EInv, OwnSnapshots, s
  <2>2. \A v, u \in Windows : pipe'[v].snapshot = pipe'[u].snapshot /\ pipe'[v].snapshot # NoSnapshot => v = u
    BY <1>12 DEF EInv, OwnSnapshots
  <2>3. \A v \in Windows, e \in export' : e.job.snapshot = pipe'[v].snapshot => e.job.owner = v
    BY <1>5, <1>12 DEF EInv, OwnSnapshots
  <2> QED
    BY <2>1, <2>2, <2>3 DEF OwnSnapshots
<1>14. (\A k : Exporting(k)' = Exporting(k)) /\ written' = written /\ export' = export
  BY <1>5 DEF Exporting
<1>15. \A v \in Windows : \A i \in Requests(v)' : wire'[v][i].name = "commit" =>
          \/ v # w /\ i \in Requests(v) /\ wire[v][i] = wire'[v][i]
          \/ v = w /\ i = 1 /\ wire'[v][i].snapshot = s /\ p.at = "commit"
  BY <1>3, <1>7
<1>16. NeverWritten(s)
  BY DEF s
<1>17. CommittedOnce'
  <2>1. ASSUME NEW v \in Windows, NEW u \in Windows, NEW i \in Requests(v)', NEW k \in Requests(u)',
               wire'[v][i].name = "commit", wire'[u][k].name = "commit",
               wire'[v][i].snapshot = wire'[u][k].snapshot
        PROVE  v = u /\ i = k
    <3>1. CASE v # w /\ u # w
      BY <2>1, <3>1, <1>15 DEF EInv, CommittedOnce
    <3>2. CASE v = w /\ u # w
      <4>0. wire'[v][i].snapshot = s /\ wire[u][k] = wire'[u][k] /\ k \in Requests(u)
        BY <2>1, <3>2, <1>15
      <4>1. wire'[v][i].snapshot = s /\ wire[u][k].snapshot # s /\ wire[u][k] = wire'[u][k]
        BY <4>0, <2>1, <1>16 DEF NeverWritten
      <4> QED
        BY <2>1, <4>1
    <3>3. CASE v # w /\ u = w
      <4>0. wire'[u][k].snapshot = s /\ wire[v][i] = wire'[v][i] /\ i \in Requests(v)
        BY <2>1, <3>3, <1>15
      <4>1. wire'[u][k].snapshot = s /\ wire[v][i].snapshot # s /\ wire[v][i] = wire'[v][i]
        BY <4>0, <2>1, <1>16 DEF NeverWritten
      <4> QED
        BY <2>1, <4>1
    <3>4. CASE v = w /\ u = w
      BY <2>1, <3>4, <1>7
    <3> QED
      BY <3>1, <3>2, <3>3, <3>4
  <2>2. ASSUME NEW v \in Windows, NEW i \in Requests(v)', wire'[v][i].name = "commit"
        PROVE  wire'[v][i].snapshot \notin written /\ ~Exporting(wire'[v][i].snapshot)
    BY <2>2, <1>15, <1>16 DEF EInv, CommittedOnce, NeverWritten
  <2>3. \A e \in export : e.job.snapshot \notin written
    BY DEF EInv, CommittedOnce
  <2>4. \A v, u \in Windows : \A i \in Requests(v)', k \in Requests(u)' :
          wire'[v][i].name = "commit" /\ wire'[u][k].name = "commit" /\ wire'[v][i].snapshot = wire'[u][k].snapshot
            => v = u /\ i = k
    BY <2>1
  <2>5. \A v \in Windows : \A i \in Requests(v)' :
          wire'[v][i].name = "commit" => wire'[v][i].snapshot \notin written' /\ ~(Exporting(wire[v][i].snapshot)')
    BY <2>2, <1>5 DEF Exporting
  <2> QED
    BY <2>3, <2>4, <2>5, <1>14 DEF CommittedOnce
<1>18. ToldOK'
  <2>1. ASSUME NEW k, NeverWritten(k), k # s \/ p.at # "commit" PROVE NeverWritten(k)'
    BY <1>14, <1>15, <2>1 DEF NeverWritten
  <2>2. ASSUME NEW v \in Windows, v # w PROVE pipe[v].snapshot # s
    BY <2>2, <1>2 DEF EInv, OwnSnapshots, s
  <2> QED
    BY <1>1, <1>2, <1>5, <1>16, <2>1, <2>2 DEF EInv, ToldOK, s
<1>19. JobsHeld'
  BY <1>1, <1>5 DEF EInv, JobsHeld, Held, Unhandled, Exporting, Active
<1>20. AllShow'
  BY <1>5 DEF EInv, AllShow, Shows, Active
<1> QED
  BY <1>8, <1>9, <1>10, <1>11, <1>13, <1>17, <1>18, <1>19, <1>20 DEF EInv

LEMMA SamePipes ==
  ASSUME EInv, UNCHANGED <<vars, pipe, wire, windows, taken, written>>, overdue \subseteq overdue',
         content' \in [Windows -> Bodies]
  PROVE  EInv'
<1>1. UNCHANGED <<jobs, export, files, pipe, wire, windows, taken, written>>
  BY DEF vars
<1>2. ExportTyped' /\ PipesOK' /\ WireOK'
  BY <1>1 DEF EInv, ExportTyped, PipesOK, PipeOK, WireOK, CallOK, Requests
<1>3. InStep' /\ OwnSnapshots'
  BY <1>1 DEF EInv, InStep, WaitsInStep, Begun, Unhandled, Exporting, CallOf, OwnSnapshots, Requests
<1>4. CommittedOnce' /\ ToldOK'
  BY <1>1 DEF EInv, CommittedOnce, ToldOK, NeverWritten, Exporting, Requests
<1>5. JobsHeld' /\ AllShow'
  BY <1>1 DEF EInv, JobsHeld, Held, Unhandled, Exporting, Active, AllShow, Shows
<1> QED
  BY <1>2, <1>3, <1>4, <1>5 DEF EInv

LEMMA NeverNoSnapshot ==
  ASSUME EInv
  PROVE  NeverWritten(NoSnapshot)
<1>1. NoSnapshot \notin DOMAIN taken
  BY DEF EInv, ExportTyped
<1> QED
  BY <1>1 DEF EInv, ExportTyped, WireOK, CallOK, AllShow, Shows, NeverWritten, Exporting

LEMMA IdlePipe == Idle \in Pipe /\ PipeOK(Idle) /\ Idle.at = "idle" /\ Idle.answer = "none"
                  /\ Idle.snapshot = NoSnapshot /\ Idle.told = "nothing"
<1>1. 0 \in 0 .. MaxPages /\ 0 \in 0 .. Deadline
  OBVIOUS
<1> QED
  BY <1>1 DEF Idle, Pipe, PipeOK, Calls

\* A pipeline that ends and says how
Ended(s, t) == [Idle EXCEPT !.snapshot = s, !.told = t]

LEMMA EndedPipe ==
  ASSUME EInv, NEW w \in Windows, NEW t \in {"saved", "failed", "late"}
  PROVE  LET p == Ended(pipe[w].snapshot, t)
         IN  /\ p \in Pipe /\ PipeOK(p) /\ p.at = "idle" /\ p.answer = "none"
             /\ p.snapshot = pipe[w].snapshot /\ p.told = t
<1>1. pipe[w] \in Pipe /\ pipe[w].snapshot \in DOMAIN taken \cup {NoSnapshot}
  BY DEF EInv, ExportTyped, PipesOK, PipeOK
<1>2. 0 \in 0 .. MaxPages /\ 0 \in 0 .. Deadline
  OBVIOUS
<1> QED
  BY <1>1, <1>2 DEF Ended, Idle, Pipe, PipeOK, Calls

LEMMA EndOK ==
  ASSUME EInv, UNCHANGED <<vars, content, windows, taken, written>>, overdue \subseteq overdue',
         NEW w \in Windows, NEW t \in {"saved", "failed", "late"}, End(w, t),
         t = "saved" => pipe[w].snapshot \in written,
         t = "failed" => NeverWritten(pipe[w].snapshot)
  PROVE  EInv'
<1>1. PICK p : p = Ended(pipe[w].snapshot, t)
  OBVIOUS
<1>2. /\ p \in Pipe /\ PipeOK(p) /\ p.at = "idle" /\ p.answer = "none"
      /\ p.snapshot = pipe[w].snapshot /\ p.told = t
  BY <1>1, EndedPipe
<1>3. pipe' = [pipe EXCEPT ![w] = p] /\ wire' = wire /\ content' \in [Windows -> Bodies]
  BY <1>1 DEF End, Ended, EInv, ExportTyped
<1>4. (p.told = "saved" => p.snapshot \in written) /\ (p.told = "failed" => NeverWritten(p.snapshot))
  BY <1>2
<1> QED
  BY <1>2, <1>3, <1>4, StopOK

LEMMA StartOK ==
  ASSUME EInv, NEW w \in Windows, NEW t \in Targets, Start(w, t), overdue \subseteq overdue'
  PROVE  EInv'
<1>1. PICK p : p = [Idle EXCEPT !.at = "capture", !.target = t, !.left = Deadline]
  OBVIOUS
<1>2. 0 \in 0 .. MaxPages /\ Deadline \in 0 .. Deadline
  OBVIOUS
<1>3. /\ p \in Pipe /\ PipeOK(p) /\ p.at = "capture" /\ p.answer = "none"
      /\ p.snapshot = NoSnapshot /\ p.told = "nothing"
  BY <1>1, <1>2 DEF Idle, Pipe, PipeOK, Calls
<1>4. pipe' = [pipe EXCEPT ![w] = p] /\ wire' = wire /\ content' \in [Windows -> Bodies]
      /\ UNCHANGED <<vars, windows, taken, written>>
  BY <1>1 DEF Start, EInv, ExportTyped
<1> QED
  BY <1>3, <1>4, StopOK

LEMMA ReloadOK ==
  ASSUME EInv, NEW w \in Windows, Reload(w), overdue \subseteq overdue'
  PROVE  EInv'
<1>1. pipe' = [pipe EXCEPT ![w] = Idle] /\ wire' = wire /\ content' \in [Windows -> Bodies]
      /\ UNCHANGED <<vars, windows, taken, written>>
  BY DEF Reload, EInv, ExportTyped
<1>2. PICK p : p = Idle
  OBVIOUS
<1>3. /\ p \in Pipe /\ PipeOK(p) /\ p.at = "idle" /\ p.answer = "none"
      /\ p.snapshot = NoSnapshot /\ p.told = "nothing" /\ pipe' = [pipe EXCEPT ![w] = p]
  BY <1>1, <1>2, IdlePipe
<1> QED
  BY <1>1, <1>3, StopOK

\* A pipeline that is late ends; the abort it sends is the last call of its job.
LEMMA LateOK ==
  ASSUME EInv, NEW w \in Windows, Late(w), overdue \subseteq overdue'
  PROVE  EInv'
<1>1. PICK t : t = IF pipe[w].at = "abort" THEN "failed" ELSE "late"
  OBVIOUS
<1>2. t \in {"saved", "failed", "late"}
  BY <1>1
<1>3. PICK p : p = Ended(pipe[w].snapshot, t)
  OBVIOUS
<1>4. /\ p \in Pipe /\ PipeOK(p) /\ p.at = "idle" /\ p.answer = "none"
      /\ p.snapshot = pipe[w].snapshot /\ p.told = t
  BY <1>2, <1>3, EndedPipe
<1>5. /\ pipe' = [pipe EXCEPT ![w] = p] /\ content' \in [Windows -> Bodies]
      /\ UNCHANGED <<vars, windows, taken, written>>
  BY <1>1, <1>3 DEF Late, Ended, EInv, ExportTyped
<1>6. p.told # "saved" /\ (p.told = "failed" => NeverWritten(p.snapshot))
  BY <1>1, <1>4 DEF EInv, ToldOK
<1>7. \/ wire' = wire
      \/ \E c \in Call : /\ CallOK(c) /\ c.name = "abort" /\ c.snapshot = pipe[w].snapshot
                         /\ wire' = [wire EXCEPT ![w] = Append(@, c)]
  <2>1. CASE pipe[w].at \in {"append", "commit"}
    <3>1. PICK q : q = [pipe[w] EXCEPT !.at = "abort"]
      OBVIOUS
    <3>2. /\ pipe[w] \in Pipe /\ pipe[w].snapshot \in DOMAIN taken /\ pipe[w].job \in JobIds
          /\ pipe[w].target \in Targets /\ DOMAIN taken \subseteq Snapshots
          /\ taken[pipe[w].snapshot] \in Bodies
      BY <2>1 DEF EInv, ExportTyped, PipesOK, PipeOK, Calls
    <3>3. q \in Pipe /\ q.at = "abort" /\ q.snapshot = pipe[w].snapshot /\ q.job = pipe[w].job
          /\ q.target = pipe[w].target
      BY <3>1, <3>2 DEF Pipe, Calls
    <3>4. PICK c : c = CallOf(q, taken[pipe[w].snapshot])
      OBVIOUS
    <3>5. c \in Call
      BY <3>2, <3>3, <3>4, CallOfTyped DEF Calls
    <3>6. CallOK(c) /\ c.name = "abort" /\ c.snapshot = pipe[w].snapshot
      BY <3>2, <3>3, <3>4 DEF CallOf, CallOK
    <3>7. wire' = [wire EXCEPT ![w] = Append(@, c)]
      BY <2>1, <3>1, <3>4 DEF Late
    <3> QED
      BY <3>5, <3>6, <3>7
  <2> QED
    BY <2>1 DEF Late
<1> QED
  BY <1>4, <1>5, <1>6, <1>7, StopOK

-----------------------------------------------------------------------------
(* Answers that a window receives                                          *)

LEMMA SendOK ==
  ASSUME EInv, UNCHANGED <<vars, content, windows, taken, written>>, overdue \subseteq overdue',
         NEW w \in Windows, pipe[w].at \in Calls, pipe[w].answer # "none",
         NeverWritten(pipe[w].snapshot),
         NEW a \in {"append", "commit", "abort"}, NEW n \in 0 .. MaxPages,
         NEW q, q = [pipe[w] EXCEPT !.at = a, !.next = n], Send(w, q, taken[q.snapshot]),
         pipe[w].job \in JobIds,
         a = "append" => n < PagesOf[taken[pipe[w].snapshot]],
         a \in {"append", "commit"} => Held(w, n)
  PROVE  EInv'
<1>1. PICK p : p = [q EXCEPT !.answer = "none"]
  OBVIOUS
<1>2. pipe[w] \in Pipe /\ PipeOK(pipe[w])
  BY DEF EInv, ExportTyped, PipesOK
<1>3. /\ p \in Pipe /\ p.at = a /\ p.answer = "none" /\ p.snapshot = pipe[w].snapshot
      /\ p.job = pipe[w].job /\ p.next = n /\ p.target = pipe[w].target /\ p.told = pipe[w].told
      /\ q.snapshot = p.snapshot /\ q.at = a /\ q.job = p.job /\ q.next = n /\ q.target = p.target
  BY <1>1, <1>2 DEF Pipe, Calls
<1>4. PipeOK(p)
  BY <1>2, <1>3 DEF PipeOK, Calls
<1>5. CallOf(q, taken[q.snapshot]) = CallOf(p, taken[p.snapshot])
  BY <1>3 DEF CallOf
<1>6. pipe' = [pipe EXCEPT ![w] = p] /\ wire' = [wire EXCEPT ![w] = Append(@, CallOf(p, taken[p.snapshot]))]
  BY <1>1, <1>5 DEF Send
<1> QED
  BY <1>3, <1>4, <1>6, NextCallOK

LEMMA ReceiveOK ==
  ASSUME EInv, NEW w \in Windows, Receive(w), overdue \subseteq overdue'
  PROVE  EInv'
<1> DEFINE p == pipe[w]
<1>1. /\ p \in Pipe /\ PipeOK(p) /\ p.answer \in {"ok", "failed"}
      /\ UNCHANGED <<vars, content, windows, taken, written>>
  <2>1. p \in Pipe /\ PipeOK(p)
    BY DEF EInv, ExportTyped, PipesOK
  <2>2. p.answer \in {"none", "ok", "failed"}
    BY <2>1 DEF Pipe
  <2> QED
    BY <2>1, <2>2 DEF Receive
<1>2. p.at \in Calls
  BY <1>1 DEF PipeOK, Pipe
<1>3. /\ p.at \in {"begin", "append", "abort"} \/ (p.at = "commit" /\ p.answer = "failed") => NeverWritten(p.snapshot)
      /\ p.at = "commit" /\ p.answer = "ok" => p.snapshot \in written
  BY DEF EInv, ToldOK
<1>4. ASSUME p.at \in {"begin", "append"}, p.answer = "ok",
             NEW n \in 0 .. MaxPages, n = IF p.at = "append" THEN p.next + 1 ELSE p.next,
             NEW q, q = [p EXCEPT !.next = n], Advance(w, q)
      PROVE  EInv'
  <2>1. PICK a : a = IF n < PagesOf[taken[p.snapshot]] THEN "append" ELSE "commit"
    OBVIOUS
  <2>2. PICK r : r = [p EXCEPT !.at = a, !.next = n]
    OBVIOUS
  <2>3. /\ q.snapshot = p.snapshot /\ q.next = n /\ r.snapshot = p.snapshot
        /\ [q EXCEPT !.at = a] = r
    BY <1>1, <1>4, <2>2 DEF Pipe
  <2>4. Send(w, r, taken[r.snapshot])
    BY <1>4, <2>1, <2>3 DEF Advance
  <2>5. Held(w, n) /\ p.job \in JobIds
    BY <1>1, <1>4 DEF EInv, JobsHeld, PipeOK
  <2> QED
    BY <1>1, <1>2, <1>3, <1>4, <2>1, <2>2, <2>4, <2>5, SendOK
<1>5. CASE p.at = "begin" /\ p.answer = "ok"
  <2>1. PICK q : q = [p EXCEPT !.next = p.next]
    OBVIOUS
  <2>2. q = p /\ p.next \in 0 .. MaxPages
    BY <1>1, <2>1 DEF Pipe
  <2>3. Advance(w, q)
    BY <1>5, <2>2 DEF Receive
  <2> QED
    BY <1>4, <1>5, <2>1, <2>2, <2>3
<1>6. CASE p.at = "append" /\ p.answer = "ok"
  <2>1. PICK q : q = [p EXCEPT !.next = p.next + 1]
    OBVIOUS
  <2>2. p.next + 1 \in 0 .. MaxPages
    <3>1. taken[p.snapshot] \in Bodies /\ p.next < PagesOf[taken[p.snapshot]] /\ p.next \in 0 .. MaxPages
      BY <1>1, <1>6 DEF PipeOK, Pipe, Calls, EInv, ExportTyped
    <3>2. PagesOf[taken[p.snapshot]] \in 1 .. MaxPages
      BY <3>1
    <3> QED
      BY <3>1, <3>2
  <2>3. Advance(w, q)
    BY <1>6, <2>1 DEF Receive
  <2> QED
    BY <1>4, <1>6, <2>1, <2>2, <2>3
<1>7. CASE p.at = "commit" /\ p.answer = "ok"
  <2>1. End(w, "saved")
    BY <1>7 DEF Receive
  <2> QED
    BY <1>1, <1>3, <1>7, <2>1, EndOK
<1>8. CASE p.at \in {"append", "commit"} /\ p.answer = "failed"
  <2>1. PICK q : q = [p EXCEPT !.at = "abort", !.next = p.next]
    OBVIOUS
  <2>2. q = [p EXCEPT !.at = "abort"] /\ p.next \in 0 .. MaxPages /\ q.snapshot = p.snapshot
    BY <1>1, <2>1 DEF Pipe
  <2>3. Send(w, q, taken[q.snapshot])
    BY <1>8, <2>2 DEF Receive
  <2>4. p.job \in JobIds
    BY <1>1, <1>8 DEF PipeOK
  <2> QED
    BY <1>1, <1>2, <1>3, <1>8, <2>1, <2>2, <2>3, <2>4, SendOK
<1>9. CASE p.at = "abort" \/ (p.at = "begin" /\ p.answer = "failed")
  <2>1. End(w, "failed")
    BY <1>1, <1>9 DEF Receive
  <2> QED
    BY <1>1, <1>3, <1>9, <2>1, EndOK
<1> QED
  BY <1>1, <1>2, <1>5, <1>6, <1>7, <1>8, <1>9 DEF Calls

LEMMA RenderFailsOK ==
  ASSUME EInv, NEW w \in Windows, RenderFails(w), overdue \subseteq overdue'
  PROVE  EInv'
<1> DEFINE p == pipe[w]
<1>1. /\ p \in Pipe /\ PipeOK(p) /\ p.at \in {"begin", "append"} /\ p.at \in Calls /\ p.answer = "ok"
      /\ UNCHANGED <<vars, content, windows, taken, written>> /\ NeverWritten(p.snapshot)
  BY DEF EInv, ExportTyped, PipesOK, RenderFails, ToldOK, Calls
<1>2. PICK q : q = [p EXCEPT !.at = "abort", !.next = p.next]
  OBVIOUS
<1>3. q = [p EXCEPT !.at = "abort"] /\ p.next \in 0 .. MaxPages /\ q.snapshot = p.snapshot
  BY <1>1, <1>2 DEF Pipe
<1>4. Send(w, q, taken[q.snapshot])
  BY <1>3 DEF RenderFails
<1>5. p.job \in JobIds
  BY <1>1 DEF PipeOK
<1> QED
  BY <1>1, <1>2, <1>3, <1>4, <1>5, SendOK

LEMMA CaptureFailsOK ==
  ASSUME EInv, NEW w \in Windows, CaptureFails(w), overdue \subseteq overdue'
  PROVE  EInv'
<1>1. pipe[w].snapshot = NoSnapshot /\ End(w, "failed")
      /\ UNCHANGED <<vars, content, windows, taken, written>>
  BY DEF EInv, PipesOK, PipeOK, CaptureFails
<1> QED
  BY <1>1, NeverNoSnapshot, EndOK

-----------------------------------------------------------------------------
(* Calls that the backend handles                                          *)

Matches(w, c) == pipe[w].at = c.name /\ pipe[w].snapshot = c.snapshot

LEMMA OneOrMore == \A n \in Nat : n >= 1 => n = 1 \/ n > 1
  OBVIOUS

\* A call that a pipeline waits for is the last one on its wire.
LEMMA HeadOfWire ==
  ASSUME EInv, export = {}, NEW w \in Windows, wire[w] # <<>>, NEW c, c = Head(wire[w])
  PROVE  /\ c \in Call /\ CallOK(c) /\ c = wire[w][1] /\ 1 \in Requests(w)
         /\ Matches(w, c) => /\ pipe[w].answer = "none" /\ c = CallOf(pipe[w], taken[pipe[w].snapshot])
                             /\ Len(wire[w]) = 1 /\ pipe[w].at \in Calls
         /\ ~Matches(w, c) /\ pipe[w].at \in Calls =>
              pipe[w].at = "begin" /\ pipe[w].answer = "none" /\ Len(wire[w]) > 1
<1>1. wire[w] \in Seq(Call) /\ pipe[w] \in Pipe
  BY DEF EInv, ExportTyped
<1>2. /\ c \in Call /\ CallOK(c) /\ c = wire[w][1] /\ 1 \in Requests(w) /\ Len(wire[w]) \in Nat
      /\ Len(wire[w]) >= 1
  BY HeadCall DEF EInv, Requests
<1>3. pipe[w].at \in Calls => WaitsInStep(w)
  BY DEF EInv, InStep
<1>4. Unhandled(w) = (pipe[w].answer = "none")
  BY DEF Unhandled, Exporting
<1>5. CASE Begun(w) /\ pipe[w].at \in Calls
  <2>1. wire[w] = <<CallOf(pipe[w], taken[pipe[w].snapshot])>> /\ pipe[w].answer = "none"
    BY <1>3, <1>4, <1>5 DEF WaitsInStep
  <2>2. c = CallOf(pipe[w], taken[pipe[w].snapshot]) /\ Len(wire[w]) = 1
    BY <1>2, <2>1
  <2>3. Matches(w, c)
    BY <2>2 DEF Matches, CallOf
  <2> QED
    BY <1>2, <1>5, <2>1, <2>2, <2>3
<1>6. CASE ~Begun(w) /\ pipe[w].at \in Calls
  <2>1. /\ wire[w][Len(wire[w])] = CallOf(pipe[w], taken[pipe[w].snapshot])
        /\ \A i \in 1 .. Len(wire[w]) - 1 : wire[w][i].snapshot # pipe[w].snapshot
    BY <1>3, <1>6 DEF WaitsInStep
  <2>2. pipe[w].at = "begin" /\ pipe[w].answer = "none"
    BY <1>6 DEF Begun, Calls
  <2>3. CASE Len(wire[w]) = 1
    <3>1. c = CallOf(pipe[w], taken[pipe[w].snapshot])
      BY <1>2, <2>1, <2>3
    <3>2. Matches(w, c)
      BY <3>1 DEF Matches, CallOf
    <3> QED
      BY <1>2, <1>6, <2>2, <2>3, <3>1, <3>2
  <2>4. CASE Len(wire[w]) > 1
    <3>1. 1 \in 1 .. Len(wire[w]) - 1
      BY <1>2, <2>4
    <3>2. ~Matches(w, c)
      BY <1>2, <2>1, <3>1 DEF Matches
    <3> QED
      BY <1>2, <2>2, <2>4, <3>2
  <2>5. Len(wire[w]) \in Nat /\ Len(wire[w]) >= 1
    BY <1>2
  <2>6. Len(wire[w]) = 1 \/ Len(wire[w]) > 1
    BY <2>5, OneOrMore
  <2> QED
    BY <2>3, <2>4, <2>6
<1>7. CASE pipe[w].at \notin Calls
  BY <1>2, <1>7 DEF Matches, Call
<1> QED
  BY <1>5, <1>6, <1>7

\* What a handled call does to the pipelines.  A commit is answered here when it fails.
LEMMA AnsweredOK ==
  ASSUME EInv, export = {}, export' = {}, UNCHANGED <<content, windows, taken, written>>,
         NEW w \in Windows, wire[w] # <<>>, NEW c, c = Head(wire[w]),
         wire' = [wire EXCEPT ![w] = Tail(@)],
         NEW a \in {"ok", "failed"}, NEW id \in JobIds \cup {NoJob}, Answer(w, c, a, id),
         c.name = "begin" /\ a = "ok" => id \in JobIds, c.name # "begin" => id \in JobIds,
         c.name = "commit" => a = "failed"
  PROVE  ExportTyped' /\ PipesOK' /\ WireOK' /\ InStep' /\ OwnSnapshots' /\ CommittedOnce' /\ ToldOK'
<1>1. /\ c \in Call /\ CallOK(c) /\ c = wire[w][1] /\ 1 \in Requests(w)
      /\ Matches(w, c) => /\ pipe[w].answer = "none" /\ c = CallOf(pipe[w], taken[pipe[w].snapshot])
                          /\ Len(wire[w]) = 1 /\ pipe[w].at \in Calls
      /\ ~Matches(w, c) /\ pipe[w].at \in Calls =>
           pipe[w].at = "begin" /\ pipe[w].answer = "none" /\ Len(wire[w]) > 1
  BY HeadOfWire
<1>2. PICK p : p = IF Matches(w, c) THEN [pipe[w] EXCEPT !.answer = a, !.job = id] ELSE pipe[w]
  OBVIOUS
<1>3. pipe \in [Windows -> Pipe] /\ pipe[w] \in Pipe
  BY DEF EInv, ExportTyped
<1>4. pipe' = [pipe EXCEPT ![w] = p]
  BY <1>2, <1>3 DEF Answer, Matches
<1>5. /\ p \in Pipe /\ p.at = pipe[w].at /\ p.snapshot = pipe[w].snapshot /\ p.told = pipe[w].told
      /\ p.next = pipe[w].next /\ p.target = pipe[w].target
      /\ p.answer = (IF Matches(w, c) THEN a ELSE pipe[w].answer)
      /\ p.job = (IF Matches(w, c) THEN id ELSE pipe[w].job)
  BY <1>2, <1>3 DEF Pipe
<1>6. /\ pipe' \in [Windows -> Pipe] /\ pipe'[w] = p /\ \A v \in Windows : v # w => pipe'[v] = pipe[v]
  BY <1>3, <1>4, <1>5
<1>7. /\ wire' \in [Windows -> Seq(Call)]
      /\ \A i \in Requests(w)' : i + 1 \in Requests(w) /\ wire'[w][i] = wire[w][i + 1] /\ i + 1 # 1
      /\ Len(wire[w]) \in Nat /\ Len(wire'[w]) = Len(wire[w]) - 1
      /\ \A v \in Windows : v # w => wire'[v] = wire[v] /\ Requests(v)' = Requests(v)
  BY CallTaken DEF EInv
<1>8. ASSUME NEW v \in Windows, NEW i \in Requests(v)'
      PROVE  \E k \in Requests(v) : wire'[v][i] = wire[v][k] /\ k = (IF v = w THEN i + 1 ELSE i) /\ i \in Nat
  BY <1>7, <1>8 DEF Requests
<1>9. ExportTyped'
  BY <1>6, <1>7 DEF EInv, ExportTyped
<1>10. PipesOK'
  <2>1. ASSUME NEW v \in Windows, v # w PROVE PipeOK(pipe[v])'
    BY <2>1, <1>6 DEF EInv, PipesOK, PipeOK
  <2>2. PipeOK(pipe[w])
    BY DEF EInv, PipesOK
  <2>3. PipeOK(p)'
    BY <1>1, <1>5, <2>2 DEF PipeOK, Calls, Matches
  <2> QED
    BY <1>6, <2>1, <2>3 DEF PipesOK
<1>11. WireOK'
  <2>1. ASSUME NEW v \in Windows, NEW i \in Requests(v)' PROVE CallOK(wire[v][i])'
    <3>1. PICK k \in Requests(v) : wire'[v][i] = wire[v][k]
      BY <1>8
    <3>2. CallOK(wire[v][k])
      BY DEF EInv, WireOK
    <3> QED
      BY <3>1, <3>2 DEF CallOK
  <2> QED
    BY <2>1 DEF WireOK
<1>12. \A v \in Windows : pipe'[v].at = pipe[v].at /\ pipe'[v].snapshot = pipe[v].snapshot /\ pipe'[v].told = pipe[v].told
  BY <1>5, <1>6
<1>13. InStep'
  <2>1. ASSUME NEW v \in Windows, v # w, pipe'[v].at \in Calls PROVE WaitsInStep(v)'
    <3>1. pipe'[v] = pipe[v] /\ wire'[v] = wire[v] /\ export' = export /\ taken' = taken
      BY <2>1, <1>6, <1>7
    <3>2. Begun(v)' = Begun(v) /\ Unhandled(v)' = Unhandled(v)
      BY <3>1 DEF Begun, Unhandled, Exporting
    <3> QED
      BY <2>1, <3>1, <3>2 DEF EInv, InStep, WaitsInStep, CallOf
  <2>2. ASSUME Matches(w, c) PROVE WaitsInStep(w)'
    <3>1. pipe'[w].answer # "none"
      BY <1>5, <1>6, <2>2
    <3>2. Begun(w)' /\ ~Unhandled(w)'
      BY <3>1 DEF Begun, Unhandled
    <3>3. wire'[w] = <<>>
      BY <1>1, <1>7, <2>2
    <3> QED
      BY <3>2, <3>3 DEF WaitsInStep
  <2>3. ASSUME ~Matches(w, c), pipe'[w].at \in Calls PROVE WaitsInStep(w)'
    <3>1. /\ pipe[w].at = "begin" /\ pipe[w].answer = "none" /\ Len(wire[w]) > 1 /\ p = pipe[w]
          /\ WaitsInStep(w)
      BY <1>1, <1>2, <1>12, <2>3 DEF EInv, InStep
    <3>2. ~Begun(w) /\ ~Begun(w)'
      BY <1>6, <3>1 DEF Begun
    <3>3. /\ wire[w][Len(wire[w])] = CallOf(pipe[w], taken[pipe[w].snapshot])
          /\ \A i \in 1 .. Len(wire[w]) - 1 : wire[w][i].snapshot # pipe[w].snapshot
      BY <3>1, <3>2 DEF WaitsInStep
    <3>4. Len(wire'[w]) \in Nat /\ Len(wire'[w]) >= 1 /\ Len(wire'[w]) = Len(wire[w]) - 1
      BY <1>7, <3>1
    <3>5. wire'[w] # <<>>
      <4>1. wire'[w] \in Seq(Call) /\ Len(wire'[w]) # 0
        BY <3>4, <1>7
      <4> QED
        BY <4>1
    <3>6. wire'[w][Len(wire'[w])] = wire[w][Len(wire[w])]
      <4>1. Len(wire'[w]) \in Requests(w)' /\ Len(wire'[w]) + 1 = Len(wire[w])
        BY <3>4, <1>7 DEF Requests
      <4> QED
        BY <4>1, <1>7
    <3>7. \A i \in 1 .. Len(wire'[w]) - 1 : wire'[w][i].snapshot # pipe[w].snapshot
      <4>1. \A i \in 1 .. Len(wire'[w]) - 1 : i \in Requests(w)' /\ i + 1 \in 1 .. Len(wire[w]) - 1
        BY <3>4, <1>7 DEF Requests
      <4> QED
        BY <4>1, <1>7, <3>3
    <3> QED
      BY <3>1, <3>2, <3>3, <3>5, <3>6, <3>7, <1>6 DEF WaitsInStep
  <2> QED
    BY <2>1, <2>2, <2>3 DEF InStep
<1>14. OwnSnapshots'
  <2>1. \A v, u \in Windows : \A i \in Requests(v)' : wire'[v][i].snapshot = pipe'[u].snapshot => v = u
    <3>1. ASSUME NEW v \in Windows, NEW u \in Windows, NEW i \in Requests(v)',
                 wire'[v][i].snapshot = pipe'[u].snapshot
          PROVE  v = u
      <4>1. PICK k \in Requests(v) : wire'[v][i] = wire[v][k]
        BY <1>8
      <4> QED
        BY <3>1, <4>1, <1>12 DEF EInv, OwnSnapshots
    <3> QED
      BY <3>1
  <2>2. \A v, u \in Windows : pipe'[v].snapshot = pipe'[u].snapshot /\ pipe'[v].snapshot # NoSnapshot => v = u
    BY <1>12 DEF EInv, OwnSnapshots
  <2> QED
    BY <2>1, <2>2 DEF OwnSnapshots
<1>15. ASSUME NEW v \in Windows, NEW u \in Windows, NEW i \in Requests(v)', NEW k \in Requests(u)',
              wire'[v][i].name = "commit", wire'[u][k].name = "commit",
              wire'[v][i].snapshot = wire'[u][k].snapshot
       PROVE  v = u /\ i = k
  <2>1. PICK m \in Requests(v) : wire'[v][i] = wire[v][m] /\ m = (IF v = w THEN i + 1 ELSE i) /\ i \in Nat
    BY <1>8
  <2>2. PICK n \in Requests(u) : wire'[u][k] = wire[u][n] /\ n = (IF u = w THEN k + 1 ELSE k) /\ k \in Nat
    BY <1>8
  <2>3. v = u /\ m = n
    <3>1. /\ wire[v][m].name = "commit" /\ wire[u][n].name = "commit"
          /\ wire[v][m].snapshot = wire[u][n].snapshot
      BY <1>15, <2>1, <2>2
    <3> QED
      BY <3>1 DEF EInv, CommittedOnce
  <2> QED
    BY <2>1, <2>2, <2>3
<1>16. CommittedOnce'
  <2>1. \A v, u \in Windows : \A i \in Requests(v)', k \in Requests(u)' :
          wire'[v][i].name = "commit" /\ wire'[u][k].name = "commit" /\ wire'[v][i].snapshot = wire'[u][k].snapshot
            => v = u /\ i = k
    BY <1>15
  <2>2. \A v \in Windows : \A i \in Requests(v)' :
          wire'[v][i].name = "commit" => wire'[v][i].snapshot \notin written'
    <3>1. ASSUME NEW v \in Windows, NEW i \in Requests(v)', wire'[v][i].name = "commit"
          PROVE  wire'[v][i].snapshot \notin written'
      <4>1. PICK k \in Requests(v) : wire'[v][i] = wire[v][k]
        BY <1>8
      <4>2. wire[v][k].name = "commit"
        BY <3>1, <4>1
      <4>3. wire[v][k].snapshot \notin written
        BY <4>2 DEF EInv, CommittedOnce
      <4>4. written' = written
        OBVIOUS
      <4> QED
        BY <4>1, <4>3, <4>4, Zenon
    <3> QED
      BY <3>1
  <2> QED
    BY <2>1, <2>2 DEF CommittedOnce, Exporting
<1>17. ToldOK'
  <2>1. ASSUME NEW k, NeverWritten(k) PROVE NeverWritten(k)'
    <3>1. ASSUME NEW v \in Windows, NEW i \in Requests(v)', wire'[v][i].name = "commit"
          PROVE  wire'[v][i].snapshot # k
      <4>1. PICK m \in Requests(v) : wire'[v][i] = wire[v][m]
        BY <1>8
      <4> QED
        BY <2>1, <3>1, <4>1 DEF NeverWritten
    <3> QED
      BY <2>1, <3>1 DEF NeverWritten, Exporting
  <2>2. ASSUME Matches(w, c), c.name = "commit" PROVE NeverWritten(c.snapshot)'
    <3>1. c.snapshot \notin written
      BY <1>1, <2>2 DEF EInv, CommittedOnce
    <3>2. ASSUME NEW v \in Windows, NEW i \in Requests(v)', wire'[v][i].name = "commit"
          PROVE  wire'[v][i].snapshot # c.snapshot
      <4>0. PICK k \in Requests(v) : wire'[v][i] = wire[v][k] /\ k = (IF v = w THEN i + 1 ELSE i) /\ i \in Nat
        BY <1>8
      <4>1. v # w \/ k # 1
        BY <4>0, <1>7 DEF Requests
      <4> QED
        BY <1>1, <2>2, <3>2, <4>0, <4>1 DEF EInv, CommittedOnce
    <3> QED
      BY <3>1, <3>2 DEF NeverWritten, Exporting
  <2>3. ASSUME NEW v \in Windows, v # w
        PROVE  /\ (\/ pipe'[v].at \in {"begin", "append", "abort"} \/ pipe'[v].told = "failed"
                   \/ (pipe'[v].at = "commit" /\ pipe'[v].answer = "failed"))
                  => NeverWritten(pipe[v].snapshot)'
               /\ (pipe'[v].told = "saved" \/ (pipe'[v].at = "commit" /\ pipe'[v].answer = "ok"))
                  => pipe'[v].snapshot \in written'
    BY <2>1, <2>3, <1>6 DEF EInv, ToldOK
  <2>4. /\ (\/ p.at \in {"begin", "append", "abort"} \/ p.told = "failed"
            \/ (p.at = "commit" /\ p.answer = "failed"))
           => NeverWritten(p.snapshot)'
        /\ (p.told = "saved" \/ (p.at = "commit" /\ p.answer = "ok"))
           => p.snapshot \in written'
    <3>1. CASE ~Matches(w, c)
      BY <1>5, <2>1, <3>1 DEF EInv, ToldOK
    <3>2. CASE Matches(w, c)
      BY <1>1, <1>5, <2>1, <2>2, <3>2 DEF EInv, ToldOK, Matches, PipesOK, PipeOK, Calls
    <3> QED
      BY <3>1, <3>2
  <2> QED
    BY <1>6, <2>3, <2>4 DEF ToldOK
<1> QED
  BY <1>9, <1>10, <1>11, <1>13, <1>14, <1>16, <1>17

-----------------------------------------------------------------------------
(* The jobs of the pipelines                                               *)

OverdueSeen == overdue' = overdue \cup {id \in Active : Expired(jobs[id])}

\* A window keeps its job while the backend acts for others.
LEMMA HeldByOthers ==
  ASSUME IInv, [Next]_vars, OverdueSeen, NEW v \in Windows, NEW n,
         v \notin caller' \/ UNCHANGED vars,
         pipe'[v].job = pipe[v].job, pipe'[v].snapshot = pipe[v].snapshot, Held(v, n)
  PROVE  Held(v, n)'
<1> DEFINE id == pipe[v].job
<1>1. CASE id \in overdue
  BY <1>1 DEF Held, OverdueSeen
<1>2. CASE id \in Active /\ Expired(jobs[id])
  BY <1>2 DEF Held, OverdueSeen
<1>3. CASE UNCHANGED vars /\ id \notin overdue
  <2>1. jobs' = jobs
    BY <1>3 DEF vars
  <2> QED
    BY <1>3, <2>1 DEF Held, Active
<1>4. CASE v \notin caller' /\ id \notin overdue /\ ~Expired(jobs[id])
  <2>1. /\ id \in Active /\ jobs[id].owner = v /\ jobs[id].snapshot = pipe[v].snapshot
        /\ Len(jobs[id].pages) = n
    BY <1>4 DEF Held
  <2>2. id \in DOMAIN jobs' /\ Holds(jobs'[id]) = Holds(jobs[id])
    BY <1>4, <2>1, ForeignStep DEF UsedByOwner
  <2>3. jobs'[id].owner = jobs[id].owner /\ jobs'[id].snapshot = jobs[id].snapshot /\ jobs'[id].pages = jobs[id].pages
    BY <2>2 DEF Holds
  <2> QED
    BY <2>1, <2>2, <2>3 DEF Held, Active
<1> QED
  BY <1>1, <1>2, <1>3, <1>4 DEF Held

LEMMA HandledHeld ==
  ASSUME EInv, IInv, [Next]_vars, OverdueSeen, export = {}, export' = {}, taken' = taken,
         NEW w \in Windows, wire[w] # <<>>, NEW c, c = Head(wire[w]),
         caller' = {w} \/ UNCHANGED vars,
         NEW a \in {"ok", "failed"}, NEW id \in JobIds \cup {NoJob}, Answer(w, c, a, id),
         a = "ok" => /\ c.name \in {"begin", "append"}
                     /\ id \in Active' /\ jobs'[id].owner = w /\ jobs'[id].snapshot = c.snapshot
                     /\ Len(jobs'[id].pages) = IF c.name = "begin" THEN 0 ELSE c.index + 1
  PROVE  JobsHeld'
<1>1. pipe \in [Windows -> Pipe] /\ pipe[w] \in Pipe
  BY DEF EInv, ExportTyped
<1>2. ASSUME NEW v \in Windows, v # w
      PROVE  /\ pipe'[v].at \in {"begin", "append"} /\ pipe'[v].answer = "ok" =>
                  Held(v, IF pipe[v].at = "begin" THEN 0 ELSE pipe[v].next + 1)'
             /\ pipe'[v].at \in {"append", "commit"} /\ Unhandled(v)' => Held(v, pipe[v].next)'
  <2>1. pipe'[v] = pipe[v]
    BY <1>1, <1>2 DEF Answer
  <2>2. Unhandled(v)' = Unhandled(v)
    BY <2>1 DEF Unhandled, Exporting
  <2>3. v \notin caller' \/ UNCHANGED vars
    BY <1>2
  <2>4. ASSUME NEW n, Held(v, n) PROVE Held(v, n)'
    BY <2>1, <2>3, <2>4, HeldByOthers
  <2>5. CASE pipe[v].at \in {"begin", "append"} /\ pipe[v].answer = "ok"
    <3>1. PICK n : n = IF pipe[v].at = "begin" THEN 0 ELSE pipe[v].next + 1
      OBVIOUS
    <3>2. Held(v, n)'
      BY <2>4, <2>5, <3>1 DEF EInv, JobsHeld
    <3>3. ~Unhandled(v)'
      BY <2>1, <2>5 DEF Unhandled
    <3> QED
      BY <2>1, <3>1, <3>2, <3>3 DEF Held
  <2>6. CASE pipe[v].at \in {"append", "commit"} /\ Unhandled(v)
    <3>1. PICK n : n = pipe[v].next
      OBVIOUS
    <3>2. Held(v, n)'
      BY <2>4, <2>6, <3>1 DEF EInv, JobsHeld
    <3>3. pipe[v].answer # "ok"
      BY <2>6 DEF Unhandled
    <3> QED
      BY <2>1, <3>1, <3>2, <3>3 DEF Held
  <2> QED
    BY <2>1, <2>2, <2>5, <2>6
<1>3. /\ pipe'[w].at \in {"begin", "append"} /\ pipe'[w].answer = "ok" =>
           Held(w, IF pipe[w].at = "begin" THEN 0 ELSE pipe[w].next + 1)'
      /\ pipe'[w].at \in {"append", "commit"} /\ Unhandled(w)' => Held(w, pipe[w].next)'
  <2>1. /\ Matches(w, c) => pipe[w].answer = "none" /\ c = CallOf(pipe[w], taken[pipe[w].snapshot])
        /\ ~Matches(w, c) /\ pipe[w].at \in Calls => pipe[w].at = "begin" /\ pipe[w].answer = "none"
    BY HeadOfWire
  <2>2. CASE ~Matches(w, c)
    <3>1. pipe'[w] = pipe[w]
      BY <2>2 DEF Answer, Matches
    <3> QED
      BY <2>1, <2>2, <3>1 DEF Calls
  <2>3. CASE Matches(w, c)
    <3>1. /\ pipe'[w].at = pipe[w].at /\ pipe'[w].snapshot = pipe[w].snapshot /\ pipe'[w].next = pipe[w].next
          /\ pipe'[w].answer = a /\ pipe'[w].job = id
      <4>1. pipe'[w] = [pipe[w] EXCEPT !.answer = a, !.job = id]
        BY <1>1, <2>3 DEF Answer, Matches
      <4> QED
        BY <4>1, <1>1 DEF Pipe
    <3>2. ~Unhandled(w)'
      BY <3>1 DEF Unhandled
    <3>3. c.name = pipe[w].at /\ c.index = pipe[w].next /\ c.snapshot = pipe[w].snapshot
      BY <2>1, <2>3 DEF CallOf
    <3> QED
      BY <3>1, <3>2, <3>3 DEF Held
  <2> QED
    BY <2>2, <2>3
<1> QED
  BY <1>2, <1>3 DEF JobsHeld

LEMMA FewerShow ==
  ASSUME EInv, NEW S \in SUBSET Active, jobs' = Restrict(jobs, S), export' = export, UNCHANGED <<files, taken>>
  PROVE  AllShow'
<1>1. Active' = S /\ \A id \in S : jobs'[id] = jobs[id]
  BY DEF Active, Restrict
<1> QED
  BY <1>1 DEF EInv, AllShow, Shows

LEMMA BeginShows ==
  ASSUME EInv, IInv, NEW w \in Windows, NEW c \in Call, CallOK(c), NEW id \in JobIds,
         Begin(w, c.snapshot, c.target, c.count, id), taken' = taken
  PROVE  /\ AllShow'
         /\ id \in Active' /\ jobs'[id].owner = w /\ jobs'[id].snapshot = c.snapshot
         /\ Len(jobs'[id].pages) = 0
<1>1. Kept(w) \subseteq Active /\ id \notin Kept(w)
  BY KeptActive DEF Begin, IInv, JobsOK
<1>2. /\ Active' = Kept(w) \cup {id} /\ \A k \in Kept(w) : jobs'[k] = jobs[k]
      /\ jobs'[id] = NewJob(w, c.snapshot, c.target, c.count)
      /\ UNCHANGED <<export, files>>
  BY <1>1 DEF Begin, Active
<1>3. /\ jobs'[id].owner = w /\ jobs'[id].snapshot = c.snapshot /\ jobs'[id].pages = <<>>
      /\ jobs'[id].count = c.count
  BY <1>2 DEF NewJob
<1>4. Len(jobs'[id].pages) = 0
  BY <1>3
<1>5. Shows(jobs[id])'
  BY <1>3, <1>4 DEF CallOK, Shows
<1>6. \A k \in Kept(w) : Shows(jobs[k])'
  BY <1>1, <1>2 DEF EInv, AllShow, Shows
<1>7. AllShow'
  BY <1>2, <1>5, <1>6 DEF EInv, AllShow, Shows
<1> QED
  BY <1>2, <1>3, <1>4, <1>7

LEMMA AppendShows ==
  ASSUME EInv, IInv, NEW w \in Windows, NEW c \in Call, CallOK(c), c.job \in JobIds, NEW size \in PageSizes,
         AppendPage(w, c.job, c.snapshot, c.index, c.body, size), taken' = taken
  PROVE  /\ AllShow'
         /\ c.job \in Active' /\ jobs'[c.job].owner = w /\ jobs'[c.job].snapshot = c.snapshot
         /\ Len(jobs'[c.job].pages) = c.index + 1
<1> DEFINE id == c.job
           old == jobs[id]
           page == [snapshot |-> c.snapshot, index |-> c.index, body |-> c.body]
           new == WithPage(old, page, size)
<1>1. id \in Fresh /\ Fresh \subseteq Active /\ old \in Job /\ Accepts(old, c.snapshot, c.index, size)
      /\ old.owner = w
  BY FreshActive DEF AppendPage, Owned, IInv, JobsOK
<1>2. Active' = Fresh /\ jobs'[id] = new /\ \A k \in Fresh \ {id} : jobs'[k] = jobs[k]
  <2> DEFINE f == [k \in Fresh |-> jobs[k]]
             g == WithPage(f[id], page, size)
  <2>1. jobs' = [f EXCEPT ![id] = g]
    BY DEF AppendPage, Restrict
  <2>2. g = new
    BY <1>1
  <2>3. DOMAIN f = Fresh /\ \A k \in Fresh : f[k] = jobs[k]
    OBVIOUS
  <2>4. f = [k \in DOMAIN f |-> f[k]]
    OBVIOUS
  <2> HIDE DEF f, g, new
  <2> QED
    BY <1>1, <2>1, <2>2, <2>3, <2>4 DEF Active
<1>3. /\ new.pages = Append(old.pages, page) /\ new.owner = old.owner /\ new.count = old.count
      /\ new.snapshot = old.snapshot /\ old.pages \in Seq(Page)
  BY <1>1 DEF WithPage, Job
<1>4. c.snapshot = old.snapshot /\ c.index = Len(old.pages) /\ c.index < old.count /\ c.body = taken[c.snapshot]
      /\ c.body \in Bodies /\ old.count \in 1 .. MaxPages /\ Len(old.pages) \in Nat
  BY <1>1, <1>3 DEF Accepts, CallOK, Call, Job
<1>5. Shows(old)
  BY <1>1 DEF EInv, AllShow
<1> HIDE DEF new, old, id
<1>6. page \in Page
  BY <1>4 DEF Page, Call
<1>7. /\ Len(new.pages) = Len(old.pages) + 1 /\ new.pages[Len(old.pages) + 1] = page
      /\ \A i \in 1 .. Len(old.pages) : new.pages[i] = old.pages[i]
  BY <1>3, <1>6
<1>8. page.body = taken[new.snapshot]
  BY <1>3, <1>4
<1>9. \A i \in 1 .. Len(new.pages) : new.pages[i].body = taken[new.snapshot]
  <2> SUFFICES ASSUME NEW i \in 1 .. Len(new.pages) PROVE new.pages[i].body = taken[new.snapshot]
    OBVIOUS
  <2>1. i \in 1 .. Len(old.pages) \/ i = Len(old.pages) + 1
    BY <1>4, <1>7
  <2>2. CASE i \in 1 .. Len(old.pages)
    BY <2>2, <1>3, <1>5, <1>7 DEF Shows
  <2>3. CASE i = Len(old.pages) + 1
    BY <2>3, <1>7, <1>8
  <2> QED
    BY <2>1, <2>2, <2>3
<1>10. Shows(new)
  BY <1>3, <1>5, <1>9 DEF Shows
<1>11. \A k \in Active' : Shows(jobs[k])'
  BY <1>1, <1>2, <1>10 DEF EInv, AllShow, Shows
<1>12. AllShow'
  <2>1. UNCHANGED <<export, files>>
    BY DEF AppendPage
  <2> QED
    BY <1>11, <2>1 DEF EInv, AllShow, Shows
<1> QED
  BY <1>1, <1>2, <1>3, <1>4, <1>7, <1>12 DEF id

-----------------------------------------------------------------------------
(* Commits and the ends of exports                                         *)

\* A commit that is accepted: the call is gone from the wire and its export runs.
LEMMA CommitAccepted ==
  ASSUME EInv, IInv, [Next]_vars, OverdueSeen, NEW w \in Windows, wire[w] # <<>>,
         NEW c, c = Head(wire[w]), c.name = "commit", Commit(w, c.job, c.snapshot),
         wire' = [wire EXCEPT ![w] = Tail(@)],
         UNCHANGED <<content, pipe, windows, taken, written>>
  PROVE  EInv'
<1> DEFINE x == c.snapshot
<1>1. export = {} /\ caller' = {w}
  BY DEF Commit, Owned, Free
<1>2. /\ c \in Call /\ CallOK(c) /\ c = wire[w][1] /\ 1 \in Requests(w)
      /\ Matches(w, c) => /\ pipe[w].answer = "none" /\ c = CallOf(pipe[w], taken[pipe[w].snapshot])
                          /\ Len(wire[w]) = 1 /\ pipe[w].at \in Calls
      /\ ~Matches(w, c) /\ pipe[w].at \in Calls =>
           pipe[w].at = "begin" /\ pipe[w].answer = "none" /\ Len(wire[w]) > 1
  BY <1>1, HeadOfWire
<1>3. PICK j : j = jobs[c.job]
  OBVIOUS
<1>4. /\ c.job \in Active /\ j.owner = w /\ j.snapshot = x /\ export' = {[job |-> j, left |-> MaxExport]}
      /\ jobs' = Restrict(jobs, Fresh \ {c.job}) /\ UNCHANGED files
  BY <1>3, FreshActive DEF Commit, Owned, Complete
<1>5. (\A e \in export' : e.job = j) /\ \A k : Exporting(k)' <=> k = x
  BY <1>4 DEF Exporting
<1>6. /\ wire' \in [Windows -> Seq(Call)]
      /\ \A i \in Requests(w)' : i + 1 \in Requests(w) /\ wire'[w][i] = wire[w][i + 1] /\ i + 1 # 1
      /\ Len(wire[w]) \in Nat /\ Len(wire'[w]) = Len(wire[w]) - 1
      /\ \A v \in Windows : v # w => wire'[v] = wire[v] /\ Requests(v)' = Requests(v)
  BY CallTaken DEF EInv
<1>7. ASSUME NEW v \in Windows, NEW i \in Requests(v)'
      PROVE  \E k \in Requests(v) : wire'[v][i] = wire[v][k] /\ k = (IF v = w THEN i + 1 ELSE i) /\ i \in Nat
                                    /\ (v # w \/ k # 1)
  BY <1>6, <1>7 DEF Requests
<1>8. ExportTyped' /\ PipesOK'
  BY <1>6 DEF EInv, ExportTyped, PipesOK, PipeOK
<1>9. WireOK'
  <2>1. ASSUME NEW v \in Windows, NEW i \in Requests(v)' PROVE CallOK(wire[v][i])'
    <3>1. PICK k \in Requests(v) : wire'[v][i] = wire[v][k]
      BY <1>7
    <3>2. CallOK(wire[v][k])
      BY DEF EInv, WireOK
    <3> QED
      BY <3>1, <3>2 DEF CallOK
  <2> QED
    BY <2>1 DEF WireOK
<1>10. \A v \in Windows : pipe[v].snapshot = x => v = w
  BY <1>2 DEF EInv, OwnSnapshots
<1>11. InStep'
  <2>1. ASSUME NEW v \in Windows, v # w, pipe'[v].at \in Calls PROVE WaitsInStep(v)'
    <3>1. pipe'[v] = pipe[v] /\ wire'[v] = wire[v] /\ taken' = taken
      BY <2>1, <1>6
    <3>2. Begun(v)' = Begun(v) /\ Unhandled(v)' = Unhandled(v)
      <4>1. ~(Exporting(pipe[v].snapshot)') /\ ~Exporting(pipe[v].snapshot)
        BY <1>1, <1>4, <1>10, <2>1 DEF Exporting
      <4> QED
        BY <3>1, <4>1 DEF Begun, Unhandled, Exporting
    <3> QED
      BY <2>1, <3>1, <3>2 DEF EInv, InStep, WaitsInStep, CallOf
  <2>2. ASSUME Matches(w, c) PROVE WaitsInStep(w)'
    <3>1. pipe'[w].at = "commit" /\ pipe'[w].snapshot = x
      BY <2>2 DEF Matches
    <3>2. Begun(w)' /\ ~Unhandled(w)'
      BY <3>1, <1>4 DEF Begun, Unhandled, Exporting
    <3>3. wire'[w] = <<>>
      <4>1. Len(wire[w]) = 1 /\ Len(wire'[w]) = Len(wire[w]) - 1
        BY <1>2, <1>6, <2>2
      <4>2. Len(wire'[w]) = 0 /\ wire'[w] \in Seq(Call)
        BY <4>1, <1>6
      <4> QED
        BY <4>2
    <3> QED
      BY <3>2, <3>3 DEF WaitsInStep
  <2>3. ASSUME ~Matches(w, c), pipe'[w].at \in Calls PROVE WaitsInStep(w)'
    <3>1. /\ pipe[w].at = "begin" /\ pipe[w].answer = "none" /\ Len(wire[w]) > 1 /\ WaitsInStep(w)
      BY <1>2, <2>3 DEF EInv, InStep
    <3>2. ~Begun(w) /\ ~Begun(w)'
      BY <3>1 DEF Begun
    <3>3. /\ wire[w][Len(wire[w])] = CallOf(pipe[w], taken[pipe[w].snapshot])
          /\ \A i \in 1 .. Len(wire[w]) - 1 : wire[w][i].snapshot # pipe[w].snapshot
      BY <3>1, <3>2 DEF WaitsInStep
    <3>4. Len(wire'[w]) \in Nat /\ Len(wire'[w]) >= 1 /\ Len(wire'[w]) = Len(wire[w]) - 1
      BY <1>6, <3>1
    <3>5. wire'[w] # <<>>
      <4>1. wire'[w] \in Seq(Call) /\ Len(wire'[w]) # 0
        BY <3>4, <1>6
      <4> QED
        BY <4>1
    <3>6. wire'[w][Len(wire'[w])] = wire[w][Len(wire[w])]
      <4>1. Len(wire'[w]) \in Requests(w)' /\ Len(wire'[w]) + 1 = Len(wire[w])
        BY <3>4, <1>6 DEF Requests
      <4> QED
        BY <4>1, <1>6
    <3>7. \A i \in 1 .. Len(wire'[w]) - 1 : wire'[w][i].snapshot # pipe[w].snapshot
      <4>1. \A i \in 1 .. Len(wire'[w]) - 1 : i \in Requests(w)' /\ i + 1 \in 1 .. Len(wire[w]) - 1
        BY <3>4, <1>6 DEF Requests
      <4> QED
        BY <4>1, <1>6, <3>3
    <3> QED
      BY <3>2, <3>3, <3>5, <3>6, <3>7 DEF WaitsInStep
  <2> QED
    BY <2>1, <2>2, <2>3 DEF InStep
<1>12. OwnSnapshots'
  <2>1. \A v, u \in Windows : \A i \in Requests(v)' : wire'[v][i].snapshot = pipe'[u].snapshot => v = u
    <3>1. ASSUME NEW v \in Windows, NEW u \in Windows, NEW i \in Requests(v)',
                 wire'[v][i].snapshot = pipe'[u].snapshot
          PROVE  v = u
      <4>1. PICK k \in Requests(v) : wire'[v][i] = wire[v][k]
        BY <1>7
      <4> QED
        BY <3>1, <4>1 DEF EInv, OwnSnapshots
    <3> QED
      BY <3>1
  <2>2. \A v, u \in Windows : pipe'[v].snapshot = pipe'[u].snapshot /\ pipe'[v].snapshot # NoSnapshot => v = u
    BY DEF EInv, OwnSnapshots
  <2>3. \A v \in Windows, e \in export' : e.job.snapshot = pipe'[v].snapshot => e.job.owner = v
    BY <1>4, <1>5, <1>10
  <2> QED
    BY <2>1, <2>2, <2>3 DEF OwnSnapshots
<1>13. x \notin written
  BY <1>2 DEF EInv, CommittedOnce
<1>14. ASSUME NEW v \in Windows, NEW u \in Windows, NEW i \in Requests(v)', NEW k \in Requests(u)',
              wire'[v][i].name = "commit", wire'[u][k].name = "commit",
              wire'[v][i].snapshot = wire'[u][k].snapshot
       PROVE  v = u /\ i = k
  <2>1. PICK m \in Requests(v) : wire'[v][i] = wire[v][m] /\ m = (IF v = w THEN i + 1 ELSE i) /\ i \in Nat
    BY <1>7
  <2>2. PICK n \in Requests(u) : wire'[u][k] = wire[u][n] /\ n = (IF u = w THEN k + 1 ELSE k) /\ k \in Nat
    BY <1>7
  <2>3. v = u /\ m = n
    <3>1. /\ wire[v][m].name = "commit" /\ wire[u][n].name = "commit"
          /\ wire[v][m].snapshot = wire[u][n].snapshot
      BY <1>14, <2>1, <2>2
    <3> QED
      BY <3>1 DEF EInv, CommittedOnce
  <2> QED
    BY <2>1, <2>2, <2>3
<1>15. ASSUME NEW v \in Windows, NEW i \in Requests(v)', wire'[v][i].name = "commit"
       PROVE  wire'[v][i].snapshot \notin written /\ wire'[v][i].snapshot # x
  <2>1. PICK k \in Requests(v) : wire'[v][i] = wire[v][k] /\ (v # w \/ k # 1)
    BY <1>7
  <2>2. wire[v][k].name = "commit"
    BY <1>15, <2>1
  <2>3. wire[v][k].snapshot \notin written
    BY <2>2 DEF EInv, CommittedOnce
  <2>4. wire[v][k].snapshot # x
    BY <1>2, <2>1, <2>2 DEF EInv, CommittedOnce
  <2> QED
    BY <2>1, <2>3, <2>4
<1>16. CommittedOnce'
  <2>1. \A v, u \in Windows : \A i \in Requests(v)', k \in Requests(u)' :
          wire'[v][i].name = "commit" /\ wire'[u][k].name = "commit" /\ wire'[v][i].snapshot = wire'[u][k].snapshot
            => v = u /\ i = k
    BY <1>14
  <2>2. \A v \in Windows : \A i \in Requests(v)' :
          wire'[v][i].name = "commit" => wire'[v][i].snapshot \notin written' /\ ~(Exporting(wire[v][i].snapshot)')
    <3>1. ASSUME NEW v \in Windows, NEW i \in Requests(v)', wire'[v][i].name = "commit"
          PROVE  wire'[v][i].snapshot \notin written' /\ ~(Exporting(wire[v][i].snapshot)')
      <4>1. wire'[v][i].snapshot \notin written /\ wire'[v][i].snapshot # x
        BY <1>15, <3>1
      <4>2. \A e \in export' : e.job.snapshot = x
        BY <1>4, <1>5
      <4> QED
        BY <4>1, <4>2 DEF Exporting
    <3> QED
      BY <3>1
  <2>3. \A e \in export' : e.job.snapshot \notin written'
    BY <1>4, <1>5, <1>13
  <2> QED
    BY <2>1, <2>2, <2>3 DEF CommittedOnce
<1>17. ToldOK'
  <2>1. ASSUME NEW k, NeverWritten(k) PROVE NeverWritten(k)'
    <3>1. ASSUME NEW v \in Windows, NEW i \in Requests(v)', wire'[v][i].name = "commit"
          PROVE  wire'[v][i].snapshot # k
      <4>1. PICK m \in Requests(v) : wire'[v][i] = wire[v][m]
        BY <1>7
      <4> QED
        BY <2>1, <3>1, <4>1 DEF NeverWritten
    <3>2. k # x
      BY <1>2, <2>1 DEF NeverWritten
    <3> QED
      BY <2>1, <3>1, <3>2, <1>4, <1>5 DEF NeverWritten, Exporting
  <2> QED
    BY <2>1 DEF EInv, ToldOK
<1>18. JobsHeld'
  <2>1. ASSUME NEW v \in Windows, v # w, NEW n, Held(v, n) PROVE Held(v, n)'
    BY <1>1, <2>1, HeldByOthers
  <2>2. ASSUME NEW v \in Windows
        PROVE  /\ pipe'[v].at \in {"begin", "append"} /\ pipe'[v].answer = "ok" =>
                    Held(v, IF pipe[v].at = "begin" THEN 0 ELSE pipe[v].next + 1)'
               /\ pipe'[v].at \in {"append", "commit"} /\ Unhandled(v)' => Held(v, pipe[v].next)'
    <3>1. CASE v = w
      <4>1. CASE Matches(w, c)
        BY <1>4, <3>1, <4>1 DEF Matches, Unhandled, Exporting
      <4>2. CASE ~Matches(w, c)
        BY <1>2, <3>1, <4>2 DEF Calls
      <4> QED
        BY <4>1, <4>2
    <3>2. CASE v # w
      <4>1. Unhandled(v)' => Unhandled(v)
        BY <1>1 DEF Unhandled, Exporting
      <4>2. PICK n : n = IF pipe[v].at = "begin" THEN 0 ELSE pipe[v].next + 1
        OBVIOUS
      <4>3. PICK m : m = pipe[v].next
        OBVIOUS
      <4>4. pipe[v].at \in {"begin", "append"} /\ pipe[v].answer = "ok" => Held(v, n)
        BY <4>2 DEF EInv, JobsHeld
      <4>5. pipe[v].at \in {"append", "commit"} /\ Unhandled(v) => Held(v, m)
        BY <4>3 DEF EInv, JobsHeld
      <4> QED
        BY <3>2, <2>1, <4>1, <4>2, <4>3, <4>4, <4>5 DEF Held
    <3> QED
      BY <3>1, <3>2
  <2> QED
    BY <2>2 DEF JobsHeld
<1>19. AllShow'
  <2>1. Active' \subseteq Active /\ \A k \in Active' : jobs'[k] = jobs[k]
    BY <1>4, FreshActive DEF Active, Restrict
  <2>2. Shows(j)
    BY <1>3, <1>4 DEF EInv, AllShow
  <2>3. ASSUME NEW id \in Active' PROVE Shows(jobs[id])'
    <3>1. Shows(jobs[id]) /\ jobs'[id] = jobs[id]
      BY <2>1 DEF EInv, AllShow
    <3> QED
      BY <3>1 DEF Shows
  <2>4. \A e \in export' : Shows(e.job)'
    BY <1>5, <2>2 DEF Shows
  <2>5. \A t \in DOMAIN files' : Shows(files[t])'
    BY <1>4 DEF EInv, AllShow, Shows
  <2> QED
    BY <2>3, <2>4, <2>5 DEF AllShow
<1> QED
  BY <1>8, <1>9, <1>11, <1>12, <1>16, <1>17, <1>18, <1>19 DEF EInv

\* An export that ends answers the commit of its pipeline, if the pipeline still waits.
LEMMA ExportEnded ==
  ASSUME EInv, IInv, NEW e \in export, \A f \in export : f = e, export' = {},
         overdue \subseteq overdue',
         UNCHANGED <<jobs, content, wire, windows, taken>>,
         NEW a \in {"ok", "failed"}, Answer(e.job.owner, CommitCall(e.job), a, pipe[e.job.owner].job),
         written' = IF a = "ok" THEN written \cup {e.job.snapshot} ELSE written,
         \/ files' = files
         \/ files' = [t \in DOMAIN files \cup {e.job.target} |->
                        IF t = e.job.target THEN e.job ELSE files[t]]
  PROVE  EInv'
<1>1. PICK x : x = e.job.snapshot
  OBVIOUS
<1>2. PICK o : o = e.job.owner
  OBVIOUS
<1>3. /\ o \in Windows /\ x \in DOMAIN taken /\ x \notin written
      /\ pipe \in [Windows -> Pipe] /\ \A v \in Windows : pipe[v].snapshot = x => v = o
      /\ \A k : Exporting(k) <=> k = x
  BY <1>1, <1>2 DEF IInv, RestOK, Job, EInv, AllShow, Shows, CommittedOnce, ExportTyped, OwnSnapshots, Exporting
<1>4. ASSUME NEW v \in Windows
      PROVE  /\ pipe'[v] \in Pipe /\ pipe'[v].at = pipe[v].at /\ pipe'[v].snapshot = pipe[v].snapshot
             /\ pipe'[v].told = pipe[v].told /\ pipe'[v].next = pipe[v].next
             /\ pipe'[v].target = pipe[v].target /\ pipe'[v].job = pipe[v].job
             /\ pipe'[v].answer = (IF pipe[v].at = "commit" /\ pipe[v].snapshot = x THEN a ELSE pipe[v].answer)
  <2>1. CASE pipe[o].at = "commit" /\ pipe[o].snapshot = x
    <3>1. pipe' = [pipe EXCEPT ![o] = [pipe[o] EXCEPT !.answer = a, !.job = pipe[o].job]]
      BY <1>1, <1>2, <1>3, <2>1 DEF Answer, CommitCall
    <3>2. PICK q : q = [pipe[o] EXCEPT !.answer = a, !.job = pipe[o].job]
      OBVIOUS
    <3>3. /\ q \in Pipe /\ q.at = pipe[o].at /\ q.snapshot = pipe[o].snapshot /\ q.told = pipe[o].told
          /\ q.next = pipe[o].next /\ q.target = pipe[o].target /\ q.job = pipe[o].job /\ q.answer = a
      <4>1. pipe[o] \in Pipe
        BY <1>3
      <4>2. pipe[o].job \in JobIds \cup {NoJob} /\ a \in {"none", "ok", "failed"}
        BY <4>1 DEF Pipe
      <4> QED
        BY <4>1, <4>2, <3>2 DEF Pipe
    <3>4. pipe'[o] = q /\ \A u \in Windows : u # o => pipe'[u] = pipe[u] /\ pipe[u] \in Pipe
      BY <1>3, <3>1, <3>2
    <3> QED
      BY <1>3, <2>1, <3>3, <3>4
  <2>2. CASE ~(pipe[o].at = "commit" /\ pipe[o].snapshot = x)
    <3>1. pipe' = pipe
      BY <1>1, <1>2, <2>2 DEF Answer, CommitCall
    <3> QED
      BY <1>3, <2>2, <3>1
  <2> QED
    BY <2>1, <2>2
<1>5. pipe' \in [Windows -> Pipe]
  BY <1>3, <1>4 DEF Answer
<1>6. ExportTyped'
  BY <1>1, <1>3, <1>5 DEF EInv, ExportTyped
<1>7. PipesOK'
  <2>1. ASSUME NEW v \in Windows PROVE PipeOK(pipe[v])'
    <3>1. PipeOK(pipe[v])
      BY DEF EInv, PipesOK
    <3> QED
      BY <3>1, <1>4 DEF PipeOK, Calls
  <2> QED
    BY <2>1 DEF PipesOK
<1>8. WireOK'
  BY DEF EInv, WireOK, CallOK, Requests
<1>9. ASSUME NEW v \in Windows
      PROVE  /\ pipe[v].at \in {"append", "commit"} => Unhandled(v)' = Unhandled(v)
             /\ pipe[v].at \in Calls => Unhandled(v)' = Unhandled(v)
  <2>1. CASE pipe[v].at = "commit" /\ pipe[v].snapshot = x
    BY <2>1, <1>3, <1>4 DEF Unhandled
  <2>2. CASE ~(pipe[v].at = "commit" /\ pipe[v].snapshot = x)
    BY <2>2, <1>3, <1>4 DEF Unhandled, Exporting
  <2> QED
    BY <2>1, <2>2
<1>10. InStep'
  <2>1. ASSUME NEW v \in Windows, pipe'[v].at \in Calls PROVE WaitsInStep(v)'
    <3>1. Unhandled(v)' = Unhandled(v) /\ WaitsInStep(v) /\ taken' = taken /\ wire' = wire
      BY <1>4, <1>9, <2>1 DEF EInv, InStep
    <3>2. CallOf(pipe[v], taken[pipe[v].snapshot])' = CallOf(pipe[v], taken[pipe[v].snapshot])
      BY <1>4, <3>1 DEF CallOf
    <3>3. Begun(v)' = Begun(v)
      BY <1>4 DEF Begun
    <3> QED
      BY <3>1, <3>2, <3>3, <1>4 DEF WaitsInStep
  <2> QED
    BY <2>1 DEF InStep
<1>11. OwnSnapshots'
  BY <1>4 DEF EInv, OwnSnapshots, Requests
<1>12. CommittedOnce'
  <2>1. \A v \in Windows : \A i \in Requests(v) :
          wire[v][i].name = "commit" => wire[v][i].snapshot \notin written /\ wire[v][i].snapshot # x
    BY <1>1 DEF EInv, CommittedOnce, Exporting
  <2>2. \A v \in Windows : \A i \in Requests(v)' :
          wire'[v][i].name = "commit" => wire'[v][i].snapshot \notin written' /\ ~(Exporting(wire[v][i].snapshot)')
    BY <1>1, <2>1 DEF Exporting, Requests
  <2>3. \A v, u \in Windows : \A i \in Requests(v)', k \in Requests(u)' :
          wire'[v][i].name = "commit" /\ wire'[u][k].name = "commit" /\ wire'[v][i].snapshot = wire'[u][k].snapshot
            => v = u /\ i = k
    BY DEF EInv, CommittedOnce, Requests
  <2> QED
    BY <2>2, <2>3 DEF CommittedOnce
<1>13. ToldOK'
  <2>1. ASSUME NEW k, NeverWritten(k) PROVE NeverWritten(k)'
    BY <2>1, <1>1, <1>3 DEF NeverWritten, Exporting, Requests
  <2>2. a = "failed" => NeverWritten(x)'
    BY <1>1, <1>3 DEF EInv, CommittedOnce, NeverWritten, Exporting, Requests
  <2>3. (a = "ok" => x \in written') /\ written \subseteq written'
    BY <1>1
  <2>4. ASSUME NEW v \in Windows
        PROVE  /\ (\/ pipe'[v].at \in {"begin", "append", "abort"} \/ pipe'[v].told = "failed"
                   \/ (pipe'[v].at = "commit" /\ pipe'[v].answer = "failed"))
                  => NeverWritten(pipe[v].snapshot)'
               /\ (\/ pipe'[v].told = "saved" \/ (pipe'[v].at = "commit" /\ pipe'[v].answer = "ok"))
                  => pipe'[v].snapshot \in written'
    <3>1. CASE pipe[v].at = "commit" /\ pipe[v].snapshot = x
      <4>1. pipe'[v].told = "nothing" /\ pipe'[v].answer = a /\ pipe'[v].at = "commit" /\ pipe'[v].snapshot = x
        BY <1>4, <3>1 DEF EInv, PipesOK, PipeOK
      <4>2. a = "failed" => NeverWritten(pipe[v].snapshot)'
        BY <2>2, <4>1 DEF NeverWritten, Exporting
      <4> QED
        BY <2>3, <4>1, <4>2
    <3>2. CASE ~(pipe[v].at = "commit" /\ pipe[v].snapshot = x)
      <4>1. PICK k : k = pipe[v].snapshot
        OBVIOUS
      <4>2. /\ pipe'[v].at = pipe[v].at /\ pipe'[v].told = pipe[v].told /\ pipe'[v].answer = pipe[v].answer
            /\ pipe'[v].snapshot = k
        BY <1>4, <3>2, <4>1
      <4>3. /\ (\/ pipe[v].at \in {"begin", "append", "abort"} \/ pipe[v].told = "failed"
                \/ (pipe[v].at = "commit" /\ pipe[v].answer = "failed"))
               => NeverWritten(k)
            /\ (\/ pipe[v].told = "saved" \/ (pipe[v].at = "commit" /\ pipe[v].answer = "ok"))
               => k \in written
        BY <4>1 DEF EInv, ToldOK
      <4>4. NeverWritten(k) => NeverWritten(pipe[v].snapshot)'
        BY <2>1, <4>2 DEF NeverWritten, Exporting
      <4> QED
        BY <2>3, <4>2, <4>3, <4>4
    <3> QED
      BY <3>1, <3>2
  <2> QED
    BY <2>4 DEF ToldOK
<1>14. JobsHeld'
  <2>1. ASSUME NEW v \in Windows, NEW n, Held(v, n) PROVE Held(v, n)'
    BY <1>4, <2>1 DEF Held, Active
  <2>2. ASSUME NEW v \in Windows
        PROVE  /\ pipe'[v].at \in {"begin", "append"} /\ pipe'[v].answer = "ok" =>
                    Held(v, IF pipe[v].at = "begin" THEN 0 ELSE pipe[v].next + 1)'
               /\ pipe'[v].at \in {"append", "commit"} /\ Unhandled(v)' => Held(v, pipe[v].next)'
    <3>1. PICK n : n = IF pipe[v].at = "begin" THEN 0 ELSE pipe[v].next + 1
      OBVIOUS
    <3>2. PICK m : m = pipe[v].next
      OBVIOUS
    <3>3. pipe[v].at \in {"begin", "append"} /\ pipe[v].answer = "ok" => Held(v, n)'
      BY <2>1, <3>1 DEF EInv, JobsHeld
    <3>4. pipe[v].at \in {"append", "commit"} /\ Unhandled(v) => Held(v, m)'
      BY <2>1, <3>2 DEF EInv, JobsHeld
    <3> QED
      BY <3>1, <3>2, <3>3, <3>4, <1>4, <1>9 DEF Held
  <2> QED
    BY <2>2 DEF JobsHeld
<1>15. AllShow'
  <2>1. Shows(e.job)
    BY DEF EInv, AllShow
  <2>2. \A t \in DOMAIN files' : files'[t] = e.job \/ (t \in DOMAIN files /\ files'[t] = files[t])
    OBVIOUS
  <2>3. \A t \in DOMAIN files' : Shows(files[t])'
    BY <2>1, <2>2 DEF EInv, AllShow, Shows
  <2> QED
    BY <2>3 DEF EInv, AllShow, Shows, Active
<1> QED
  BY <1>6, <1>7, <1>8, <1>10, <1>11, <1>12, <1>13, <1>14, <1>15 DEF EInv

LEMMA ExportStepEnds ==
  ASSUME EInv, IInv, Exported \/ NotExported, overdue \subseteq overdue'
  PROVE  EInv'
<1>1. \A e, f \in export : e = f
  BY DEF IInv, RestOK
<1>2. CASE Exported
  <2>1. PICK e \in export : /\ Answer(e.job.owner, CommitCall(e.job), "ok", pipe[e.job.owner].job)
                            /\ written' = written \cup {e.job.snapshot}
    BY <1>2 DEF Exported
  <2>2. /\ export' = {} /\ UNCHANGED <<jobs, content, wire, windows, taken>>
        /\ files' = [t \in DOMAIN files \cup {e.job.target} |-> IF t = e.job.target THEN e.job ELSE files[t]]
    BY <1>1, <1>2 DEF Exported, ExportDone
  <2>3. PICK a : a = "ok"
    OBVIOUS
  <2>4. written' = IF a = "ok" THEN written \cup {e.job.snapshot} ELSE written
    BY <2>1, <2>3
  <2> QED
    BY <1>1, <2>1, <2>2, <2>3, <2>4, ExportEnded
<1>3. CASE NotExported
  <2>1. PICK e \in export : Answer(e.job.owner, CommitCall(e.job), "failed", pipe[e.job.owner].job)
    BY <1>3 DEF NotExported
  <2>2. export' = {} /\ UNCHANGED <<jobs, files, content, wire, windows, taken, written>>
    BY <1>3 DEF NotExported, ExportFails
  <2>3. PICK a : a = "failed"
    OBVIOUS
  <2>4. written' = IF a = "ok" THEN written \cup {e.job.snapshot} ELSE written
    BY <2>2, <2>3
  <2> QED
    BY <1>1, <2>1, <2>2, <2>3, <2>4, ExportEnded
<1> QED
  BY <1>2, <1>3

-----------------------------------------------------------------------------
(* Every handled call                                                      *)

\* A call that ends jobs, at most, and is answered with a failure
LEMMA FailedOK ==
  ASSUME EInv, IInv, [Next]_vars, OverdueSeen, NEW w \in Windows, wire[w] # <<>>,
         NEW c, c = Head(wire[w]), wire' = [wire EXCEPT ![w] = Tail(@)],
         UNCHANGED <<content, windows, taken, written>>,
         export = {}, NEW S \in SUBSET Active, jobs' = Restrict(jobs, S),
         UNCHANGED <<export, files>>, caller' = {w},
         NEW id \in JobIds \cup {NoJob}, c.name # "begin" => id \in JobIds, Answer(w, c, "failed", id)
  PROVE  EInv'
<1>1. PICK a : a = "failed"
  OBVIOUS
<1>2. a \in {"ok", "failed"} /\ a # "ok" /\ Answer(w, c, a, id) /\ export' = {} /\ taken' = taken
  BY <1>1
<1>3. ExportTyped' /\ PipesOK' /\ WireOK' /\ InStep' /\ OwnSnapshots' /\ CommittedOnce' /\ ToldOK'
  BY <1>1, <1>2, AnsweredOK
<1>4. JobsHeld'
  BY <1>2, HandledHeld
<1>5. AllShow'
  BY FewerShow
<1> QED
  BY <1>3, <1>4, <1>5 DEF EInv

LEMMA HandleOK ==
  ASSUME EInv, IInv, [Next]_vars, OverdueSeen, NEW w \in Windows, Handle(w)
  PROVE  EInv'
<1>1. PICK c : c = Head(wire[w])
  OBVIOUS
<1>2. /\ wire[w] # <<>> /\ wire' = [wire EXCEPT ![w] = Tail(@)]
      /\ UNCHANGED <<content, windows, taken, written>>
      /\ HandleBegin(w, c) \/ HandleAppend(w, c) \/ HandleCommit(w, c) \/ HandleAbort(w, c)
  BY <1>1 DEF Handle
<1>3. c \in Call /\ CallOK(c) /\ (c.name # "begin" => c.job \in JobIds)
  BY <1>1, <1>2, HeadCall DEF EInv, CallOK
<1>4. ASSUME NEW id \in JobIds, Remove(w, id) \/ Refuse(w, id)
      PROVE  /\ \E S \in SUBSET Active : jobs' = Restrict(jobs, S)
             /\ export = {} /\ UNCHANGED <<export, files>> /\ caller' = {w}
  BY <1>4, FreshActive DEF Remove, Refuse, Owned, Free
<1>5. ASSUME c.job \in JobIds, c.name # "begin", Remove(w, c.job) \/ Refuse(w, c.job),
             Answer(w, c, "failed", c.job)
      PROVE  EInv'
  <2>1. PICK S \in SUBSET Active : jobs' = Restrict(jobs, S)
    BY <1>4, <1>5
  <2>2. export = {} /\ UNCHANGED <<export, files>> /\ caller' = {w}
    BY <1>4, <1>5
  <2>3. PICK id : id = c.job
    OBVIOUS
  <2>4. id \in JobIds \cup {NoJob} /\ (c.name # "begin" => id \in JobIds) /\ Answer(w, c, "failed", id)
    BY <1>5, <2>3
  <2> QED
    BY <1>1, <1>2, <2>1, <2>2, <2>4, FailedOK
<1>6. CASE HandleBegin(w, c)
  <2>1. ASSUME NEW id \in JobIds, Begin(w, c.snapshot, c.target, c.count, id), Answer(w, c, "ok", id)
        PROVE  EInv'
    <3>1. PICK a : a = "ok"
      OBVIOUS
    <3>2. /\ a \in {"ok", "failed"} /\ Answer(w, c, a, id) /\ export = {} /\ export' = {} /\ caller' = {w}
          /\ c.name = "begin"
      BY <1>6, <2>1, <3>1 DEF Begin, Free, HandleBegin
    <3>3. /\ AllShow'
          /\ id \in Active' /\ jobs'[id].owner = w /\ jobs'[id].snapshot = c.snapshot
          /\ Len(jobs'[id].pages) = 0
      BY <1>2, <1>3, <2>1, BeginShows
    <3>4. ExportTyped' /\ PipesOK' /\ WireOK' /\ InStep' /\ OwnSnapshots' /\ CommittedOnce' /\ ToldOK'
      BY <1>1, <1>2, <3>2, AnsweredOK
    <3>5. JobsHeld'
      BY <1>1, <1>2, <3>2, <3>3, HandledHeld
    <3> QED
      BY <3>3, <3>4, <3>5 DEF EInv
  <2>2. CASE BeginRefused(w) /\ Answer(w, c, "failed", NoJob)
    <3>1. /\ jobs' = Restrict(jobs, Kept(w)) /\ export = {} /\ UNCHANGED <<export, files>> /\ caller' = {w}
          /\ Kept(w) \in SUBSET Active /\ c.name = "begin"
      BY <1>6, <2>2, KeptActive DEF BeginRefused, Free, HandleBegin
    <3>2. PICK S \in SUBSET Active : jobs' = Restrict(jobs, S)
      BY <3>1
    <3>3. PICK id \in JobIds \cup {NoJob} : id = NoJob
      OBVIOUS
    <3> QED
      BY <1>1, <1>2, <2>2, <3>1, <3>2, <3>3, FailedOK
  <2>3. CASE Free /\ UNCHANGED vars /\ Answer(w, c, "failed", NoJob)
    <3>1. PICK a : a = "failed"
      OBVIOUS
    <3>2. PICK id \in JobIds \cup {NoJob} : id = NoJob
      OBVIOUS
    <3>3. /\ a \in {"ok", "failed"} /\ a # "ok" /\ Answer(w, c, a, id) /\ export = {} /\ export' = {}
          /\ c.name = "begin" /\ UNCHANGED <<jobs, export, files>>
      BY <1>6, <2>3, <3>1, <3>2 DEF Free, HandleBegin, vars
    <3>4. ExportTyped' /\ PipesOK' /\ WireOK' /\ InStep' /\ OwnSnapshots' /\ CommittedOnce' /\ ToldOK'
      BY <1>1, <1>2, <3>1, <3>3, AnsweredOK
    <3>5. JobsHeld'
      BY <1>1, <1>2, <2>3, <3>3, HandledHeld
    <3>6. AllShow'
      BY <1>2, <3>3 DEF EInv, AllShow, Shows, Active
    <3> QED
      BY <3>4, <3>5, <3>6 DEF EInv
  <2> QED
    BY <1>6, <2>1, <2>2, <2>3 DEF HandleBegin
<1>7. CASE HandleAppend(w, c)
  <2>1. c.name = "append" /\ c.job \in JobIds
    BY <1>3, <1>7 DEF HandleAppend
  <2>2. ASSUME NEW size \in PageSizes, AppendPage(w, c.job, c.snapshot, c.index, c.body, size),
               Answer(w, c, "ok", c.job)
        PROVE  EInv'
    <3>1. PICK a : a = "ok"
      OBVIOUS
    <3>2. PICK id : id = c.job
      OBVIOUS
    <3>3. /\ a \in {"ok", "failed"} /\ id \in JobIds \cup {NoJob} /\ id \in JobIds /\ Answer(w, c, a, id)
          /\ export = {} /\ export' = {} /\ caller' = {w}
      BY <2>1, <2>2, <3>1, <3>2 DEF AppendPage, Owned, Free
    <3>4. /\ AllShow'
          /\ id \in Active' /\ jobs'[id].owner = w /\ jobs'[id].snapshot = c.snapshot
          /\ Len(jobs'[id].pages) = c.index + 1
      BY <1>2, <1>3, <2>1, <2>2, <3>2, AppendShows
    <3>5. ExportTyped' /\ PipesOK' /\ WireOK' /\ InStep' /\ OwnSnapshots' /\ CommittedOnce' /\ ToldOK'
      BY <1>1, <1>2, <2>1, <3>3, AnsweredOK
    <3>6. JobsHeld'
      BY <1>1, <1>2, <2>1, <3>3, <3>4, HandledHeld
    <3> QED
      BY <3>4, <3>5, <3>6 DEF EInv
  <2> QED
    BY <1>5, <1>7, <2>1, <2>2 DEF HandleAppend
<1>8. CASE HandleCommit(w, c)
  <2>1. c.name = "commit" /\ c.job \in JobIds
    BY <1>3, <1>8 DEF HandleCommit
  <2>2. CASE Commit(w, c.job, c.snapshot) /\ UNCHANGED pipe
    BY <1>1, <1>2, <2>1, <2>2, CommitAccepted
  <2> QED
    BY <1>5, <1>8, <2>1, <2>2 DEF HandleCommit
<1>9. CASE HandleAbort(w, c)
  BY <1>3, <1>5, <1>9 DEF HandleAbort
<1> QED
  BY <1>2, <1>6, <1>7, <1>8, <1>9

-----------------------------------------------------------------------------
(* The other steps                                                         *)

\* A window that is destroyed takes its calls and its job along.
LEMMA DestroyOK ==
  ASSUME EInv, IInv, [Next]_vars, OverdueSeen, NEW w \in Windows, Destroy(w)
  PROVE  EInv'
<1>1. /\ export = {} /\ export' = {} /\ UNCHANGED <<files, content, taken, written>> /\ caller' = {w}
      /\ jobs' = Restrict(jobs, Active \ Of(w)) /\ windows' \subseteq windows
  BY DEF Destroy, DiscardForWindow, Free
<1>2. /\ pipe' \in [Windows -> Pipe] /\ pipe'[w] = Idle
      /\ \A v \in Windows : v # w => pipe'[v] = pipe[v]
  BY IdlePipe DEF Destroy, EInv, ExportTyped
<1>3. /\ wire' \in [Windows -> Seq(Call)] /\ wire'[w] = <<>>
      /\ \A v \in Windows : v # w => wire'[v] = wire[v]
  BY DEF Destroy, EInv, ExportTyped
<1>4. \A v \in Windows : \A i \in Requests(v)' : v # w /\ i \in Requests(v) /\ wire'[v][i] = wire[v][i]
  BY <1>3 DEF Requests
<1>5. Idle.at = "idle" /\ Idle.answer = "none" /\ Idle.snapshot = NoSnapshot /\ Idle.told = "nothing"
  BY IdlePipe
<1>6. ExportTyped'
  BY <1>1, <1>2, <1>3 DEF EInv, ExportTyped
<1>7. PipesOK'
  <2>1. ASSUME NEW v \in Windows PROVE PipeOK(pipe[v])'
    <3>1. PICK p : p = pipe'[v]
      OBVIOUS
    <3>2. PipeOK(p)
      BY <1>2, <3>1, IdlePipe DEF EInv, PipesOK
    <3> QED
      BY <1>1, <3>1, <3>2 DEF PipeOK
  <2> QED
    BY <2>1 DEF PipesOK
<1>8. WireOK'
  BY <1>1, <1>4 DEF EInv, WireOK, CallOK
<1>9. InStep'
  <2>1. ASSUME NEW v \in Windows, pipe'[v].at \in Calls PROVE WaitsInStep(v)'
    <3>1. v # w
      BY <1>2, <1>5, <2>1 DEF Calls
    <3>2. pipe'[v] = pipe[v] /\ wire'[v] = wire[v] /\ taken' = taken /\ export' = export
      BY <1>1, <1>2, <1>3, <3>1
    <3>3. Begun(v)' = Begun(v) /\ Unhandled(v)' = Unhandled(v)
      BY <3>2 DEF Begun, Unhandled, Exporting
    <3> QED
      BY <2>1, <3>2, <3>3 DEF EInv, InStep, WaitsInStep, CallOf
  <2> QED
    BY <2>1 DEF InStep
<1>10. \A v \in Windows : pipe'[v].snapshot \in {pipe[v].snapshot, NoSnapshot}
  BY <1>2, <1>5
<1>11. OwnSnapshots'
  <2>1. \A v \in Windows : \A i \in Requests(v)' : wire'[v][i].snapshot # NoSnapshot
    BY <1>1, <1>8 DEF EInv, ExportTyped, WireOK, CallOK
  <2>2. \A v, u \in Windows : \A i \in Requests(v)' : wire'[v][i].snapshot = pipe'[u].snapshot => v = u
    BY <1>4, <1>10, <2>1 DEF EInv, OwnSnapshots
  <2>3. \A v, u \in Windows : pipe'[v].snapshot = pipe'[u].snapshot /\ pipe'[v].snapshot # NoSnapshot => v = u
    BY <1>10 DEF EInv, OwnSnapshots
  <2> QED
    BY <1>1, <2>2, <2>3 DEF OwnSnapshots
<1>12. CommittedOnce'
  <2>1. \A v, u \in Windows : \A i \in Requests(v)', k \in Requests(u)' :
          wire'[v][i].name = "commit" /\ wire'[u][k].name = "commit" /\ wire'[v][i].snapshot = wire'[u][k].snapshot
            => v = u /\ i = k
    BY <1>4 DEF EInv, CommittedOnce
  <2>2. \A v \in Windows : \A i \in Requests(v)' :
          wire'[v][i].name = "commit" => wire'[v][i].snapshot \notin written'
    BY <1>1, <1>4 DEF EInv, CommittedOnce
  <2> QED
    BY <1>1, <2>1, <2>2 DEF CommittedOnce, Exporting
<1>13. ToldOK'
  <2>1. ASSUME NEW k, NeverWritten(k) PROVE NeverWritten(k)'
    BY <1>1, <1>4, <2>1 DEF NeverWritten, Exporting
  <2>2. ASSUME NEW v \in Windows
        PROVE  /\ (\/ pipe'[v].at \in {"begin", "append", "abort"} \/ pipe'[v].told = "failed"
                   \/ (pipe'[v].at = "commit" /\ pipe'[v].answer = "failed"))
                  => NeverWritten(pipe[v].snapshot)'
               /\ (\/ pipe'[v].told = "saved" \/ (pipe'[v].at = "commit" /\ pipe'[v].answer = "ok"))
                  => pipe'[v].snapshot \in written'
    <3>1. CASE v = w
      BY <1>2, <1>5, <3>1
    <3>2. CASE v # w
      <4>1. PICK k : k = pipe[v].snapshot
        OBVIOUS
      <4>2. pipe'[v] = pipe[v] /\ written' = written
        BY <1>1, <1>2, <3>2
      <4>3. /\ (\/ pipe[v].at \in {"begin", "append", "abort"} \/ pipe[v].told = "failed"
                \/ (pipe[v].at = "commit" /\ pipe[v].answer = "failed"))
               => NeverWritten(k)
            /\ (\/ pipe[v].told = "saved" \/ (pipe[v].at = "commit" /\ pipe[v].answer = "ok"))
               => k \in written
        BY <4>1 DEF EInv, ToldOK
      <4>4. NeverWritten(k) => NeverWritten(pipe[v].snapshot)'
        BY <2>1, <4>1, <4>2 DEF NeverWritten, Exporting
      <4> QED
        BY <4>1, <4>2, <4>3, <4>4
    <3> QED
      BY <3>1, <3>2
  <2> QED
    BY <2>2 DEF ToldOK
<1>14. JobsHeld'
  <2>1. ASSUME NEW v \in Windows
        PROVE  /\ pipe'[v].at \in {"begin", "append"} /\ pipe'[v].answer = "ok" =>
                    Held(v, IF pipe[v].at = "begin" THEN 0 ELSE pipe[v].next + 1)'
               /\ pipe'[v].at \in {"append", "commit"} /\ Unhandled(v)' => Held(v, pipe[v].next)'
    <3>1. CASE v = w
      BY <1>2, <1>5, <3>1
    <3>2. CASE v # w
      <4>1. pipe'[v] = pipe[v] /\ v \notin caller'
        BY <1>1, <1>2, <3>2
      <4>2. ASSUME NEW n, Held(v, n) PROVE Held(v, n)'
        BY <4>1, <4>2, HeldByOthers
      <4>3. Unhandled(v)' => Unhandled(v)
        BY <1>1, <4>1 DEF Unhandled, Exporting
      <4>4. PICK n : n = IF pipe[v].at = "begin" THEN 0 ELSE pipe[v].next + 1
        OBVIOUS
      <4>5. PICK m : m = pipe[v].next
        OBVIOUS
      <4>6. pipe[v].at \in {"begin", "append"} /\ pipe[v].answer = "ok" => Held(v, n)
        BY <4>4 DEF EInv, JobsHeld
      <4>7. pipe[v].at \in {"append", "commit"} /\ Unhandled(v) => Held(v, m)
        BY <4>5 DEF EInv, JobsHeld
      <4> QED
        BY <4>1, <4>2, <4>3, <4>4, <4>5, <4>6, <4>7 DEF Held
    <3> QED
      BY <3>1, <3>2
  <2> QED
    BY <2>1 DEF JobsHeld
<1>15. AllShow'
  BY <1>1, FewerShow
<1> QED
  BY <1>6, <1>7, <1>8, <1>9, <1>11, <1>12, <1>13, <1>14, <1>15 DEF EInv

\* The reaper and the clock act for no window.
LEMMA BackgroundOK ==
  ASSUME EInv, IInv, [Next]_vars, OverdueSeen, Reaped \/ TimePasses
  PROVE  EInv'
<1>1. caller' = {} /\ UNCHANGED <<files, content, wire, windows, taken, written>>
  BY DEF Reaped, Reap, TimePasses, Tick, windowVars
<1>2. /\ pipe' \in [Windows -> Pipe]
      /\ \A v \in Windows :
           /\ pipe'[v].at = pipe[v].at /\ pipe'[v].snapshot = pipe[v].snapshot
           /\ pipe'[v].told = pipe[v].told /\ pipe'[v].next = pipe[v].next
           /\ pipe'[v].target = pipe[v].target /\ pipe'[v].job = pipe[v].job
           /\ pipe'[v].answer = pipe[v].answer
  <2>1. pipe \in [Windows -> Pipe]
    BY DEF EInv, ExportTyped
  <2>2. CASE Reaped
    BY <2>1, <2>2 DEF Reaped, windowVars
  <2>3. CASE TimePasses
    <3>1. \A v \in Windows : pipe'[v] = [pipe[v] EXCEPT !.left = IF @ > 0 THEN @ - 1 ELSE 0]
      BY <2>3 DEF TimePasses
    <3>2. \A v \in Windows : pipe[v].left \in 0 .. Deadline /\ pipe[v] \in Pipe
      BY <2>1 DEF Pipe
    <3>3. \A n \in 0 .. Deadline : (IF n > 0 THEN n - 1 ELSE 0) \in 0 .. Deadline
      OBVIOUS
    <3>4. ASSUME NEW v \in Windows PROVE pipe'[v] \in Pipe
      <4>1. PICK n : n = IF pipe[v].left > 0 THEN pipe[v].left - 1 ELSE 0
        OBVIOUS
      <4>2. n \in 0 .. Deadline
        BY <3>2, <3>3, <4>1
      <4>3. pipe'[v] = [pipe[v] EXCEPT !.left = n]
        BY <3>1, <4>1
      <4> QED
        BY <3>2, <4>2, <4>3 DEF Pipe
    <3>5. pipe' \in [Windows -> Pipe]
      BY <2>3, <3>4 DEF TimePasses
    <3> QED
      BY <3>1, <3>2, <3>5 DEF Pipe
  <2> QED
    BY <2>2, <2>3
<1>3. (\A e \in export' : \E f \in export : e.job = f.job) /\ \A f \in export : \E e \in export' : e.job = f.job
  <2>1. CASE Reaped
    BY <2>1 DEF Reaped, Reap
  <2>2. CASE TimePasses
    <3>1. export' = {[e EXCEPT !.left = @ - 1] : e \in export}
      BY <2>2 DEF TimePasses, Tick
    <3>2. \A e \in export : [e EXCEPT !.left = @ - 1].job = e.job
      BY DEF IInv, RestOK
    <3> QED
      BY <3>1, <3>2
  <2> QED
    BY <2>1, <2>2
<1>4. \A v \in Windows : Exporting(pipe[v].snapshot)' <=> Exporting(pipe[v].snapshot)
  BY <1>2, <1>3 DEF Exporting
<1>5. ExportTyped' /\ WireOK'
  BY <1>1, <1>2 DEF EInv, ExportTyped, WireOK, CallOK, Requests
<1>6. PipesOK'
  <2>1. ASSUME NEW v \in Windows PROVE PipeOK(pipe[v])'
    <3>1. PipeOK(pipe[v])
      BY DEF EInv, PipesOK
    <3> QED
      BY <3>1, <1>1, <1>2 DEF PipeOK
  <2> QED
    BY <2>1 DEF PipesOK
<1>7. \A v \in Windows : Unhandled(v)' = Unhandled(v) /\ Begun(v)' = Begun(v)
  BY <1>2, <1>4 DEF Unhandled, Begun
<1>8. InStep'
  <2>1. ASSUME NEW v \in Windows, pipe'[v].at \in Calls PROVE WaitsInStep(v)'
    <3>1. Unhandled(v)' = Unhandled(v) /\ WaitsInStep(v) /\ taken' = taken /\ wire' = wire
      BY <1>1, <1>2, <1>7, <2>1 DEF EInv, InStep
    <3>2. CallOf(pipe[v], taken[pipe[v].snapshot])' = CallOf(pipe[v], taken[pipe[v].snapshot])
      BY <1>2, <3>1 DEF CallOf
    <3> QED
      BY <3>1, <3>2, <1>2, <1>7 DEF WaitsInStep
  <2> QED
    BY <2>1 DEF InStep
<1>9. OwnSnapshots'
  <2>1. \A v \in Windows, e \in export' : e.job.snapshot = pipe'[v].snapshot => e.job.owner = v
    BY <1>2, <1>3 DEF EInv, OwnSnapshots
  <2> QED
    BY <1>1, <1>2, <2>1 DEF EInv, OwnSnapshots, Requests
<1>10. CommittedOnce'
  <2>1. \A v \in Windows : \A i \in Requests(v)' :
          wire'[v][i].name = "commit" => wire'[v][i].snapshot \notin written' /\ ~(Exporting(wire[v][i].snapshot)')
    BY <1>1, <1>3 DEF EInv, CommittedOnce, Exporting, Requests
  <2>2. \A e \in export' : e.job.snapshot \notin written'
    BY <1>1, <1>3 DEF EInv, CommittedOnce
  <2>3. \A v, u \in Windows : \A i \in Requests(v)', k \in Requests(u)' :
          wire'[v][i].name = "commit" /\ wire'[u][k].name = "commit" /\ wire'[v][i].snapshot = wire'[u][k].snapshot
            => v = u /\ i = k
    BY <1>1 DEF EInv, CommittedOnce, Requests
  <2> QED
    BY <2>1, <2>2, <2>3 DEF CommittedOnce
<1>11. ToldOK'
  <2>1. ASSUME NEW k, NeverWritten(k) PROVE NeverWritten(k)'
    BY <1>1, <1>3, <2>1 DEF NeverWritten, Exporting, Requests
  <2>2. ASSUME NEW v \in Windows
        PROVE  /\ (\/ pipe'[v].at \in {"begin", "append", "abort"} \/ pipe'[v].told = "failed"
                   \/ (pipe'[v].at = "commit" /\ pipe'[v].answer = "failed"))
                  => NeverWritten(pipe[v].snapshot)'
               /\ (\/ pipe'[v].told = "saved" \/ (pipe'[v].at = "commit" /\ pipe'[v].answer = "ok"))
                  => pipe'[v].snapshot \in written'
    <3>1. PICK k : k = pipe[v].snapshot
      OBVIOUS
    <3>2. /\ pipe'[v].at = pipe[v].at /\ pipe'[v].told = pipe[v].told /\ pipe'[v].answer = pipe[v].answer
          /\ pipe'[v].snapshot = k /\ written' = written
      BY <1>1, <1>2, <3>1
    <3>3. /\ (\/ pipe[v].at \in {"begin", "append", "abort"} \/ pipe[v].told = "failed"
              \/ (pipe[v].at = "commit" /\ pipe[v].answer = "failed"))
             => NeverWritten(k)
          /\ (\/ pipe[v].told = "saved" \/ (pipe[v].at = "commit" /\ pipe[v].answer = "ok"))
             => k \in written
      BY <3>1 DEF EInv, ToldOK
    <3>4. NeverWritten(k) => NeverWritten(pipe[v].snapshot)'
      BY <2>1, <3>2 DEF NeverWritten, Exporting
    <3> QED
      BY <3>2, <3>3, <3>4
  <2> QED
    BY <2>2 DEF ToldOK
<1>12. JobsHeld'
  <2>1. ASSUME NEW v \in Windows
        PROVE  /\ pipe'[v].at \in {"begin", "append"} /\ pipe'[v].answer = "ok" =>
                    Held(v, IF pipe[v].at = "begin" THEN 0 ELSE pipe[v].next + 1)'
               /\ pipe'[v].at \in {"append", "commit"} /\ Unhandled(v)' => Held(v, pipe[v].next)'
    <3>1. ASSUME NEW n, Held(v, n) PROVE Held(v, n)'
      BY <1>1, <1>2, <3>1, HeldByOthers
    <3>2. PICK n : n = IF pipe[v].at = "begin" THEN 0 ELSE pipe[v].next + 1
      OBVIOUS
    <3>3. PICK m : m = pipe[v].next
      OBVIOUS
    <3>4. pipe[v].at \in {"begin", "append"} /\ pipe[v].answer = "ok" => Held(v, n)
      BY <3>2 DEF EInv, JobsHeld
    <3>5. pipe[v].at \in {"append", "commit"} /\ Unhandled(v) => Held(v, m)
      BY <3>3 DEF EInv, JobsHeld
    <3> QED
      BY <1>2, <1>7, <3>1, <3>2, <3>3, <3>4, <3>5 DEF Held
  <2> QED
    BY <2>1 DEF JobsHeld
<1>13. AllShow'
  <2>1. CASE Reaped
    <3>1. Fresh \in SUBSET Active /\ jobs' = Restrict(jobs, Fresh) /\ export' = export
      BY <2>1, FreshActive DEF Reaped, Reap
    <3> QED
      BY <1>1, <3>1, FewerShow
  <2>2. CASE TimePasses
    <3>1. /\ Active' = Active
          /\ \A id \in Active : jobs'[id] = [jobs[id] EXCEPT !.age = Older(@), !.idle = Older(@)]
      BY <2>2 DEF TimePasses, Tick, Active
    <3>2. \A id \in Active : /\ jobs'[id].snapshot = jobs[id].snapshot /\ jobs'[id].count = jobs[id].count
                             /\ jobs'[id].pages = jobs[id].pages
      BY <3>1 DEF IInv, JobsOK, Job
    <3>3. ASSUME NEW id \in Active' PROVE Shows(jobs[id])'
      <4>1. Shows(jobs[id])
        BY <3>1 DEF EInv, AllShow
      <4> QED
        BY <1>1, <3>1, <3>2, <4>1 DEF Shows
    <3>4. \A e \in export' : Shows(e.job)'
      BY <1>1, <1>3 DEF EInv, AllShow, Shows
    <3>5. \A t \in DOMAIN files' : Shows(files[t])'
      BY <1>1 DEF EInv, AllShow, Shows
    <3> QED
      BY <3>3, <3>4, <3>5 DEF AllShow
  <2> QED
    BY <2>1, <2>2
<1> QED
  BY <1>5, <1>6, <1>8, <1>9, <1>10, <1>11, <1>12, <1>13 DEF EInv

LEMMA ExportStepOK == EInv /\ IInv /\ [ExportNext]_exportVars => (EInv /\ IInv)'
<1> SUFFICES ASSUME EInv, IInv, [ExportNext]_exportVars PROVE EInv' /\ IInv'
  OBVIOUS
<1>1. [Next]_vars
  BY ExportStepImplements DEF EInv
<1>2. IInv'
  BY <1>1, NextOK
<1>3. EInv'
  <2>1. CASE UNCHANGED exportVars
    <3>1. UNCHANGED <<vars, pipe, wire, windows, taken, written>> /\ overdue \subseteq overdue'
          /\ content' \in [Windows -> Bodies]
      BY <2>1 DEF exportVars, windowVars, EInv, ExportTyped
    <3> QED
      BY <3>1, SamePipes
  <2>2. CASE ExportNext
    <3>1. OverdueSeen /\ overdue \subseteq overdue'
      BY <2>2 DEF ExportNext, OverdueSeen
    <3>2. ASSUME NEW w \in Windows, WindowStep(w) PROVE EInv'
      <4>1. ASSUME NEW b \in Bodies, Edit(w, b) PROVE EInv'
        <5>1. UNCHANGED <<vars, pipe, wire, windows, taken, written>> /\ content' \in [Windows -> Bodies]
          BY <4>1 DEF Edit, EInv, ExportTyped
        <5> QED
          BY <3>1, <5>1, SamePipes
      <4> QED
        BY <1>1, <3>1, <3>2, <4>1, StartOK, CaptureOK, CaptureFailsOK, ReceiveOK, RenderFailsOK, LateOK,
           ReloadOK, DestroyOK, HandleOK DEF WindowStep
    <3> QED
      BY <1>1, <2>2, <3>1, <3>2, ExportStepEnds, BackgroundOK DEF ExportNext
  <2> QED
    BY <2>1, <2>2
<1> QED
  BY <1>2, <1>3

LEMMA ExportInitOK == ExportInit => EInv /\ IInv
<1> SUFFICES ASSUME ExportInit PROVE EInv /\ IInv
  OBVIOUS
<1>1. IInv /\ Init
  BY InitOK DEF ExportInit
<1>2. /\ pipe = [w \in Windows |-> Idle] /\ wire = [w \in Windows |-> <<>>] /\ DOMAIN taken = {}
      /\ written = {} /\ export = {} /\ DOMAIN jobs = {} /\ DOMAIN files = {} /\ windows = Windows
      /\ content \in [Windows -> Bodies]
  BY DEF ExportInit, Init
<1>3. \A w \in Windows : pipe[w] = Idle /\ wire[w] = <<>> /\ Requests(w) = {}
  BY <1>2 DEF Requests
<1>4. /\ Idle \in Pipe /\ PipeOK(Idle) /\ Idle.at = "idle" /\ Idle.answer = "none"
      /\ Idle.snapshot = NoSnapshot /\ Idle.told = "nothing"
  BY IdlePipe
<1>5. ExportTyped
  BY <1>2, <1>4 DEF ExportTyped
<1>6. PipesOK /\ WireOK
  BY <1>3, <1>4 DEF PipesOK, WireOK
<1>7. InStep
  BY <1>3, <1>4 DEF InStep, Calls
<1>8. OwnSnapshots /\ CommittedOnce
  BY <1>2, <1>3, <1>4 DEF OwnSnapshots, CommittedOnce
<1>9. ToldOK /\ JobsHeld
  BY <1>3, <1>4 DEF ToldOK, JobsHeld
<1>10. AllShow
  BY <1>2 DEF AllShow, Active
<1> QED
  BY <1>1, <1>5, <1>6, <1>7, <1>8, <1>9, <1>10 DEF EInv

\* The pipelines and their calls stay in step with the jobs, for every number of windows,
\* documents and pages, and for every deadline.
THEOREM ExportInvariance == ExportSpec => [](EInv /\ IInv)
  BY ExportInitOK, ExportStepOK, PTL DEF ExportSpec

\* What the windows' pipelines send the backend is a behaviour of its jobs: every step of
\* a window, of the backend or of the clock is a step of PdfJobs, or none of its business.
THEOREM ExportImplementsJobs == ExportSpec => ImplementsJobs
<1>1. ExportInit => Init
  BY DEF ExportInit
<1>2. EInv /\ [ExportNext]_exportVars => [Next]_vars
  BY ExportStepImplements DEF EInv
<1> QED
  BY <1>1, <1>2, ExportInvariance, PTL DEF ExportSpec, Spec, ImplementsJobs

\* A PDF shows one generation of its document, what the user is told of an export is true,
\* and a pipeline keeps its job against late calls, other windows and the reaper.
THEOREM ExportAlwaysSound == ExportSpec => []ExportSound
<1>1. EInv /\ IInv => ExportSound
  <2> SUFFICES ASSUME EInv, IInv PROVE ExportSound
    OBVIOUS
  <2>1. ExportTypeOK
    BY DEF EInv, ExportTyped, ExportTypeOK
  <2>2. OneGeneration
    BY DEF EInv, AllShow, Shows, OneGeneration
  <2>3. Truthful
    BY DEF EInv, ToldOK, NeverWritten, Truthful
  <2>4. KeepsItsJob
    <3> SUFFICES ASSUME NEW w \in Windows, pipe[w].at \in {"append", "commit"}, pipe[w].answer = "none",
                        \A e \in export : e.job.snapshot # pipe[w].snapshot
                 PROVE  \/ pipe[w].job \in overdue
                        \/ /\ pipe[w].job \in Active
                           /\ jobs[pipe[w].job].owner = w /\ jobs[pipe[w].job].snapshot = pipe[w].snapshot
                           /\ Len(jobs[pipe[w].job].pages) = pipe[w].next
      BY DEF KeepsItsJob
    <3>1. Unhandled(w)
      BY DEF Unhandled, Exporting
    <3> QED
      BY <3>1 DEF EInv, JobsHeld, Held
  <2> QED
    BY <2>1, <2>2, <2>3, <2>4 DEF ExportSound
<1> QED
  BY <1>1, ExportInvariance, PTL
=============================================================================
