-------------------------- MODULE AdminJobsProofs --------------------------
(***************************************************************************)
(* What TLAPS proves of AdminJobs for every set of people, jobs, workers   *)
(* and erasures, and any number of faults.                                 *)
(***************************************************************************)
EXTENDS AdminJobs, TLAPS

-----------------------------------------------------------------------------
(***************************************************************************)
(* Types                                                                   *)
(***************************************************************************)
WorkerRecord == [step : Steps, job : Jobs \cup {Nothing},
                 seen : {"none"} \cup Open, rows : SUBSET People,
                 after : {"idle", "failing"}]
JobRecord == [status : Statuses, key : BOOLEAN, invalid : BOOLEAN]
FileRecord == [stored : BOOLEAN, people : SUBSET People, old : BOOLEAN]
PurgeRecord == [todo : SUBSET Jobs, clearing : Jobs \cup {Nothing}]

WorkerType ==
  /\ worker \in [Workers -> WorkerRecord]
  /\ \A w \in Workers : Mine(w) = Nothing <=> At(w, "idle")
JobType == job \in [Jobs -> JobRecord]
FileType == file \in [Jobs -> FileRecord]
OutsideType ==
  /\ list \in SUBSET People
  /\ landed \in SUBSET Imports
  /\ uploading \in SUBSET Imports
  /\ purge \in [Erasers -> PurgeRecord]
  /\ keeper \in [step : {"idle", "clear", "sweep"}, job : Jobs \cup {Nothing}]
  /\ keeper.job = Nothing <=> keeper.step = "idle"
  /\ reader \in [step : {"idle", "opened", "read", "served"},
                 job : Jobs \cup {Nothing}]
  /\ reader.job = Nothing <=> reader.step = "idle"
  /\ faults \in Nat
  /\ gone \in [Jobs -> SUBSET People]
  /\ spared \in SUBSET Jobs

\* The parts the proofs below work with.
LEMMA TypeParts == TypeOK <=> WorkerType /\ JobType /\ FileType /\ OutsideType
PROOF
  BY DEF TypeOK, WorkerType, JobType, FileType, OutsideType, WorkerRecord,
         JobRecord, FileRecord, PurgeRecord

\* A worker that is at something has a job.
LEMMA BusyHasJob ==
  ASSUME WorkerType, NEW w \in Workers, ~At(w, "idle")
  PROVE  Mine(w) \in Jobs /\ worker[w] \in WorkerRecord
PROOF
  BY DEF WorkerType, WorkerRecord, Mine

\* Changing what one worker has in hand.
LEMMA WorkerSet ==
  ASSUME WorkerType, NEW w \in Workers, NEW x \in WorkerRecord,
         x.job = Nothing <=> x.step = "idle",
         worker' = [worker EXCEPT ![w] = x]
  PROVE  WorkerType'
PROOF
  <1>1. \A v \in Workers : worker'[v] = IF v = w THEN x ELSE worker[v]
    BY DEF WorkerType
  <1> QED BY <1>1 DEF WorkerType, Mine, At

\* A worker at rest is well typed.
LEMMA RestType == Rest \in WorkerRecord /\ Rest.job = Nothing /\ Rest.step = "idle"
PROOF
  BY DEF Rest, WorkerRecord, Steps

\* Coming to rest.
LEMMA RestsKeepsType ==
  ASSUME WorkerType, NEW w \in Workers, Rests(w)
  PROVE  WorkerType'
PROOF
  BY RestType, WorkerSet DEF Rests

\* Going on to another step.
LEMMA GoesKeepsType ==
  ASSUME WorkerType, NEW w \in Workers, ~At(w, "idle"),
         NEW step \in Steps \ {"idle"}, Goes(w, step)
  PROVE  WorkerType'
PROOF
  <1> DEFINE x == [worker[w] EXCEPT !.step = step]
  <1>1. worker[w] \in WorkerRecord /\ worker[w].job \in Jobs
    BY BusyHasJob DEF Mine
  <1>2. x \in WorkerRecord /\ x.step = step /\ x.job = worker[w].job
    BY <1>1, Zenon DEF WorkerRecord
  <1>3. worker' = [worker EXCEPT ![w] = x]
    BY DEF Goes
  <1> HIDE DEF x
  <1> QED BY <1>1, <1>2, <1>3, WorkerSet, JobsAssumption DEF JobsAssumption

\* Every step of a worker leaves its memory in shape.
LEMMA WorkerKeepsType ==
  ASSUME WorkerType, FileType, OutsideType, NEW w \in Workers,
         RunStep(w) \/ WorkerFault(w)
  PROVE  WorkerType'
PROOF
  <1>1. CASE ReadRows(w)
    <2> DEFINE x == [worker[w] EXCEPT !.step = "built", !.rows = list]
    <2>1. ~At(w, "idle") /\ worker' = [worker EXCEPT ![w] = x]
      BY <1>1 DEF ReadRows, At
    <2>2. worker[w] \in WorkerRecord /\ worker[w].job \in Jobs
      BY <2>1, BusyHasJob DEF Mine
    <2>3. "built" \in Steps /\ list \in SUBSET People
      BY DEF Steps, OutsideType
    <2>4. x \in WorkerRecord /\ x.step = "built" /\ x.job = worker[w].job
      BY <2>2, <2>3, Zenon DEF WorkerRecord
    <2> HIDE DEF x
    <2> QED BY <2>1, <2>2, <2>4, WorkerSet, JobsAssumption DEF JobsAssumption
  <1>2. CASE PutFile(w)
    <2> DEFINE x == [worker[w] EXCEPT !.step = "stored", !.rows = {}]
    <2>1. ~At(w, "idle") /\ worker' = [worker EXCEPT ![w] = x]
      BY <1>2 DEF PutFile, At
    <2>2. worker[w] \in WorkerRecord /\ worker[w].job \in Jobs
      BY <2>1, BusyHasJob DEF Mine
    <2>3. "stored" \in Steps /\ {} \in SUBSET People
      BY DEF Steps
    <2>4. x \in WorkerRecord /\ x.step = "stored" /\ x.job = worker[w].job
      BY <2>2, <2>3, Zenon DEF WorkerRecord
    <2> HIDE DEF x
    <2> QED BY <2>1, <2>2, <2>4, WorkerSet, JobsAssumption DEF JobsAssumption
  <1>3. CASE RecordBreaks(w)
    <2> DEFINE x == [worker[w] EXCEPT !.step = "takeback", !.after = "failing"]
    <2>1. ~At(w, "idle") /\ worker' = [worker EXCEPT ![w] = x]
      BY <1>3 DEF RecordBreaks, At
    <2>2. worker[w] \in WorkerRecord /\ worker[w].job \in Jobs
      BY <2>1, BusyHasJob DEF Mine
    <2>3. "takeback" \in Steps
      BY DEF Steps
    <2>4. x \in WorkerRecord /\ x.step = "takeback" /\ x.job = worker[w].job
      BY <2>2, <2>3, Zenon DEF WorkerRecord
    <2> HIDE DEF x
    <2> QED BY <2>1, <2>2, <2>4, WorkerSet, JobsAssumption DEF JobsAssumption
  <1>4. CASE LoadFile(w)
    <2> DEFINE f == file[Mine(w)]
               x == [worker[w] EXCEPT !.step = "loaded", !.rows = f.people]
    <2>1. ~At(w, "idle")
      BY <1>4 DEF LoadFile, At
    <2>2. worker[w] \in WorkerRecord /\ worker[w].job \in Jobs
      BY <2>1, BusyHasJob DEF Mine
    <2>3. "loaded" \in Steps /\ f.people \in SUBSET People
      BY <2>2 DEF Steps, FileType, FileRecord, Mine
    <2>4. x \in WorkerRecord /\ x.step = "loaded" /\ x.job = worker[w].job
      <3> HIDE DEF f
      <3> QED BY <2>2, <2>3, Zenon DEF WorkerRecord
    <2>5. worker' = [worker EXCEPT ![w] = x] \/ Goes(w, "failing")
      BY <1>4 DEF LoadFile
    <2>6. "failing" \in Steps \ {"idle"}
      BY DEF Steps
    <2> HIDE DEF x
    <2>7. CASE worker' = [worker EXCEPT ![w] = x]
      BY <2>2, <2>4, <2>7, WorkerSet, JobsAssumption DEF JobsAssumption
    <2>8. CASE Goes(w, "failing")
      BY <2>1, <2>6, <2>8, GoesKeepsType
    <2> QED BY <2>5, <2>7, <2>8
  <1>5. CASE \/ RecordFile(w) \/ TakeBack(w) \/ NoteKey(w) \/ CommitImport(w)
             \/ Unstage(w) \/ MarkFailed(w) \/ ReadAudit(w) \/ Reclaim(w)
             \/ RunFails(w) \/ TakeBackFails(w) \/ Crash(w)
    <2>1. ~At(w, "idle")
      BY <1>5 DEF RecordFile, TakeBack, NoteKey, CommitImport, Unstage, MarkFailed,
                  ReadAudit, Reclaim, RunFails, TakeBackFails, Crash, At
    <2>2. Rests(w) \/ \E step \in Steps \ {"idle"} : Goes(w, step)
      BY <1>5 DEF RecordFile, TakeBack, NoteKey, CommitImport, Unstage, MarkFailed,
                  ReadAudit, Reclaim, RunFails, TakeBackFails, Crash, Leaves, Steps
    <2> QED BY <2>1, <2>2, RestsKeepsType, GoesKeepsType
  <1> QED BY <1>1, <1>2, <1>3, <1>4, <1>5 DEF RunStep, WorkerFault

\* Picking a job up, to run it or to close it.
LEMMA PickUpKeepsType ==
  ASSUME WorkerType, JobType, NEW w \in Workers, NEW j \in Jobs,
         Claim(w, j) \/ FindStale(w, j)
  PROVE  WorkerType'
PROOF
  <1>1. j # Nothing /\ Rest \in WorkerRecord
    BY RestType, JobsAssumption DEF JobsAssumption
  <1>2. "claimed" \in Steps /\ "stale" \in Steps
    BY DEF Steps
  <1>3. CASE Claim(w, j)
    <2> DEFINE x == [Rest EXCEPT !.step = "claimed", !.job = j]
    <2>1. x \in WorkerRecord /\ x.step = "claimed" /\ x.job = j
      BY <1>1, <1>2, Zenon DEF WorkerRecord
    <2>2. worker' = [worker EXCEPT ![w] = x]
      BY <1>3 DEF Claim
    <2> HIDE DEF x
    <2> QED BY <1>1, <2>1, <2>2, WorkerSet
  <1>4. CASE FindStale(w, j)
    <2> DEFINE x == [Rest EXCEPT !.step = "stale", !.job = j, !.seen = job[j].status]
    <2>1. job[j].status \in {"none"} \cup Open
      BY <1>4 DEF FindStale, Open
    <2>2. x \in WorkerRecord /\ x.step = "stale" /\ x.job = j
      <3> DEFINE seen == job[j].status
      <3> HIDE DEF seen
      <3> QED BY <1>1, <1>2, <2>1, Zenon DEF WorkerRecord, seen
    <2>3. worker' = [worker EXCEPT ![w] = x]
      BY <1>4 DEF FindStale
    <2> HIDE DEF x
    <2> QED BY <1>1, <2>2, <2>3, WorkerSet
  <1> QED BY <1>3, <1>4

\* Updates of one field of a job's row.
StatusSet(x, s) == [x EXCEPT !.status = s]
KeySet(x, b) == [x EXCEPT !.key = b]

\* What they leave as it was.
LEMMA StatusFields ==
  ASSUME NEW x \in JobRecord, NEW s \in Statuses
  PROVE  /\ StatusSet(x, s) \in JobRecord
         /\ StatusSet(x, s).status = s
         /\ StatusSet(x, s).key = x.key
         /\ StatusSet(x, s).invalid = x.invalid
         /\ s = x.status => StatusSet(x, s) = x
PROOF
  <1>1. /\ StatusSet(x, s) \in JobRecord
        /\ StatusSet(x, s).status = s
        /\ StatusSet(x, s).key = x.key
        /\ StatusSet(x, s).invalid = x.invalid
    BY Zenon DEF JobRecord, StatusSet
  <1>2. s = x.status => StatusSet(x, s) = x
    BY DEF JobRecord, StatusSet
  <1> QED BY <1>1, <1>2

\* The same of the key.
LEMMA KeyFields ==
  ASSUME NEW x \in JobRecord, NEW b \in BOOLEAN
  PROVE  /\ KeySet(x, b) \in JobRecord
         /\ KeySet(x, b).status = x.status
         /\ KeySet(x, b).key = b
         /\ KeySet(x, b).invalid = x.invalid
PROOF
  BY Zenon DEF JobRecord, KeySet

\* An erasure closes what is open and nothing else, and marks every export.
LEMMA StoppedRow ==
  ASSUME JobType, NEW j \in Jobs
  PROVE  /\ Stopped(j) \in JobRecord
         /\ job[j].status \in Open => Stopped(j).status = "failed"
         /\ job[j].status \notin Open => Stopped(j).status = job[j].status
         /\ Stopped(j).key = job[j].key
         /\ job[j].status # "none" =>
              Stopped(j).invalid = (job[j].invalid \/ j \in Exports)
PROOF
  <1> DEFINE x == job[j]
             s == IF x.status \in Open THEN "failed" ELSE x.status
             b == x.invalid \/ j \in Exports
             y == [x EXCEPT !.status = s, !.invalid = b]
  <1>1. x \in JobRecord
    BY DEF JobType
  <1>2. s \in Statuses /\ b \in BOOLEAN
    BY <1>1 DEF JobRecord, Statuses, Finished
  <1>3. CASE x.status = "none"
    BY <1>1, <1>3 DEF Stopped, Open
  <1>4. CASE x.status # "none"
    <2>1. Stopped(j) = y
      BY <1>4 DEF Stopped
    <2> HIDE DEF x, s, b
    <2>2. y \in JobRecord /\ y.status = s /\ y.key = x.key /\ y.invalid = b
      BY <1>1, <1>2, Zenon DEF JobRecord
    <2> HIDE DEF y
    <2>3. /\ Stopped(j) \in JobRecord /\ Stopped(j).status = s
          /\ Stopped(j).key = x.key /\ Stopped(j).invalid = b
      BY <2>1, <2>2
    <2> QED BY <2>3 DEF x, s, b
  <1> QED BY <1>3, <1>4

-----------------------------------------------------------------------------
(***************************************************************************)
(* What a step may do to one job                                           *)
(***************************************************************************)
\* An upload in progress has no row yet.
UploadingIsNew == \A j \in uploading : job[j].status = "none"

\* Which jobs a worker may have in hand at a step, and what it knows of them.
ShapeOf(x, done) ==
  /\ x.step \in {"built", "stored", "takeback", "noting"} => x.job \in Exports
  /\ x.step \in {"loaded", "unstaging", "heal", "reclaim"} => x.job \in Imports
  /\ x.step \in {"stale", "heal", "reclaim"} => x.seen \in Open
  /\ x.step = "heal" => x.job \in done /\ x.seen = "running"
WorkerShape == \A w \in Workers : ShapeOf(worker[w], landed)

StatusKept(j) == job'[j].status = job[j].status
Created(j) == /\ RequestExport(j) \/ CreateImport(j)
              /\ job[j].status = "none" /\ job'[j].status = "pending"
Started(j) == job[j].status = "pending" /\ job'[j].status = "running"
Ended(j) == job[j].status \in Open /\ job'[j].status \in Finished

MarkKept(j) == job[j].status \in Finished /\ job[j].invalid => job'[j].invalid
JobChange(j) == /\ job'[j] \in JobRecord
                /\ StatusKept(j) \/ Created(j) \/ Started(j) \/ Ended(j)
                /\ MarkKept(j)
KeyKept(j) == job[j].key => job'[j].key
NoSuccess(j) == job'[j].status = "succeeded" => job[j].status = "succeeded"

\* A job is created, started and ended, in that order, and never taken further.
LEMMA WorkerJobChange ==
  ASSUME TypeOK, WorkerShape, NEW w \in Workers, RunStep(w) \/ WorkerFault(w),
         NEW j \in Jobs
  PROVE  JobChange(j) /\ KeyKept(j)
PROOF
  <1>1. job[j] \in JobRecord /\ DOMAIN job = Jobs
    BY DEF TypeOK, JobRecord
  <1> DEFINE keep == job'[j] = job[j]
             file_ == job'[j] = WithFile(j) /\ job[j].status = "running"
             key_ == job'[j] = KeySet(job[j], TRUE)
             set_ == \E s \in Finished : /\ job[j].status \in Open
                                         /\ job'[j] = StatusSet(job[j], s)
  <1>2. keep \/ file_ \/ key_ \/ set_
    <2>1. CASE \/ ReadRows(w) \/ PutFile(w) \/ TakeBack(w) \/ LoadFile(w)
               \/ Unstage(w) \/ ReadAudit(w) \/ RunFails(w) \/ TakeBackFails(w)
               \/ Crash(w)
      BY <2>1 DEF ReadRows, PutFile, TakeBack, LoadFile, Unstage, ReadAudit,
                  RunFails, TakeBackFails, Crash
    <2>2. CASE RecordFile(w) \/ RecordBreaks(w)
      BY <1>1, <2>2 DEF RecordFile, RecordBreaks, StillRunning, WithFile
    <2>3. CASE NoteKey(w)
      BY <1>1, <2>3 DEF NoteKey, KeySet
    <2>4. CASE CommitImport(w)
      BY <1>1, <2>4 DEF CommitImport, StillRunning, Open, Finished, StatusSet
    <2>5. CASE MarkFailed(w)
      <3>1. /\ job[j].status = "running"
            /\ job'[j] \in {job[j], StatusSet(job[j], "failed")}
            \/ job'[j] \in {job[j], StatusSet(job[j], job[j].status)}
        BY <1>1, <2>5 DEF MarkFailed, StatusSet
      <3>2. job[j].status \in Statuses
        BY <1>1 DEF JobRecord
      <3> QED BY <1>1, <3>1, <3>2, StatusFields DEF Open, Finished
    <2>6. CASE Reclaim(w)
      <3>1. worker[w].seen \in Open
        BY <2>6 DEF Reclaim, WorkerShape, ShapeOf, At
      <3> QED BY <1>1, <2>6, <3>1 DEF Reclaim, AsRead, Open, Finished, StatusSet
    <2> QED BY <2>1, <2>2, <2>3, <2>4, <2>5, <2>6 DEF RunStep, WorkerFault
  <1>3. \A s \in Finished : s \in Statuses
    BY DEF Statuses
  <1>7. CASE keep
    BY <1>1, <1>7 DEF JobChange, StatusKept, MarkKept, KeyKept
  <1>4. CASE file_
    BY <1>4 DEF JobChange, Ended, MarkKept, KeyKept, WithFile, JobRecord, Statuses,
                Open, Finished
  <1>5. CASE key_
    <2>1. /\ KeySet(job[j], TRUE) \in JobRecord
          /\ KeySet(job[j], TRUE).status = job[j].status
          /\ KeySet(job[j], TRUE).invalid = job[j].invalid
          /\ KeySet(job[j], TRUE).key = TRUE
      BY <1>1, KeyFields, Zenon
    <2> QED BY <1>5, <2>1 DEF JobChange, StatusKept, MarkKept, KeyKept
  <1>6. CASE set_
    <2>1. PICK s \in Finished : /\ job[j].status \in Open
                                /\ job'[j] = StatusSet(job[j], s)
      BY <1>6
    <2>2. /\ StatusSet(job[j], s) \in JobRecord /\ StatusSet(job[j], s).status = s
          /\ StatusSet(job[j], s).key = job[j].key
      BY <1>1, <1>3, StatusFields, Zenon
    <2> QED BY <2>1, <2>2 DEF JobChange, Ended, MarkKept, KeyKept, Open, Finished
  <1> QED BY <1>2, <1>4, <1>5, <1>6, <1>7

\* The steps that are no worker's.
RequestOf(j) == RequestExport(j) \/ StageImport(j) \/ CreateImport(j)
                \/ CreateImportFails(j)
ReaderStep == \/ \E j \in Jobs : OpenDownload(j)
              \/ ReadFile \/ Answer \/ CloseDownload
EraserStep(e) == \/ PurgeKey(e) \/ PurgeDies(e)
                 \/ \E p \in People : Erase(e, p)
                 \/ \E j \in Jobs : PurgeFile(e, j)
OutsideStep ==
  \/ \E j \in Jobs : RequestOf(j) \/ Age(j)
  \/ \E e \in Erasers : EraserStep(e)
  \/ KeeperStep \/ ReaderStep

\* The same of everybody who is no worker; none of them makes a job succeed.
LEMMA OutsideJobChange ==
  ASSUME TypeOK, UploadingIsNew, OutsideStep, NEW j \in Jobs
  PROVE  JobChange(j) /\ NoSuccess(j)
PROOF
  <1>1. job[j] \in JobRecord /\ DOMAIN job = Jobs
    BY DEF TypeOK, JobRecord
  <1> DEFINE keep == job'[j] = job[j]
             key_ == job'[j] = KeySet(job[j], FALSE)
             new_ == /\ RequestExport(j) \/ CreateImport(j)
                     /\ job[j].status = "none"
                     /\ \/ job'[j] = StatusSet(job[j], "pending")
                        \/ job'[j] = [status |-> "pending", key |-> TRUE,
                                      invalid |-> FALSE]
             stop_ == job'[j] = Stopped(j)
  <1>2. keep \/ key_ \/ new_ \/ stop_
    <2>1. ASSUME NEW i \in Jobs, RequestOf(i)
          PROVE  keep \/ new_
      <3>1. CASE i = j
        BY <1>1, <2>1, <3>1 DEF RequestOf, RequestExport, StageImport, CreateImport,
                                CreateImportFails, UploadingIsNew, StatusSet
      <3>2. CASE i # j
        BY <1>1, <2>1, <3>2 DEF RequestOf, RequestExport, StageImport, CreateImport,
                                CreateImportFails
      <3> QED BY <3>1, <3>2
    <2>2. CASE ReaderStep \/ \E i \in Jobs : Age(i)
      BY <2>2 DEF Age, ReaderStep, OpenDownload, ReadFile, Answer, CloseDownload,
                  ReaderOnly
    <2>3. ASSUME NEW e \in Erasers, EraserStep(e)
          PROVE  keep \/ key_ \/ stop_
      BY <1>1, <2>3 DEF EraserStep, PurgeKey, PurgeDies, Erase, PurgeFile,
                        ForgetKey, KeySet
    <2>4. CASE KeeperStep
      BY <1>1, <2>4 DEF KeeperStep, KeepOrDelete, SweepLook, ClearKey, SweepDelete,
                        ForgetKey, KeySet
    <2> QED BY <2>1, <2>2, <2>3, <2>4 DEF OutsideStep
  <1>3. CASE keep
    BY <1>1, <1>3 DEF JobChange, StatusKept, MarkKept, NoSuccess
  <1>4. CASE key_
    <2>1. /\ KeySet(job[j], FALSE) \in JobRecord
          /\ KeySet(job[j], FALSE).status = job[j].status
          /\ KeySet(job[j], FALSE).invalid = job[j].invalid
      BY <1>1, KeyFields, Zenon
    <2> QED BY <1>4, <2>1 DEF JobChange, StatusKept, MarkKept, NoSuccess
  <1>5. CASE new_
    <2>1. "pending" \in Statuses
      BY DEF Statuses, Open
    <2>2. /\ StatusSet(job[j], "pending") \in JobRecord
          /\ StatusSet(job[j], "pending").status = "pending"
      BY <1>1, <2>1, StatusFields, Zenon
    <2>3. [status |-> "pending", key |-> TRUE, invalid |-> FALSE] \in JobRecord
      BY <2>1 DEF JobRecord
    <2> QED BY <1>5, <2>2, <2>3
            DEF JobChange, Created, MarkKept, NoSuccess, Finished
  <1>6. CASE stop_
    BY <1>6, StoppedRow DEF JobChange, StatusKept, Ended, MarkKept, NoSuccess, TypeOK, JobType,
                            JobRecord, Finished, Open
  <1> QED BY <1>2, <1>3, <1>4, <1>5, <1>6

\* Claiming a job starts it; finding one stale changes nothing yet.
LEMMA PickUpJobChange ==
  ASSUME TypeOK, NEW w \in Workers, NEW i \in Jobs, Claim(w, i) \/ FindStale(w, i),
         NEW j \in Jobs
  PROVE  JobChange(j) /\ NoSuccess(j) /\ KeyKept(j)
PROOF
  <1>1. job[j] \in JobRecord /\ DOMAIN job = Jobs
    BY DEF TypeOK, JobRecord
  <1>2. \/ job'[j] = job[j]
        \/ job[j].status = "pending" /\ job'[j] = StatusSet(job[j], "running")
    BY <1>1 DEF Claim, FindStale, StatusSet
  <1>3. "running" \in Statuses
    BY DEF Statuses, Open
  <1>4. /\ StatusSet(job[j], "running") \in JobRecord
        /\ StatusSet(job[j], "running").status = "running"
        /\ StatusSet(job[j], "running").key = job[j].key
    BY <1>1, <1>3, StatusFields, Zenon
  <1> QED BY <1>1, <1>2, <1>4 
      DEF JobChange, StatusKept, Started, MarkKept, KeyKept, NoSuccess, Finished

\* Four kinds of step.
LEMMA NextCases ==
  ASSUME [Next]_vars
  PROVE  \/ UNCHANGED vars
         \/ OutsideStep
         \/ \E w \in Workers : RunStep(w) \/ WorkerFault(w)
         \/ \E w \in Workers, j \in Jobs : Claim(w, j) \/ FindStale(w, j)
PROOF
  BY DEF Next, OutsideStep, RequestOf, ReaderStep, EraserStep

\* One step, one job.
LEMMA StepJobChange ==
  ASSUME TypeOK, UploadingIsNew, WorkerShape, [Next]_vars, NEW j \in Jobs
  PROVE  JobChange(j)
PROOF
  <1>1. CASE UNCHANGED vars
    BY <1>1 DEF vars, JobChange, StatusKept, MarkKept, TypeOK, JobRecord
  <1> QED BY <1>1, NextCases, OutsideJobChange, WorkerJobChange, PickUpJobChange

-----------------------------------------------------------------------------
(***************************************************************************)
(* Type correctness                                                        *)
(***************************************************************************)
\* What a worker's step leaves of files, list and histories.
LEMMA WorkerStepKeepsOthers ==
  ASSUME TypeOK, WorkerShape, NEW w \in Workers, RunStep(w) \/ WorkerFault(w)
  PROVE  FileType' /\ OutsideType'
PROOF
  <1> USE DEF Elsewhere
  <1>1. WorkerType /\ JobType /\ FileType /\ OutsideType
    BY TypeParts
  <1>2. Mine(w) \in Jobs \cup {Nothing} /\ worker[w].rows \in SUBSET People
    BY <1>1 DEF WorkerType, WorkerRecord, Mine
  <1>3. CASE \/ RecordFile(w) \/ NoteKey(w) \/ LoadFile(w) \/ MarkFailed(w)
             \/ ReadAudit(w) \/ Reclaim(w) \/ RunFails(w)
    BY <1>1, <1>3 DEF RecordFile, NoteKey, LoadFile, MarkFailed, ReadAudit, Reclaim,
                      RunFails, FileType, OutsideType
  <1>4. CASE ReadRows(w)
    BY <1>1, <1>4 DEF ReadRows, FileType, OutsideType
  <1>5. CASE PutFile(w)
    <2>1. [stored |-> TRUE, people |-> worker[w].rows, old |-> FALSE] \in FileRecord
      BY <1>2 DEF FileRecord
    <2> QED BY <1>1, <1>5, <2>1 DEF PutFile, FileType, OutsideType
  <1>6. \A j \in Jobs : [file[j] EXCEPT !.stored = FALSE] \in FileRecord
    BY <1>1 DEF FileType, FileRecord
  <1>7. ASSUME NEW j \in Jobs, Delete(j)
        PROVE  FileType'
    BY <1>1, <1>6, <1>7 DEF Delete, FileType
  <1>8. CASE TakeBack(w)
    <2>1. Mine(w) \in Jobs
      BY <1>1, <1>8, BusyHasJob DEF TakeBack, At
    <2> QED BY <1>1, <1>7, <1>8, <2>1 DEF TakeBack, OutsideType
  <1>9. CASE Unstage(w)
    <2>1. Mine(w) \in Jobs
      BY <1>1, <1>9, BusyHasJob DEF Unstage, At
    <2> QED BY <1>1, <1>7, <1>9, <2>1 DEF Unstage, Fault, FileType, OutsideType
  <1>10. CASE CommitImport(w)
    <2>1. Mine(w) \in Imports
      BY <1>10 DEF CommitImport, At, Mine, WorkerShape, ShapeOf
    <2> QED BY <1>1, <1>2, <1>10, <2>1 DEF CommitImport, FileType, OutsideType
  <1>11. CASE RecordBreaks(w)
    BY <1>1, <1>11 DEF RecordBreaks, Fault, FileType, OutsideType
  <1>12. CASE TakeBackFails(w) \/ Crash(w)
    <2>1. Mine(w) \in Jobs
      BY <1>1, <1>12, BusyHasJob DEF TakeBackFails, Crash, At
    <2> QED BY <1>1, <1>12, <2>1 DEF TakeBackFails, Crash, Fault, FileType, OutsideType
  <1> QED BY <1>3, <1>4, <1>5, <1>8, <1>9, <1>10, <1>11, <1>12
          DEF RunStep, WorkerFault

\* The same of everybody else.
LEMMA OutsideKeepsOthers ==
  ASSUME TypeOK, OutsideStep
  PROVE  WorkerType' /\ FileType' /\ OutsideType'
PROOF
  <1>1. WorkerType /\ JobType /\ FileType /\ OutsideType
    BY TypeParts
  <1>2. \A j \in Jobs : /\ [file[j] EXCEPT !.stored = FALSE] \in FileRecord
                        /\ [file[j] EXCEPT !.old = TRUE] \in FileRecord
    BY <1>1 DEF FileType, FileRecord
  <1>3. ASSUME NEW j \in Jobs, Delete(j)
        PROVE  FileType'
    BY <1>1, <1>2, <1>3 DEF Delete, FileType
  <1>4. ASSUME UNCHANGED worker
        PROVE  WorkerType'
    BY <1>1, <1>4 DEF WorkerType, Mine, At
  <1>5. ASSUME NEW j \in Jobs, RequestOf(j)
        PROVE  WorkerType' /\ FileType' /\ OutsideType'
    <2>1. \A S \in SUBSET People :
            [stored |-> TRUE, people |-> S, old |-> FALSE] \in FileRecord
      BY DEF FileRecord
    <2>2. CASE RequestExport(j)
      BY <1>1, <1>4, <2>2 DEF RequestExport, Elsewhere, FileType, OutsideType
    <2>3. CASE StageImport(j)
      BY <1>1, <1>4, <2>1, <2>3 DEF StageImport, FileType, OutsideType, Jobs
    <2>4. CASE CreateImport(j)
      BY <1>1, <1>4, <2>4 DEF CreateImport, FileType, OutsideType
    <2>5. CASE CreateImportFails(j)
      BY <1>1, <1>3, <1>4, <2>5 DEF CreateImportFails, Fault, FileType, OutsideType
    <2> QED BY <1>5, <2>2, <2>3, <2>4, <2>5 DEF RequestOf
  <1>6. ASSUME NEW j \in Jobs, Age(j)
        PROVE  WorkerType' /\ FileType' /\ OutsideType'
    BY <1>1, <1>2, <1>4, <1>6 DEF Age, FileType, OutsideType
  <1>7. CASE ReaderStep
    <2>1. Nothing \notin Jobs
      BY JobsAssumption DEF JobsAssumption
    <2> QED BY <1>1, <1>4, <1>7, <2>1
            DEF ReaderStep, OpenDownload, ReadFile, Answer, CloseDownload, ReaderOnly,
                FileType, OutsideType
  <1>8. ASSUME NEW e \in Erasers, EraserStep(e)
        PROVE  WorkerType' /\ FileType' /\ OutsideType'
    <2>1. purge[e] \in PurgeRecord
      BY <1>1 DEF OutsideType
    <2> USE DEF PurgeRecord
    <2>2. CASE PurgeKey(e)
      BY <1>1, <1>4, <2>1, <2>2 DEF PurgeKey, FileType, OutsideType
    <2>3. CASE PurgeDies(e)
      BY <1>1, <1>4, <2>1, <2>3 DEF PurgeDies, Fault, FileType, OutsideType
    <2>4. ASSUME NEW p \in People, Erase(e, p)
          PROVE  WorkerType' /\ FileType' /\ OutsideType'
      <3>1. gone' \in [Jobs -> SUBSET People]
        BY <1>1, <2>4 DEF Erase, OutsideType
      <3>2. purge' \in [Erasers -> PurgeRecord]
        BY <1>1, <2>1, <2>4 DEF Erase, OutsideType
      <3> QED BY <1>1, <1>4, <2>4, <3>1, <3>2 DEF Erase, FileType, OutsideType
    <2>5. ASSUME NEW j \in Jobs, PurgeFile(e, j)
          PROVE  WorkerType' /\ FileType' /\ OutsideType'
      <3>1. purge' \in [Erasers -> PurgeRecord]
        <4> DEFINE left == purge[e].todo \ {j}
                   x == [purge[e] EXCEPT !.todo = left]
                   y == [purge[e] EXCEPT !.todo = left, !.clearing = j]
        <4>1. left \in SUBSET Jobs /\ j \in Jobs \cup {Nothing}
          BY <2>1
        <4>2. x \in PurgeRecord /\ y \in PurgeRecord
          <5> HIDE DEF left
          <5> QED BY <2>1, <4>1, Zenon
        <4>3. \/ purge' = [purge EXCEPT ![e].todo = left]
              \/ purge' = [purge EXCEPT ![e].todo = left, ![e].clearing = j]
          BY <2>5 DEF PurgeFile
        <4>4. \/ purge' = [purge EXCEPT ![e] = x]
              \/ purge' = [purge EXCEPT ![e] = y]
          <5> HIDE DEF left
          <5> QED BY <1>1, <4>3 DEF OutsideType
        <4> HIDE DEF x, y
        <4> QED BY <1>1, <4>2, <4>4 DEF OutsideType
      <3>2. FileType'
        BY <1>1, <1>3, <2>5 DEF PurgeFile, FileType
      <3>3. /\ UNCHANGED <<list, landed, uploading, worker, keeper, reader, gone>>
            /\ faults' \in {faults, faults + 1}
            /\ spared' \in {spared, spared \cup {j}}
        BY <2>5 DEF PurgeFile, Fault
      <3> QED BY <1>1, <1>4, <3>1, <3>2, <3>3 DEF OutsideType
    <2> QED BY <1>8, <2>2, <2>3, <2>4, <2>5 DEF EraserStep
  <1>9. CASE KeeperStep
    <2>1. Nothing \notin Jobs
      BY JobsAssumption DEF JobsAssumption
    <2>2. ASSUME NEW j \in Jobs, KeepOrDelete(j) \/ SweepLook(j)
          PROVE  WorkerType' /\ FileType' /\ OutsideType'
      BY <1>1, <1>3, <1>4, <2>1, <2>2
         DEF KeepOrDelete, SweepLook, KeeperStays, Fault, FileType, OutsideType
    <2>3. CASE ClearKey \/ SweepDelete
      <3>1. keeper.job \in Jobs
        BY <1>1, <2>3 DEF ClearKey, SweepDelete, OutsideType
      <3> QED BY <1>1, <1>3, <1>4, <2>1, <2>3, <3>1
              DEF ClearKey, SweepDelete, KeeperStays, Fault, FileType, OutsideType
    <2> QED BY <1>9, <2>2, <2>3 DEF KeeperStep
  <1> QED BY <1>5, <1>6, <1>7, <1>8, <1>9 DEF OutsideStep

\* An import lands by a worker that finds its job running, and in no other way.
LEMMA LandedStep ==
  ASSUME TypeOK, [Next]_vars
  PROVE  \/ UNCHANGED landed
         \/ \E w \in Workers : /\ CommitImport(w)
                               /\ StillRunning(Mine(w))
                               /\ landed' = landed \cup {Mine(w)}
                               /\ job' = [job EXCEPT ![Mine(w)].status = "succeeded"]
PROOF
  <1>1. CASE UNCHANGED vars
    BY <1>1 DEF vars
  <1>2. CASE OutsideStep
    BY <1>2 DEF OutsideStep, RequestOf, RequestExport, StageImport, CreateImport,
                CreateImportFails, Age, EraserStep, PurgeKey, PurgeDies, Erase,
                PurgeFile, KeeperStep, KeepOrDelete, ClearKey, SweepLook,
                SweepDelete, KeeperStays, ReaderStep, OpenDownload, ReadFile,
                Answer, CloseDownload, ReaderOnly
  <1>3. ASSUME NEW w \in Workers, RunStep(w) \/ WorkerFault(w)
        PROVE  \/ UNCHANGED landed
               \/ /\ CommitImport(w)
                  /\ StillRunning(Mine(w))
                  /\ landed' = landed \cup {Mine(w)}
                  /\ job' = [job EXCEPT ![Mine(w)].status = "succeeded"]
    BY <1>3 DEF RunStep, WorkerFault, ReadRows, PutFile, RecordFile, TakeBack,
                NoteKey, LoadFile, CommitImport, Unstage, MarkFailed, ReadAudit,
                Reclaim, RunFails, RecordBreaks, TakeBackFails, Crash
  <1>4. ASSUME NEW w \in Workers, NEW j \in Jobs, Claim(w, j) \/ FindStale(w, j)
        PROVE  UNCHANGED landed
    BY <1>4 DEF Claim, FindStale
  <1> QED BY <1>1, <1>2, <1>3, <1>4, NextCases

\* A worker's step leaves it with a job it may have in hand there.
LEMMA ShapeStep ==
  ASSUME TypeOK, WorkerShape, [Next]_vars
  PROVE  WorkerShape'
PROOF
  <1>1. worker \in [Workers -> WorkerRecord] /\ landed \subseteq landed'
    BY LandedStep, TypeParts DEF WorkerType
  <1>2. \A v \in Workers : worker'[v] = worker[v] => ShapeOf(worker'[v], landed')
    BY <1>1 DEF WorkerShape, ShapeOf
  <1>3. CASE UNCHANGED worker
    BY <1>2, <1>3 DEF WorkerShape
  <1>4. ASSUME NEW w \in Workers, NEW x, worker' = [worker EXCEPT ![w] = x],
               ShapeOf(x, landed')
        PROVE  WorkerShape'
    <2>1. \A v \in Workers : worker'[v] = IF v = w THEN x ELSE worker[v]
      BY <1>1, <1>4
    <2> QED BY <1>2, <1>4, <2>1 DEF WorkerShape, ShapeOf
  <1>5. ASSUME NEW w \in Workers, Rests(w)
        PROVE  WorkerShape'
    BY <1>4, <1>5 DEF Rests, Rest, ShapeOf
  <1>6. ASSUME NEW w \in Workers, NEW step, Goes(w, step),
               \/ step \in {"failing", "idle"}
               \/ step \in {"takeback", "noting"} /\ Mine(w) \in Exports
               \/ step = "unstaging" /\ Mine(w) \in Imports
               \/ /\ step \in {"heal", "reclaim"} /\ Mine(w) \in Imports
                  /\ worker[w].seen = "running"
                  /\ step = "heal" => Mine(w) \in landed
        PROVE  WorkerShape'
    <2> DEFINE x == [worker[w] EXCEPT !.step = step]
    <2>1. worker[w] \in WorkerRecord
      BY <1>1
    <2>2. x.step = step /\ x.job = worker[w].job /\ x.seen = worker[w].seen
      BY <2>1, Zenon DEF WorkerRecord
    <2>3. worker' = [worker EXCEPT ![w] = x]
      BY <1>6 DEF Goes
    <2> HIDE DEF x
    <2>4. ShapeOf(x, landed')
      BY <1>1, <1>6, <2>2 DEF ShapeOf, Mine, Open
    <2> QED BY <1>4, <2>3, <2>4
  <1>7. ASSUME NEW w \in Workers, RunStep(w) \/ WorkerFault(w)
        PROVE  WorkerShape'
    <2>0. ShapeOf(worker[w], landed) /\ worker[w] \in WorkerRecord
      BY <1>1 DEF WorkerShape
    <2>1. CASE ReadRows(w) \/ PutFile(w) \/ RecordBreaks(w) \/ LoadFile(w)
      <3>1. \/ \E r \in {list, {}} : \E q \in {"built", "stored"} :
                 /\ worker' = [worker EXCEPT ![w].step = q, ![w].rows = r]
                 /\ Mine(w) \in Exports
            \/ /\ worker' = [worker EXCEPT ![w].step = "takeback",
                                           ![w].after = "failing"]
               /\ Mine(w) \in Exports
            \/ \E r : /\ worker' = [worker EXCEPT ![w].step = "loaded", ![w].rows = r]
                      /\ Mine(w) \in Imports
            \/ Goes(w, "failing")
        BY <2>0, <2>1 DEF ReadRows, PutFile, RecordBreaks, LoadFile, ShapeOf, Mine, At
      <3>2. \/ /\ worker'[w].step \in {"built", "stored", "takeback"}
               /\ worker'[w].job \in Exports
            \/ worker'[w].step = "loaded" /\ worker'[w].job \in Imports
            \/ Goes(w, "failing")
        BY <1>1, <3>1 DEF Mine, WorkerRecord
      <3>3. \A v \in Workers \ {w} : worker'[v] = worker[v]
        BY <1>1, <2>1 DEF ReadRows, PutFile, RecordBreaks, LoadFile, Goes
      <3> QED BY <1>2, <1>6, <3>2, <3>3 DEF WorkerShape, ShapeOf
    <2>2. CASE \/ RecordFile(w) \/ TakeBack(w) \/ NoteKey(w) \/ CommitImport(w)
               \/ Unstage(w) \/ MarkFailed(w) \/ ReadAudit(w) \/ Reclaim(w)
               \/ RunFails(w) \/ TakeBackFails(w) \/ Crash(w)
      <3>1. \/ Rests(w) \/ Goes(w, "failing")
            \/ \E q \in {"takeback", "noting"} : Goes(w, q) /\ Mine(w) \in Exports
            \/ Goes(w, "unstaging") /\ Mine(w) \in Imports
            \/ \E q \in {"heal", "reclaim"} :
                 /\ Goes(w, q) /\ Mine(w) \in Imports
                 /\ worker[w].seen = "running"
                 /\ q = "heal" => Mine(w) \in landed
        BY <2>0, <2>2 DEF RecordFile, TakeBack, NoteKey, CommitImport, Unstage,
             MarkFailed, ReadAudit, Reclaim, RunFails, TakeBackFails, Crash, Leaves,
             ShapeOf, Mine, At
      <3> QED BY <1>5, <1>6, <3>1
    <2> QED BY <1>7, <2>1, <2>2 DEF RunStep, WorkerFault
  <1>8. ASSUME NEW w \in Workers, NEW j \in Jobs, Claim(w, j) \/ FindStale(w, j)
        PROVE  WorkerShape'
    <2> DEFINE x == [Rest EXCEPT !.step = "claimed", !.job = j]
               y == [Rest EXCEPT !.step = "stale", !.job = j, !.seen = job[j].status]
    <2>1. \/ worker' = [worker EXCEPT ![w] = x]
          \/ worker' = [worker EXCEPT ![w] = y] /\ job[j].status \in Open
      BY <1>8 DEF Claim, FindStale, Open
    <2>2. x.step = "claimed" /\ y.step = "stale" /\ y.seen = job[j].status
      BY DEF Rest
    <2> HIDE DEF x, y
    <2>3. ShapeOf(x, landed') /\ (job[j].status \in Open => ShapeOf(y, landed'))
      BY <2>2 DEF ShapeOf
    <2> QED BY <1>4, <2>1, <2>3
  <1>9. CASE OutsideStep
    BY <1>3, <1>9
       DEF OutsideStep, RequestOf, RequestExport, StageImport, CreateImport,
           CreateImportFails, Elsewhere, Age, EraserStep, PurgeKey, PurgeDies, Erase,
           PurgeFile, KeeperStep, KeepOrDelete, ClearKey, SweepLook, SweepDelete,
           KeeperStays, ReaderStep, OpenDownload, ReadFile, Answer, CloseDownload,
           ReaderOnly
  <1>10. CASE UNCHANGED vars
    BY <1>3, <1>10 DEF vars
  <1> QED BY <1>7, <1>8, <1>9, <1>10, NextCases

\* An upload in progress keeps being without a row until it makes one.
LEMMA UploadingStep ==
  ASSUME TypeOK, UploadingIsNew, WorkerShape, [Next]_vars
  PROVE  UploadingIsNew'
PROOF
  <1>1. uploading \subseteq Imports
    BY DEF TypeOK
  <1>2. ASSUME NEW j \in Jobs, StageImport(j)
        PROVE  UploadingIsNew'
    BY <1>2 DEF StageImport, UploadingIsNew
  <1>3. ASSUME ~\E j \in Jobs : StageImport(j)
        PROVE  uploading' \subseteq uploading
    BY <1>3, NextCases, ZenonT(60)
       DEF vars, OutsideStep, RequestOf, RequestExport, CreateImport,
           CreateImportFails, Elsewhere, Age, EraserStep, PurgeKey, PurgeDies, Erase,
           PurgeFile, KeeperStep, KeepOrDelete, ClearKey, SweepLook, SweepDelete,
           KeeperStays, ReaderStep, OpenDownload, ReadFile, Answer, CloseDownload,
           ReaderOnly, RunStep, WorkerFault, ReadRows, PutFile, RecordFile, TakeBack,
           NoteKey, LoadFile, CommitImport, Unstage, MarkFailed, ReadAudit, Reclaim,
           RunFails, RecordBreaks, TakeBackFails, Crash, Claim, FindStale
  <1>4. ASSUME NEW j \in uploading', j \in uploading
        PROVE  job'[j].status = "none"
    <2>1. j \in Jobs /\ job[j].status = "none" /\ j \notin Exports
      BY <1>1, <1>4, JobsAssumption DEF Jobs, UploadingIsNew, JobsAssumption
    <2>2. ~RequestExport(j) /\ ~CreateImport(j)
      BY <1>4, <2>1 DEF RequestExport, CreateImport
    <2> QED BY <2>1, <2>2, StepJobChange
            DEF JobChange, StatusKept, Created, Started, Ended, Open
  <1> QED BY <1>2, <1>3, <1>4 DEF UploadingIsNew

\* Types, and the shape of what workers and uploads have in hand.
Base == TypeOK /\ UploadingIsNew /\ WorkerShape

\* Every step keeps them.
LEMMA BaseStep ==
  ASSUME Base, [Next]_vars
  PROVE  Base'
PROOF
  <1> USE DEF Base
  <1>1. WorkerShape' /\ UploadingIsNew'
    BY ShapeStep, UploadingStep
  <1>2. WorkerType /\ JobType /\ FileType /\ OutsideType
    BY TypeParts
  <1>3. JobType'
    <2>1. \A j \in Jobs : job'[j] \in JobRecord
      BY StepJobChange DEF JobChange
    <2>2. job' = [j \in Jobs |-> job'[j]]
      <3>1. CASE UNCHANGED vars
        BY <1>2, <3>1 DEF vars, JobType
      <3>2. ASSUME NEW i \in Jobs, RequestOf(i)
            PROVE  job' = [j \in Jobs |-> job'[j]]
        BY <1>2, <3>2 DEF RequestOf, RequestExport, StageImport, CreateImport,
                          CreateImportFails, JobType
      <3>3. CASE ReaderStep \/ \E i \in Jobs : Age(i)
        BY <1>2, <3>3 DEF Age, ReaderStep, OpenDownload, ReadFile, Answer,
                          CloseDownload, ReaderOnly, JobType
      <3>4. ASSUME NEW e \in Erasers, EraserStep(e)
            PROVE  job' = [j \in Jobs |-> job'[j]]
        BY <1>2, <3>4 DEF EraserStep, PurgeKey, PurgeDies, Erase, PurgeFile,
                          ForgetKey, JobType
      <3>5. CASE KeeperStep
        BY <1>2, <3>5 DEF KeeperStep, KeepOrDelete, SweepLook, ClearKey, SweepDelete,
                          ForgetKey, JobType
      <3>6. ASSUME NEW w \in Workers, NEW i \in Jobs, Claim(w, i) \/ FindStale(w, i)
            PROVE  job' = [j \in Jobs |-> job'[j]]
        BY <1>2, <3>6 DEF Claim, FindStale, JobType
      <3>7. ASSUME NEW w \in Workers, RunStep(w) \/ WorkerFault(w)
            PROVE  job' = [j \in Jobs |-> job'[j]]
        BY <1>2, <3>7
           DEF RunStep, WorkerFault, ReadRows, PutFile, RecordFile, TakeBack,
               NoteKey, LoadFile, CommitImport, Unstage, MarkFailed, ReadAudit,
               Reclaim, RunFails, RecordBreaks, TakeBackFails, Crash, JobType
      <3> QED BY <3>1, <3>2, <3>3, <3>4, <3>5, <3>6, <3>7, NextCases DEF OutsideStep
    <2> QED BY <2>1, <2>2 DEF JobType
  <1>4. WorkerType' /\ FileType' /\ OutsideType'
    <2>1. CASE UNCHANGED vars
      BY <1>2, <2>1 DEF vars, WorkerType, Mine, At, FileType, OutsideType
    <2>2. ASSUME NEW w \in Workers, NEW j \in Jobs, Claim(w, j) \/ FindStale(w, j)
          PROVE  WorkerType' /\ FileType' /\ OutsideType'
      <3>1. /\ UNCHANGED <<list, file, landed, uploading, purge, keeper, reader,
                           gone, spared>>
            /\ faults' \in {faults, faults + 1}
        BY <2>2 DEF Claim, FindStale, Elsewhere, Fault
      <3> QED BY <1>2, <2>2, <3>1, PickUpKeepsType DEF FileType, OutsideType
    <2> QED BY <1>2, <2>1, <2>2, NextCases, WorkerKeepsType, WorkerStepKeepsOthers,
               OutsideKeepsOthers
  <1>5. TypeOK'
    BY <1>3, <1>4 DEF TypeOK, WorkerType, JobType, FileType, OutsideType,
                      WorkerRecord, JobRecord, FileRecord, PurgeRecord
  <1> QED BY <1>1, <1>5

\* Every run is well typed, and keeps jobs and steps in step.
THEOREM BaseHolds == Spec => []Base
PROOF
  <1>1. ASSUME Init
        PROVE  Base
    <2>1. WorkerType
      BY <1>1, RestType DEF Init, WorkerType, Mine, At
    <2>2. JobType
      BY <1>1 DEF Init, JobType, JobRecord, NoRow, Statuses
    <2>3. FileType
      BY <1>1 DEF Init, FileType, FileRecord, NoFile
    <2>4. OutsideType
      BY <1>1 DEF Init, OutsideType, PurgeRecord
    <2>5. UploadingIsNew /\ WorkerShape
      BY <1>1 DEF Init, UploadingIsNew, WorkerShape, ShapeOf, Rest
    <2> QED BY <2>1, <2>2, <2>3, <2>4, <2>5, TypeParts DEF Base
  <1>3. Base /\ [Next]_vars => Base'
    BY BaseStep
  <1> QED BY <1>1, <1>3, PTL DEF Spec

\* Types, and a worker has a job exactly while it is at something.
THEOREM TypeCorrect == Spec => []TypeOK
PROOF
  <1>1. Base => TypeOK
    BY DEF Base
  <1> QED BY <1>1, BaseHolds, PTL

-----------------------------------------------------------------------------
(***************************************************************************)
(* Outcomes                                                                *)
(***************************************************************************)
\* A finished job keeps its outcome: every write to the row of a job asks
\* for a status that a finished one does not have, or leaves the status alone.
THEOREM OutcomesStand == Spec => OutcomeIsFinal
PROOF
  <1>1. Base /\ [Next]_vars =>
          [\A j \in Jobs : job[j].status \in Finished
                             => job'[j].status = job[j].status]_vars
    <2> SUFFICES ASSUME Base, [Next]_vars, NEW j \in Jobs, job[j].status \in Finished
                 PROVE  job'[j].status = job[j].status
      OBVIOUS
    <2>1. JobChange(j)
      BY StepJobChange DEF Base
    <2>2. job[j].status \notin {"none", "pending"} \cup Open
      BY DEF Finished, Open
    <2> QED BY <2>1, <2>2 DEF JobChange, StatusKept, Created, Started, Ended
  <1> QED BY <1>1, BaseHolds, PTL DEF Spec, OutcomeIsFinal

-----------------------------------------------------------------------------
(***************************************************************************)
(* An import and its outcome                                               *)
(***************************************************************************)
\* A worker makes an import succeed by landing it.  The reclaim that would do
\* so too has read that the people are on the list, and with them the outcome.
LEMMA WorkerSuccessLands ==
  ASSUME Base, LandedAsShown, NEW w \in Workers, RunStep(w) \/ WorkerFault(w),
         NEW j \in Imports, job[j].status # "succeeded",
         job'[j].status = "succeeded"
  PROVE  j \in landed'
PROOF
  <1>1. j \in Jobs /\ j \notin Exports /\ job[j] \in JobRecord /\ DOMAIN job = Jobs
    BY JobsAssumption DEF Jobs, JobsAssumption, Base, TypeOK, JobRecord
  <1>2. ShapeOf(worker[w], landed)
    BY DEF Base, WorkerShape
  <1>3. CASE \/ ReadRows(w) \/ PutFile(w) \/ TakeBack(w) \/ LoadFile(w)
             \/ Unstage(w) \/ ReadAudit(w) \/ RunFails(w) \/ TakeBackFails(w)
             \/ Crash(w)
    BY <1>3 DEF ReadRows, PutFile, TakeBack, LoadFile, Unstage, ReadAudit,
                RunFails, TakeBackFails, Crash
  <1>4. CASE RecordFile(w) \/ RecordBreaks(w)
    BY <1>1, <1>2, <1>4 DEF RecordFile, RecordBreaks, ShapeOf, At, Mine
  <1>5. CASE NoteKey(w)
    BY <1>1, <1>2, <1>5 DEF NoteKey, ShapeOf, At, Mine
  <1>6. CASE CommitImport(w)
    <2>1. UNCHANGED job \/ Mine(w) = j => j \in landed'
      BY <1>1, <1>6 DEF CommitImport
    <2>2. ~UNCHANGED job /\ Mine(w) # j => job'[j] = job[j]
      BY <1>1, <1>6 DEF CommitImport
    <2> QED BY <2>1, <2>2
  <1>7. CASE MarkFailed(w)
    <2>1. job'[j] \in {job[j], StatusSet(job[j], "failed"),
                       StatusSet(job[j], job[j].status)}
      BY <1>1, <1>7 DEF MarkFailed, StatusSet
    <2>2. "failed" \in Statuses /\ job[j].status \in Statuses
      BY <1>1 DEF JobRecord, Statuses, Finished
    <2> QED BY <1>1, <2>1, <2>2, StatusFields
  <1>8. CASE Reclaim(w)
    <2>1. CASE At(w, "heal")
      <3>1. Mine(w) \in landed /\ worker[w].seen = "running" /\ Mine(w) \in Imports
        BY <1>2, <2>1 DEF ShapeOf, At, Mine
      <3>2. ~AsRead(w)
        BY <3>1 DEF LandedAsShown, AsRead
      <3> QED BY <1>8, <3>2 DEF Reclaim
    <2>2. CASE ~At(w, "heal")
      <3>1. job'[j] \in {job[j], StatusSet(job[j], "failed")}
        BY <1>1, <1>8, <2>2 DEF Reclaim, StatusSet
      <3>2. "failed" \in Statuses
        BY DEF Statuses, Finished
      <3> QED BY <1>1, <3>1, <3>2, StatusFields
    <2> QED BY <2>1, <2>2
  <1> QED BY <1>3, <1>4, <1>5, <1>6, <1>7, <1>8 DEF RunStep, WorkerFault

\* The list holds an import's people exactly when its job says so.
THEOREM LandedShown == Spec => []LandedAsShown
PROOF
  <1>1. Init => LandedAsShown
    BY DEF Init, LandedAsShown, NoRow, Jobs
  <1>2. Base /\ LandedAsShown /\ [Next]_vars => LandedAsShown'
    <2> SUFFICES ASSUME Base, LandedAsShown, [Next]_vars, NEW j \in Imports
                 PROVE  j \in landed' <=> job'[j].status = "succeeded"
      BY DEF LandedAsShown
    <2>1. j \in Jobs /\ TypeOK /\ UploadingIsNew /\ WorkerShape
      BY DEF Base, Jobs
    <2>2. job[j].status = "succeeded" => job'[j].status = "succeeded"
      BY <2>1, StepJobChange
         DEF JobChange, StatusKept, Created, Started, Ended, Open
    <2>3. ASSUME job'[j].status = "succeeded", job[j].status # "succeeded"
          PROVE  j \in landed'
      <3>1. ~NoSuccess(j)
        BY <2>3 DEF NoSuccess
      <3>2. ~OutsideStep /\ ~UNCHANGED vars
        BY <2>1, <2>3, <3>1, OutsideJobChange DEF vars
      <3>3. ~\E w \in Workers, i \in Jobs : Claim(w, i) \/ FindStale(w, i)
        BY <2>1, <3>1, PickUpJobChange
      <3>4. PICK w \in Workers : RunStep(w) \/ WorkerFault(w)
        BY <3>2, <3>3, NextCases
      <3> QED BY <2>3, <3>4, WorkerSuccessLands
    <2>4. j \in landed => j \in landed'
      BY <2>1, LandedStep
    <2>5. ASSUME j \in landed', j \notin landed
          PROVE  job'[j].status = "succeeded"
      <3>1. PICK w \in Workers :
                /\ landed' = landed \cup {Mine(w)}
                /\ job' = [job EXCEPT ![Mine(w)].status = "succeeded"]
        BY <2>1, <2>5, LandedStep
      <3>2. Mine(w) = j /\ job[j] \in JobRecord /\ DOMAIN job = Jobs
        BY <2>1, <2>5, <3>1 DEF TypeOK, JobRecord
      <3>3. job'[j] = StatusSet(job[j], "succeeded") /\ "succeeded" \in Statuses
        BY <2>1, <3>1, <3>2 DEF StatusSet, Statuses, Finished
      <3> QED BY <3>2, <3>3, StatusFields
    <2> QED BY <2>2, <2>3, <2>4, <2>5 DEF LandedAsShown
  <1> QED BY <1>1, <1>2, BaseHolds, PTL DEF Spec

-----------------------------------------------------------------------------
(***************************************************************************)
(* Erasures and unfinished jobs                                            *)
(***************************************************************************)
\* Nobody has been erased since a job that is not finished was created: an
\* erasure closes every job that is open.
OpenIsClean == \A j \in Jobs : job[j].status \notin Finished => gone[j] = {}

\* Only an erasure adds to the history.
LEMMA GoneStep ==
  ASSUME TypeOK, WorkerShape, [Next]_vars, NEW j \in Jobs
  PROVE  \/ gone'[j] \in {gone[j], {}}
         \/ /\ job' = [i \in Jobs |-> Stopped(i)]
            /\ \E e \in Erasers, p \in People : Erase(e, p)
            /\ job[j].status = "none" => gone'[j] = gone[j]
PROOF
  <1>1. gone \in [Jobs -> SUBSET People] /\ \A w \in Workers : worker[w] \in WorkerRecord
    BY DEF TypeOK, WorkerRecord
  <1>2. CASE UNCHANGED vars
    BY <1>2 DEF vars
  <1>3. CASE OutsideStep
    <2>1. ASSUME NEW e \in Erasers, EraserStep(e)
          PROVE  \/ gone'[j] = gone[j]
                 \/ /\ job' = [i \in Jobs |-> Stopped(i)]
                    /\ \E p \in People : Erase(e, p)
                    /\ job[j].status = "none" => gone'[j] = gone[j]
      BY <2>1 DEF EraserStep, PurgeKey, PurgeDies, Erase, PurgeFile
    <2>2. CASE \/ \E i \in Jobs : RequestOf(i) \/ Age(i)
               \/ KeeperStep \/ ReaderStep
      BY <2>2 DEF RequestOf, RequestExport, StageImport, CreateImport,
                  CreateImportFails, Age, KeeperStep, KeepOrDelete, ClearKey,
                  SweepLook, SweepDelete, KeeperStays, ReaderStep, OpenDownload,
                  ReadFile, Answer, CloseDownload, ReaderOnly
    <2> QED BY <1>3, <2>1, <2>2 DEF OutsideStep
  <1>4. ASSUME NEW w \in Workers, RunStep(w) \/ WorkerFault(w)
        PROVE  gone'[j] \in {gone[j], {}}
    BY <1>1, <1>4
       DEF RunStep, WorkerFault, ReadRows, PutFile, RecordFile, TakeBack,
           NoteKey, LoadFile, CommitImport, Unstage, MarkFailed, ReadAudit,
           Reclaim, RunFails, RecordBreaks, TakeBackFails, Crash
  <1>5. ASSUME NEW w \in Workers, NEW i \in Jobs, Claim(w, i) \/ FindStale(w, i)
        PROVE  gone'[j] = gone[j]
    BY <1>5 DEF Claim, FindStale
  <1> QED BY <1>2, <1>3, <1>4, <1>5, NextCases

\* An erasure finds nothing open when it is done.
LEMMA OpenIsCleanHolds == Spec => []OpenIsClean
PROOF
  <1>1. Init => OpenIsClean
    BY DEF Init, OpenIsClean
  <1>2. Base /\ OpenIsClean /\ [Next]_vars => OpenIsClean'
    <2> SUFFICES ASSUME Base, OpenIsClean, [Next]_vars, NEW j \in Jobs,
                        job'[j].status \notin Finished
                 PROVE  gone'[j] = {}
      BY DEF OpenIsClean
    <2>1. JobChange(j) /\ job[j] \in JobRecord /\ JobType
      BY StepJobChange, TypeParts DEF Base, JobType
    <2>2. job[j].status \notin Finished
      BY <2>1 DEF JobChange, StatusKept, Created, Started, Ended, Open, Finished
    <2>3. gone[j] = {}
      BY <2>2 DEF OpenIsClean
    <2>4. ASSUME job' = [i \in Jobs |-> Stopped(i)]
          PROVE  job[j].status = "none"
      BY <2>1, <2>2, <2>4, StoppedRow DEF JobRecord, Statuses, Finished
    <2> QED BY <2>3, <2>4, GoneStep DEF Base
  <1> QED BY <1>1, <1>2, BaseHolds, PTL DEF Spec

\* An import that an erasure has overtaken writes nobody back: the erasure has
\* closed its job, and it commits only while its job is running.
THEOREM NobodyComesBack == Spec => NobodyWrittenBack
PROOF
  <1>1. Base /\ OpenIsClean /\ [Next]_vars =>
          [\A j \in Imports : j \in landed' \ landed
                                => file[j].people \cap gone[j] = {}]_vars
    <2> SUFFICES ASSUME Base, OpenIsClean, [Next]_vars, NEW j \in Imports,
                        j \in landed' \ landed
                 PROVE  file[j].people \cap gone[j] = {}
      OBVIOUS
    <2>1. PICK w \in Workers : /\ StillRunning(Mine(w))
                               /\ landed' = landed \cup {Mine(w)}
      BY LandedStep DEF Base
    <2>2. j \in Jobs /\ job[j].status \notin Finished
      BY <2>1 DEF Jobs, StillRunning, Finished
    <2> QED BY <2>2 DEF OpenIsClean
  <1> QED BY <1>1, BaseHolds, OpenIsCleanHolds, PTL DEF Spec, NobodyWrittenBack

-----------------------------------------------------------------------------
(***************************************************************************)
(* Downloads                                                               *)
(***************************************************************************)
\* A worker that may still write the file of its job.
Runs(x) == x.step \in {"claimed", "built", "stored"}

\* A job is claimed once, so no two workers write the same file, and nobody
\* writes the file of an export that has succeeded.
RunnersApart ==
  \A w \in Workers : Runs(worker[w]) =>
    /\ job[Mine(w)].status \notin {"none", "pending"}
    /\ Mine(w) \in Exports => job[Mine(w)].status # "succeeded"
    /\ \A v \in Workers : Runs(worker[v]) /\ Mine(v) = Mine(w) => v = w

\* An export that has succeeded and is not marked invalid holds nobody erased.
FreshIsClean ==
  \A j \in Exports : job[j].status = "succeeded" /\ ~job[j].invalid
                       => file[j].people \cap gone[j] = {}

\* Who reads a file reads that of an export that has succeeded.
ReaderHasSucceeded ==
  reader.step # "idle" => /\ reader.job \in Exports
                          /\ job[reader.job].status = "succeeded"

\* A worker comes to run a job by claiming it.
LEMMA RunnerStep ==
  ASSUME TypeOK, [Next]_vars, NEW w \in Workers, Runs(worker'[w])
  PROVE  \/ Runs(worker[w]) /\ worker'[w].job = worker[w].job
         \/ worker'[w].job \in Jobs /\ Claim(w, worker'[w].job)
PROOF
  <1>1. worker \in [Workers -> WorkerRecord]
    BY DEF TypeOK, WorkerRecord
  <1>2. CASE worker'[w] = worker[w]
    BY <1>2
  <1>3. CASE OutsideStep \/ UNCHANGED vars
    BY <1>2, <1>3
       DEF vars, OutsideStep, RequestOf, RequestExport, StageImport, CreateImport,
           CreateImportFails, Elsewhere, Age, EraserStep, PurgeKey, PurgeDies, Erase,
           PurgeFile, KeeperStep, KeepOrDelete, ClearKey, SweepLook, SweepDelete,
           KeeperStays, ReaderStep, OpenDownload, ReadFile, Answer, CloseDownload,
           ReaderOnly
  <1>4. ASSUME NEW v \in Workers, RunStep(v) \/ WorkerFault(v)
        PROVE  Runs(worker[w]) /\ worker'[w].job = worker[w].job
    <2>1. CASE v # w
      <3>1. worker'[w] = worker[w]
        BY <1>1, <1>4, <2>1
           DEF RunStep, WorkerFault, ReadRows, PutFile, RecordFile, TakeBack,
               NoteKey, LoadFile, CommitImport, Unstage, MarkFailed, ReadAudit,
               Reclaim, RunFails, RecordBreaks, TakeBackFails, Crash, Rests, Goes,
               Leaves
      <3> QED BY <3>1
    <2>2. CASE v = w
      <3>1. CASE ReadRows(w) \/ PutFile(w)
        BY <1>1, <3>1 DEF ReadRows, PutFile, At, Runs, WorkerRecord
      <3>2. CASE \/ RecordFile(w) \/ TakeBack(w) \/ NoteKey(w) \/ LoadFile(w)
                 \/ CommitImport(w) \/ Unstage(w) \/ MarkFailed(w) \/ ReadAudit(w)
                 \/ Reclaim(w) \/ WorkerFault(w)
        <4>1. worker'[w].step \in {"idle", "takeback", "failing", "noting", "loaded",
                                   "unstaging", "heal", "reclaim"}
          BY <1>1, <3>2
             DEF WorkerFault, RecordFile, TakeBack, NoteKey, LoadFile, CommitImport,
                 Unstage, MarkFailed, ReadAudit, Reclaim, RunFails, RecordBreaks,
                 TakeBackFails, Crash, Rests, Goes, Leaves, Rest, WorkerRecord
        <4> QED BY <4>1 DEF Runs
      <3> QED BY <1>4, <2>2, <3>1, <3>2 DEF RunStep
    <2> QED BY <2>1, <2>2
  <1>5. ASSUME NEW v \in Workers, NEW j \in Jobs, Claim(v, j)
        PROVE  \/ worker'[w] = worker[w]
               \/ worker'[w].job = j /\ Claim(w, j)
    <2>1. [Rest EXCEPT !.step = "claimed", !.job = j].job = j
      BY DEF Rest
    <2> QED BY <1>1, <1>5, <2>1 DEF Claim
  <1>6. ASSUME NEW v \in Workers, NEW j \in Jobs, FindStale(v, j)
        PROVE  worker'[w] = worker[w]
    <2>1. [Rest EXCEPT !.step = "stale", !.job = j, !.seen = job[j].status].step
            = "stale"
      BY DEF Rest
    <2> QED BY <1>1, <1>6, <2>1 DEF FindStale, Runs
  <1> QED BY <1>2, <1>3, <1>4, <1>5, <1>6, NextCases

\* An export succeeds by the worker that has put its file, which is then done
\* running it.
LEMMA ExportSuccess ==
  ASSUME Base, [Next]_vars, NEW j \in Exports, job[j].status # "succeeded",
         job'[j].status = "succeeded"
  PROVE  /\ job[j].status = "running"
         /\ \E w \in Workers : /\ worker[w].step = "stored" /\ Mine(w) = j
                               /\ ~Runs(worker'[w])
PROOF
  <1>1. /\ j \in Jobs /\ j \notin Imports /\ job[j] \in JobRecord
        /\ DOMAIN job = Jobs
        /\ worker \in [Workers -> WorkerRecord]
    BY JobsAssumption
       DEF Jobs, JobsAssumption, Base, TypeOK, JobRecord, WorkerRecord
  <1>2. ~NoSuccess(j)
    BY DEF NoSuccess
  <1>3. ~OutsideStep /\ ~UNCHANGED vars
    BY <1>1, <1>2, OutsideJobChange DEF vars, Base
  <1>4. ~\E w \in Workers, i \in Jobs : Claim(w, i) \/ FindStale(w, i)
    BY <1>1, <1>2, PickUpJobChange DEF Base
  <1>5. PICK w \in Workers : RunStep(w) \/ WorkerFault(w)
    BY <1>3, <1>4, NextCases
  <1>6. ShapeOf(worker[w], landed)
    BY DEF Base, WorkerShape
  <1>7. CASE \/ ReadRows(w) \/ PutFile(w) \/ TakeBack(w) \/ LoadFile(w)
             \/ Unstage(w) \/ ReadAudit(w) \/ RunFails(w) \/ TakeBackFails(w)
             \/ Crash(w)
    BY <1>7 DEF ReadRows, PutFile, TakeBack, LoadFile, Unstage, ReadAudit,
                RunFails, TakeBackFails, Crash
  <1>8. CASE RecordFile(w) \/ RecordBreaks(w)
    <2>1. /\ worker[w].step = "stored" /\ Mine(w) = j
          /\ job[j].status = "running"
          /\ \/ Rests(w)
             \/ worker' = [worker EXCEPT ![w].step = "takeback", ![w].after = "failing"]
      BY <1>1, <1>8 DEF RecordFile, RecordBreaks, At, StillRunning
    <2>2. ~Runs(worker'[w])
      BY <1>1, <2>1 DEF Rests, Rest, Runs, WorkerRecord
    <2> QED BY <2>1, <2>2
  <1>9. CASE CommitImport(w)
    BY <1>1, <1>6, <1>9 DEF CommitImport, ShapeOf, At, Mine
  <1>10. CASE NoteKey(w) \/ MarkFailed(w)
    <2>1. job'[j] \in {job[j], KeySet(job[j], TRUE), StatusSet(job[j], "failed"),
                       StatusSet(job[j], job[j].status)}
      BY <1>1, <1>10 DEF NoteKey, MarkFailed, StatusSet, KeySet
    <2>2. "failed" \in Statuses /\ job[j].status \in Statuses
      BY <1>1 DEF JobRecord, Statuses, Finished
    <2>3. KeySet(job[j], TRUE).status = job[j].status
      BY <1>1, KeyFields, Zenon
    <2> QED BY <1>1, <2>1, <2>2, <2>3, StatusFields
  <1>11. CASE Reclaim(w)
    <2>1. job'[j] \in {job[j], StatusSet(job[j], "failed")}
      BY <1>1, <1>6, <1>11 DEF Reclaim, StatusSet, ShapeOf, At, Mine
    <2>2. "failed" \in Statuses
      BY DEF Statuses, Finished
    <2> QED BY <1>1, <2>1, <2>2, StatusFields
  <1> QED BY <1>5, <1>7, <1>8, <1>9, <1>10, <1>11 DEF RunStep, WorkerFault

\* Updates of one field of a file.
StoredSet(x, b) == [x EXCEPT !.stored = b]
OldSet(x, b) == [x EXCEPT !.old = b]

\* What they leave as it was.
LEMMA FileFields ==
  ASSUME NEW x \in FileRecord
  PROVE  /\ StoredSet(x, FALSE).people = x.people
         /\ ~StoredSet(x, FALSE).stored
         /\ OldSet(x, TRUE).people = x.people
         /\ OldSet(x, TRUE).stored = x.stored
PROOF
  BY Zenon DEF FileRecord, StoredSet, OldSet

\* A file stays as it is, or goes.
FileKept(j) == /\ file'[j].people = file[j].people
               /\ file'[j].stored => file[j].stored

\* A file changes what it holds when its worker puts it or its upload stages it.
LEMMA FileStep ==
  ASSUME Base, [Next]_vars, NEW j \in Jobs
  PROVE  \/ FileKept(j)
         \/ \E w \in Workers : PutFile(w) /\ Mine(w) = j
         \/ StageImport(j)
PROOF
  <1>1. DOMAIN file = Jobs /\ file[j] \in FileRecord
    BY DEF Base, TypeOK, FileRecord
  <1>2. ASSUME NEW i \in Jobs, Delete(i)
        PROVE  FileKept(j)
    <2>1. file'[j] = file[j] \/ file'[j] = StoredSet(file[j], FALSE)
      BY <1>1, <1>2 DEF Delete, StoredSet
    <2>2. /\ StoredSet(file[j], FALSE).people = file[j].people
          /\ ~StoredSet(file[j], FALSE).stored
      BY <1>1, FileFields, Zenon
    <2> QED BY <2>1, <2>2, Zenon DEF FileKept
  <1>3. CASE UNCHANGED file
    BY <1>3 DEF FileKept
  <1>4. CASE OutsideStep
    <2>1. ASSUME NEW i \in Jobs, RequestOf(i) \/ Age(i)
          PROVE  FileKept(j) \/ StageImport(j)
      <3>1. CASE StageImport(i)
        BY <1>1, <3>1 DEF StageImport, FileKept
      <3>2. CASE Age(i)
        <4>1. file'[j] = file[j] \/ file'[j] = OldSet(file[j], TRUE)
          BY <1>1, <3>2 DEF Age, OldSet
        <4>2. /\ OldSet(file[j], TRUE).people = file[j].people
              /\ OldSet(file[j], TRUE).stored = file[j].stored
          BY <1>1, FileFields, Zenon
        <4> QED BY <4>1, <4>2, Zenon DEF FileKept
      <3>3. CASE RequestExport(i) \/ CreateImport(i) \/ CreateImportFails(i)
        <4>1. UNCHANGED file \/ Delete(i)
          BY <3>3 DEF RequestExport, CreateImport, CreateImportFails
        <4> QED BY <1>2, <1>3, <4>1 DEF FileKept
      <3> QED BY <2>1, <3>1, <3>2, <3>3 DEF RequestOf
    <2>2. UNCHANGED file \/ (\E i \in Jobs : Delete(i) \/ RequestOf(i) \/ Age(i))
          \/ (keeper.step = "sweep" /\ Delete(keeper.job))
      BY <1>4 DEF OutsideStep, EraserStep, PurgeKey, PurgeDies, Erase, PurgeFile,
                  KeeperStep, KeepOrDelete, ClearKey, SweepLook, SweepDelete,
                  ReaderStep, OpenDownload, ReadFile, Answer, CloseDownload, ReaderOnly
    <2>3. keeper.step = "sweep" => keeper.job \in Jobs
      BY DEF Base, TypeOK
    <2> QED BY <1>2, <1>3, <2>1, <2>2, <2>3
  <1>5. ASSUME NEW w \in Workers, RunStep(w) \/ WorkerFault(w), ~PutFile(w)
        PROVE  FileKept(j)
    <2>1. UNCHANGED file \/ (~At(w, "idle") /\ Delete(Mine(w)))
      BY <1>5 DEF RunStep, WorkerFault, ReadRows, RecordFile, TakeBack, NoteKey,
                  LoadFile, CommitImport, Unstage, MarkFailed, ReadAudit, Reclaim,
                  RunFails, RecordBreaks, TakeBackFails, Crash, At
    <2>2. ~At(w, "idle") => Mine(w) \in Jobs
      BY BusyHasJob, TypeParts DEF Base
    <2> QED BY <1>2, <1>3, <2>1, <2>2 DEF FileKept
  <1>6. ASSUME NEW w \in Workers, PutFile(w), Mine(w) # j
        PROVE  FileKept(j)
    BY <1>1, <1>6 DEF PutFile, FileKept
  <1>7. ASSUME NEW w \in Workers, NEW i \in Jobs, Claim(w, i) \/ FindStale(w, i)
        PROVE  UNCHANGED file
    BY <1>7 DEF Claim, FindStale
  <1> QED BY <1>3, <1>4, <1>5, <1>6, <1>7, NextCases DEF vars

\* No two workers come to run one job.
LEMMA RunnersApartStep ==
  ASSUME Base, RunnersApart, [Next]_vars
  PROVE  RunnersApart'
PROOF
  <1>1. /\ TypeOK /\ UploadingIsNew /\ WorkerShape
        /\ worker \in [Workers -> WorkerRecord]
    BY DEF Base, TypeOK, WorkerRecord
  <1>2. ASSUME NEW w \in Workers, Runs(worker[w])
        PROVE  Mine(w) \in Jobs
    BY <1>1, <1>2, BusyHasJob, TypeParts DEF Runs, At
  <1> DEFINE Mine2(w) == worker'[w].job
  <1>3. ASSUME NEW w \in Workers, Runs(worker'[w])
        PROVE  /\ Mine2(w) \in Jobs
               /\ \/ Runs(worker[w]) /\ Mine2(w) = Mine(w)
                  \/ Claim(w, Mine2(w))
    BY <1>1, <1>2, <1>3, RunnerStep DEF Mine
  <1>4. ASSUME NEW w \in Workers, Runs(worker'[w])
        PROVE  job'[Mine2(w)].status \notin {"none", "pending"}
    <2>1. CASE Runs(worker[w]) /\ Mine2(w) = Mine(w)
      <3>1. job[Mine(w)].status \notin {"none", "pending"} /\ Mine(w) \in Jobs
        BY <1>2, <2>1 DEF RunnersApart
      <3>2. JobChange(Mine(w))
        BY <1>1, <3>1, StepJobChange
      <3> QED BY <2>1, <3>1, <3>2
              DEF JobChange, StatusKept, Created, Started, Ended, Finished
    <2>2. CASE Claim(w, Mine2(w))
      <3> DEFINE j == Mine2(w)
      <3>1. j \in Jobs /\ job[j] \in JobRecord /\ DOMAIN job = Jobs
        BY <1>1, <1>3, <1>4 DEF TypeOK, JobRecord
      <3>2. job'[j] = StatusSet(job[j], "running") /\ "running" \in Statuses
        BY <2>2, <3>1 DEF Claim, StatusSet, Statuses, Open
      <3>3. job'[j].status = "running"
        <4> HIDE DEF j
        <4> QED BY <3>1, <3>2, StatusFields
      <3> QED BY <3>3
    <2> QED BY <1>3, <1>4, <2>1, <2>2
  <1>5. ASSUME NEW w \in Workers, Runs(worker'[w]),
               NEW v \in Workers, Runs(worker'[v]), Mine2(v) = Mine2(w)
        PROVE  v = w
    <2>1. CASE /\ Runs(worker[w]) /\ Mine2(w) = Mine(w)
               /\ Runs(worker[v]) /\ Mine2(v) = Mine(v)
      BY <1>5, <2>1 DEF RunnersApart
    <2>2. ASSUME NEW u \in Workers, Claim(u, Mine2(w)), NEW x \in Workers,
                 Runs(worker[x]), Mine(x) = Mine2(w)
          PROVE  FALSE
      BY <2>2 DEF Claim, RunnersApart
    <2>3. ASSUME NEW u \in Workers, NEW x \in Workers, NEW i, Claim(u, i),
                 Claim(x, i)
          PROVE  u = x
      <3>1. worker'[u].step = "claimed" /\ worker[x].step = "idle"
        BY <1>1, <2>3 DEF Claim, Rest, At
      <3>2. u # x => worker'[u] = worker[u]
        BY <1>1, <2>3 DEF Claim
      <3> QED BY <2>3, <3>1, <3>2 DEF Claim, At
    <2> HIDE DEF Mine2
    <2>4. CASE Claim(w, Mine2(w)) /\ Claim(v, Mine2(w))
      BY <2>3, <2>4
    <2> QED BY <1>3, <1>5, <2>1, <2>2, <2>4
  <1>6. ASSUME NEW w \in Workers, Runs(worker'[w]), Mine2(w) \in Exports,
               job'[Mine2(w)].status = "succeeded"
        PROVE  FALSE
    <2>1. ~Claim(w, Mine2(w))
      <3> DEFINE j == Mine2(w)
      <3>1. (j \in Jobs /\ NoSuccess(j)) \/ ~Claim(w, j)
        BY <1>1, <1>3, <1>6, PickUpJobChange
      <3>2. Claim(w, j) => job[j].status = "pending"
        BY DEF Claim
      <3> QED BY <1>6, <3>1, <3>2 DEF NoSuccess
    <2>2. Runs(worker[w]) /\ Mine2(w) = Mine(w)
      BY <1>3, <1>6, <2>1
    <2>3. job[Mine(w)].status # "succeeded" /\ Mine(w) \in Exports
      BY <1>6, <2>2 DEF RunnersApart
    <2>4. PICK v \in Workers : /\ worker[v].step = "stored" /\ Mine(v) = Mine(w)
                               /\ ~Runs(worker'[v])
      BY <1>6, <2>2, <2>3, ExportSuccess
    <2>5. v = w
      BY <2>2, <2>4 DEF RunnersApart, Runs
    <2> QED BY <1>6, <2>4, <2>5
  <1> QED BY <1>4, <1>5, <1>6 DEF RunnersApart, Mine

\* Two workers run two jobs.
LEMMA RunnersApartHolds == Spec => []RunnersApart
PROOF
  <1>1. Init => RunnersApart
    BY DEF Init, RunnersApart, Runs, Rest
  <1>2. Base /\ RunnersApart /\ [Next]_vars => RunnersApart'
    BY RunnersApartStep
  <1> QED BY <1>1, <1>2, BaseHolds, PTL DEF Spec

\* An export that succeeds does so before anybody is erased, and an erasure
\* that comes later marks it.
LEMMA FreshIsCleanStep ==
  ASSUME Base, OpenIsClean, RunnersApart, FreshIsClean, [Next]_vars
  PROVE  FreshIsClean'
PROOF
  <1> SUFFICES ASSUME NEW j \in Exports, job'[j].status = "succeeded",
                      ~job'[j].invalid
               PROVE  file'[j].people \cap gone'[j] = {}
    BY DEF FreshIsClean
  <1>1. /\ j \in Jobs /\ JobType /\ job[j] \in JobRecord
        /\ TypeOK /\ UploadingIsNew /\ WorkerShape
    BY TypeParts DEF Jobs, Base, JobType
  <1>2. JobChange(j)
    BY <1>1, StepJobChange
  <1>3. gone'[j] \in {gone[j], {}}
    <2>1. ASSUME job' = [i \in Jobs |-> Stopped(i)], job[j].status # "none"
          PROVE  FALSE
      <3>1. job'[j] = Stopped(j) /\ Stopped(j).invalid = (job[j].invalid \/ j \in Exports)
        BY <1>1, <2>1, StoppedRow
      <3> QED BY <3>1
    <2> QED BY <1>1, <2>1, GoneStep
  <1>4. CASE job[j].status = "succeeded"
    <2>1. ~job[j].invalid
      BY <1>2, <1>4 DEF JobChange, MarkKept, Finished
    <2>2. file[j].people \cap gone[j] = {}
      BY <1>4, <2>1 DEF FreshIsClean
    <2>3. ~\E w \in Workers : PutFile(w) /\ Mine(w) = j
      BY <1>4 DEF RunnersApart, Runs, PutFile, At
    <2>4. ~StageImport(j)
      BY JobsAssumption DEF StageImport, JobsAssumption
    <2> QED BY <1>1, <1>3, <2>2, <2>3, <2>4, FileStep DEF FileKept
  <1>5. CASE job[j].status # "succeeded"
    <2>1. job[j].status = "running"
      BY <1>5, ExportSuccess
    <2>2. gone[j] = {}
      BY <1>1, <2>1 DEF OpenIsClean, Finished
    <2> QED BY <1>3, <2>2
  <1> QED BY <1>4, <1>5

\* Nobody else moves a download.
LEMMA ReaderMoves ==
  ASSUME [Next]_vars
  PROVE  UNCHANGED reader \/ ReaderStep
PROOF
  BY NextCases
     DEF vars, OutsideStep, RequestOf, RequestExport, StageImport, CreateImport,
         CreateImportFails, Elsewhere, Age, EraserStep, PurgeKey, PurgeDies, Erase,
         PurgeFile, KeeperStep, KeepOrDelete, ClearKey, SweepLook, SweepDelete,
         KeeperStays, RunStep, WorkerFault, ReadRows, PutFile, RecordFile,
         TakeBack, NoteKey, LoadFile, CommitImport, Unstage, MarkFailed, ReadAudit,
         Reclaim, RunFails, RecordBreaks, TakeBackFails, Crash, Claim, FindStale

\* A download is opened of an export that has succeeded, which it stays.
LEMMA ReaderStays ==
  ASSUME Base, ReaderHasSucceeded, [Next]_vars
  PROVE  ReaderHasSucceeded'
PROOF
  <1> USE DEF Base
  <1>1. ASSUME NEW j \in Exports, job[j].status = "succeeded"
        PROVE  job'[j].status = "succeeded"
    <2>1. JobChange(j)
      BY StepJobChange DEF Jobs
    <2> QED BY <1>1, <2>1 DEF JobChange, StatusKept, Created, Started, Ended, Open
  <1>2. CASE UNCHANGED reader
    BY <1>1, <1>2 DEF ReaderHasSucceeded
  <1>3. ASSUME NEW j \in Jobs, OpenDownload(j)
        PROVE  ReaderHasSucceeded'
    BY <1>1, <1>3 DEF OpenDownload, ReaderHasSucceeded
  <1>4. CASE ReadFile \/ Answer \/ CloseDownload
    <2>1. reader'.step = "idle" \/ (reader'.job = reader.job /\ reader.step # "idle")
      BY <1>4 DEF ReadFile, Answer, CloseDownload, TypeOK
    <2> QED BY <1>1, <2>1 DEF ReaderHasSucceeded
  <1> QED BY <1>2, <1>3, <1>4, ReaderMoves DEF ReaderStep

\* A download hands out nobody who has been erased since the file was made: it
\* asks for the mark again once it has read the file.
THEOREM DownloadsAreCurrent == Spec => ServedIsCurrent
PROOF
  <1> DEFINE Inv == FreshIsClean /\ ReaderHasSucceeded
  <1>1. Init => Inv
    BY DEF Init, FreshIsClean, ReaderHasSucceeded, NoRow, Jobs
  <1>2. Base /\ OpenIsClean /\ RunnersApart /\ Inv /\ [Next]_vars => Inv'
    BY FreshIsCleanStep, ReaderStays
  <1>3. Base /\ Inv /\ [Next]_vars =>
          [reader.step = "read" /\ reader'.step = "served" =>
             file[reader.job].people \cap gone[reader.job] = {}]_vars
    <2> SUFFICES ASSUME Base, Inv, Next, reader.step = "read",
                        reader'.step = "served"
                 PROVE  file[reader.job].people \cap gone[reader.job] = {}
      BY DEF vars
    <2>1. Answer
      <3>1. ReaderStep
        BY ReaderMoves
      <3>2. reader.step = "read" => ~(ReadFile \/ CloseDownload)
                                    /\ ~\E j \in Jobs : OpenDownload(j)
        BY DEF ReadFile, CloseDownload, OpenDownload
      <3> QED BY <3>1, <3>2 DEF ReaderStep
    <2>2. Downloadable(reader.job)
      BY <2>1 DEF Answer
    <2> QED BY <2>2 DEF FreshIsClean, ReaderHasSucceeded, Downloadable
  <1> HIDE DEF Inv
  <1>4. Spec => []Inv
    BY <1>1, <1>2, BaseHolds, OpenIsCleanHolds, RunnersApartHolds, PTL DEF Spec
  <1> QED BY <1>3, <1>4, BaseHolds, PTL DEF Spec, ServedIsCurrent

-----------------------------------------------------------------------------
(***************************************************************************)
(* Files that hold somebody erased                                         *)
(***************************************************************************)
\* A worker that has written the file of j will delete it unless it names it.
HeldIn(W, j) == \E w \in Workers : /\ W[w].job = j
                                   /\ W[w].step \in {"stored", "takeback"}
Covered(j) == file[j].stored => j \in spared \/ HeldIn(worker, j)

\* A row that has a key is there.
KeyHasRow == \A j \in Jobs : job[j].key => job[j].status # "none"

\* A worker takes back the file of a row that is there, and comes to note a key
\* by a fault.
BackHasRow ==
  \A w \in Workers : worker[w].step \in {"takeback", "noting"} =>
    /\ job[Mine(w)].status # "none"
    /\ worker[w].step = "noting" => Mine(w) \in spared

\* A file that no row names is held by a worker.
Named == \A j \in Jobs : ~job[j].key /\ (j \in Exports \/ job[j].status # "none")
                           => Covered(j)

\* Whose file is being deleted is finished; who is about to lose the key has
\* lost the file.
Cleared ==
  /\ \A e \in Erasers : \A j \in Jobs :
       /\ j \in purge[e].todo => job[j].status \in Finished
       /\ purge[e].clearing = j => job[j].status \in Finished /\ Covered(j)
  /\ keeper.step = "clear" => \A j \in Jobs : keeper.job = j =>
       job[j].status \in Finished /\ Covered(j)

Filing == KeyHasRow /\ BackHasRow /\ Named /\ Cleared /\ TaintedIsCaught

\* What faults have spared stays spared.
LEMMA SparedGrows ==
  ASSUME [Next]_vars
  PROVE  spared \subseteq spared'
PROOF
  BY NextCases
     DEF vars, OutsideStep, RequestOf, RequestExport, StageImport, CreateImport,
         CreateImportFails, Age, EraserStep, PurgeKey, PurgeDies, Erase,
         PurgeFile, KeeperStep, KeepOrDelete, ClearKey, SweepLook, SweepDelete,
         ReaderStep, OpenDownload, ReadFile, Answer, CloseDownload, ReaderOnly,
         RunStep, WorkerFault, ReadRows, PutFile, RecordFile,
         TakeBack, NoteKey, LoadFile, CommitImport, Unstage, MarkFailed, ReadAudit,
         Reclaim, RunFails, RecordBreaks, TakeBackFails, Crash, Claim, FindStale

\* A worker moves by its own steps only.
LEMMA WorkerMoves ==
  ASSUME TypeOK, [Next]_vars, NEW w \in Workers
  PROVE  \/ worker'[w] = worker[w]
         \/ RunStep(w) \/ WorkerFault(w)
         \/ At(w, "idle") /\ \E i \in Jobs : Claim(w, i) \/ FindStale(w, i)
PROOF
  <1>1. DOMAIN worker = Workers
    BY DEF TypeOK
  <1>2. CASE OutsideStep \/ UNCHANGED vars
    BY <1>2
       DEF vars, OutsideStep, RequestOf, RequestExport, StageImport, CreateImport,
           CreateImportFails, Elsewhere, Age, EraserStep, PurgeKey, PurgeDies, Erase,
           PurgeFile, KeeperStep, KeepOrDelete, ClearKey, SweepLook, SweepDelete,
           KeeperStays, ReaderStep, OpenDownload, ReadFile, Answer, CloseDownload,
           ReaderOnly
  <1>3. ASSUME NEW v \in Workers, v # w, RunStep(v) \/ WorkerFault(v)
        PROVE  worker'[w] = worker[w]
    BY <1>1, <1>3
       DEF RunStep, WorkerFault, ReadRows, PutFile, RecordFile, TakeBack,
           NoteKey, LoadFile, CommitImport, Unstage, MarkFailed, ReadAudit,
           Reclaim, RunFails, RecordBreaks, TakeBackFails, Crash, Rests, Goes,
           Leaves
  <1>4. ASSUME NEW v \in Workers, v # w, NEW i \in Jobs, Claim(v, i) \/ FindStale(v, i)
        PROVE  worker'[w] = worker[w]
    BY <1>1, <1>4 DEF Claim, FindStale
  <1>5. ASSUME NEW i \in Jobs, Claim(w, i) \/ FindStale(w, i)
        PROVE  At(w, "idle")
    BY <1>5 DEF Claim, FindStale
  <1> QED BY <1>2, <1>3, <1>4, <1>5, NextCases

\* A worker that has written a file gives it up by deleting it, by naming it
\* while its job is running, or by a fault.
LEMMA HeldStep ==
  ASSUME Base, [Next]_vars, NEW w \in Workers,
         worker[w].step \in {"stored", "takeback"}
  PROVE  \/ /\ worker'[w].job = Mine(w)
            /\ worker'[w].step \in {"stored", "takeback"}
         \/ ~file'[Mine(w)].stored
         \/ Mine(w) \in spared'
         \/ /\ job[Mine(w)].status = "running"
            /\ job'[Mine(w)].key /\ job'[Mine(w)].status = "succeeded"
PROOF
  <1>1. /\ worker \in [Workers -> WorkerRecord] /\ DOMAIN job = Jobs
        /\ DOMAIN file = Jobs /\ \A j \in Jobs : file[j] \in FileRecord
        /\ Mine(w) \in Jobs
    BY BusyHasJob, TypeParts
       DEF Base, TypeOK, WorkerRecord, FileRecord, At
  <1>2. CASE worker'[w] = worker[w]
    BY <1>2 DEF Mine
  <1>3. CASE RecordFile(w)
    <2>1. CASE StillRunning(Mine(w))
      <3>1. job'[Mine(w)] = WithFile(Mine(w))
        BY <1>1, <1>3, <2>1 DEF RecordFile
      <3> QED BY <2>1, <3>1 DEF WithFile, StillRunning
    <2>2. CASE ~StillRunning(Mine(w))
      BY <1>1, <1>3, <2>2 DEF RecordFile, Goes, Mine, WorkerRecord
    <2> QED BY <2>1, <2>2
  <1>4. CASE RecordBreaks(w)
    BY <1>1, <1>4 DEF RecordBreaks, Mine, WorkerRecord
  <1>5. CASE TakeBack(w)
    <2>1. file'[Mine(w)] = StoredSet(file[Mine(w)], FALSE)
      BY <1>1, <1>5 DEF TakeBack, Delete, StoredSet
    <2>2. file[Mine(w)] \in FileRecord
      BY <1>1
    <2>3. ~StoredSet(file[Mine(w)], FALSE).stored
      BY <2>2, FileFields, Zenon
    <2> QED BY <2>1, <2>3, Zenon
  <1>6. CASE TakeBackFails(w) \/ Crash(w)
    BY <1>6 DEF TakeBackFails, Crash, Holding, At
  <1>7. CASE \/ ReadRows(w) \/ PutFile(w) \/ NoteKey(w) \/ LoadFile(w)
             \/ CommitImport(w) \/ Unstage(w) \/ MarkFailed(w) \/ ReadAudit(w)
             \/ Reclaim(w) \/ RunFails(w) \/ At(w, "idle")
    BY <1>7 DEF ReadRows, PutFile, NoteKey, LoadFile, CommitImport, Unstage,
                MarkFailed, ReadAudit, Reclaim, RunFails, At
  <1>8. \/ worker'[w] = worker[w] \/ RunStep(w) \/ WorkerFault(w) \/ At(w, "idle")
    BY WorkerMoves DEF Base
  <1> QED BY <1>2, <1>3, <1>4, <1>5, <1>6, <1>7, <1>8 DEF RunStep, WorkerFault

\* A file stays covered until it is gone or named.
LEMMA CoveredStep ==
  ASSUME Base, [Next]_vars, NEW j \in Jobs, Covered(j),
         j \in Exports \/ job[j].status # "none"
  PROVE  \/ Covered(j)'
         \/ /\ job[j].status = "running"
            /\ job'[j].key /\ job'[j].status = "succeeded"
PROOF
  <1>1. CASE ~file'[j].stored
    BY <1>1 DEF Covered
  <1>2. CASE file'[j].stored /\ \E w \in Workers : PutFile(w) /\ Mine(w) = j
    <2>1. PICK w \in Workers : PutFile(w) /\ Mine(w) = j
      BY <1>2
    <2>2. worker'[w].step = "stored" /\ worker'[w].job = j
      BY <2>1 DEF PutFile, Mine, Base, TypeOK
    <2> QED BY <2>2 DEF Covered, HeldIn
  <1>3. ~StageImport(j)
    BY JobsAssumption DEF StageImport, JobsAssumption
  <1>4. CASE file'[j].stored /\ FileKept(j)
    <2>1. j \in spared \/ HeldIn(worker, j)
      BY <1>4 DEF FileKept, Covered
    <2>2. CASE j \in spared
      BY <2>2, SparedGrows DEF Covered
    <2>3. CASE HeldIn(worker, j)
      <3>1. PICK w \in Workers : /\ worker[w].job = j
                                 /\ worker[w].step \in {"stored", "takeback"}
        BY <2>3 DEF HeldIn
      <3>2. Mine(w) = j
        BY <3>1 DEF Mine
      <3>3. \/ worker'[w].job = j /\ worker'[w].step \in {"stored", "takeback"}
            \/ ~file'[j].stored
            \/ j \in spared'
            \/ /\ job[j].status = "running"
               /\ job'[j].key /\ job'[j].status = "succeeded"
        BY <3>1, <3>2, HeldStep
      <3> QED BY <1>4, <3>3 DEF Covered, HeldIn
    <2> QED BY <2>1, <2>2, <2>3
  <1> QED BY <1>1, <1>2, <1>3, <1>4, FileStep

\* A row loses its key to somebody who has deleted the file.
LEMMA KeyLost ==
  ASSUME Base, [Next]_vars, NEW j \in Jobs, job[j].key, ~job'[j].key
  PROVE  \/ \E e \in Erasers : purge[e].clearing = j
         \/ keeper.step = "clear" /\ keeper.job = j
PROOF
  <1>1. /\ TypeOK /\ UploadingIsNew /\ WorkerShape /\ JobType
        /\ job[j] \in JobRecord /\ DOMAIN job = Jobs
    BY TypeParts DEF Base, JobType
  <1>2. ~KeyKept(j)
    BY DEF KeyKept
  <1>3. OutsideStep
    BY <1>1, <1>2, NextCases, WorkerJobChange, PickUpJobChange DEF vars
  <1> SUFFICES ASSUME ~\E e \in Erasers : PurgeKey(e) /\ purge[e].clearing = j,
                      ~(ClearKey /\ keeper.job = j)
               PROVE  FALSE
    BY DEF ClearKey
  <1>4. ASSUME NEW i \in Jobs, RequestOf(i) \/ Age(i)
        PROVE  FALSE
    <2>1. CASE RequestExport(i)
      <3>1. job'[j] = job[j] \/ job'[j] = StatusSet(job[j], "pending")
        BY <1>1, <2>1 DEF RequestExport, StatusSet
      <3>2. StatusSet(job[j], "pending").key = job[j].key
        <4>1. "pending" \in Statuses
          BY DEF Statuses, Open
        <4> QED BY <1>1, <4>1, StatusFields, Zenon
      <3> QED BY <3>1, <3>2
    <2>2. CASE StageImport(i) \/ CreateImport(i) \/ CreateImportFails(i) \/ Age(i)
      BY <1>1, <2>2 DEF StageImport, CreateImport, CreateImportFails, Age
    <2> QED BY <1>4, <2>1, <2>2 DEF RequestOf
  <1>5. ASSUME NEW e \in Erasers, EraserStep(e)
        PROVE  FALSE
    <2>1. CASE PurgeKey(e)
      BY <1>1, <2>1 DEF PurgeKey, ForgetKey
    <2>2. ASSUME NEW p \in People, Erase(e, p)
          PROVE  FALSE
      BY <1>1, <2>2, StoppedRow DEF Erase
    <2>3. CASE PurgeDies(e) \/ \E i \in Jobs : PurgeFile(e, i)
      BY <2>3 DEF PurgeDies, PurgeFile
    <2> QED BY <1>5, <2>1, <2>2, <2>3 DEF EraserStep
  <1>6. CASE KeeperStep
    BY <1>1, <1>6 DEF KeeperStep, KeepOrDelete, SweepLook, ClearKey, SweepDelete,
                      ForgetKey
  <1>7. CASE ReaderStep
    BY <1>7 DEF ReaderStep, OpenDownload, ReadFile, Answer, CloseDownload, ReaderOnly
  <1> QED BY <1>3, <1>4, <1>5, <1>6, <1>7 DEF OutsideStep

\* What an erasure has still to do comes from its own commit, and a key to
\* clear from the file it has just deleted.
LEMMA PurgeStep ==
  ASSUME Base, [Next]_vars, NEW e \in Erasers, NEW j \in Jobs
  PROVE  /\ j \in purge'[e].todo =>
              \/ j \in purge[e].todo
              \/ job[j].key /\ job' = [i \in Jobs |-> Stopped(i)]
         /\ purge'[e].clearing = j =>
              \/ purge[e].clearing = j
              \/ j \in purge[e].todo /\ ~file'[j].stored
         /\ j \in purge[e].todo =>
              \/ j \in purge'[e].todo
              \/ ~file'[j].stored
              \/ j \in spared'
              \/ ~Purgeable(j) /\ UNCHANGED <<job, file, gone>>
PROOF
  <1>1. /\ purge \in [Erasers -> PurgeRecord] /\ purge[e] \in PurgeRecord
        /\ DOMAIN file = Jobs /\ file[j] \in FileRecord
        /\ Nothing \notin Jobs
    BY JobsAssumption DEF Base, TypeOK, PurgeRecord, FileRecord, JobsAssumption
  <1>2. CASE purge'[e] = purge[e]
    BY <1>2
  <1>3. ASSUME NEW p \in People, Erase(e, p)
        PROVE  /\ purge'[e].todo = {i \in Jobs : job[i].key}
               /\ purge'[e].clearing = purge[e].clearing
               /\ purge[e].todo = {}
               /\ job' = [i \in Jobs |-> Stopped(i)]
    BY <1>1, <1>3 DEF Erase, PurgeRecord
  <1>4. CASE PurgeKey(e)
    BY <1>1, <1>4 DEF PurgeKey, PurgeRecord
  <1>5. CASE PurgeDies(e)
    BY <1>1, <1>5 DEF PurgeDies
  <1>6. ASSUME NEW i \in Jobs, PurgeFile(e, i)
        PROVE  /\ j \in purge'[e].todo => j \in purge[e].todo
               /\ purge'[e].clearing = j => j \in purge[e].todo /\ ~file'[j].stored
               /\ j \in purge[e].todo =>
                     \/ j \in purge'[e].todo
                     \/ ~file'[j].stored
                     \/ j \in spared'
                     \/ ~Purgeable(j) /\ UNCHANGED <<job, file, gone>>
    <2>1. i \in purge[e].todo /\ purge[e].clearing = Nothing
          /\ UNCHANGED <<job, gone>>
      BY <1>6 DEF PurgeFile
    <2>2. \/ /\ ~Purgeable(i) /\ UNCHANGED file
             /\ purge' = [purge EXCEPT ![e].todo = @ \ {i}]
          \/ /\ Delete(i)
             /\ purge' = [purge EXCEPT ![e].todo = @ \ {i}, ![e].clearing = i]
          \/ /\ spared' = spared \cup {i}
             /\ purge' = [purge EXCEPT ![e].todo = @ \ {i}]
      BY <1>6 DEF PurgeFile
    <2>3. purge'[e].todo = purge[e].todo \ {i}
      BY <1>1, <2>2 DEF PurgeRecord
    <2>4. \/ purge'[e].clearing = purge[e].clearing
          \/ purge'[e].clearing = i /\ Delete(i)
      BY <1>1, <2>2 DEF PurgeRecord
    <2>5. ASSUME Delete(j)
          PROVE  ~file'[j].stored
      <3>1. file'[j] = StoredSet(file[j], FALSE)
        BY <1>1, <2>5 DEF Delete, StoredSet
      <3>2. ~StoredSet(file[j], FALSE).stored
        BY <1>1, FileFields, Zenon
      <3> QED BY <3>1, <3>2, Zenon
    <2> HIDE DEF Delete
    <2> QED BY <1>1, <2>1, <2>2, <2>3, <2>4, <2>5
  <1>7. \/ purge'[e] = purge[e]
        \/ EraserStep(e)
    <2>1. ASSUME NEW f \in Erasers, f # e, EraserStep(f)
          PROVE  purge'[e] = purge[e]
      BY <1>1, <2>1 DEF EraserStep, PurgeKey, PurgeDies, Erase, PurgeFile
    <2>2. CASE UNCHANGED purge
      BY <2>2
    <2>3. UNCHANGED purge \/ \E f \in Erasers : EraserStep(f)
      BY NextCases
         DEF vars, OutsideStep, RequestOf, RequestExport, StageImport, CreateImport,
             CreateImportFails, Elsewhere, Age, KeeperStep, KeepOrDelete, ClearKey,
             SweepLook, SweepDelete, KeeperStays, ReaderStep, OpenDownload, ReadFile,
             Answer, CloseDownload, ReaderOnly, RunStep, WorkerFault, ReadRows,
             PutFile, RecordFile, TakeBack, NoteKey, LoadFile, CommitImport, Unstage,
             MarkFailed, ReadAudit, Reclaim, RunFails, RecordBreaks, TakeBackFails,
             Crash, Claim, FindStale
    <2> QED BY <2>1, <2>2, <2>3
  <1> QED BY <1>2, <1>3, <1>4, <1>5, <1>6, <1>7 DEF EraserStep

\* The retention run clears the key of a finished job whose file it has deleted.
LEMMA KeeperClears ==
  ASSUME Base, [Next]_vars, keeper'.step = "clear", NEW j \in Jobs, keeper'.job = j
  PROVE  \/ keeper.step = "clear" /\ keeper.job = j
         \/ job[j].status \in Finished /\ ~file'[j].stored
PROOF
  <1>1. DOMAIN file = Jobs /\ file[j] \in FileRecord
    BY DEF Base, TypeOK, FileRecord
  <1>2. ASSUME Delete(j)
        PROVE  ~file'[j].stored
    <2>1. file'[j] = StoredSet(file[j], FALSE)
      BY <1>1, <1>2 DEF Delete, StoredSet
    <2>2. ~StoredSet(file[j], FALSE).stored
      BY <1>1, FileFields, Zenon
    <2> QED BY <2>1, <2>2, Zenon
  <1>3. UNCHANGED keeper \/ KeeperStep
    BY NextCases
       DEF vars, OutsideStep, RequestOf, RequestExport, StageImport, CreateImport,
           CreateImportFails, Elsewhere, Age, EraserStep, PurgeKey, PurgeDies, Erase,
           PurgeFile, ReaderStep, OpenDownload, ReadFile, Answer, CloseDownload,
           ReaderOnly, RunStep, WorkerFault, ReadRows, PutFile, RecordFile, TakeBack,
           NoteKey, LoadFile, CommitImport, Unstage, MarkFailed, ReadAudit, Reclaim,
           RunFails, RecordBreaks, TakeBackFails, Crash, Claim, FindStale
  <1>4. CASE KeeperStep
    <2>1. UNCHANGED keeper \/ (job[j].status \in Finished /\ Delete(j))
      BY <1>4 DEF KeeperStep, KeepOrDelete, ClearKey, SweepLook, SweepDelete, Expired
    <2> QED BY <1>2, <2>1
  <1> QED BY <1>3, <1>4

\* A worker comes to take a file back that it has put, and to note its key when
\* it could not delete it.
LEMMA BackStep ==
  ASSUME Base, [Next]_vars, NEW w \in Workers,
         worker'[w].step \in {"takeback", "noting"}
  PROVE  /\ worker[w].step \in {"stored", "takeback", "noting"}
         /\ worker'[w].job = Mine(w)
         /\ worker'[w].step = "noting" => \/ worker[w].step = "noting"
                                          \/ Mine(w) \in spared'
PROOF
  <1>1. worker \in [Workers -> WorkerRecord]
    BY DEF Base, TypeOK, WorkerRecord
  <1>2. CASE worker'[w] = worker[w]
    BY <1>2 DEF Mine
  <1>3. CASE RecordFile(w) \/ RecordBreaks(w)
    <2>1. /\ worker[w].step = "stored"
          /\ \/ Rests(w) \/ Goes(w, "takeback")
             \/ worker' = [worker EXCEPT ![w].step = "takeback", ![w].after = "failing"]
      BY <1>3 DEF RecordFile, RecordBreaks, At
    <2>2. ~Rests(w)
      BY <1>1 DEF Rests, Rest
    <2> QED BY <1>1, <2>1, <2>2 DEF Goes, Mine, WorkerRecord
  <1>4. CASE TakeBackFails(w)
    BY <1>1, <1>4 DEF TakeBackFails, At, Goes, Mine, WorkerRecord
  <1>5. CASE ReadRows(w) \/ PutFile(w)
    BY <1>1, <1>5 DEF ReadRows, PutFile, WorkerRecord
  <1>6. CASE \/ TakeBack(w) \/ NoteKey(w) \/ LoadFile(w)
             \/ CommitImport(w) \/ Unstage(w) \/ MarkFailed(w) \/ ReadAudit(w)
             \/ Reclaim(w) \/ RunFails(w) \/ Crash(w)
    <2>1. worker'[w].step \in {"idle", "failing", "loaded", "unstaging", "heal",
                               "reclaim"}
      BY <1>1, <1>6
         DEF TakeBack, NoteKey, LoadFile, CommitImport, Unstage, MarkFailed,
             ReadAudit, Reclaim, RunFails, Crash, Rests, Goes, Leaves, Rest,
             WorkerRecord
    <2> QED BY <2>1
  <1>7. ASSUME NEW i \in Jobs, Claim(w, i) \/ FindStale(w, i)
        PROVE  FALSE
    <2>1. /\ [Rest EXCEPT !.step = "claimed", !.job = i].step = "claimed"
          /\ [Rest EXCEPT !.step = "stale", !.job = i, !.seen = job[i].status].step
               = "stale"
      BY DEF Rest
    <2> QED BY <1>1, <1>7, <2>1 DEF Claim, FindStale
  <1>8. \/ worker'[w] = worker[w] \/ RunStep(w) \/ WorkerFault(w)
        \/ \E i \in Jobs : Claim(w, i) \/ FindStale(w, i)
    BY WorkerMoves DEF Base
  <1> QED BY <1>2, <1>3, <1>4, <1>5, <1>6, <1>7, <1>8 DEF RunStep, WorkerFault

\* What a job has come to is never taken back.
LEMMA StatusOnward ==
  ASSUME Base, [Next]_vars, NEW j \in Jobs
  PROVE  /\ job[j].status # "none" => job'[j].status # "none"
         /\ job[j].status \in Finished => job'[j].status = job[j].status
PROOF
  <1>1. JobChange(j)
    BY StepJobChange DEF Base
  <1> QED BY <1>1 DEF JobChange, StatusKept, Created, Started, Ended, Open, Finished

\* Nobody gives a key to a row that is not there.
LEMMA KeyHasRowStep ==
  ASSUME Base, KeyHasRow, BackHasRow, [Next]_vars
  PROVE  KeyHasRow'
PROOF
  <1> SUFFICES ASSUME NEW j \in Jobs, job'[j].key, job'[j].status = "none"
               PROVE  FALSE
    BY DEF KeyHasRow
  <1>1. /\ TypeOK /\ UploadingIsNew /\ WorkerShape /\ JobType
        /\ job[j] \in JobRecord /\ DOMAIN job = Jobs
    BY TypeParts DEF Base, JobType
  <1>2. job[j].status = "none" /\ ~job[j].key
    BY StatusOnward DEF KeyHasRow
  <1>3. "pending" \in Statuses /\ "failed" \in Statuses /\ "succeeded" \in Statuses
    BY DEF Statuses, Open, Finished
  <1>4. \A s \in Statuses : StatusSet(job[j], s).key = job[j].key
    BY <1>1, StatusFields, Zenon
  <1>5. CASE OutsideStep
    <2>1. ASSUME NEW i \in Jobs, RequestOf(i) \/ Age(i)
          PROVE  FALSE
      <3>1. CASE RequestExport(i)
        <4>1. job'[j] = job[j] \/ job'[j] = StatusSet(job[j], "pending")
          BY <1>1, <3>1 DEF RequestExport, StatusSet
        <4> QED BY <1>2, <1>3, <1>4, <4>1
      <3>2. CASE StageImport(i) \/ CreateImport(i) \/ CreateImportFails(i) \/ Age(i)
        BY <1>1, <1>2, <3>2 DEF StageImport, CreateImport, CreateImportFails, Age
      <3> QED BY <2>1, <3>1, <3>2 DEF RequestOf
    <2>2. ASSUME NEW e \in Erasers, EraserStep(e)
          PROVE  FALSE
      <3>1. job'[j] \in {job[j], KeySet(job[j], FALSE), Stopped(j)}
        BY <1>1, <2>2 DEF EraserStep, PurgeKey, PurgeDies, Erase, PurgeFile,
                          ForgetKey, KeySet
      <3>2. ~KeySet(job[j], FALSE).key
        BY <1>1, KeyFields, Zenon
      <3> QED BY <1>1, <1>2, <3>1, <3>2, StoppedRow
    <2>3. CASE KeeperStep
      <3>1. job'[j] \in {job[j], KeySet(job[j], FALSE)}
        BY <1>1, <2>3 DEF KeeperStep, KeepOrDelete, SweepLook, ClearKey, SweepDelete,
                          ForgetKey, KeySet
      <3>2. ~KeySet(job[j], FALSE).key
        BY <1>1, KeyFields, Zenon
      <3> QED BY <1>2, <3>1, <3>2
    <2>4. CASE ReaderStep
      BY <1>2, <2>4 DEF ReaderStep, OpenDownload, ReadFile, Answer, CloseDownload,
                        ReaderOnly
    <2> QED BY <1>5, <2>1, <2>2, <2>3, <2>4 DEF OutsideStep
  <1>6. ASSUME NEW w \in Workers, RunStep(w) \/ WorkerFault(w)
        PROVE  FALSE
    <2>1. CASE \/ ReadRows(w) \/ PutFile(w) \/ TakeBack(w) \/ LoadFile(w)
               \/ Unstage(w) \/ ReadAudit(w) \/ RunFails(w) \/ TakeBackFails(w)
               \/ Crash(w)
      BY <1>2, <2>1 DEF ReadRows, PutFile, TakeBack, LoadFile, Unstage, ReadAudit,
                        RunFails, TakeBackFails, Crash
    <2>2. CASE RecordFile(w) \/ RecordBreaks(w)
      BY <1>1, <1>2, <2>2 DEF RecordFile, RecordBreaks, StillRunning, WithFile
    <2>3. CASE NoteKey(w)
      <3>1. Mine(w) # j
        BY <1>2, <2>3 DEF NoteKey, At, BackHasRow
      <3> QED BY <1>1, <1>2, <2>3, <3>1 DEF NoteKey
    <2>4. CASE CommitImport(w) \/ MarkFailed(w) \/ Reclaim(w)
      <3>1. job'[j] \in {job[j], StatusSet(job[j], "succeeded"),
                         StatusSet(job[j], "failed"), StatusSet(job[j], job[j].status)}
        BY <1>1, <2>4 DEF CommitImport, MarkFailed, Reclaim, StatusSet
      <3>2. job[j].status \in Statuses
        BY <1>1 DEF JobRecord
      <3> QED BY <1>2, <1>3, <1>4, <3>1, <3>2
    <2> QED BY <1>6, <2>1, <2>2, <2>3, <2>4 DEF RunStep, WorkerFault
  <1>7. ASSUME NEW w \in Workers, NEW i \in Jobs, Claim(w, i) \/ FindStale(w, i)
        PROVE  FALSE
    <2>1. job'[j] = job[j] \/ job[j].status = "pending"
      BY <1>1, <1>7 DEF Claim, FindStale
    <2> QED BY <1>2, <2>1
  <1>8. CASE UNCHANGED vars
    BY <1>2, <1>8 DEF vars
  <1> QED BY <1>5, <1>6, <1>7, <1>8, NextCases

\* Who takes a file back has put it for a job that had been claimed.
LEMMA BackHasRowStep ==
  ASSUME Base, RunnersApart, BackHasRow, [Next]_vars
  PROVE  BackHasRow'
PROOF
  <1> SUFFICES ASSUME NEW w \in Workers, worker'[w].step \in {"takeback", "noting"}
               PROVE  /\ job'[worker'[w].job].status # "none"
                      /\ worker'[w].step = "noting" => worker'[w].job \in spared'
    BY DEF BackHasRow, Mine
  <1>1. /\ worker[w].step \in {"stored", "takeback", "noting"}
        /\ worker'[w].job = Mine(w)
        /\ worker'[w].step = "noting" => \/ worker[w].step = "noting"
                                         \/ Mine(w) \in spared'
    BY BackStep
  <1>2. job[Mine(w)].status # "none"
    BY <1>1 DEF RunnersApart, Runs, BackHasRow
  <1>3. Mine(w) \in Jobs
    BY <1>1, BusyHasJob, TypeParts DEF Base, At
  <1>4. job'[Mine(w)].status # "none"
    BY <1>2, <1>3, StatusOnward
  <1>5. worker[w].step = "noting" => Mine(w) \in spared'
    BY SparedGrows DEF BackHasRow
  <1> QED BY <1>1, <1>4, <1>5

\* A row without a key, and its file.
LEMMA NamedStep ==
  ASSUME Base, Named, Cleared, KeyHasRow, [Next]_vars
  PROVE  Named'
PROOF
  <1> SUFFICES ASSUME NEW j \in Jobs, ~job'[j].key,
                      j \in Exports \/ job'[j].status # "none"
               PROVE  Covered(j)'
    BY DEF Named
  <1>1. TypeOK /\ UploadingIsNew /\ WorkerShape
    BY DEF Base
  <1>2. CASE j \in Exports \/ job[j].status # "none"
    <2>1. Covered(j)
      BY <1>2, KeyLost DEF Named, Cleared
    <2> QED BY <1>2, <2>1, CoveredStep
  <1>3. CASE j \notin Exports /\ job[j].status = "none"
    <2>1. CreateImport(j)
      BY <1>1, <1>3, StepJobChange
         DEF JobChange, StatusKept, Created, Started, Ended, Open, RequestExport
    <2>2. job'[j] = [status |-> "pending", key |-> TRUE, invalid |-> FALSE]
      BY <1>1, <2>1 DEF CreateImport, TypeOK
    <2> QED BY <2>2
  <1> QED BY <1>2, <1>3

\* Who is about to lose its key, and whose file is to go.
LEMMA ClearedStep ==
  ASSUME Base, Cleared, KeyHasRow, [Next]_vars
  PROVE  Cleared'
PROOF
  <1>1. ASSUME NEW j \in Jobs, job[j].status \in Finished
        PROVE  /\ job'[j].status \in Finished
               /\ Covered(j) \/ ~file'[j].stored => Covered(j)'
    <2>1. job'[j].status \in Finished
      BY <1>1, StatusOnward
    <2>2. ~file'[j].stored => Covered(j)'
      BY DEF Covered
    <2>3. Covered(j) => Covered(j)'
      BY <1>1, CoveredStep DEF Finished
    <2> QED BY <2>1, <2>2, <2>3
  <1>2. ASSUME NEW e \in Erasers, NEW j \in Jobs
        PROVE  /\ j \in purge'[e].todo => job'[j].status \in Finished
               /\ purge'[e].clearing = j =>
                    job'[j].status \in Finished /\ Covered(j)'
    <2>1. ASSUME job[j].key, job' = [i \in Jobs |-> Stopped(i)]
          PROVE  job'[j].status \in Finished
      <3>1. job[j].status # "none" /\ job[j] \in JobRecord /\ JobType
        BY <2>1, TypeParts DEF KeyHasRow, Base, JobType
      <3> QED BY <2>1, <3>1, StoppedRow DEF JobRecord, Statuses, Finished
    <2> QED BY <1>1, <2>1, PurgeStep DEF Cleared
  <1>3. ASSUME keeper'.step = "clear", NEW j \in Jobs, keeper'.job = j
        PROVE  job'[j].status \in Finished /\ Covered(j)'
    BY <1>1, <1>3, KeeperClears DEF Cleared
  <1> QED BY <1>2, <1>3 DEF Cleared

\* Whoever was to delete the file of somebody erased has done so, or still is.
LEMMA TaintedStep ==
  ASSUME Base, OpenIsClean, OpenIsClean', Named, Cleared, TaintedIsCaught,
         [Next]_vars
  PROVE  TaintedIsCaught'
PROOF
  <1> SUFFICES ASSUME NEW j \in Jobs, file'[j].stored,
                      file'[j].people \cap gone'[j] # {},
                      j \notin spared', ~HeldIn(worker', j)
               PROVE  \E e \in Erasers : j \in purge'[e].todo
    BY DEF TaintedIsCaught, Tainted, HeldIn, Mine
  <1>1. TypeOK /\ WorkerShape /\ JobType /\ job[j] \in JobRecord
    BY TypeParts DEF Base, JobType
  <1>2. job'[j].status \in Finished
    BY DEF OpenIsClean
  <1>3. ~Covered(j)'
    BY DEF Covered
  <1>4. ~\E w \in Workers : PutFile(w) /\ Mine(w) = j
    <2> SUFFICES ASSUME NEW w \in Workers, PutFile(w), Mine(w) = j
                 PROVE  FALSE
      OBVIOUS
    <2>1. worker'[w].step = "stored" /\ worker'[w].job = j
      BY DEF PutFile, Mine, Base, TypeOK
    <2> QED BY <2>1 DEF HeldIn
  <1>5. ~StageImport(j)
    BY <1>2 DEF StageImport, Finished
  <1>6. FileKept(j)
    BY <1>4, <1>5, FileStep
  <1>7. ASSUME job[j].status # "none", Covered(j)
        PROVE  job[j].status = "running" /\ job'[j].status = "succeeded"
    BY <1>3, <1>7, CoveredStep
  <1>8. CASE gone'[j] \in {gone[j], {}}
    <2>1. Tainted(j)
      BY <1>6, <1>8 DEF Tainted, FileKept
    <2>2. job[j].status \in Finished
      BY <2>1 DEF OpenIsClean, Tainted
    <2>3. ~Covered(j) /\ job[j].key
      BY <1>7, <2>2 DEF Finished, Named
    <2>4. PICK e \in Erasers : j \in purge[e].todo
      BY <2>1, <2>3 DEF TaintedIsCaught, Covered, HeldIn, Mine
    <2>5. Purgeable(j)
      BY <2>2, <2>3 DEF Purgeable, Jobs
    <2> QED BY <2>4, <2>5, PurgeStep
  <1>9. CASE /\ job' = [i \in Jobs |-> Stopped(i)]
             /\ \E e \in Erasers, p \in People : Erase(e, p)
             /\ job[j].status = "none" => gone'[j] = gone[j]
    <2>1. job[j].status # "none"
      BY <1>9 DEF OpenIsClean, Finished
    <2>2. ~Covered(j)
      <3>1. job[j].status = "running" => job'[j].status = "failed"
        BY <1>1, <1>9, StoppedRow DEF Open
      <3> QED BY <1>7, <2>1, <3>1
    <2>3. job[j].key
      BY <2>1, <2>2 DEF Named
    <2>4. PICK e \in Erasers, p \in People : Erase(e, p)
      BY <1>9
    <2>5. purge'[e].todo = {i \in Jobs : job[i].key}
      BY <2>4 DEF Erase, Base, TypeOK
    <2> QED BY <2>3, <2>5
  <1> QED BY <1>1, <1>8, <1>9, GoneStep

\* No file outlives the erasure of a person in it unless somebody is about to
\* delete it, or a fault has kept it: the erasure takes every file that a row
\* names, and a file that no row names is held by the worker that wrote it.
THEOREM NoTaintedFileIsForgotten == Spec => []TaintedIsCaught
PROOF
  <1>1. Init => Filing
    <2>1. Init => KeyHasRow /\ BackHasRow
      BY DEF Init, KeyHasRow, BackHasRow, NoRow, Rest
    <2>2. Init => Named
      BY DEF Init, Named, Covered, NoFile
    <2>3. Init => Cleared
      BY JobsAssumption DEF Init, Cleared, JobsAssumption
    <2>4. Init => TaintedIsCaught
      BY DEF Init, TaintedIsCaught, Tainted, NoFile
    <2> QED BY <2>1, <2>2, <2>3, <2>4 DEF Filing
  <1>2. Base /\ OpenIsClean /\ OpenIsClean' /\ RunnersApart /\ Filing /\ [Next]_vars
          => Filing'
    BY KeyHasRowStep, BackHasRowStep, NamedStep, ClearedStep, TaintedStep DEF Filing
  <1>3. Filing => TaintedIsCaught
    BY DEF Filing
  <1> QED BY <1>1, <1>2, <1>3, BaseHolds, OpenIsCleanHolds, RunnersApartHolds, PTL
          DEF Spec
=============================================================================
