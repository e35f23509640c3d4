----------------------------- MODULE AdminJobs -----------------------------
(***************************************************************************)
(* Exports and imports of one event: the AdminJob rows, the workers that   *)
(* run them, the requests that create them, the file each leaves in        *)
(* storage, the erasures that make such a file something nobody may have,  *)
(* and the runs that delete files.                                         *)
(*                                                                         *)
(* An export job writes one file and an import job has one staged file,    *)
(* so a file has the name of its job.  A file is written before the row    *)
(* names it, and deleted before the row forgets it.                        *)
(*                                                                         *)
(* An erasure holds the queue lock of the event and the rows of all open   *)
(* jobs until it commits, an import its own row: each is one step here.    *)
(* The worker's job lock is left out: two workers may run at once.         *)
(***************************************************************************)
EXTENDS Naturals, FiniteSets

CONSTANTS People,     \* addresses on the list, or in a file to be imported
          Exports,    \* jobs of type export
          Imports,    \* jobs of type import_commit
          Workers,    \* worker processes (drainExportJobs, drainImportJobs)
          Erasers,    \* requests that erase or remove somebody
          Nothing,    \* no job
          MaxFaults   \* bound: crashes, failed deletes, lost or failed writes

Jobs == Exports \cup Imports

ASSUME JobsAssumption ==
  /\ Exports \cap Imports = {}
  /\ Nothing \notin Jobs
  /\ MaxFaults \in Nat

Open == {"pending", "running"}
Finished == {"succeeded", "failed"}
Statuses == {"none"} \cup Open \cup Finished

VARIABLES
  list,       \* the people of the event that are not erased
  job,        \* job[j]: the AdminJob row
  file,       \* file[j]: what storage holds for j, and whether it is a day old
  landed,     \* imports with an attendees_imported row in the activity log
  uploading,  \* imports whose upload has staged its file and has no row yet
  worker,     \* worker[w]: what a worker is at
  purge,      \* purge[e]: the files an erasure has still to delete
  keeper,     \* the retention run: the file it is at
  reader,     \* a download of an export
  faults,     \* faults so far
  gone,       \* history: who was erased since j was created (an import) or
              \* since its rows were read (an export)
  spared      \* history: files that a fault kept from being deleted in time

vars == <<list, job, file, landed, uploading, worker, purge, keeper, reader,
          faults, gone, spared>>

Rest == [step |-> "idle", job |-> Nothing, seen |-> "none", rows |-> {},
         after |-> "idle"]
NoRow == [status |-> "none", key |-> FALSE, invalid |-> FALSE]
NoFile == [stored |-> FALSE, people |-> {}, old |-> FALSE]

Init ==
  /\ list = People
  /\ job = [j \in Jobs |-> NoRow]
  /\ file = [j \in Jobs |-> NoFile]
  /\ landed = {}
  /\ uploading = {}
  /\ worker = [w \in Workers |-> Rest]
  /\ purge = [e \in Erasers |-> [todo |-> {}, clearing |-> Nothing]]
  /\ keeper = [step |-> "idle", job |-> Nothing]
  /\ reader = [step |-> "idle", job |-> Nothing]
  /\ faults = 0
  /\ gone = [j \in Jobs |-> {}]
  /\ spared = {}

Fault == faults < MaxFaults /\ faults' = faults + 1

At(w, step) == worker[w].step = step
Mine(w) == worker[w].job
Goes(w, step) == worker' = [worker EXCEPT ![w].step = step]

\* A worker that is done and still has its job in hand.
RestsHoldingJob(w) == worker' = [worker EXCEPT ![w].step = "idle"]

Rests(w) == worker' = [worker EXCEPT ![w] = Rest]

\* Done with the job, or on to marking it failed.
Leaves(w) == IF worker[w].after = "idle" THEN Rests(w) ELSE Goes(w, "failing")

Delete(j) == file' = [file EXCEPT ![j].stored = FALSE]

Elsewhere == UNCHANGED <<uploading, purge, keeper, reader>>

(***************************************************************************)
(* Requests that create a job                                              *)
(***************************************************************************)
RequestExport(j) ==
  /\ j \in Exports
  /\ job[j].status = "none"
  /\ job' = [job EXCEPT ![j].status = "pending"]
  /\ UNCHANGED <<list, file, landed, worker, faults, gone, spared>>
  /\ Elsewhere

\* The import's CSV is staged before its job exists.
StageImport(j) ==
  /\ j \in Imports \ uploading
  /\ job[j].status = "none" /\ ~file[j].stored
  /\ \E S \in SUBSET People \ {{}} :
       file' = [file EXCEPT ![j] = [stored |-> TRUE, people |-> S, old |-> FALSE]]
  /\ uploading' = uploading \cup {j}
  /\ UNCHANGED <<list, job, landed, worker, purge, keeper, reader, faults, gone,
                 spared>>

CreateImport(j) ==
  /\ j \in uploading
  /\ uploading' = uploading \ {j}
  /\ job' = [job EXCEPT ![j] = [status |-> "pending", key |-> TRUE,
                                invalid |-> FALSE]]
  /\ UNCHANGED <<list, file, landed, worker, purge, keeper, reader, faults, gone,
                 spared>>

\* The row cannot be created and the staged file goes again, or that fails too
\* (or the process dies), and nothing names the file.
CreateImportFails(j) ==
  /\ j \in uploading
  /\ uploading' = uploading \ {j}
  /\ Fault
  /\ Delete(j) \/ UNCHANGED file
  /\ UNCHANGED <<list, job, landed, worker, purge, keeper, reader, gone, spared>>

(***************************************************************************)
(* The workers                                                             *)
(***************************************************************************)
\* claimNextAdminJob
Claim(w, j) ==
  /\ At(w, "idle")
  /\ job[j].status = "pending"
  /\ job' = [job EXCEPT ![j].status = "running"]
  /\ worker' = [worker EXCEPT ![w] = [Rest EXCEPT !.step = "claimed", !.job = j]]
  /\ UNCHANGED <<list, file, landed, faults, gone, spared>>
  /\ Elsewhere

\* Too many rows, a bad request, a file that does not parse, a full event.
RunFails(w) ==
  /\ worker[w].step \in {"claimed", "built", "loaded"}
  /\ Goes(w, "failing")
  /\ UNCHANGED <<list, job, file, landed, faults, gone, spared>>
  /\ Elsewhere

\* findFilteredAttendeesForExport
ReadRows(w) ==
  /\ At(w, "claimed")
  /\ Mine(w) \in Exports
  /\ worker' = [worker EXCEPT ![w].step = "built", ![w].rows = list]
  /\ gone' = [gone EXCEPT ![Mine(w)] = {}]
  /\ UNCHANGED <<list, job, file, landed, faults, spared>>
  /\ Elsewhere

PutFile(w) ==
  /\ At(w, "built")
  /\ file' = [file EXCEPT ![Mine(w)] = [stored |-> TRUE, people |-> worker[w].rows,
                                        old |-> FALSE]]
  /\ worker' = [worker EXCEPT ![w].step = "stored", ![w].rows = {}]
  /\ UNCHANGED <<list, job, landed, faults, gone, spared>>
  /\ Elsewhere

StillRunning(j) == job[j].status = "running"

\* The update that records a file replaces result_json, marker and all.
WithFile(j) == [status |-> "succeeded", key |-> TRUE, invalid |-> FALSE]

\* A worker that records its file whatever has become of the job.
RecordFileAnyway(w) ==
  /\ At(w, "stored")
  /\ job' = [job EXCEPT ![Mine(w)] = WithFile(Mine(w))]
  /\ Rests(w)
  /\ UNCHANGED <<list, file, landed, faults, gone, spared>>
  /\ Elsewhere

RecordFile(w) ==
  /\ At(w, "stored")
  /\ IF StillRunning(Mine(w))
     THEN /\ job' = [job EXCEPT ![Mine(w)] = WithFile(Mine(w))]
          /\ Rests(w)
     ELSE /\ Goes(w, "takeback")
          /\ UNCHANGED job
  /\ UNCHANGED <<list, file, landed, faults, gone, spared>>
  /\ Elsewhere

\* The update throws: it was not made, or it was and the answer got lost.
RecordBreaks(w) ==
  /\ At(w, "stored")
  /\ Fault
  /\ \/ UNCHANGED job
     \/ /\ StillRunning(Mine(w))
        /\ job' = [job EXCEPT ![Mine(w)] = WithFile(Mine(w))]
  /\ worker' = [worker EXCEPT ![w].step = "takeback", ![w].after = "failing"]
  /\ UNCHANGED <<list, file, landed, gone, spared>>
  /\ Elsewhere

\* takeBackStoredFile; when the delete fails the key goes onto the row.
TakeBack(w) ==
  /\ At(w, "takeback")
  /\ Delete(Mine(w))
  /\ Leaves(w)
  /\ UNCHANGED <<list, job, landed, faults, gone, spared>>
  /\ Elsewhere

TakeBackFails(w) ==
  /\ At(w, "takeback")
  /\ Fault
  /\ spared' = spared \cup {Mine(w)}
  /\ Goes(w, "noting")
  /\ UNCHANGED <<list, job, file, landed, gone>>
  /\ Elsewhere

NoteKey(w) ==
  /\ At(w, "noting")
  /\ job' = [job EXCEPT ![Mine(w)].key = TRUE]
  /\ Leaves(w)
  /\ UNCHANGED <<list, file, landed, faults, gone, spared>>
  /\ Elsewhere

\* processImportJob: the staged file, if it is still there.
LoadFile(w) ==
  LET f == file[Mine(w)] IN
  /\ At(w, "claimed")
  /\ Mine(w) \in Imports
  /\ IF f.stored
     THEN worker' = [worker EXCEPT ![w].step = "loaded", ![w].rows = f.people]
     ELSE Goes(w, "failing")
  /\ UNCHANGED <<list, job, file, landed, faults, gone, spared>>
  /\ Elsewhere

\* An import that does not look at its job before it writes.
CommitImportUnasked(w) ==
  /\ At(w, "loaded")
  /\ list' = list \cup worker[w].rows
  /\ landed' = landed \cup {Mine(w)}
  /\ job' = [job EXCEPT ![Mine(w)].status = IF @ = "running" THEN "succeeded" ELSE @]
  /\ Goes(w, "unstaging")
  /\ UNCHANGED <<file, faults, gone, spared>>
  /\ Elsewhere

\* executeImportCommit: the people, the log row and the job's outcome in one
\* transaction, which starts with the job's row FOR UPDATE.
CommitImport(w) ==
  /\ At(w, "loaded")
  /\ IF StillRunning(Mine(w))
     THEN /\ list' = list \cup worker[w].rows
          /\ landed' = landed \cup {Mine(w)}
          /\ job' = [job EXCEPT ![Mine(w)].status = "succeeded"]
          /\ Goes(w, "unstaging")
     ELSE /\ Goes(w, "failing")
          /\ UNCHANGED <<list, landed, job>>
  /\ UNCHANGED <<file, faults, gone, spared>>
  /\ Elsewhere

\* bestEffortDelete and deleteStagedKey: the row keeps its key either way.
Unstage(w) ==
  /\ At(w, "unstaging")
  /\ \/ Delete(Mine(w)) /\ UNCHANGED faults
     \/ Fault /\ UNCHANGED file
  /\ Rests(w)
  /\ UNCHANGED <<list, job, landed, gone, spared>>
  /\ Elsewhere

\* A job marked failed without asking what it is by now.
MarkFailedAnyway(w) ==
  /\ At(w, "failing")
  /\ job' = [job EXCEPT ![Mine(w)].status = "failed"]
  /\ Rests(w)
  /\ UNCHANGED <<list, file, landed, faults, gone, spared>>
  /\ Elsewhere

\* markExportFailed, markFailed
MarkFailed(w) ==
  /\ At(w, "failing")
  /\ job' = [job EXCEPT ![Mine(w)].status = IF @ = "running" THEN "failed" ELSE @]
  /\ Rests(w)
  /\ UNCHANGED <<list, file, landed, faults, gone, spared>>
  /\ Elsewhere

\* Steps at which a worker has a file that the row may not name.
Holding == {"stored", "takeback", "noting"}

\* The worker dies with whatever it had in hand.
Crash(w) ==
  /\ ~At(w, "idle")
  /\ Fault
  /\ spared' = IF worker[w].step \in Holding THEN spared \cup {Mine(w)} ELSE spared
  /\ Rests(w)
  /\ UNCHANGED <<list, job, file, landed, gone>>
  /\ Elsewhere

(***************************************************************************)
(* Reclaiming what a worker left                                           *)
(***************************************************************************)
\* A job is stale by its age alone, whether or not somebody is at it.  A
\* pending one only counts when the heartbeat could not be written either.
FindStale(w, j) ==
  /\ At(w, "idle")
  /\ \/ job[j].status = "running" /\ UNCHANGED faults
     \/ job[j].status = "pending" /\ Fault
  /\ worker' = [worker EXCEPT ![w] = [Rest EXCEPT !.step = "stale", !.job = j,
                                                  !.seen = job[j].status]]
  /\ UNCHANGED <<list, job, file, landed, gone, spared>>
  /\ Elsewhere

\* loadImportAuditForHeal: has the import landed?
ReadAudit(w) ==
  /\ At(w, "stale")
  /\ Mine(w) \in Imports /\ worker[w].seen = "running"
  /\ Goes(w, IF Mine(w) \in landed THEN "heal" ELSE "reclaim")
  /\ UNCHANGED <<list, job, file, landed, faults, gone, spared>>
  /\ Elsewhere

\* A reclaim that goes by what it has read.
AsReadAssumed(w) == TRUE

\* The `where` of a reclaim: the status is still the one that was read.
AsRead(w) == job[Mine(w)].status = worker[w].seen

\* failExportJob, failStalePendingImportJob, reclaimStaleRunningImportJob
Reclaim(w) ==
  LET j == Mine(w) IN
  /\ \/ worker[w].step \in {"heal", "reclaim"}
     \/ At(w, "stale") /\ (j \in Exports \/ worker[w].seen = "pending")
  /\ IF ~AsRead(w)
     THEN /\ Rests(w)
          /\ UNCHANGED job
     ELSE /\ job' = [job EXCEPT ![j].status =
                       IF At(w, "heal") THEN "succeeded" ELSE "failed"]
          /\ IF j \in Imports THEN Goes(w, "unstaging") ELSE Rests(w)
  /\ UNCHANGED <<list, file, landed, faults, gone, spared>>
  /\ Elsewhere

(***************************************************************************)
(* Erasure and removal                                                     *)
(***************************************************************************)
\* An erasure that leaves the finished exports downloadable.
StoppedOnly(j) ==
  [job[j] EXCEPT !.status = IF @ \in Open THEN "failed" ELSE @]

\* stopOpenAttendeeJobs and invalidateEventExports
Stopped(j) ==
  IF job[j].status = "none" THEN job[j]
  ELSE [job[j] EXCEPT !.status = IF @ \in Open THEN "failed" ELSE @,
                      !.invalid = @ \/ j \in Exports]

\* eraseAttendees or removeAttendees; attendeeJobIdsWithFiles at its end.
Erase(e, p) ==
  /\ purge[e].todo = {} /\ purge[e].clearing = Nothing
  /\ p \in list
  /\ list' = list \ {p}
  /\ job' = [j \in Jobs |-> Stopped(j)]
  /\ purge' = [purge EXCEPT ![e].todo = {j \in Jobs : job[j].key}]
  /\ gone' = [j \in Jobs |-> IF job[j].status = "none" THEN gone[j]
                             ELSE gone[j] \cup {p}]
  /\ UNCHANGED <<file, landed, uploading, worker, keeper, reader, faults, spared>>

\* An import that has not finished still needs its file.
Purgeable(j) == job[j].key /\ (j \in Exports \/ job[j].status \in Finished)

\* purgeEventJobFiles: the file, then the key; a failed delete keeps the key.
PurgeFile(e, j) ==
  /\ j \in purge[e].todo
  /\ purge[e].clearing = Nothing
  /\ IF ~Purgeable(j)
     THEN /\ purge' = [purge EXCEPT ![e].todo = @ \ {j}]
          /\ UNCHANGED <<file, faults, spared>>
     ELSE \/ /\ Delete(j)
             /\ purge' = [purge EXCEPT ![e].todo = @ \ {j}, ![e].clearing = j]
             /\ UNCHANGED <<faults, spared>>
          \/ /\ Fault
             /\ spared' = spared \cup {j}
             /\ purge' = [purge EXCEPT ![e].todo = @ \ {j}]
             /\ UNCHANGED file
  /\ UNCHANGED <<list, job, landed, uploading, worker, keeper, reader, gone>>

ForgetKey(j) == job' = [job EXCEPT ![j].key = FALSE]

PurgeKey(e) ==
  /\ purge[e].clearing # Nothing
  /\ ForgetKey(purge[e].clearing)
  /\ purge' = [purge EXCEPT ![e].clearing = Nothing]
  /\ UNCHANGED <<list, file, landed, uploading, worker, keeper, reader, faults,
                 gone, spared>>

\* The request dies after its erasure has committed.
PurgeDies(e) ==
  /\ purge[e].todo # {} \/ purge[e].clearing # Nothing
  /\ Fault
  /\ spared' = spared \cup purge[e].todo
  /\ purge' = [purge EXCEPT ![e] = [todo |-> {}, clearing |-> Nothing]]
  /\ UNCHANGED <<list, job, file, landed, uploading, worker, keeper, reader, gone>>

(***************************************************************************)
(* The retention run: files of finished jobs, then files nobody names      *)
(***************************************************************************)
\* Assumed as sweepOrphanedJobFiles does: whoever writes a file names it, or
\* gives it up, long before it is a day old.
HasWriter(j) ==
  \/ j \in uploading
  \/ \E w \in Workers : /\ Mine(w) = j
                        /\ worker[w].step \in Holding

Age(j) ==
  /\ file[j].stored /\ ~file[j].old
  /\ ~HasWriter(j)
  /\ file' = [file EXCEPT ![j].old = TRUE]
  /\ UNCHANGED <<list, job, landed, uploading, worker, purge, keeper, reader,
                 faults, gone, spared>>

KeeperStays == UNCHANGED <<list, landed, uploading, worker, purge, reader, gone>>

\* A retention run that leaves the files of failed jobs.
ExpiredSucceeded(j) == job[j].status = "succeeded" /\ job[j].key

\* Retention days are any time after the job has finished.
Expired(j) == job[j].status \in Finished /\ job[j].key

\* purgeJobFiles
KeepOrDelete(j) ==
  /\ keeper.step = "idle"
  /\ Expired(j)
  /\ \/ /\ Delete(j)
        /\ keeper' = [step |-> "clear", job |-> j]
        /\ UNCHANGED faults
     \/ /\ Fault
        /\ UNCHANGED <<file, keeper>>
  /\ UNCHANGED <<job, spared>>
  /\ KeeperStays

ClearKey ==
  /\ keeper.step = "clear"
  /\ ForgetKey(keeper.job)
  /\ keeper' = [step |-> "idle", job |-> Nothing]
  /\ UNCHANGED <<file, faults, spared>>
  /\ KeeperStays

\* removeIfUnnamed: look once more, then delete.
SweepLook(j) ==
  /\ keeper.step = "idle"
  /\ file[j].stored /\ file[j].old
  /\ ~job[j].key
  /\ keeper' = [step |-> "sweep", job |-> j]
  /\ UNCHANGED <<job, file, faults, spared>>
  /\ KeeperStays

SweepDelete ==
  /\ keeper.step = "sweep"
  /\ \/ Delete(keeper.job) /\ UNCHANGED faults
     \/ Fault /\ UNCHANGED file
  /\ keeper' = [step |-> "idle", job |-> Nothing]
  /\ UNCHANGED <<job, spared>>
  /\ KeeperStays

(***************************************************************************)
(* Downloading an export                                                   *)
(***************************************************************************)
ReaderOnly == UNCHANGED <<list, job, file, landed, uploading, worker, purge,
                          keeper, faults, gone, spared>>

Downloadable(j) == job[j].key /\ ~job[j].invalid

OpenDownload(j) ==
  /\ reader.step = "idle"
  /\ j \in Exports
  /\ job[j].status = "succeeded" /\ Downloadable(j)
  /\ reader' = [step |-> "opened", job |-> j]
  /\ ReaderOnly

ReadFile ==
  /\ reader.step = "opened"
  /\ reader' = IF file[reader.job].stored THEN [reader EXCEPT !.step = "read"]
               ELSE [step |-> "idle", job |-> Nothing]
  /\ ReaderOnly

Answer ==
  /\ reader.step = "read"
  /\ reader' = IF Downloadable(reader.job) THEN [reader EXCEPT !.step = "served"]
               ELSE [step |-> "idle", job |-> Nothing]
  /\ ReaderOnly

CloseDownload ==
  /\ reader.step = "served"
  /\ reader' = [step |-> "idle", job |-> Nothing]
  /\ ReaderOnly

-----------------------------------------------------------------------------
RunStep(w) ==
  \/ ReadRows(w) \/ PutFile(w) \/ RecordFile(w) \/ TakeBack(w) \/ NoteKey(w)
  \/ LoadFile(w) \/ CommitImport(w) \/ Unstage(w) \/ MarkFailed(w)
  \/ ReadAudit(w) \/ Reclaim(w)

WorkerFault(w) == RunFails(w) \/ RecordBreaks(w) \/ TakeBackFails(w) \/ Crash(w)

KeeperStep ==
  \/ \E j \in Jobs : KeepOrDelete(j) \/ SweepLook(j)
  \/ ClearKey \/ SweepDelete

Next ==
  \/ \E j \in Jobs : \/ RequestExport(j) \/ StageImport(j) \/ CreateImport(j)
                     \/ CreateImportFails(j) \/ Age(j) \/ OpenDownload(j)
  \/ \E w \in Workers :
       \/ RunStep(w) \/ WorkerFault(w)
       \/ \E j \in Jobs : Claim(w, j) \/ FindStale(w, j)
  \/ \E e \in Erasers :
       \/ PurgeKey(e) \/ PurgeDies(e)
       \/ \E p \in People : Erase(e, p)
       \/ \E j \in Jobs : PurgeFile(e, j)
  \/ KeeperStep
  \/ ReadFile \/ Answer \/ CloseDownload

Spec == Init /\ [][Next]_vars

\* The worker's loop claims and reclaims for as long as it runs and goes on with
\* what it has begun; the retention run comes back every day; time passes; an
\* upload comes to an end.  Erasers and readers may stop at any point.
Fairness ==
  /\ \A w \in Workers :
       /\ WF_vars(RunStep(w))
       /\ \A j \in Jobs : WF_vars(Claim(w, j)) /\ WF_vars(FindStale(w, j))
  /\ WF_vars(KeeperStep)
  /\ \A j \in Jobs : WF_vars(Age(j)) /\ WF_vars(CreateImport(j))

FairSpec == Spec /\ Fairness
-----------------------------------------------------------------------------
(***************************************************************************)
(* What holds                                                              *)
(***************************************************************************)
Steps == {"idle", "claimed", "built", "stored", "takeback", "noting", "loaded",
          "unstaging", "failing", "stale", "heal", "reclaim"}

\* Types; a worker has a job exactly while it is at something.
TypeOK ==
  /\ list \in SUBSET People
  /\ job \in [Jobs -> [status : Statuses, key : BOOLEAN, invalid : BOOLEAN]]
  /\ file \in [Jobs -> [stored : BOOLEAN, people : SUBSET People, old : BOOLEAN]]
  /\ landed \in SUBSET Imports
  /\ uploading \in SUBSET Imports
  /\ worker \in [Workers -> [step : Steps, job : Jobs \cup {Nothing},
                             seen : {"none"} \cup Open, rows : SUBSET People,
                             after : {"idle", "failing"}]]
  /\ purge \in [Erasers -> [todo : SUBSET Jobs, clearing : Jobs \cup {Nothing}]]
  /\ keeper \in [step : {"idle", "clear", "sweep"}, job : Jobs \cup {Nothing}]
  /\ reader \in [step : {"idle", "opened", "read", "served"},
                 job : Jobs \cup {Nothing}]
  /\ faults \in Nat
  /\ gone \in [Jobs -> SUBSET People]
  /\ spared \in SUBSET Jobs
  /\ \A w \in Workers : Mine(w) = Nothing <=> At(w, "idle")
  /\ keeper.job = Nothing <=> keeper.step = "idle"
  /\ reader.job = Nothing <=> reader.step = "idle"

\* A file that holds somebody who was erased after the file took them in.
Tainted(j) == file[j].stored /\ file[j].people \cap gone[j] # {}

\* No file outlives the erasure of a person in it unless somebody is about to
\* delete it (the erasure itself, or the worker that has just written it) or a
\* fault has kept it from being deleted.
TaintedIsCaught ==
  \A j \in Jobs : Tainted(j) =>
    \/ j \in spared
    \/ \E e \in Erasers : j \in purge[e].todo
    \/ \E w \in Workers : Mine(w) = j /\ worker[w].step \in {"stored", "takeback"}

\* An import that an erasure has overtaken writes nobody back, whatever its
\* worker has already read.
NobodyWrittenBack ==
  [][\A j \in Imports : j \in landed' \ landed => file[j].people \cap gone[j] = {}]_vars

\* A download hands out nobody who has been erased since the file was made,
\* also when the erasure comes while the file is being read.
ServedIsCurrent ==
  [][reader.step = "read" /\ reader'.step = "served" =>
       file[reader.job].people \cap gone[reader.job] = {}]_vars

\* The list holds an import's people exactly when its job says so: a job that
\* failed, was reclaimed or stopped has written nothing, at whatever moment it
\* was closed, and one that landed is never shown as failed.
LandedAsShown ==
  \A j \in Imports : j \in landed <=> job[j].status = "succeeded"

\* A finished job keeps its outcome, however late another worker, a reclaim or
\* an erasure comes.
OutcomeIsFinal ==
  [][\A j \in Jobs : job[j].status \in Finished => job'[j].status = job[j].status]_vars

\* Every file goes in the end: the one a crashed worker left unnamed, the one
\* whose delete failed, and the staged file of an import that was never run.
FilesAreTemporary ==
  \A j \in Jobs : file[j].stored ~> ~file[j].stored

(***************************************************************************)
(* What a comment says, and the code breaks                                *)
(***************************************************************************)
\* "The write itself failed. The file is in storage and no row names it: take
\* it back."
TakesBackUnnamedOnly ==
  [][\A w \in Workers : TakeBack(w) => ~job[Mine(w)].key]_vars
=============================================================================
