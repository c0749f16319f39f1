--------------------------- MODULE BackupScheduler ---------------------------
(***************************************************************************)
(* The backup scheduler (backup/scheduler.go, backup/manager.go) over the  *)
(* backup engine: cron jobs that back the table up at its latest version,  *)
(* a cleanup goroutine per Start that deletes expired backups, and Stop,   *)
(* which keeps the scheduler's mutex while it waits for running jobs that  *)
(* want the same mutex to record their result.  Other callers use the      *)
(* engine at the same time.                                                *)
(***************************************************************************)
EXTENDS BackupEngine

CONSTANTS
    Jobs,        \* goroutines of the cron job; the other Callers are manual
    Cleaners     \* cleanup goroutines; the other Deleters are manual

ASSUME SchedulerAssumption == Jobs \subseteq Callers /\ Cleaners \subseteq Deleters

VARIABLES
    job,         \* the table has a cron entry: backupScheduler.jobs
    listed,      \* it is in backupScheduler.scheduled
    running,     \* backupScheduler.running
    ticking,     \* the cron loop runs
    stopping,    \* a Stop waits, and holds the mutex
    live,        \* the cleanup goroutines that run
    expired      \* [Cleaners -> ids its cleanup has still to delete]

schedulerVars == <<job, listed, running, ticking, stopping, live, expired>>
vars == <<engineVars, schedulerVars>>

Init ==
    /\ EngineInit
    /\ job = FALSE /\ listed = FALSE
    /\ running = FALSE /\ ticking = FALSE /\ stopping = FALSE
    /\ live = {}
    /\ expired = [d \in Cleaners |-> {}]

-----------------------------------------------------------------------------

\* A new entry replaces the old one.
ScheduleBackup ==
    /\ ~stopping
    /\ job' = TRUE /\ listed' = TRUE
    /\ UNCHANGED <<engineVars, running, ticking, stopping, live, expired>>

\* cron refuses the expression after the old entry is gone; its record stays.
ScheduleRefused ==
    /\ ~stopping
    /\ job' = FALSE
    /\ UNCHANGED <<engineVars, listed, running, ticking, stopping, live,
                   expired>>

UnscheduleBackup ==
    /\ ~stopping /\ job
    /\ job' = FALSE /\ listed' = FALSE
    /\ UNCHANGED <<engineVars, running, ticking, stopping, live, expired>>

\* Every Start adds a cleanup goroutine; Stop ends none.
Start ==
    /\ ~stopping /\ ~running
    /\ running' = TRUE /\ ticking' = TRUE
    /\ \E d \in Cleaners \ live : live' = live \cup {d}
    /\ UNCHANGED <<engineVars, job, listed, stopping, expired>>

Stop ==
    /\ ~stopping /\ running
    /\ ticking' = FALSE /\ stopping' = TRUE
    /\ UNCHANGED <<engineVars, job, listed, running, live, expired>>

StopReturns ==
    /\ running' = FALSE /\ stopping' = FALSE
    /\ UNCHANGED <<engineVars, job, listed, ticking, live, expired>>

StopGraceful == stopping /\ (\A j \in Jobs : call[j] = "idle") /\ StopReturns

\* A mutant: Stop without its 30 seconds: it waits for the jobs only.
StopWaitsForJobs == StopGraceful

StopTimeout == stopping /\ StopReturns

-----------------------------------------------------------------------------

Tick(j) ==
    /\ ticking /\ job
    /\ Request(j)
    /\ UNCHANGED schedulerVars

JobFailed(j) ==
    /\ call[j] = "failed"
    /\ Return(j)
    /\ UNCHANGED schedulerVars

\* The mutex is wanted to set the LastBackup of the job's record.
RecordBackup(j) ==
    /\ call[j] = "succeeded" /\ ~stopping
    /\ Return(j)
    /\ UNCHANGED schedulerVars

\* performCleanup: the backups of the tables in scheduled that are too old.
\* One that is being written is not.
PerformCleanup(d) ==
    /\ d \in live /\ ~stopping /\ listed
    /\ expired[d] = {} /\ del[d][2] = {}
    /\ \E old \in SUBSET {b \in Ids : Exists(b) /\ (holder # None => b # cur)} :
          old # {} /\ expired' = [expired EXCEPT ![d] = old]
    /\ UNCHANGED <<engineVars, job, listed, running, ticking, stopping, live>>

CleanupDelete(d) ==
    \E b \in expired[d] :
        /\ del[d][2] = {}
        /\ expired' = [expired EXCEPT ![d] = @ \ {b}]
        /\ IF Exists(b) THEN DeleteBackup(d, b) ELSE UNCHANGED engineVars
        /\ UNCHANGED <<job, listed, running, ticking, stopping, live>>

\* The context given to Start is cancelled; a cleanup under way goes on.
CleanupRoutineEnds(d) ==
    /\ d \in live /\ expired[d] = {} /\ del[d][2] = {}
    /\ live' = live \ {d}
    /\ UNCHANGED <<engineVars, job, listed, running, ticking, stopping,
                   expired>>

ProcessDies ==
    /\ Crash
    /\ job' = FALSE /\ listed' = FALSE
    /\ running' = FALSE /\ ticking' = FALSE /\ stopping' = FALSE
    /\ live' = {} /\ expired' = [d \in Cleaners |-> {}]

BeginAny(c) ==
    /\ \E b \in Ids :
         \/ Begin(c, b, Latest)
         \/ c \notin Jobs /\ \E v \in Versions : Begin(c, b, v)
    /\ UNCHANGED schedulerVars

Next ==
    \/ WriteSlashed /\ UNCHANGED schedulerVars
    \/ (\E fs \in SUBSET Files : WriteJoined(fs)) /\ UNCHANGED schedulerVars
    \/ \E c \in Callers \ Jobs : (Request(c) \/ Return(c)) /\ UNCHANGED schedulerVars
    \/ \E c \in Callers : BeginAny(c)
    \/ CreateStep /\ UNCHANGED schedulerVars
    \/ \E d \in Deleters : DeleteKey(d) /\ UNCHANGED schedulerVars
    \/ \E d \in Deleters \ Cleaners, b \in Ids :
          DeleteBackup(d, b) /\ UNCHANGED schedulerVars
    \/ (\E b \in Ids : RestoreFromBackup(b)) /\ UNCHANGED schedulerVars
    \/ ScheduleBackup \/ ScheduleRefused \/ UnscheduleBackup
    \/ Start \/ Stop \/ StopGraceful \/ StopTimeout
    \/ \E j \in Jobs : Tick(j) \/ JobFailed(j) \/ RecordBackup(j)
    \/ \E d \in Cleaners : PerformCleanup(d) \/ CleanupDelete(d) \/ CleanupRoutineEnds(d)
    \/ ProcessDies

Spec == Init /\ [][Next]_vars

(* A backup goes on, its calls have timeouts, a caller takes its result,   *)
(* and Go's mutexes hand over to a goroutine that waits: strong fairness   *)
(* for the two steps that need one.  Stop's timer fires.                   *)
FairSpec ==
    /\ Spec
    /\ WF_vars(CreateStep /\ UNCHANGED schedulerVars)
    /\ WF_vars(StopTimeout)
    /\ \A c \in Callers : SF_vars(BeginAny(c))
    /\ \A j \in Jobs : WF_vars(JobFailed(j)) /\ SF_vars(RecordBackup(j))

-----------------------------------------------------------------------------
(* Properties                                                              *)

(* Every variable has its type, and one caller at most is creating a       *)
(* backup: the one that holds the engine's mutex.                          *)
TypeOK ==
    /\ slashed \in 0..MaxEntries
    /\ joined \in [Versions -> (SUBSET Files) \cup {{None}}]
    /\ marker \in BOOLEAN
    /\ fresh \subseteq Ids /\ deleted \subseteq Ids
    /\ manifest \in [Ids -> [status : Statuses \cup {"absent"}, files : SUBSET Copies]]
    /\ stored \in [Ids -> SUBSET Objects]
    /\ snapshot \in [Ids -> SUBSET Data]
    /\ call \in [Callers -> {"idle", "waiting", "creating", "succeeded", "failed"}]
    /\ holder \in Callers \cup {None}
    /\ step \in Steps /\ cur \in Ids /\ version \in Versions \cup {Latest}
    /\ todo \subseteq Copies /\ files \subseteq Copies /\ failed \in BOOLEAN
    /\ del \in [Deleters -> Ids \X SUBSET (Objects \cup {Manifest})]
    /\ target \subseteq Copies
    /\ holder # None <=> step # "none"
    /\ \A c \in Callers : call[c] = "creating" <=> holder = c
    /\ live \subseteq Cleaners /\ expired \in [Cleaners -> SUBSET Ids]

(* A manifest that says completed (it says so once performBackup has       *)
(* returned nil, also when CreateBackup then reports an error) lists every *)
(* file of the snapshot, and each file it lists and the checksum file are  *)
(* in the directory - unless somebody asked to delete that backup.         *)
CompletedIsWhole ==
    \A b \in Ids \ deleted :
        manifest[b].status = "completed" =>
            /\ snapshot[b] \subseteq manifest[b].files
            /\ manifest[b].files \cup {Checksum} \subseteq stored[b]

(* Restores put no data file at the target before the log entry that       *)
(* creates the table: ValidateRestore refuses the backups CreateBackup     *)
(* completes without a log.                                                *)
RestoresHaveALog == target # {} => <<"log", 0>> \in target

(* ValidateRestorability and ValidateRestore, which check a manifest in    *)
(* two ways, accept the same backups, those being written or deleted too.  *)
ValidatorsAgree ==
    \A b \in Ids : Exists(b) => (RestorabilityErrors(b) = {} <=> Restorable(b))

(* Every scheduled backup ends and is recorded, though Stop keeps the      *)
(* mutex it needs while waiting for it, and other callers hold the engine. *)
ScheduledJobsEnd == \A j \in Jobs : call[j] # "idle" ~> call[j] = "idle"

(* A backup at the latest version, as the scheduler asks for, contains the *)
(* table's metadata: it can be restored as it is                           *)
(* (backup/integration_test.go creates one at -1 and restores it).         *)
LatestIsRestorable ==
    \A b \in Ids \ deleted :
        manifest[b].status = "completed" /\ b = cur /\ version = Latest => Restorable(b)
=============================================================================
