---------------------------- MODULE Upkeep_proofs ----------------------------
(***************************************************************************)
(* Proofs about the parts Upkeep composes, and the plugin sandbox: the     *)
(* scheduler, the state file across releases, the checkpoints of a table.  *)
(* The parts share no state, so that a step of Upkeep is a step of one of  *)
(* them and leaves the others alone, and what is proved of a part holds    *)
(* of Upkeep.                                                              *)
(***************************************************************************)
EXTENDS Upkeep, Sandbox, TLAPS, WellFoundedInduction, FiniteSetTheorems

-----------------------------------------------------------------------------
(* The scheduler, for any names, any number of entries and of runs.  What  *)
(* makes Stop safe is that it waits only after the loop has stopped: from  *)
(* then on the number of runs can only fall.                               *)


QuietOnceStopped == life \in {"waiting", "stopped"} => ~ticking

SInv == TypeOK /\ QuietOnceStopped /\ NoRunAfterStop

(* A new scheduler has no entries and no runs.                             *)
LEMMA SInvInit == Init => SInv
  <1> SUFFICES ASSUME Init PROVE SInv
    OBVIOUS
  <1>1. entries \in Seq(Names) /\ Len(entries) = 0
    BY DEF Init
  <1>2. ticking \in BOOLEAN /\ cancelled \in BOOLEAN
    BY DEF Init
  <1>3. runs \in [Ids -> 0..MaxRuns] /\ jobs \in [Names -> 0..Len(entries)]
    BY <1>1, SchedulerAssumption DEF Init
  <1>4. TypeOK
    BY <1>1, <1>2, <1>3, SchedulerAssumption DEF Init, TypeOK
  <1> QED
    BY <1>4 DEF Init, SInv, QuietOnceStopped, NoRunAfterStop

(* Adding a job keeps the index of the jobs right.                         *)
LEMMA AddJobTyped ==
    ASSUME TypeOK, NEW n \in Names, AddJob(n)
    PROVE  TypeOK'
  <1> USE SchedulerAssumption DEF TypeOK
  <1>1. /\ entries' \in Seq(Names) /\ Len(entries') = Len(entries) + 1
        /\ Len(entries') <= MaxEntries
        /\ entries'[Len(entries')] = n
        /\ \A i \in 1..Len(entries) : entries'[i] = entries[i]
    BY DEF AddJob
  <1>2. jobs' \in [Names -> 0..Len(entries')]
    BY <1>1 DEF AddJob
  <1>3. ASSUME NEW m \in Names, jobs'[m] # 0
        PROVE  entries'[jobs'[m]] = m
    <2>1. CASE m = n
      BY <1>1, <2>1 DEF AddJob
    <2>2. CASE m # n
      <3>1. jobs'[m] = jobs[m]
        BY <2>2 DEF AddJob
      <3>2. jobs[m] \in 1..Len(entries) /\ entries[jobs[m]] = m
        BY <1>3, <3>1
      <3>3. entries'[jobs[m]] = entries[jobs[m]]
        BY <1>1, <3>2
      <3> QED
        BY <3>1, <3>2, <3>3
    <2> QED
      BY <2>1, <2>2
  <1>4. ticking' \in BOOLEAN /\ cancelled' \in BOOLEAN
    BY DEF AddJob
  <1> QED
    BY <1>1, <1>2, <1>3, <1>4 DEF AddJob

(* Every step keeps the invariant.                                         *)
LEMMA SInvStep == SInv /\ [Next]_vars => SInv'
  <1> SUFFICES ASSUME SInv, [Next]_vars PROVE SInv'
    OBVIOUS
  <1> USE SchedulerAssumption DEF SInv, TypeOK, QuietOnceStopped, NoRunAfterStop
  <1>1. CASE \E n \in Names : AddJob(n)
    BY <1>1, AddJobTyped DEF AddJob
  <1>2. CASE Start
    BY <1>2 DEF Start
  <1>3. CASE StopCancel
    BY <1>3 DEF StopCancel
  <1>4. CASE StopCron
    BY <1>4 DEF StopCron
  <1>5. CASE StopReturn
    BY <1>5 DEF StopReturn
  <1>6. ASSUME NEW e \in Ids, Fire(e) PROVE SInv'
    BY <1>6 DEF Fire
  <1>7. ASSUME NEW e \in Ids, Finish(e) PROVE SInv'
    BY <1>7 DEF Finish
  <1>8. CASE UNCHANGED vars
    BY <1>8 DEF vars
  <1> QED
    BY <1>1, <1>2, <1>3, <1>4, <1>5, <1>6, <1>7, <1>8 DEF Next

(* The invariant holds in every behaviour.                                 *)
LEMMA SchedulerInvariant == Spec => []SInv
  BY SInvInit, SInvStep, PTL DEF Spec

(* Every variable keeps its type, and jobs points to entries of its names. *)
THEOREM SchedulerTypeCorrect == Spec => []TypeOK
  BY SchedulerInvariant, PTL DEF SInv

(* Once Stop has returned no run is in progress and none ever starts, for  *)
(* any number of jobs, whatever fired while Stop was being called.         *)
THEOREM NothingRunsAfterStop == Spec => []NoRunAfterStop
  BY SchedulerInvariant, PTL DEF SInv

(* A step of Upkeep is one of the scheduler or leaves the scheduler alone. *)
LEMMA UpkeepStepOfScheduler == [UpkeepNext]_upkeepVars => [Next]_vars
  BY DEF UpkeepNext, SchedulerStep, CheckpointStep, ConsistencyStep, MigrationStep,
         upkeepVars, vars

(* Nor does a run start after Stop where the scheduler is one part of many.*)
THEOREM UpkeepStops == UpkeepSpec => []NoRunAfterStop
  <1>1. UpkeepInit => Init
    BY DEF UpkeepInit
  <1>2. UpkeepSpec => Spec
    BY <1>1, UpkeepStepOfScheduler, PTL DEF UpkeepSpec, Spec
  <1> QED
    BY <1>2, NothingRunsAfterStop, PTL

-----------------------------------------------------------------------------
(* The state file, for any objects and any number of releases.  The state  *)
(* a run works on has the shape of its release from the load on, and all   *)
(* that the file knew unless the load failed.                              *)

Files == [wrapped : BOOLEAN, version : Nat, shape : Nat, objects : SUBSET Synced]
Works == [source : BOOLEAN, nil : BOOLEAN, shape : Int, objects : SUBSET Synced]

(* The variables of the migration have their types.                        *)
MigrationTypeOK ==
    /\ release \in 0..MaxRelease /\ mode \in {"strict", "warn", "skip"}
    /\ file \in Files
    /\ running \in {"idle", "syncing", "failed", "panics"}
    /\ work \in Works
    /\ misread \in BOOLEAN

\* A wrapped file has the version of a release, and every file has the
\* shape of its version.
FileHasItsShape ==
    /\ file.wrapped => file.version > 0
    /\ file # NoFile => file.shape = IF file.wrapped THEN file.version ELSE 1

\* So has the state of a run that can save it; and it has not lost anything.
WorkIsFaithful ==
    /\ work.nil => ~work.source
    /\ running = "syncing" /\ work.source =>
          /\ work.shape = IF release = 0 THEN 1 ELSE release
          /\ misread \/ file.objects \subseteq work.objects

MigrationInv == MigrationTypeOK /\ FileHasItsShape /\ WorkIsFaithful

(* There is no file yet.                                                   *)
LEMMA MigrationInvInit == MigrationInit => MigrationInv
  <1> SUFFICES ASSUME MigrationInit PROVE MigrationInv
    OBVIOUS
  <1>1. MigrationTypeOK
    <2>1. NoFile \in Files /\ NoWork \in Works
      BY DEF NoFile, NoWork, Files, Works
    <2> QED
      BY <2>1, MigrationAssumption DEF MigrationInit, MigrationTypeOK
  <1>2. FileHasItsShape
    BY DEF MigrationInit, FileHasItsShape, NoFile
  <1>3. WorkIsFaithful
    BY DEF MigrationInit, WorkIsFaithful, NoWork
  <1> QED
    BY <1>1, <1>2, <1>3 DEF MigrationInv

(* A load gives the state the shape of the release and all of the file.    *)
LEMMA LoadIsFaithful ==
    ASSUME MigrationInv, LoadFresh \/ LoadPlain \/ LoadMigrated
    PROVE  MigrationInv'
  <1> USE MigrationAssumption DEF MigrationInv
  <1>1. CASE LoadFresh
    <2>1. MigrationTypeOK'
      <3>1. Fresh \in Works
        BY DEF Fresh, Works, MigrationTypeOK
      <3> QED
        BY <1>1, <3>1 DEF LoadFresh, MigrationTypeOK
    <2>2. FileHasItsShape'
      BY <1>1 DEF LoadFresh, FileHasItsShape
    <2>3. WorkIsFaithful'
      <3>1. /\ Fresh.source /\ ~Fresh.nil
            /\ Fresh.shape = IF release = 0 THEN 1 ELSE release
        BY DEF Fresh
      <3>2. misread' \/ file.objects = {}
        <4>1. NoFile.objects = {}
          BY DEF NoFile
        <4> QED
          BY <1>1, <4>1 DEF LoadFresh
      <3> QED
        BY <1>1, <3>1, <3>2 DEF LoadFresh, WorkIsFaithful
    <2> QED
      BY <2>1, <2>2, <2>3
  <1>2. CASE LoadPlain
    <2>1. MigrationTypeOK'
      <3>1. Unwrapped \in Works
        <4>1. file.objects \in SUBSET Synced
          BY DEF Files, MigrationTypeOK
        <4>2. [NoWork EXCEPT !.nil = TRUE] \in Works
          <5>1. NoWork \in Works
            BY DEF NoWork, Works
          <5> QED
            BY <5>1 DEF Works
        <4>3. [source |-> TRUE, nil |-> FALSE, shape |-> 1, objects |-> file.objects]
                \in Works
          BY <4>1 DEF Works
        <4> QED
          BY <4>2, <4>3 DEF Unwrapped
      <3> QED
        BY <1>2, <3>1 DEF LoadPlain, MigrationTypeOK
    <2>2. FileHasItsShape'
      BY <1>2 DEF LoadPlain, FileHasItsShape
    <2>3. WorkIsFaithful'
      BY <1>2 DEF LoadPlain, Unwrapped, NoWork, WorkIsFaithful
    <2> QED
      BY <2>1, <2>2, <2>3
  <1>3. CASE LoadMigrated
    <2>1. GetCurrentVersion \in Nat /\ file.shape = GetCurrentVersion
      BY <1>3 DEF LoadMigrated, GetCurrentVersion, IsVersioned, Files, MigrationTypeOK,
                      FileHasItsShape
    <2>2. /\ release > 0 /\ release' = release /\ file' = file /\ mode' = mode
          /\ misread' = FALSE
          /\ \/ running' = "failed" /\ work' = NoWork
             \/ running' = "syncing" /\ work' = Loaded(release)
      BY <1>3, <2>1 DEF LoadMigrated, Migrate, Loaded, MigrationTypeOK
    <2>3. MigrationTypeOK'
      <3>1. NoWork \in Works /\ Loaded(release) \in Works
        BY DEF NoWork, Loaded, Files, Works, MigrationTypeOK
      <3> QED
        BY <2>2, <3>1 DEF MigrationTypeOK
    <2>4. FileHasItsShape'
      BY <2>2 DEF FileHasItsShape
    <2>5. WorkIsFaithful'
      BY <2>2 DEF Loaded, NoWork, WorkIsFaithful
    <2> QED
      BY <2>3, <2>4, <2>5
  <1> QED
    BY <1>1, <1>2, <1>3

(* A commit adds to the state, or ends the run.                            *)
LEMMA StoreIsFaithful ==
    ASSUME MigrationInv, NEW o \in Synced, StoreObject(o)
    PROVE  MigrationInv'
  <1> USE DEF MigrationInv
  <1>1. MigrationTypeOK'
    <2>1. NoWork \in Works /\ [work EXCEPT !.objects = @ \cup {o}] \in Works
      BY DEF NoWork, Works, MigrationTypeOK
    <2> QED
      BY <2>1 DEF StoreObject, MigrationTypeOK
  <1>2. FileHasItsShape'
    BY DEF StoreObject, FileHasItsShape
  <1>3. WorkIsFaithful'
    <2>1. CASE work.nil
      BY <2>1 DEF StoreObject, NoWork, WorkIsFaithful
    <2>2. CASE ~work.nil
      <3>1. /\ work'.source = work.source /\ work'.nil = work.nil
            /\ work'.shape = work.shape /\ work.objects \subseteq work'.objects
        BY <2>2 DEF StoreObject, Works, MigrationTypeOK
      <3> QED
        BY <2>2, <3>1 DEF StoreObject, WorkIsFaithful
    <2> QED
      BY <2>1, <2>2
  <1> QED
    BY <1>1, <1>2, <1>3

(* A save writes the state as the release does, or nothing.                *)
LEMMA SaveIsFaithful ==
    ASSUME MigrationInv, SaveState
    PROVE  MigrationInv' /\ (misread \/ file.objects \subseteq file'.objects)
  <1> USE DEF MigrationInv, SaveState
  <1>1. WorkIsFaithful'
    BY DEF NoWork, WorkIsFaithful
  <1>2. NoWork \in Works
    BY DEF NoWork, Works
  <1>3. CASE file' = file
    <2>1. MigrationTypeOK' /\ FileHasItsShape'
      BY <1>2, <1>3 DEF MigrationTypeOK, FileHasItsShape
    <2> QED
      BY <1>1, <1>3, <2>1
  <1>4. CASE /\ work.source
             /\ file' = [wrapped |-> release > 0, version |-> release,
                         shape |-> work.shape, objects |-> work.objects]
    <2>1. release \in Nat /\ work.objects \in SUBSET Synced
      BY MigrationAssumption DEF MigrationTypeOK, Works
    <2>2. work.shape = IF release = 0 THEN 1 ELSE release
      BY <1>4 DEF WorkIsFaithful
    <2>3. file' \in Files
      BY <1>4, <2>1, <2>2 DEF Files
    <2>4. MigrationTypeOK'
      BY <1>2, <2>3 DEF MigrationTypeOK
    <2>5. FileHasItsShape'
      <3>1. /\ file'.wrapped <=> release > 0
            /\ file'.version = release /\ file'.shape = work.shape
        BY <1>4
      <3> QED
        BY <2>1, <2>2, <3>1 DEF FileHasItsShape
    <2>6. misread \/ file.objects \subseteq file'.objects
      BY <1>4 DEF WorkIsFaithful
    <2> QED
      BY <1>1, <2>4, <2>5, <2>6
  <1> QED
    BY <1>3, <1>4

(* Every step keeps the invariant, and all the file knows but after a load *)
(* that failed.                                                            *)
LEMMA MigrationInvStep ==
    MigrationInv /\ [MigrationNext]_migrationVars
        => MigrationInv' /\ (misread \/ file.objects \subseteq file'.objects)
  <1> SUFFICES ASSUME MigrationInv, [MigrationNext]_migrationVars
               PROVE  MigrationInv' /\ (misread \/ file.objects \subseteq file'.objects)
    OBVIOUS
  <1>1. CASE LoadFresh \/ LoadPlain \/ LoadMigrated
    <2>1. file' = file
      BY <1>1 DEF LoadFresh, LoadPlain, LoadMigrated
    <2> QED
      BY <1>1, <2>1, LoadIsFaithful
  <1>2. CASE SaveState
    BY <1>2, SaveIsFaithful
  <1>3. CASE Deploy
    BY <1>3 DEF Deploy, MigrationInv, MigrationTypeOK, FileHasItsShape, WorkIsFaithful
  <1>4. ASSUME NEW o \in Synced, StoreObject(o)
        PROVE  MigrationInv' /\ file' = file
    BY <1>4, StoreIsFaithful DEF StoreObject
  <1>5. CASE UNCHANGED migrationVars
    BY <1>5 DEF migrationVars, MigrationInv, MigrationTypeOK, FileHasItsShape, WorkIsFaithful
  <1> QED
    BY <1>1, <1>2, <1>3, <1>4, <1>5 DEF MigrationNext

(* A step of Upkeep is one of the migration or leaves that alone.          *)
LEMMA UpkeepStepOfMigration == [UpkeepNext]_upkeepVars => [MigrationNext]_migrationVars
  BY DEF UpkeepNext, SchedulerStep, CheckpointStep, ConsistencyStep, MigrationStep,
         upkeepVars, migrationVars

(* The invariant holds in every behaviour.                                 *)
LEMMA MigrationInvariant == UpkeepSpec => []MigrationInv
  <1>1. UpkeepInit => MigrationInv
    BY MigrationInvInit DEF UpkeepInit
  <1> QED
    BY <1>1, MigrationInvStep, UpkeepStepOfMigration, PTL DEF UpkeepSpec

(* Whatever releases follow one another, forwards and back, with whatever  *)
(* configurations: only a run that could not read the file forgets what it *)
(* knows, and a state has the shape of its version.                        *)
THEOREM MigrationKeepsState == UpkeepSpec => StateSurvivesReleases
  <1>1. MigrationInv /\ [UpkeepNext]_upkeepVars
            => [misread \/ file.objects \subseteq file'.objects]_migrationVars
    BY MigrationInvStep, UpkeepStepOfMigration
  <1>2. MigrationInv
            => (file # NoFile => file.shape = IF file.wrapped THEN file.version ELSE 1)
    BY DEF MigrationInv, FileHasItsShape
  <1> QED
    BY <1>1, <1>2, MigrationInvariant, PTL DEF UpkeepSpec, StateSurvivesReleases

-----------------------------------------------------------------------------
(* The sandbox, for any number of callers and processes.  A process that a *)
(* StopPlugin took on is waited for until it is dead or killed, and one in *)
(* the table that is not running is in the hands of some call.  So the     *)
(* table of a call that is alone is as the call left it.                   *)

Statuses == {"none", "starting", "running", "restarting", "stopped", "error"}
Calls == [at : {"idle", "start", "launched", "wait", "restart", "again"},
          pid : Nat, restart : BOOLEAN]

\* Some call is at this step for the process.
Tended(p, at) == \E d \in Callers : caller[d].at = at /\ caller[d].pid = p

(* The sandbox's variables have their types, and speak of processes that   *)
(* have been started.                                                      *)
SandboxTypeOK ==
    /\ started \in 0..MaxPid /\ entry \in 0..started
    /\ status \in [Pids -> Statuses] /\ caller \in [Callers -> Calls]
    /\ alive \subseteq 1..started /\ killed \subseteq 1..started
    /\ waited \subseteq 1..started /\ alone \subseteq Callers

PidsKnown ==
    \A c \in Callers :
       caller[c].at \in {"launched", "wait", "restart"} => caller[c].pid \in 1..started

\* What a StopPlugin took on.
TakenOnIsTended ==
    /\ \A p \in Pids : status[p] \in {"stopped", "error"} => p \in waited
    /\ \A p \in (waited \cap alive) \ killed : Tended(p, "wait")

\* What is in the table.
EntryIsTended ==
    entry # 0 =>
       /\ status[entry] # "none"
       /\ entry \in waited => Tended(entry, "wait")
       /\ status[entry] = "starting" => Tended(entry, "launched")
       /\ status[entry] = "restarting" => Tended(entry, "restart")

\* A call that no other overlaps knows the table.
AloneKnows ==
    \A c \in alone :
       /\ caller[c].at # "idle" /\ \A d \in Callers \ {c} : caller[d].at = "idle"
       /\ caller[c].at \in {"start", "again"} => entry = 0
       /\ caller[c].at \in {"launched", "wait", "restart"} => entry = caller[c].pid

SandboxInv ==
    SandboxTypeOK /\ PidsKnown /\ TakenOnIsTended /\ EntryIsTended /\ AloneKnows

(* Where the process in the table lies.                                    *)
LEMMA EntryBounds ==
    ASSUME SandboxTypeOK
    PROVE  /\ started \in Nat /\ entry \in Nat /\ 1..started \subseteq Pids
           /\ entry # 0 => entry \in 1..started
  BY SandboxAssumption DEF SandboxTypeOK, Pids

(* Nothing has been started.                                               *)
LEMMA SandboxInvInit == SandboxInit => SandboxInv
  <1> SUFFICES ASSUME SandboxInit PROVE SandboxInv
    OBVIOUS
  <1>1. NoCall \in Calls /\ NoCall.at = "idle"
    BY DEF NoCall, Calls
  <1>2. SandboxTypeOK
    BY <1>1, SandboxAssumption DEF SandboxInit, SandboxTypeOK, Statuses
  <1>3. PidsKnown /\ TakenOnIsTended /\ EntryIsTended /\ AloneKnows
    BY <1>1 DEF SandboxInit, PidsKnown, TakenOnIsTended, EntryIsTended, AloneKnows
  <1> QED
    BY <1>2, <1>3 DEF SandboxInv

\* Caller c has gone to a step for a process, and the others are where they were.
Moves(c, at, p) ==
    /\ caller' \in [Callers -> Calls]
    /\ caller'[c].at = at /\ caller'[c].pid = p
    /\ \A d \in Callers \ {c} : caller'[d] = caller[d]

(* The three ways for a call to move.                                      *)
LEMMA CallMoves ==
    ASSUME SandboxTypeOK, NEW c \in Callers, NEW p \in Nat,
           NEW at \in {"start", "launched", "wait", "restart", "again"}
    PROVE  /\ \A restart \in BOOLEAN :
                 Enter(c, at, p, restart) => Moves(c, at, p) /\ caller[c].at = "idle"
           /\ GoesTo(c, at, p) => Moves(c, at, p)
           /\ Return(c) => Moves(c, "idle", 0)
  <1>1. ASSUME NEW restart \in BOOLEAN, Enter(c, at, p, restart)
        PROVE  Moves(c, at, p) /\ caller[c].at = "idle"
    <2>1. [at |-> at, pid |-> p, restart |-> restart] \in Calls
      BY DEF Calls
    <2> QED
      BY <1>1, <2>1 DEF Enter, Moves, SandboxTypeOK
  <1>2. ASSUME GoesTo(c, at, p) PROVE Moves(c, at, p)
    <2>1. caller[c] \in Calls
      BY DEF SandboxTypeOK
    <2>2. [caller[c] EXCEPT !.at = at, !.pid = p] \in Calls
      BY <2>1 DEF Calls
    <2>3. /\ [caller[c] EXCEPT !.at = at, !.pid = p].at = at
          /\ [caller[c] EXCEPT !.at = at, !.pid = p].pid = p
      BY <2>1 DEF Calls
    <2>4. caller' = [caller EXCEPT ![c] = [caller[c] EXCEPT !.at = at, !.pid = p]]
      BY <1>2 DEF GoesTo
    <2> QED
      BY <2>2, <2>3, <2>4 DEF Moves, SandboxTypeOK
  <1>3. ASSUME Return(c) PROVE Moves(c, "idle", 0)
    <2>1. NoCall \in Calls /\ NoCall.at = "idle" /\ NoCall.pid = 0
      BY DEF NoCall, Calls
    <2> QED
      BY <1>3, <2>1 DEF Return, Moves, SandboxTypeOK
  <1> QED
    BY <1>1, <1>2, <1>3

(* What is tended stays so, unless the call that tends it moves.           *)
LEMMA MovesTend ==
    ASSUME NEW c \in Callers, NEW at, NEW p, Moves(c, at, p)
    PROVE  /\ Tended(p, at)'
           /\ \A q, a : Tended(q, a) /\ (caller[c].at # a \/ caller[c].pid # q) => Tended(q, a)'
           /\ \A q, a : Tended(q, a)' /\ (at # a \/ p # q) => Tended(q, a)
  BY DEF Moves, Tended

(* A call begins: if it is alone, nothing in the table is tended, so that  *)
(* what is there is running.                                               *)
LEMMA AloneEnters ==
    ASSUME SandboxInv, NEW c \in Callers, \A d \in Callers : caller[d].at = "idle"
    PROVE  entry # 0 => status[entry] = "running"
  <1>1. \A p : ~Tended(p, "wait") /\ ~Tended(p, "launched") /\ ~Tended(p, "restart")
    BY DEF Tended
  <1> QED
    BY <1>1, EntryBounds DEF SandboxInv, SandboxTypeOK, Statuses, TakenOnIsTended, EntryIsTended

(* A call begins alone when no other is going on, and ends being alone for *)
(* the one that was.                                                       *)
LEMMA EnterAlone ==
    ASSUME SandboxInv, NEW c \in Callers, NEW at, NEW p, NEW restart, Enter(c, at, p, restart)
    PROVE  /\ alone' \in SUBSET Callers /\ c \notin alone
           /\ \A e \in alone' : e = c /\ (\A d \in Callers : caller[d].at = "idle")
  BY DEF Enter, SandboxInv, AloneKnows

(* A start begins: alone, it finds the table empty.                        *)
LEMMA StartEntered ==
    ASSUME SandboxInv, NEW c \in Callers, StartPlugin(c)
    PROVE  SandboxInv'
  <1> USE DEF SandboxInv
  <1>1. /\ UNCHANGED <<entry, status, started, alive, killed, waited>> /\ NotRunning
        /\ Enter(c, "start", 0, FALSE)
    BY DEF StartPlugin
  <1>2. Moves(c, "start", 0) /\ caller[c].at = "idle"
    BY <1>1, CallMoves
  <1>3. alone' \in SUBSET Callers
        /\ \A e \in alone' : e = c /\ (\A d \in Callers : caller[d].at = "idle")
    BY <1>1, EnterAlone
  <1>4. SandboxTypeOK' /\ PidsKnown'
    BY <1>1, <1>2, <1>3 DEF SandboxTypeOK, PidsKnown, Moves
  <1>5. TakenOnIsTended' /\ EntryIsTended'
    BY <1>1, <1>2, MovesTend DEF TakenOnIsTended, EntryIsTended
  <1>6. ASSUME NEW e \in alone' PROVE entry = 0
    BY <1>1, <1>3, <1>6, AloneEnters DEF NotRunning
  <1>7. AloneKnows'
    BY <1>1, <1>2, <1>3, <1>6 DEF AloneKnows, Moves
  <1> QED
    BY <1>4, <1>5, <1>7

(* A stop or a restart begins, with the process the table has.             *)
LEMMA StopEntered ==
    ASSUME SandboxInv, NEW c \in Callers, StopPlugin(c) \/ RestartPlugin(c)
    PROVE  SandboxInv'
  <1> USE DEF SandboxInv
  <1>1. entry \in 1..started /\ entry \in Pids /\ entry \in Nat /\ entry # 0
    BY EntryBounds DEF StopPlugin, RestartPlugin, TakesOn
  <1>2. UNCHANGED <<entry, started, alive, killed>>
    BY DEF StopPlugin, RestartPlugin, TakesOn
  <1>3. PICK at \in {"wait", "restart"} :
           /\ \E restart \in BOOLEAN : Enter(c, at, entry, restart)
           /\ at = "wait" => /\ status' = [status EXCEPT ![entry] = "stopped"]
                             /\ waited' = waited \cup {entry}
           /\ at = "restart" => /\ status' = [status EXCEPT ![entry] = "restarting"]
                                /\ waited' = waited
    BY DEF StopPlugin, RestartPlugin, TakesOn
  <1>4. Moves(c, at, entry) /\ caller[c].at = "idle"
    BY <1>1, <1>3, CallMoves
  <1>5. alone' \in SUBSET Callers
        /\ \A e \in alone' : e = c /\ (\A d \in Callers : caller[d].at = "idle")
    BY <1>3, EnterAlone
  <1>6. SandboxTypeOK' /\ PidsKnown'
    BY <1>1, <1>2, <1>3, <1>4, <1>5 DEF SandboxTypeOK, PidsKnown, Moves, Statuses
  <1>7. /\ Tended(entry, at)'
        /\ \A q : Tended(q, "wait") => Tended(q, "wait")'
        /\ \A q : Tended(q, "launched") => Tended(q, "launched")'
        /\ \A q : Tended(q, "restart") => Tended(q, "restart")'
    <2>1. Moves(c, at, entry) /\ \A a : a # "idle" => caller[c].at # a
      BY <1>4
    <2>2. \A q, a : Tended(q, a) /\ a # "idle" => Tended(q, a)'
      BY <2>1, MovesTend, Zenon
    <2>3. (caller'[c].at = at /\ caller'[c].pid = entry) /\ entry' = entry
      BY <1>2, <2>1 DEF Moves
    <2> QED
      BY <2>2, <2>3 DEF Tended
  <1>8. TakenOnIsTended'
    BY <1>1, <1>2, <1>3, <1>7 DEF TakenOnIsTended, SandboxTypeOK
  <1>9. EntryIsTended'
    BY <1>1, <1>2, <1>3, <1>7 DEF EntryIsTended, SandboxTypeOK
  <1>10. AloneKnows'
    BY <1>2, <1>3, <1>4, <1>5 DEF AloneKnows, Moves
  <1> QED
    BY <1>6, <1>8, <1>9, <1>10

(* A process is put into the table, over what is there.                    *)
LEMMA LaunchKept ==
    ASSUME SandboxInv, NEW c \in Callers, Launch(c)
    PROVE  SandboxInv'
  <1> USE DEF SandboxInv
  <1>1. PICK p \in Pids :
           /\ p = started + 1 /\ p \in Nat /\ p # 0 /\ p \in 1..p
           /\ 1..started \subseteq 1..p /\ p \notin 1..started /\ p \in 0..MaxPid
    BY SandboxAssumption DEF Launch, SandboxTypeOK, Pids
  <1>2. /\ started' = p /\ entry' = p /\ status' = [status EXCEPT ![p] = "starting"]
        /\ alive' = alive \cup {p} /\ UNCHANGED <<killed, waited, alone>>
        /\ caller[c].at = "start" /\ GoesTo(c, "launched", p)
    BY <1>1 DEF Launch, GoesTo
  <1>3. Moves(c, "launched", p)
    BY <1>1, <1>2, CallMoves
  <1>4. SandboxTypeOK'
    BY <1>1, <1>2, <1>3 DEF SandboxTypeOK, Moves, Statuses
  <1>5. PidsKnown'
    BY <1>1, <1>2, <1>3 DEF PidsKnown, Moves
  <1>6. /\ Tended(p, "launched")'
        /\ \A q : Tended(q, "wait") => Tended(q, "wait")'
    <2>1. caller[c].at # "wait"
      BY <1>2
    <2> QED
      BY <1>3, <2>1, MovesTend, Zenon
  <1>7. TakenOnIsTended'
    BY <1>1, <1>2, <1>6 DEF TakenOnIsTended, SandboxTypeOK
  <1>8. EntryIsTended'
    <2>1. status'[p] = "starting" /\ p \notin waited
      BY <1>1, <1>2 DEF SandboxTypeOK
    <2> QED
      BY <1>2, <1>6, <2>1 DEF EntryIsTended
  <1>9. AloneKnows'
    BY <1>2, <1>3 DEF AloneKnows, Moves
  <1> QED
    BY <1>4, <1>5, <1>7, <1>8, <1>9

(* A call goes back to the caller, or a restart goes on to its start.      *)
LEMMA ReturnKept ==
    ASSUME SandboxInv, NEW c \in Callers, StartFails(c) \/ RestartStarts(c)
    PROVE  SandboxInv'
  <1> USE DEF SandboxInv
  <1>1. /\ UNCHANGED <<entry, status, started, alive, killed, waited>>
        /\ caller[c].at \in {"start", "again"}
        /\ Return(c) \/ GoesTo(c, "start", 0)
    BY DEF StartFails, RestartStarts
  <1>2. PICK at \in {"idle", "start"} : Moves(c, at, 0) /\ (at = "idle" => c \notin alone')
                                        /\ alone' \subseteq alone
    BY <1>1, CallMoves DEF Return, GoesTo
  <1>3. SandboxTypeOK' /\ PidsKnown'
    BY <1>1, <1>2 DEF SandboxTypeOK, PidsKnown, Moves
  <1>4. TakenOnIsTended' /\ EntryIsTended'
    BY <1>1, <1>2, MovesTend DEF TakenOnIsTended, EntryIsTended
  <1>5. AloneKnows'
    BY <1>1, <1>2 DEF AloneKnows, Moves
  <1> QED
    BY <1>3, <1>4, <1>5

(* A start ends: the process counts as running, whatever was done to it.   *)
LEMMA LaunchedKept ==
    ASSUME SandboxInv, NEW c \in Callers, Launched(c)
    PROVE  SandboxInv'
  <1> USE DEF SandboxInv
  <1> DEFINE p == caller[c].pid
  <1>1. /\ UNCHANGED <<entry, started, alive, waited>> /\ killed' \in {killed, killed \cup {p}}
        /\ status' = [status EXCEPT ![p] = "running"]
        /\ caller[c].at = "launched" /\ Return(c) /\ alone' = alone \ {c}
    BY DEF Launched, Return
  <1>2. p \in 1..started /\ p \in Pids
    BY <1>1, EntryBounds DEF PidsKnown
  <1>3. Moves(c, "idle", 0)
    BY <1>1, CallMoves
  <1>4. SandboxTypeOK' /\ PidsKnown'
    BY <1>1, <1>2, <1>3 DEF SandboxTypeOK, PidsKnown, Moves, Statuses
  <1>5. /\ \A q : Tended(q, "wait") => Tended(q, "wait")'
        /\ \A q : Tended(q, "restart") => Tended(q, "restart")'
        /\ \A q : Tended(q, "launched") /\ q # p => Tended(q, "launched")'
    BY <1>1, <1>3, MovesTend
  <1>6. TakenOnIsTended'
    BY <1>1, <1>2, <1>5 DEF TakenOnIsTended, SandboxTypeOK
  <1>7. EntryIsTended'
    BY <1>1, <1>2, <1>5, EntryBounds DEF EntryIsTended, SandboxTypeOK
  <1>8. AloneKnows'
    BY <1>1, <1>3 DEF AloneKnows, Moves
  <1> QED
    BY <1>4, <1>6, <1>7, <1>8

(* A restart stops what the name has by now, or finds nothing to stop.     *)
LEMMA RestartStopsKept ==
    ASSUME SandboxInv, NEW c \in Callers, RestartStops(c)
    PROVE  SandboxInv'
  <1> USE DEF SandboxInv
  <1>1. caller[c].at = "restart" /\ UNCHANGED <<entry, started, alive, killed, alone>>
    BY DEF RestartStops, TakesOn, GoesTo
  <1>2. entry \in Nat /\ (entry # 0 => entry \in 1..started /\ entry \in Pids)
    BY EntryBounds
  <1>3. CASE TakesOn /\ GoesTo(c, "wait", entry)
    <2>1. /\ status' = [status EXCEPT ![entry] = "stopped"] /\ waited' = waited \cup {entry}
          /\ entry # 0
      BY <1>3 DEF TakesOn
    <2>2. Moves(c, "wait", entry)
      BY <1>2, <1>3, CallMoves
    <2>3. SandboxTypeOK' /\ PidsKnown'
      BY <1>1, <1>2, <2>1, <2>2 DEF SandboxTypeOK, PidsKnown, Moves, Statuses
    <2>4. Tended(entry, "wait")' /\ \A q : Tended(q, "wait") => Tended(q, "wait")'
      BY <1>1, <2>2, MovesTend
    <2>5. TakenOnIsTended'
      BY <1>1, <1>2, <2>1, <2>4 DEF TakenOnIsTended, SandboxTypeOK
    <2>6. EntryIsTended'
      BY <1>1, <1>2, <2>1, <2>4 DEF EntryIsTended, SandboxTypeOK
    <2>7. AloneKnows'
      BY <1>1, <2>2 DEF AloneKnows, Moves
    <2> QED
      BY <2>3, <2>5, <2>6, <2>7
  <1>4. CASE entry = 0 /\ GoesTo(c, "again", 0) /\ UNCHANGED <<status, waited>>
    <2>1. Moves(c, "again", 0)
      BY <1>4, CallMoves
    <2>2. SandboxTypeOK' /\ PidsKnown'
      BY <1>1, <1>4, <2>1 DEF SandboxTypeOK, PidsKnown, Moves
    <2>3. \A q : Tended(q, "wait") => Tended(q, "wait")'
      BY <1>1, <2>1, MovesTend
    <2>4. TakenOnIsTended' /\ EntryIsTended'
      BY <1>1, <1>4, <2>3 DEF TakenOnIsTended, EntryIsTended
    <2>5. AloneKnows'
      BY <1>1, <1>4, <2>1 DEF AloneKnows, Moves
    <2> QED
      BY <2>2, <2>4, <2>5
  <1> QED
    BY <1>3, <1>4 DEF RestartStops

(* A stop ends: its process is dead or has been killed.                    *)
LEMMA DeletesKept ==
    ASSUME SandboxInv, NEW c \in Callers, WaitReturns(c) \/ WaitTimesOut(c)
    PROVE  SandboxInv'
  <1> USE DEF SandboxInv
  <1> DEFINE p == caller[c].pid
  <1>1. /\ Deletes(c) /\ caller[c].at = "wait" /\ entry' = 0
        /\ UNCHANGED <<status, started, alive, waited>>
        /\ Return(c) \/ GoesTo(c, "again", 0)
    BY DEF WaitReturns, WaitTimesOut, Deletes
  <1>2. (p \notin alive /\ killed' = killed) \/ killed' = killed \cup {p}
    BY DEF WaitReturns, WaitTimesOut
  <1>3. p \in 1..started /\ started \in Nat
    BY <1>1, EntryBounds DEF PidsKnown
  <1>4. PICK at \in {"idle", "again"} : Moves(c, at, 0) /\ (at = "idle" => c \notin alone')
                                        /\ alone' \subseteq alone
    BY <1>1, CallMoves DEF Return, GoesTo
  <1>5. SandboxTypeOK' /\ PidsKnown'
    <2>1. killed' \subseteq 1..started /\ entry' \in 0..started /\ alone' \subseteq Callers
      <3>1. started \in Nat /\ killed \subseteq 1..started /\ alone \subseteq Callers
        BY EntryBounds DEF SandboxTypeOK
      <3>2. started' = started /\ entry' = 0 /\ alone' \subseteq alone
        BY <1>1, <1>4
      <3>3. killed' \subseteq 1..started
        BY <1>2, <1>3, <3>1
      <3> QED
        BY <3>1, <3>2, <3>3
    <2>2. SandboxTypeOK'
      BY <1>1, <1>4, <2>1 DEF SandboxTypeOK, Moves
    <2>3. PidsKnown'
      BY <1>1, <1>4 DEF PidsKnown, Moves
    <2> QED
      BY <2>2, <2>3
  <1>6. \A q : Tended(q, "wait") /\ q # p => Tended(q, "wait")'
    BY <1>4, MovesTend
  <1>7. TakenOnIsTended'
    BY <1>1, <1>2, <1>6 DEF TakenOnIsTended
  <1>8. EntryIsTended'
    BY <1>1 DEF EntryIsTended
  <1>9. AloneKnows'
    BY <1>1, <1>4 DEF AloneKnows, Moves
  <1> QED
    BY <1>5, <1>7, <1>8, <1>9

(* A process that exits, or a monitor that ends, changes none of this: a   *)
(* monitor only sees the exit of a process that some StopPlugin took on.   *)
LEMMA ProcessKept ==
    ASSUME SandboxInv, NEW p \in Pids, Exits(p) \/ MonitorEnds(p)
    PROVE  SandboxInv'
  <1> USE DEF SandboxInv
  <1>1. /\ UNCHANGED <<entry, started, killed, waited, caller, alone>>
        /\ alive' \subseteq alive
        /\ \/ status' = status
           \/ p \in waited /\ status' = [status EXCEPT ![p] = "error"]
    BY DEF Exits, MonitorEnds
  <1>2. \A q, a : Tended(q, a)' <=> Tended(q, a)
    BY <1>1 DEF Tended
  <1>3. SandboxTypeOK' /\ PidsKnown' /\ AloneKnows'
    BY <1>1 DEF SandboxTypeOK, PidsKnown, AloneKnows, Statuses
  <1>4. TakenOnIsTended'
    BY <1>1, <1>2 DEF TakenOnIsTended, SandboxTypeOK
  <1>5. EntryIsTended'
    BY <1>1, <1>2, EntryBounds DEF EntryIsTended, SandboxTypeOK
  <1> QED
    BY <1>3, <1>4, <1>5

(* Every step keeps the invariant.                                         *)
LEMMA SandboxInvStep == SandboxInv /\ [SandboxNext]_sandboxVars => SandboxInv'
  <1> SUFFICES ASSUME SandboxInv, [SandboxNext]_sandboxVars PROVE SandboxInv'
    OBVIOUS
  <1>1. ASSUME NEW c \in Callers, StartPlugin(c) \/ StopPlugin(c) \/ RestartPlugin(c)
        PROVE  SandboxInv'
    BY <1>1, StartEntered, StopEntered
  <1>2. ASSUME NEW c \in Callers,
               \/ Launch(c) \/ StartFails(c) \/ Launched(c)
               \/ RestartStops(c) \/ RestartStarts(c) \/ WaitReturns(c) \/ WaitTimesOut(c)
        PROVE  SandboxInv'
    BY <1>2, LaunchKept, ReturnKept, LaunchedKept, RestartStopsKept, DeletesKept
  <1>3. ASSUME NEW p \in Pids, Exits(p) \/ MonitorEnds(p)
        PROVE  SandboxInv'
    BY <1>3, ProcessKept
  <1>4. CASE UNCHANGED sandboxVars
    BY <1>4 DEF sandboxVars, SandboxInv, SandboxTypeOK, PidsKnown, TakenOnIsTended,
                EntryIsTended, AloneKnows, Tended
  <1> QED
    BY <1>1, <1>2, <1>3, <1>4 DEF SandboxNext

(* What is waited for is what a call at its wait tends.                    *)
LEMMA WaitedForIsTended == \A p : p \in WaitedFor <=> Tended(p, "wait")
  BY DEF WaitedFor, Tended

(* A step of a call that is alone makes no orphan: if it deletes an entry, *)
(* that is the one of the process it has stopped, and if it starts one,    *)
(* the table was empty.                                                    *)
LEMMA AloneLeavesNone ==
    ASSUME SandboxInv, NEW c \in alone,
           \/ Launch(c) \/ StartFails(c) \/ Launched(c)
           \/ RestartStops(c) \/ RestartStarts(c) \/ WaitReturns(c) \/ WaitTimesOut(c)
    PROVE  Orphans' \subseteq Orphans
  <1> USE DEF SandboxInv
  <1>1. c \in Callers /\ 0 \notin alive /\ started \in Nat
    BY EntryBounds DEF SandboxTypeOK
  <1>2. CASE Launch(c)
    <2>1. entry = 0 /\ started + 1 \in Nat
      BY <1>1, <1>2 DEF Launch, AloneKnows
    <2>2. Moves(c, "launched", started + 1)
      BY <1>1, <1>2, <2>1, CallMoves DEF Launch
    <2>3. \A q : Tended(q, "wait") => Tended(q, "wait")'
      BY <1>1, <1>2, <2>2, MovesTend DEF Launch
    <2>4. WaitedFor \subseteq WaitedFor'
      BY <2>3 DEF WaitedFor, Tended
    <2> QED
      BY <1>1, <1>2, <2>1, <2>4 DEF Launch, Orphans
  <1>3. CASE StartFails(c) \/ Launched(c) \/ RestartStarts(c)
    <2>1. \E at \in {"idle", "start"} : Moves(c, at, 0)
      BY <1>1, <1>3, CallMoves DEF StartFails, Launched, RestartStarts
    <2>2. \A q : Tended(q, "wait") => Tended(q, "wait")'
      BY <1>1, <1>3, <2>1, MovesTend DEF StartFails, Launched, RestartStarts
    <2>3. WaitedFor \subseteq WaitedFor'
      BY <2>2 DEF WaitedFor, Tended
    <2>4. alive' = alive /\ entry' = entry /\ killed \subseteq killed'
      BY <1>3 DEF StartFails, Launched, RestartStarts
    <2> QED
      BY <2>3, <2>4 DEF Orphans
  <1>4. CASE RestartStops(c)
    <2>1. Moves(c, "wait", entry) \/ Moves(c, "again", 0)
      BY <1>1, <1>4, CallMoves, EntryBounds DEF RestartStops
    <2>2. \A q : Tended(q, "wait") => Tended(q, "wait")'
      BY <1>1, <1>4, <2>1, MovesTend DEF RestartStops
    <2>3. WaitedFor \subseteq WaitedFor'
      BY <2>2 DEF WaitedFor, Tended
    <2>4. alive' = alive /\ entry' = entry /\ killed' = killed
      BY <1>4 DEF RestartStops, TakesOn
    <2> QED
      BY <2>3, <2>4 DEF Orphans
  <1>5. CASE WaitReturns(c) \/ WaitTimesOut(c)
    <2>1. caller[c].at = "wait" /\ Deletes(c)
      BY <1>5 DEF WaitReturns, WaitTimesOut, Deletes
    <2>2. entry = caller[c].pid
      BY <2>1 DEF AloneKnows
    <2>3. Moves(c, "idle", 0) \/ Moves(c, "again", 0)
      BY <1>1, <2>1, CallMoves DEF Deletes
    <2>4. \A q : Tended(q, "wait") /\ q # entry => Tended(q, "wait")'
      BY <1>1, <2>2, <2>3, MovesTend
    <2>5. \A q \in WaitedFor : q # entry => q \in WaitedFor'
      BY <2>4 DEF WaitedFor, Tended
    <2>6. alive' = alive /\ killed \subseteq killed' /\ (entry \notin alive \/ entry \in killed')
      BY <1>5, <2>2 DEF WaitReturns, WaitTimesOut, Deletes
    <2> QED
      BY <2>5, <2>6 DEF Orphans
  <1> QED
    BY <1>2, <1>3, <1>4, <1>5

(* Any step that makes an orphan is one of a call that was overlapped: a   *)
(* call that begins makes none, and nor does a process or a monitor.       *)
LEMMA OverlapStep ==
    ASSUME SandboxInv, [SandboxNext]_sandboxVars
    PROVE  Orphans' \subseteq Orphans \/ \E c \in Callers \ alone : caller'[c] # caller[c]
  <1>1. ASSUME NEW c \in Callers, StartPlugin(c) \/ StopPlugin(c) \/ RestartPlugin(c)
        PROVE  \E d \in Callers \ alone : caller'[d] # caller[d]
    <2>1. /\ SandboxTypeOK /\ entry \in Nat /\ caller[c].at = "idle" /\ c \notin alone
          /\ caller'[c].at \in {"start", "wait", "restart"}
      <3>1. \E at \in {"start", "wait", "restart"}, p \in Nat, restart \in BOOLEAN :
               Enter(c, at, p, restart)
        BY <1>1, EntryBounds DEF StartPlugin, StopPlugin, RestartPlugin, SandboxInv
      <3> QED
        BY <3>1, CallMoves, EnterAlone, EntryBounds DEF Moves, SandboxInv
    <2> QED
      BY <2>1
  <1>2. ASSUME NEW c \in Callers,
               \/ Launch(c) \/ StartFails(c) \/ Launched(c)
               \/ RestartStops(c) \/ RestartStarts(c) \/ WaitReturns(c) \/ WaitTimesOut(c)
        PROVE  Orphans' \subseteq Orphans \/ \E d \in Callers \ alone : caller'[d] # caller[d]
    <2>1. CASE c \in alone
      BY <1>2, <2>1, AloneLeavesNone
    <2>2. CASE c \notin alone
      <3>1. caller'[c].at # caller[c].at
        <4>1. \E at \in {"idle", "start", "launched", "wait", "restart", "again"}, p \in Nat :
                 Moves(c, at, p) /\ at # caller[c].at
          BY <1>2, CallMoves, EntryBounds
             DEF Launch, StartFails, Launched, RestartStops, RestartStarts,
                 WaitReturns, WaitTimesOut, Deletes, SandboxInv
        <4> QED
          BY <4>1 DEF Moves
      <3> QED
        BY <2>2, <3>1
    <2> QED
      BY <2>1, <2>2
  <1>3. ASSUME NEW p \in Pids, Exits(p) \/ MonitorEnds(p)
        PROVE  Orphans' \subseteq Orphans
    BY <1>3 DEF Exits, MonitorEnds, Orphans, WaitedFor
  <1>4. CASE UNCHANGED sandboxVars
    BY <1>4 DEF sandboxVars, Orphans, WaitedFor
  <1> QED
    BY <1>1, <1>2, <1>3, <1>4 DEF SandboxNext

(* However many goroutines start, stop and restart the plugin at once, and *)
(* whenever processes and monitors end: a process that a StopPlugin took   *)
(* on is waited for until it is dead or killed, and one that nobody        *)
(* stopped is forgotten only by a call that another has overlapped.        *)
THEOREM OrphansComeFromOverlap == SandboxSpec => OrphansNeedOverlap
  <1>1. SandboxInv => waited \cap Orphans = {}
    BY WaitedForIsTended DEF SandboxInv, TakenOnIsTended, Orphans
  <1>2. SandboxInv /\ [SandboxNext]_sandboxVars =>
           [Orphans' \subseteq Orphans
              \/ \E c \in Callers \ alone : caller'[c] # caller[c]]_sandboxVars
    BY OverlapStep
  <1> QED
    BY <1>1, <1>2, SandboxInvInit, SandboxInvStep, PTL DEF SandboxSpec, OrphansNeedOverlap

-----------------------------------------------------------------------------
(* Induction, and what the operators of the checkpoints compute.           *)

(* Induction over the numbers that belong to a set.                        *)
LEMMA NatSetInduction ==
    ASSUME NEW S, 0 \in S, \A n \in Nat : n \in S => n + 1 \in S
    PROVE  \A n \in Nat : n \in S
  <1> DEFINE T == Nat \ S
  <1>1. SUFFICES ASSUME T # {} PROVE FALSE
    OBVIOUS
  <1>2. IsWellFoundedOn(OpToRel(<, Nat), Nat)
    BY NatLessThanWellFounded
  <1>3. PICK x \in T : \A y \in T : ~ (<<y, x>> \in OpToRel(<, Nat))
    BY <1>1, <1>2, WFMin, Zenon
  <1>4. \A y \in T : ~ (y < x)
    BY <1>3 DEF OpToRel
  <1>5. x # 0 /\ x - 1 \in Nat /\ x - 1 \in S
    BY <1>4
  <1> QED
    BY <1>5

(* A set of integers with a bound has a greatest element.                  *)
LEMMA MaxIsMax ==
    ASSUME NEW S \in SUBSET Int, NEW b \in Int, S # {}, \A x \in S : x <= b
    PROVE  Max(S) \in S /\ \A x \in S : x <= Max(S)
  <1>1. \E x \in S : \A y \in S : x >= y
    <2> SUFFICES ASSUME \A x \in S : \E y \in S : y > x PROVE FALSE
      OBVIOUS
    <2> PICK a \in S : TRUE
      OBVIOUS
    <2> DEFINE U == {n \in Nat : \E y \in S : y >= a + n}
    <2>1. 0 \in U
      OBVIOUS
    <2>2. \A n \in Nat : n \in U => n + 1 \in U
      OBVIOUS
    <2>3. \A n \in Nat : n \in U
      <3> HIDE DEF U
      <3> QED
        BY <2>1, <2>2, NatSetInduction
    <2>4. b - a + 1 \in Nat
      OBVIOUS
    <2>5. b - a + 1 \in U
      BY <2>3, <2>4
    <2> QED
      BY <2>5
  <1> QED
    BY <1>1 DEF Max

(* The only multiple of f from 0 to f - 1 is 0.                            *)
LEMMA SmallMultiple ==
    ASSUME NEW f \in Nat \ {0}, NEW e \in Int, f * e < f, f * e >= 0
    PROVE  f * e = 0
  <1>1. CASE e >= 1
    <2>1. f * e >= f
      BY <1>1
    <2> QED
      BY <2>1
  <1>2. CASE e = 0
    BY <1>2
  <1>3. CASE e <= -1
    <2>1. f * e <= -f
      BY <1>3
    <2> QED
      BY <2>1
  <1> QED
    BY <1>1, <1>2, <1>3

(* Division with remainder.                                                *)
LEMMA Division ==
    ASSUME NEW v \in Nat, NEW f \in Nat \ {0}
    PROVE  v % f \in 0..f-1 /\ v \div f \in Nat /\ v = f * (v \div f) + (v % f)
  OBVIOUS

(* There is a multiple of f among the f numbers up to v.                   *)
LEMMA LastMultiple ==
    ASSUME NEW v \in Nat, NEW f \in Nat \ {0}
    PROVE  \E k \in 0..v : k > v - f /\ k % f = 0
  <1> DEFINE k == v - (v % f)
  <1>1. v % f \in 0..f-1 /\ v \div f \in Nat /\ v = f * (v \div f) + (v % f)
    BY Division
  <1>2. k \in 0..v /\ k > v - f /\ k = f * (v \div f)
    BY <1>1
  <1> HIDE DEF k
  <1>3. k % f \in 0..f-1 /\ k \div f \in Nat /\ k = f * (k \div f) + (k % f)
    <2>1. k \in Nat
      BY <1>2
    <2> QED
      BY <2>1, Division
  <1>4. k % f = f * ((v \div f) - (k \div f))
    BY <1>1, <1>2, <1>3
  <1>5. (v \div f) - (k \div f) \in Int
    BY <1>1, <1>3
  <1>6. k % f = 0
    BY <1>3, <1>4, <1>5, SmallMultiple
  <1> QED
    BY <1>2, <1>6

Action == [adds : BOOLEAN, path : DOMAIN SizeOf]

\* The files that the last action on them among those at s adds.
LastAdds(acts, s) ==
    {acts[i].path :
        i \in {k \in s : acts[k].adds /\ \A j \in s : j > k => acts[j].path # acts[k].path}}

\* What FoldLeft(Replay, {}, acts) is made from.
Replayed(iter, acts) ==
    iter = [s \in SUBSET DOMAIN acts |->
               IF s = {} THEN {} ELSE Replay(iter[s \ {Max(s)}], acts[Max(s)])]

(* One action more: the last one decides about its file.                   *)
LEMMA LastAddsStep ==
    ASSUME NEW acts \in Seq(Action), NEW s \in SUBSET DOMAIN acts, s # {}
    PROVE  /\ Max(s) \in s /\ \A x \in s : x <= Max(s)
           /\ LastAdds(acts, s) = Replay(LastAdds(acts, s \ {Max(s)}), acts[Max(s)])
  <1>1. s \in SUBSET Int /\ Len(acts) \in Int /\ \A x \in s : x <= Len(acts)
    OBVIOUS
  <1> DEFINE m == Max(s)
  <1>2. m \in s /\ \A x \in s : x <= m
    BY <1>1, MaxIsMax, Zenon
  <1> HIDE DEF m
  <1>3. CASE acts[m].adds
    <2>1. \A p : p \in LastAdds(acts, s)
                   <=> p \in LastAdds(acts, s \ {m}) \cup {acts[m].path}
      BY <1>1, <1>2, <1>3 DEF LastAdds
    <2> QED
      BY <1>2, <1>3, <2>1 DEF Replay, m
  <1>4. CASE ~acts[m].adds
    <2>1. \A p : p \in LastAdds(acts, s)
                   <=> p \in LastAdds(acts, s \ {m}) \ {acts[m].path}
      BY <1>1, <1>2, <1>4 DEF LastAdds
    <2> QED
      BY <1>2, <1>4, <2>1 DEF Replay, m
  <1> QED
    BY <1>2, <1>3, <1>4 DEF m

(* The replay's recursion has a solution,                                  *)
LEMMA ReplayedExists ==
    ASSUME NEW acts \in Seq(Action)
    PROVE  \E iter : Replayed(iter, acts)
  <1> DEFINE g == [s \in SUBSET DOMAIN acts |-> LastAdds(acts, s)]
  <1>1. LastAdds(acts, {}) = {}
    BY DEF LastAdds
  <1>2. \A s \in SUBSET DOMAIN acts :
            g[s] = IF s = {} THEN {} ELSE Replay(g[s \ {Max(s)}], acts[Max(s)])
    <2> SUFFICES ASSUME NEW s \in SUBSET DOMAIN acts, s # {}
                 PROVE  g[s] = Replay(g[s \ {Max(s)}], acts[Max(s)])
      BY <1>1
    <2> QED
      BY LastAddsStep
  <1>3. Replayed(g, acts)
    BY <1>2 DEF Replayed
  <1> QED
    BY <1>3

(* and only one: by induction on the numbers the actions lie below.        *)
LEMMA ReplayedIsLastAdds ==
    ASSUME NEW acts \in Seq(Action), NEW iter, Replayed(iter, acts)
    PROVE  iter[DOMAIN acts] = LastAdds(acts, DOMAIN acts)
  <1> DEFINE T == {n \in Nat : \A s \in SUBSET DOMAIN acts :
                                  s \subseteq 1..n => iter[s] = LastAdds(acts, s)}
  <1>1. \A s \in SUBSET DOMAIN acts :
            iter[s] = IF s = {} THEN {} ELSE Replay(iter[s \ {Max(s)}], acts[Max(s)])
    BY DEF Replayed
  <1>2. 0 \in T
    <2> SUFFICES ASSUME NEW s \in SUBSET DOMAIN acts, s \subseteq 1..0
                 PROVE  iter[s] = LastAdds(acts, s)
      OBVIOUS
    <2>1. s = {}
      OBVIOUS
    <2>2. iter[s] = {}
      BY <1>1, <2>1, Zenon
    <2>3. LastAdds(acts, {}) = {}
      BY DEF LastAdds
    <2> QED
      BY <2>1, <2>2, <2>3
  <1>3. ASSUME NEW n \in Nat, n \in T
        PROVE  n + 1 \in T
    <2> SUFFICES ASSUME NEW s \in SUBSET DOMAIN acts, s \subseteq 1..(n + 1), s # {}
                 PROVE  iter[s] = LastAdds(acts, s)
      BY <1>2
    <2>1. Max(s) \in s /\ \A x \in s : x <= Max(s)
      BY LastAddsStep
    <2>2. s \ {Max(s)} \subseteq 1..n
      BY <2>1
    <2>3. iter[s \ {Max(s)}] = LastAdds(acts, s \ {Max(s)})
      BY <1>3, <2>2
    <2>4. iter[s] = Replay(iter[s \ {Max(s)}], acts[Max(s)])
      BY <1>1
    <2> QED
      BY <2>3, <2>4, LastAddsStep
  <1> HIDE DEF T
  <1>4. \A n \in Nat : n \in T
    BY <1>2, <1>3, NatSetInduction
  <1>5. Len(acts) \in T
    BY <1>4
  <1> QED
    BY <1>5 DEF T

(* Replaying a log leaves the files that the last action on them adds.     *)
LEMMA ReplayIsLastAdds ==
    ASSUME NEW acts \in Seq(Action)
    PROVE  FoldLeft(Replay, {}, acts) = LastAdds(acts, DOMAIN acts)
  <1>1. FoldLeft(Replay, {}, acts)
          = (CHOOSE iter : iter = [s \in SUBSET DOMAIN acts |->
                 IF s = {} THEN {} ELSE Replay(iter[s \ {Max(s)}], acts[Max(s)])])[DOMAIN acts]
    BY DEF FoldLeft, MapThenFoldSet
  <1>2. FoldLeft(Replay, {}, acts) = (CHOOSE iter : Replayed(iter, acts))[DOMAIN acts]
    BY <1>1 DEF Replayed
  <1>3. Replayed(CHOOSE iter : Replayed(iter, acts), acts)
    BY ReplayedExists
  <1> QED
    BY <1>2, <1>3, ReplayedIsLastAdds

\* What FlattenSeq(seqs) is made from, up to the n-th sequence.
Flattened(g, seqs, n) ==
    g = [i \in 1..n |-> IF i = 1 THEN seqs[i] ELSE g[i - 1] \o seqs[i]]

(* The recursion of FlattenSeq has a solution.                             *)
LEMMA FlattenedExists ==
    ASSUME NEW A, NEW seqs \in Seq(Seq(A)), NEW n \in Nat, n <= Len(seqs)
    PROVE  \E g \in [1..n -> Seq(A)] : Flattened(g, seqs, n)
  <1> DEFINE T == {m \in Nat : m <= Len(seqs)
                                 => \E g \in [1..m -> Seq(A)] : Flattened(g, seqs, m)}
  <1>1. 0 \in T
    <2> DEFINE e == [i \in 1..0 |-> <<>>]
    <2>1. e \in [1..0 -> Seq(A)] /\ Flattened(e, seqs, 0)
      BY DEF Flattened
    <2> QED
      BY <2>1
  <1>2. ASSUME NEW m \in Nat, m \in T
        PROVE  m + 1 \in T
    <2> SUFFICES ASSUME m + 1 <= Len(seqs)
                 PROVE  \E g \in [1..(m + 1) -> Seq(A)] : Flattened(g, seqs, m + 1)
      OBVIOUS
    <2> PICK g \in [1..m -> Seq(A)] : Flattened(g, seqs, m)
      BY <1>2
    <2> DEFINE last == IF m = 0 THEN seqs[1] ELSE g[m] \o seqs[m + 1]
               h == [i \in 1..(m + 1) |-> IF i = m + 1 THEN last ELSE g[i]]
    <2>1. seqs[m + 1] \in Seq(A) /\ (m # 0 => g[m] \in Seq(A))
      OBVIOUS
    <2>2. last \in Seq(A)
      BY <2>1
    <2>3. h \in [1..(m + 1) -> Seq(A)]
      BY <2>2
    <2>4. ASSUME NEW i \in 1..(m + 1)
          PROVE  h[i] = IF i = 1 THEN seqs[i] ELSE h[i - 1] \o seqs[i]
      <3>1. CASE i = m + 1
        BY <3>1
      <3>2. CASE i # m + 1
        <4>1. i \in 1..m /\ (i # 1 => i - 1 \in 1..m)
          BY <3>2
        <4>2. g[i] = IF i = 1 THEN seqs[i] ELSE g[i - 1] \o seqs[i]
          BY <4>1 DEF Flattened
        <4>3. h[i] = g[i] /\ (i # 1 => h[i - 1] = g[i - 1])
          BY <3>2, <4>1
        <4> QED
          BY <4>2, <4>3
      <3> QED
        BY <3>1, <3>2
    <2>5. Flattened(h, seqs, m + 1)
      BY <2>4 DEF Flattened
    <2> QED
      BY <2>3, <2>5
  <1> HIDE DEF T
  <1>3. n \in T
    BY <1>1, <1>2, NatSetInduction
  <1> QED
    BY <1>3 DEF T

(* A sequence of sequences, flattened, is a sequence of their elements.    *)
LEMMA FlattenSeqTyped ==
    ASSUME NEW A, NEW seqs \in Seq(Seq(A))
    PROVE  FlattenSeq(seqs) \in Seq(A)
  <1>1. CASE Len(seqs) = 0
    <2>1. seqs = <<>>
      BY <1>1
    <2>2. FlattenSeq(seqs) = seqs
      BY <1>1 DEF FlattenSeq
    <2>3. <<>> \in Seq(A)
      OBVIOUS
    <2> QED
      BY <2>1, <2>2, <2>3
  <1>2. CASE Len(seqs) # 0
    <2> DEFINE f == CHOOSE g : Flattened(g, seqs, Len(seqs))
               T == {n \in Nat : n + 1 <= Len(seqs) => f[n + 1] \in Seq(A)}
    <2>1. FlattenSeq(seqs) = f[Len(seqs)]
      BY <1>2 DEF FlattenSeq, Flattened
    <2>2. Flattened(f, seqs, Len(seqs))
      BY FlattenedExists
    <2>3. \A i \in 1..Len(seqs) : f[i] = IF i = 1 THEN seqs[i] ELSE f[i - 1] \o seqs[i]
      BY <2>2 DEF Flattened
    <2> HIDE DEF f
    <2>4. 0 \in T
      BY <2>3
    <2>5. ASSUME NEW n \in Nat, n \in T
          PROVE  n + 1 \in T
      <3> SUFFICES ASSUME n + 2 <= Len(seqs) PROVE f[n + 2] \in Seq(A)
        OBVIOUS
      <3>1. f[n + 1] \in Seq(A)
        BY <2>5
      <3>2. PICK i \in 1..Len(seqs) : i = n + 2
        OBVIOUS
      <3>3. f[i] = IF i = 1 THEN seqs[i] ELSE f[i - 1] \o seqs[i]
        BY <2>3
      <3>4. i # 1 /\ i - 1 = n + 1 /\ seqs[i] \in Seq(A)
        BY <3>2
      <3>5. f[i] = f[n + 1] \o seqs[i]
        BY <3>3, <3>4
      <3> QED
        BY <3>1, <3>2, <3>4, <3>5
    <2> HIDE DEF T
    <2>6. Len(seqs) - 1 \in T
      <3>1. Len(seqs) - 1 \in Nat
        BY <1>2
      <3>2. \A n \in Nat : n \in T
        BY <2>4, <2>5, NatSetInduction
      <3> QED
        BY <3>1, <3>2
    <2> QED
      BY <1>2, <2>1, <2>6 DEF T
  <1> QED
    BY <1>1, <1>2

-----------------------------------------------------------------------------
(* The checkpoints of a table, for any commits, files and sizes, any       *)
(* frequency, number of attempts, versions and requests.  A checkpoint     *)
(* holds what the log holds at its version, whoever made it, because a     *)
(* version is never written twice; and while no request of the writer      *)
(* fails, its decisions leave no due version behind.                       *)

Stages == {"idle", "commit", "decide", "snapshot", "upload", "mark", "cleanup"}
Entries == [described : BOOLEAN, actions : Seq(Action)]
Contents == [described : BOOLEAN, files : SUBSET DOMAIN SizeOf]
Calling == [at : Stages, commit : Seq(Action), attempt : Nat, version : -1..MaxVersion,
            actions : Contents]

\* The actions of the versions of l up to v, and the state they describe.
ActionsOf(l, v) == FlattenSeq([i \in 1..(v + 1) |-> l[i].actions])
ContentOf(l, v) == [described |-> \E i \in 1..(v + 1) : l[i].described,
                    files |-> LastAdds(ActionsOf(l, v), DOMAIN ActionsOf(l, v))]

(* The variables of the checkpoints have their types, and speak of         *)
(* versions the log has.                                                   *)
CheckpointTypeOK ==
    /\ adaptive \in BOOLEAN /\ sound \in BOOLEAN
    /\ log \in Seq(Entries) /\ Len(log) <= MaxVersion + 1
    /\ job \in [Actors -> Calling]
    /\ DOMAIN checkpoints \subseteq -1..LatestVersion
    /\ marker \in {Unmarked} \cup DOMAIN checkpoints

\* What a call of CreateCheckpoint has in hand, and what it has done.
JobMatchesLog(a) ==
    /\ job[a].at = "upload" => job[a].version <= LatestVersion
    /\ job[a].at = "upload" /\ job[a].version >= 0
         => job[a].actions = ContentOf(log, job[a].version)
    /\ job[a].at \in {"mark", "cleanup"} => job[a].version \in DOMAIN checkpoints

\* The writer makes checkpoints of the latest version.
WriterIsLatest ==
    job["writer"].at \in Stages \ {"idle", "commit"}
        => job["writer"].version = LatestVersion /\ log # <<>>

\* A checkpoint has what the log has at its version, and as many are newer
\* than one that is expired as the cleanup keeps.
FilesMatchLog ==
    \A v \in DOMAIN checkpoints : v >= 0 => checkpoints[v] = ContentOf(log, v)
Outdated(v) == Cardinality(NewerThan(v)) >= MaxCheckpoints
ExpiredIsOld == \A v \in expired : Outdated(v)

\* The multiples of the frequency up to n have a checkpoint no older.
Regular(n) ==
    \A v \in 1..n : v % Frequency = 0 => \E w \in DOMAIN checkpoints : w >= v

(* What the decisions have made of the checkpoints, while no request of    *)
(* the writer fails.                                                       *)
AdaptiveKeepsUp ==
    /\ log = <<>> \/ job["writer"].at \in {"commit", "decide"} => basis = Unmarked
    /\ adaptive /\ sound /\ job["writer"].at = "idle" /\ basis # Unmarked
         => \E w \in DOMAIN checkpoints \cup {0} : LatestVersion - w < 2 * Frequency
FixedKeepsUp ==
    ~adaptive /\ sound
        => /\ job["writer"].at \in {"idle", "commit"} => Regular(LatestVersion)
           /\ job["writer"].at = "decide" => Regular(LatestVersion - 1)

CheckpointInv ==
    /\ CheckpointTypeOK /\ \A a \in Actors : JobMatchesLog(a)
    /\ WriterIsLatest /\ FilesMatchLog /\ ExpiredIsOld
    /\ AdaptiveKeepsUp /\ FixedKeepsUp

(* A snapshot is the state the log describes, and its files are those that *)
(* are active at the version.                                              *)
LEMMA SnapshotIsContent ==
    ASSUME log \in Seq(Entries), NEW v \in 0..LatestVersion
    PROVE  /\ Snapshot(v) = ContentOf(log, v) /\ Snapshot(v) \in Contents
           /\ ContentOf(log, v).files = Active(v)
  <1> DEFINE upTo == SubSeq(log, 1, v + 1)
             parts == [i \in DOMAIN upTo |-> upTo[i].actions]
             acts == FlattenSeq(parts)
  <1>1. /\ DOMAIN upTo = 1..(v + 1)
        /\ \A i \in 1..(v + 1) : upTo[i] = log[i] /\ log[i] \in Entries
    BY DEF LatestVersion
  <1>2. parts = [i \in 1..(v + 1) |-> log[i].actions]
    BY <1>1
  <1>3. parts \in Seq(Seq(Action))
    BY <1>1, <1>2 DEF Entries
  <1>4. acts \in Seq(Action)
    BY <1>3, FlattenSeqTyped
  <1>5. acts = ActionsOf(log, v)
    BY <1>2 DEF ActionsOf
  <1>6. FoldLeft(Replay, {}, acts) = LastAdds(acts, DOMAIN acts)
    BY <1>4, ReplayIsLastAdds
  <1>7. Snapshot(v) = [described |-> \E i \in DOMAIN upTo : upTo[i].described,
                       files |-> LastAdds(acts, DOMAIN acts)]
    BY <1>6 DEF Snapshot
  <1>8. (\E i \in DOMAIN upTo : upTo[i].described)
          = \E i \in 1..(v + 1) : log[i].described
    <2> HIDE DEF upTo
    <2> QED
      BY <1>1
  <1>9. Snapshot(v) = ContentOf(log, v)
    BY <1>5, <1>7, <1>8 DEF ContentOf
  <1>10. LastAdds(acts, DOMAIN acts) \subseteq DOMAIN SizeOf
    <2> HIDE DEF acts
    <2>1. ASSUME NEW i \in DOMAIN acts
          PROVE  acts[i].path \in DOMAIN SizeOf
      <3>1. acts[i] \in Action
        BY <1>4
      <3> HIDE DEF acts
      <3> QED
        BY <3>1 DEF Action
    <2> QED
      BY <2>1 DEF LastAdds
  <1>11. Snapshot(v) \in Contents
    <2> HIDE DEF acts, upTo
    <2> QED
      BY <1>7, <1>10 DEF Contents
  <1>12. LastAdds(acts, DOMAIN acts) = Active(v)
    <2> HIDE DEF acts
    <2>1. Active(v) = {path \in {acts[i].path : i \in DOMAIN acts} :
             \E i \in DOMAIN acts :
                acts[i].path = path /\ acts[i].adds
                /\ \A j \in i + 1..Len(acts) : acts[j].path # path}
      <3>1. acts = FlattenSeq([i \in 1..v + 1 |-> log[i].actions])
        BY <1>2, Zenon DEF acts
      <3> QED
        BY <3>1, Zenon DEF Active
    <2>2. ASSUME NEW i \in DOMAIN acts, NEW p
          PROVE  (\A j \in i + 1..Len(acts) : acts[j].path # p)
                   <=> (\A j \in DOMAIN acts : j > i => acts[j].path # p)
      BY <1>4
    <2> QED
      BY <2>1, <2>2 DEF LastAdds
  <1> QED
    BY <1>5, <1>9, <1>11, <1>12 DEF ContentOf

(* An entry more leaves the states of the versions before it.              *)
LEMMA ContentStable ==
    ASSUME NEW l \in Seq(Entries), NEW e \in Entries, NEW v \in Int, v <= Len(l) - 1
    PROVE  ContentOf(Append(l, e), v) = ContentOf(l, v)
  <1>1. \A i \in 1..(v + 1) : Append(l, e)[i] = l[i]
    OBVIOUS
  <1>2. [i \in 1..(v + 1) |-> Append(l, e)[i].actions] = [i \in 1..(v + 1) |-> l[i].actions]
    BY <1>1
  <1>3. ActionsOf(Append(l, e), v) = ActionsOf(l, v)
    BY <1>2 DEF ActionsOf
  <1> QED
    BY <1>1, <1>3 DEF ContentOf

(* No call is a call.                                                      *)
LEMMA IdleIsCalling == Idle \in Calling /\ Idle.at = "idle"
  <1>1. NoFiles \in Contents
    BY DEF NoFiles, Contents
  <1>2. <<>> \in Seq(Action) /\ 0 \in -1..MaxVersion
    BY CheckpointAssumption
  <1> HIDE DEF Contents
  <1> QED
    BY <1>1, <1>2 DEF Idle, Calling, Stages

(* A call that goes on keeps what it has in hand, and the others theirs.   *)
LEMMA GoesTyped ==
    ASSUME job \in [Actors -> Calling], NEW a \in Actors, NEW step \in Stages, Goes(a, step)
    PROVE  /\ job' \in [Actors -> Calling]
           /\ \A b \in Actors : b # a => job'[b] = job[b]
           /\ job'[a].at = step
           /\ step # "idle" => /\ job'[a].version = job[a].version
                               /\ job'[a].actions = job[a].actions
  <1>1. job[a] \in Calling
    OBVIOUS
  <1>2. [job[a] EXCEPT !.at = step] \in Calling
    BY <1>1 DEF Calling
  <1>3. job' = [job EXCEPT ![a] = IF step = "idle" THEN Idle
                                  ELSE [job[a] EXCEPT !.at = step]]
    BY DEF Goes
  <1>4. job' \in [Actors -> Calling]
    BY <1>2, <1>3, IdleIsCalling
  <1>5. \A b \in Actors : b # a => job'[b] = job[b]
    BY <1>3
  <1>6. job'[a] = IF step = "idle" THEN Idle ELSE [job[a] EXCEPT !.at = step]
    BY <1>3
  <1>7. CASE step = "idle"
    BY <1>4, <1>5, <1>6, <1>7, IdleIsCalling
  <1>8. CASE step # "idle"
    BY <1>1, <1>4, <1>5, <1>6, <1>8 DEF Calling
  <1> QED
    BY <1>7, <1>8

(* At first there is no log and no checkpoint.                             *)
LEMMA CheckpointInvInit == CheckpointInit => CheckpointInv
  <1> SUFFICES ASSUME CheckpointInit PROVE CheckpointInv
    OBVIOUS
  <1>1. Len(log) = 0 /\ DOMAIN checkpoints = {} /\ job = [a \in Actors |-> Idle]
    BY DEF CheckpointInit
  <1>2. CheckpointTypeOK
    BY <1>1, IdleIsCalling, CheckpointAssumption DEF CheckpointInit, CheckpointTypeOK
  <1>3. \A a \in Actors : job[a].at = "idle"
    BY <1>1, IdleIsCalling
  <1>4. (\A a \in Actors : JobMatchesLog(a)) /\ WriterIsLatest
    BY <1>3 DEF JobMatchesLog, WriterIsLatest, Stages, Actors
  <1>5. FilesMatchLog /\ ExpiredIsOld
    BY <1>1 DEF CheckpointInit, FilesMatchLog, ExpiredIsOld
  <1>6. AdaptiveKeepsUp
    BY DEF CheckpointInit, AdaptiveKeepsUp
  <1>7. LatestVersion = -1
    BY <1>1 DEF LatestVersion
  <1>8. FixedKeepsUp
    BY <1>3, <1>7 DEF FixedKeepsUp, Regular, Actors
  <1> QED
    BY <1>2, <1>4, <1>5, <1>6, <1>8 DEF CheckpointInv

(* A step that leaves the log and the checkpoints alone, and makes no      *)
(* decision: what is left to show is about the call it takes further.      *)
LEMMA CallGoesOn ==
    ASSUME CheckpointInv, NEW a \in Actors,
           job' \in [Actors -> Calling], \A b \in Actors : b # a => job'[b] = job[b],
           UNCHANGED <<adaptive, log, checkpoints, basis>>, ExpiredIsOld',
           marker' \in {Unmarked} \cup DOMAIN checkpoints,
           sound' \in BOOLEAN, sound' => sound,
           a = "writer" => job[a].at = "cleanup" \/ job'[a].at # "idle" \/ ~sound',
           job'[a].at \notin {"commit", "decide"},
           JobMatchesLog(a)',
           a = "writer" => WriterIsLatest'
    PROVE  CheckpointInv'
  <1> USE DEF CheckpointInv
  <1>1. CheckpointTypeOK'
    BY DEF CheckpointTypeOK, LatestVersion
  <1>2. ASSUME NEW b \in Actors
        PROVE  JobMatchesLog(b)'
    <2>1. CASE b # a
      <3>1. job'[b] = job[b] /\ JobMatchesLog(b)
        BY <2>1
      <3> QED
        BY <3>1 DEF JobMatchesLog, LatestVersion
    <2> QED
      BY <2>1
  <1>3. WriterIsLatest'
    BY DEF WriterIsLatest, LatestVersion, Actors
  <1>4. FilesMatchLog' /\ ExpiredIsOld'
    BY DEF FilesMatchLog
  <1>5. CASE a # "writer"
    <2>1. job'["writer"] = job["writer"]
      BY <1>5 DEF Actors
    <2> QED
      BY <1>1, <1>2, <1>3, <1>4, <2>1
         DEF AdaptiveKeepsUp, FixedKeepsUp, Regular, LatestVersion
  <1>6. CASE a = "writer"
    <2>1. CASE ~sound' \/ job'[a].at # "idle"
      BY <1>1, <1>2, <1>3, <1>4, <1>6, <2>1
         DEF AdaptiveKeepsUp, FixedKeepsUp, Regular, LatestVersion
    <2>2. CASE sound' /\ job'[a].at = "idle"
      <3>1. /\ job[a].at = "cleanup" /\ log # <<>>
            /\ LatestVersion \in DOMAIN checkpoints
        BY <1>6, <2>2 DEF JobMatchesLog, WriterIsLatest, Stages
      <3>2. LatestVersion \in Int
        BY DEF LatestVersion, CheckpointTypeOK
      <3>3. AdaptiveKeepsUp'
        <4>1. LatestVersion - LatestVersion < 2 * Frequency
          BY <3>2, CheckpointAssumption
        <4> QED
          BY <1>6, <2>2, <3>1, <4>1 DEF AdaptiveKeepsUp, LatestVersion
      <3>4. Regular(LatestVersion)'
        BY <3>1, <3>2 DEF Regular, LatestVersion
      <3> QED
        BY <1>1, <1>2, <1>3, <1>4, <1>6, <2>2, <3>3, <3>4 DEF FixedKeepsUp
    <2> QED
      BY <2>1, <2>2
  <1> QED
    BY <1>5, <1>6

(* A call that fails has the writer know it.                               *)
LEMMA FailureKept ==
    ASSUME CheckpointInv, NEW a \in Actors, Fails(a),
           UNCHANGED <<adaptive, log, checkpoints, basis, expired>>,
           marker' \in {Unmarked} \cup DOMAIN checkpoints
    PROVE  CheckpointInv'
  <1>1. job \in [Actors -> Calling] /\ sound \in BOOLEAN /\ ExpiredIsOld
    BY DEF CheckpointInv, CheckpointTypeOK
  <1>2. Goes(a, "idle") /\ "idle" \in Stages
    BY DEF Fails, Stages
  <1>3. /\ job' \in [Actors -> Calling]
        /\ \A b \in Actors : b # a => job'[b] = job[b]
        /\ job'[a].at = "idle"
    BY <1>1, <1>2, GoesTyped
  <1>4. sound' \in BOOLEAN /\ (sound' => sound) /\ (a = "writer" => ~sound')
    BY <1>1 DEF Fails
  <1>5. JobMatchesLog(a)' /\ (a = "writer" => WriterIsLatest')
    BY <1>3 DEF JobMatchesLog, WriterIsLatest, Stages
  <1>6. ExpiredIsOld'
    BY <1>1 DEF ExpiredIsOld, Outdated, NewerThan
  <1> QED
    BY <1>3, <1>4, <1>5, <1>6, CallGoesOn

(* An operator's request is a call for a version.                          *)
LEMMA RequestKept ==
    ASSUME CheckpointInv, NEW v \in -1..MaxVersion, Request(v)
    PROVE  CheckpointInv'
  <1> DEFINE a == "operator"
  <1>1. job \in [Actors -> Calling] /\ sound \in BOOLEAN /\ ExpiredIsOld /\ a \in Actors
    BY DEF CheckpointInv, CheckpointTypeOK, Actors
  <1>2. [Idle EXCEPT !.at = "snapshot", !.version = v] \in Calling
    BY IdleIsCalling DEF Calling, Stages
  <1>3. job' = [job EXCEPT ![a] = [Idle EXCEPT !.at = "snapshot", !.version = v]]
    BY DEF Request
  <1>4. /\ job' \in [Actors -> Calling]
        /\ \A b \in Actors : b # a => job'[b] = job[b]
        /\ job'[a].at = "snapshot"
    BY <1>1, <1>2, <1>3, IdleIsCalling DEF Calling
  <1>5. JobMatchesLog(a)'
    BY <1>4 DEF JobMatchesLog
  <1>6. /\ UNCHANGED <<adaptive, log, checkpoints, basis>> /\ marker' = marker
        /\ sound' = sound /\ ExpiredIsOld'
    BY <1>1 DEF Request, ExpiredIsOld, Outdated, NewerThan
  <1>7. marker' \in {Unmarked} \cup DOMAIN checkpoints
    BY <1>6 DEF CheckpointInv, CheckpointTypeOK
  <1> QED
    BY <1>1, <1>4, <1>5, <1>6, <1>7, CallGoesOn

(* A snapshot holds what the log holds.                                    *)
LEMMA TakeSnapshotKept ==
    ASSUME CheckpointInv, NEW a \in Actors, TakeSnapshot(a)
    PROVE  CheckpointInv'
  <1> DEFINE v == IF job[a].version = -1 THEN LatestVersion ELSE job[a].version
  <1>1. /\ job \in [Actors -> Calling] /\ log \in Seq(Entries) /\ sound \in BOOLEAN
        /\ ExpiredIsOld /\ marker \in {Unmarked} \cup DOMAIN checkpoints
        /\ job[a] \in Calling
    BY DEF CheckpointInv, CheckpointTypeOK
  <1>2. CASE Fails(a) /\ UNCHANGED <<adaptive, log, checkpoints, marker, basis, expired>>
    BY <1>1, <1>2, FailureKept
  <1>3. CASE /\ v \in 0..LatestVersion /\ UNCHANGED sound
             /\ job' = [job EXCEPT ![a].at = "upload", ![a].actions = Snapshot(v)]
             /\ UNCHANGED <<adaptive, log, checkpoints, marker, basis, expired>>
    <2>1. Snapshot(v) = ContentOf(log, v) /\ Snapshot(v) \in Contents
      BY <1>1, <1>3, SnapshotIsContent
    <2> HIDE DEF v
    <2>2. [job[a] EXCEPT !.at = "upload", !.actions = Snapshot(v)] \in Calling
      <3> HIDE DEF Contents
      <3> QED
        BY <1>1, <2>1 DEF Calling, Stages
    <2>3. job' = [job EXCEPT ![a] =
                      [job[a] EXCEPT !.at = "upload", !.actions = Snapshot(v)]]
      BY <1>1, <1>3
    <2>4. /\ job' \in [Actors -> Calling]
          /\ \A b \in Actors : b # a => job'[b] = job[b]
          /\ job'[a].at = "upload" /\ job'[a].version = job[a].version
          /\ job'[a].actions = Snapshot(v)
      BY <1>1, <2>2, <2>3 DEF Calling
    <2>5. JobMatchesLog(a)'
      <3>1. LatestVersion \in Int /\ LatestVersion' = LatestVersion /\ log' = log
        BY <1>1, <1>3 DEF LatestVersion
      <3>2. job[a].version \in Int
        BY <1>1, CheckpointAssumption DEF Calling
      <3>3. job[a].version <= LatestVersion /\ (job[a].version >= 0 => v = job[a].version)
        BY <1>3, <3>1, <3>2 DEF v
      <3> QED
        BY <2>1, <2>4, <3>1, <3>3 DEF JobMatchesLog
    <2>6. a = "writer" => WriterIsLatest'
      <3>1. job[a].at = "snapshot" /\ WriterIsLatest
        BY DEF TakeSnapshot, CheckpointInv
      <3> QED
        BY <1>3, <2>4, <3>1 DEF WriterIsLatest, Stages, LatestVersion
    <2>7. ExpiredIsOld'
      BY <1>1, <1>3 DEF ExpiredIsOld, Outdated, NewerThan
    <2> QED
      BY <1>1, <1>3, <2>4, <2>5, <2>6, <2>7, CallGoesOn
  <1> QED
    BY <1>2, <1>3 DEF TakeSnapshot

(* The marker names a checkpoint that has been uploaded.                   *)
LEMMA WriteMarkerKept ==
    ASSUME CheckpointInv, NEW a \in Actors, WriteMarker(a)
    PROVE  CheckpointInv'
  <1>1. /\ job \in [Actors -> Calling] /\ sound \in BOOLEAN /\ ExpiredIsOld
        /\ job[a].at = "mark" /\ job[a].version \in DOMAIN checkpoints
        /\ marker \in {Unmarked} \cup DOMAIN checkpoints
        /\ WriterIsLatest
    BY DEF CheckpointInv, CheckpointTypeOK, JobMatchesLog, WriteMarker
  <1>2. /\ UNCHANGED <<adaptive, log, checkpoints, basis, expired>>
        /\ marker' \in {Unmarked} \cup DOMAIN checkpoints
    BY <1>1 DEF WriteMarker
  <1>3. CASE Fails(a)
    BY <1>2, <1>3, FailureKept
  <1>4. CASE Goes(a, "cleanup") /\ sound' = sound
    <2>1. /\ job' \in [Actors -> Calling]
          /\ \A b \in Actors : b # a => job'[b] = job[b]
          /\ job'[a].at = "cleanup" /\ job'[a].version = job[a].version
      BY <1>1, <1>4, GoesTyped DEF Stages
    <2>2. JobMatchesLog(a)' /\ (a = "writer" => WriterIsLatest') /\ ExpiredIsOld'
      BY <1>1, <1>2, <2>1
         DEF JobMatchesLog, WriterIsLatest, Stages, LatestVersion, ExpiredIsOld, Outdated, NewerThan
    <2> QED
      BY <1>1, <1>2, <1>4, <2>1, <2>2, CallGoesOn
  <1> QED
    BY <1>3, <1>4 DEF WriteMarker

(* The cleanup only gives up what has enough newer checkpoints.            *)
LEMMA CleanupKept ==
    ASSUME CheckpointInv, NEW a \in Actors, CleanupOldCheckpoints(a)
    PROVE  CheckpointInv'
  <1>1. /\ job \in [Actors -> Calling] /\ sound \in BOOLEAN /\ ExpiredIsOld
        /\ job[a].at = "cleanup" /\ marker \in {Unmarked} \cup DOMAIN checkpoints
    BY DEF CheckpointInv, CheckpointTypeOK, CleanupOldCheckpoints
  <1>2. /\ UNCHANGED <<adaptive, log, checkpoints, marker, basis, sound>>
        /\ Goes(a, "idle") /\ "idle" \in Stages
    BY DEF CleanupOldCheckpoints, Stages
  <1>3. /\ job' \in [Actors -> Calling]
        /\ \A b \in Actors : b # a => job'[b] = job[b]
        /\ job'[a].at = "idle"
    BY <1>1, <1>2, GoesTyped
  <1>4. JobMatchesLog(a)' /\ (a = "writer" => WriterIsLatest')
    BY <1>3 DEF JobMatchesLog, WriterIsLatest, Stages
  <1>5. \A v \in SelectForDeletion(job[a].version) : Outdated(v)
    BY DEF SelectForDeletion, Outdated
  <1>6. expired' \subseteq expired \cup SelectForDeletion(job[a].version)
    BY DEF CleanupOldCheckpoints
  <1>7. ExpiredIsOld'
    <2>1. \A v : Outdated(v) => Outdated(v)'
      BY <1>2 DEF Outdated, NewerThan
    <2> QED
      BY <1>1, <1>5, <1>6, <2>1 DEF ExpiredIsOld
  <1> QED
    BY <1>1, <1>2, <1>3, <1>4, <1>7, CallGoesOn

(* A checkpoint more makes none less outdated.                             *)
LEMMA OneMoreNewer ==
    ASSUME log \in Seq(Entries), DOMAIN checkpoints \subseteq -1..LatestVersion,
           NEW v \in -1..LatestVersion, DOMAIN checkpoints' = DOMAIN checkpoints \cup {v},
           NEW u, Outdated(u)
    PROVE  Outdated(u)'
  <1>1. LatestVersion \in Int
    BY DEF LatestVersion
  <1>2. IsFiniteSet(-1..LatestVersion)
    BY <1>1, FS_Interval
  <1>3. NewerThan(u) \subseteq NewerThan(u)' /\ NewerThan(u)' \subseteq -1..LatestVersion
    BY DEF NewerThan
  <1>4. IsFiniteSet(NewerThan(u)') /\ IsFiniteSet(NewerThan(u))
    BY <1>2, <1>3, FS_Subset
  <1>5. Cardinality(NewerThan(u)) <= Cardinality(NewerThan(u)')
    BY <1>3, <1>4, FS_Subset
  <1>6. Cardinality(NewerThan(u)) \in Int /\ Cardinality(NewerThan(u)') \in Int
    BY <1>4, FS_CardinalityType
  <1> QED
    BY <1>5, <1>6, CheckpointAssumption DEF Outdated

(* An uploaded checkpoint is the state of its version.                     *)
LEMMA WrittenKept ==
    ASSUME CheckpointInv, NEW a \in Actors, NEW step \in {"mark", "idle"}, Goes(a, step),
           job[a].at = "upload",
           checkpoints' = [w \in DOMAIN checkpoints \cup {job[a].version} |->
                             IF w = job[a].version THEN job[a].actions ELSE checkpoints[w]],
           sound' \in BOOLEAN, a # "writer" => sound' = sound,
           a = "writer" /\ step = "idle" => ~sound',
           UNCHANGED <<adaptive, log, marker, basis, expired>>
    PROVE  CheckpointInv'
  <1> DEFINE v == job[a].version
  <1> USE DEF CheckpointInv
  <1>1. job \in [Actors -> Calling] /\ log \in Seq(Entries) /\ job[a] \in Calling
    BY DEF CheckpointTypeOK
  <1>2. /\ job' \in [Actors -> Calling]
        /\ \A b \in Actors : b # a => job'[b] = job[b]
        /\ job'[a].at = step /\ (step = "mark" => job'[a].version = v)
    BY <1>1, GoesTyped DEF Stages
  <1>3. v \in -1..LatestVersion /\ (v >= 0 => job[a].actions = ContentOf(log, v))
    <2>1. v \in -1..MaxVersion /\ LatestVersion \in Int
      BY <1>1 DEF Calling, LatestVersion
    <2> QED
      BY <2>1, CheckpointAssumption DEF JobMatchesLog
  <1> HIDE DEF v
  <1>4. /\ DOMAIN checkpoints' = DOMAIN checkpoints \cup {v}
        /\ checkpoints'[v] = job[a].actions
        /\ \A w \in DOMAIN checkpoints : w # v => checkpoints'[w] = checkpoints[w]
    BY DEF v
  <1>5. CheckpointTypeOK'
    <2>1. DOMAIN checkpoints' \subseteq -1..LatestVersion
      BY <1>3, <1>4 DEF CheckpointTypeOK
    <2>2. LatestVersion' = LatestVersion
      BY DEF LatestVersion
    <2> QED
      BY <1>2, <1>4, <2>1, <2>2 DEF CheckpointTypeOK
  <1>6. ASSUME NEW b \in Actors
        PROVE  JobMatchesLog(b)'
    <2>1. CASE b = a
      BY <1>2, <1>4, <2>1 DEF JobMatchesLog
    <2>2. CASE b # a
      <3>1. job'[b] = job[b] /\ JobMatchesLog(b)
        BY <1>2, <2>2
      <3> QED
        BY <1>4, <3>1 DEF JobMatchesLog, LatestVersion
    <2> QED
      BY <2>1, <2>2
  <1>7. WriterIsLatest'
    <2>1. CASE a = "writer"
      BY <1>2, <2>1 DEF WriterIsLatest, Stages, LatestVersion, v
    <2>2. CASE a # "writer"
      <3>1. job'["writer"] = job["writer"]
        BY <1>2, <2>2 DEF Actors
      <3> QED
        BY <3>1 DEF WriterIsLatest, LatestVersion
    <2> QED
      BY <2>1, <2>2
  <1>8. FilesMatchLog'
    BY <1>3, <1>4 DEF FilesMatchLog
  <1>9. ExpiredIsOld'
    <2>1. checkpoints' = [w \in DOMAIN checkpoints \cup {v} |->
                             IF w = v THEN job[a].actions ELSE checkpoints[w]]
      BY DEF v
    <2>2. \A u \in expired : Outdated(u)'
      BY <1>1, <1>3, <2>1, OneMoreNewer DEF CheckpointTypeOK, ExpiredIsOld
    <2> QED
      BY <2>2 DEF ExpiredIsOld
  <1>10. AdaptiveKeepsUp' /\ FixedKeepsUp'
    <2>1. CASE a = "writer"
      <3>1. /\ job'["writer"].at = step /\ (step = "idle" => ~sound')
            /\ (log = <<>> => basis = Unmarked)
        BY <1>2, <2>1 DEF AdaptiveKeepsUp
      <3> QED
        BY <3>1 DEF AdaptiveKeepsUp, FixedKeepsUp
    <2>2. CASE a # "writer"
      <3>1. job'["writer"] = job["writer"] /\ sound' = sound
        BY <1>2, <2>2 DEF Actors
      <3>2. AdaptiveKeepsUp'
        BY <1>4, <3>1 DEF AdaptiveKeepsUp, LatestVersion
      <3>3. \A n : Regular(n) => (\A u \in 1..n : u % Frequency = 0
                                    => \E w \in DOMAIN checkpoints' : w >= u)
        BY <1>4 DEF Regular
      <3>4. FixedKeepsUp'
        BY <3>1, <3>3 DEF FixedKeepsUp, Regular, LatestVersion
      <3> QED
        BY <3>2, <3>4
    <2> QED
      BY <2>1, <2>2
  <1> QED
    BY <1>5, <1>6, <1>7, <1>8, <1>9, <1>10

(* The file may be there although its upload is reported as failed.        *)
LEMMA UploadKept ==
    ASSUME CheckpointInv, NEW a \in Actors, Upload(a)
    PROVE  CheckpointInv'
  <1> DEFINE v == job[a].version
             written == [w \in DOMAIN checkpoints \cup {v} |->
                            IF w = v THEN job[a].actions ELSE checkpoints[w]]
  <1>1. /\ job[a].at = "upload" /\ sound \in BOOLEAN /\ adaptive \in BOOLEAN
        /\ UNCHANGED <<adaptive, log, marker, basis, expired>>
        /\ marker \in {Unmarked} \cup DOMAIN checkpoints
    BY DEF Upload, CheckpointInv, CheckpointTypeOK
  <1>2. CASE /\ checkpoints' = written /\ Goes(a, "mark")
             /\ sound' = (sound \/ (~adaptive /\ a = "writer"))
    BY <1>1, <1>2, WrittenKept
  <1>3. CASE checkpoints' = checkpoints /\ Fails(a)
    BY <1>1, <1>3, FailureKept
  <1>4. CASE checkpoints' = written /\ Fails(a)
    BY <1>1, <1>4, WrittenKept DEF Fails
  <1> QED
    BY <1>2, <1>3, <1>4 DEF Upload

(* A step of the writer up to its decision, on the log as it is: what is   *)
(* left to show is what it leaves behind.                                  *)
LEMMA WriterGoesOn ==
    ASSUME CheckpointInv, UNCHANGED <<adaptive, log, checkpoints, marker, expired>>,
           sound' \in BOOLEAN, job' \in [Actors -> Calling],
           job'["operator"] = job["operator"],
           job'["writer"].at \in {"idle", "commit", "snapshot"},
           job'["writer"].at = "snapshot"
               => job'["writer"].version = LatestVersion /\ log # <<>>,
           AdaptiveKeepsUp', FixedKeepsUp'
    PROVE  CheckpointInv'
  <1> USE DEF CheckpointInv
  <1>1. CheckpointTypeOK'
    BY DEF CheckpointTypeOK, LatestVersion
  <1>2. JobMatchesLog("writer")'
    BY DEF JobMatchesLog
  <1>3. JobMatchesLog("operator")'
    <2>1. JobMatchesLog("operator")
      BY DEF Actors
    <2> QED
      BY <2>1 DEF JobMatchesLog, LatestVersion
  <1>4. WriterIsLatest'
    BY DEF WriterIsLatest, Stages, LatestVersion
  <1>5. FilesMatchLog' /\ ExpiredIsOld'
    BY DEF FilesMatchLog, ExpiredIsOld, Outdated, NewerThan
  <1> QED
    BY <1>1, <1>2, <1>3, <1>4, <1>5 DEF Actors

(* A version more, and what was there stays as it was.                     *)
LEMMA LogGrows ==
    ASSUME CheckpointInv, NEW e \in Entries, log' = Append(log, e), Len(log) <= MaxVersion,
           UNCHANGED <<adaptive, checkpoints, marker, expired>>,
           sound' \in BOOLEAN, job' \in [Actors -> Calling],
           job'["operator"] = job["operator"],
           job'["writer"].at \in {"idle", "commit", "decide"},
           job'["writer"].at = "decide" => job'["writer"].version = Len(log),
           basis' = Unmarked, FixedKeepsUp'
    PROVE  CheckpointInv'
  <1> USE DEF CheckpointInv
  <1>1. /\ log \in Seq(Entries) /\ log' \in Seq(Entries) /\ Len(log') = Len(log) + 1
        /\ LatestVersion \in Int /\ LatestVersion' = LatestVersion + 1 /\ log' # <<>>
    BY DEF CheckpointTypeOK, LatestVersion
  <1>2. \A v \in -1..LatestVersion : ContentOf(log', v) = ContentOf(log, v)
    BY <1>1, ContentStable DEF LatestVersion
  <1>3. CheckpointTypeOK'
    <2>1. DOMAIN checkpoints' \subseteq -1..LatestVersion' /\ Len(log') <= MaxVersion + 1
      BY <1>1, CheckpointAssumption DEF CheckpointTypeOK
    <2> QED
      BY <1>1, <2>1 DEF CheckpointTypeOK
  <1>4. JobMatchesLog("writer")'
    BY DEF JobMatchesLog
  <1>5. JobMatchesLog("operator")'
    <2>1. JobMatchesLog("operator") /\ job["operator"].version \in -1..MaxVersion
      BY DEF Actors, CheckpointTypeOK, Calling
    <2>2. CASE job["operator"].at = "upload"
      <3>1. job["operator"].version \in -1..LatestVersion
        BY <1>1, <2>1, <2>2, CheckpointAssumption DEF JobMatchesLog
      <3> QED
        BY <1>1, <1>2, <2>1, <2>2, <3>1 DEF JobMatchesLog
    <2>3. CASE job["operator"].at # "upload"
      BY <2>1, <2>3 DEF JobMatchesLog
    <2> QED
      BY <2>2, <2>3
  <1>6. WriterIsLatest'
    BY <1>1 DEF WriterIsLatest, Stages, LatestVersion
  <1>7. FilesMatchLog'
    BY <1>2 DEF FilesMatchLog, CheckpointTypeOK
  <1>8. ExpiredIsOld'
    BY DEF ExpiredIsOld, Outdated, NewerThan
  <1>9. AdaptiveKeepsUp'
    BY DEF AdaptiveKeepsUp
  <1> QED
    BY <1>3, <1>4, <1>5, <1>6, <1>7, <1>8, <1>9 DEF Actors

(* Version 0 describes the table.                                          *)
LEMMA InitializeKept ==
    ASSUME CheckpointInv, Initialize
    PROVE  CheckpointInv'
  <1> DEFINE e == [described |-> TRUE, actions |-> <<>>]
  <1>1. /\ job \in [Actors -> Calling] /\ log = <<>> /\ job["writer"] = Idle
        /\ UNCHANGED <<adaptive, checkpoints, marker, job, basis, sound, expired>>
        /\ sound \in BOOLEAN /\ basis = Unmarked
    BY DEF Initialize, CheckpointInv, CheckpointTypeOK, AdaptiveKeepsUp
  <1>2. e \in Entries
    BY DEF Entries
  <1>3. log' = Append(log, e) /\ Len(log) = 0 /\ Len(log') = 1
    BY <1>1 DEF Initialize
  <1>4. job'["writer"].at = "idle"
    BY <1>1, IdleIsCalling
  <1>5. FixedKeepsUp'
    BY <1>3, <1>4 DEF FixedKeepsUp, Regular, LatestVersion
  <1> HIDE DEF e
  <1> QED
    BY <1>1, <1>2, <1>3, <1>4, <1>5, LogGrows, CheckpointAssumption

(* A commit begins with nothing decided.                                   *)
LEMMA BeginCommitKept ==
    ASSUME CheckpointInv, BeginCommit
    PROVE  CheckpointInv'
  <1>1. /\ job \in [Actors -> Calling] /\ job["writer"] = Idle
        /\ UNCHANGED <<adaptive, log, checkpoints, marker, expired>>
        /\ sound \in BOOLEAN /\ adaptive \in BOOLEAN /\ basis' = Unmarked
        /\ sound' = (sound \/ adaptive)
    BY DEF BeginCommit, CheckpointInv, CheckpointTypeOK
  <1> PICK c \in Commits :
          job' = [job EXCEPT !["writer"].at = "commit", !["writer"].commit = c]
    BY DEF BeginCommit
  <1>2. c \in Seq(Action)
    BY CheckpointAssumption DEF Action
  <1>3. [Idle EXCEPT !.at = "commit", !.commit = c] \in Calling
    BY <1>2, IdleIsCalling DEF Calling, Stages
  <1>4. job' = [job EXCEPT !["writer"] = [Idle EXCEPT !.at = "commit", !.commit = c]]
    BY <1>1
  <1>5. /\ job' \in [Actors -> Calling] /\ job'["operator"] = job["operator"]
        /\ job'["writer"].at = "commit"
    BY <1>1, <1>3, <1>4, IdleIsCalling DEF Actors, Calling
  <1>6. AdaptiveKeepsUp'
    BY <1>1, <1>5 DEF AdaptiveKeepsUp
  <1>7. FixedKeepsUp'
    <2>1. ~adaptive /\ sound => Regular(LatestVersion)
      BY <1>1, IdleIsCalling DEF CheckpointInv, FixedKeepsUp
    <2> QED
      BY <1>1, <1>5, <2>1 DEF FixedKeepsUp, Regular, LatestVersion
  <1> QED
    BY <1>1, <1>5, <1>6, <1>7, WriterGoesOn

(* A version that is written and not reported as such is a failure.        *)
LEMMA WriteVersionKept ==
    ASSUME CheckpointInv, WriteVersion
    PROVE  CheckpointInv'
  <1> DEFINE e == [described |-> FALSE, actions |-> job["writer"].commit]
  <1>1. /\ job \in [Actors -> Calling] /\ job["writer"].at = "commit"
        /\ UNCHANGED <<adaptive, checkpoints, marker, basis, expired>>
        /\ sound \in BOOLEAN /\ basis = Unmarked /\ job["writer"] \in Calling
        /\ log \in Seq(Entries)
    BY DEF WriteVersion, CheckpointInv, CheckpointTypeOK, AdaptiveKeepsUp, Actors
  <1>2. e \in Entries
    BY <1>1 DEF Calling, Entries
  <1>3. ASSUME Retry
        PROVE  /\ job' \in [Actors -> Calling] /\ job'["operator"] = job["operator"]
               /\ job'["writer"].at \in {"idle", "commit"}
               /\ ~sound' /\ sound' \in BOOLEAN
    <2>1. ~sound' /\ sound' \in BOOLEAN
      BY <1>3 DEF Retry
    <2>2. CASE job' = [job EXCEPT !["writer"] = Idle]
      BY <1>1, <2>1, <2>2, IdleIsCalling DEF Actors
    <2>3. CASE job' = [job EXCEPT !["writer"].attempt = @ + 1]
      <3>1. /\ [job["writer"] EXCEPT !.attempt = @ + 1] \in Calling
            /\ [job["writer"] EXCEPT !.attempt = @ + 1].at = "commit"
        <4>1. job["writer"].attempt + 1 \in Nat
          BY <1>1 DEF Calling
        <4>2. \A n \in Nat : /\ [job["writer"] EXCEPT !.attempt = n] \in Calling
                             /\ [job["writer"] EXCEPT !.attempt = n].at = "commit"
          BY <1>1 DEF Calling
        <4> QED
          BY <4>1, <4>2
      <3>2. job' = [job EXCEPT !["writer"] = [job["writer"] EXCEPT !.attempt = @ + 1]]
        BY <1>1, <2>3
      <3> QED
        BY <1>1, <2>1, <3>1, <3>2 DEF Actors
    <2> QED
      BY <1>3, <2>2, <2>3 DEF Retry
  <1>4. CASE Retry /\ log' = log
    BY <1>1, <1>3, <1>4, WriterGoesOn DEF AdaptiveKeepsUp, FixedKeepsUp
  <1>5. CASE Len(log) <= MaxVersion /\ log' = Append(log, e) /\ Retry
    <2>1. FixedKeepsUp'
      BY <1>3, <1>5 DEF FixedKeepsUp
    <2> HIDE DEF e
    <2> QED
      BY <1>1, <1>2, <1>3, <1>5, <2>1, LogGrows
  <1>6. CASE /\ Len(log) <= MaxVersion /\ log' = Append(log, e)
             /\ job' = [job EXCEPT !["writer"] =
                            [Idle EXCEPT !.at = "decide", !.version = Len(log)]]
             /\ UNCHANGED sound
    <2>1. [Idle EXCEPT !.at = "decide", !.version = Len(log)] \in Calling
      <3>1. Len(log) \in -1..MaxVersion
        BY <1>1, <1>6, CheckpointAssumption
      <3> QED
        BY <3>1, IdleIsCalling DEF Calling, Stages
    <2>2. /\ job' \in [Actors -> Calling] /\ job'["operator"] = job["operator"]
          /\ job'["writer"].at = "decide" /\ job'["writer"].version = Len(log)
      BY <1>1, <1>6, <2>1, IdleIsCalling DEF Actors, Calling
    <2>3. FixedKeepsUp'
      <3>1. LatestVersion' - 1 = LatestVersion
        BY <1>1, <1>2, <1>6 DEF LatestVersion
      <3>2. ~adaptive /\ sound => Regular(LatestVersion)
        BY <1>1 DEF CheckpointInv, FixedKeepsUp
      <3> QED
        BY <1>1, <1>6, <2>2, <3>1, <3>2 DEF FixedKeepsUp, Regular
    <2> HIDE DEF e
    <2> QED
      BY <1>1, <1>2, <1>6, <2>2, <2>3, LogGrows
  <1> QED
    BY <1>4, <1>5, <1>6 DEF WriteVersion

(* A decision not to make a checkpoint leaves no due version behind.       *)
LEMMA MaybeCheckpointKept ==
    ASSUME CheckpointInv, MaybeCheckpoint
    PROVE  CheckpointInv'
  <1> DEFINE v == job["writer"].version
  <1>1. /\ job \in [Actors -> Calling] /\ job["writer"].at = "decide"
        /\ UNCHANGED <<adaptive, log, checkpoints, marker, expired>>
        /\ sound \in BOOLEAN /\ log # <<>> /\ v = LatestVersion /\ v \in Nat
        /\ DOMAIN checkpoints \subseteq Int /\ "writer" \in Actors
    <2>1. job["writer"].at = "decide" /\ v = LatestVersion /\ log # <<>>
      BY DEF MaybeCheckpoint, CheckpointInv, WriterIsLatest, Stages
    <2>2. log \in Seq(Entries) /\ DOMAIN checkpoints \subseteq Int
      BY DEF CheckpointInv, CheckpointTypeOK, LatestVersion
    <2>3. v \in Nat
      BY <2>1, <2>2 DEF LatestVersion
    <2> QED
      BY <2>1, <2>2, <2>3
         DEF MaybeCheckpoint, CheckpointInv, CheckpointTypeOK, Actors
  <1> PICK missed \in SUBSET (0..v) :
          Goes("writer", IF v # 0 /\ ShouldCreate(v, basis', missed)
                         THEN "snapshot" ELSE "idle")
    BY DEF MaybeCheckpoint
  <1> DEFINE due == v # 0 /\ ShouldCreate(v, basis', missed)
             step == IF due THEN "snapshot" ELSE "idle"
  <1>2. /\ job' \in [Actors -> Calling] /\ job'["operator"] = job["operator"]
        /\ job'["writer"].at = step
        /\ due => job'["writer"].version = LatestVersion
    <2>1. step \in Stages /\ Goes("writer", step)
      BY DEF Stages
    <2> HIDE DEF due
    <2> QED
      BY <1>1, <2>1, GoesTyped DEF Actors
  <1>3. CASE adaptive /\ v # 0
    <2> PICK read \in BOOLEAN : /\ basis' = IF read THEN marker ELSE Unmarked
                                /\ sound' = (sound /\ read)
      BY <1>3 DEF MaybeCheckpoint
    <2>1. AdaptiveKeepsUp'
      <3>1. ASSUME step = "idle", basis' # Unmarked
            PROVE  marker \in DOMAIN checkpoints /\ v - marker < 2 * Frequency
        <4>1. basis' = marker /\ marker \in DOMAIN checkpoints
          BY <3>1 DEF CheckpointInv, CheckpointTypeOK
        <4>2. ~ShouldCreate(v, marker, missed)
          BY <1>3, <3>1, <4>1
        <4>3. ~(v - marker >= 2 * Frequency)
          BY <1>3, <3>1, <4>1, <4>2 DEF ShouldCreate
        <4> QED
          BY <1>1, <4>1, <4>3, CheckpointAssumption
      <3>2. step \in {"snapshot", "idle"} /\ log' # <<>> /\ v = LatestVersion'
        BY <1>1 DEF LatestVersion
      <3> HIDE DEF step, v
      <3>3. ASSUME job'["writer"].at = "idle", basis' # Unmarked
            PROVE  \E w \in DOMAIN checkpoints' \cup {0} :
                      LatestVersion' - w < 2 * Frequency
        BY <1>1, <1>2, <3>1, <3>2, <3>3
      <3> QED
        BY <1>2, <3>2, <3>3 DEF AdaptiveKeepsUp
    <2>2. FixedKeepsUp' /\ sound' \in BOOLEAN
      BY <1>1, <1>3 DEF FixedKeepsUp
    <2> QED
      BY <1>1, <1>2, <2>1, <2>2, WriterGoesOn
  <1>4. CASE ~(adaptive /\ v # 0)
    <2>1. basis' = Unmarked /\ sound' = sound
      BY <1>4 DEF MaybeCheckpoint
    <2>2. AdaptiveKeepsUp'
      BY <2>1 DEF AdaptiveKeepsUp
    <2>3. FixedKeepsUp'
      <3> SUFFICES ASSUME ~adaptive, sound, step = "idle"
                   PROVE  Regular(v)
        BY <1>1, <1>2, <2>1 DEF FixedKeepsUp, Regular, LatestVersion
      <3>1. v = 0 \/ v % Frequency # 0
        BY DEF ShouldCreate
      <3>2. Regular(v - 1)
        BY <1>1 DEF CheckpointInv, FixedKeepsUp
      <3>3. \A u \in 1..v : u = v \/ u \in 1..(v - 1)
        BY <1>1
      <3> QED
        BY <1>1, <3>1, <3>2, <3>3 DEF Regular
    <2> QED
      BY <1>1, <1>2, <2>1, <2>2, <2>3, WriterGoesOn
  <1> QED
    BY <1>3, <1>4

(* Every step keeps the invariant.                                         *)
LEMMA CheckpointInvStep == CheckpointInv /\ [CheckpointNext]_checkpointVars => CheckpointInv'
  <1> SUFFICES ASSUME CheckpointInv, [CheckpointNext]_checkpointVars PROVE CheckpointInv'
    OBVIOUS
  <1>1. CASE Initialize
    BY <1>1, InitializeKept
  <1>2. CASE BeginCommit
    BY <1>2, BeginCommitKept
  <1>3. CASE WriteVersion
    BY <1>3, WriteVersionKept
  <1>4. CASE MaybeCheckpoint
    BY <1>4, MaybeCheckpointKept
  <1>5. ASSUME NEW v \in -1..MaxVersion, Request(v)
        PROVE  CheckpointInv'
    BY <1>5, RequestKept
  <1>6. ASSUME NEW a \in Actors,
               \/ TakeSnapshot(a) \/ Upload(a) \/ WriteMarker(a)
               \/ CleanupOldCheckpoints(a) \/ Crash(a)
        PROVE  CheckpointInv'
    <2>1. CASE Crash(a)
      <3>1. /\ Fails(a) /\ marker' = marker
            /\ UNCHANGED <<adaptive, log, checkpoints, basis, expired>>
        BY <2>1 DEF Crash
      <3>2. marker \in {Unmarked} \cup DOMAIN checkpoints
        BY DEF CheckpointInv, CheckpointTypeOK
      <3> QED
        BY <3>1, <3>2, FailureKept
    <2> QED
      BY <1>6, <2>1, TakeSnapshotKept, UploadKept, WriteMarkerKept, CleanupKept
  <1>7. CASE UNCHANGED checkpointVars
    <2>1. UNCHANGED <<adaptive, log, checkpoints, marker, job, basis, sound, expired>>
      BY <1>7 DEF checkpointVars
    <2>2. CheckpointTypeOK' /\ (\A a \in Actors : JobMatchesLog(a)') /\ WriterIsLatest'
      BY <2>1 DEF CheckpointInv, CheckpointTypeOK, JobMatchesLog, WriterIsLatest, LatestVersion
    <2>3. FilesMatchLog' /\ ExpiredIsOld' /\ AdaptiveKeepsUp' /\ FixedKeepsUp'
      BY <2>1 DEF CheckpointInv, FilesMatchLog, ExpiredIsOld, Outdated, NewerThan, AdaptiveKeepsUp, FixedKeepsUp,
                  Regular, LatestVersion
    <2> QED
      BY <2>2, <2>3 DEF CheckpointInv
  <1> QED
    BY <1>1, <1>2, <1>3, <1>4, <1>5, <1>6, <1>7 DEF CheckpointNext

(* A decision that leaves no due version behind leaves less than the       *)
(* frequency to replay, as one in every so many versions is due.           *)
LEMMA BacklogIsBounded == CheckpointInv => BacklogBounded
  <1> SUFFICES ASSUME CheckpointInv, job["writer"] = Idle, log # <<>>
               PROVE  LET newest == Max(DOMAIN checkpoints \cup {0})
                      IN /\ adaptive /\ basis # Unmarked /\ sound
                              => LatestVersion - newest < 2 * Frequency
                         /\ ~adaptive /\ sound => LatestVersion - newest < Frequency
    BY DEF BacklogBounded
  <1> DEFINE newest == Max(DOMAIN checkpoints \cup {0})
  <1>1. /\ log \in Seq(Entries) /\ DOMAIN checkpoints \subseteq -1..LatestVersion
        /\ job["writer"].at = "idle"
    BY IdleIsCalling DEF CheckpointInv, CheckpointTypeOK
  <1>2. LatestVersion \in Nat
    BY <1>1 DEF LatestVersion
  <1>3. newest \in -1..LatestVersion /\ \A w \in DOMAIN checkpoints \cup {0} : w <= newest
    <2> DEFINE versions == DOMAIN checkpoints \cup {0}
    <2>1. versions \subseteq -1..LatestVersion /\ versions # {}
      BY <1>1, <1>2
    <2>2. versions \in SUBSET Int /\ LatestVersion \in Int
          /\ \A w \in versions : w <= LatestVersion
      BY <1>2, <2>1
    <2>3. Max(versions) \in versions /\ \A w \in versions : w <= Max(versions)
      <3> HIDE DEF versions
      <3> QED
        BY <2>1, <2>2, MaxIsMax
    <2> QED
      BY <2>1, <2>3
  <1> HIDE DEF newest
  <1>4. ASSUME adaptive, basis # Unmarked, sound
        PROVE  LatestVersion - newest < 2 * Frequency
    <2>1. PICK w \in DOMAIN checkpoints \cup {0} : LatestVersion - w < 2 * Frequency
      BY <1>1, <1>4 DEF CheckpointInv, AdaptiveKeepsUp
    <2>2. w \in Int /\ w <= newest
      BY <1>1, <1>3
    <2> QED
      BY <1>2, <1>3, <2>1, <2>2, CheckpointAssumption
  <1>5. ASSUME ~adaptive, sound
        PROVE  LatestVersion - newest < Frequency
    <2>1. PICK k \in 0..LatestVersion : k > LatestVersion - Frequency /\ k % Frequency = 0
      BY <1>2, LastMultiple, CheckpointAssumption
    <2>2. k <= newest
      <3>1. CASE k = 0
        BY <1>3, <3>1
      <3>2. CASE k # 0
        <4>1. PICK w \in DOMAIN checkpoints : w >= k
          BY <1>1, <1>5, <2>1, <3>2 DEF CheckpointInv, FixedKeepsUp, Regular
        <4>2. w \in Int /\ w <= newest
          BY <1>1, <1>3
        <4> QED
          BY <1>3, <2>1, <4>1, <4>2
      <3> QED
        BY <3>1, <3>2
    <2> QED
      BY <1>2, <1>3, <2>1, <2>2, CheckpointAssumption
  <1> QED
    BY <1>4, <1>5 DEF newest

(* The newest checkpoint that can be read is the state of its version, and *)
(* whatever is newer than it could not be read.                            *)
LEMMA FoundRecovers ==
    ASSUME CheckpointInv, NEW unread \in SUBSET DOMAIN checkpoints,
           NEW found, found = FindValidCheckpoint(LatestVersion, unread), found >= 0
    PROVE  /\ checkpoints[found].files = Active(found)
           /\ log[1].described => Recovers(found)
           /\ found \in expired => Cardinality(unread \cap NewerThan(found)) >= MaxCheckpoints
  <1>1. log \in Seq(Entries) /\ LatestVersion \in Int
        /\ DOMAIN checkpoints \subseteq -1..LatestVersion
    BY DEF CheckpointInv, CheckpointTypeOK, LatestVersion
  <1> DEFINE usable == {v \in DOMAIN checkpoints \ unread : 0 <= v /\ v <= LatestVersion} \cup {-1}
  <1>2. found \in usable /\ \A w \in usable : w <= found
    <2>1. \A w \in usable : w <= LatestVersion \/ w <= -1
      BY <1>1
    <2>2. \E b \in Int : \A w \in usable : w <= b
      BY <1>1, <2>1
    <2>3. usable \in SUBSET Int /\ usable # {}
      BY <1>1
    <2>4. found = Max(usable)
      BY DEF FindValidCheckpoint
    <2> HIDE DEF usable
    <2> QED
      BY <2>2, <2>3, <2>4, MaxIsMax
  <1>3. found \in DOMAIN checkpoints /\ found \in 0..LatestVersion
    BY <1>1, <1>2
  <1>4. checkpoints[found] = ContentOf(log, found)
    BY <1>3 DEF CheckpointInv, FilesMatchLog
  <1>5. checkpoints[found].files = Active(found)
    BY <1>1, <1>3, <1>4, SnapshotIsContent
  <1>6. log[1].described => Recovers(found)
    <2>1. 1 \in 1..(found + 1)
      BY <1>3
    <2>2. log[1].described => checkpoints[found].described
      BY <1>4, <2>1 DEF ContentOf
    <2> QED
      BY <1>3, <2>2 DEF Recovers, StructureErrors
  <1>7. ASSUME found \in expired
        PROVE  Cardinality(unread \cap NewerThan(found)) >= MaxCheckpoints
    <2>1. Outdated(found)
      BY <1>7 DEF CheckpointInv, ExpiredIsOld
    <2>2. ASSUME NEW w \in NewerThan(found) PROVE w \in unread
      <3>1. w \in DOMAIN checkpoints /\ w > found
        BY DEF NewerThan
      <3>2. w \in 0..LatestVersion
        BY <1>1, <1>3, <3>1
      <3> QED
        BY <1>2, <1>3, <3>1, <3>2
    <2>3. unread \cap NewerThan(found) = NewerThan(found)
      BY <2>2
    <2> QED
      BY <2>1, <2>3 DEF Outdated
  <1> QED
    BY <1>5, <1>6, <1>7

(* Whichever checkpoints cannot be read, what the search finds recovers.   *)
LEMMA SearchRecovers == CheckpointInv => CheckpointsRecover
  <1> SUFFICES ASSUME CheckpointInv PROVE CheckpointsRecover
    OBVIOUS
  <1>1. \A v \in DOMAIN checkpoints : Validates(v) => Recovers(v)
    BY DEF Validates, Recovers
  <1> QED
    BY <1>1, FoundRecovers DEF CheckpointsRecover

(* A step of Upkeep is one of the checkpoints or leaves them alone.        *)
LEMMA UpkeepStepOfCheckpoints == [UpkeepNext]_upkeepVars => [CheckpointNext]_checkpointVars
  BY DEF UpkeepNext, SchedulerStep, CheckpointStep, ConsistencyStep, MigrationStep,
         upkeepVars, checkpointVars

(* The invariant holds in every behaviour.                                 *)
LEMMA CheckpointInvariant == UpkeepSpec => []CheckpointInv
  <1>1. UpkeepInit => CheckpointInv
    BY CheckpointInvInit DEF UpkeepInit
  <1> QED
    BY <1>1, CheckpointInvStep, UpkeepStepOfCheckpoints, PTL DEF UpkeepSpec

(* What a reader has to replay after the newest checkpoint stays bounded,  *)
(* in both modes, for any frequency and whatever the operator asks for.    *)
THEOREM BacklogStaysBounded == UpkeepSpec => []BacklogBounded
  BY CheckpointInvariant, BacklogIsBounded, PTL

(* Whoever made the checkpoint that recovery finds, in whatever order the  *)
(* writer and the operator uploaded, marked and cleaned up, and whichever  *)
(* checkpoints cannot be read: it is the table at its version, with the    *)
(* files its last actions add; and it is one that was declared deleted     *)
(* only when all that the cleanup keeps could not be read.                 *)
THEOREM CheckpointsAreTheTable == UpkeepSpec => []CheckpointsRecover
  BY CheckpointInvariant, SearchRecovers, PTL
=============================================================================
