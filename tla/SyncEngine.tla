----------------------------- MODULE SyncEngine -----------------------------
(***************************************************************************)
(* Engine.Run for one source (sync/engine.go) with its state file          *)
(* (state.go): load the state, plan every object, sync the objects         *)
(* concurrently under a semaphore, save the state once at the end.         *)
(*                                                                         *)
(* The k-th change of an object in the source system is the number k, and  *)
(* a moment is the number of changes made before it, so that a watermark   *)
(* (a time.Now()) is a number too and an incremental query returns the     *)
(* changes after it.  A table is the set of changes its commits hold:      *)
(* DeltaTable has the log itself, SchemaTracking what schemas decide, and  *)
(* Recovery the loop that attempts an object again.                        *)
(***************************************************************************)
EXTENDS Integers, FiniteSets

CONSTANTS
    Objects,       \* the objects discovery lists, all of them allowed
    None,          \* no ObjectState
    MaxChanges,    \* bound on the changes of an object
    MaxAttempts,   \* RecoveryConfig.MaxRetries
    Concurrencies, \* what Engine.concurrency may be configured to
    SkipFailedObjects  \* RecoveryConfig.SkipFailedObjects

ASSUME EngineAssumption ==
    /\ MaxChanges \in Nat
    /\ MaxAttempts \in Nat \ {0}
    /\ Concurrencies # {} /\ Concurrencies \subseteq Nat \ {0}
    /\ None \notin Int
    /\ IsFiniteSet(Objects)
    /\ SkipFailedObjects \in BOOLEAN

Moment == 0..MaxChanges

VARIABLES
    concurrency,\* Engine.concurrency
    source,     \* [Objects -> Moment], changes made so far
    table,      \* [Objects -> SUBSET changes], the Delta tables
    saved,      \* [Objects -> watermark or None], sync_state.json
    runpc,      \* where Run is
    state,      \* like saved: state.Objects in memory
    mode,       \* [Objects -> the plan's mode]; "skip" if it was not described
    sem,        \* the slots taken: what is in the channel sem of Run
    pc,         \* where each object's worker is
    asked,      \* when each worker's extraction query was answered
    mark,       \* the WatermarkValue each worker is about to store
    attempt,    \* the attempt ExecuteWithRetry is at
    errors,     \* objects with an error in the error aggregator
    began,      \* history: source when the run was planned
    blind,      \* history: changes made between a query and its watermark
    failedNow   \* history: objects that failed in this run

outside == <<concurrency, source, table, saved>>
workers == <<sem, pc, asked, mark, attempt>>
history == <<began, blind, failedNow>>
vars    == <<outside, runpc, state, mode, workers, errors, history>>

Init ==
    /\ concurrency \in Concurrencies
    /\ source = [o \in Objects |-> 0]
    /\ table = [o \in Objects |-> {}]
    /\ saved = [o \in Objects |-> None]
    /\ runpc = "idle"
    /\ state = [o \in Objects |-> None]
    /\ mode = [o \in Objects |-> "skip"]
    /\ sem = 0
    /\ pc = [o \in Objects |-> "off"]
    /\ asked = [o \in Objects |-> 0]
    /\ mark = [o \in Objects |-> 0]
    /\ attempt = [o \in Objects |-> 1]
    /\ errors = {}
    /\ began = [o \in Objects |-> 0]
    /\ blind = [o \in Objects |-> {}]
    /\ failedNow = {}

\* Somebody changes a record in the source system.
Change(o) ==
    /\ source[o] < MaxChanges
    /\ source' = [source EXCEPT ![o] = @ + 1]
    /\ UNCHANGED <<concurrency, table, saved, runpc, state, mode, workers, errors, history>>

-----------------------------------------------------------------------------
(* Engine.Run                                                              *)

\* Planner.Plan: full without prior state; a breaking schema change may ask
\* for a full sync at any time.
PlansFor(w) == IF w = None THEN {"full"} ELSE {"full", "incremental"}

(* Connect, load, discover and plan: nobody else touches what they read.   *)
(* Any error of GetJSON loads an empty state.  An object that cannot be    *)
(* described is skipped.                                                   *)
StartRun ==
    /\ runpc = "idle"
    /\ runpc' = "work"
    /\ state' \in {saved, [o \in Objects |-> None]}
    /\ mode' \in [Objects -> {"skip", "full", "incremental"}]
    /\ \A o \in Objects : mode'[o] \in {"skip"} \cup PlansFor(state'[o])
    /\ sem' = 0
    /\ pc' = [o \in Objects |-> IF mode'[o] = "skip" THEN "off" ELSE "queued"]
    /\ attempt' = [o \in Objects |-> 1]
    /\ asked' = [o \in Objects |-> 0]
    /\ mark' = [o \in Objects |-> 0]
    /\ began' = source
    /\ failedNow' = {o \in Objects : mode'[o] = "skip"}
    /\ UNCHANGED <<outside, errors, blind>>

\* Run has returned, or its process died: its locals are gone.
Ended ==
    /\ runpc' = "idle"
    /\ state' = [o \in Objects |-> None]
    /\ mode' = [o \in Objects |-> "skip"]
    /\ sem' = 0
    /\ pc' = [o \in Objects |-> "off"]
    /\ asked' = [o \in Objects |-> 0]
    /\ mark' = [o \in Objects |-> 0]
    /\ attempt' = [o \in Objects |-> 1]
    /\ began' = [o \in Objects |-> 0]
    /\ failedNow' = {}
    /\ UNCHANGED <<concurrency, source, table, blind>>

(* All workers are done.  A consistency violation may end the run here,    *)
(* without saving, if the configuration says so.                           *)
FinishWork ==
    /\ runpc = "work"
    /\ \A o \in Objects : pc[o] \in {"off", "done"}
    /\ \/ runpc' = "save" /\ UNCHANGED <<outside, state, mode, workers, history>>
       \/ Ended /\ UNCHANGED saved
    /\ UNCHANGED errors

\* The run returns the error of a save that failed, applied or not.
Save ==
    /\ runpc = "save"
    /\ \/ /\ saved' = state
          /\ runpc' = "report"
          /\ UNCHANGED <<concurrency, source, table, state, mode, workers, history>>
       \/ saved' \in {saved, state} /\ Ended
    /\ UNCHANGED errors

\* Run returns nil if the aggregator is empty, and all its errors otherwise.
Report ==
    /\ runpc = "report"
    /\ Ended
    /\ UNCHANGED <<saved, errors>>

\* The process dies; a new one starts with a new Engine.
Crash ==
    /\ runpc # "idle" \/ errors # {}
    /\ Ended
    /\ errors' = {}
    /\ UNCHANGED saved

-----------------------------------------------------------------------------
(* The worker of one object: the goroutine in Run, and syncObject          *)

Goto(o, label) == pc' = [pc EXCEPT ![o] = label]

Continue(o, label) == Goto(o, label) /\ UNCHANGED <<attempt, errors, failedNow>>

Fail(o) ==
    /\ Goto(o, "release")
    /\ errors' = errors \cup {o}
    /\ failedNow' = failedNow \cup {o}
    /\ UNCHANGED attempt

\* ExecuteWithRetry calls syncObject again, or returns its error.
RetryOrFail(o) ==
    \/ /\ attempt[o] < MaxAttempts
       /\ attempt' = [attempt EXCEPT ![o] = @ + 1]
       /\ Goto(o, "extract")
       /\ UNCHANGED <<errors, failedNow>>
    \/ Fail(o)

(* ExecuteWithRetry refuses an object whose recovery state says that it    *)
(* cannot be retried: with an error, or by claiming success for it.        *)
Refuse(o) ==
    \/ Fail(o)
    \/ /\ SkipFailedObjects
       /\ Goto(o, "release")
       /\ failedNow' = failedNow \cup {o}
       /\ UNCHANGED <<attempt, errors>>

(* The worker waits for a slot: its send blocks while the channel is full. *)
Acquire(o) ==
    /\ pc[o] = "queued"
    /\ sem < concurrency
    /\ sem' = sem + 1
    /\ Continue(o, "extract") \/ Refuse(o)
    /\ UNCHANGED <<outside, runpc, state, mode, asked, mark, began, blind>>

\* What a query answered at moment n returns.
Extracted(o, n) == {k \in 1..n : mode[o] = "incremental" => k > state[o]}

\* A mutant: an extraction error is taken for the end of the records.
QueryErrorDropped(o) ==
    /\ pc[o] = "extract"
    /\ asked' = [asked EXCEPT ![o] = source[o]]
    /\ Continue(o, IF Extracted(o, source[o]) = {} THEN "release" ELSE "commit") \/ Continue(o, "release")
    /\ UNCHANGED <<outside, sem, runpc, state, mode, mark, began, blind>>

(* Initialize the table, query the source, write the files.  Without new   *)
(* records nothing is committed and the state stays as it is.              *)
Query(o) ==
    /\ pc[o] = "extract"
    /\ asked' = [asked EXCEPT ![o] = source[o]]
    /\ \/ Continue(o, IF Extracted(o, source[o]) = {} THEN "release" ELSE "commit")
       \/ RetryOrFail(o)
    /\ UNCHANGED <<outside, sem, runpc, state, mode, mark, began, blind>>

WithCommit(o) == [table EXCEPT ![o] = @ \cup Extracted(o, asked[o])]

\* A mutant: the error of Commit is not looked at.
CommitUnchecked(o) ==
    /\ pc[o] = "commit"
    /\ table' \in {table, WithCommit(o)}
    /\ Continue(o, "update")
    /\ UNCHANGED <<concurrency, source, saved, sem, runpc, state, mode, asked, mark, began, blind>>

\* A commit that is reported as failed may have been applied.
Commit(o) ==
    /\ pc[o] = "commit"
    /\ \/ table' = WithCommit(o) /\ Continue(o, "update")
       \/ table' = WithCommit(o) /\ RetryOrFail(o)
       \/ UNCHANGED table /\ RetryOrFail(o)
    /\ UNCHANGED <<concurrency, source, saved, sem, runpc, state, mode, asked, mark, began, blind>>

(* WatermarkValue is the time after the commit, not that of the query.     *)
TakeWatermark(o) ==
    /\ pc[o] = "update"
    /\ mark' = [mark EXCEPT ![o] = source[o]]
    /\ blind' = [blind EXCEPT ![o] = @ \cup (asked[o] + 1)..source[o]]
    /\ Continue(o, "store")
    /\ UNCHANGED <<outside, sem, runpc, state, mode, asked, began>>

\* Another worker is inside its assignment to the same map.
Races(o) == \E x \in Objects \ {o} : pc[x] = "store"

(* The assignment to the map state.Objects, begun in the step before; no   *)
(* lock is held.  Assignments that race may be lost, or detected by the Go *)
(* runtime, which ends the process: Crash.                                 *)
StoreState(o) ==
    /\ pc[o] = "store"
    /\ \/ state' = [state EXCEPT ![o] = mark[o]]
       \/ Races(o) /\ UNCHANGED state
    /\ Continue(o, "release")
    /\ UNCHANGED <<outside, sem, runpc, mode, asked, mark, began, blind>>

\* A mutant: a worker that failed keeps its slot.
ReleaseOnSuccess(o) ==
    /\ pc[o] = "release"
    /\ sem' = IF o \in failedNow THEN sem ELSE sem - 1
    /\ Goto(o, "done")
    /\ UNCHANGED <<outside, runpc, state, mode, asked, mark, attempt, errors, history>>

(* The deferred calls of the goroutine: the slot is given back, and the    *)
(* WaitGroup is told.  The worker's locals are gone.                       *)
Release(o) ==
    /\ pc[o] = "release"
    /\ sem > 0
    /\ sem' = sem - 1
    /\ Goto(o, "done")
    /\ asked' = [asked EXCEPT ![o] = 0]
    /\ mark' = [mark EXCEPT ![o] = 0]
    /\ attempt' = [attempt EXCEPT ![o] = 1]
    /\ UNCHANGED <<outside, runpc, state, mode, errors, history>>

Worker(o) ==
    Acquire(o) \/ Query(o) \/ Commit(o) \/ TakeWatermark(o) \/ StoreState(o) \/ Release(o)

RunStep == FinishWork \/ Save \/ Report

Next ==
    \/ StartRun \/ RunStep \/ Crash
    \/ \E o \in Objects : Change(o) \/ Worker(o)

Spec == Init /\ [][Next]_vars

(* A run in progress goes on: its goroutines are scheduled and its calls   *)
(* return, as they run under a context.  Nothing obliges a run to start.   *)
FairSpec == Spec /\ WF_vars(RunStep) /\ \A o \in Objects : WF_vars(Worker(o))

-----------------------------------------------------------------------------
(* Properties                                                              *)

Modes == {"skip", "full", "incremental"}
Labels == {"off", "queued", "extract", "commit", "update", "store", "release", "done"}

Typed ==
    /\ concurrency \in Concurrencies
    /\ source \in [Objects -> Moment]
    /\ table \in [Objects -> SUBSET (1..MaxChanges)]
    /\ saved \in [Objects -> Moment \cup {None}]
    /\ runpc \in {"idle", "work", "save", "report"}
    /\ state \in [Objects -> Moment \cup {None}]
    /\ mode \in [Objects -> Modes]
    /\ sem \in Nat
    /\ pc \in [Objects -> Labels]
    /\ asked \in [Objects -> Moment]
    /\ mark \in [Objects -> Moment]
    /\ attempt \in [Objects -> 1..MaxAttempts]
    /\ errors \subseteq Objects
    /\ began \in [Objects -> Moment]
    /\ blind \in [Objects -> SUBSET (1..MaxChanges)]
    /\ failedNow \subseteq Objects

\* The workers that took a slot and have not given it back.
Active == {o \in Objects : pc[o] \notin {"off", "queued", "done"}}

(* Every variable has its type; the channel holds one token for each       *)
(* worker between its first step and its last, and never too many.         *)
TypeOK == Typed /\ sem = Cardinality(Active) /\ sem <= concurrency

\* Every change up to w is in the table, but for those made in the window.
Covered(o, w) == 1..w \subseteq table[o] \cup blind[o]

(* Whatever crashes, fails or is forgotten, a saved watermark never passes *)
(* a change that the table does not hold, except a change made after the   *)
(* extraction query of its run and before its watermark was taken.         *)
LostOnlyInWindow == \A o \in Objects : saved[o] # None => Covered(o, saved[o])

(* A run that returns nil has brought over, for every object it planned,   *)
(* all changes the source had when the run was planned (the window aside): *)
(* no failure of a query, a write or a commit is swallowed on the way.     *)
(* SkipFailedObjects asks for the opposite and has to be off.              *)
NilMeansSynced ==
    [][Report /\ errors = {} =>
        \A o \in Objects : mode[o] # "skip" => Covered(o, began[o])]_vars

(* A saved watermark never goes back, also when a run could not load the   *)
(* state and starts over.                                                  *)
WatermarksAdvance ==
    [][\A o \in Objects :
        saved[o] # None /\ saved'[o] # None => saved'[o] >= saved[o]]_vars

(* A run that was started returns, also when there are fewer slots than    *)
(* objects: whatever becomes of a worker, the one that waits for its slot  *)
(* gets it.                                                                *)
RunReturns == runpc # "idle" ~> runpc = "idle"

(* "At-least-once semantics": every change up to the saved watermark is in *)
(* the table (README.md:148, docs/sync-engine.md:262).                     *)
AtLeastOnce == \A o \in Objects : saved[o] # None => 1..saved[o] \subseteq table[o]

(* "A sync.Mutex protects the shared SyncState map when parallel           *)
(* goroutines update their object states" (docs/sync-engine.md:85): no two *)
(* workers are inside the assignment at once.                              *)
MapProtected == Cardinality({o \in Objects : pc[o] = "store"}) <= 1

(* "Individual failures are logged and counted; the engine reports the     *)
(* total failure count" (docs/architecture.md:117): the failures a run     *)
(* reports are failures of that run.                                       *)
OnlyThisRunsFailures == [][Report => errors \subseteq failedNow]_vars
=============================================================================
