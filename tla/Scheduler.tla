----------------------------- MODULE Scheduler -----------------------------
(***************************************************************************)
(* The sync scheduler (scheduler/scheduler.go) on top of robfig/cron: jobs *)
(* are added under a name, the cron loop starts a goroutine for every      *)
(* activation of every entry, and Stop cancels the jobs' context, stops    *)
(* the loop and waits for the goroutines.  main calls Start once and Stop  *)
(* once.  A job's run is a sync of the source it is named after, so the    *)
(* runs of one name are the concurrent writers of that source's tables.    *)
(***************************************************************************)
EXTENDS Naturals, Sequences

CONSTANTS
    Names,         \* job names
    MaxEntries,    \* bound on the entries added to cron
    MaxRuns        \* bound on the goroutines of one entry

ASSUME SchedulerAssumption == MaxEntries \in Nat /\ MaxRuns \in Nat \ {0}

Ids == 1..MaxEntries

VARIABLES
    entries,     \* cron's entries, by id: the job name each was added under
    jobs,        \* [Names -> entry id], 0 if there is none: Scheduler.jobs
    ticking,     \* the cron loop runs
    cancelled,   \* Scheduler.ctx is cancelled
    runs,        \* [Ids -> Nat], the goroutines of each entry
    life         \* "new", "started", "cancelling", "waiting", "stopped"

vars == <<entries, jobs, ticking, cancelled, runs, life>>

Init ==
    /\ entries = <<>>
    /\ jobs = [n \in Names |-> 0]
    /\ ticking = FALSE
    /\ cancelled = FALSE
    /\ runs = [e \in Ids |-> 0]
    /\ life = "new"

(* AddFunc never looks for an entry of the same name: the old one stays in *)
(* cron, and only its id is forgotten.                                     *)
AddJob(n) ==
    /\ Len(entries) < MaxEntries
    /\ entries' = Append(entries, n)
    /\ jobs' = [jobs EXCEPT ![n] = Len(entries')]
    /\ UNCHANGED <<ticking, cancelled, runs, life>>

Start ==
    /\ life = "new"
    /\ life' = "started"
    /\ ticking' = TRUE
    /\ UNCHANGED <<entries, jobs, cancelled, runs>>

\* cron starts a goroutine, whether or not an earlier one still runs.
Fire(e) ==
    /\ ticking
    /\ e <= Len(entries)
    /\ runs[e] < MaxRuns
    /\ runs' = [runs EXCEPT ![e] = @ + 1]
    /\ UNCHANGED <<entries, jobs, ticking, cancelled, life>>

Finish(e) ==
    /\ runs[e] > 0
    /\ runs' = [runs EXCEPT ![e] = @ - 1]
    /\ UNCHANGED <<entries, jobs, ticking, cancelled, life>>

\* A mutant: the cancel function is not called.
StopCancelForgotten ==
    /\ life = "started"
    /\ life' = "cancelling"
    /\ UNCHANGED <<entries, jobs, ticking, cancelled, runs>>

StopCancel ==
    /\ life = "started"
    /\ life' = "cancelling"
    /\ cancelled' = TRUE
    /\ UNCHANGED <<entries, jobs, ticking, runs>>

StopCron ==
    /\ life = "cancelling"
    /\ life' = "waiting"
    /\ ticking' = FALSE
    /\ UNCHANGED <<entries, jobs, cancelled, runs>>

\* A mutant: Stop does not wait for the context cron.Stop returned.
StopReturnAtOnce ==
    /\ life = "waiting"
    /\ life' = "stopped"
    /\ UNCHANGED <<entries, jobs, ticking, cancelled, runs>>

StopReturn ==
    /\ life = "waiting"
    /\ \A e \in Ids : runs[e] = 0
    /\ life' = "stopped"
    /\ UNCHANGED <<entries, jobs, ticking, cancelled, runs>>

Next ==
    \/ \E n \in Names : AddJob(n)
    \/ Start \/ StopCancel \/ StopCron \/ StopReturn
    \/ \E e \in Ids : Fire(e) \/ Finish(e)

Spec == Init /\ [][Next]_vars

(* Stop goes on once called, and a run ends once the scheduler's context,  *)
(* which it is given, is cancelled.                                        *)
FairSpec ==
    /\ Spec
    /\ WF_vars(StopCron) /\ WF_vars(StopReturn)
    /\ \A e \in Ids : WF_vars(cancelled /\ Finish(e))

-----------------------------------------------------------------------------
(* Properties                                                              *)

(* Every variable has its type; the id kept for a name is an entry of it.  *)
TypeOK ==
    /\ entries \in Seq(Names) /\ Len(entries) <= MaxEntries
    /\ jobs \in [Names -> 0..Len(entries)]
    /\ \A n \in Names : jobs[n] # 0 => entries[jobs[n]] = n
    /\ ticking \in BOOLEAN /\ cancelled \in BOOLEAN
    /\ runs \in [Ids -> 0..MaxRuns]
    /\ life \in {"new", "started", "cancelling", "waiting", "stopped"}

(* "Stop gracefully stops the scheduler": when it returns, no run of any   *)
(* job is in progress, and none starts afterwards.                         *)
NoRunAfterStop == life = "stopped" => \A e \in Ids : runs[e] = 0

(* Stop returns, also when an entry fires while it is called.              *)
StopTerminates == life = "cancelling" ~> life = "stopped"

(* "Concurrent writers - Single writer assumed" (docs/delta-protocol.md,   *)
(* line 291): at any time at most one sync of a source runs.               *)
SingleWriterAssumed ==
    \A d, e \in DOMAIN entries :
        entries[d] = entries[e] /\ runs[d] > 0 /\ runs[e] > 0 => d = e /\ runs[d] = 1
=============================================================================
