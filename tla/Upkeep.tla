------------------------------- MODULE Upkeep -------------------------------
(***************************************************************************)
(* What goes on over many runs of the sync: the scheduler that starts      *)
(* them, the checkpoints of a table, the consistency of the states they    *)
(* leave, and the state file across releases.  These share no state in the *)
(* code, so that the behaviours of each are those with the others at rest: *)
(* part says which of them a behaviour is about.                           *)
(***************************************************************************)
EXTENDS Scheduler, CheckpointManager, Consistency, StateMigration

VARIABLE part

upkeepVars == <<part, vars, checkpointVars, consistencyVars, migrationVars>>

Parts == {"scheduler", "checkpoints", "consistency", "migration"}

\* A part at rest has one initial state.
UpkeepInit ==
    /\ part \in Parts
    /\ Init /\ CheckpointInit /\ ConsistencyInit /\ MigrationInit
    /\ part # "checkpoints" => ~adaptive
    /\ part # "consistency" => ~failOnViolation
    /\ part # "migration" => release = 0 /\ mode = "strict"

SchedulerStep(action) ==
    /\ part = "scheduler" /\ action
    /\ UNCHANGED <<part, checkpointVars, consistencyVars, migrationVars>>

CheckpointStep == part = "checkpoints" /\ CheckpointNext
                  /\ UNCHANGED <<part, vars, consistencyVars, migrationVars>>

ConsistencyStep(action) ==
    /\ part = "consistency" /\ action
    /\ UNCHANGED <<part, vars, checkpointVars, migrationVars>>

MigrationStep == part = "migration" /\ MigrationNext
                 /\ UNCHANGED <<part, vars, checkpointVars, consistencyVars>>

UpkeepNext == \/ SchedulerStep(Next) \/ CheckpointStep
              \/ ConsistencyStep(ConsistencyNext) \/ MigrationStep

UpkeepSpec == UpkeepInit /\ [][UpkeepNext]_upkeepVars

(* The scheduler's fairness as in Scheduler, and time passes.              *)
UpkeepFairSpec ==
    /\ UpkeepSpec
    /\ WF_upkeepVars(SchedulerStep(StopCron)) /\ WF_upkeepVars(SchedulerStep(StopReturn))
    /\ \A e \in Ids : WF_upkeepVars(SchedulerStep(cancelled /\ Finish(e)))
    /\ WF_upkeepVars(ConsistencyStep(HourPasses))
=============================================================================
