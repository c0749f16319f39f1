---------------------------- MODULE Consistency -----------------------------
(***************************************************************************)
(* The consistency tracker (sync/consistency.go) over many runs of the     *)
(* engine: at the end of a run it compares the ages of the objects' states *)
(* with their windows and with one another, and the engine stores what it  *)
(* finds, or, with FailOnViolation, returns before it saves the state.     *)
(*                                                                         *)
(* A state is made by a commit alone, which takes one and the same time    *)
(* for LastSyncTime and for the watermark: age is the time since then.  An *)
(* object that has nothing new, or fails, keeps the state it had.  The     *)
(* durations of the code are steps of one clock, in hours there.           *)
(***************************************************************************)
EXTENDS Integers, Sequences, FiniteSets

CONSTANTS
    Tables,          \* the objects of the source
    Relationships,   \* config.Relationships: object -> its dependents
    Windows,         \* config.Windows: object -> window, for some objects
    MaxStaleness,    \* the window of the others
    DriftLimits,     \* 1, 6, 12 and 24 hours
    BoundaryLimit,   \* 6 hours
    MaxAge           \* bound on the ages: older states are as old as this

ASSUME ConsistencyAssumption == MaxStaleness \in Nat \ {0} /\ MaxAge \in Nat

NoState == -1

VARIABLES
    failOnViolation, \* config.FailOnViolation
    saved,           \* object -> age of its state in the saved file
    working,         \* object -> age of its state in the run's copy
    planned,         \* the objects the run has a plan for
    phase,           \* "idle", "syncing", "validating", "stored" or "saving"
    violations       \* those of the report of this run, or of the last one

consistencyVars == <<failOnViolation, saved, working, planned, phase, violations>>

ConsistencyInit ==
    /\ failOnViolation \in BOOLEAN
    /\ saved = [o \in Tables |-> NoState] /\ working = saved
    /\ planned = {} /\ phase = "idle" /\ violations = {}

-----------------------------------------------------------------------------
(* The rules.  age: object -> time since its last sync, for the results.   *)

MaxAgeOf(o) == IF o \in DOMAIN Windows THEN Windows[o] ELSE MaxStaleness

StalenessSeverity(age, window) ==
    CASE age > 4 * window -> "critical"
      [] age > 2 * window -> "high"
      [] 2 * age > 3 * window -> "medium"
      [] OTHER -> "low"

DriftSeverity(drift) ==
    CASE drift > DriftLimits[4] -> "critical"
      [] drift > DriftLimits[3] -> "high"
      [] drift > DriftLimits[2] -> "medium"
      [] OTHER -> "low"

Violation(type, objects, severity) ==
    [type |-> type, objects |-> objects, severity |-> severity]

Staleness(age) ==
    {Violation("staleness", {o}, StalenessSeverity(age[o], MaxAgeOf(o))) :
        o \in {p \in DOMAIN age : age[p] > MaxAgeOf(p)}}

\* The relationships whose parent has a result; dependents without one.
Parents(age) == DOMAIN Relationships \cap DOMAIN age
Missing(age, parent) == Relationships[parent] \ DOMAIN age

MissingObjects(age) ==
    {Violation("missing_object", {o} \cup Missing(age, o), "high") :
        o \in {p \in Parents(age) : Missing(age, p) # {}}}

Related(age) ==
    {pair \in (DOMAIN age) \X (DOMAIN age) :
        pair[1] \in Parents(age) /\ pair[2] \in Relationships[pair[1]]}

\* The watermark of the dependent lies before that of the parent.
WatermarkDrift(age) ==
    {Violation("watermark_drift", {r[1], r[2]}, DriftSeverity(age[r[2]] - age[r[1]])) :
        r \in {q \in Related(age) : age[q[2]] - age[q[1]] > DriftLimits[1]}}

Boundary(age) ==
    {Violation("transaction_boundary", {r[1], r[2]}, "medium") :
        r \in {q \in Related(age) : \/ age[q[1]] - age[q[2]] > BoundaryLimit
                                    \/ age[q[2]] - age[q[1]] > BoundaryLimit}}

\* A mutant: every object counts as synced by this run.
ResultsNow == [o \in planned |-> 0]

\* An object without a state counts as synced just now.
Results == [o \in planned |-> IF working[o] = NoState THEN 0 ELSE working[o]]

Critical(found) == \E v \in found : v.severity = "critical"

OverallStatus(found) ==
    CASE found = {} -> "healthy" [] Critical(found) -> "unhealthy" [] OTHER -> "degraded"

-----------------------------------------------------------------------------
(* The run.                                                                *)

\* A state that cannot be read is a state of nothing; an object that cannot
\* be described has no plan.
StartConsistentRun ==
    /\ phase = "idle" /\ phase' = "syncing"
    /\ working' \in {saved, [o \in Tables |-> NoState]}
    /\ planned' \in SUBSET Tables
    /\ UNCHANGED <<failOnViolation, saved, violations>>

\* Only a commit makes a state; what has nothing new, or fails, has not.
SyncTable(o) ==
    /\ phase = "syncing" /\ o \in planned
    /\ working' = [working EXCEPT ![o] = 0]
    /\ UNCHANGED <<failOnViolation, saved, planned, phase, violations>>

ValidateSync ==
    /\ phase = "syncing" /\ phase' = "validating"
    /\ violations' = Staleness(Results) \cup MissingObjects(Results)
                        \cup WatermarkDrift(Results) \cup Boundary(Results)
    /\ UNCHANGED <<failOnViolation, saved, working, planned>>

\* StoreReport may fail, which is only logged.
CheckViolations ==
    /\ phase = "validating"
    /\ phase' = IF violations # {} /\ failOnViolation /\ Critical(violations)
                THEN "idle" ELSE "saving"
    /\ UNCHANGED <<failOnViolation, saved, working, planned, violations>>

\* The save is done, or reported as failed and done or not.
SaveConsistentState ==
    /\ phase = "saving" /\ phase' = "idle"
    /\ saved' \in {saved, working}
    /\ UNCHANGED <<failOnViolation, working, planned, violations>>

RunDies ==
    /\ phase # "idle" /\ phase' = "idle"
    /\ UNCHANGED <<failOnViolation, saved, working, planned, violations>>

HourPasses ==
    LET Older(ages) == [o \in Tables |-> IF ages[o] \in 0..MaxAge - 1 THEN ages[o] + 1
                                                                     ELSE ages[o]]
    IN /\ saved' = Older(saved) /\ working' = Older(working)
       /\ <<saved', working'>> # <<saved, working>>
       /\ UNCHANGED <<failOnViolation, planned, phase, violations>>

ConsistencyNext ==
    \/ StartConsistentRun \/ ValidateSync \/ CheckViolations
    \/ SaveConsistentState \/ RunDies \/ HourPasses
    \/ \E o \in Tables : SyncTable(o)

-----------------------------------------------------------------------------
(* Properties                                                              *)

\* The run looks at an object that has a state.
Watched(o) == ValidateSync /\ o \in planned /\ working[o] # NoState

\* An object that has a state and is not committed any more is reported as
\* stale, and in the end as critically so, for as long as runs get as far as
\* the validation with a plan for it, whether they save their state or not.
StalenessReported ==
    \A o \in Tables :
        /\ <>[][~SyncTable(o)]_consistencyVars
        /\ []<><<Watched(o)>>_consistencyVars
        => []<>(/\ Violation("staleness", {o}, "critical") \in violations
                /\ OverallStatus(violations) = "unhealthy")
=============================================================================
