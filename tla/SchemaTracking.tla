--------------------------- MODULE SchemaTracking ---------------------------
(***************************************************************************)
(* What Engine.Run does about the schema of one object: Planner.Plan       *)
(* compares the described schema with the one in the state file            *)
(* (planner.go, schema/evolution.go), syncObject writes files with it,     *)
(* stores it with its version and puts it in the schema history            *)
(* (engine.go), and the state is saved at the end of the run (state.go).   *)
(*                                                                         *)
(* A schema is the set of its fields, a field being a name with a type:    *)
(* two schemas have the same hash iff they are equal, and going from one   *)
(* to another is breaking iff some field is not kept as it is.             *)
(***************************************************************************)
EXTENDS Naturals, Sequences

CONSTANTS
    Evolution,     \* the schemas the source goes through, one after another
    None,
    MaxCommits,    \* bound on the commits with data in the table's log
    LoadMayFail,   \* GetJSON of the state file may return an error
    MayStop        \* the process may crash; a write may fail, or be reported
                   \* as failed although it was applied

Schemas == {Evolution[i] : i \in 1..Len(Evolution)}
Versions == 1..(Len(Evolution) + MaxCommits)
ObjState == [schema : Schemas, version : Versions]

ASSUME SchemaAssumption ==
    /\ Len(Evolution) \in Nat \ {0}
    /\ None \notin Schemas \cup ObjState
    /\ MaxCommits \in Nat
    /\ LoadMayFail \in BOOLEAN /\ MayStop \in BOOLEAN

VARIABLES
    current,    \* the source's schema is Evolution[current]
    metadata,   \* the schema in the metaData action of version 0, or None
    log,        \* the data commits: the mode and the schema of each
    saved,      \* the object's state in sync_state.json, or None
    history,    \* [Versions -> schema or None], schema_history/{object}/
    pc,         \* where the run is
    state,      \* the object's state in memory
    plan,       \* the ObjectPlan
    strayed     \* history: a run ended and left the schema of the newest
                \* files unsaved

s3   == <<metadata, log, saved, history>>
vars == <<current, s3, pc, state, plan, strayed>>

NoPlan == [mode |-> "skip", schema |-> None, version |-> 0, changed |-> FALSE]

Init ==
    /\ current = 1
    /\ metadata = None
    /\ log = <<>>
    /\ saved = None
    /\ history = [v \in Versions |-> None]
    /\ pc = "idle"
    /\ state = None
    /\ plan = NoPlan
    /\ strayed = FALSE

Evolve ==
    /\ current < Len(Evolution)
    /\ current' = current + 1
    /\ UNCHANGED <<s3, pc, state, plan, strayed>>

-----------------------------------------------------------------------------

\* A mutant: only added fields call for a new extraction.
IsBreakingReversed(old, new) == ~(new \subseteq old)

\* Removed fields and changed types, not added fields.
IsBreaking(old, new) == ~(old \subseteq new)

\* A mutant: a changed schema keeps its version.
NextVersionSame(objState, schema) == objState.version

FirstVersion == 1
NextVersion(objState, schema) ==
    objState.version + IF schema # objState.schema THEN 1 ELSE 0

(* Planner.Plan.  Without prior state the schema does not count as changed.*)
Plan(objState, schema) ==
    IF objState = None
    THEN [mode |-> "full", schema |-> schema, version |-> FirstVersion, changed |-> FALSE]
    ELSE [mode |-> IF IsBreaking(objState.schema, schema) THEN "full" ELSE "incremental",
          schema |-> schema,
          version |-> NextVersion(objState, schema),
          changed |-> schema # objState.schema]

Describes(objState, commit) == objState # None /\ objState.schema = commit.schema

Ended ==
    /\ pc' = "idle"
    /\ state' = None
    /\ plan' = NoPlan
    /\ strayed' = (strayed \/ (log # <<>> /\ ~Describes(saved', log[Len(log)])))

\* Any error of GetJSON makes Load return an empty state.
LoadAndPlan ==
    /\ pc = "idle"
    /\ pc' = "initialize"
    /\ \/ state' = saved
       \/ LoadMayFail /\ state' = None
    /\ plan' = Plan(state', Evolution[current])
    /\ UNCHANGED <<current, s3, strayed>>

\* The metaData action is written with version 0 and never again.  When the
\* table cannot be initialised or read the object fails; the run goes on.
Initialize ==
    /\ pc = "initialize"
    /\ \/ /\ metadata' = IF metadata = None THEN plan.schema ELSE metadata
          /\ pc' = "commit"
       \/ UNCHANGED metadata /\ pc' = "save"
    /\ UNCHANGED <<current, log, saved, history, state, plan, strayed>>

(* Extract, write files with the plan's schema and commit their Adds; the  *)
(* log keeps what it had.  No records, or any error: nothing is updated.   *)
Commit ==
    /\ pc = "commit"
    /\ \/ /\ Len(log) < MaxCommits
          /\ log' = Append(log, [mode |-> plan.mode, schema |-> plan.schema])
          /\ \/ pc' = "update"
             \/ MayStop /\ pc' = "save"         \* applied, reported as failed
       \/ UNCHANGED log /\ pc' = "save"
    /\ UNCHANGED <<current, metadata, saved, history, state, plan, strayed>>

UpdateState ==
    /\ pc = "update"
    /\ state' = [schema |-> plan.schema, version |-> plan.version]
    /\ pc' = IF plan.changed THEN "history" ELSE "save"
    /\ UNCHANGED <<current, s3, plan, strayed>>

\* SaveSchemaVersion; its error is logged and dropped.
SaveSchemaVersion ==
    /\ pc = "history"
    /\ \/ history' = [history EXCEPT ![plan.version] = plan.schema]
       \/ MayStop /\ UNCHANGED history
    /\ pc' = "save"
    /\ UNCHANGED <<current, metadata, log, saved, state, plan, strayed>>

Save ==
    /\ pc = "save"
    /\ \/ saved' = state
       \/ MayStop /\ UNCHANGED saved
    /\ Ended
    /\ UNCHANGED <<current, metadata, log, history>>

Crash ==
    /\ MayStop
    /\ pc # "idle"
    /\ UNCHANGED <<current, s3>>
    /\ Ended

Next ==
    \/ Evolve
    \/ LoadAndPlan \/ Initialize \/ Commit \/ UpdateState \/ SaveSchemaVersion \/ Save
    \/ Crash

Spec == Init /\ [][Next]_vars

-----------------------------------------------------------------------------
(* Properties                                                              *)

Modes == {"full", "incremental"}
CommitType == [mode : Modes, schema : Schemas]
PlanType == [mode : Modes, schema : Schemas, version : Nat, changed : BOOLEAN]

(* Every variable has its type.                                            *)
TypeOK ==
    /\ current \in 1..Len(Evolution)
    /\ metadata \in Schemas \cup {None}
    /\ log \in Seq(CommitType) /\ Len(log) <= MaxCommits
    /\ saved \in ObjState \cup {None}
    /\ history \in [Versions -> Schemas \cup {None}]
    /\ pc \in {"idle", "initialize", "commit", "update", "history", "save"}
    /\ state \in ObjState \cup {None}
    /\ plan \in PlanType \cup {NoPlan}
    /\ strayed \in BOOLEAN

(* The saved version moves with the saved schema: it goes up by one when   *)
(* the schema changes and stays when it does not, also when runs crash     *)
(* half-way or commits are reported wrongly.                               *)
VersionFollowsSchema ==
    [][saved # None /\ saved' # saved =>
        saved' # None /\ saved'.version = saved.version + 1 /\ saved'.schema # saved.schema]_vars

Compatible ==
    \A i \in 2..Len(log) :
        log[i].mode = "incremental" => log[i - 1].schema \subseteq log[i].schema

(* An incremental commit keeps every field of the files committed before   *)
(* it, back to the last full sync, so that they can be read together:      *)
(* whatever crashes or fails, as long as each run that ended left a saved  *)
(* schema that is that of the newest files.                                *)
FilesCompatible == strayed \/ Compatible

(* "Action: Full resync. All data is re-extracted and new Parquet files    *)
(* are written" (docs/schema-evolution.md:118): whatever crashes or fails, *)
(* a breaking change is never committed incrementally.                     *)
BreakingChangesResync == Compatible

(* "Schema versions are monotonically increasing integers"                 *)
(* (docs/schema-evolution.md:122).                                         *)
VersionsIncrease ==
    [][saved # None /\ saved' # None => saved'.version >= saved.version]_vars

(* "This provides an audit trail of all schema changes over time"          *)
(* (docs/schema-evolution.md:140): a version that is in the history is not *)
(* replaced by another schema.                                             *)
AuditTrailKept ==
    [][\A v \in Versions : history[v] # None => history'[v] = history[v]]_vars

(* ... and every version up to the current one has its schema there        *)
(* (docs/schema-evolution.md:135-137 lists v1, v2 and v3).                 *)
AuditTrailComplete ==
    saved # None => \A v \in 1..saved.version : history[v] # None

(* "When the schema changes, the Delta table's metaData action is updated  *)
(* with the new schema string" (docs/schema-evolution.md:144).             *)
MetadataFollowsSchema == saved # None => saved.schema = metadata

(* "Append-only with logical removes for full resyncs"                     *)
(* (docs/delta-protocol.md:292): the files a full sync replaces are gone   *)
(* from the table.                                                         *)
FullSyncReplaces == \A i \in 1..Len(log) : log[i].mode = "full" => i = 1
=============================================================================
