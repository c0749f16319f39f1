--------------------------- MODULE StateMigration ---------------------------
(***************************************************************************)
(* The state file of a source and the releases that read and write it.     *)
(* Release 0 uses StateStore, as the engine of this commit does, and       *)
(* writes the state as it is; release r > 0 uses MigratableStateStore, for *)
(* CurrentSyncStateVersion r and with the migrations 1 to r registered,    *)
(* and wraps the state with its version.  At this commit r is 1; later     *)
(* releases are what the migration engine is there for.                    *)
(*                                                                         *)
(* A state has a shape, the version whose fields it has; a state as it is  *)
(* has shape 1.  "panics": the engine assigned to a nil map.               *)
(***************************************************************************)
EXTENDS Integers, FiniteSets

CONSTANTS
    Synced,        \* the objects that may get a state
    MaxRelease     \* bound on the releases

ASSUME MigrationAssumption == MaxRelease \in Nat

NoFile == [wrapped |-> FALSE, version |-> 0, shape |-> 0, objects |-> {}]
NoWork == [source |-> FALSE, nil |-> FALSE, shape |-> 0, objects |-> {}]

VARIABLES
    release,     \* the release that is deployed
    mode,        \* config.ValidationMode: "strict", "warn" or "skip"
    file,        \* the state file: [wrapped, version, shape, objects]
    running,     \* "idle", "syncing", "failed" or "panics": the last run
    work,        \* its state: [source, nil, shape, objects]
    misread      \* history: the last download failed

migrationVars == <<release, mode, file, running, work, misread>>

MigrationInit ==
    /\ release \in 0..MaxRelease /\ mode \in {"strict", "warn", "skip"}
    /\ file = NoFile /\ running = "idle" /\ work = NoWork /\ misread = FALSE

-----------------------------------------------------------------------------
(* Versions and migrations.                                                *)

IsVersioned == file.wrapped /\ file.version > 0

GetCurrentVersion == IF IsVersioned THEN file.version ELSE 1

\* The versions whose migrations lead from one to the other.
Path(from, to) == IF from < to THEN from + 1..to ELSE to + 1..from

Registered(versions) == versions \subseteq 1..release

\* A mutant: the last migration of a forward path is left out.
MigrateShort(shape, from, to) == IF from < to THEN shape + (to - from) - 1 ELSE to

\* Each migration on the path brings the shape one version on, or back.
Migrate(shape, from, to) == shape + (to - from)

\* The migrated data is a map of JSON values, never the registered type.
ValidateSchema == FALSE

\* MigrateData succeeds: the backup is uploaded, every migration is there,
\* and the result passes the validation in strict mode.
MigrateData(from) == Registered(Path(from, release)) /\ (mode = "strict" => ValidateSchema)

-----------------------------------------------------------------------------
(* A run: Load, the commits, Save.                                         *)

Fresh == [source |-> TRUE, nil |-> FALSE,
          shape |-> IF release = 0 THEN 1 ELSE release, objects |-> {}]

\* The state of a file as release 0 reads it: a wrapped one has none of the
\* fields it looks for, and leaves them empty.
Unwrapped == IF file.wrapped THEN [NoWork EXCEPT !.nil = TRUE]
             ELSE [source |-> TRUE, nil |-> FALSE, shape |-> 1, objects |-> file.objects]

Loaded(shape) == [source |-> TRUE, nil |-> FALSE, shape |-> shape, objects |-> file.objects]

\* There is no file, or the download fails: a state of nothing.
LoadFresh ==
    /\ running # "syncing" /\ running' = "syncing"
    /\ work' = Fresh /\ misread' = (file # NoFile)
    /\ UNCHANGED <<release, mode, file>>

LoadPlain ==
    /\ running # "syncing" /\ running' = "syncing"
    /\ release = 0 /\ file # NoFile
    /\ work' = Unwrapped /\ misread' = FALSE
    /\ UNCHANGED <<release, mode, file>>

\* The backup may fail as well; the file itself is left as it is.
LoadMigrated ==
    /\ running # "syncing" /\ release > 0 /\ file # NoFile
    /\ IF GetCurrentVersion = release
         THEN running' = "syncing" /\ work' = Loaded(file.shape)
         ELSE \/ /\ MigrateData(GetCurrentVersion)
                 /\ running' = "syncing"
                 /\ work' = Loaded(Migrate(file.shape, GetCurrentVersion, release))
              \/ running' = "failed" /\ work' = NoWork
    /\ misread' = FALSE
    /\ UNCHANGED <<release, mode, file>>

\* The state of an object that has committed.
StoreObject(o) ==
    /\ running = "syncing"
    /\ IF work.nil THEN running' = "panics" /\ work' = NoWork
       ELSE work' = [work EXCEPT !.objects = @ \cup {o}] /\ running' = running
    /\ UNCHANGED <<release, mode, file, misread>>

\* Without a source in the state the key is one of no source.  The save may
\* fail, and may be reported as failed when it is done.
SaveState ==
    /\ running = "syncing" /\ running' \in {"idle", "failed"}
    /\ \/ /\ work.source
          /\ file' = [wrapped |-> release > 0, version |-> release,
                      shape |-> work.shape, objects |-> work.objects]
       \/ (~work.source \/ running' = "failed") /\ file' = file
    /\ work' = NoWork
    /\ UNCHANGED <<release, mode, misread>>

\* Another release, or another configuration, between two runs.
Deploy ==
    /\ running # "syncing"
    /\ release' \in 0..MaxRelease /\ mode' \in {"strict", "warn", "skip"}
    /\ UNCHANGED <<file, running, work, misread>>

MigrationNext ==
    \/ LoadFresh \/ LoadPlain \/ LoadMigrated \/ SaveState \/ Deploy
    \/ \E o \in Synced : StoreObject(o)

-----------------------------------------------------------------------------
(* Properties                                                              *)

\* Whatever releases follow one another, forwards and back: what the state
\* file knows of an object is forgotten only by a run that could not read
\* it, and a state has the shape of the version it says it has.
StateSurvivesReleases ==
    /\ [][misread \/ file.objects \subseteq file'.objects]_migrationVars
    /\ [](file # NoFile => file.shape = IF file.wrapped THEN file.version ELSE 1)

\* Running a release again gets a source out of a failed load.
LoadsAgain == running # "failed"
=============================================================================
