----------------------------- MODULE DeltaTable -----------------------------
(***************************************************************************)
(* One Delta table on S3: its transaction log (storage/delta/log.go,       *)
(* table.go), the periodic checkpoints (checkpoint.go) and the writers     *)
(* that run Engine.syncObject against it.  A writer initialises the table, *)
(* uploads data files and commits them: it lists the log, takes the next   *)
(* version and PUTs the entry with no precondition, so S3 overwrites       *)
(* whatever is there.  A PUT that is reported as failed may have been      *)
(* applied; Commit is then retried by retry.Execute, which lists again.    *)
(*                                                                         *)
(* A log entry is a record of the data files its Add actions name; the one *)
(* CREATE TABLE writes at version 0 adds none.  No caller of Commit in the *)
(* repository emits Remove actions.                                        *)
(***************************************************************************)
EXTENDS Integers

CONSTANTS
    Writers,             \* concurrent runs that sync this object
    Files,               \* data file names; WriteRecords draws them from uuid.New
    NoEntry,             \* a log version or checkpoint that does not exist
    MaxVersion,          \* bound on the versions of the log
    MaxAttempts,         \* retryPolicy.MaxAttempts
    CheckpointInterval   \* checkpointInterval

ASSUME ConstantsAssumption ==
    /\ MaxVersion \in Nat
    /\ MaxAttempts \in Nat \ {0}
    /\ CheckpointInterval \in Nat \ {0}
    /\ NoEntry \notin [adds : SUBSET Files]

Version == 0..MaxVersion
Entry == [adds : SUBSET Files]
CreateTable == [adds |-> {}]     \* version 0: protocol and metadata only

VARIABLES
    log,          \* [Version -> Entry \cup {NoEntry}], the _delta_log/ directory
    checkpoint,   \* [Version -> Entry \cup {NoEntry}], the checkpoint files
    marker,       \* the version _last_checkpoint names, -1 if absent
    pc,           \* where each writer is in syncObject
    adds,         \* each writer's deltaActions
    latest,       \* what each writer last got from LatestVersion
    attempt,      \* each writer's attempt number inside retry.Execute
    used,         \* history: every file name ever drawn
    acked         \* history: the <<version, entry>> pairs Commit returned

store == <<log, checkpoint, marker>>
vars  == <<store, pc, adds, latest, attempt, used, acked>>

Init ==
    /\ log = [v \in Version |-> NoEntry]
    /\ checkpoint = [v \in Version |-> NoEntry]
    /\ marker = -1
    /\ pc = [w \in Writers |-> "idle"]
    /\ adds = [w \in Writers |-> {}]
    /\ latest = [w \in Writers |-> -1]
    /\ attempt = [w \in Writers |-> 1]
    /\ used = {}
    /\ acked = {}

-----------------------------------------------------------------------------
(* Reading the log                                                         *)

\* v is what LatestVersion returns: the highest version present, or -1.
IsLatest(v) ==
    /\ v >= 0 => log[v] # NoEntry
    /\ \A u \in Version : u > v => log[u] = NoEntry

\* Replaying versions 0..v; only Add actions occur, so it is a union.
Snapshot(v) == UNION {log[u].adds : u \in 0..v}

\* A mutant: the latest version is written again.
NewVersionStale(l) == l
NewVersion(l) == l + 1

-----------------------------------------------------------------------------
(* Control helpers                                                         *)

Goto(w, label) == pc' = [pc EXCEPT ![w] = label]

\* syncObject returns, or the process dies: the writer's locals are gone.
Leave(w) ==
    /\ Goto(w, "idle")
    /\ adds' = [adds EXCEPT ![w] = {}]
    /\ latest' = [latest EXCEPT ![w] = -1]
    /\ attempt' = [attempt EXCEPT ![w] = 1]

\* A mutant: the attempts are not counted.
RetryForever(w) ==
    \/ Goto(w, "list") /\ UNCHANGED <<adds, latest, attempt>>
    \/ Leave(w)

(* The error path of retry.Execute around commitOp: another attempt when   *)
(* the error is retryable and attempts are left, else the error reaches    *)
(* syncObject.  Which errors are retryable depends on their text.          *)
Retry(w) ==
    \/ /\ attempt[w] < MaxAttempts
       /\ attempt' = [attempt EXCEPT ![w] = @ + 1]
       /\ Goto(w, "list")
       /\ UNCHANGED <<adds, latest>>
    \/ Leave(w)

-----------------------------------------------------------------------------
(* Engine.syncObject                                                       *)

Begin(w) ==
    /\ pc[w] = "idle"
    /\ Goto(w, "initList")
    /\ UNCHANGED <<store, adds, latest, attempt, used, acked>>

\* Initialize: is there a version already?
InitList(w) ==
    /\ pc[w] = "initList"
    /\ \/ IsLatest(-1) /\ Goto(w, "initPut") /\ UNCHANGED <<adds, latest, attempt>>
       \/ ~IsLatest(-1) /\ Goto(w, "extract") /\ UNCHANGED <<adds, latest, attempt>>
       \/ Leave(w)                                     \* List failed
    /\ UNCHANGED <<store, used, acked>>

\* Initialize: write version 0, whatever is there by now.
InitPut(w) ==
    /\ pc[w] = "initPut"
    /\ \/ /\ log' = [log EXCEPT ![0] = CreateTable]
          /\ \/ Goto(w, "extract") /\ UNCHANGED <<adds, latest, attempt>>
             \/ Leave(w)                               \* applied, reported as failed
       \/ Leave(w) /\ UNCHANGED log                    \* not applied
    /\ UNCHANGED <<checkpoint, marker, used, acked>>

\* A mutant: file names drawn from a counter that restarts instead of a uuid.
WriteFilesReusing(w) ==
    /\ pc[w] = "extract"
    /\ \E S \in (SUBSET Files) \ {{}} :
         /\ adds' = [adds EXCEPT ![w] = S]
         /\ used' = used \cup S
    /\ Goto(w, "list")
    /\ UNCHANGED <<store, latest, attempt, acked>>

\* Extraction: one uploaded file, freshly named, per non-empty batch.
WriteFiles(w) ==
    /\ pc[w] = "extract"
    /\ \/ \E S \in (SUBSET (Files \ used)) \ {{}} :
            /\ adds' = [adds EXCEPT ![w] = S]
            /\ used' = used \cup S
            /\ Goto(w, "list")
            /\ UNCHANGED <<latest, attempt>>
       \/ Leave(w) /\ UNCHANGED used                   \* no records, or an error
    /\ UNCHANGED <<store, acked>>

-----------------------------------------------------------------------------
(* DeltaTable.Commit                                                       *)

CommitList(w) ==
    /\ pc[w] = "list"
    /\ \/ \E v \in -1..(MaxVersion - 1) :
            /\ IsLatest(v)
            /\ latest' = [latest EXCEPT ![w] = v]
            /\ Goto(w, "put")
            /\ UNCHANGED <<adds, attempt>>
       \/ Retry(w)                                     \* List failed
    /\ UNCHANGED <<store, used, acked>>

CommitPut(w) ==
    LET v == NewVersion(latest[w]) IN
    /\ pc[w] = "put"
    /\ \/ /\ log' = [log EXCEPT ![v] = [adds |-> adds[w]]]
          /\ \/ /\ acked' = acked \cup {<<v, [adds |-> adds[w]]>>}
                /\ Goto(w, "maybeCheckpoint")
                /\ UNCHANGED <<adds, latest, attempt>>
             \/ Retry(w) /\ UNCHANGED acked            \* applied, reported as failed
       \/ Retry(w) /\ UNCHANGED <<log, acked>>         \* not applied
    /\ UNCHANGED <<checkpoint, marker, used>>

-----------------------------------------------------------------------------
(* LegacyCheckpointManager.MaybeCheckpoint; every error in it is logged    *)
(* and dropped by syncObject.                                              *)

DueForCheckpoint(v) == v # 0 /\ v % CheckpointInterval = 0

MaybeCheckpoint(w) ==
    LET v == NewVersion(latest[w]) IN
    /\ pc[w] = "maybeCheckpoint"
    /\ \/ /\ DueForCheckpoint(v)
          /\ Goto(w, "upload")
          /\ UNCHANGED <<adds, latest, attempt>>
       \/ ~DueForCheckpoint(v) /\ Leave(w)
    /\ UNCHANGED <<store, used, acked>>

\* A mutant: the marker is written first and the checkpoint it names after it.
UploadCheckpointMarkerFirst(w) ==
    LET v == NewVersion(latest[w]) IN
    /\ pc[w] = "upload"
    /\ marker' = v
    /\ Goto(w, "marker")
    /\ UNCHANGED <<log, checkpoint, adds, latest, attempt, used, acked>>

\* Snapshot(version), then the upload of <version>.checkpoint.json.
UploadCheckpoint(w) ==
    LET v == NewVersion(latest[w]) IN
    /\ pc[w] = "upload"
    /\ \/ /\ checkpoint' = [checkpoint EXCEPT ![v] = [adds |-> Snapshot(v)]]
          /\ \/ Goto(w, "marker") /\ UNCHANGED <<adds, latest, attempt>>
             \/ Leave(w)                               \* applied, reported as failed
       \/ Leave(w) /\ UNCHANGED checkpoint             \* a read or the upload failed
    /\ UNCHANGED <<log, marker, used, acked>>

\* PutJSON of _last_checkpoint.
WriteMarker(w) ==
    /\ pc[w] = "marker"
    /\ marker' \in {marker, NewVersion(latest[w])}
    /\ Leave(w)
    /\ UNCHANGED <<log, checkpoint, used, acked>>

-----------------------------------------------------------------------------
(* The process running the writer dies between two steps.                  *)
Crash(w) ==
    /\ pc[w] # "idle"
    /\ Leave(w)
    /\ UNCHANGED <<store, used, acked>>

Step(w) ==
    \/ InitList(w) \/ InitPut(w) \/ WriteFiles(w)
    \/ CommitList(w) \/ CommitPut(w)
    \/ MaybeCheckpoint(w) \/ UploadCheckpoint(w) \/ WriteMarker(w)

Next == \E w \in Writers : Begin(w) \/ Step(w) \/ Crash(w)

Spec == Init /\ [][Next]_vars

(* A call that has been started is executed to its end by the Go runtime;  *)
(* nothing obliges a schedule to start one, or the process to stay alive.  *)
Fairness == \A w \in Writers : WF_vars(Step(w))

FairSpec == Spec /\ Fairness

-----------------------------------------------------------------------------
(* Properties                                                              *)

Labels == {"idle", "initList", "initPut", "extract", "list", "put",
           "maybeCheckpoint", "upload", "marker"}

(* Every variable has its type; a writer never makes more attempts than    *)
(* its retry policy allows.                                                *)
TypeOK ==
    /\ log \in [Version -> Entry \cup {NoEntry}]
    /\ checkpoint \in [Version -> Entry \cup {NoEntry}]
    /\ marker \in -1..MaxVersion
    /\ pc \in [Writers -> Labels]
    /\ adds \in [Writers -> SUBSET Files]
    /\ latest \in [Writers -> -1..(MaxVersion - 1)]
    /\ attempt \in [Writers -> 1..MaxAttempts]
    /\ used \subseteq Files
    /\ acked \subseteq (Version \X Entry)

(* The versions in the log are 0..n with no hole, however many writers     *)
(* there are and whatever fails: Snapshot, which reads 0..v one by one and *)
(* returns an error at the first missing entry, always finds them all.     *)
NoGaps ==
    \A v \in Version : log[v] # NoEntry =>
        \A u \in Version : u < v => log[u] # NoEntry

(* Version 0 always describes the table: whoever initialises it, and       *)
(* however late a second initialisation lands, no data commit takes        *)
(* version 0 and Snapshot finds protocol and metadata there.               *)
CreateTableKept == (\E v \in Version : log[v] # NoEntry) => log[0] = CreateTable

(* A version that Commit reported to its caller holds that caller's files  *)
(* ever after: later commits, initialisations, retries of ambiguous        *)
(* uploads and restarts do not take them away.                             *)
AckedDurable == \A a \in acked : log[a[1]] = a[2]

(* An entry, once written, is never replaced: reading the table at version *)
(* v ("time travel", Snapshot with a version) gives the same answer for    *)
(* ever.                                                                   *)
Immutable == \A v \in Version : log[v] # NoEntry => log'[v] = log[v]
EntriesImmutable == [][Immutable]_vars

(* Two versions that share a data file are the same commit twice: the      *)
(* retry of an upload that was applied but reported as failed.  A replay   *)
(* then adds the same paths again, and the table's contents are unchanged. *)
CopiesAreExact ==
    \A u, v \in Version :
        log[u] # NoEntry /\ log[v] # NoEntry /\ log[u].adds \cap log[v].adds # {}
            => log[u] = log[v]

(* _last_checkpoint never names a checkpoint that is missing, incomplete   *)
(* or different from a replay of the log, at whichever step the process    *)
(* stopped.                                                                *)
MarkerSound ==
    marker >= 0 => /\ checkpoint[marker] # NoEntry
                   /\ \A u \in 0..marker : log[u] # NoEntry
                   /\ checkpoint[marker].adds = Snapshot(marker)

(* A sync that was started returns: the retry loop around commitOp ends.   *)
SyncReturns == \A w \in Writers : pc[w] # "idle" ~> pc[w] = "idle"

(* The table implements the append-only log of AppendOnlyLog.              *)
Abstract == INSTANCE AppendOnlyLog WITH entries <- log
ImplementsAppendOnlyLog == Abstract!Spec
=============================================================================
