------------------------- MODULE CheckpointManager -------------------------
(***************************************************************************)
(* A table with a checkpoint manager of its own                            *)
(* (NewDeltaTableWithCheckpoints): every commit may be followed by a       *)
(* checkpoint, at a fixed or an adaptive frequency, and an operator may    *)
(* make one of any version at any time.  The writer and the operator share *)
(* the log, the checkpoint files and the marker in S3, and no lock.        *)
(*                                                                         *)
(* A commit is a sequence of actions that add and remove files.  Protocol  *)
(* and metadata are only ever written together, by Initialize: "described" *)
(* stands for both.  Compaction is a placeholder that returns the actions  *)
(* it is given, and is left out.                                           *)
(***************************************************************************)
EXTENDS Integers, Sequences, SequencesExt

CONSTANTS
    Commits,         \* what a commit may hold: sequences of [adds, path]
    SizeOf,          \* path -> Add.Size
    UnitsPerMB,      \* the units of SizeOf in a megabyte
    Stored,          \* the paths that are keys of the store as they stand
    Frequency,       \* config.Frequency
    SizeThreshold,   \* config.SizeThresholdMB
    ManyVersions,    \* versions that are slow to replay: 50
    MaxCheckpoints,  \* config.MaxCheckpoints
    Attempts,        \* MaxAttempts of the table's retry policy: 3
    MaxVersion,      \* bound on the versions of the log
    MaxRequests      \* bound on the operator's requests

ASSUME CheckpointAssumption ==
    /\ Frequency \in Nat \ {0} /\ MaxCheckpoints \in Nat \ {0}
    /\ UnitsPerMB \in Nat \ {0} /\ Attempts \in Nat \ {0} /\ MaxVersion \in Nat
    /\ Commits \subseteq Seq([adds : BOOLEAN, path : DOMAIN SizeOf])

Actors == {"writer", "operator"}
Unmarked == -2     \* no _last_checkpoint
NoFiles == [described |-> FALSE, files |-> {}]

Idle == [at |-> "idle", commit |-> <<>>, attempt |-> 1, version |-> 0,
         actions |-> NoFiles]

VARIABLES
    adaptive,    \* config.AdaptiveMode
    log,         \* the log: version v is log[v + 1]
    checkpoints, \* version -> content of its checkpoint file, those there are
    marker,      \* the version in _last_checkpoint, or Unmarked
    job,         \* actor -> [at, commit, attempt, version, actions]: its call
    requests,    \* the operator's requests so far, for MaxRequests
    basis,       \* the marker the writer's last decision was based on
    sound,       \* history: no request of the writer has failed since its last
                 \* checkpoint; in adaptive mode, since its last commit began
    expired      \* history: versions cleanup has reported as deleted

checkpointVars == <<adaptive, log, checkpoints, marker, job, requests, basis,
                    sound, expired>>

CheckpointInit ==
    /\ adaptive \in BOOLEAN
    /\ log = <<>> /\ checkpoints = <<>> /\ marker = Unmarked
    /\ job = [a \in Actors |-> Idle] /\ requests = 0
    /\ basis = Unmarked /\ sound = TRUE /\ expired = {}

LatestVersion == Len(log) - 1

-----------------------------------------------------------------------------
(* The operators of the code.                                              *)

\* A mutant: Remove actions are not replayed.
ReplayAdds(files, action) == IF action.adds THEN files \cup {action.path} ELSE files

Replay(files, action) ==
    IF action.adds THEN files \cup {action.path} ELSE files \ {action.path}

\* The state of the table at version v, which must be there.
Snapshot(v) ==
    LET entries == SubSeq(log, 1, v + 1)
    IN [described |-> \E i \in DOMAIN entries : entries[i].described,
        files |-> FoldLeft(Replay, {}, FlattenSeq([i \in DOMAIN entries |->
                                                       entries[i].actions]))]

\* The versions in missed cannot be read, and are skipped.
EstimateDataVolume(from, to, missed) ==
    LET Size(v) ==
          FoldSeq(LAMBDA action, sum : sum + IF action.adds THEN SizeOf[action.path] ELSE 0,
                  0, log[v + 1].actions)
    IN FoldSet(LAMBDA v, sum : sum + Size(v), 0,
               {v \in 0..to : v > from} \ missed) \div UnitsPerMB

\* A mutant: one version late.
ShouldCreateLate(v, last, missed) ==
    IF ~adaptive \/ last = Unmarked
      THEN v % Frequency = 0
      ELSE \/ v - last > 2 * Frequency
           \/ /\ v - last >= Frequency
              /\ \/ EstimateDataVolume(last, v, missed) >= SizeThreshold
                 \/ v - last >= ManyVersions

\* last is the version of the marker, as far as it could be read.
ShouldCreate(v, last, missed) ==
    IF ~adaptive \/ last = Unmarked
      THEN v % Frequency = 0
      ELSE \/ v - last >= 2 * Frequency
           \/ /\ v - last >= Frequency
              /\ \/ EstimateDataVolume(last, v, missed) >= SizeThreshold
                 \/ v - last >= ManyVersions

\* What the validator has against a checkpoint by itself, compared with a
\* snapshot, and compared with the store.  Paths are looked up as they are.
StructureErrors(content) == IF content.described THEN {} ELSE {"protocol", "metadata"}
SnapshotErrors(content, snap) == SymDiff(content.files, snap.files)
IntegrityErrors(content) == content.files \ Stored

\* The validation right after a checkpoint of v >= 0 is made.
Validates(v) ==
    StructureErrors(checkpoints[v]) \cup SnapshotErrors(checkpoints[v], Snapshot(v))
        \cup IntegrityErrors(checkpoints[v]) = {}

\* Recovery accepts a checkpoint without errors of structure.
Recovers(v) == v \in DOMAIN checkpoints /\ StructureErrors(checkpoints[v]) = {}

\* The search asks whether the structure could be validated, and not what
\* came of it: it takes the newest checkpoint there is, but for those in
\* unread, whose request failed or whose file did not parse.
FindValidCheckpoint(max, unread) ==
    Max({v \in DOMAIN checkpoints \ unread : 0 <= v /\ v <= max} \cup {-1})

NewerThan(v) == {w \in DOMAIN checkpoints : w > v}

\* The newest MaxCheckpoints are kept, and the one just made; a single one is.
SelectForDeletion(current) ==
    {v \in DOMAIN checkpoints \ {current} : Cardinality(NewerThan(v)) >= MaxCheckpoints}

-----------------------------------------------------------------------------
(* The writer: Initialize, and Commit with its retries.                    *)

Initialize ==
    /\ job["writer"] = Idle /\ log = <<>>
    /\ log' = <<[described |-> TRUE, actions |-> <<>>]>>
    /\ UNCHANGED <<adaptive, checkpoints, marker, job, requests, basis, sound, expired>>

BeginCommit ==
    /\ job["writer"] = Idle /\ Len(log) <= MaxVersion
    /\ \E c \in Commits :
          job' = [job EXCEPT !["writer"].at = "commit", !["writer"].commit = c]
    /\ sound' = (sound \/ adaptive) /\ basis' = Unmarked
    /\ UNCHANGED <<adaptive, log, checkpoints, marker, requests, expired>>

\* The retry policy or the circuit breaker may end the commit.
Retry ==
    /\ sound' = FALSE
    /\ \/ job' = [job EXCEPT !["writer"] = Idle]
       \/ job["writer"].attempt < Attempts
          /\ job' = [job EXCEPT !["writer"].attempt = @ + 1]

\* LatestVersion and WriteVersion: not written, written and reported as
\* failed, or written.
WriteVersion ==
    /\ job["writer"].at = "commit"
    /\ \/ Retry /\ log' = log
       \/ /\ Len(log) <= MaxVersion
          /\ log' = Append(log, [described |-> FALSE, actions |-> job["writer"].commit])
          /\ \/ Retry
             \/ /\ job' = [job EXCEPT !["writer"] =
                                [Idle EXCEPT !.at = "decide", !.version = Len(log)]]
                /\ UNCHANGED sound
    /\ UNCHANGED <<adaptive, checkpoints, marker, requests, basis, expired>>

Goes(a, step) == job' = [job EXCEPT ![a] = IF step = "idle" THEN Idle ELSE [@ EXCEPT !.at = step]]

\* A request fails: the operator sees the error, and Commit only logs it.
Fails(a) ==
    /\ Goes(a, "idle")
    /\ sound' = (sound /\ a # "writer")

MaybeCheckpoint ==
    LET v == job["writer"].version
    IN /\ job["writer"].at = "decide"
       /\ IF adaptive /\ v # 0
            THEN \E read \in BOOLEAN :
                    /\ basis' = IF read THEN marker ELSE Unmarked
                    /\ sound' = (sound /\ read)
            ELSE basis' = Unmarked /\ sound' = sound
       /\ \E missed \in SUBSET (0..v) :
             Goes("writer", IF v # 0 /\ ShouldCreate(v, basis', missed)
                            THEN "snapshot" ELSE "idle")
       /\ UNCHANGED <<adaptive, log, checkpoints, marker, requests, expired>>

-----------------------------------------------------------------------------
(* CreateCheckpoint, for the writer and for the operator, who may ask for  *)
(* any version: -1 is the latest to Snapshot, and a version as any other   *)
(* to the rest.                                                            *)

Request(v) ==
    /\ job["operator"] = Idle /\ requests < MaxRequests
    /\ requests' = requests + 1
    /\ job' = [job EXCEPT !["operator"].at = "snapshot", !["operator"].version = v]
    /\ UNCHANGED <<adaptive, log, checkpoints, marker, basis, sound, expired>>

TakeSnapshot(a) ==
    LET v == IF job[a].version = -1 THEN LatestVersion ELSE job[a].version
    IN /\ job[a].at = "snapshot"
       /\ \/ /\ v \in 0..LatestVersion
             /\ job' = [job EXCEPT ![a].at = "upload", ![a].actions = Snapshot(v)]
             /\ UNCHANGED sound
          \/ Fails(a)
       /\ UNCHANGED <<adaptive, log, checkpoints, marker, requests, basis, expired>>

\* The validation that may follow is only logged.
Upload(a) ==
    LET v == job[a].version
        written == [w \in DOMAIN checkpoints \cup {v} |->
                        IF w = v THEN job[a].actions ELSE checkpoints[w]]
    IN /\ job[a].at = "upload"
       /\ \/ /\ checkpoints' = written /\ Goes(a, "mark")
             /\ sound' = (sound \/ (~adaptive /\ a = "writer"))
          \/ checkpoints' \in {checkpoints, written} /\ Fails(a)
       /\ UNCHANGED <<adaptive, log, marker, requests, basis, expired>>

WriteMarker(a) ==
    /\ job[a].at = "mark"
    /\ \/ marker' = job[a].version /\ Goes(a, "cleanup") /\ sound' = sound
       \/ marker' \in {marker, job[a].version} /\ Fails(a)
    /\ UNCHANGED <<adaptive, log, checkpoints, requests, basis, expired>>

\* deleteCheckpointFile deletes nothing and reports success.
CleanupOldCheckpoints(a) ==
    /\ job[a].at = "cleanup" /\ Goes(a, "idle")
    /\ expired' \in {expired, expired \cup SelectForDeletion(job[a].version)}
    /\ UNCHANGED <<adaptive, log, checkpoints, marker, requests, basis, sound>>

\* The process of an actor dies.
Crash(a) == job[a] # Idle /\ Fails(a)
            /\ UNCHANGED <<adaptive, log, checkpoints, marker, requests, basis, expired>>

CheckpointNext ==
    \/ Initialize \/ BeginCommit \/ WriteVersion \/ MaybeCheckpoint
    \/ \E v \in -1..MaxVersion : Request(v)
    \/ \E a \in Actors :
          \/ TakeSnapshot(a) \/ Upload(a) \/ WriteMarker(a)
          \/ CleanupOldCheckpoints(a) \/ Crash(a)

-----------------------------------------------------------------------------
(* Properties                                                              *)

\* The files that are in the table at v: the last action on them adds them.
Active(v) ==
    LET all == FlattenSeq([i \in 1..v + 1 |-> log[i].actions])
    IN {path \in {all[i].path : i \in DOMAIN all} :
           \E i \in DOMAIN all :
              all[i].path = path /\ all[i].adds
              /\ \A j \in i + 1..Len(all) : all[j].path # path}

\* What is left to replay after the newest checkpoint stays below twice the
\* frequency in adaptive mode, as soon as there is a marker and a commit
\* went through without a failure, whatever has failed before it and
\* whichever version the operator has marked.  At a fixed frequency it
\* stays below that frequency until a request or the process fails.
BacklogBounded ==
    LET newest == Max(DOMAIN checkpoints \cup {0})
    IN job["writer"] = Idle /\ log # <<>> =>
          /\ adaptive /\ basis # Unmarked /\ sound => LatestVersion - newest < 2 * Frequency
          /\ ~adaptive /\ sound => LatestVersion - newest < Frequency

\* Whichever checkpoints cannot be read, the one that the search finds is
\* the table: it has the files of its version, and recovery takes it unless
\* the table was never described.  The cleanup has not declared it deleted,
\* unless MaxCheckpoints newer ones, as many as it keeps, cannot be read.
\* Recovery takes all that the validator passes.
CheckpointsRecover ==
    /\ \A unread \in SUBSET DOMAIN checkpoints :
          LET found == FindValidCheckpoint(LatestVersion, unread)
          IN found >= 0 =>
                /\ checkpoints[found].files = Active(found)
                /\ log[1].described => Recovers(found)
                /\ found \in expired =>
                      Cardinality(unread \cap NewerThan(found)) >= MaxCheckpoints
    /\ \A v \in DOMAIN checkpoints : v >= 0 /\ Validates(v) => Recovers(v)
=============================================================================
