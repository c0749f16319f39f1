---------------------------- MODULE BackupEngine ----------------------------
(***************************************************************************)
(* Backup and restore of one table (backup/backup.go, backup/restore.go,   *)
(* backup/validator.go).  One CreateBackup runs at a time, under the       *)
(* engine's mutex; deletes, validations and restores take no part in that  *)
(* mutex and meet a backup that is being written.                          *)
(*                                                                         *)
(* The engine opens the table with the log prefix "s/t/_delta_log", with   *)
(* no "/" at its end.  The log's List of that prefix finds the entries     *)
(* "_delta_log/N.json", the ones the sync engine writes; its ReadVersion   *)
(* downloads "_delta_logN.json", the ones a DeltaTable opened with that    *)
(* same prefix writes.  Both kinds of entries are in the model, written by *)
(* both kinds of writers.                                                  *)
(***************************************************************************)
EXTENDS Integers

CONSTANTS
    Ids,         \* backup ids; a CreateBackup takes one that was never used
    Callers,     \* goroutines that call CreateBackup
    Deleters,    \* goroutines that call DeleteBackup
    Files,       \* data files of the table
    MaxEntries,  \* bound on the entries of the log
    None

ASSUME BackupAssumption ==
    /\ MaxEntries \in Nat \ {0}
    /\ None \notin Callers

Versions == 0..(MaxEntries - 1)
Latest == -1                       \* the version that asks for the last one

\* What a backup's directory holds besides manifest.json.
Logs == {"log"} \X Versions
LastCheckpoint == <<"checkpoint", 0>>
Data == {"data"} \X Files
Checksum == <<"checksum", 0>>
Manifest == <<"manifest", 0>>
Copies == Logs \cup {LastCheckpoint} \cup Data
Objects == Copies \cup {Checksum}

Statuses == {"in_progress", "completed", "failed"}
Steps == {"none", "snapshot", "logs", "data", "manifest", "checksum", "final",
          "abort"}

VARIABLES
    slashed,     \* number of entries "_delta_log/N.json"
    joined,      \* [Versions -> {None} or files added], entries "_delta_logN.json"
    marker,      \* "_delta_log/_last_checkpoint" is there
    fresh,       \* ids not used yet
    manifest,    \* [Ids -> {None} or the last manifest.json uploaded]
    stored,      \* [Ids -> SUBSET Objects], the other objects of the directory
    snapshot,    \* [Ids -> SUBSET Data], the files Snapshot listed for it
    deleted,     \* ids DeleteBackup was called for
    call,        \* [Callers -> state of its CreateBackup]
    holder,      \* the caller in the engine's mutex
    step, cur, version, todo, files, failed,  \* the backup that caller writes
    del,         \* [Deleters -> <<id, keys of its listing still to delete>>]
    target       \* what restores have uploaded to the target table

table == <<slashed, joined, marker>>
work == <<step, cur, version, snapshot, todo, files, failed>>
backups == <<manifest, stored>>
engineVars == <<table, fresh, backups, deleted, call, holder, work, del, target>>

EngineInit ==
    /\ slashed = 0
    /\ joined = [v \in Versions |-> {None}]
    /\ marker = FALSE
    /\ fresh = Ids
    /\ manifest = [b \in Ids |-> [status |-> "absent", files |-> {}]]
    /\ stored = [b \in Ids |-> {}]
    /\ snapshot = [b \in Ids |-> {}]
    /\ deleted = {}
    /\ call = [c \in Callers |-> "idle"]
    /\ holder = None
    /\ step = "none" /\ cur \in Ids /\ version = Latest
    /\ todo = {} /\ files = {} /\ failed = FALSE
    /\ del = [d \in Deleters |-> <<cur, {}>>]
    /\ target = {}

-----------------------------------------------------------------------------
(* The writers of the table.                                               *)

\* The sync engine commits the next entry; every few commits it also writes
\* the checkpoint marker.
WriteSlashed ==
    /\ slashed < MaxEntries
    /\ slashed' = slashed + 1
    /\ marker' \in {marker, TRUE}
    /\ UNCHANGED <<joined, fresh, backups, deleted, call, holder, work, del, target>>

\* A DeltaTable opened with the prefix of backup.go lists the other kind of
\* entries: it writes the version after the last of those.
WriteJoined(fs) ==
    /\ slashed < MaxEntries
    /\ slashed > 0 => fs # {}
    /\ joined' = [joined EXCEPT ![slashed] = fs]
    /\ UNCHANGED <<slashed, marker, fresh, backups, deleted, call, holder, work,
                   del, target>>

-----------------------------------------------------------------------------
(* CreateBackup                                                            *)

Request(c) ==
    /\ call[c] = "idle"
    /\ call' = [call EXCEPT ![c] = "waiting"]
    /\ UNCHANGED <<table, fresh, backups, deleted, holder, work, del, target>>

Results == {"done", "refused", "lost"}   \* an upload, refused, or its answer lost
Stored(r) == r # "refused"

Upload(b, o, r) ==
    stored' = IF Stored(r) THEN [stored EXCEPT ![b] = @ \cup {o}] ELSE stored

SaveManifest(b, status, fs, r) ==
    manifest' = IF Stored(r)
                THEN [manifest EXCEPT ![b] = [status |-> status, files |-> fs]]
                ELSE manifest

Finish(result) ==
    /\ call' = [call EXCEPT ![holder] = result]
    /\ holder' = None
    /\ step' = "none"
    /\ todo' = {} /\ files' = {} /\ failed' = FALSE
    /\ UNCHANGED <<cur, version, snapshot>>

\* The mutex is taken and the first manifest saved.  A backup whose first
\* manifest is refused leaves nothing of its id; once Ids are used up, all are.
Begin(c, b, v) ==
    /\ call[c] = "waiting" /\ holder = None
    /\ \E r \in IF b \in fresh THEN Results ELSE {"refused"} :
         /\ fresh' = IF Stored(r) THEN fresh \ {b} ELSE fresh
         /\ SaveManifest(b, "in_progress", {}, r)
         /\ IF r = "done"
            THEN /\ call' = [call EXCEPT ![c] = "creating"]
                 /\ holder' = c /\ step' = "snapshot" /\ cur' = b /\ version' = v
            ELSE /\ call' = [call EXCEPT ![c] = "failed"]
                 /\ UNCHANGED <<holder, step, cur, version>>
    /\ UNCHANGED <<table, stored, deleted, snapshot, todo, files, failed, del, target>>

\* The version Snapshot replays, and whether every entry of it can be read.
SnapshotVersion(v) == IF v = Latest THEN slashed - 1 ELSE v
Readable(v) == v >= 0 /\ \A w \in 0..v : joined[w] # {None}
SnapshotFiles(v) == {"data"} \X UNION {joined[w] : w \in 0..v}

\* What backupTransactionLogs finds: its loop ends at the version asked for,
\* not at the one Snapshot replayed.
LogFiles(v) ==
    {l \in Logs : l[2] <= v /\ l[2] < slashed}
        \cup (IF marker THEN {LastCheckpoint} ELSE {})

Abort == step' = "abort" /\ UNCHANGED <<todo, files, failed>>

Snapshot ==
    /\ step = "snapshot"
    /\ \/ /\ Readable(SnapshotVersion(version))
          /\ snapshot' = [snapshot EXCEPT ![cur] =
                              SnapshotFiles(SnapshotVersion(version))]
          /\ step' = "logs" /\ todo' = LogFiles(version)
          /\ UNCHANGED <<files, failed>>
       \/ Abort /\ UNCHANGED snapshot  \* an entry is missing or a download fails
    /\ UNCHANGED <<table, fresh, backups, deleted, call, holder, cur, version, del,
                   target>>

Order(o) ==      \* of the copies of the log, and of the keys of a listing
    CASE o[1] = "log" -> o[2]
      [] o[1] = "checkpoint" -> MaxEntries
      [] o[1] = "checksum" -> MaxEntries + 1
      [] o[1] = "data" -> MaxEntries + 2
      [] o[1] = "manifest" -> MaxEntries + 3

\* The log entries in order, then the marker.
CopyLog(l) ==
    /\ step = "logs" /\ l \in todo
    /\ \A m \in todo : Order(l) <= Order(m)
    /\ \E r \in Results :
         /\ Upload(cur, l, r)
         /\ IF r = "done"
            THEN /\ files' = files \cup {l} /\ todo' = todo \ {l}
                 /\ UNCHANGED <<step, failed>>
            ELSE Abort
    /\ UNCHANGED <<table, fresh, manifest, deleted, call, holder, cur, version,
                   snapshot, del, target>>

LogsCopied ==
    /\ step = "logs" /\ todo = {}
    /\ step' = "data" /\ todo' = snapshot[cur]
    /\ UNCHANGED <<table, fresh, backups, deleted, call, holder, cur, version,
                   snapshot, files, failed, del, target>>

\* One goroutine of backupDataFiles; the others go on after its error.
CopyData(o) ==
    /\ step = "data" /\ o \in todo
    /\ todo' = todo \ {o}
    /\ \E r \in Results :
         /\ Upload(cur, o, r)
         /\ files' = IF r = "done" THEN files \cup {o} ELSE files
         /\ failed' = (failed \/ r # "done")
    /\ UNCHANGED <<table, fresh, manifest, deleted, call, holder, step, cur, version,
                   snapshot, del, target>>

\* A mutant: firstErr is forgotten.
DataCopiedIgnoresErrors ==
    /\ step = "data" /\ todo = {}
    /\ step' = "manifest"
    /\ UNCHANGED <<table, fresh, backups, deleted, call, holder, cur, version,
                   snapshot, todo, files, failed, del, target>>

DataCopied ==
    /\ step = "data" /\ todo = {}
    /\ step' = IF failed THEN "abort" ELSE "manifest"
    /\ UNCHANGED <<table, fresh, backups, deleted, call, holder, cur, version,
                   snapshot, todo, files, failed, del, target>>

PutManifest ==
    /\ step = "manifest"
    /\ \E r \in Results :
         /\ SaveManifest(cur, "in_progress", files, r)
         /\ step' = IF r = "done" THEN "checksum" ELSE "abort"
    /\ UNCHANGED <<table, fresh, stored, deleted, call, holder, cur, version,
                   snapshot, todo, files, failed, del, target>>

PutChecksum ==
    /\ step = "checksum"
    /\ \E r \in Results :
         /\ Upload(cur, Checksum, r)
         /\ step' = IF r = "done" THEN "final" ELSE "abort"
    /\ UNCHANGED <<table, fresh, manifest, deleted, call, holder, cur, version,
                   snapshot, todo, files, failed, del, target>>

\* An error of this save is returned; the manifest may say completed or not.
Final ==
    /\ step = "final"
    /\ \E r \in Results :
         /\ SaveManifest(cur, "completed", files, r)
         /\ Finish(IF r = "done" THEN "succeeded" ELSE "failed")
    /\ UNCHANGED <<table, fresh, stored, deleted, del, target>>

\* performBackup failed: the failure is saved, and an error of that ignored.
SaveFailure ==
    /\ step = "abort"
    /\ \E r \in Results : SaveManifest(cur, "failed", files, r)
    /\ Finish("failed")
    /\ UNCHANGED <<table, fresh, stored, deleted, del, target>>

Return(c) ==
    /\ call[c] \in {"succeeded", "failed"}
    /\ call' = [call EXCEPT ![c] = "idle"]
    /\ UNCHANGED <<table, fresh, backups, deleted, holder, work, del, target>>

-----------------------------------------------------------------------------
(* DeleteBackup                                                            *)

Exists(b) == manifest[b].status # "absent"

\* Nothing stops the delete of a backup that is being written.
DeleteBackup(d, b) ==
    /\ del[d][2] = {} /\ Exists(b)
    /\ del' = [del EXCEPT ![d] = <<b, stored[b] \cup {Manifest}>>]
    /\ deleted' = deleted \cup {b}
    /\ UNCHANGED <<table, fresh, backups, call, holder, work, target>>

\* An error of a delete is logged, and the next key is taken.
DeleteKey(d) ==
    \E o \in del[d][2] :
        /\ \A p \in del[d][2] : Order(o) <= Order(p)
        /\ del' = [del EXCEPT ![d] = <<@[1], @[2] \ {o}>>]
        /\ \/ UNCHANGED backups
           \/ /\ o = Manifest
              /\ manifest' = [manifest EXCEPT ![del[d][1]] =
                                  [status |-> "absent", files |-> {}]]
              /\ UNCHANGED stored
           \/ /\ stored' = [stored EXCEPT ![del[d][1]] = @ \ {o}]
              /\ UNCHANGED manifest
        /\ UNCHANGED <<table, fresh, deleted, call, holder, work, target>>

-----------------------------------------------------------------------------
(* Validation and restore                                                  *)

\* ValidateBackup: no listed file is missing.
Complete(b) == Exists(b) /\ manifest[b].files \subseteq stored[b]

\* A mutant: ValidateRestore with the checks of the log forgotten.
RestorableWithoutLog(b) == Complete(b)

\* ValidateRestore; the target's name is not empty.
Restorable(b) ==
    /\ Complete(b)
    /\ manifest[b].files \cap (Logs \cup {LastCheckpoint}) # {}
    /\ <<"log", 0>> \in manifest[b].files

\* What is stored under a listed key is what was uploaded there: checksum
\* and size are those of the manifest.
FileErrors(b, o) == IF o \in stored[b] THEN {} ELSE {<<"file_missing", o>>}

\* The errors of the validator's three checks; warnings do not count.
IntegrityErrors(b) == UNION {FileErrors(b, o) : o \in manifest[b].files}

\* Version 0 of the log has the protocol and the metadata.
RequiredComponents(fs) ==
    (IF fs \cap Logs = {} THEN {<<"missing_log_files">>} ELSE {})
        \cup (IF <<"log", 0>> \in fs THEN {}
              ELSE {<<"missing_protocol">>, <<"missing_metadata">>})

\* Gaps of the log and a backup without data are warnings.
CompletenessErrors(b) == RequiredComponents(manifest[b].files)

FormatErrors(b) ==
    IF manifest[b].files \cap (Logs \cup {LastCheckpoint}) = {}
    THEN {<<"missing_delta_log">>} ELSE {}

RestorabilityErrors(b) ==
    IntegrityErrors(b) \cup CompletenessErrors(b) \cup FormatErrors(b)

\* What a restore can have uploaded when it returns: the logs in order, and
\* data only after all of them.
Uploads(fs) ==
    LET logs == fs \cap (Logs \cup {LastCheckpoint})
    IN {r \in SUBSET fs :
          /\ r \cap Data # {} => logs \subseteq r
          /\ \A m \in r \cap Logs : {l \in logs : l[2] < m[2] /\ l[1] = "log"} \subseteq r
          /\ LastCheckpoint \in r => logs \subseteq r}

\* The target is not emptied first.
RestoreFromBackup(b) ==
    /\ Restorable(b)
    /\ \E r \in Uploads(manifest[b].files) : target' = target \cup r
    /\ UNCHANGED <<table, fresh, backups, deleted, call, holder, work, del>>

-----------------------------------------------------------------------------

Crash ==
    /\ call' = [c \in Callers |-> "idle"]
    /\ holder' = None
    /\ step' = "none" /\ todo' = {} /\ files' = {} /\ failed' = FALSE
    /\ del' = [d \in Deleters |-> <<del[d][1], {}>>]
    /\ UNCHANGED <<table, fresh, backups, deleted, cur, version, snapshot, target>>

CreateStep ==
    \/ Snapshot \/ LogsCopied
    \/ \E l \in Logs \cup {LastCheckpoint} : CopyLog(l)
    \/ \E o \in Data : CopyData(o)
    \/ DataCopied \/ PutManifest \/ PutChecksum \/ Final \/ SaveFailure

EngineNext ==
    \/ WriteSlashed \/ (\E fs \in SUBSET Files : WriteJoined(fs))
    \/ \E c \in Callers : \/ Request(c) \/ Return(c)
                          \/ \E b \in Ids, v \in Versions \cup {Latest} : Begin(c, b, v)
    \/ CreateStep
    \/ \E d \in Deleters : DeleteKey(d) \/ \E b \in Ids : DeleteBackup(d, b)
    \/ \E b \in Ids : RestoreFromBackup(b)
    \/ Crash

EngineSpec == EngineInit /\ [][EngineNext]_engineVars
=============================================================================
