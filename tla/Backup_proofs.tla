---------------------------- MODULE Backup_proofs ----------------------------
(***************************************************************************)
(* Proofs about BackupEngine and BackupScheduler for any ids, callers,     *)
(* files and length of the log.  The scheduler only ever takes steps of    *)
(* the engine, and the engine keeps EInv: an id is used by one CreateBackup *)
(* alone, whose list of files is in the directory already and covers the   *)
(* snapshot by the time the data is copied; only a delete takes files away *)
(* again, and the ids of the deletes are remembered.                       *)
(***************************************************************************)
EXTENDS BackupScheduler, TLAPS

Manifests == [status : Statuses \cup {"absent"}, files : SUBSET Copies]

Types ==
    /\ slashed \in 0..MaxEntries
    /\ joined \in [Versions -> (SUBSET Files) \cup {{None}}]
    /\ marker \in BOOLEAN
    /\ fresh \subseteq Ids /\ deleted \subseteq Ids
    /\ manifest \in [Ids -> Manifests]
    /\ stored \in [Ids -> SUBSET Objects]
    /\ snapshot \in [Ids -> SUBSET Data]
    /\ call \in [Callers -> {"idle", "waiting", "creating", "succeeded", "failed"}]
    /\ holder \in Callers \cup {None}
    /\ step \in Steps /\ cur \in Ids /\ version \in Versions \cup {Latest}
    /\ todo \subseteq Copies /\ files \subseteq Copies
    /\ del \in [Deleters -> Ids \X SUBSET (Objects \cup {Manifest})]
    /\ target \subseteq Copies

\* The caller in the mutex is the one whose backup is being written.
Mutex ==
    /\ failed \in BOOLEAN
    /\ holder # None <=> step # "none"
    /\ \A c \in Callers : call[c] = "creating" <=> holder = c

\* Only directories of backups that somebody asked to delete lose objects.
Deletes == \A d \in Deleters : del[d][2] # {} => del[d][1] \in deleted

\* An id is used once: its backup starts with no files and is not complete
\* before its last step.
Once ==
    /\ step = "none" => files = {}
    /\ \A b \in fresh : manifest[b].status # "completed"
    /\ step # "none" => cur \notin fresh /\ manifest[cur].status # "completed"

\* What the backup being written has copied so far.
Copied ==
    /\ files \subseteq stored[cur]
    /\ step = "data" => snapshot[cur] \subseteq files \cup todo \/ failed
    /\ step \in {"manifest", "checksum", "final"} => snapshot[cur] \subseteq files
    /\ step = "final" => Checksum \in stored[cur]

Progress == step # "none" /\ cur \notin deleted => Copied

EInv == Types /\ Mutex /\ Deletes /\ Once /\ Progress /\ CompletedIsWhole

-----------------------------------------------------------------------------

LEMMA EInvInit == EngineInit => EInv
  <1> SUFFICES ASSUME EngineInit PROVE EInv
    OBVIOUS
  <1> USE BackupAssumption DEF EngineInit
  <1>1. Types
    <2>1. joined \in [Versions -> (SUBSET Files) \cup {{None}}]
      OBVIOUS
    <2>2. del \in [Deleters -> Ids \X SUBSET (Objects \cup {Manifest})]
      <3>1. <<cur, {}>> \in Ids \X SUBSET (Objects \cup {Manifest})
        OBVIOUS
      <3> QED
        BY <3>1
    <2>3. slashed \in 0..MaxEntries /\ marker \in BOOLEAN
      <3>1. marker \in BOOLEAN
        OBVIOUS
      <3> QED
        BY <3>1
    <2>4. manifest \in [Ids -> Manifests]
      BY DEF Manifests
    <2>6. stored \in [Ids -> SUBSET Objects] /\ snapshot \in [Ids -> SUBSET Data]
          /\ call \in [Callers -> {"idle", "waiting", "creating", "succeeded", "failed"}]
      OBVIOUS
    <2>5. step \in Steps /\ version \in Versions \cup {Latest}
      BY DEF Steps
    <2> QED
      BY <2>1, <2>2, <2>3, <2>4, <2>5, <2>6 DEF Types
  <1>2. failed \in BOOLEAN
    OBVIOUS
  <1>3. Mutex
    BY <1>2 DEF Mutex
  <1>4. Deletes /\ Once /\ Progress /\ CompletedIsWhole
    BY DEF Deletes, Once, Progress, CompletedIsWhole
  <1> QED
    BY <1>1, <1>3, <1>4 DEF EInv

(* The writers of the table and the restores leave the backups alone.      *)
LEMMA OthersKeep ==
    ASSUME EInv, WriteSlashed \/ (\E fs \in SUBSET Files : WriteJoined(fs))
                 \/ (\E b \in Ids : RestoreFromBackup(b))
    PROVE  EInv'
  <1> USE BackupAssumption DEF EInv, backups, work
  <1>1. /\ UNCHANGED <<fresh, backups, deleted, call, holder, work, del>>
        /\ marker' \in BOOLEAN /\ slashed' \in 0..MaxEntries
        /\ joined' \in [Versions -> (SUBSET Files) \cup {{None}}]
        /\ target' \subseteq Copies
    <2>1. CASE WriteSlashed
      <3>1. marker' \in BOOLEAN
        BY <2>1 DEF WriteSlashed, Types
      <3> QED
        BY <2>1, <3>1 DEF WriteSlashed, Types
    <2>2. CASE \E fs \in SUBSET Files : WriteJoined(fs)
      BY <2>2 DEF WriteJoined, Types, Versions
    <2>3. CASE \E b \in Ids : RestoreFromBackup(b)
      BY <2>3 DEF RestoreFromBackup, Uploads, Types, Manifests, table
    <2> QED
      BY <2>1, <2>2, <2>3
  <1>2. Types'
    BY <1>1 DEF Types
  <1>3. Mutex' /\ Deletes' /\ Once' /\ Progress' /\ CompletedIsWhole'
    BY <1>1 DEF Mutex, Deletes, Once, Progress, Copied, CompletedIsWhole
  <1> QED
    BY <1>2, <1>3

(* The calls around the mutex.                                             *)
LEMMA CallsKeep ==
    ASSUME EInv, NEW c \in Callers, Request(c) \/ Return(c) PROVE EInv'
  <1> USE BackupAssumption DEF EInv, backups, work, table, Request, Return
  <1>1. Types'
    BY DEF Types
  <1>2. Mutex'
    BY DEF Mutex, Types
  <1>3. Deletes' /\ Once' /\ Progress' /\ CompletedIsWhole'
    BY DEF Deletes, Once, Progress, Copied, CompletedIsWhole
  <1> QED
    BY <1>1, <1>2, <1>3

LEMMA OneManifest ==
    ASSUME Types, NEW b \in Ids, NEW m \in Manifests, manifest' = [manifest EXCEPT ![b] = m]
    PROVE  /\ manifest' \in [Ids -> Manifests]
           /\ \A x \in Ids : manifest'[x] = IF x = b THEN m ELSE manifest[x]
  BY DEF Types, Manifests

(* A save of the manifest changes that of the backup being written.        *)
LEMMA SaveChanges ==
    ASSUME Types, NEW b \in Ids, NEW status \in Statuses, NEW fs \in SUBSET Copies, NEW r,
           SaveManifest(b, status, fs, r)
    PROVE  /\ manifest' \in [Ids -> Manifests]
           /\ \A x \in Ids : \/ manifest'[x] = manifest[x]
                             \/ x = b /\ manifest'[x] = [status |-> status, files |-> fs]
  <1>1. CASE Stored(r)
    <2>1. [status |-> status, files |-> fs] \in Manifests
      BY DEF Manifests
    <2> QED
      BY <1>1, <2>1, OneManifest DEF SaveManifest
  <1>2. CASE ~Stored(r)
    BY <1>2 DEF SaveManifest, Types, Manifests
  <1> QED
    BY <1>1, <1>2

LEMMA BeginKeeps ==
    ASSUME EInv, NEW c \in Callers, NEW b \in Ids, NEW v \in Versions \cup {Latest},
           Begin(c, b, v)
    PROVE  EInv'
  <1> USE BackupAssumption DEF EInv, table
  <1>1. PICK r \in IF b \in fresh THEN Results ELSE {"refused"} :
            /\ fresh' = IF Stored(r) THEN fresh \ {b} ELSE fresh
            /\ SaveManifest(b, "in_progress", {}, r)
            /\ IF r = "done"
               THEN /\ call' = [call EXCEPT ![c] = "creating"]
                    /\ holder' = c /\ step' = "snapshot" /\ cur' = b /\ version' = v
               ELSE /\ call' = [call EXCEPT ![c] = "failed"]
                    /\ UNCHANGED <<holder, step, cur, version>>
    BY DEF Begin
  <1>2. /\ call[c] = "waiting" /\ holder = None /\ step = "none"
        /\ UNCHANGED <<slashed, joined, marker, stored, deleted, snapshot, todo, files,
                       failed, del, target>>
    BY DEF Begin, Mutex
  <1>3. /\ manifest' \in [Ids -> Manifests]
        /\ \A x \in Ids : \/ manifest'[x] = manifest[x]
                          \/ x = b /\ manifest'[x].status = "in_progress"
    <2>1. "in_progress" \in Statuses /\ {} \in SUBSET Copies
      BY DEF Statuses
    <2>2. /\ manifest' \in [Ids -> Manifests]
          /\ \A x \in Ids : \/ manifest'[x] = manifest[x]
                            \/ x = b /\ manifest'[x] = [status |-> "in_progress", files |-> {}]
      BY ONLY <1>1, <2>1, SaveChanges, EInv, b \in Ids DEF EInv
    <2> QED
      BY <2>2
  <1>4. Types'
    <2>1. fresh' \subseteq Ids /\ step' \in Steps /\ cur' \in Ids
          /\ version' \in Versions \cup {Latest} /\ holder' \in Callers \cup {None}
      BY <1>1, <1>2 DEF Types, Steps
    <2>2. call' \in [Callers -> {"idle", "waiting", "creating", "succeeded", "failed"}]
      BY <1>1 DEF Types
    <2> QED
      BY <1>2, <1>3, <2>1, <2>2 DEF Types
  <1>5. Mutex'
    <2>1. CASE r = "done"
      BY <1>1, <1>2, <2>1 DEF Mutex, Types
    <2>2. CASE r # "done"
      BY <1>1, <1>2, <2>2 DEF Mutex, Types
    <2> QED
      BY <2>1, <2>2
  <1>6. Once'
    <2>1. CASE r = "done"
      BY <1>1, <1>2, <1>3, <2>1 DEF Once, Stored, SaveManifest, Types
    <2>2. CASE r # "done"
      BY <1>1, <1>2, <1>3, <2>2 DEF Once, Types
    <2> QED
      BY <2>1, <2>2
  <1>7. Deletes'
    BY <1>2 DEF Deletes
  <1>8. Progress'
    <2>1. CASE r = "done"
      BY <1>1, <1>2, <2>1 DEF Progress, Copied, Once
    <2>2. CASE r # "done"
      BY <1>1, <1>2, <2>2 DEF Progress
    <2> QED
      BY <2>1, <2>2
  <1>9. CompletedIsWhole'
    BY <1>2, <1>3 DEF CompletedIsWhole
  <1> QED
    BY <1>4, <1>5, <1>6, <1>7, <1>8, <1>9

-----------------------------------------------------------------------------
(* The steps of the backup being written.                                  *)

LEMMA SnapshotKeeps == ASSUME EInv, Snapshot PROVE EInv'
  <1> USE BackupAssumption DEF EInv, Snapshot, table, backups, Abort
  <1>1. /\ snapshot' \in [Ids -> SUBSET Data]
        /\ \A b \in Ids : b # cur => snapshot'[b] = snapshot[b]
    <2>1. ASSUME NEW v \in Versions, Readable(v) PROVE SnapshotFiles(v) \in SUBSET Data
      <3>1. \A w \in 0..v : w \in Versions /\ joined[w] # {None}
        BY <2>1 DEF Readable, Versions
      <3>2. \A w \in Versions : joined[w] \in (SUBSET Files) \cup {{None}}
        BY DEF Types
      <3>3. \A w \in 0..v : joined[w] \subseteq Files
        BY <3>1, <3>2, Zenon
      <3> QED
        BY <3>3 DEF SnapshotFiles, Data
    <2>2. Readable(SnapshotVersion(version)) => SnapshotVersion(version) \in Versions
      BY DEF Readable, SnapshotVersion, Types, Versions, Latest
    <2> QED
      BY <2>1, <2>2 DEF Types
  <1>2. step' \in {"logs", "abort"} /\ todo' \subseteq Copies /\ UNCHANGED <<files, failed>>
    BY DEF Types, LogFiles, Copies
  <1>3. Types'
    BY <1>1, <1>2 DEF Types, Steps
  <1>4. Mutex' /\ Deletes' /\ Once'
    BY <1>2 DEF Mutex, Deletes, Once
  <1>5. Progress'
    BY <1>2 DEF Progress, Copied
  <1>6. CompletedIsWhole'
    BY <1>1 DEF CompletedIsWhole, Once
  <1> QED
    BY <1>3, <1>4, <1>5, <1>6

(* An upload adds at most the object it is about to the directory.         *)
LEMMA UploadAdds ==
    ASSUME Types, NEW b \in Ids, NEW o \in Objects, NEW r, Upload(b, o, r)
    PROVE  /\ stored' \in [Ids -> SUBSET Objects]
           /\ \A x \in Ids : stored[x] \subseteq stored'[x]
           /\ Stored(r) => o \in stored'[b]
  BY DEF Types, Upload

LEMMA CopyLogKeeps ==
    ASSUME EInv, NEW l \in Logs \cup {LastCheckpoint}, CopyLog(l) PROVE EInv'
  <1> USE BackupAssumption DEF EInv, CopyLog, table
  <1>1. PICK r \in Results :
            /\ Upload(cur, l, r)
            /\ IF r = "done"
               THEN /\ files' = files \cup {l} /\ todo' = todo \ {l}
                    /\ UNCHANGED <<step, failed>>
               ELSE Abort
    OBVIOUS
  <1>2. /\ stored' \in [Ids -> SUBSET Objects]
        /\ \A x \in Ids : stored[x] \subseteq stored'[x]
        /\ Stored(r) => l \in stored'[cur]
    BY <1>1, UploadAdds DEF Types, Objects, Copies
  <1>3. /\ step' \in {"logs", "abort"} /\ todo' \subseteq Copies /\ files' \subseteq Copies
        /\ failed' = failed /\ files' \subseteq files \cup {l}
        /\ (l \in files' => l \in files \/ Stored(r))
    BY <1>1 DEF Types, Abort, Stored, Copies
  <1>4. Types'
    BY <1>2, <1>3 DEF Types, Steps
  <1>5. Mutex' /\ Deletes' /\ Once'
    BY <1>3 DEF Mutex, Deletes, Once
  <1>6. Progress'
    BY <1>2, <1>3 DEF Progress, Copied, Types
  <1>7. CompletedIsWhole'
    BY <1>2 DEF CompletedIsWhole
  <1> QED
    BY <1>4, <1>5, <1>6, <1>7

LEMMA CopyDataKeeps == ASSUME EInv, NEW o \in Data, CopyData(o) PROVE EInv'
  <1> USE BackupAssumption DEF EInv, CopyData, table
  <1>1. PICK r \in Results :
            /\ Upload(cur, o, r)
            /\ files' = IF r = "done" THEN files \cup {o} ELSE files
            /\ failed' = (failed \/ r # "done")
    OBVIOUS
  <1>2. /\ stored' \in [Ids -> SUBSET Objects]
        /\ \A x \in Ids : stored[x] \subseteq stored'[x]
        /\ Stored(r) => o \in stored'[cur]
    BY <1>1, UploadAdds DEF Types, Objects, Copies
  <1>3. /\ todo' \subseteq Copies /\ files' \subseteq Copies /\ todo' = todo \ {o}
        /\ files \subseteq files' /\ files' \subseteq files \cup {o}
        /\ (o \in files' => o \in files \/ Stored(r))
        /\ (o \in files' \/ failed')
    BY <1>1 DEF Types, Stored, Copies
  <1>4. failed' \in BOOLEAN /\ (failed => failed')
    BY <1>1
  <1>5. Types'
    BY <1>2, <1>3 DEF Types
  <1>6. Mutex' /\ Deletes' /\ Once'
    BY <1>4 DEF Mutex, Deletes, Once
  <1>7. Progress'
    <2> SUFFICES ASSUME cur \notin deleted PROVE Copied'
      BY DEF Progress
    <2>1. Copied /\ cur \in Ids
      BY DEF Progress, Types
    <2>2. files' \subseteq stored'[cur]
      BY <1>2, <1>3, <2>1 DEF Copied
    <2>3. snapshot[cur] \subseteq files' \cup todo' \/ failed'
      BY <1>3, <1>4, <2>1 DEF Copied
    <2> QED
      BY <2>2, <2>3 DEF Copied
  <1>8. CompletedIsWhole'
    BY <1>2 DEF CompletedIsWhole
  <1> QED
    BY <1>5, <1>6, <1>7, <1>8

LEMMA PhasesKeep == ASSUME EInv, LogsCopied \/ DataCopied PROVE EInv'
  <1> USE BackupAssumption DEF EInv, table, backups, LogsCopied, DataCopied
  <1>1. step' \in {"data", "abort", "manifest"} /\ todo' \subseteq Copies
    BY DEF Types, Copies
  <1>2. Types'
    BY <1>1 DEF Types, Steps
  <1>3. Mutex' /\ Deletes' /\ Once'
    BY <1>1 DEF Mutex, Deletes, Once
  <1>4. Progress'
    <2>1. CASE LogsCopied
      BY <2>1 DEF Progress, Copied
    <2>2. CASE DataCopied
      BY <2>2 DEF Progress, Copied
    <2> QED
      BY <2>1, <2>2
  <1>5. CompletedIsWhole'
    BY DEF CompletedIsWhole
  <1> QED
    BY <1>2, <1>3, <1>4, <1>5

LEMMA PutManifestKeeps == ASSUME EInv, PutManifest PROVE EInv'
  <1> USE BackupAssumption DEF EInv, PutManifest, table
  <1>1. PICK r \in Results :
            /\ SaveManifest(cur, "in_progress", files, r)
            /\ step' = IF r = "done" THEN "checksum" ELSE "abort"
    OBVIOUS
  <1>2. /\ manifest' \in [Ids -> Manifests]
        /\ \A b \in Ids : \/ manifest'[b] = manifest[b]
                          \/ b = cur /\ manifest'[b] = [status |-> "in_progress", files |-> files]
    BY <1>1, SaveChanges DEF Statuses, Types
  <1>3. step' \in {"checksum", "abort"}
    BY <1>1
  <1>4. Types'
    BY <1>2, <1>3 DEF Types, Steps
  <1>5. Mutex' /\ Deletes'
    BY <1>3 DEF Mutex, Deletes
  <1>6. Once'
    BY <1>2, <1>3 DEF Once, Types
  <1>7. Progress'
    BY <1>3 DEF Progress, Copied
  <1>8. CompletedIsWhole'
    BY <1>2 DEF CompletedIsWhole
  <1> QED
    BY <1>4, <1>5, <1>6, <1>7, <1>8

LEMMA PutChecksumKeeps == ASSUME EInv, PutChecksum PROVE EInv'
  <1> USE BackupAssumption DEF EInv, PutChecksum, table
  <1>1. PICK r \in Results :
            /\ Upload(cur, Checksum, r)
            /\ step' = IF r = "done" THEN "final" ELSE "abort"
    OBVIOUS
  <1>2. /\ stored' \in [Ids -> SUBSET Objects]
        /\ \A x \in Ids : stored[x] \subseteq stored'[x]
        /\ Stored(r) => Checksum \in stored'[cur]
    BY <1>1, UploadAdds DEF Types, Objects
  <1>3. step' \in {"final", "abort"} /\ (step' = "final" => Stored(r))
    BY <1>1 DEF Stored
  <1>4. Types'
    BY <1>2, <1>3 DEF Types, Steps
  <1>5. Mutex' /\ Deletes' /\ Once'
    BY <1>3 DEF Mutex, Deletes, Once
  <1>6. Progress'
    BY <1>2, <1>3 DEF Progress, Copied, Types
  <1>7. CompletedIsWhole'
    BY <1>2 DEF CompletedIsWhole
  <1> QED
    BY <1>4, <1>5, <1>6, <1>7

(* CreateBackup returns: by now a completed manifest lists what is there.  *)
LEMMA ReturnKeeps == ASSUME EInv, Final \/ SaveFailure PROVE EInv'
  <1> USE BackupAssumption DEF EInv, Final, SaveFailure, table
  <1>1. PICK status \in {"completed", "failed"}, r \in Results :
            /\ SaveManifest(cur, status, files, r)
            /\ \/ Finish("succeeded") \/ Finish("failed")
            /\ status = "completed" => step = "final"
    <2>1. CASE Final
      BY <2>1
    <2>2. CASE SaveFailure
      BY <2>2
    <2> QED
      BY <2>1, <2>2
  <1>2. /\ manifest' \in [Ids -> Manifests]
        /\ \A b \in Ids : \/ manifest'[b] = manifest[b]
                          \/ b = cur /\ manifest'[b] = [status |-> status, files |-> files]
    BY <1>1, SaveChanges DEF Statuses, Types
  <1>3. /\ holder # None /\ step # "none" /\ cur \notin fresh
        /\ holder \in Callers /\ holder' = None /\ step' = "none" /\ files' = {} /\ todo' = {}
        /\ UNCHANGED <<slashed, joined, marker, fresh, stored, deleted, del, target,
                       cur, version, snapshot>>
    BY <1>1 DEF Finish, Mutex, Types, Once
  <1>4. \E result \in {"succeeded", "failed"} :
            call' = [call EXCEPT ![holder] = result] /\ failed' = FALSE
    BY <1>1 DEF Finish
  <1>5. call' \in [Callers -> {"idle", "waiting", "creating", "succeeded", "failed"}]
    BY <1>3, <1>4 DEF Types
  <1>6. Types'
    BY <1>2, <1>3, <1>5 DEF Types, Steps
  <1>7. Mutex'
    BY <1>3, <1>4 DEF Mutex, Types
  <1>8. Deletes' /\ Progress'
    BY <1>3 DEF Deletes, Progress
  <1>9. Once'
    BY <1>2, <1>3 DEF Once, Types
  <1>10. CompletedIsWhole'
    <2> SUFFICES ASSUME NEW b \in Ids \ deleted, manifest'[b].status = "completed"
                 PROVE  /\ snapshot[b] \subseteq manifest'[b].files
                        /\ manifest'[b].files \cup {Checksum} \subseteq stored[b]
      BY <1>3 DEF CompletedIsWhole
    <2>1. CASE manifest'[b] = manifest[b]
      BY <2>1 DEF CompletedIsWhole
    <2>2. CASE b = cur /\ manifest'[b] = [status |-> status, files |-> files]
      <3>1. step = "final" /\ Copied
        BY <1>1, <1>3, <2>2 DEF Progress
      <3> QED
        BY <2>2, <3>1 DEF Copied
    <2> QED
      BY <1>2, <2>1, <2>2
  <1> QED
    BY <1>6, <1>7, <1>8, <1>9, <1>10

-----------------------------------------------------------------------------
(* Deletes, and the end of the process.                                    *)

LEMMA DeleteBackupKeeps ==
    ASSUME EInv, NEW d \in Deleters, NEW b \in Ids, DeleteBackup(d, b) PROVE EInv'
  <1> USE BackupAssumption DEF EInv, DeleteBackup, table, backups, work
  <1>1. /\ del' = [del EXCEPT ![d] = <<b, stored[b] \cup {Manifest}>>]
        /\ deleted' = deleted \cup {b}
    OBVIOUS
  <1>2. del' \in [Deleters -> Ids \X SUBSET (Objects \cup {Manifest})]
    BY <1>1 DEF Types
  <1>3. Types'
    BY <1>1, <1>2 DEF Types
  <1>4. Deletes'
    BY <1>1 DEF Deletes, Types
  <1>5. Mutex' /\ Once' /\ Progress' /\ CompletedIsWhole'
    BY <1>1 DEF Mutex, Once, Progress, Copied, CompletedIsWhole
  <1> QED
    BY <1>3, <1>4, <1>5

LEMMA DeleteKeyKeeps ==
    ASSUME EInv, NEW d \in Deleters, DeleteKey(d) PROVE EInv'
  <1> USE BackupAssumption DEF EInv, DeleteKey, table, backups, work
  <1>1. PICK o \in del[d][2] :
            /\ del' = [del EXCEPT ![d] = <<@[1], @[2] \ {o}>>]
            /\ \/ UNCHANGED backups
               \/ /\ manifest' = [manifest EXCEPT ![del[d][1]] =
                                      [status |-> "absent", files |-> {}]]
                  /\ UNCHANGED stored
               \/ /\ stored' = [stored EXCEPT ![del[d][1]] = @ \ {o}]
                  /\ UNCHANGED manifest
            /\ UNCHANGED <<table, fresh, deleted, call, holder, work, target>>
    OBVIOUS
  <1>2. del[d] \in Ids \X SUBSET (Objects \cup {Manifest}) /\ del[d][1] \in deleted
    BY DEF Types, Deletes
  <1>3. del' \in [Deleters -> Ids \X SUBSET (Objects \cup {Manifest})]
    BY <1>1, <1>2 DEF Types
  <1>4. /\ manifest' \in [Ids -> Manifests]
        /\ \A b \in Ids : \/ manifest'[b] = manifest[b]
                          \/ b \in deleted /\ manifest'[b].status = "absent"
    <2>1. CASE manifest' = [manifest EXCEPT ![del[d][1]] =
                               [status |-> "absent", files |-> {}]]
      <3>1. [status |-> "absent", files |-> {}] \in Manifests /\ del[d][1] \in Ids
        BY <1>2 DEF Manifests
      <3>2. /\ manifest' \in [Ids -> Manifests]
            /\ \A x \in Ids : manifest'[x] = IF x = del[d][1]
                                THEN [status |-> "absent", files |-> {}] ELSE manifest[x]
        BY <2>1, <3>1, OneManifest
      <3> QED
        BY <1>2, <3>2
    <2>2. CASE manifest' = manifest
      BY <2>2 DEF Types
    <2> QED
      BY <1>1, <2>1, <2>2
  <1>5. /\ stored' \in [Ids -> SUBSET Objects]
        /\ \A b \in Ids \ deleted : stored'[b] = stored[b]
    BY <1>1, <1>2 DEF Types
  <1>6. Types'
    BY <1>1, <1>3, <1>4, <1>5 DEF Types
  <1>7. Deletes'
    BY <1>1, <1>2 DEF Deletes, Types
  <1>8. Mutex'
    BY <1>1 DEF Mutex
  <1>9. Once'
    BY <1>1, <1>4 DEF Once, Types
  <1>10. Progress' /\ CompletedIsWhole'
    BY <1>1, <1>4, <1>5 DEF Progress, Copied, CompletedIsWhole, Types
  <1> QED
    BY <1>6, <1>7, <1>8, <1>9, <1>10

LEMMA CrashKeeps == ASSUME EInv, Crash PROVE EInv'
  <1> USE BackupAssumption DEF EInv, Crash, table, backups
  <1>1. call' \in [Callers -> {"idle", "waiting", "creating", "succeeded", "failed"}]
    OBVIOUS
  <1>2. del' \in [Deleters -> Ids \X SUBSET (Objects \cup {Manifest})]
    BY DEF Types
  <1>3. Types'
    BY <1>1, <1>2 DEF Types, Steps
  <1>4. failed' \in BOOLEAN /\ holder' = None /\ step' = "none"
    OBVIOUS
  <1>5. Mutex'
    BY <1>4 DEF Mutex
  <1>6. Deletes' /\ Once' /\ Progress' /\ CompletedIsWhole'
    BY DEF Deletes, Once, Progress, CompletedIsWhole
  <1> QED
    BY <1>3, <1>5, <1>6

LEMMA EInvStep == EInv /\ [EngineNext]_engineVars => EInv'
  <1> SUFFICES ASSUME EInv, [EngineNext]_engineVars PROVE EInv'
    OBVIOUS
  <1>1. CASE CreateStep
    BY <1>1, SnapshotKeeps, CopyLogKeeps, CopyDataKeeps, PhasesKeep, PutManifestKeeps,
       PutChecksumKeeps, ReturnKeeps DEF CreateStep
  <1>2. CASE UNCHANGED engineVars
    BY <1>2 DEF engineVars, table, backups, work, EInv, Types, Mutex, Deletes, Once,
       Progress, Copied, CompletedIsWhole
  <1> QED
    BY <1>1, <1>2, OthersKeep, CallsKeep, BeginKeeps, DeleteBackupKeeps, DeleteKeyKeeps,
       CrashKeeps DEF EngineNext

LEMMA EngineInvariant == EngineSpec => []EInv
  BY EInvInit, EInvStep, PTL DEF EngineSpec

-----------------------------------------------------------------------------
(* The scheduler over the engine.                                          *)

\* The cleanups are those of the scheduler, for ids of backups.
Cleanups == live \subseteq Cleaners /\ expired \in [Cleaners -> SUBSET Ids]

LEMMA CleanupsInit == Init => Cleanups
  BY DEF Init, Cleanups

LEMMA CleanupsStep == Cleanups /\ [Next]_vars => Cleanups'
  <1> SUFFICES ASSUME Cleanups, [Next]_vars PROVE Cleanups'
    OBVIOUS
  <1> USE DEF Cleanups
  <1>1. CASE UNCHANGED schedulerVars
    BY <1>1 DEF schedulerVars
  <1>2. CASE ScheduleBackup \/ ScheduleRefused \/ UnscheduleBackup \/ Start \/ Stop
             \/ StopGraceful \/ StopTimeout \/ ProcessDies
    BY <1>2 DEF ScheduleBackup, ScheduleRefused, UnscheduleBackup, Start, Stop,
       StopGraceful, StopTimeout, StopReturns, ProcessDies
  <1>3. ASSUME NEW d \in Cleaners,
               PerformCleanup(d) \/ CleanupDelete(d) \/ CleanupRoutineEnds(d)
        PROVE  Cleanups'
    BY <1>3 DEF PerformCleanup, CleanupDelete, CleanupRoutineEnds
  <1> QED
    BY <1>1, <1>2, <1>3 DEF Next, vars, BeginAny, Tick, JobFailed, RecordBackup

(* A step of the scheduler is one of the engine, or leaves it alone.       *)
LEMMA SchedulerStep == Cleanups /\ [Next]_vars => [EngineNext]_engineVars
  <1> SUFFICES ASSUME Cleanups, [Next]_vars PROVE EngineNext \/ UNCHANGED engineVars
    OBVIOUS
  <1> USE SchedulerAssumption
  <1>1. ASSUME NEW c \in Callers, BeginAny(c) PROVE EngineNext
    BY <1>1 DEF BeginAny, EngineNext
  <1>2. CASE ScheduleBackup \/ ScheduleRefused \/ UnscheduleBackup \/ Start \/ Stop
             \/ StopGraceful \/ StopTimeout
    BY <1>2 DEF ScheduleBackup, ScheduleRefused, UnscheduleBackup, Start, Stop,
       StopGraceful, StopTimeout, StopReturns
  <1>3. ASSUME NEW j \in Jobs, Tick(j) \/ JobFailed(j) \/ RecordBackup(j)
        PROVE  EngineNext
    BY <1>3 DEF Tick, JobFailed, RecordBackup, EngineNext
  <1>4. ASSUME NEW d \in Cleaners,
               PerformCleanup(d) \/ CleanupDelete(d) \/ CleanupRoutineEnds(d)
        PROVE  EngineNext \/ UNCHANGED engineVars
    BY <1>4 DEF PerformCleanup, CleanupDelete, CleanupRoutineEnds, EngineNext, Cleanups
  <1>5. CASE ProcessDies
    BY <1>5 DEF ProcessDies, EngineNext
  <1>6. CASE \/ WriteSlashed \/ (\E fs \in SUBSET Files : WriteJoined(fs)) \/ CreateStep
             \/ \E c \in Callers \ Jobs : Request(c) \/ Return(c)
             \/ \E d \in Deleters : DeleteKey(d) \/ \E b \in Ids : DeleteBackup(d, b)
             \/ \E b \in Ids : RestoreFromBackup(b)
    BY <1>6 DEF EngineNext
  <1>7. CASE UNCHANGED vars
    BY <1>7 DEF vars
  <1> QED
    BY <1>1, <1>2, <1>3, <1>4, <1>5, <1>6, <1>7 DEF Next

(* Whatever the scheduler does, the engine sees calls it allows.           *)
THEOREM SchedulerUsesTheEngine == Spec => EngineSpec
  <1>1. Init => EngineInit
    BY DEF Init
  <1>2. Spec => []Cleanups
    BY CleanupsInit, CleanupsStep, PTL DEF Spec
  <1> QED
    BY <1>1, <1>2, SchedulerStep, PTL DEF Spec, EngineSpec

LEMMA SchedulerInvariant == Spec => [](EInv /\ Cleanups)
  <1>1. Spec => []Cleanups
    BY CleanupsInit, CleanupsStep, PTL DEF Spec
  <1> QED
    BY <1>1, SchedulerUsesTheEngine, EngineInvariant, PTL

(* Every variable keeps its type, and only the caller in the engine's      *)
(* mutex is creating a backup.                                             *)
THEOREM BackupTypeCorrect == Spec => []TypeOK
  <1>1. EInv /\ Cleanups => TypeOK
    BY DEF EInv, Types, Manifests, Mutex, Cleanups, TypeOK
  <1> QED
    BY <1>1, SchedulerInvariant, PTL

(* A completed backup nobody has deleted lists the whole snapshot, and has *)
(* all it lists: with any number of callers, failures of any upload, lost  *)
(* answers and crashes.                                                    *)
THEOREM CompletedBackupsAreWhole == Spec => []CompletedIsWhole
  <1>1. EInv => CompletedIsWhole
    BY DEF EInv
  <1> QED
    BY <1>1, SchedulerInvariant, PTL

(* The two ways to validate a manifest agree on every manifest.            *)
LEMMA SameVerdict == Types => ValidatorsAgree
  <1> SUFFICES ASSUME Types, NEW b \in Ids, Exists(b)
               PROVE  RestorabilityErrors(b) = {} <=> Restorable(b)
    BY DEF ValidatorsAgree
  <1> DEFINE fs == manifest[b].files
             first == <<"log", 0>>
  <1>1. first \in Logs
    BY BackupAssumption DEF Logs, Versions
  <1>2. IntegrityErrors(b) = {} <=> fs \subseteq stored[b]
    <2>1. \A o \in fs : FileErrors(b, o) = {} <=> o \in stored[b]
      BY DEF FileErrors
    <2>2. IntegrityErrors(b) = {} <=> \A o \in fs : FileErrors(b, o) = {}
      BY DEF IntegrityErrors
    <2> QED
      BY <2>1, <2>2
  <1>3. CompletenessErrors(b) = {} <=> first \in fs
    BY <1>1 DEF CompletenessErrors, RequiredComponents
  <1>4. first \in fs => FormatErrors(b) = {} /\ fs \cap (Logs \cup {LastCheckpoint}) # {}
    BY <1>1 DEF FormatErrors
  <1> QED
    BY <1>2, <1>3, <1>4 DEF RestorabilityErrors, Restorable, Complete

THEOREM ValidatorsAlwaysAgree == Spec => []ValidatorsAgree
  <1>1. EInv => ValidatorsAgree
    BY SameVerdict DEF EInv
  <1> QED
    BY <1>1, SchedulerInvariant, PTL

-----------------------------------------------------------------------------

(* Restores put the log entry that creates the table before its data.      *)
LEMMA RestoreLogsFirst ==
    ASSUME EInv, RestoresHaveALog, NEW b \in Ids, RestoreFromBackup(b)
    PROVE  RestoresHaveALog'
  <1> DEFINE first == <<"log", 0>>
             logs == manifest[b].files \cap (Logs \cup {LastCheckpoint})
  <1>1. PICK r \in Uploads(manifest[b].files) : target' = target \cup r
    BY DEF RestoreFromBackup
  <1>2. first \in logs
    BY BackupAssumption DEF RestoreFromBackup, Restorable, Logs, Versions
  <1>3. /\ r \subseteq Copies
        /\ r \cap Data # {} => logs \subseteq r
        /\ \A m \in r \cap Logs : {l \in logs : l[2] < m[2] /\ l[1] = "log"} \subseteq r
        /\ LastCheckpoint \in r => logs \subseteq r
    BY <1>1 DEF Uploads, EInv, Types, Manifests
  <1>4. ASSUME NEW m \in r \cap Logs PROVE first \in r
    <2>1. m[2] \in Nat /\ m = <<"log", m[2]>>
      BY <1>4 DEF Logs, Versions
    <2>2. CASE m[2] = 0
      BY <2>1, <2>2
    <2>3. CASE m[2] # 0
      <3>1. first[2] < m[2] /\ first[1] = "log"
        BY <2>1, <2>3
      <3> QED
        BY <1>2, <1>3, <3>1
    <2> QED
      BY <2>2, <2>3
  <1>5. r = {} \/ first \in r
    BY <1>2, <1>3, <1>4 DEF Copies
  <1> QED
    BY <1>1, <1>5 DEF RestoresHaveALog

(* No restore leaves data at the target without the entry that creates the *)
(* table, whatever is restored there and wherever a restore fails.         *)
THEOREM RestoresStartWithTheLog == Spec => []RestoresHaveALog
  <1>1. EngineInit => RestoresHaveALog
    BY DEF EngineInit, RestoresHaveALog
  <1>2. EInv /\ RestoresHaveALog /\ [EngineNext]_engineVars => RestoresHaveALog'
    <2> SUFFICES ASSUME EInv, RestoresHaveALog, [EngineNext]_engineVars,
                        target' # target
                 PROVE  RestoresHaveALog'
      BY DEF RestoresHaveALog
    <2>1. \E b \in Ids : RestoreFromBackup(b)
      BY DEF EngineNext, engineVars, WriteSlashed, WriteJoined, Request, Return, Begin,
         CreateStep, Snapshot, LogsCopied, CopyLog, CopyData, DataCopied, PutManifest,
         PutChecksum, Final, SaveFailure, DeleteKey, DeleteBackup, Crash
    <2> QED
      BY <2>1, RestoreLogsFirst
  <1> QED
    BY <1>1, <1>2, SchedulerUsesTheEngine, EngineInvariant, PTL DEF EngineSpec
=============================================================================
