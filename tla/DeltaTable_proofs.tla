------------------------- MODULE DeltaTable_proofs -------------------------
(***************************************************************************)
(* Proofs about DeltaTable for every number of files, versions, attempts   *)
(* and every checkpoint interval.  The first part and the last two hold    *)
(* however many writers there are; the second assumes one writer, which is *)
(* what the design of the table assumes.                                   *)
(***************************************************************************)
EXTENDS DeltaTable, TLAPS

-----------------------------------------------------------------------------
(* Any number of writers                                                   *)

AfterPut == {"maybeCheckpoint", "upload", "marker"}

(* What a writer learned from listing the log stays true: the versions it  *)
(* listed, and the version it wrote, are still there.                      *)
ListedPresent ==
    \A w \in Writers :
        /\ pc[w] = "put" /\ latest[w] >= 0 => log[latest[w]] # NoEntry
        /\ pc[w] \in AfterPut => log[NewVersion(latest[w])] # NoEntry

GInv == TypeOK /\ NoGaps /\ ListedPresent

(* Leave only touches the locals of w and keeps their types.               *)
LEMMA LeaveTyped ==
    ASSUME NEW w \in Writers, TypeOK, Leave(w)
    PROVE  /\ pc' \in [Writers -> Labels]
           /\ adds' \in [Writers -> SUBSET Files]
           /\ latest' \in [Writers -> -1..(MaxVersion - 1)]
           /\ attempt' \in [Writers -> 1..MaxAttempts]
           /\ pc'[w] = "idle"
           /\ \A x \in Writers : x # w => pc'[x] = pc[x] /\ latest'[x] = latest[x]
  BY ConstantsAssumption DEF TypeOK, Leave, Goto, Labels

(* Retry either leaves or goes back to listing with one attempt more.      *)
LEMMA RetryTyped ==
    ASSUME NEW w \in Writers, TypeOK, Retry(w)
    PROVE  /\ pc' \in [Writers -> Labels]
           /\ adds' \in [Writers -> SUBSET Files]
           /\ latest' \in [Writers -> -1..(MaxVersion - 1)]
           /\ attempt' \in [Writers -> 1..MaxAttempts]
           /\ pc'[w] \in {"idle", "list"}
           /\ \A x \in Writers : x # w => pc'[x] = pc[x] /\ latest'[x] = latest[x]
  <1>1. CASE Leave(w)
    BY <1>1, LeaveTyped
  <1>2. CASE ~Leave(w)
    BY <1>2, ConstantsAssumption DEF TypeOK, Retry, Goto, Labels
  <1> QED
    BY <1>1, <1>2

(* Replaying a log without gaps up to a version that exists yields files.  *)
LEMMA SnapshotTyped ==
    ASSUME TypeOK, NoGaps, NEW v \in Version, log[v] # NoEntry
    PROVE  /\ \A u \in 0..v : log[u] \in Entry
           /\ Snapshot(v) \in SUBSET Files
  <1>1. \A u \in 0..v : u \in Version /\ log[u] # NoEntry
    BY ConstantsAssumption DEF NoGaps, Version
  <1>2. \A u \in 0..v : log[u] \in Entry
    BY <1>1 DEF TypeOK
  <1>3. \A u \in 0..v : log[u].adds \in SUBSET Files
    BY <1>2 DEF Entry
  <1> QED
    BY <1>2, <1>3 DEF Snapshot

(* The initial state satisfies the invariant: the log is empty.            *)
LEMMA GInvInit == Init => GInv
  BY ConstantsAssumption
  DEF Init, GInv, TypeOK, NoGaps, ListedPresent, Version, Labels, AfterPut

(* Steps that leave the log alone and only move a writer to a place where  *)
(* nothing is claimed of what it listed.                                   *)
LEMMA QuietStep ==
    ASSUME GInv, NEW w \in Writers, UNCHANGED log,
           pc'[w] \notin {"put"} \cup AfterPut,
           \A x \in Writers : x # w => pc'[x] = pc[x] /\ latest'[x] = latest[x]
    PROVE  NoGaps' /\ ListedPresent'
  <1>1. NoGaps'
    BY DEF GInv, NoGaps
  <1>2. ListedPresent'
    BY DEF GInv, ListedPresent, NewVersion
  <1> QED
    BY <1>1, <1>2

(* The log only grows under a write at or below its first free version.    *)
LEMMA WriteStep ==
    ASSUME GInv, NEW w \in Writers, NEW v \in Version, NEW e \in Entry,
           log' = [log EXCEPT ![v] = e],
           \A u \in Version : u < v => log[u] # NoEntry
    PROVE  /\ log' \in [Version -> Entry \cup {NoEntry}]
           /\ \A u \in Version : log[u] # NoEntry => log'[u] # NoEntry
           /\ log'[v] = e /\ log'[v] # NoEntry
           /\ NoGaps'
  <1>1. NoEntry \notin Entry
    BY ConstantsAssumption DEF Entry
  <1>2. log' \in [Version -> Entry \cup {NoEntry}]
    BY DEF GInv, TypeOK
  <1>3. \A u \in Version : log'[u] = IF u = v THEN e ELSE log[u]
    BY DEF GInv, TypeOK
  <1>4. NoGaps'
    BY <1>1, <1>3 DEF GInv, NoGaps, Version
  <1> QED
    BY <1>1, <1>2, <1>3, <1>4

(* A step that only adds to the log keeps true what the other writers      *)
(* listed, and claims nothing of the writer that took it.                  *)
LEMMA GrowStep ==
    ASSUME GInv, NEW w \in Writers,
           \A u \in Version : log[u] # NoEntry => log'[u] # NoEntry,
           pc'[w] \notin {"put"} \cup AfterPut,
           \A x \in Writers : x # w => pc'[x] = pc[x] /\ latest'[x] = latest[x]
    PROVE  ListedPresent'
  <1> SUFFICES ASSUME NEW x \in Writers, x # w
               PROVE  /\ pc[x] = "put" /\ latest[x] >= 0 => log'[latest[x]] # NoEntry
                      /\ pc[x] \in AfterPut => log'[NewVersion(latest[x])] # NoEntry
    BY DEF ListedPresent
  <1>1. latest[x] \in -1..(MaxVersion - 1)
    BY DEF GInv, TypeOK
  <1>2. /\ latest[x] >= 0 => latest[x] \in Version
        /\ NewVersion(latest[x]) \in Version
    BY <1>1, ConstantsAssumption DEF Version, NewVersion
  <1> QED
    BY <1>2 DEF GInv, ListedPresent

(* The version a writer is about to write is within the bound and every    *)
(* version below it is there.                                              *)
LEMMA PutBelowEnd ==
    ASSUME GInv, NEW w \in Writers, pc[w] = "put"
    PROVE  /\ NewVersion(latest[w]) \in Version
           /\ \A u \in Version : u < NewVersion(latest[w]) => log[u] # NoEntry
  <1>1. latest[w] \in -1..(MaxVersion - 1)
    BY DEF GInv, TypeOK
  <1>2. NewVersion(latest[w]) \in Version
    BY <1>1, ConstantsAssumption DEF NewVersion, Version
  <1>3. ASSUME NEW u \in Version, u < NewVersion(latest[w])
        PROVE  log[u] # NoEntry
    <2>1. latest[w] >= 0 /\ latest[w] \in Version /\ u <= latest[w]
      BY <1>1, <1>3, ConstantsAssumption DEF NewVersion, Version
    <2>2. log[latest[w]] # NoEntry
      BY <2>1 DEF GInv, ListedPresent
    <2> QED
      BY <1>1, <2>1, <2>2 DEF GInv, NoGaps, Version
  <1> QED
    BY <1>2, <1>3

(* Every step of every writer keeps the invariant, action by action.       *)
LEMMA GInvStep == GInv /\ [Next]_vars => GInv'
  <1> SUFFICES ASSUME GInv, [Next]_vars PROVE GInv'
    OBVIOUS
  <1> USE DEF GInv
  <1>0. NoEntry \notin Entry /\ CreateTable \in Entry
    BY ConstantsAssumption DEF Entry, CreateTable
  <1>1. ASSUME NEW w \in Writers, Begin(w) PROVE GInv'
    <2>1. TypeOK'
      BY <1>1 DEF Begin, TypeOK, Goto, store, Labels
    <2>2. pc'[w] = "initList" /\ UNCHANGED <<log, latest>>
      BY <1>1 DEF Begin, Goto, store, TypeOK
    <2>3. \A x \in Writers : x # w => pc'[x] = pc[x] /\ latest'[x] = latest[x]
      BY <1>1 DEF Begin, Goto, TypeOK
    <2> QED
      BY <2>1, <2>2, <2>3, QuietStep DEF AfterPut
  <1>2. ASSUME NEW w \in Writers, InitList(w) PROVE GInv'
    <2>1. /\ UNCHANGED <<store, used, acked>>
          /\ \/ Goto(w, "initPut") /\ UNCHANGED <<adds, latest, attempt>>
             \/ Goto(w, "extract") /\ UNCHANGED <<adds, latest, attempt>>
             \/ Leave(w)
      BY <1>2 DEF InitList
    <2>2. CASE Leave(w)
      <3>1. TypeOK'
        BY <2>1, <2>2, LeaveTyped DEF TypeOK, store
      <3> QED
        BY <2>1, <2>2, <3>1, LeaveTyped, QuietStep DEF store, AfterPut
    <2>3. CASE ~Leave(w)
      <3>1. TypeOK'
        BY <2>1, <2>3 DEF TypeOK, store, Goto, Labels
      <3>2. pc'[w] \in {"initPut", "extract"} /\ UNCHANGED <<log, latest>>
        BY <2>1, <2>3 DEF Goto, store, TypeOK
      <3>3. \A x \in Writers : x # w => pc'[x] = pc[x] /\ latest'[x] = latest[x]
        BY <2>1, <2>3 DEF Goto, TypeOK
      <3> QED
        BY <3>1, <3>2, <3>3, QuietStep DEF AfterPut
    <2> QED
      BY <2>2, <2>3
  <1>3. ASSUME NEW w \in Writers, InitPut(w) PROVE GInv'
    <2>1. UNCHANGED <<checkpoint, marker, used, acked>>
      BY <1>3 DEF InitPut
    <2>2. /\ pc' \in [Writers -> Labels]
          /\ adds' \in [Writers -> SUBSET Files]
          /\ latest' \in [Writers -> -1..(MaxVersion - 1)]
          /\ attempt' \in [Writers -> 1..MaxAttempts]
          /\ pc'[w] \in {"idle", "extract"}
          /\ \A x \in Writers : x # w => pc'[x] = pc[x] /\ latest'[x] = latest[x]
      <3>1. CASE Leave(w)
        BY <3>1, LeaveTyped
      <3>2. CASE ~Leave(w)
        BY <1>3, <3>2 DEF InitPut, Goto, TypeOK, Labels
      <3> QED
        BY <3>1, <3>2
    <2>3. CASE UNCHANGED log
      <3>1. TypeOK'
        BY <2>1, <2>2, <2>3 DEF TypeOK
      <3> QED
        BY <2>2, <2>3, <3>1, QuietStep DEF AfterPut
    <2>4. CASE log' = [log EXCEPT ![0] = CreateTable]
      <3>1. /\ log' \in [Version -> Entry \cup {NoEntry}]
            /\ \A u \in Version : log[u] # NoEntry => log'[u] # NoEntry
            /\ NoGaps'
        <4>1. 0 \in Version /\ \A u \in Version : ~(u < 0)
          BY ConstantsAssumption DEF Version
        <4> QED
          BY <1>0, <2>4, <4>1, WriteStep
      <3>2. TypeOK'
        BY <2>1, <2>2, <3>1 DEF TypeOK
      <3>3. ListedPresent'
        BY <2>2, <3>1, GrowStep DEF AfterPut
      <3> QED
        BY <3>1, <3>2, <3>3
    <2> QED
      BY <1>3, <2>3, <2>4 DEF InitPut
  <1>4. ASSUME NEW w \in Writers, WriteFiles(w) PROVE GInv'
    <2>1. UNCHANGED <<log, checkpoint, marker, acked>>
      BY <1>4 DEF WriteFiles, store
    <2>2. CASE Leave(w) /\ UNCHANGED used
      <3>1. TypeOK'
        BY <2>1, <2>2, LeaveTyped DEF TypeOK
      <3> QED
        BY <2>1, <2>2, <3>1, LeaveTyped, QuietStep DEF AfterPut
    <2>3. CASE ~(Leave(w) /\ UNCHANGED used)
      <3>1. PICK S \in (SUBSET (Files \ used)) \ {{}} :
              /\ adds' = [adds EXCEPT ![w] = S]
              /\ used' = used \cup S
              /\ Goto(w, "list")
              /\ UNCHANGED <<latest, attempt>>
        BY <1>4, <2>3 DEF WriteFiles
      <3>2. TypeOK'
        BY <2>1, <3>1 DEF TypeOK, Goto, Labels
      <3>3. pc'[w] = "list" /\ \A x \in Writers : x # w => pc'[x] = pc[x] /\ latest'[x] = latest[x]
        BY <3>1 DEF Goto, TypeOK
      <3> QED
        BY <2>1, <3>2, <3>3, QuietStep DEF AfterPut
    <2> QED
      BY <2>2, <2>3
  <1>5. ASSUME NEW w \in Writers, CommitList(w) PROVE GInv'
    <2>1. UNCHANGED <<log, checkpoint, marker, used, acked>>
      BY <1>5 DEF CommitList, store
    <2>2. CASE Retry(w)
      <3>1. TypeOK'
        BY <2>1, <2>2, RetryTyped DEF TypeOK
      <3> QED
        BY <2>1, <2>2, <3>1, RetryTyped, QuietStep DEF AfterPut
    <2>3. CASE ~Retry(w)
      <3>1. PICK v \in -1..(MaxVersion - 1) :
              /\ IsLatest(v)
              /\ latest' = [latest EXCEPT ![w] = v]
              /\ Goto(w, "put")
              /\ UNCHANGED <<adds, attempt>>
        BY <1>5, <2>3 DEF CommitList
      <3>2. TypeOK'
        BY <2>1, <3>1 DEF TypeOK, Goto, Labels
      <3>3. NoGaps'
        BY <2>1 DEF NoGaps
      <3>4. ListedPresent'
        BY <2>1, <3>1 DEF ListedPresent, Goto, TypeOK, IsLatest, AfterPut, NewVersion
      <3> QED
        BY <3>2, <3>3, <3>4
    <2> QED
      BY <2>2, <2>3
  <1>6. ASSUME NEW w \in Writers, CommitPut(w) PROVE GInv'
    <2> DEFINE v == NewVersion(latest[w])
    <2> DEFINE e == [adds |-> adds[w]]
    <2>1. pc[w] = "put" /\ UNCHANGED <<checkpoint, marker, used>> /\ e \in Entry
      BY <1>6 DEF CommitPut, TypeOK, Entry
    <2>2. v \in Version /\ \A u \in Version : u < v => log[u] # NoEntry
      BY <2>1, PutBelowEnd
    <2>3. CASE Retry(w) /\ UNCHANGED <<log, acked>>
      <3>1. TypeOK'
        BY <2>1, <2>3, RetryTyped DEF TypeOK
      <3> QED
        BY <2>3, <3>1, RetryTyped, QuietStep DEF AfterPut
    <2>4. CASE log' = [log EXCEPT ![v] = e] /\ Retry(w) /\ UNCHANGED acked
      <3>1. /\ log' \in [Version -> Entry \cup {NoEntry}]
            /\ \A u \in Version : log[u] # NoEntry => log'[u] # NoEntry
            /\ NoGaps'
        BY <2>1, <2>2, <2>4, WriteStep
      <3>2. TypeOK'
        BY <2>1, <2>4, <3>1, RetryTyped DEF TypeOK
      <3>3. ListedPresent'
        BY <2>4, <3>1, RetryTyped, GrowStep DEF AfterPut
      <3> QED
        BY <3>1, <3>2, <3>3
    <2>5. CASE /\ log' = [log EXCEPT ![v] = e]
               /\ acked' = acked \cup {<<v, e>>}
               /\ Goto(w, "maybeCheckpoint")
               /\ UNCHANGED <<adds, latest, attempt>>
      <3>1. /\ log' \in [Version -> Entry \cup {NoEntry}]
            /\ \A u \in Version : log[u] # NoEntry => log'[u] # NoEntry
            /\ log'[v] # NoEntry
            /\ NoGaps'
        BY <2>1, <2>2, <2>5, WriteStep
      <3>2. TypeOK'
        BY <2>1, <2>2, <2>5, <3>1 DEF TypeOK, Goto, Labels
      <3>3. ListedPresent'
        BY <2>5, <3>1, ConstantsAssumption
        DEF ListedPresent, AfterPut, NewVersion, TypeOK, Version, Goto
      <3> QED
        BY <3>1, <3>2, <3>3
    <2> QED
      BY <1>6, <2>3, <2>4, <2>5 DEF CommitPut
  <1>7. ASSUME NEW w \in Writers, MaybeCheckpoint(w) PROVE GInv'
    <2>1. UNCHANGED <<log, checkpoint, marker, used, acked>> /\ pc[w] = "maybeCheckpoint"
      BY <1>7 DEF MaybeCheckpoint, store
    <2>2. CASE Leave(w)
      <3>1. TypeOK'
        BY <2>1, <2>2, LeaveTyped DEF TypeOK
      <3> QED
        BY <2>1, <2>2, <3>1, LeaveTyped, QuietStep DEF AfterPut
    <2>3. CASE ~Leave(w)
      <3>1. Goto(w, "upload") /\ UNCHANGED <<adds, latest, attempt>>
        BY <1>7, <2>3 DEF MaybeCheckpoint
      <3>2. TypeOK'
        BY <2>1, <3>1 DEF TypeOK, Goto, Labels
      <3>3. NoGaps' /\ ListedPresent'
        BY <2>1, <3>1 DEF NoGaps, ListedPresent, Goto, TypeOK, AfterPut, NewVersion
      <3> QED
        BY <3>2, <3>3
    <2> QED
      BY <2>2, <2>3
  <1>8. ASSUME NEW w \in Writers, UploadCheckpoint(w) PROVE GInv'
    <2> DEFINE v == NewVersion(latest[w])
    <2>1. UNCHANGED <<log, marker, used, acked>> /\ pc[w] = "upload"
      BY <1>8 DEF UploadCheckpoint
    <2>2. v \in Version /\ log[v] # NoEntry
      BY <2>1, ConstantsAssumption DEF ListedPresent, AfterPut, TypeOK, NewVersion, Version
    <2>3. [adds |-> Snapshot(v)] \in Entry
      BY <2>2, SnapshotTyped DEF Entry
    <2>4. checkpoint' \in [Version -> Entry \cup {NoEntry}]
      BY <1>8, <2>2, <2>3 DEF UploadCheckpoint, TypeOK
    <2>5. CASE Leave(w)
      <3>1. TypeOK'
        BY <2>1, <2>4, <2>5, LeaveTyped DEF TypeOK
      <3> QED
        BY <2>1, <2>5, <3>1, LeaveTyped, QuietStep DEF AfterPut
    <2>6. CASE ~Leave(w)
      <3>1. Goto(w, "marker") /\ UNCHANGED <<adds, latest, attempt>>
        BY <1>8, <2>6 DEF UploadCheckpoint
      <3>2. TypeOK'
        BY <2>1, <2>4, <3>1 DEF TypeOK, Goto, Labels
      <3>3. NoGaps' /\ ListedPresent'
        BY <2>1, <3>1 DEF NoGaps, ListedPresent, Goto, TypeOK, AfterPut, NewVersion
      <3> QED
        BY <3>2, <3>3
    <2> QED
      BY <2>5, <2>6
  <1>9. ASSUME NEW w \in Writers, WriteMarker(w) PROVE GInv'
    <2>1. UNCHANGED <<log, checkpoint, used, acked>> /\ Leave(w)
      BY <1>9 DEF WriteMarker
    <2>2. marker' \in -1..MaxVersion
      BY <1>9, ConstantsAssumption DEF WriteMarker, TypeOK, NewVersion
    <2>3. TypeOK'
      BY <2>1, <2>2, LeaveTyped DEF TypeOK
    <2> QED
      BY <2>1, <2>3, LeaveTyped, QuietStep DEF AfterPut
  <1>10. ASSUME NEW w \in Writers, Crash(w) PROVE GInv'
    <2>1. UNCHANGED <<log, checkpoint, marker, used, acked>> /\ Leave(w)
      BY <1>10 DEF Crash, store
    <2>2. TypeOK'
      BY <2>1, LeaveTyped DEF TypeOK
    <2> QED
      BY <2>1, <2>2, LeaveTyped, QuietStep DEF AfterPut
  <1>11. CASE UNCHANGED vars
    BY <1>11 DEF vars, store, TypeOK, NoGaps, ListedPresent
  <1> QED
    BY <1>1, <1>2, <1>3, <1>4, <1>5, <1>6, <1>7, <1>8, <1>9, <1>10, <1>11
    DEF Next, Step

(* Types are respected: no writer ever exceeds its retry policy, no        *)
(* version leaves the log's range, no checkpoint holds anything but files. *)
THEOREM TypeCorrect == Spec => []TypeOK
  <1>1. GInv => TypeOK
    BY DEF GInv
  <1> QED
    BY <1>1, GInvInit, GInvStep, PTL DEF Spec

(* Whatever the number of writers, the log never has a hole, so a replay   *)
(* of versions 0..v always finds every entry it reads.                     *)
THEOREM LogHasNoGaps == Spec => []NoGaps
  <1>1. GInv => NoGaps
    BY DEF GInv
  <1> QED
    BY <1>1, GInvInit, GInvStep, PTL DEF Spec

-----------------------------------------------------------------------------
(* One writer per table                                                    *)

SingleWriter == \A u, w \in Writers : u = w

(* What the writer listed is still the end of the log when it writes.      *)
AtEnd ==
    \A w \in Writers :
        /\ pc[w] = "initPut" => IsLatest(-1)
        /\ pc[w] = "put" => IsLatest(latest[w])

\* The checkpoint for version v is there and equals a replay of the log.
Replays(v) ==
    /\ checkpoint[v] # NoEntry
    /\ \A u \in 0..v : log[u] # NoEntry
    /\ checkpoint[v].adds = Snapshot(v)

(* The checkpoint a writer is about to point _last_checkpoint at.          *)
MarkerReady ==
    \A w \in Writers : pc[w] = "marker" => Replays(NewVersion(latest[w]))

SInv == GInv /\ AtEnd /\ AckedDurable /\ MarkerReady /\ MarkerSound

(* The initial state satisfies the invariant of the single writer.         *)
LEMMA SInvInit == Init => SInv
  BY GInvInit DEF Init, SInv, AtEnd, AckedDurable, MarkerReady, MarkerSound

(* Every step is an append at the end of the log, or leaves the log and    *)
(* the acknowledgements alone.                                             *)
LEMMA AppendStep ==
    ASSUME SingleWriter, SInv, [Next]_vars
    PROVE  [Abstract!Next]_<<log, acked>>
  <1>0. CreateTable \in Entry /\ NoEntry \notin Entry
    BY ConstantsAssumption DEF Entry, CreateTable
  <1>1. ASSUME NEW w \in Writers, InitPut(w) PROVE [Abstract!Next]_<<log, acked>>
    <2>1. 0 \in Version /\ IsLatest(-1) /\ UNCHANGED acked
      BY <1>1, ConstantsAssumption DEF InitPut, SInv, AtEnd, Version
    <2>2. Abstract!IsEnd(0)
      BY <2>1, ConstantsAssumption DEF Abstract!IsEnd, Abstract!Version, IsLatest, Version
    <2>3. CASE UNCHANGED log
      BY <2>1, <2>3
    <2>4. CASE log' = [log EXCEPT ![0] = CreateTable]
      <3>1. Abstract!Append(0, CreateTable)
        BY <2>1, <2>2, <2>4 DEF Abstract!Append
      <3> QED
        BY <1>0, <2>1, <3>1 DEF Abstract!Next, Abstract!Version, Version
    <2> QED
      BY <1>1, <2>3, <2>4 DEF InitPut
  <1>2. ASSUME NEW w \in Writers, CommitPut(w) PROVE [Abstract!Next]_<<log, acked>>
    <2> DEFINE v == NewVersion(latest[w])
    <2> DEFINE e == [adds |-> adds[w]]
    <2>1. pc[w] = "put" /\ e \in Entry /\ latest[w] \in -1..(MaxVersion - 1)
      BY <1>2 DEF CommitPut, SInv, GInv, TypeOK, Entry
    <2>2. v \in Version /\ \A u \in Version : u < v => log[u] # NoEntry
      BY <2>1, PutBelowEnd DEF SInv
    <2>3. log[v] = NoEntry
      BY <2>1, <2>2 DEF SInv, AtEnd, IsLatest, NewVersion
    <2>4. Abstract!IsEnd(v)
      BY <2>2, <2>3 DEF Abstract!IsEnd, Abstract!Version, Version
    <2>5. CASE UNCHANGED <<log, acked>>
      BY <2>5
    <2>6. CASE /\ log' = [log EXCEPT ![v] = e]
               /\ acked' \in {acked, acked \cup {<<v, e>>}}
      <3>1. Abstract!Append(v, e)
        BY <2>4, <2>6 DEF Abstract!Append
      <3> QED
        BY <2>1, <2>2, <3>1 DEF Abstract!Next, Abstract!Version, Version
    <2> QED
      BY <1>2, <2>5, <2>6 DEF CommitPut
  <1>3. ASSUME NEW w \in Writers,
               \/ Begin(w) \/ InitList(w) \/ WriteFiles(w) \/ CommitList(w)
               \/ MaybeCheckpoint(w) \/ UploadCheckpoint(w) \/ WriteMarker(w) \/ Crash(w)
        PROVE  UNCHANGED <<log, acked>>
    BY <1>3 DEF Begin, InitList, WriteFiles, CommitList, MaybeCheckpoint,
                UploadCheckpoint, WriteMarker, Crash, store
  <1>4. CASE UNCHANGED vars
    BY <1>4 DEF vars, store
  <1> QED
    BY <1>1, <1>2, <1>3, <1>4 DEF Next, Step

(* What an append preserves: the entries there were, and the durability of *)
(* the acknowledged ones.                                                  *)
LEMMA AppendKeeps ==
    ASSUME GInv, AckedDurable, [Abstract!Next]_<<log, acked>>
    PROVE  Immutable /\ AckedDurable'
  <1>1. CASE UNCHANGED <<log, acked>>
    BY <1>1 DEF Immutable, AckedDurable
  <1>2. ASSUME NEW v \in Version, NEW e \in Entry, Abstract!Append(v, e)
        PROVE  Immutable /\ AckedDurable'
    <2>1. /\ log[v] = NoEntry
          /\ log' = [log EXCEPT ![v] = e]
          /\ acked' \in {acked, acked \cup {<<v, e>>}}
      BY <1>2 DEF Abstract!Append, Abstract!IsEnd
    <2>2. \A u \in Version : log'[u] = IF u = v THEN e ELSE log[u]
      BY <2>1 DEF GInv, TypeOK
    <2>3. Immutable
      BY <2>1, <2>2 DEF Immutable
    <2>4. ASSUME NEW a \in acked PROVE log'[a[1]] = a[2]
      <3>1. a[1] \in Version /\ a[2] \in Entry /\ log[a[1]] = a[2]
        BY <2>4 DEF GInv, TypeOK, AckedDurable
      <3>2. NoEntry \notin Entry
        BY ConstantsAssumption DEF Entry
      <3> QED
        BY <2>1, <2>2, <3>1, <3>2
    <2>5. AckedDurable'
      BY <2>1, <2>2, <2>4 DEF AckedDurable
    <2> QED
      BY <2>3, <2>5
  <1> QED
    BY <1>1, <1>2 DEF Abstract!Next, Abstract!Version, Version

(* A replay of entries that are there gives the same answer afterwards.    *)
LEMMA ReplayKept ==
    ASSUME Immutable, NEW v \in Version, \A u \in 0..v : log[u] # NoEntry
    PROVE  /\ \A u \in 0..v : log'[u] # NoEntry
           /\ Snapshot(v)' = Snapshot(v)
  <1>1. \A u \in 0..v : u \in Version
    BY ConstantsAssumption DEF Version
  <1>2. \A u \in 0..v : log'[u] = log[u]
    BY <1>1 DEF Immutable
  <1> QED
    BY <1>2 DEF Snapshot

(* Every step of the single writer keeps its invariant: the log by         *)
(* AppendStep, then where the writer is, then the checkpoint and marker.   *)
LEMMA SInvStep ==
    ASSUME SingleWriter, SInv, [Next]_vars
    PROVE  SInv'
  <1>1. GInv'
    BY GInvStep DEF SInv
  <1>2. Immutable /\ AckedDurable'
    BY AppendStep, AppendKeeps DEF SInv
  <1>3. ASSUME NEW w \in Writers,
               \/ Begin(w) \/ InitList(w) \/ InitPut(w) \/ WriteFiles(w) \/ CommitList(w)
               \/ CommitPut(w) \/ MaybeCheckpoint(w) \/ UploadCheckpoint(w)
               \/ WriteMarker(w) \/ Crash(w)
        PROVE  AtEnd'
    <2>0. Writers = {w}
      BY <1>3 DEF SingleWriter
    <2>1. CASE InitList(w)
      <3>1. UNCHANGED log /\ (Leave(w) \/ (Goto(w, "initPut") /\ IsLatest(-1)) \/ Goto(w, "extract"))
        BY <2>1 DEF InitList, store
      <3>2. pc'[w] = "idle" \/ pc'[w] = "extract" \/ (pc'[w] = "initPut" /\ IsLatest(-1))
        BY <3>1 DEF Leave, Goto, SInv, GInv, TypeOK
      <3>3. pc'[w] = "initPut" => IsLatest(-1)'
        BY <3>1, <3>2 DEF IsLatest
      <3> QED
        BY <2>0, <3>2, <3>3 DEF AtEnd
    <2>2. CASE CommitList(w)
      <3>1. UNCHANGED log
        BY <2>2 DEF CommitList, store
      <3>2. CASE Retry(w)
        BY <2>0, <3>2, RetryTyped DEF AtEnd, SInv, GInv
      <3>3. CASE ~Retry(w)
        <4>1. PICK v \in -1..(MaxVersion - 1) :
                IsLatest(v) /\ latest' = [latest EXCEPT ![w] = v] /\ Goto(w, "put")
          BY <2>2, <3>3 DEF CommitList
        <4>2. latest'[w] = v /\ pc'[w] = "put" /\ IsLatest(v)'
          BY <3>1, <4>1 DEF Goto, SInv, GInv, TypeOK, IsLatest
        <4>3. IsLatest(latest[w])'
          BY <4>2 DEF IsLatest
        <4> QED
          BY <2>0, <4>2, <4>3 DEF AtEnd
      <3> QED
        BY <3>2, <3>3
    <2>3. CASE ~InitList(w) /\ ~CommitList(w)
      <3>1. pc'[w] \notin {"initPut", "put"}
        <4>1. CASE Leave(w)
          BY <4>1, LeaveTyped DEF SInv, GInv
        <4>2. CASE Retry(w)
          BY <4>2, RetryTyped DEF SInv, GInv
        <4>3. CASE ~Leave(w) /\ ~Retry(w)
          BY <1>3, <2>3, <4>3
          DEF Begin, InitPut, WriteFiles, CommitPut, MaybeCheckpoint, UploadCheckpoint,
              WriteMarker, Crash, Goto, SInv, GInv, TypeOK
        <4> QED
          BY <4>1, <4>2, <4>3
      <3> QED
        BY <2>0, <3>1 DEF AtEnd
    <2> QED
      BY <2>1, <2>2, <2>3
  <1>4. ASSUME NEW w \in Writers,
               \/ Begin(w) \/ InitList(w) \/ InitPut(w) \/ WriteFiles(w) \/ CommitList(w)
               \/ CommitPut(w) \/ MaybeCheckpoint(w) \/ UploadCheckpoint(w)
               \/ WriteMarker(w) \/ Crash(w)
        PROVE  MarkerReady' /\ MarkerSound'
    <2> DEFINE v == NewVersion(latest[w])
    <2>0. Writers = {w}
      BY <1>4 DEF SingleWriter
    <2>1. CASE UploadCheckpoint(w)
      <3>1. pc[w] = "upload" /\ UNCHANGED <<log, marker>>
        BY <2>1 DEF UploadCheckpoint
      <3>2. v \in Version /\ log[v] # NoEntry
        BY <3>1, ConstantsAssumption
        DEF SInv, GInv, ListedPresent, AfterPut, TypeOK, NewVersion, Version
      <3>3. (\A u \in 0..v : log[u] # NoEntry) /\ [adds |-> Snapshot(v)] \in Entry
        BY <3>2, SnapshotTyped, ConstantsAssumption DEF SInv, GInv, Entry, NoGaps, Version
      <3>4. \/ /\ checkpoint' = [checkpoint EXCEPT ![v] = [adds |-> Snapshot(v)]]
               /\ checkpoint'[v] = [adds |-> Snapshot(v)]
            \/ UNCHANGED checkpoint /\ Leave(w)
        BY <2>1, <3>2 DEF UploadCheckpoint, SInv, GInv, TypeOK
      <3>5. [adds |-> Snapshot(v)] # NoEntry
        BY <3>3, ConstantsAssumption DEF Entry
      <3>6. MarkerReady'
        <4>1. CASE Leave(w)
          BY <2>0, <4>1, LeaveTyped DEF MarkerReady, SInv, GInv
        <4>2. CASE ~Leave(w)
          <5>1. UNCHANGED latest /\ checkpoint'[v] = [adds |-> Snapshot(v)]
            BY <2>1, <3>4, <4>2 DEF UploadCheckpoint
          <5>2. Replays(NewVersion(latest[w]))'
            BY <3>1, <3>3, <3>5, <5>1 DEF Replays, Snapshot
          <5> QED
            BY <2>0, <5>2 DEF MarkerReady
        <4> QED
          BY <4>1, <4>2
      <3>7. MarkerSound'
        <4>1. CASE marker < 0
          BY <3>1, <4>1 DEF MarkerSound, SInv, GInv, TypeOK
        <4>2. CASE marker >= 0
          <5>1. marker \in Version /\ Replays(marker)
            BY <4>2, ConstantsAssumption
            DEF SInv, MarkerSound, Replays, GInv, TypeOK, Version
          <5>2. checkpoint'[marker] \in {checkpoint[marker], [adds |-> Snapshot(v)]}
                /\ (checkpoint'[marker] # checkpoint[marker] => marker = v)
            BY <3>2, <3>4, <5>1 DEF SInv, GInv, TypeOK
          <5>3. /\ checkpoint'[marker] # NoEntry
                /\ checkpoint'[marker].adds = Snapshot(marker)
            BY <3>5, <5>1, <5>2 DEF Replays
          <5> QED
            BY <3>1, <5>1, <5>3 DEF MarkerSound, Replays, Snapshot
        <4> QED
          BY <4>1, <4>2 DEF SInv, GInv, TypeOK
      <3> QED
        BY <3>6, <3>7
    <2>2. CASE WriteMarker(w)
      <3>1. /\ pc[w] = "marker" /\ UNCHANGED <<log, checkpoint>> /\ Leave(w)
            /\ marker' \in {marker, v}
        BY <2>2 DEF WriteMarker
      <3>2. Replays(v)
        BY <3>1 DEF SInv, MarkerReady
      <3>3. MarkerReady'
        BY <2>0, <3>1, LeaveTyped DEF MarkerReady, SInv, GInv
      <3>4. MarkerSound'
        BY <3>1, <3>2 DEF MarkerSound, Replays, SInv, Snapshot
      <3> QED
        BY <3>3, <3>4
    <2>3. CASE ~UploadCheckpoint(w) /\ ~WriteMarker(w)
      <3>1. UNCHANGED <<checkpoint, marker>>
        BY <1>4, <2>3 DEF Begin, InitList, InitPut, WriteFiles, CommitList, CommitPut,
                          MaybeCheckpoint, Crash, store
      <3>2. pc'[w] # "marker"
        <4>1. CASE Leave(w)
          BY <4>1, LeaveTyped DEF SInv, GInv
        <4>2. CASE Retry(w)
          BY <4>2, RetryTyped DEF SInv, GInv
        <4>3. CASE ~Leave(w) /\ ~Retry(w)
          BY <1>4, <2>3, <4>3
          DEF Begin, InitList, InitPut, WriteFiles, CommitList, CommitPut, MaybeCheckpoint,
              Crash, Goto, SInv, GInv, TypeOK
        <4> QED
          BY <4>1, <4>2, <4>3
      <3>3. MarkerReady'
        BY <2>0, <3>2 DEF MarkerReady
      <3>4. MarkerSound'
        <4>1. CASE marker < 0
          BY <3>1, <4>1 DEF MarkerSound, SInv, GInv, TypeOK
        <4>2. CASE marker >= 0
          <5>1. marker \in Version /\ Replays(marker)
            BY <4>2, ConstantsAssumption
            DEF SInv, MarkerSound, Replays, GInv, TypeOK, Version
          <5>2. (\A u \in 0..marker : log'[u] # NoEntry) /\ Snapshot(marker)' = Snapshot(marker)
            BY <1>2, <3>1, <5>1, ReplayKept DEF Replays
          <5> QED
            BY <3>1, <5>1, <5>2 DEF MarkerSound, Replays
        <4> QED
          BY <4>1, <4>2 DEF SInv, GInv, TypeOK
      <3> QED
        BY <3>3, <3>4
    <2> QED
      BY <2>1, <2>2, <2>3
  <1>5. CASE UNCHANGED vars
    BY <1>1, <1>2, <1>5
    DEF vars, store, SInv, AtEnd, IsLatest, MarkerReady, MarkerSound, Replays, Snapshot
  <1> QED
    BY <1>1, <1>2, <1>3, <1>4, <1>5 DEF SInv, Next, Step

(* With one writer, a commit that was reported to its caller is there for  *)
(* good: retries of ambiguous uploads, later runs and crashes keep it.     *)
THEOREM AckedCommitsSurvive ==
    ASSUME SingleWriter PROVE Spec => []AckedDurable
  <1>1. SInv /\ [Next]_vars => SInv'
    BY SInvStep
  <1>2. SInv => AckedDurable
    BY DEF SInv
  <1> QED
    BY <1>1, <1>2, SInvInit, PTL DEF Spec

(* With one writer, no step replaces an entry of the log by another, so    *)
(* time travel to a version always gives the same answer.                  *)
THEOREM EntriesNeverReplaced ==
    ASSUME SingleWriter PROVE Spec => EntriesImmutable
  <1>1. SInv /\ [Next]_vars => SInv'
    BY SInvStep
  <1>2. SInv /\ [Next]_vars => [Immutable]_vars
    BY AppendStep, AppendKeeps DEF SInv
  <1> QED
    BY <1>1, <1>2, SInvInit, PTL DEF Spec, EntriesImmutable

(* With one writer, _last_checkpoint always names a checkpoint that equals *)
(* a replay of the log, wherever the process stopped.                      *)
THEOREM MarkerAlwaysSound ==
    ASSUME SingleWriter PROVE Spec => []MarkerSound
  <1>1. SInv /\ [Next]_vars => SInv'
    BY SInvStep
  <1>2. SInv => MarkerSound
    BY DEF SInv
  <1> QED
    BY <1>1, <1>2, SInvInit, PTL DEF Spec

(* With one writer, the table of log.go, table.go and checkpoint.go        *)
(* implements the append-only log: every step of syncObject is an append   *)
(* at the end of the log or changes neither log nor acknowledgements.      *)
THEOREM TableIsAppendOnlyLog ==
    ASSUME SingleWriter PROVE Spec => ImplementsAppendOnlyLog
  <1>1. SInv /\ [Next]_vars => SInv'
    BY SInvStep
  <1>2. Init => Abstract!Init
    BY DEF Init, Abstract!Init, Abstract!Version, Version
  <1>3. SInv /\ [Next]_vars => [Abstract!Next]_(Abstract!vars)
    BY AppendStep DEF Abstract!vars
  <1> QED
    BY <1>1, <1>2, <1>3, SInvInit, PTL DEF Spec, ImplementsAppendOnlyLog, Abstract!Spec

-----------------------------------------------------------------------------
(* Any number of writers: what they can do to the log and to their files.  *)

Action(w) == Begin(w) \/ Step(w) \/ Crash(w)

(* A step leaves the log alone, initialises the table or puts a commit.    *)
LEMMA LogChanges ==
    ASSUME NEW w \in Writers, Action(w)
    PROVE  \/ UNCHANGED log
           \/ pc[w] = "initPut" /\ log' = [log EXCEPT ![0] = CreateTable]
           \/ /\ pc[w] = "put"
              /\ log' = [log EXCEPT ![NewVersion(latest[w])] = [adds |-> adds[w]]]
  BY DEF Action, Step, Begin, InitList, InitPut, WriteFiles, CommitList, CommitPut,
         MaybeCheckpoint, UploadCheckpoint, WriteMarker, Crash, store

(* A step leaves the writers' files alone, drops those of its writer, or   *)
(* draws new ones for it.                                                  *)
LEMMA AddsChange ==
    ASSUME NEW w \in Writers, Action(w)
    PROVE  \/ UNCHANGED <<adds, used>>
           \/ adds' = [adds EXCEPT ![w] = {}] /\ UNCHANGED used
           \/ /\ UNCHANGED log
              /\ \E S \in SUBSET (Files \ used) :
                    adds' = [adds EXCEPT ![w] = S] /\ used' = used \cup S
  BY DEF Action, Step, Begin, InitList, InitPut, WriteFiles, CommitList, CommitPut,
         MaybeCheckpoint, UploadCheckpoint, WriteMarker, Crash, store, Leave, Retry

\* A file belongs to one commit: of a writer, or of the entries it has put.
FilesOwned ==
    /\ \A w \in Writers : adds[w] \subseteq used
    /\ \A v \in Version : log[v] # NoEntry => log[v].adds \subseteq used
    /\ \A w, x \in Writers : w # x => adds[w] \cap adds[x] = {}
    /\ \A w \in Writers, v \in Version :
          log[v] # NoEntry /\ log[v].adds \cap adds[w] # {} => log[v].adds = adds[w]

FInv == TypeOK /\ FilesOwned /\ CopiesAreExact

(* Where the entry of a step that draws no files fits in.                  *)
LEMMA LogKeepsOwners ==
    ASSUME FInv, TypeOK', NEW w \in Writers, Action(w), UNCHANGED used,
           \A x \in Writers : adds'[x] = adds[x] \/ adds'[x] = {}
    PROVE  FInv'
  <1> USE ConstantsAssumption DEF FInv
  <1>1. CASE UNCHANGED log
    BY <1>1 DEF FilesOwned, CopiesAreExact
  <1>2. ASSUME NEW n \in Version, NEW S \in SUBSET Files,
               S \subseteq used,
               \A x \in Writers : S \cap adds[x] # {} => S = adds[x],
               \A v \in Version : log[v] # NoEntry /\ log[v].adds \cap S # {}
                                   => log[v].adds = S,
               log' = [log EXCEPT ![n] = [adds |-> S]]
        PROVE  FInv'
    <2>1. /\ log'[n] = [adds |-> S] /\ log'[n].adds = S
          /\ \A v \in Version : v # n => log'[v] = log[v]
      BY <1>2 DEF TypeOK
    <2>2. FilesOwned'
      BY <1>2, <2>1 DEF FilesOwned
    <2>3. CopiesAreExact'
      <3> SUFFICES ASSUME NEW u \in Version, NEW v \in Version,
                          log'[u] # NoEntry, log'[v] # NoEntry,
                          log'[u].adds \cap log'[v].adds # {}
                   PROVE  log'[u] = log'[v]
        BY DEF CopiesAreExact
      <3>1. CASE u # n /\ v # n
        BY <2>1, <3>1 DEF CopiesAreExact
      <3>2. \A x \in Version : log[x] # NoEntry => log[x] = [adds |-> log[x].adds]
        BY DEF TypeOK, Entry
      <3>3. CASE u = n /\ v # n
        BY <1>2, <2>1, <3>2, <3>3
      <3>4. CASE u # n /\ v = n
        BY <1>2, <2>1, <3>2, <3>4
      <3> QED
        BY <3>1, <3>3, <3>4
    <2> QED
      BY <2>2, <2>3
  <1>3. CASE log' = [log EXCEPT ![0] = CreateTable]
    <2>1. 0 \in Version /\ {} \in SUBSET Files /\ CreateTable = [adds |-> {}]
      BY DEF Version, CreateTable
    <2> QED
      BY <1>2, <1>3, <2>1
  <1>4. CASE /\ pc[w] = "put"
             /\ log' = [log EXCEPT ![NewVersion(latest[w])] = [adds |-> adds[w]]]
    <2>1. NewVersion(latest[w]) \in Version /\ adds[w] \in SUBSET Files
      BY DEF TypeOK, NewVersion, Version
    <2>2. adds[w] \subseteq used
          /\ \A x \in Writers : adds[w] \cap adds[x] # {} => adds[w] = adds[x]
      BY DEF FilesOwned
    <2>3. \A v \in Version : log[v] # NoEntry /\ log[v].adds \cap adds[w] # {}
                              => log[v].adds = adds[w]
      BY DEF FilesOwned
    <2> QED
      BY <1>2, <1>4, <2>1, <2>2, <2>3
  <1> QED
    BY <1>1, <1>3, <1>4, LogChanges

LEMMA FInvStep == FInv /\ TypeOK' /\ [Next]_vars => FInv'
  <1> SUFFICES ASSUME FInv, TypeOK', [Next]_vars PROVE FInv'
    OBVIOUS
  <1> USE DEF FInv
  <1>1. ASSUME NEW w \in Writers, Action(w) PROVE FInv'
    <2>1. CASE UNCHANGED <<adds, used>>
      BY <1>1, <2>1, LogKeepsOwners
    <2>2. CASE adds' = [adds EXCEPT ![w] = {}] /\ UNCHANGED used
      <3>1. \A x \in Writers : adds'[x] = adds[x] \/ adds'[x] = {}
        BY <2>2 DEF TypeOK
      <3> QED
        BY <1>1, <2>2, <3>1, LogKeepsOwners
    <2>3. ASSUME NEW S \in SUBSET (Files \ used), UNCHANGED log,
                 adds' = [adds EXCEPT ![w] = S], used' = used \cup S
          PROVE  FInv'
      <3>1. adds'[w] = S /\ \A x \in Writers : x # w => adds'[x] = adds[x]
        BY <2>3 DEF TypeOK
      <3>2. FilesOwned'
        BY <2>3, <3>1 DEF FilesOwned
      <3> QED
        BY <2>3, <3>2 DEF CopiesAreExact
    <2> QED
      BY <1>1, <2>1, <2>2, <2>3, AddsChange
  <1>2. CASE UNCHANGED vars
    BY <1>2 DEF vars, store, FilesOwned, CopiesAreExact
  <1> QED
    BY <1>1, <1>2 DEF Next, Action

(* Whoever else writes the table, two versions that share a data file are  *)
(* the same commit twice: no sync's files end up in another's entry.       *)
THEOREM CopiesAlwaysExact == Spec => []CopiesAreExact
  <1>1. Init /\ TypeOK => FInv
    BY ConstantsAssumption DEF Init, FInv, FilesOwned, CopiesAreExact, TypeOK
  <1>2. FInv /\ TypeOK' /\ [Next]_vars => FInv'
    BY FInvStep
  <1>3. FInv => CopiesAreExact
    BY DEF FInv
  <1> QED
    BY <1>1, <1>2, <1>3, TypeCorrect, PTL DEF Spec

-----------------------------------------------------------------------------
(* Any number of writers: version 0.  A writer past Initialize has seen or *)
(* made it, so the version its LatestVersion returned is not -1.           *)

PastInit == {"extract", "list", "put"} \cup AfterPut
Described ==
    /\ \A w \in Writers : pc[w] \in PastInit => log[0] # NoEntry
    /\ \A w \in Writers : pc[w] = "put" => latest[w] >= 0

KInv == GInv /\ CreateTableKept /\ Described

\* The labels a step leads to, and what it has seen of the log.
LEMMA LabelsChange ==
    ASSUME TypeOK, NEW w \in Writers, Action(w)
    PROVE  /\ \A x \in Writers : x # w => pc'[x] = pc[x] /\ latest'[x] = latest[x]
           /\ \/ pc'[w] \in {"idle", "initList", "initPut"}
              \/ /\ pc'[w] = "extract"
                 /\ \/ ~IsLatest(-1)
                    \/ log' = [log EXCEPT ![0] = CreateTable]
              \/ pc[w] \in PastInit /\ pc'[w] \in PastInit \ {"extract", "put"}
              \/ /\ pc[w] = "list" /\ pc'[w] = "put"
                 /\ latest'[w] \in -1..(MaxVersion - 1) /\ IsLatest(latest'[w])
                 /\ UNCHANGED log
  <1>1. ASSUME NEW l, Goto(w, l)
        PROVE  pc'[w] = l /\ \A x \in Writers : x # w => pc'[x] = pc[x]
    BY <1>1 DEF TypeOK, Goto
  <1>2. CASE Leave(w)
    BY <1>1, <1>2 DEF TypeOK, Leave
  <1>3. CASE UNCHANGED latest /\ \E l \in {"initList", "initPut"} : Goto(w, l)
    BY <1>1, <1>3
  <1>4. CASE Retry(w) /\ pc[w] \in PastInit
    BY <1>1, <1>2, <1>4 DEF Retry, PastInit, AfterPut
  <1>5. CASE /\ UNCHANGED latest /\ Goto(w, "extract")
             /\ ~IsLatest(-1) \/ log' = [log EXCEPT ![0] = CreateTable]
    BY <1>1, <1>5
  <1>6. CASE /\ UNCHANGED latest /\ pc[w] \in PastInit
             /\ \E l \in PastInit \ {"extract", "put"} : Goto(w, l)
    BY <1>1, <1>6
  <1>7. CASE /\ pc[w] = "list" /\ Goto(w, "put") /\ UNCHANGED log
             /\ \E v \in -1..(MaxVersion - 1) :
                   IsLatest(v) /\ latest' = [latest EXCEPT ![w] = v]
    BY <1>1, <1>7 DEF TypeOK
  <1>8. CASE Begin(w) \/ Crash(w) \/ InitList(w) \/ InitPut(w)
    BY <1>2, <1>3, <1>5, <1>8 DEF Begin, Crash, InitList, InitPut, store
  <1>9. CASE WriteFiles(w) \/ CommitList(w) \/ CommitPut(w)
    BY <1>2, <1>4, <1>6, <1>7, <1>9
    DEF WriteFiles, CommitList, CommitPut, store, PastInit, AfterPut
  <1>10. CASE MaybeCheckpoint(w) \/ UploadCheckpoint(w) \/ WriteMarker(w)
    BY <1>2, <1>6, <1>10
    DEF MaybeCheckpoint, UploadCheckpoint, WriteMarker, store, PastInit, AfterPut
  <1> QED
    BY <1>8, <1>9, <1>10 DEF Action, Step

LEMMA KInvStep == KInv /\ [Next]_vars => KInv'
  <1> SUFFICES ASSUME KInv, [Next]_vars PROVE KInv'
    OBVIOUS
  <1> USE ConstantsAssumption DEF KInv
  <1>1. GInv'
    BY GInvStep
  <1>2. 0 \in Version /\ CreateTable # NoEntry /\ CreateTable = [adds |-> {}]
    BY DEF Version, CreateTable
  <1>3. ASSUME NEW w \in Writers, Action(w) PROVE CreateTableKept' /\ Described'
    <2>1. TypeOK /\ TypeOK' /\ NoGaps
      BY <1>1 DEF GInv
    <2>0. ASSUME log'[0] # NoEntry, NEW x \in Writers, pc'[x] = "put"
          PROVE  latest'[x] >= 0
      <3>1. CASE x = w
        <4>1. latest'[w] \in -1..(MaxVersion - 1) /\ IsLatest(latest'[w]) /\ UNCHANGED log
          BY <1>3, <2>1, <2>0, <3>1, LabelsChange
        <4>2. latest'[w] # -1
          BY <1>2, <2>0, <4>1 DEF IsLatest
        <4> QED
          BY <3>1, <4>1, <4>2
      <3>2. CASE x # w
        BY <1>3, <2>1, <2>0, <3>2, LabelsChange DEF Described
      <3> QED
        BY <3>1, <3>2
    <2>2. CASE UNCHANGED log
      <3>1. CreateTableKept'
        BY <2>2 DEF CreateTableKept
      <3>2. \A x \in Writers : pc'[x] \in PastInit => log[0] # NoEntry
        BY <1>2, <1>3, <2>1, <2>2, LabelsChange
        DEF Described, IsLatest, CreateTableKept, PastInit, AfterPut, TypeOK
      <3> QED
        BY <2>0, <2>2, <3>1, <3>2 DEF Described, PastInit, AfterPut
    <2>3. CASE log' = [log EXCEPT ![0] = CreateTable]
      <3>1. log'[0] = CreateTable
        BY <1>2, <2>1, <2>3 DEF TypeOK
      <3>2. CreateTableKept' /\ \A x \in Writers : pc'[x] \in PastInit => log'[0] # NoEntry
        BY <1>2, <3>1 DEF CreateTableKept
      <3> QED
        BY <1>2, <2>0, <3>1, <3>2 DEF Described
    <2>4. CASE /\ pc[w] = "put"
               /\ log' = [log EXCEPT ![NewVersion(latest[w])] = [adds |-> adds[w]]]
      <3>1. log[0] = CreateTable /\ NewVersion(latest[w]) # 0 /\ latest[w] >= 0
        BY <1>2, <2>1, <2>4 DEF Described, PastInit, CreateTableKept, NewVersion, TypeOK
      <3>2. log'[0] = CreateTable
        BY <1>2, <2>1, <2>4, <3>1 DEF TypeOK
      <3>3. CreateTableKept' /\ \A x \in Writers : pc'[x] \in PastInit => log'[0] # NoEntry
        BY <1>2, <3>2 DEF CreateTableKept
      <3>4. \A x \in Writers : pc'[x] = "put" => latest'[x] >= 0
        BY <1>3, <2>1, <2>4, LabelsChange DEF Described, PastInit, AfterPut
      <3> QED
        BY <3>3, <3>4 DEF Described
    <2> QED
      BY <1>3, <2>2, <2>3, <2>4, LogChanges
  <1>4. CASE UNCHANGED vars
    <2>1. log' = log /\ pc' = pc /\ latest' = latest
      BY <1>4 DEF vars, store
    <2>2. CreateTableKept'
      BY <2>1 DEF CreateTableKept
    <2>3. Described'
      BY <2>1 DEF Described, PastInit, AfterPut
    <2> QED
      BY <1>1, <2>2, <2>3
  <1>5. CASE Next
    <2>1. PICK w \in Writers : Action(w)
      BY <1>5 DEF Next, Action
    <2> QED
      BY <1>1, <1>3, <2>1
  <1> QED
    BY <1>4, <1>1, <1>5

(* However many runs initialise the table, and however late, no data       *)
(* commit ever takes version 0: Snapshot finds protocol and metadata.      *)
THEOREM VersionZeroKept == Spec => []CreateTableKept
  <1>1. Init => KInv
    BY GInvInit, ConstantsAssumption
    DEF Init, KInv, CreateTableKept, Described, PastInit, AfterPut
  <1>2. KInv /\ [Next]_vars => KInv'
    BY KInvStep
  <1>3. KInv => CreateTableKept
    BY DEF KInv
  <1> QED
    BY <1>1, <1>2, <1>3, PTL DEF Spec
=============================================================================
