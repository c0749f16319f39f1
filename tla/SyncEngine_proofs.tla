-------------------------- MODULE SyncEngine_proofs --------------------------
(***************************************************************************)
(* Proofs about SyncEngine for any finite set of objects and any bounds.   *)
(*                                                                         *)
(* The invariant follows one object through a run: what the watermarks in  *)
(* S3 and in memory cover, that an incremental query starts from one that  *)
(* covers everything before it, and that the point an extraction reached   *)
(* is never before the moment the run was planned.                         *)
(***************************************************************************)
EXTENDS SyncEngine, FiniteSetTheorems, TLAPS

-----------------------------------------------------------------------------
(* The invariant                                                           *)

(* Watermarks are in the past and cover what came before them; the one in  *)
(* memory is never behind the one in S3.                                   *)
WatermarksCover(o) ==
    /\ saved[o] # None => saved[o] <= source[o] /\ Covered(o, saved[o])
    /\ state[o] # None => state[o] <= source[o] /\ Covered(o, state[o])
    /\ saved[o] # None /\ state[o] # None => saved[o] <= state[o]

(* Where a worker has got to, and what it has brought over by then.        *)
Progress(o) ==
    /\ began[o] <= source[o] /\ asked[o] <= source[o] /\ mark[o] <= source[o]
    /\ mode[o] # "skip" => pc[o] # "off"
    /\ pc[o] \in {"queued", "extract", "commit"} /\ mode[o] = "incremental" => state[o] # None
    /\ pc[o] \in {"commit", "update", "store"} => began[o] <= asked[o]
    /\ pc[o] \in {"update", "store"} => Covered(o, asked[o])
    /\ pc[o] = "store" => Covered(o, mark[o]) /\ (saved[o] # None => saved[o] <= mark[o])
    /\ pc[o] \in {"release", "done"} /\ o \notin errors => Covered(o, began[o]) \/ SkipFailedObjects

Sound(o) == WatermarksCover(o) /\ Progress(o)

AllDone == runpc \in {"save", "report"} => \A o \in Objects : pc[o] \in {"off", "done"}

EInv == Typed /\ AllDone /\ \A o \in Objects : Sound(o)

(* Covered up to w is covered up to anything before w.                     *)
LEMMA CoveredUpTo ==
    ASSUME NEW o, NEW v \in Nat, NEW w \in Nat, v <= w, Covered(o, w)
    PROVE  Covered(o, v)
  BY DEF Covered

(* Nothing was synced and nothing is claimed.                              *)
LEMMA EInvInit == Init => EInv
  <1> SUFFICES ASSUME Init PROVE EInv
    OBVIOUS
  <1>1. Typed
    BY EngineAssumption DEF Init, Typed, Moment, Modes, Labels
  <1>2. \A o \in Objects : Sound(o)
    BY DEF Init, Sound, WatermarksCover, Progress, Covered
  <1> QED
    BY <1>1, <1>2 DEF EInv, AllDone, Init

-----------------------------------------------------------------------------
(* The worker of one object                                                *)

(* Everything that belongs to x is as it was.                              *)
Same(x) ==
    /\ source'[x] = source[x] /\ table'[x] = table[x] /\ saved'[x] = saved[x]
    /\ state'[x] = state[x] /\ mode'[x] = mode[x] /\ pc'[x] = pc[x]
    /\ asked'[x] = asked[x] /\ mark'[x] = mark[x]
    /\ began'[x] = began[x] /\ blind'[x] = blind[x]
    /\ (x \in errors' <=> x \in errors)

(* An object that nothing touches is as sound as it was.                   *)
LEMMA SameSound ==
    ASSUME NEW x \in Objects, Sound(x), Same(x)
    PROVE  Sound(x)'
  BY DEF Sound, WatermarksCover, Progress, Covered, Same

OnlyAt(o) == \A x \in Objects \ {o} : Same(x)

(* What Continue, RetryOrFail and Fail do: move this worker's label; only  *)
(* a failure ends it with an error.                                        *)
LEMMA Moves ==
    ASSUME Typed, NEW o \in Objects, NEW label \in Labels,
           Continue(o, label) \/ RetryOrFail(o)
    PROVE  /\ pc' \in [Objects -> Labels] /\ attempt' \in [Objects -> 1..MaxAttempts]
           /\ errors' \subseteq Objects /\ failedNow' \subseteq Objects
           /\ \A x \in Objects \ {o} : pc'[x] = pc[x] /\ (x \in errors' <=> x \in errors)
           /\ \/ Continue(o, label) /\ pc'[o] = label /\ errors' = errors
              \/ pc'[o] = "extract" /\ errors' = errors
              \/ pc'[o] = "release" /\ o \in errors'
  <1>1. CASE Continue(o, label)
    BY <1>1 DEF Typed, Continue, Goto
  <1>2. CASE Fail(o)
    BY <1>2 DEF Typed, Fail, Goto, Labels
  <1>3. CASE RetryOrFail(o) /\ ~Fail(o)
    BY <1>3, EngineAssumption DEF Typed, RetryOrFail, Goto, Labels
  <1> QED
    BY <1>1, <1>2, <1>3

(* Acquire: the worker is let through or refused.                          *)
LEMMA AcquireSound ==
    ASSUME Typed, NEW o \in Objects, Sound(o), Acquire(o)
    PROVE  Typed' /\ Sound(o)' /\ OnlyAt(o)
  <1> USE DEF Sound, WatermarksCover, Progress, Covered, OnlyAt, Same
  <1>1. /\ UNCHANGED <<outside, runpc, state, mode, asked, mark, began, blind>>
        /\ pc[o] = "queued" /\ sem' \in Nat
    BY DEF Acquire, Typed
  <1>2. CASE Continue(o, "extract") \/ RetryOrFail(o)
    BY <1>1, <1>2, Moves DEF Typed, outside, Labels
  <1>3. CASE SkipFailedObjects /\ Goto(o, "release") /\ UNCHANGED <<attempt, errors>>
    BY <1>1, <1>3 DEF Acquire, Continue, Refuse, Fail, Typed, outside, Labels, Goto
  <1> QED
    BY <1>2, <1>3 DEF Acquire, Refuse, RetryOrFail

(* A query that returned nothing: there is nothing to bring over.          *)
LEMMA NothingExtracted ==
    ASSUME Typed, NEW o \in Objects, Sound(o), pc[o] = "extract",
           Extracted(o, source[o]) = {}
    PROVE  Covered(o, began[o])
  <1>1. source[o] \in Nat /\ began[o] \in Nat /\ began[o] <= source[o]
    BY EngineAssumption DEF Typed, Moment, Sound, Progress
  <1>2. CASE mode[o] = "incremental"
    <2>1. state[o] \in Nat /\ Covered(o, state[o])
      BY <1>2, EngineAssumption DEF Typed, Moment, Sound, Progress, WatermarksCover
    <2>2. \A k \in 1..source[o] : k <= state[o]
      BY <1>1, <1>2, <2>1 DEF Extracted
    <2> QED
      BY <1>1, <2>1, <2>2 DEF Covered
  <1>3. CASE mode[o] # "incremental"
    <2>1. 1..source[o] = {}
      BY <1>3 DEF Extracted
    <2> QED
      BY <1>1, <2>1 DEF Covered
  <1> QED
    BY <1>2, <1>3

(* Query: the extraction reaches at least to the plan, or starts again.    *)
LEMMA QuerySound ==
    ASSUME Typed, NEW o \in Objects, Sound(o), Query(o)
    PROVE  Typed' /\ Sound(o)' /\ OnlyAt(o)
  <1> DEFINE label == IF Extracted(o, source[o]) = {} THEN "release" ELSE "commit"
  <1>1. UNCHANGED <<outside, sem, runpc, state, mode, mark, began, blind>> /\ pc[o] = "extract"
    BY DEF Query
  <1>2. /\ asked' \in [Objects -> Moment]
        /\ asked'[o] = source[o]
        /\ \A x \in Objects \ {o} : asked'[x] = asked[x]
    BY DEF Query, Typed
  <1>3. label \in Labels /\ (Continue(o, label) \/ RetryOrFail(o))
    BY DEF Query, Labels
  <1>4. /\ pc' \in [Objects -> Labels] /\ attempt' \in [Objects -> 1..MaxAttempts]
        /\ errors' \subseteq Objects /\ failedNow' \subseteq Objects
        /\ \A x \in Objects \ {o} : pc'[x] = pc[x] /\ (x \in errors' <=> x \in errors)
        /\ \/ pc'[o] = label /\ errors' = errors
           \/ pc'[o] = "extract" /\ errors' = errors
           \/ pc'[o] = "release" /\ o \in errors'
    BY <1>3, Moves
  <1>5. source[o] \in Int
    BY EngineAssumption DEF Typed, Moment
  <1>6. Typed' /\ OnlyAt(o)
    BY <1>1, <1>2, <1>4 DEF Typed, outside, OnlyAt, Same
  <1>7. WatermarksCover(o)'
    BY <1>1 DEF outside, Sound, WatermarksCover, Covered
  <1>8. pc'[o] = "release" /\ o \notin errors' => Covered(o, began[o])'
    <2>1. SUFFICES ASSUME pc'[o] = "release", o \notin errors' PROVE Covered(o, began[o])'
      OBVIOUS
    <2>2. Extracted(o, source[o]) = {}
      BY <1>4, <2>1
    <2> QED
      BY <1>1, <2>2, NothingExtracted DEF outside, Covered
  <1>9. Progress(o)'
    BY <1>1, <1>2, <1>4, <1>5, <1>8 DEF outside, Sound, Progress, Covered
  <1> QED
    BY <1>6, <1>7, <1>9 DEF Sound

(* Commit: what was extracted is covered, or the attempt starts again.     *)
LEMMA CommitSound ==
    ASSUME Typed, NEW o \in Objects, Sound(o), Commit(o)
    PROVE  Typed' /\ Sound(o)' /\ OnlyAt(o)
  <1>1. /\ UNCHANGED <<concurrency, source, saved, sem, runpc, state, mode, asked, mark, began, blind>>
        /\ pc[o] = "commit"
    BY DEF Commit
  <1>2. asked[o] \in 0..MaxChanges
    BY DEF Typed, Moment
  <1>3. Extracted(o, asked[o]) \subseteq 1..MaxChanges
    BY <1>2, EngineAssumption DEF Extracted
  <1>4. /\ table' \in [Objects -> SUBSET (1..MaxChanges)]
        /\ \A x \in Objects \ {o} : table'[x] = table[x]
        /\ table[o] \subseteq table'[o]
    BY <1>3 DEF Commit, WithCommit, Typed
  <1>5. /\ pc' \in [Objects -> Labels] /\ attempt' \in [Objects -> 1..MaxAttempts]
        /\ errors' \subseteq Objects /\ failedNow' \subseteq Objects
        /\ \A x \in Objects \ {o} : pc'[x] = pc[x] /\ (x \in errors' <=> x \in errors)
        /\ \/ Continue(o, "update") /\ pc'[o] = "update" /\ errors' = errors
           \/ pc'[o] = "extract" /\ errors' = errors
           \/ pc'[o] = "release" /\ o \in errors'
    BY Moves DEF Commit, Labels
  <1>6. Typed' /\ OnlyAt(o)
    BY <1>1, <1>4, <1>5 DEF Typed, OnlyAt, Same
  <1>7. WatermarksCover(o)'
    BY <1>1, <1>4 DEF Sound, WatermarksCover, Covered
  <1>8. pc'[o] = "update" => Covered(o, asked[o])'
    <2>1. SUFFICES ASSUME pc'[o] = "update" PROVE Covered(o, asked[o])'
      OBVIOUS
    <2>2. table'[o] = table[o] \cup Extracted(o, asked[o])
      <3>1. pc'[o] \notin {"extract", "release"}
        BY <2>1
      <3>2. ~RetryOrFail(o)
        BY <3>1 DEF RetryOrFail, Fail, Goto, Typed
      <3> QED
        BY <3>2 DEF Commit, WithCommit, Typed
    <2>3. CASE mode[o] = "incremental"
      <3>1. state[o] \in Int /\ Covered(o, state[o])
        BY <1>1, <2>3, EngineAssumption DEF Typed, Moment, Sound, Progress, WatermarksCover
      <3>2. \A k \in 1..asked[o] : k <= state[o] \/ k \in Extracted(o, asked[o])
        BY <1>2, <3>1 DEF Extracted
      <3> QED
        BY <1>1, <1>2, <2>2, <3>1, <3>2 DEF Covered
    <2>4. CASE mode[o] # "incremental"
      BY <1>1, <2>2, <2>4 DEF Covered, Extracted
    <2> QED
      BY <2>3, <2>4
  <1>9. Progress(o)'
    BY <1>1, <1>5, <1>8 DEF Sound, Progress
  <1> QED
    BY <1>6, <1>7, <1>9 DEF Sound

(* TakeWatermark: the window fills what the commit does not cover.         *)
LEMMA TakeWatermarkSound ==
    ASSUME Typed, NEW o \in Objects, Sound(o), TakeWatermark(o)
    PROVE  Typed' /\ Sound(o)' /\ OnlyAt(o)
  <1>1. /\ UNCHANGED <<outside, sem, runpc, state, mode, asked, attempt, errors, failedNow, began>>
        /\ pc[o] = "update"
    BY DEF TakeWatermark, Continue
  <1>2. asked[o] \in 0..MaxChanges /\ source[o] \in 0..MaxChanges /\ asked[o] <= source[o]
    BY DEF Typed, Moment, Sound, Progress
  <1>3. (asked[o] + 1)..source[o] \subseteq 1..MaxChanges
    BY <1>2, EngineAssumption
  <1>4. /\ blind' \in [Objects -> SUBSET (1..MaxChanges)]
        /\ \A x \in Objects \ {o} : blind'[x] = blind[x]
        /\ blind'[o] = blind[o] \cup (asked[o] + 1)..source[o]
    BY <1>3 DEF TakeWatermark, Typed
  <1>5. /\ mark' \in [Objects -> Moment]
        /\ mark'[o] = source[o]
        /\ \A x \in Objects \ {o} : mark'[x] = mark[x]
    BY DEF TakeWatermark, Typed
  <1>6. /\ pc' \in [Objects -> Labels] /\ pc'[o] = "store"
        /\ \A x \in Objects \ {o} : pc'[x] = pc[x]
    BY DEF TakeWatermark, Continue, Goto, Typed, Labels
  <1>7. Typed' /\ OnlyAt(o)
    BY <1>1, <1>4, <1>5, <1>6 DEF Typed, outside, OnlyAt, Same
  <1>8. WatermarksCover(o)'
    BY <1>1, <1>4 DEF outside, Sound, WatermarksCover, Covered
  <1>9. Covered(o, asked[o])' /\ Covered(o, mark[o])'
    <2>1. Covered(o, asked[o])
      BY <1>1 DEF Sound, Progress
    <2>2. \A k \in 1..source[o] : k \in 1..asked[o] \/ k \in (asked[o] + 1)..source[o]
      BY <1>2, EngineAssumption
    <2> QED
      BY <1>1, <1>4, <1>5, <2>1, <2>2 DEF outside, Covered
  <1>10. Progress(o)'
    BY <1>1, <1>2, <1>5, <1>6, <1>9, EngineAssumption DEF outside, Sound, Progress, WatermarksCover
  <1> QED
    BY <1>7, <1>8, <1>10 DEF Sound

(* StoreState: the watermark in memory moves up or is lost; it covers.     *)
LEMMA StoreStateSound ==
    ASSUME Typed, NEW o \in Objects, Sound(o), StoreState(o)
    PROVE  Typed' /\ Sound(o)' /\ OnlyAt(o)
  <1>1. /\ UNCHANGED <<outside, sem, runpc, mode, asked, mark, attempt, errors, failedNow, began, blind>>
        /\ pc[o] = "store"
    BY DEF StoreState, Continue
  <1>2. /\ state' \in [Objects -> Moment \cup {None}]
        /\ state'[o] \in {mark[o], state[o]}
        /\ \A x \in Objects \ {o} : state'[x] = state[x]
    BY DEF StoreState, Typed
  <1>3. /\ pc' \in [Objects -> Labels] /\ pc'[o] = "release"
        /\ \A x \in Objects \ {o} : pc'[x] = pc[x]
    BY DEF StoreState, Continue, Goto, Typed, Labels
  <1>4. Typed' /\ OnlyAt(o)
    BY <1>1, <1>2, <1>3 DEF Typed, outside, OnlyAt, Same
  <1>5. WatermarksCover(o)'
    BY <1>1, <1>2 DEF outside, Sound, WatermarksCover, Progress, Covered
  <1>6. Covered(o, began[o])'
    <2>1. began[o] \in Nat /\ asked[o] \in Nat
      BY EngineAssumption DEF Typed, Moment
    <2> QED
      BY <1>1, <2>1, CoveredUpTo DEF outside, Sound, Progress, Covered
  <1>7. Progress(o)'
    BY <1>1, <1>3, <1>6 DEF outside, Sound, Progress
  <1> QED
    BY <1>4, <1>5, <1>7 DEF Sound

(* Release: a token is there to be taken, and what was synced stays so.    *)
LEMMA ReleaseSound ==
    ASSUME Typed, NEW o \in Objects, Sound(o), Release(o)
    PROVE  Typed' /\ Sound(o)' /\ OnlyAt(o)
  <1>1. /\ UNCHANGED <<outside, runpc, state, mode, errors, history>>
        /\ pc[o] = "release"
    BY DEF Release
  <1>2. sem' \in Nat
    BY DEF Release, Typed
  <1>3. /\ pc' \in [Objects -> Labels] /\ pc'[o] = "done"
        /\ asked' \in [Objects -> Moment] /\ asked'[o] = 0
        /\ mark' \in [Objects -> Moment] /\ mark'[o] = 0
        /\ attempt' \in [Objects -> 1..MaxAttempts]
    BY EngineAssumption DEF Release, Goto, Typed, Labels, Moment
  <1>4. \A x \in Objects \ {o} : pc'[x] = pc[x] /\ asked'[x] = asked[x] /\ mark'[x] = mark[x]
    BY DEF Release, Goto, Typed
  <1>5. Typed'
    BY <1>1, <1>2, <1>3 DEF Typed, outside, history
  <1>6. OnlyAt(o)
    BY <1>1, <1>4 DEF OnlyAt, Same, outside, history
  <1>7. source[o] \in Nat
    BY EngineAssumption DEF Typed, Moment
  <1>8. WatermarksCover(o)'
    BY <1>1 DEF Sound, WatermarksCover, Covered, outside, history
  <1>9. Progress(o)'
    BY <1>1, <1>3, <1>7 DEF Sound, Progress, Covered, outside, history
  <1> QED
    BY <1>5, <1>6, <1>8, <1>9 DEF Sound

(* No step of a worker disturbs another object or a run that is done.      *)
LEMMA WorkerSound ==
    ASSUME EInv, NEW o \in Objects, Worker(o)
    PROVE  EInv'
  <1>1. Typed' /\ Sound(o)' /\ OnlyAt(o)
    BY AcquireSound, QuerySound, CommitSound, TakeWatermarkSound, StoreStateSound, ReleaseSound
       DEF EInv, Worker
  <1>2. \A x \in Objects : Sound(x)'
    BY <1>1, SameSound DEF OnlyAt, EInv
  <1>3. pc[o] \notin {"off", "done"} /\ runpc' = runpc
    BY DEF Worker, Acquire, Query, Commit, TakeWatermark, StoreState, Release
  <1>4. runpc \notin {"save", "report"}
    BY <1>3 DEF EInv, AllDone
  <1> QED
    BY <1>1, <1>2, <1>3, <1>4 DEF EInv, AllDone

-----------------------------------------------------------------------------
(* The run and its environment                                             *)

(* A change makes every watermark and every query a little older.          *)
LEMMA ChangeSound ==
    ASSUME EInv, NEW o \in Objects, Change(o)
    PROVE  EInv'
  <1>1. /\ source' \in [Objects -> Moment]
        /\ \A x \in Objects : source[x] <= source'[x]
    BY EngineAssumption DEF Change, EInv, Typed, Moment
  <1>2. UNCHANGED <<concurrency, table, saved, runpc, state, mode, workers, errors, history>>
    BY DEF Change
  <1>3. Typed' /\ AllDone'
    BY <1>1, <1>2 DEF EInv, Typed, AllDone, workers, history
  <1>4. ASSUME NEW x \in Objects PROVE Sound(x)'
    <2>1. /\ source[x] \in Int /\ source'[x] \in Int /\ source[x] <= source'[x]
          /\ began[x] \in Int /\ asked[x] \in Int /\ mark[x] \in Int
          /\ saved[x] \in Int \cup {None} /\ state[x] \in Int \cup {None}
      BY <1>1, EngineAssumption DEF EInv, Typed, Moment
    <2>2. WatermarksCover(x)'
      BY <1>2, <2>1 DEF EInv, Sound, WatermarksCover, Covered, workers, history
    <2>3. Progress(x)'
      BY <1>2, <2>1 DEF EInv, Sound, Progress, Covered, workers, history
    <2> QED
      BY <2>2, <2>3 DEF Sound
  <1> QED
    BY <1>3, <1>4 DEF EInv

(* A run starts from what S3 holds, or from nothing.                       *)
LEMMA StartRunSound ==
    ASSUME EInv, StartRun
    PROVE  EInv'
  <1>1. /\ UNCHANGED <<outside, errors, blind>> /\ runpc' = "work"
        /\ began' = source
    BY DEF StartRun
  <1>2. state' \in [Objects -> Moment \cup {None}]
    BY DEF StartRun, EInv, Typed
  <1>3. /\ asked' = [o \in Objects |-> 0] /\ mark' = [o \in Objects |-> 0]
        /\ attempt' = [o \in Objects |-> 1] /\ failedNow' \subseteq Objects /\ sem' = 0
        /\ mode' \in [Objects -> Modes]
        /\ pc' = [o \in Objects |-> IF mode'[o] = "skip" THEN "off" ELSE "queued"]
    BY DEF StartRun, Modes
  <1>4. Typed'
    BY <1>1, <1>2, <1>3, EngineAssumption DEF EInv, Typed, outside, Moment, Labels
  <1>5. ASSUME NEW o \in Objects PROVE Sound(o)'
    <2>1. state'[o] = None \/ state'[o] = saved[o]
      BY DEF StartRun
    <2>2. mode'[o] = "incremental" => state'[o] # None
      BY DEF StartRun, PlansFor
    <2>3. source[o] \in Nat /\ saved[o] \in Nat \cup {None}
      BY EngineAssumption DEF EInv, Typed, Moment
    <2>4. WatermarksCover(o)'
      BY <1>1, <2>1, <2>3, EngineAssumption DEF EInv, Sound, WatermarksCover, Covered, outside
    <2>5. Progress(o)'
      BY <1>1, <1>3, <2>2, <2>3 DEF Progress, outside
    <2> QED
      BY <2>4, <2>5 DEF Sound
  <1> QED
    BY <1>1, <1>4, <1>5 DEF EInv, AllDone

(* However a run ends, only what it had saved is left of it.               *)
LEMMA EndedSound ==
    ASSUME EInv, Ended, errors' \subseteq Objects,
           \A o \in Objects : saved'[o] \in {saved[o], state[o]},
           saved' \in [Objects -> Moment \cup {None}]
    PROVE  EInv'
  <1>1. Typed'
    BY EngineAssumption DEF EInv, Typed, Ended, Moment, Modes, Labels
  <1>2. ASSUME NEW o \in Objects PROVE Sound(o)'
    <2>1. /\ source'[o] = source[o] /\ table' = table /\ blind' = blind
          /\ state'[o] = None /\ pc'[o] = "off" /\ mode'[o] = "skip"
          /\ began'[o] = 0 /\ asked'[o] = 0 /\ mark'[o] = 0
      BY DEF Ended
    <2>2. source[o] \in Nat /\ saved'[o] \in {saved[o], state[o]}
      BY EngineAssumption DEF EInv, Typed, Moment
    <2>3. WatermarksCover(o)'
      BY <2>1, <2>2 DEF EInv, Sound, WatermarksCover, Covered
    <2>4. Progress(o)'
      BY <2>1, <2>2 DEF Progress
    <2> QED
      BY <2>3, <2>4 DEF Sound
  <1> QED
    BY <1>1, <1>2 DEF EInv, AllDone, Ended

(* The state that was saved is the state in memory.                        *)
LEMMA SavedSound ==
    ASSUME EInv, runpc = "save", saved' = state, runpc' = "report",
           UNCHANGED <<concurrency, source, table, state, mode, workers, history, errors>>
    PROVE  EInv'
  <1>1. Typed' /\ AllDone'
    BY DEF EInv, Typed, AllDone, workers, history
  <1>2. ASSUME NEW o \in Objects PROVE Sound(o)'
    <2>1. pc'[o] \in {"off", "done"}
      BY DEF EInv, AllDone, workers
    <2>2. state[o] \in Nat \cup {None}
      BY EngineAssumption DEF EInv, Typed, Moment
    <2>3. WatermarksCover(o)'
      BY <2>2 DEF EInv, Sound, WatermarksCover, Covered, history
    <2>4. Progress(o)'
      BY <2>1 DEF EInv, Sound, Progress, Covered, workers, history
    <2> QED
      BY <2>3, <2>4 DEF Sound
  <1> QED
    BY <1>1, <1>2 DEF EInv

(* Every step keeps the invariant.                                         *)
LEMMA EInvStep == EInv /\ [Next]_vars => EInv'
  <1> SUFFICES ASSUME EInv, [Next]_vars PROVE EInv'
    OBVIOUS
  <1>1. CASE StartRun
    BY <1>1, StartRunSound
  <1>2. CASE FinishWork
    <2>1. CASE Ended /\ UNCHANGED saved
      BY <1>2, <2>1, EndedSound DEF EInv, Typed, FinishWork
    <2>2. CASE runpc' = "save" /\ UNCHANGED <<outside, state, mode, workers, history>>
      <3>1. Typed' /\ AllDone'
        BY <1>2, <2>2 DEF EInv, Typed, AllDone, FinishWork, outside, workers, history
      <3>2. \A x \in Objects : Same(x)
        BY <1>2, <2>2 DEF FinishWork, Same, outside, workers, history
      <3> QED
        BY <3>1, <3>2, SameSound DEF EInv
    <2> QED
      BY <1>2, <2>1, <2>2 DEF FinishWork
  <1>3. CASE Save
    <2>1. CASE saved' \in {saved, state} /\ Ended
      BY <1>3, <2>1, EndedSound DEF EInv, Typed, Save
    <2>2. CASE /\ saved' = state /\ runpc' = "report"
               /\ UNCHANGED <<concurrency, source, table, state, mode, workers, history>>
      BY <1>3, <2>2, SavedSound DEF Save
    <2> QED
      BY <1>3, <2>1, <2>2 DEF Save
  <1>4. CASE Report \/ Crash
    BY <1>4, EndedSound DEF EInv, Typed, Report, Crash
  <1>5. CASE \E o \in Objects : Change(o) \/ Worker(o)
    BY <1>5, ChangeSound, WorkerSound
  <1>6. CASE UNCHANGED vars
    <2>1. Typed' /\ AllDone' /\ \A x \in Objects : Same(x)
      BY <1>6 DEF EInv, Typed, AllDone, Same, vars, outside, workers, history
    <2> QED
      BY <2>1, SameSound DEF EInv
  <1> QED
    BY <1>1, <1>2, <1>3, <1>4, <1>5, <1>6 DEF Next, RunStep

(* The invariant holds in every behaviour.                                 *)
LEMMA EngineInvariant == Spec => []EInv
  BY EInvInit, EInvStep, PTL DEF Spec

-----------------------------------------------------------------------------
(* What follows                                                            *)

(* A saved watermark never passes a change that the table does not hold,   *)
(* the window between a query and its watermark aside: for any number of   *)
(* objects, workers, attempts and runs, and whatever crashes or fails.     *)
THEOREM LostOnlyInTheWindow == Spec => []LostOnlyInWindow
  <1>1. EInv => LostOnlyInWindow
    BY DEF EInv, Sound, WatermarksCover, LostOnlyInWindow
  <1> QED
    BY <1>1, EngineInvariant, PTL

(* A run that returns nil has brought over, for every object it planned,   *)
(* everything the source had when the run was planned, unless it is asked  *)
(* to skip the objects that failed too often.                              *)
THEOREM NilReallyMeansSynced ==
    ASSUME ~SkipFailedObjects
    PROVE  Spec => NilMeansSynced
  <1>1. EInv => [Report /\ errors = {} =>
                    \A o \in Objects : mode[o] # "skip" => Covered(o, began[o])]_vars
    <2> SUFFICES ASSUME EInv, Report, errors = {}, NEW o \in Objects, mode[o] # "skip"
                 PROVE  Covered(o, began[o])
      OBVIOUS
    <2>1. pc[o] = "done"
      BY DEF EInv, AllDone, Sound, Progress, Report
    <2> QED
      BY <2>1 DEF EInv, Sound, Progress
  <1> QED
    BY <1>1, EngineInvariant, PTL DEF Spec, NilMeansSynced

(* A saved watermark never goes back, even after a run that could not load *)
(* the state.                                                              *)
THEOREM WatermarksNeverGoBack == Spec => WatermarksAdvance
  <1>1. ASSUME EInv, [Next]_vars, NEW o \in Objects, saved[o] # None, saved'[o] # None
        PROVE  saved'[o] >= saved[o]
    <2>1. saved'[o] = saved[o] \/ saved'[o] = state[o]
      BY <1>1 DEF Next, StartRun, RunStep, FinishWork, Save, Report, Crash, Ended, Change, Worker,
                  Acquire, Query, Commit, TakeWatermark, StoreState, Release, outside, vars
    <2>2. saved[o] \in Nat /\ (state[o] # None => saved[o] <= state[o] /\ state[o] \in Nat)
      BY <1>1, EngineAssumption DEF EInv, Typed, Moment, Sound, WatermarksCover
    <2> QED
      BY <1>1, <2>1, <2>2
  <1>2. EInv /\ [Next]_vars =>
          [\A o \in Objects :
              saved[o] # None /\ saved'[o] # None => saved'[o] >= saved[o]]_vars
    BY <1>1
  <1> QED
    BY <1>2, EngineInvariant, PTL DEF Spec, WatermarksAdvance

-----------------------------------------------------------------------------
(* The semaphore                                                           *)

(* A token for each worker between its first step and its last, and never  *)
(* more than there are slots.                                              *)
SlotsCounted == sem = Cardinality(Active) /\ sem <= concurrency

(* The workers that hold a slot can be counted.                            *)
LEMMA ActiveFinite == IsFiniteSet(Active) /\ Cardinality(Active) \in Nat
  BY EngineAssumption, FS_Subset, FS_CardinalityType DEF Active

(* A worker that takes a slot adds one token, and there was room for it.   *)
LEMMA AcquireCounted ==
    ASSUME Typed, SlotsCounted, NEW o \in Objects, Acquire(o)
    PROVE  SlotsCounted'
  <1>1. o \notin Active
    BY DEF Acquire, Active
  <1>2. Cardinality(Active \cup {o}) = Cardinality(Active) + 1
    BY <1>1, ActiveFinite, FS_AddElement
  <1>3. pc'[o] \notin {"off", "queued", "done"} /\ \A x \in Objects \ {o} : pc'[x] = pc[x]
    BY DEF Acquire, Continue, Refuse, Fail, Goto, Typed
  <1>4. Active' = Active \cup {o}
    BY <1>3 DEF Active
  <1>5. sem < concurrency /\ sem' = sem + 1 /\ concurrency' = concurrency
    BY DEF Acquire, outside
  <1>6. sem \in Int /\ concurrency \in Int
    BY EngineAssumption DEF Typed
  <1> QED
    BY <1>2, <1>4, <1>5, <1>6 DEF SlotsCounted

(* A worker that ends, with an error or without, gives its slot back.      *)
LEMMA ReleaseCounted ==
    ASSUME Typed, SlotsCounted, NEW o \in Objects, Release(o)
    PROVE  SlotsCounted'
  <1>1. o \in Active
    BY DEF Release, Active
  <1>2. Cardinality(Active \ {o}) = Cardinality(Active) - 1
    BY <1>1, ActiveFinite, FS_RemoveElement
  <1>3. pc'[o] = "done" /\ \A x \in Objects \ {o} : pc'[x] = pc[x]
    BY DEF Release, Goto, Typed
  <1>4. Active' = Active \ {o}
    BY <1>3 DEF Active
  <1>5. sem' = sem - 1 /\ concurrency' = concurrency
    BY DEF Release, outside
  <1>6. sem \in Int /\ concurrency \in Int
    BY EngineAssumption DEF Typed
  <1> QED
    BY <1>2, <1>4, <1>5, <1>6 DEF SlotsCounted

(* No other step of a worker touches the channel, whether it goes on,      *)
(* starts again or fails.                                                  *)
LEMMA WorkCounted ==
    ASSUME Typed, SlotsCounted, NEW o \in Objects,
           Query(o) \/ Commit(o) \/ TakeWatermark(o) \/ StoreState(o)
    PROVE  SlotsCounted'
  <1>1. sem' = sem /\ concurrency' = concurrency
    BY DEF Query, Commit, TakeWatermark, StoreState, outside
  <1>2. pc[o] \notin {"off", "queued", "done"}
    BY DEF Query, Commit, TakeWatermark, StoreState
  <1>3. pc'[o] \notin {"off", "queued", "done"} /\ \A x \in Objects \ {o} : pc'[x] = pc[x]
    BY DEF Query, Commit, TakeWatermark, StoreState, Continue, RetryOrFail, Fail, Goto, Typed
  <1>4. Active' = Active
    BY <1>2, <1>3 DEF Active
  <1> QED
    BY <1>1, <1>4 DEF SlotsCounted

(* A run that begins, or is over, has an empty channel and no workers.     *)
LEMMA NoneCounted ==
    ASSUME Typed', sem' = 0, \A o \in Objects : pc'[o] \in {"off", "queued"}
    PROVE  SlotsCounted'
  <1>1. Active' = {} /\ concurrency' \in Nat
    BY EngineAssumption DEF Active, Typed
  <1> QED
    BY <1>1, FS_EmptySet DEF SlotsCounted

(* The tokens are counted after every step.                                *)
LEMMA SlotsStep ==
    ASSUME EInv, SlotsCounted, [Next]_vars
    PROVE  SlotsCounted'
  <1>1. CASE \E o \in Objects : Worker(o)
    BY <1>1, AcquireCounted, ReleaseCounted, WorkCounted DEF Worker, EInv
  <1>2. CASE StartRun \/ Ended
    <2>1. Typed'
      BY EInvStep DEF EInv
    <2>2. sem' = 0 /\ \A o \in Objects : pc'[o] \in {"off", "queued"}
      BY <1>2 DEF StartRun, Ended
    <2> QED
      BY <2>1, <2>2, NoneCounted
  <1>3. CASE UNCHANGED <<concurrency, sem, pc>>
    BY <1>3 DEF SlotsCounted, Active
  <1> QED
    BY <1>1, <1>2, <1>3 DEF Next, RunStep, FinishWork, Save, Report, Crash, Change,
                            vars, outside, workers

(* Every variable keeps its type, and the channel holds a token for each   *)
(* worker that took a slot and has not given it back, never more than its  *)
(* capacity: no failure, refusal or crash leaves one behind.               *)
THEOREM EngineTypeCorrect == Spec => []TypeOK
  <1>1. Init => SlotsCounted
    <2>1. Init => Active = {} /\ sem = 0 /\ concurrency \in Nat
      BY EngineAssumption DEF Init, Active
    <2> QED
      BY <2>1, FS_EmptySet DEF SlotsCounted
  <1>2. EInv /\ SlotsCounted /\ [Next]_vars => SlotsCounted'
    BY SlotsStep
  <1>3. EInv /\ SlotsCounted => TypeOK
    BY DEF EInv, SlotsCounted, TypeOK
  <1> QED
    BY <1>1, <1>2, <1>3, EngineInvariant, PTL DEF Spec
=============================================================================
