--------------------------- MODULE Recovery_proofs ---------------------------
(***************************************************************************)
(* Proofs about Recovery for any set of objects, any number of retries,    *)
(* any threshold and any number of lost records.                           *)
(*                                                                         *)
(* RetryBudget speaks of an object that is not being retried as much as of *)
(* one that is, so the invariant has to say how far the count in S3, the   *)
(* count in memory and the operations really run can be apart at each      *)
(* point of ExecuteWithRetry: RunsRecorded for S3, RunsCounted for memory. *)
(***************************************************************************)
EXTENDS Recovery, TLAPS

Recorded(o) == IF stored[o] = None THEN 0 ELSE stored[o].attempts

Begun == {"promote", "recheck", "running", "save"}

(* The types of the manager's variables, but for the bound on runs, which  *)
(* is what the rest is needed for.                                         *)
Shape ==
    /\ stored \in [Objects -> State \cup {None}]
    /\ local \in [Objects -> State]
    /\ pc \in [Objects -> Labels]
    /\ pending \subseteq Objects
    /\ runs \in [Objects -> Nat]
    /\ lost \in [Objects -> 0..MaxLost]

(* S3 lags behind by the attempt in progress and by the lost records.      *)
RunsRecorded(o) == runs[o] <= Recorded(o) + lost[o] + Unsaved(o)

(* An attempt is counted in memory before its operation runs.              *)
RunsCounted(o) ==
    /\ pc[o] = "attempt" => local[o].attempts < MaxRetries
    /\ pc[o] \in Begun => local[o].attempts > 0
    /\ pc[o] \in {"attempt", "running", "save"} => runs[o] <= local[o].attempts + lost[o]
    /\ pc[o] \in {"promote", "recheck"} => runs[o] < local[o].attempts + lost[o]
    /\ pc[o] = "delete" => runs[o] = 0

Counts(o) == RunsRecorded(o) /\ RunsCounted(o)

BreakerInv == BreakerTypeOK /\ ClosedBelowThreshold

RInv == BreakerInv /\ Shape /\ \A o \in Objects : Counts(o)

-----------------------------------------------------------------------------
(* The circuit breaker                                                     *)

(* What the methods of the breaker do keeps it below its threshold.        *)
LEMMA BreakerKept ==
    ASSUME BreakerInv,
           \/ ResetTimeoutPasses \/ PromoteBreaker \/ RecordFailure \/ RecordSuccess
           \/ UNCHANGED breakerVars
           \/ breaker' = "closed" /\ failures' = 0 /\ elapsed' = TRUE
    PROVE  BreakerInv'
  <1> USE SyncBreakerAssumption DEF BreakerInv, BreakerTypeOK, ClosedBelowThreshold
  <1>1. CASE ResetTimeoutPasses
    BY <1>1 DEF ResetTimeoutPasses
  <1>2. CASE PromoteBreaker
    BY <1>2 DEF PromoteBreaker, MayPromote
  <1>3. CASE RecordFailure
    <2>1. failures' = failures + 1 /\ failures' \in 0..MaxFailures
      BY <1>3 DEF RecordFailure
    <2>2. elapsed' \in BOOLEAN
      BY <1>3 DEF RecordFailure
    <2>3. CASE failures' >= Threshold
      <3>1. breaker' = "open"
        BY <1>3, <2>3 DEF RecordFailure
      <3> QED
        BY <2>1, <2>2, <3>1
    <2>4. CASE ~(failures' >= Threshold)
      <3>1. breaker' = breaker /\ failures' < Threshold
        BY <1>3, <2>1, <2>4 DEF RecordFailure
      <3> QED
        BY <2>1, <2>2, <3>1
    <2> QED
      BY <2>3, <2>4
  <1>4. CASE RecordSuccess
    BY <1>4 DEF RecordSuccess
  <1>5. CASE UNCHANGED breakerVars
    BY <1>5 DEF breakerVars
  <1>6. CASE breaker' = "closed" /\ failures' = 0 /\ elapsed' = TRUE
    BY <1>6
  <1> QED
    BY <1>1, <1>2, <1>3, <1>4, <1>5, <1>6

-----------------------------------------------------------------------------
(* One object at a time                                                    *)

(* Everything that belongs to x is as it was.                              *)
Same(x) ==
    /\ stored'[x] = stored[x] /\ local'[x] = local[x] /\ pc'[x] = pc[x]
    /\ runs'[x] = runs[x] /\ lost'[x] = lost[x]

(* The counts of an object that nothing touches stay right.                *)
LEMMA SameCounts ==
    ASSUME NEW x \in Objects, Counts(x), Same(x)
    PROVE  Counts(x)'
  BY DEF Counts, RunsRecorded, RunsCounted, Same, Recorded, Unsaved

(* A loaded or fresh state either enters the loop with attempts left or    *)
(* is given back.                                                          *)
LEMMA LoopTyped ==
    ASSUME Shape, NEW o \in Objects, NEW s \in State, Loop(o, s)
    PROVE  /\ pc' \in [Objects -> Labels] /\ local' \in [Objects -> State]
           /\ \A x \in Objects \ {o} : pc'[x] = pc[x] /\ local'[x] = local[x]
           /\ \/ pc'[o] = "attempt" /\ local'[o] = s /\ s.attempts < MaxRetries
              \/ pc'[o] = "idle"
  <1>1. CASE CanRetry(s) /\ local' = [local EXCEPT ![o] = s] /\ Goto(o, "attempt")
    BY <1>1 DEF Shape, Goto, CanRetry, Labels
  <1>2. CASE Return(o)
    <2>1. Fresh \in State
      BY RecoveryAssumption DEF Fresh, State
    <2> QED
      BY <1>2, <2>1 DEF Shape, Return, Goto, Labels
  <1> QED
    BY <1>1, <1>2 DEF Loop

OnlyAt(o) == \A x \in Objects \ {o} : Same(x)

(* Call: what was loaded, or a fresh state and a lost record.              *)
LEMMA CallCounts ==
    ASSUME Shape, NEW o \in Objects, Counts(o), Call(o)
    PROVE  Shape' /\ Counts(o)' /\ OnlyAt(o)
  <1> USE DEF Counts, RunsRecorded, RunsCounted, Recorded, Unsaved, OnlyAt, Same, Begun
  <1>1. Fresh \in State /\ Fresh.attempts = 0
    BY RecoveryAssumption DEF Fresh, State
  <1>2. stored' = stored /\ runs' = runs /\ pending' = pending
    BY DEF Call
  <1>3. CASE stored[o] # None /\ Loop(o, stored[o]) /\ UNCHANGED lost
    <2>1. stored[o] \in State
      BY <1>3 DEF Shape
    <2> QED
      BY <1>2, <1>3, <2>1, LoopTyped DEF Shape, State, Call
  <1>4. CASE stored[o] = None /\ Loop(o, Fresh) /\ UNCHANGED lost
    BY <1>1, <1>2, <1>4, LoopTyped DEF Shape, Call
  <1>5. CASE stored[o] # None /\ Loop(o, Fresh) /\ Loses(o, stored[o].attempts)
    <2>1. stored[o].attempts \in Nat
      BY <1>5, RecoveryAssumption DEF Shape, State
    <2>2. /\ lost' \in [Objects -> 0..MaxLost]
          /\ lost'[o] = lost[o] + stored[o].attempts
          /\ \A x \in Objects \ {o} : lost'[x] = lost[x]
      BY <1>5, <2>1, RecoveryAssumption DEF Loses, Shape
    <2> QED
      BY <1>1, <1>2, <1>5, <2>1, <2>2, LoopTyped DEF Shape, Call
  <1> QED
    BY <1>3, <1>4, <1>5 DEF Call

(* Attempt: counted in memory, and run, refused or to be promoted.         *)
LEMMA AttemptCounts ==
    ASSUME Shape, NEW o \in Objects, Counts(o), Attempt(o)
    PROVE  Shape' /\ Counts(o)' /\ OnlyAt(o)
  <1> USE DEF Counts, RunsRecorded, RunsCounted, Recorded, Unsaved, OnlyAt, Same, Begun
  <1>1. /\ local[o] \in State
        /\ local[o].attempts < MaxRetries
        /\ runs[o] <= local[o].attempts + lost[o]
    BY DEF Attempt, Shape
  <1>2. /\ IncrementAttempt(local[o]) \in State
        /\ IncrementAttempt(local[o]).attempts = local[o].attempts + 1
    BY <1>1, RecoveryAssumption DEF IncrementAttempt, State
  <1>3. /\ local' \in [Objects -> State]
        /\ local'[o].attempts = local[o].attempts + 1
        /\ \A x \in Objects \ {o} : local'[x] = local[x]
    BY <1>2 DEF Attempt, Shape
  <1>4. stored' = stored /\ lost' = lost /\ pending' = pending
    BY DEF Attempt
  <1>5. local[o].attempts \in Nat /\ runs[o] \in Nat /\ lost[o] \in Nat
    BY <1>1, RecoveryAssumption DEF Shape, State
  <1>6. CASE Goto(o, "running") /\ runs' = [runs EXCEPT ![o] = @ + 1]
    <2>1. /\ runs' \in [Objects -> Nat]
          /\ runs'[o] = runs[o] + 1
          /\ \A x \in Objects \ {o} : runs'[x] = runs[x]
      BY <1>6 DEF Shape
    <2>2. Recorded(o) \in Nat
      BY RecoveryAssumption DEF Shape, State
    <2> QED
      BY <1>1, <1>3, <1>4, <1>5, <1>6, <2>1, <2>2 DEF Attempt, Shape, Goto, Labels
  <1>7. CASE Goto(o, "promote") /\ UNCHANGED runs
    BY <1>1, <1>3, <1>4, <1>5, <1>7 DEF Attempt, Shape, Goto, Labels
  <1>8. CASE Goto(o, "save") /\ UNCHANGED runs
    <2>1. Recorded(o) \in Nat
      BY RecoveryAssumption DEF Shape, State
    <2> QED
      BY <1>1, <1>3, <1>4, <1>5, <1>8, <2>1 DEF Attempt, Shape, Goto, Labels
  <1> QED
    BY <1>6, <1>7, <1>8 DEF Attempt, StartOperation

(* Promote only moves the breaker and the label.                           *)
LEMMA PromoteCounts ==
    ASSUME Shape, NEW o \in Objects, Counts(o), Promote(o)
    PROVE  Shape' /\ Counts(o)' /\ OnlyAt(o)
  BY DEF Counts, RunsRecorded, RunsCounted, Recorded, Unsaved, OnlyAt, Same, Begun,
         Promote, history, Shape, Goto, Labels

(* Recheck: the counted attempt runs now, or not at all.                   *)
LEMMA RecheckCounts ==
    ASSUME Shape, NEW o \in Objects, Counts(o), Recheck(o)
    PROVE  Shape' /\ Counts(o)' /\ OnlyAt(o)
  <1> USE DEF Counts, RunsRecorded, RunsCounted, Recorded, Unsaved, OnlyAt, Same, Begun
  <1>1. Recorded(o) \in Nat /\ runs[o] \in Nat /\ lost[o] \in Nat /\ local[o].attempts \in Nat
    BY RecoveryAssumption DEF Shape, State
  <1>2. CASE StartOperation(o)
    BY <1>1, <1>2 DEF Recheck, StartOperation, Shape, Goto, Labels
  <1>3. CASE Goto(o, "save") /\ UNCHANGED runs
    BY <1>1, <1>3 DEF Recheck, Shape, Goto, Labels
  <1> QED
    BY <1>2, <1>3 DEF Recheck

(* Success starts the history of the object anew.                          *)
LEMMA SucceedsCounts ==
    ASSUME Shape, NEW o \in Objects, Counts(o), OperationSucceeds(o)
    PROVE  Shape' /\ Counts(o)' /\ OnlyAt(o)
  <1> USE DEF Counts, RunsRecorded, RunsCounted, Recorded, Unsaved, OnlyAt, Same, Begun
  <1>1. Recorded(o) \in Nat
    BY RecoveryAssumption DEF Shape, State
  <1> QED
    BY <1>1, RecoveryAssumption DEF OperationSucceeds, Shape, Goto, Labels

(* One record more is lost, of this object only.                           *)
LEMMA LosesOne ==
    ASSUME Shape, NEW o \in Objects, Loses(o, 1)
    PROVE  /\ lost' \in [Objects -> 0..MaxLost]
           /\ lost'[o] = lost[o] + 1
           /\ \A x \in Objects \ {o} : lost'[x] = lost[x]
  BY RecoveryAssumption DEF Loses, Shape

(* Return gives the recovery state back.                                   *)
LEMMA ReturnTyped ==
    ASSUME Shape, NEW o \in Objects, Return(o)
    PROVE  /\ pc' \in [Objects -> Labels] /\ local' \in [Objects -> State]
           /\ \A x \in Objects \ {o} : pc'[x] = pc[x] /\ local'[x] = local[x]
           /\ pc'[o] = "idle"
  <1>1. Fresh \in State
    BY RecoveryAssumption DEF Fresh, State
  <1> QED
    BY <1>1 DEF Shape, Return, Goto, Labels

(* A failure is about to be saved, or leaves the loop unrecorded.          *)
LEMMA FailsCounts ==
    ASSUME Shape, NEW o \in Objects, Counts(o), OperationFails(o)
    PROVE  Shape' /\ Counts(o)' /\ OnlyAt(o)
  <1> USE DEF Counts, RunsRecorded, RunsCounted, Recorded, Unsaved, OnlyAt, Same, Begun
  <1>1. Recorded(o) \in Nat /\ runs[o] \in Nat /\ lost[o] \in Nat
    BY RecoveryAssumption DEF Shape, State
  <1>2. CASE Goto(o, "save") /\ UNCHANGED <<local, lost>>
    BY <1>1, <1>2 DEF OperationFails, Shape, Goto, Labels
  <1>3. CASE Return(o) /\ Loses(o, 1)
    BY <1>1, <1>3, LosesOne, ReturnTyped DEF OperationFails, Shape
  <1> QED
    BY <1>2, <1>3 DEF OperationFails

(* Save makes S3 agree with memory, or loses one record.                   *)
LEMMA SaveCounts ==
    ASSUME Shape, NEW o \in Objects, Counts(o), Save(o)
    PROVE  Shape' /\ Counts(o)' /\ OnlyAt(o)
  <1> USE DEF Counts, RunsRecorded, RunsCounted, Recorded, Unsaved, OnlyAt, Same, Begun
  <1>1. local[o] \in State /\ local[o] # None /\ local[o].attempts \in Nat
    BY RecoveryAssumption DEF Shape, State
  <1>2. Recorded(o) \in Nat /\ runs[o] \in Nat /\ lost[o] \in Nat
    BY RecoveryAssumption DEF Shape, State
  <1>3. /\ pc' \in [Objects -> Labels] /\ local' \in [Objects -> State]
        /\ \A x \in Objects \ {o} : pc'[x] = pc[x] /\ local'[x] = local[x]
        /\ \/ pc'[o] = "attempt" /\ local'[o] = local[o] /\ local[o].attempts < MaxRetries
           \/ pc'[o] = "idle"
    BY <1>1, LoopTyped DEF Save
  <1>4. CASE stored' = [stored EXCEPT ![o] = local[o]] /\ UNCHANGED lost
    <2>1. /\ stored' \in [Objects -> State \cup {None}]
          /\ stored'[o] = local[o]
          /\ \A x \in Objects \ {o} : stored'[x] = stored[x]
      BY <1>1, <1>4 DEF Shape
    <2> QED
      BY <1>1, <1>2, <1>3, <1>4, <2>1 DEF Save, Shape
  <1>5. CASE UNCHANGED stored /\ Loses(o, 1)
    BY <1>1, <1>2, <1>3, <1>5, LosesOne DEF Save, Shape
  <1> QED
    BY <1>4, <1>5 DEF Save

(* Delete comes after a success: nothing to account for.                   *)
LEMMA DeleteCounts ==
    ASSUME Shape, NEW o \in Objects, Counts(o), Delete(o)
    PROVE  Shape' /\ Counts(o)' /\ OnlyAt(o)
  <1> USE DEF Counts, RunsRecorded, RunsCounted, Recorded, Unsaved, OnlyAt, Same, Begun
  <1>1. runs[o] = 0 /\ lost[o] \in Nat
    BY RecoveryAssumption DEF Delete, Shape
  <1>2. /\ stored' \in [Objects -> State \cup {None}]
        /\ \A x \in Objects \ {o} : stored'[x] = stored[x]
    BY DEF Delete, Shape
  <1>3. Recorded(o)' \in Nat
    BY <1>2, RecoveryAssumption DEF State
  <1> QED
    BY <1>1, <1>2, <1>3, ReturnTyped DEF Delete, Shape, history

(* A resumed object starts anew, whatever its caller is doing.             *)
LEMMA ResumeDeleteCounts ==
    ASSUME Shape, NEW o \in Objects, Counts(o), ResumeDelete(o)
    PROVE  Shape' /\ Counts(o)' /\ OnlyAt(o)
  <1> USE DEF Counts, RunsRecorded, RunsCounted, Recorded, Unsaved, OnlyAt, Same, Begun
  <1>1. CASE UNCHANGED <<stored, runs, lost>>
    BY <1>1 DEF ResumeDelete, Shape
  <1>2. CASE /\ stored' = [stored EXCEPT ![o] = None]
             /\ runs' = [runs EXCEPT ![o] = 0]
             /\ lost' = [lost EXCEPT ![o] = 0]
    <2>1. local[o].attempts \in Nat
      BY RecoveryAssumption DEF Shape, State
    <2> QED
      BY <1>2, <2>1, RecoveryAssumption DEF ResumeDelete, Shape
  <1> QED
    BY <1>1, <1>2 DEF ResumeDelete

(* The passing of a delay changes no count.                                *)
LEMMA DelayCounts ==
    ASSUME Shape, NEW o \in Objects, Counts(o), RetryDelayPasses(o)
    PROVE  Shape' /\ Counts(o)' /\ OnlyAt(o)
  <1> USE DEF Counts, RunsRecorded, RunsCounted, Recorded, Unsaved, OnlyAt, Same, Begun
  <1>1. CASE stored[o] # None /\ stored' = [stored EXCEPT ![o].due = TRUE] /\ UNCHANGED local
    <2>1. stored[o] \in State
      BY <1>1 DEF Shape
    <2>2. /\ stored' \in [Objects -> State \cup {None}]
          /\ stored'[o] \in State /\ stored'[o].attempts = stored[o].attempts
          /\ \A x \in Objects \ {o} : stored'[x] = stored[x]
      BY <1>1, <2>1 DEF Shape, State
    <2>3. stored'[o] # None
      BY <2>2, RecoveryAssumption DEF State
    <2> QED
      BY <1>1, <2>2, <2>3 DEF RetryDelayPasses, history, Shape
  <1>2. CASE /\ local' = [local EXCEPT ![o].due = TRUE]
             /\ stored' = [stored EXCEPT ![o] = IF @ = None THEN @ ELSE [@ EXCEPT !.due = TRUE]]
    <2>1. /\ local' \in [Objects -> State]
          /\ local'[o].attempts = local[o].attempts
          /\ \A x \in Objects \ {o} : local'[x] = local[x]
      BY <1>2 DEF Shape, State
    <2>2. /\ stored' \in [Objects -> State \cup {None}]
          /\ \A x \in Objects \ {o} : stored'[x] = stored[x]
      BY <1>2 DEF Shape, State
    <2>3. Recorded(o)' = Recorded(o)
      <3>1. CASE stored[o] = None
        BY <1>2, <3>1 DEF Shape
      <3>2. CASE stored[o] # None
        <4>1. /\ stored[o] \in State
              /\ stored'[o] = [stored[o] EXCEPT !.due = TRUE]
          BY <1>2, <3>2 DEF Shape
        <4>2. stored'[o] \in State /\ stored'[o].attempts = stored[o].attempts
          BY <4>1 DEF State
        <4> QED
          BY <3>2, <4>2, RecoveryAssumption DEF State
      <3> QED
        BY <3>1, <3>2
    <2> QED
      BY <2>1, <2>2, <2>3 DEF RetryDelayPasses, history, Shape
  <1> QED
    BY <1>1, <1>2 DEF RetryDelayPasses

(* A crash loses the records of all attempts in progress at once.          *)
LEMMA CrashCounts ==
    ASSUME Shape, \A o \in Objects : Counts(o), Crash
    PROVE  Shape' /\ \A o \in Objects : Counts(o)'
  <1>1. Fresh \in State
    BY RecoveryAssumption DEF Fresh, State
  <1>2. Shape'
    BY <1>1, RecoveryAssumption DEF Crash, Shape, Labels, Unsaved
  <1>3. ASSUME NEW o \in Objects PROVE Counts(o)'
    <2>1. /\ lost'[o] = lost[o] + Unsaved(o) /\ runs'[o] = runs[o]
          /\ pc'[o] = "idle" /\ stored' = stored
      BY DEF Crash
    <2>2. lost[o] \in Nat /\ Unsaved(o) \in Nat /\ runs[o] \in Nat /\ Recorded(o) \in Nat
      BY RecoveryAssumption DEF Shape, State, Unsaved, Recorded
    <2>3. runs[o] <= Recorded(o) + lost[o] + Unsaved(o)
      BY DEF Counts, RunsRecorded
    <2>4. Recorded(o)' = Recorded(o) /\ Unsaved(o)' = 0
      BY <2>1 DEF Recorded, Unsaved
    <2> QED
      BY <2>1, <2>2, <2>3, <2>4 DEF Counts, RunsRecorded, RunsCounted, Begun
  <1> QED
    BY <1>2, <1>3

(* Listing the states changes none of them.                                *)
LEMMA ResumeListCounts ==
    ASSUME Shape, ResumeList
    PROVE  Shape' /\ \A o \in Objects : Same(o)
  BY DEF Shape, ResumeList, ResumeFrom, Failed, Same, history

-----------------------------------------------------------------------------
(* Every behaviour                                                         *)

(* Nothing has run and nothing is recorded.                                *)
LEMMA RInvInit == Init => RInv
  <1> SUFFICES ASSUME Init PROVE RInv
    OBVIOUS
  <1>1. BreakerInv
    BY SyncBreakerAssumption
    DEF Init, BreakerInit, BreakerInv, BreakerTypeOK, ClosedBelowThreshold
  <1>2. Fresh \in State
    BY RecoveryAssumption DEF Fresh, State
  <1>3. Shape
    BY <1>2, RecoveryAssumption DEF Init, Shape, Labels
  <1>4. \A o \in Objects : Counts(o)
    BY DEF Init, Counts, RunsRecorded, RunsCounted, Recorded, Unsaved, Begun
  <1> QED
    BY <1>1, <1>3, <1>4 DEF RInv

(* Every step keeps the invariant.                                         *)
LEMMA RInvStep == RInv /\ [Next]_vars => RInv'
  <1> SUFFICES ASSUME RInv, [Next]_vars PROVE RInv'
    OBVIOUS
  <1> USE DEF RInv
  <1>1. BreakerInv'
    BY BreakerKept
    DEF Next, Step, TimePasses, Crash, ResumeList, ResumeFrom, ResumeDelete, Call, Attempt, Promote, Recheck,
        OperationSucceeds, OperationFails, Save, Delete, RetryDelayPasses, vars
  <1>2. ASSUME NEW o \in Objects,
               Call(o) \/ Step(o) \/ ResumeDelete(o) \/ RetryDelayPasses(o)
        PROVE  Shape' /\ Counts(o)' /\ OnlyAt(o)
    BY <1>2, CallCounts, AttemptCounts, PromoteCounts, RecheckCounts, SucceedsCounts, FailsCounts,
       SaveCounts, DeleteCounts, ResumeDeleteCounts, DelayCounts DEF Step
  <1>3. CASE \E o \in Objects : Call(o) \/ Step(o) \/ ResumeDelete(o) \/ RetryDelayPasses(o)
    BY <1>1, <1>2, <1>3, SameCounts DEF OnlyAt
  <1>4. CASE ResumeList
    BY <1>1, <1>4, ResumeListCounts, SameCounts
  <1>5. CASE Crash
    BY <1>1, <1>5, CrashCounts
  <1>6. CASE UNCHANGED <<callVars, history>>
    BY <1>1, <1>6, SameCounts DEF Shape, Same, callVars, history
  <1> QED
    BY <1>3, <1>4, <1>5, <1>6 DEF Next, TimePasses, vars

(* The invariant holds in every behaviour.                                 *)
LEMMA RecoveryInvariant == Spec => []RInv
  BY RInvInit, RInvStep, PTL DEF Spec

(* What the invariant says of the runs, at every point of the loop.        *)
LEMMA RunsWithinBudget ==
    ASSUME RInv, NEW o \in Objects
    PROVE  runs[o] <= MaxRetries + lost[o]
  <1>1. local[o].attempts \in 0..MaxRetries /\ Recorded(o) \in 0..MaxRetries
    BY RecoveryAssumption DEF RInv, Shape, State, Recorded
  <1>2. runs[o] \in Nat /\ lost[o] \in Nat /\ pc[o] \in Labels
    BY DEF RInv, Shape
  <1>3. Counts(o)
    BY DEF RInv
  <1>4. CASE Unsaved(o) = 0
    BY <1>1, <1>2, <1>3, <1>4, RecoveryAssumption DEF Counts, RunsRecorded
  <1>5. CASE pc[o] \in {"running", "save"}
    BY <1>1, <1>2, <1>3, <1>5, RecoveryAssumption DEF Counts, RunsCounted
  <1> QED
    BY <1>4, <1>5 DEF Unsaved

(* Only the first and the third look of canExecute at the state let an     *)
(* operation start, and neither does so when the state is open.            *)
LEMMA StartsWhenAllowed ==
    ASSUME Shape, [Next]_vars, NEW o \in Objects, pc[o] # "running", pc'[o] = "running"
    PROVE  breaker # "open"
  <1>1. CASE Attempt(o) \/ Recheck(o)
    BY <1>1 DEF Attempt, Recheck, Passes, Goto, Shape
  <1>2. CASE \E x \in Objects \ {o} : Call(x) \/ Step(x) \/ ResumeDelete(x)
    BY <1>2 DEF Call, Step, ResumeDelete, Loop, Return, Attempt, Promote, Recheck,
                OperationSucceeds, OperationFails, Save, Delete, StartOperation, Goto, Shape
  <1>3. CASE Call(o) \/ Save(o)
    BY <1>3 DEF Call, Save, Loop, Return, Goto, Shape
  <1>4. CASE \/ Promote(o) \/ OperationSucceeds(o) \/ OperationFails(o) \/ Delete(o)
             \/ ResumeDelete(o)
    BY <1>4 DEF Promote, OperationSucceeds, OperationFails, Delete, ResumeDelete, Return, Goto, Shape
  <1>5. CASE ResumeList \/ TimePasses \/ Crash \/ UNCHANGED vars
    BY <1>5 DEF ResumeList, ResumeFrom, TimePasses, RetryDelayPasses, Crash, vars, callVars, history
  <1> QED
    BY <1>1, <1>2, <1>3, <1>4, <1>5 DEF Next, Step

(* Every variable keeps its type; attempts never exceed MaxRetries.        *)
THEOREM RecoveryTypeCorrect == Spec => []TypeOK
  <1>1. RInv => TypeOK
    <2> SUFFICES ASSUME RInv PROVE TypeOK
      OBVIOUS
    <2>1. ASSUME NEW o \in Objects PROVE runs[o] \in 0..(MaxRetries + MaxLost)
      <3>1. runs[o] <= MaxRetries + lost[o]
        BY RunsWithinBudget
      <3> QED
        BY <3>1, RecoveryAssumption DEF RInv, Shape
    <2>2. runs \in [Objects -> 0..(MaxRetries + MaxLost)]
      BY <2>1 DEF RInv, Shape
    <2>3. BreakerTypeOK /\ Shape
      BY DEF RInv, BreakerInv
    <2> QED
      BY <2>2, <2>3 DEF Shape, TypeOK
  <1> QED
    BY <1>1, RecoveryInvariant, PTL

(* Whatever fails, crashes and is resumed in whatever order, an object's   *)
(* operation runs at most MaxRetries times plus once per lost record.      *)
THEOREM RetriesBounded == Spec => []RetryBudget
  <1>1. RInv => RetryBudget
    BY RunsWithinBudget DEF RetryBudget
  <1> QED
    BY <1>1, RecoveryInvariant, PTL

(* The breaker of the recovery manager is closed only below its threshold. *)
THEOREM BreakerClosedBelowThreshold == Spec => []ClosedBelowThreshold
  BY RecoveryInvariant, PTL DEF RInv, BreakerInv

(* No operation starts while the breaker is open, for any interleaving of  *)
(* the three steps of canExecute.                                          *)
THEOREM OpenBreakerBlocks == Spec => OpenBlocks
  <1>1. ASSUME RInv, [Next]_vars, NEW o \in Objects, pc[o] # "running", pc'[o] = "running"
        PROVE  breaker # "open"
    BY <1>1, StartsWhenAllowed DEF RInv
  <1>2. RInv /\ [Next]_vars
          => [\A o \in Objects : pc[o] # "running" /\ pc'[o] = "running" => breaker # "open"]_vars
    BY <1>1
  <1> QED
    BY <1>2, RecoveryInvariant, PTL DEF Spec, OpenBlocks
=============================================================================
