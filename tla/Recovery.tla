------------------------------ MODULE Recovery ------------------------------
(***************************************************************************)
(* The recovery manager (sync/recovery.go, RecoveryState in errors.go):    *)
(* ExecuteWithRetry called for several objects at once, as the sync        *)
(* workers of docs/sync-engine.md do, all through one circuit breaker;     *)
(* recovery states kept in S3 across crashes of the process; and           *)
(* ResumeFailedSyncs.                                                      *)
(*                                                                         *)
(* A recovery state is its attempt count and whether NextRetry has passed. *)
(* NextRetry is the last attempt plus (attempts - 1) * BaseDelay, with     *)
(* BaseDelay positive: it has passed at once after the first attempt and   *)
(* after some time later.  CanRetry already demands that NextRetry has     *)
(* passed, so the wait inside the loop of ExecuteWithRetry never happens.  *)
(***************************************************************************)
EXTENDS SyncBreaker

CONSTANTS
    Objects,             \* the objects of the source
    None,                \* no recovery state in S3
    MaxRetries,          \* config.MaxRetries
    MaxLost              \* bound on the attempts whose record is lost

ASSUME RecoveryAssumption ==
    /\ MaxRetries \in Nat \ {0}
    /\ MaxLost \in Nat
    /\ None \notin [attempts : 0..MaxRetries, due : BOOLEAN]

State == [attempts : 0..MaxRetries, due : BOOLEAN]

Fresh == [attempts |-> 0, due |-> TRUE]

\* A mutant of the definition below.
IncrementNothing(s) == [attempts |-> s.attempts, due |-> TRUE]

(* The first retry has no delay: NextRetry is the first attempt itself.    *)
IncrementAttempt(s) == [attempts |-> s.attempts + 1, due |-> s.attempts = 0]

\* A mutant: an object that may be retried for ever.
CanRetryUncounted(s) == s.due
CanRetry(s) == s.attempts < MaxRetries /\ s.due

VARIABLES
    stored,    \* [Objects -> State \cup {None}], the recovery/ prefix in S3
    local,     \* the recoveryState of each object's ExecuteWithRetry
    pc,        \* where each object's ExecuteWithRetry is
    pending,   \* the objects ResumeFailedSyncs is about to delete
    runs,      \* history: operations run since the last success or resume
    lost       \* history: of these, those that no recovery state counts

callVars == <<stored, local, pc, pending>>
history  == <<runs, lost>>
vars     == <<breakerVars, callVars, history>>

Init ==
    /\ BreakerInit
    /\ stored = [o \in Objects |-> None]
    /\ local = [o \in Objects |-> Fresh]
    /\ pc = [o \in Objects |-> "idle"]
    /\ pending = {}
    /\ runs = [o \in Objects |-> 0]
    /\ lost = [o \in Objects |-> 0]

Goto(o, label) == pc' = [pc EXCEPT ![o] = label]

Return(o) ==
    /\ Goto(o, "idle")
    /\ local' = [local EXCEPT ![o] = Fresh]

Loses(o, n) ==
    /\ lost[o] + n <= MaxLost
    /\ lost' = [lost EXCEPT ![o] = @ + n]

\* Enter the loop, or go round it once more, or return.
Loop(o, s) ==
    \/ /\ CanRetry(s)
       /\ local' = [local EXCEPT ![o] = s]
       /\ Goto(o, "attempt")
    \/ ~CanRetry(s) /\ Return(o)

-----------------------------------------------------------------------------
(* ExecuteWithRetry                                                        *)

(* Load the recovery state; an error of any kind means a new one.  A state *)
(* that cannot be retried is refused, with an error or, when               *)
(* SkipFailedObjects is set, an empty result; nothing else comes of it.    *)
Call(o) ==
    /\ pc[o] = "idle"
    /\ \/ stored[o] # None /\ Loop(o, stored[o]) /\ UNCHANGED lost
       \/ stored[o] = None /\ Loop(o, Fresh) /\ UNCHANGED lost
       \/ /\ stored[o] # None                             \* the load failed
          /\ Loop(o, Fresh)
          /\ Loses(o, stored[o].attempts)
    /\ UNCHANGED <<breakerVars, stored, pending, runs>>

StartOperation(o) ==
    /\ Goto(o, "running")
    /\ runs' = [runs EXCEPT ![o] = @ + 1]

(* IncrementAttempt, then canExecute up to the first unlock.               *)
Attempt(o) ==
    /\ pc[o] = "attempt"
    /\ local' = [local EXCEPT ![o] = IncrementAttempt(@)]
    /\ \/ Passes /\ StartOperation(o)
       \/ MayPromote /\ Goto(o, "promote") /\ UNCHANGED runs
       \/ Rejects /\ Goto(o, "save") /\ UNCHANGED runs
    /\ UNCHANGED <<breakerVars, stored, pending, lost>>

Promote(o) ==
    /\ pc[o] = "promote"
    /\ PromoteBreaker
    /\ Goto(o, "recheck")
    /\ UNCHANGED <<stored, local, pending, history>>

\* A mutant: runs after the timeout whatever the others did to the breaker meanwhile.
RecheckNothing(o) ==
    /\ pc[o] = "recheck"
    /\ StartOperation(o)
    /\ UNCHANGED <<breakerVars, stored, local, pending, lost>>

(* The read lock taken again: only half-open lets this caller through.     *)
Recheck(o) ==
    /\ pc[o] = "recheck"
    /\ \/ breaker = "halfOpen" /\ StartOperation(o)
       \/ breaker # "halfOpen" /\ Goto(o, "save") /\ UNCHANGED runs
    /\ UNCHANGED <<breakerVars, stored, local, pending, lost>>

OperationSucceeds(o) ==
    /\ pc[o] = "running"
    /\ RecordSuccess
    /\ Goto(o, "delete")
    /\ runs' = [runs EXCEPT ![o] = 0]
    /\ lost' = [lost EXCEPT ![o] = 0]
    /\ UNCHANGED <<stored, local, pending>>

(* A non-retryable error breaks out of the loop before the state is saved. *)
OperationFails(o) ==
    /\ pc[o] = "running"
    /\ RecordFailure
    /\ \/ Goto(o, "save") /\ UNCHANGED <<local, lost>>
       \/ Return(o) /\ Loses(o, 1)
    /\ UNCHANGED <<stored, pending, runs>>

\* The error of SaveRecoveryState is only logged.
Save(o) ==
    /\ pc[o] = "save"
    /\ \/ stored' = [stored EXCEPT ![o] = local[o]] /\ UNCHANGED lost
       \/ UNCHANGED stored /\ Loses(o, 1)
    /\ Loop(o, local[o])
    /\ UNCHANGED <<breakerVars, pending, runs>>

\* So is the error of DeleteRecoveryState.
Delete(o) ==
    /\ pc[o] = "delete"
    /\ stored' \in {stored, [stored EXCEPT ![o] = None]}
    /\ Return(o)
    /\ UNCHANGED <<breakerVars, pending, history>>

-----------------------------------------------------------------------------
(* ResumeFailedSyncs                                                       *)

Failed == {o \in Objects : stored[o] # None}

(* Of the states that could be read those that cannot be retried are left  *)
(* alone; whether NextRetry has passed is asked when the loop gets there.  *)
ResumeFrom(read) ==
    /\ pending = {} /\ Failed # {}
    /\ \E S \in SUBSET read :
         /\ \A o \in read : CanRetry(stored[o]) => o \in S
         /\ \A o \in S : stored[o].attempts < MaxRetries
         /\ pending' = S
    /\ UNCHANGED <<breakerVars, stored, local, pc, history>>

\* List the states; one that cannot be read is passed over with a warning.
ResumeList == \E read \in SUBSET Failed : ResumeFrom(read)

ResumeDelete(o) ==
    /\ o \in pending
    /\ pending' = pending \ {o}
    /\ \/ /\ stored' = [stored EXCEPT ![o] = None]
          /\ runs' = [runs EXCEPT ![o] = 0]
          /\ lost' = [lost EXCEPT ![o] = 0]
       \/ UNCHANGED <<stored, runs, lost>>
    /\ UNCHANGED <<breakerVars, local, pc>>

-----------------------------------------------------------------------------
(* The environment                                                         *)

(* NextRetry passes.  What is in S3 is never due later than the copy in    *)
(* memory, which was loaded from it or made after it.                      *)
RetryDelayPasses(o) ==
    /\ \/ /\ stored[o] # None /\ ~stored[o].due
          /\ stored' = [stored EXCEPT ![o].due = TRUE]
          /\ UNCHANGED local
       \/ /\ ~local[o].due
          /\ local' = [local EXCEPT ![o].due = TRUE]
          /\ stored' = [stored EXCEPT ![o] = IF @ = None THEN @ ELSE [@ EXCEPT !.due = TRUE]]
    /\ UNCHANGED <<breakerVars, pc, pending, history>>

\* An operation that was running, or had failed and was not yet saved.
Unsaved(o) == IF pc[o] \in {"running", "save"} THEN 1 ELSE 0

Crash ==
    /\ \E o \in Objects : pc[o] # "idle"
    /\ \A o \in Objects : lost[o] + Unsaved(o) <= MaxLost
    /\ lost' = [o \in Objects |-> lost[o] + Unsaved(o)]
    /\ breaker' = "closed" /\ failures' = 0 /\ elapsed' = TRUE
    /\ local' = [o \in Objects |-> Fresh]
    /\ pc' = [o \in Objects |-> "idle"]
    /\ pending' = {}
    /\ UNCHANGED <<stored, runs>>

TimePasses ==
    \/ ResetTimeoutPasses /\ UNCHANGED <<callVars, history>>
    \/ \E o \in Objects : RetryDelayPasses(o)

Step(o) ==
    \/ Attempt(o) \/ Promote(o) \/ Recheck(o)
    \/ OperationSucceeds(o) \/ OperationFails(o) \/ Save(o) \/ Delete(o)

Next ==
    \/ \E o \in Objects : Call(o) \/ Step(o) \/ ResumeDelete(o)
    \/ ResumeList
    \/ TimePasses
    \/ Crash

Spec == Init /\ [][Next]_vars

(* A call in progress goes on; operations end, as they run under a context.*)
FairSpec == Spec /\ \A o \in Objects : WF_vars(Step(o))

-----------------------------------------------------------------------------
(* Properties                                                              *)

Labels == {"idle", "attempt", "promote", "recheck", "running", "save", "delete"}

(* Every variable has its type; no attempt count exceeds MaxRetries.       *)
TypeOK ==
    /\ BreakerTypeOK
    /\ stored \in [Objects -> State \cup {None}]
    /\ local \in [Objects -> State]
    /\ pc \in [Objects -> Labels]
    /\ pending \subseteq Objects
    /\ runs \in [Objects -> 0..(MaxRetries + MaxLost)]
    /\ lost \in [Objects -> 0..MaxLost]

(* However calls, crashes and restarts follow each other, an object's      *)
(* operation runs at most MaxRetries times between two successes (or       *)
(* resumes), plus once for each run whose record was lost: by a crash, a   *)
(* failed save or load, or a non-retryable error, which is never recorded. *)
RetryBudget == \A o \in Objects : runs[o] <= MaxRetries + lost[o]

(* No operation starts while the breaker is open, even when other callers  *)
(* close and reopen it between the steps of canExecute.                    *)
OpenBlocks ==
    [][\A o \in Objects : pc[o] # "running" /\ pc'[o] = "running" => breaker # "open"]_vars

(* Every ExecuteWithRetry returns, without waiting for any retry delay.    *)
CallsReturn == \A o \in Objects : pc[o] # "idle" ~> pc[o] = "idle"

(* A caller is refused with "circuit breaker ... is open" (recovery.go:59) *)
(* only while the breaker is open.                                         *)
RefusedOnlyWhileOpen ==
    [][\A o \in Objects :
        pc[o] \in {"attempt", "recheck"} /\ pc'[o] = "save" => breaker = "open"]_vars

(* When ExecuteWithRetry gives up on a retryable error "All retries        *)
(* exhausted" (recovery.go:375) is true: MaxRetries attempts were made.    *)
GivesUpOnlyWhenExhausted ==
    [][\A o \in Objects :
        Save(o) /\ pc'[o] = "idle" => local[o].attempts = MaxRetries]_vars

(* "ResumeFailedSyncs attempts to resume all failed syncs for a source"    *)
(* (recovery.go:389), if it can read all their states.                     *)
ResumesAll == [][ResumeFrom(Failed) => pending' = Failed]_vars
=============================================================================
