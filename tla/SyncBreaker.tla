---------------------------- MODULE SyncBreaker ----------------------------
(***************************************************************************)
(* The circuit breaker of the recovery manager (sync.CircuitBreaker in     *)
(* sync/recovery.go): its state and what each method does to it, one       *)
(* operator per stretch of code that runs under one lock.  It is not       *)
(* retry.CircuitBreaker: success clears the count in every state, failures *)
(* open it only at the threshold, and canExecute looks at the state a      *)
(* third time after it released the write lock.                            *)
(***************************************************************************)
EXTENDS Integers

CONSTANTS
    Threshold,      \* maxFailures
    MaxFailures     \* bound on failures

ASSUME SyncBreakerAssumption ==
    /\ Threshold \in Nat \ {0}
    /\ MaxFailures \in Nat
    /\ Threshold <= MaxFailures

VARIABLES
    breaker,        \* "closed", "open" or "halfOpen"
    failures,
    elapsed         \* time.Since(lastFailureTime) > resetTimeout

breakerVars == <<breaker, failures, elapsed>>

BreakerInit ==
    /\ breaker = "closed"
    /\ failures = 0
    /\ elapsed = TRUE               \* lastFailureTime is the zero time

BreakerTypeOK ==
    /\ breaker \in {"closed", "open", "halfOpen"}
    /\ failures \in 0..MaxFailures
    /\ elapsed \in BOOLEAN

ResetTimeoutPasses ==
    /\ ~elapsed
    /\ elapsed' = TRUE
    /\ UNCHANGED <<breaker, failures>>

\* What canExecute finds under the first read lock.
Passes == breaker \in {"closed", "halfOpen"}
MayPromote == breaker = "open" /\ elapsed
Rejects == breaker = "open" /\ ~elapsed

\* Under the write lock, with the state looked at again.
PromoteBreaker ==
    /\ breaker' = IF MayPromote THEN "halfOpen" ELSE breaker
    /\ UNCHANGED <<failures, elapsed>>

RecordFailure ==
    /\ failures < MaxFailures
    /\ failures' = failures + 1
    /\ elapsed' = FALSE
    /\ breaker' = IF failures' >= Threshold THEN "open" ELSE breaker

RecordSuccess ==
    /\ failures' = 0
    /\ breaker' = IF breaker = "halfOpen" THEN "closed" ELSE breaker
    /\ UNCHANGED elapsed

(* A closed breaker has counted fewer failures than its threshold.         *)
ClosedBelowThreshold == breaker = "closed" => failures < Threshold
=============================================================================
