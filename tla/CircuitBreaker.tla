--------------------------- MODULE CircuitBreaker ---------------------------
(***************************************************************************)
(* retry.CircuitBreaker (retry/circuit_breaker.go) with concurrent callers *)
(* of Execute.  canExecute reads the state under the read lock, releases   *)
(* it, and when the breaker is open and its timeout has passed takes the   *)
(* write lock to move it to half-open: two steps, between which other      *)
(* calls may finish.  Every other method holds the lock throughout.        *)
(*                                                                         *)
(* Time is one bit: whether resetTimeout has passed since lastFailureTime. *)
(* The request and success counters and the time of the last success feed  *)
(* GetMetrics only, and state change callbacks are the observer's; neither *)
(* decides anything here.                                                  *)
(***************************************************************************)
EXTENDS Integers

CONSTANTS
    Callers,       \* goroutines that call Execute
    MaxFailures,   \* maxFailures
    MaxCount       \* failures are counted up to here; only the limit matters

ASSUME BreakerAssumption ==
    /\ MaxFailures \in Nat \ {0}
    /\ MaxCount \in Nat
    /\ MaxFailures <= MaxCount

VARIABLES
    state,          \* "closed", "open" or "halfOpen"
    failureCount,
    elapsed,        \* time.Since(lastFailureTime) > resetTimeout
    pc              \* "idle", "promote" (inside canExecute) or "running" (in fn)

breakerVars == <<state, failureCount, elapsed, pc>>

BreakerInit ==
    /\ state = "closed"
    /\ failureCount = 0
    /\ elapsed = TRUE              \* lastFailureTime is the zero time
    /\ pc = [c \in Callers |-> "idle"]

Goto(c, label) == pc' = [pc EXCEPT ![c] = label]

TimePasses ==
    /\ ~elapsed
    /\ elapsed' = TRUE
    /\ UNCHANGED <<state, failureCount, pc>>

(* The part of canExecute that runs on what was read under RLock.          *)
CanExecute(c) ==
    /\ pc[c] = "idle"
    /\ \/ state \in {"closed", "halfOpen"} /\ Goto(c, "running")
       \/ state = "open" /\ elapsed /\ Goto(c, "promote")
       \/ state = "open" /\ ~elapsed /\ UNCHANGED pc         \* rejected
    /\ UNCHANGED <<state, failureCount, elapsed>>

\* A mutant: without the second look at state and time under the write lock.
PromoteUnchecked(c) ==
    /\ pc[c] = "promote"
    /\ state' = "halfOpen"
    /\ Goto(c, "running")
    /\ UNCHANGED <<failureCount, elapsed>>

(* The part of canExecute under the write lock.  The caller runs fn even   *)
(* when the double check finds that the breaker must stay open.            *)
Promote(c) ==
    /\ pc[c] = "promote"
    /\ state' = IF state = "open" /\ elapsed THEN "halfOpen" ELSE state
    /\ Goto(c, "running")
    /\ UNCHANGED <<failureCount, elapsed>>

Counted == IF failureCount < MaxCount THEN failureCount + 1 ELSE failureCount

RecordFailure(c) ==
    /\ pc[c] = "running"
    /\ failureCount' = Counted
    /\ elapsed' = FALSE
    /\ state' = IF state = "halfOpen" \/ (state = "closed" /\ failureCount' >= MaxFailures)
                THEN "open" ELSE state
    /\ Goto(c, "idle")

\* A mutant: success in half-open is only counted, so that nothing closes the breaker.
RecordSuccessIgnored(c) ==
    /\ pc[c] = "running"
    /\ UNCHANGED <<state, failureCount, elapsed>>
    /\ Goto(c, "idle")

(* Success closes a half-open breaker, whichever call it belongs to; while *)
(* closed it does not reset the count, and while open it changes nothing.  *)
RecordSuccess(c) ==
    /\ pc[c] = "running"
    /\ IF state = "halfOpen"
       THEN state' = "closed" /\ failureCount' = 0
       ELSE UNCHANGED <<state, failureCount>>
    /\ Goto(c, "idle")
    /\ UNCHANGED elapsed

Reset ==
    /\ state' = "closed"
    /\ failureCount' = 0
    /\ elapsed' = TRUE
    /\ UNCHANGED pc

Finish(c) == RecordFailure(c) \/ RecordSuccess(c)

BreakerNext ==
    \/ TimePasses
    \/ Reset
    \/ \E c \in Callers : CanExecute(c) \/ Promote(c) \/ Finish(c)

BreakerSpec == BreakerInit /\ [][BreakerNext]_breakerVars

-----------------------------------------------------------------------------
(* Properties                                                              *)

(* Every variable has its type.                                            *)
BreakerTypeOK ==
    /\ state \in {"closed", "open", "halfOpen"}
    /\ failureCount \in 0..MaxCount
    /\ elapsed \in BOOLEAN
    /\ pc \in [Callers -> {"idle", "promote", "running"}]

(* The breaker is closed exactly while fewer than maxFailures failures are *)
(* counted, in whatever order overlapping calls report their results: late *)
(* results of calls that began in an earlier state included.               *)
ClosedIffBelowLimit == state = "closed" <=> failureCount < MaxFailures

(* An open breaker is left only after resetTimeout without any failure,    *)
(* towards half-open, or by Reset: the late success of a call that began   *)
(* before does not close it, and a late promotion by a caller that read    *)
(* the state before the last failure does not reopen the gate.             *)
QuietPeriodKept ==
    [][state = "open" /\ state' # "open" => (elapsed /\ state' = "halfOpen") \/ Reset]_breakerVars

(* The breaker cannot wedge: if calls keep being made and from some moment *)
(* on none of them fails, it ends up closed and stays closed.              *)
CallsKeepComing == WF_breakerVars(\E c \in Callers : CanExecute(c))
FailuresStop == <>[][~ \E c \in Callers : RecordFailure(c)]_breakerVars
RecoversOnceHealthy == CallsKeepComing /\ FailuresStop => <>[](state = "closed")

(* While the breaker is open no call starts ("StateOpen indicates the      *)
(* circuit breaker is open (calls are rejected)", circuit_breaker.go:14).  *)
Starts(c) == pc[c] # "running" /\ pc'[c] = "running"
OpenRejectsCalls == [][\A c \in Callers : Starts(c) => state' # "open"]_breakerVars
=============================================================================
