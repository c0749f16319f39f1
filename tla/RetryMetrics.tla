---------------------------- MODULE RetryMetrics ----------------------------
(***************************************************************************)
(* The collector of retry metrics, two ways it is fed and its verdict on   *)
(* the system's health: policies that are instrumented chain a callback to *)
(* the OnRetry of the policy they share, and record the result of each     *)
(* execution besides; callers of a circuit breaker record the state they   *)
(* saw.  Every record takes the collector's lock on its own, and the       *)
(* verdict takes it twice: for the retries, then for the breakers.  Counts *)
(* and rates of a breaker, which the verdict does not use, are left out.   *)
(***************************************************************************)
EXTENDS Integers, Sequences, SequencesExt, FiniteSetsExt

CONSTANTS
    Executors,       \* goroutines that call ExecuteWithMetrics
    PolicyNames,           \* operation names a policy is instrumented with
    MaxTries,        \* MaxAttempts of the policy
    BackoffFunc,     \* "fixed", "linear", "exponential" or "rate_limit"
    BaseDelay, MaxDelay,
    Elapsed,         \* how long an execution may take, with all its attempts
    Significant,     \* records beyond which a poor rate counts: 10
    Breakers,
    MaxHooks,        \* bound on the instrumentations
    MaxRecords,      \* bound on the records before an execution starts
    MaxTime          \* bound on the clock

ASSUME RetryAssumption ==
    /\ IsFiniteSet(Executors) /\ IsFiniteSet(PolicyNames)
    /\ BackoffFunc \in {"fixed", "linear", "exponential", "rate_limit"}
    /\ BaseDelay \in Nat /\ MaxDelay \in Nat /\ Elapsed \subseteq Nat
    /\ MaxTries \in Nat /\ MaxTime \in Nat

VARIABLES
    hooks,           \* the names in OnRetry's chain, the outermost first
    execution,       \* executor -> [at, name, attempt, left]
    retryMetrics,    \* name -> counters, for the names seen so far
    breakerMetrics,  \* breaker -> [state, since, total], for those seen so far
    health,          \* [at, healthy, deserved]: the last GetHealthStatus
    now,             \* the clock
    outcomes,        \* name -> what really happened since the last Reset
    openTime         \* breaker -> [first, time]: its first event, time open

retryVars == <<hooks, execution, retryMetrics, breakerMetrics, health, now,
               outcomes, openTime>>

Unused == [at |-> "idle", name |-> "", attempt |-> 0, left |-> <<>>]
Nothing == <<>>   \* an empty map

RetryInit ==
    /\ hooks = <<>>
    /\ execution = [x \in Executors |-> Unused]
    /\ retryMetrics = Nothing /\ breakerMetrics = Nothing
    /\ health = [at |-> "none", healthy |-> FALSE, deserved |-> FALSE]
    /\ now = 0
    /\ outcomes = [n \in PolicyNames |-> [succeeded |-> 0, failed |-> 0]]
    /\ openTime = Nothing

-----------------------------------------------------------------------------
(* Delays                                                                  *)

Backoff(attempt) ==
    CASE attempt <= 0 -> BaseDelay
      [] BackoffFunc = "fixed" -> BaseDelay
      [] BackoffFunc = "linear" -> BaseDelay * attempt
      [] BackoffFunc = "exponential" -> BaseDelay * 2 ^ (attempt - 1)
      [] BackoffFunc = "rate_limit" -> BaseDelay * 3 ^ (attempt - 1)

\* Jitter adds up to a tenth after the limit was applied.
CalculateDelay(attempt) ==
    LET delay == IF Backoff(attempt) > MaxDelay THEN MaxDelay ELSE Backoff(attempt)
    IN delay .. delay + delay \div 10

-----------------------------------------------------------------------------
(* The collector                                                           *)

With(map, key, value) ==
    [k \in DOMAIN map \cup {key} |-> IF k = key THEN value ELSE map[k]]

RecordRetryAttempt(name, delay, success) ==
    LET new == [attempts |-> 0, successes |-> 0, failures |-> 0, max |-> delay]
        m == IF name \in DOMAIN retryMetrics THEN retryMetrics[name] ELSE new
    IN retryMetrics' = With(retryMetrics, name,
           [attempts |-> m.attempts + 1,
            successes |-> m.successes + (IF success THEN 1 ELSE 0),
            failures |-> m.failures + (IF success THEN 0 ELSE 1),
            max |-> IF delay > m.max THEN delay ELSE m.max])

\* A mutant: the time open is added when a breaker closes, not when it is
\* left for half-open.
EndsOpenPeriodByClosing(m, state) == state = "closed" /\ m.since >= 0

EndsOpenPeriod(m, state) == m.state = "open" /\ m.since >= 0

\* since is -1 until the breaker has been seen to open.  Events come in the
\* order in which their callers get the lock, so that any state may follow
\* any other.
RecordCircuitBreakerEvent(b, state) ==
    LET new == [state |-> state, since |-> -1, total |-> 0]
        m == IF b \in DOMAIN breakerMetrics THEN breakerMetrics[b] ELSE new
        changed == m.state # state
    IN breakerMetrics' = With(breakerMetrics, b,
           [state |-> state,
            since |-> IF changed /\ state = "open" THEN now ELSE m.since,
            total |-> IF changed /\ EndsOpenPeriod(m, state)
                      THEN m.total + now - m.since ELSE m.total])

\* The time a breaker was open, with the period it is in.
GetCircuitBreakerMetrics(b) ==
    LET m == breakerMetrics[b]
    IN m.total + (IF m.state = "open" /\ m.since >= 0 THEN now - m.since ELSE 0)

GetAggregatedMetrics ==
    LET seen == DOMAIN retryMetrics
    IN [attempts |-> SumFunction([n \in seen |-> retryMetrics[n].attempts]),
        successes |-> SumFunction([n \in seen |-> retryMetrics[n].successes]),
        failures |-> SumFunction([n \in seen |-> retryMetrics[n].failures])]

\* The retries are good enough for a healthy system: nine in ten of all
\* attempts (nothing recorded makes a rate of 0), and no name with a poor rate.
GoodRates ==
    LET all == GetAggregatedMetrics
        Poor(m) == 10 * m.successes < 8 * m.attempts /\ m.attempts > Significant
    IN /\ all.attempts > 0 /\ 10 * all.successes >= 9 * all.attempts
       /\ \A n \in DOMAIN retryMetrics : ~Poor(retryMetrics[n])

\* Executions of n whose last result is still to be recorded.
Unrecorded(n, at) ==
    {x \in Executors : /\ execution[x].name = n /\ execution[x].at = at
                       /\ at = "retrying" => n \in ToSet(execution[x].left)}

UnrecordedFailures(n) == Cardinality(Unrecorded(n, "failed") \cup Unrecorded(n, "retrying"))

\* History: nine in ten of what really happened, and has been told, went well.
GoodOutcomes ==
    LET failed == SumFunction([n \in PolicyNames |->
                                  outcomes[n].failed - UnrecordedFailures(n)])
        succeeded == SumFunction([n \in PolicyNames |-> outcomes[n].succeeded])
    IN 10 * succeeded >= 9 * (succeeded + failed) /\ succeeded > 0

\* GetHealthStatus, for one caller: it copies the retry metrics...
GetRetryMetrics ==
    /\ health.at # "retries"
    /\ health' = [at |-> "retries", healthy |-> GoodRates, deserved |-> GoodOutcomes]
    /\ UNCHANGED <<hooks, execution, retryMetrics, breakerMetrics, now, outcomes, openTime>>

\* ... gives up the lock, copies those of the breakers, and judges.
GetBreakerMetrics ==
    /\ health.at = "retries"
    /\ health' = [health EXCEPT
           !.at = "told",
           !.healthy = @ /\ \A b \in DOMAIN breakerMetrics : breakerMetrics[b].state # "open"]
    /\ UNCHANGED <<hooks, execution, retryMetrics, breakerMetrics, now, outcomes, openTime>>

\* What is not recorded yet goes to the new maps.
Reset ==
    /\ retryMetrics' = Nothing /\ breakerMetrics' = Nothing /\ openTime' = Nothing
    /\ outcomes' = [n \in PolicyNames |-> [succeeded |-> Cardinality(Unrecorded(n, "succeeded")),
                                     failed |-> UnrecordedFailures(n)]]
    /\ UNCHANGED <<hooks, execution, health, now>>

-----------------------------------------------------------------------------
(* Instrumented policies                                                   *)

\* NewInstrumentedRetryPolicy changes the policy it is given: the callback
\* it finds there is called after its own.
NewInstrumentedRetryPolicy(name) ==
    /\ Len(hooks) < MaxHooks
    /\ hooks' = <<name>> \o hooks
    /\ UNCHANGED <<execution, retryMetrics, breakerMetrics, health, now, outcomes, openTime>>

ExecuteWithMetrics(x, name) ==
    /\ execution[x].at = "idle" /\ name \in ToSet(hooks)
    /\ GetAggregatedMetrics.attempts < MaxRecords
    /\ execution' = [execution EXCEPT ![x] =
           [at |-> "trying", name |-> name, attempt |-> 1, left |-> <<>>]]
    /\ UNCHANGED <<hooks, retryMetrics, breakerMetrics, health, now, outcomes, openTime>>

Happened(x, what) ==
    outcomes' = [outcomes EXCEPT ![execution[x].name][what] = @ + 1]

OperationReturns(x) ==
    /\ execution[x].at = "trying"
    /\ \/ /\ execution' = [execution EXCEPT ![x].at = "succeeded"]
          /\ Happened(x, "succeeded")
       \/ \* the error is not retryable, or this was the last attempt
          /\ execution' = [execution EXCEPT ![x].at = "failed"]
          /\ Happened(x, "failed")
       \/ /\ execution[x].attempt < MaxTries
          /\ execution' = [execution EXCEPT ![x].at = "retrying", ![x].left = hooks]
          /\ Happened(x, "failed")
    /\ UNCHANGED <<hooks, retryMetrics, breakerMetrics, health, now, openTime>>

\* The next callback of the chain; each draws a delay of its own.
OnRetry(x) ==
    LET e == execution[x]
    IN /\ e.at = "retrying"
       /\ \E delay \in CalculateDelay(e.attempt) :
             RecordRetryAttempt(Head(e.left), delay, FALSE)
       /\ execution' = [execution EXCEPT
              ![x].left = Tail(@),
              ![x].at = IF Len(e.left) = 1 THEN "waiting" ELSE "retrying"]
       /\ UNCHANGED <<hooks, breakerMetrics, health, now, outcomes, openTime>>

\* The wait for the next attempt ends, or the context does.
WaitEnds(x) ==
    /\ execution[x].at = "waiting"
    /\ \/ /\ execution' = [execution EXCEPT ![x].at = "trying", ![x].attempt = @ + 1]
          /\ UNCHANGED outcomes
       \/ /\ execution' = [execution EXCEPT ![x].at = "failed"]
          /\ Happened(x, "failed")
    /\ UNCHANGED <<hooks, retryMetrics, breakerMetrics, health, now, openTime>>

\* The result of all attempts is recorded, as if the time they took were the
\* delay of one.
RecordFinalResult(x) ==
    /\ execution[x].at \in {"succeeded", "failed"}
    /\ \E elapsed \in Elapsed :
          RecordRetryAttempt(execution[x].name, elapsed, execution[x].at = "succeeded")
    /\ execution' = [execution EXCEPT ![x] = Unused]
    /\ UNCHANGED <<hooks, breakerMetrics, health, now, outcomes, openTime>>

PoliciesNext ==
    \/ \E name \in PolicyNames : NewInstrumentedRetryPolicy(name)
    \/ \E x \in Executors :
          \/ \E name \in PolicyNames : ExecuteWithMetrics(x, name)
          \/ OperationReturns(x) \/ OnRetry(x) \/ WaitEnds(x) \/ RecordFinalResult(x)

-----------------------------------------------------------------------------
(* Circuit breakers, whose state their callers report after each call.     *)

BreakerCalled(b, state) ==
    /\ RecordCircuitBreakerEvent(b, state)
    /\ openTime' = With(openTime, b, IF b \in DOMAIN openTime THEN openTime[b]
                                     ELSE [first |-> state, time |-> 0])
    /\ UNCHANGED <<hooks, execution, retryMetrics, health, now, outcomes>>

TimePassesOpen ==
    /\ now < MaxTime
    /\ now' = now + 1
    /\ openTime' = [b \in DOMAIN openTime |->
           [openTime[b] EXCEPT !.time =
                IF breakerMetrics[b].state = "open" THEN @ + 1 ELSE @]]
    /\ UNCHANGED <<hooks, execution, retryMetrics, breakerMetrics, health, outcomes>>

RetryNext ==
    \/ PoliciesNext
    \/ \E b \in Breakers, state \in {"closed", "open", "half-open"} :
          BreakerCalled(b, state)
    \/ TimePassesOpen \/ Reset \/ GetRetryMetrics \/ GetBreakerMetrics

RetrySpec == RetryInit /\ [][RetryNext]_retryVars

\* A bound for TLC: one policy, and one execution at a time.
OneAtATime == /\ Len(hooks') <= 1
              /\ \A x, y \in Executors :
                    execution'[x].at # "idle" /\ execution'[y].at # "idle" => x = y

-----------------------------------------------------------------------------
(* Properties                                                              *)

\* At every moment, Reset and records in flight included: what an operation
\* counts as successes are the executions that succeeded; its failures are
\* no fewer than the calls that failed and the waits that were cut short,
\* and exactly those while its policy is instrumented once (a policy that
\* two operations share counts the retries of both for each).  A verdict of
\* healthy was deserved by what had happened when the retries were read,
\* whatever was recorded, reported or reset before the breakers were.  The
\* time a breaker has been open is that between the events that said so, in
\* whatever order they came, unless the first of them did already.  What is
\* told as the longest delay is within the policy's limit and a tenth, or is
\* the time an execution took.
MetricsAddUp ==
    /\ \A n \in PolicyNames :
          LET none == [attempts |-> 0, successes |-> 0, failures |-> 0]
              m == IF n \in DOMAIN retryMetrics THEN retryMetrics[n] ELSE none
              failures == m.failures + UnrecordedFailures(n)
          IN /\ n \in DOMAIN retryMetrics =>
                    \/ 10 * retryMetrics[n].max <= 11 * MaxDelay
                    \/ retryMetrics[n].max \in Elapsed
             /\ m.successes + Cardinality(Unrecorded(n, "succeeded")) = outcomes[n].succeeded
             /\ failures >= outcomes[n].failed
             /\ hooks = <<n>> => failures = outcomes[n].failed
    /\ health.healthy => health.deserved
    /\ \A b \in DOMAIN openTime :
          openTime[b].first # "open" => GetCircuitBreakerMetrics(b) = openTime[b].time
=============================================================================
