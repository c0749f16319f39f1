--------------------------- MODULE HealthMonitor ---------------------------
(***************************************************************************)
(* The health monitor of internal/monitoring: a goroutine that checks the  *)
(* rules on every tick and hands what fires to the alert manager, which    *)
(* suppresses an alert during its cooldown and otherwise sends it to every *)
(* channel; Start and Stop, which share the two channels stopCh and doneCh *)
(* for as long as the monitor exists.                                      *)
(*                                                                         *)
(* collectMetrics returns the same made-up figures on every check, so that *)
(* what a rule finds depends on its thresholds alone: reading says, rule   *)
(* by rule, on which side of them the figure is.                           *)
(***************************************************************************)
EXTENDS Integers, Sequences, SequencesExt

CONSTANTS
    Rules,      \* the names of the enabled rules, in the order of hm.rules
    Channels,   \* the configured notification channels
    Cooldown,   \* cooldownPeriod, in units of the model's clock
    Stoppers    \* the goroutines that may call Stop

ASSUME CooldownAssumption == Cooldown \in Nat \ {0}

VARIABLES
    reading,     \* rule -> "good", "poor" (past the first threshold) or "bad"
    isRunning,   \* hm.isRunning
    stopClosed,  \* stopCh has been closed
    doneClosed,  \* doneCh has been closed
    ctxDone,     \* the context of the last Start is cancelled
    loop,        \* the goroutine: "none", "select", "alerts" or "sending"
    alerts,      \* the alerts of this check still to process, by rule
    age,         \* rule -> time since LastFired, Cooldown when it is past
    reachable,   \* the channels whose endpoint takes an alert just now
    stop,        \* stopper -> where its call of Stop is
    crashed      \* a closed channel was closed again: the process is gone

monitorVars == <<reading, isRunning, stopClosed, doneClosed, ctxDone, loop,
                 alerts, age, reachable, stop, crashed>>

Names == ToSet(Rules)

\* The rules for disks, memory and response times have two thresholds...
CheckThresholds(r) ==
    CASE r = "good" -> "ok" [] r = "poor" -> "warning" [] r = "bad" -> "critical"

\* ...and those for agents and workflows one.
Check(rule, r) ==
    CASE rule \notin {"agent_failure_rate", "workflow_completion"} -> CheckThresholds(r)
      [] r = "good" -> "ok"
      [] rule = "agent_failure_rate" -> "critical"
      [] OTHER -> "warning"

Fires(rule) == Check(rule, reading[rule]) # "ok"

ShouldSuppressAlert(rule) == age[rule] < Cooldown

MonitorInit ==
    /\ reading \in [Names -> {"good", "poor", "bad"}]
    /\ isRunning = FALSE /\ stopClosed = FALSE /\ doneClosed = FALSE
    /\ ctxDone = FALSE /\ loop = "none" /\ alerts = <<>>
    /\ age = [rule \in Names |-> Cooldown]
    /\ reachable = Channels
    /\ stop = [c \in Stoppers |-> "idle"]
    /\ crashed = FALSE

-----------------------------------------------------------------------------
(* Start and Stop.                                                         *)

Start ==
    /\ ~isRunning
    /\ isRunning' = TRUE /\ ctxDone' = FALSE /\ loop' = "select"
    /\ UNCHANGED <<reading, stopClosed, doneClosed, alerts, age, reachable,
                   stop, crashed>>

\* The check under the lock, which is released before the channel is closed:
\* two callers may both come through.
BeginStop(c) ==
    /\ stop[c] = "idle" /\ isRunning
    /\ stop' = [stop EXCEPT ![c] = "close"]
    /\ UNCHANGED <<reading, isRunning, stopClosed, doneClosed, ctxDone, loop,
                   alerts, age, reachable, crashed>>

CloseStopCh(c) ==
    /\ stop[c] = "close"
    /\ stopClosed' = TRUE /\ crashed' = stopClosed
    /\ stop' = [stop EXCEPT ![c] = "wait"]
    /\ UNCHANGED <<reading, isRunning, doneClosed, ctxDone, loop, alerts, age,
                   reachable>>

EndStop(c) ==
    /\ stop[c] = "wait" /\ doneClosed
    /\ isRunning' = FALSE
    /\ stop' = [stop EXCEPT ![c] = "idle"]
    /\ UNCHANGED <<reading, stopClosed, doneClosed, ctxDone, loop, alerts, age,
                   reachable, crashed>>

-----------------------------------------------------------------------------
(* The monitor loop.  A check that is under way is finished before the     *)
(* loop looks at its channels again.                                       *)

\* A mutant: only the loop that Stop has asked to end closes doneCh.
EndLoopOnStop ==
    /\ loop = "select" /\ (ctxDone \/ stopClosed)
    /\ loop' = "none" /\ doneClosed' = (stopClosed \/ doneClosed)
    /\ crashed' = doneClosed
    /\ UNCHANGED <<reading, isRunning, stopClosed, ctxDone, alerts, age,
                   reachable, stop>>

\* The deferred close of doneCh panics when an earlier loop has closed it.
EndLoop ==
    /\ loop = "select" /\ (ctxDone \/ stopClosed)
    /\ loop' = "none" /\ doneClosed' = TRUE /\ crashed' = doneClosed
    /\ UNCHANGED <<reading, isRunning, stopClosed, ctxDone, alerts, age,
                   reachable, stop>>

PerformHealthCheck ==
    /\ loop = "select"
    /\ alerts' = SelectSeq(Rules, Fires)
    /\ loop' = IF alerts' = <<>> THEN "select" ELSE "alerts"
    /\ UNCHANGED <<reading, isRunning, stopClosed, doneClosed, ctxDone, age,
                   reachable, stop, crashed>>

\* The loop's next step once an alert is done with.
Proceed ==
    /\ alerts' = Tail(alerts)
    /\ loop' = IF alerts' = <<>> THEN "select" ELSE "alerts"

\* A mutant: the state is updated before the alert is suppressed.
ProcessAlertRenewed ==
    /\ loop = "alerts"
    /\ IF ShouldSuppressAlert(Head(alerts)) THEN Proceed
       ELSE loop' = "sending" /\ alerts' = alerts
    /\ age' = [age EXCEPT ![Head(alerts)] = 0]
    /\ UNCHANGED <<reading, isRunning, stopClosed, doneClosed, ctxDone, reachable,
                   stop, crashed>>

\* The state is updated before the channels are tried.
ProcessAlert ==
    /\ loop = "alerts"
    /\ IF ShouldSuppressAlert(Head(alerts))
         THEN Proceed /\ age' = age
         ELSE /\ loop' = "sending" /\ alerts' = alerts
              /\ age' = [age EXCEPT ![Head(alerts)] = 0]
    /\ UNCHANGED <<reading, isRunning, stopClosed, doneClosed, ctxDone, reachable,
                   stop, crashed>>

\* Every channel is tried, and what they return is only logged.
SendAlert ==
    /\ loop = "sending" /\ Proceed
    /\ UNCHANGED <<reading, isRunning, stopClosed, doneClosed, ctxDone, age,
                   reachable, stop, crashed>>

-----------------------------------------------------------------------------
(* The environment: the caller's context, the clock and the endpoints.     *)

CancelContext ==
    /\ loop # "none" /\ ~ctxDone
    /\ ctxDone' = TRUE
    /\ UNCHANGED <<reading, isRunning, stopClosed, doneClosed, loop, alerts, age,
                   reachable, stop, crashed>>

TimePasses ==
    /\ \E rule \in Names : age[rule] < Cooldown
    /\ age' = [rule \in Names |-> IF age[rule] < Cooldown THEN age[rule] + 1
                                                          ELSE Cooldown]
    /\ UNCHANGED <<reading, isRunning, stopClosed, doneClosed, ctxDone, loop,
                   alerts, reachable, stop, crashed>>

EndpointsChange ==
    /\ reachable' \in SUBSET Channels
    /\ UNCHANGED <<reading, isRunning, stopClosed, doneClosed, ctxDone, loop,
                   alerts, age, stop, crashed>>

MonitorNext ==
    /\ ~crashed
    /\ \/ Start
       \/ \E c \in Stoppers : BeginStop(c) \/ CloseStopCh(c) \/ EndStop(c)
       \/ EndLoop \/ PerformHealthCheck \/ ProcessAlert \/ SendAlert
       \/ CancelContext \/ TimePasses \/ EndpointsChange
=============================================================================
