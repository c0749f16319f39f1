---------------------------- MODULE Observation ----------------------------
(***************************************************************************)
(* What watches over the sync: the health monitor, the validation of the   *)
(* records and its drift detector, the runtime monitor, the profiler, and  *)
(* the metrics of retries and of circuit breakers.  They share no state,   *)
(* so that the behaviours of each are those with the others at rest: part  *)
(* says which of them a behaviour is about.                                *)
(***************************************************************************)
EXTENDS HealthMonitor, Validation, RuntimeMonitor, Profiler, DriftDetector,
        RetryMetrics

VARIABLE part

vars == <<part, monitorVars, validationVars, runtimeVars, profilerVars,
          driftVars, retryVars>>

\* A part at rest has one initial state.
Init ==
    /\ part \in {"monitor", "validation", "runtime", "profiler", "drift",
                "retries", "breakers"}
    /\ MonitorInit /\ ValidationInit /\ RuntimeInit /\ ProfilerInit
    /\ DriftInit /\ RetryInit
    /\ part # "validation" => ~strict /\ schema = [o \in Objects |-> "fields"]
    /\ part # "monitor" => reading = [rule \in Names |-> "good"]

MonitorStep(action) ==
    /\ part = "monitor" /\ action
    /\ UNCHANGED <<part, validationVars, runtimeVars, profilerVars, driftVars,
                   retryVars>>

ValidationStep ==
    /\ part = "validation" /\ ValidationNext
    /\ UNCHANGED <<part, monitorVars, runtimeVars, profilerVars, driftVars,
                   retryVars>>

RuntimeStep ==
    /\ part = "runtime" /\ RuntimeNext
    /\ UNCHANGED <<part, monitorVars, validationVars, profilerVars, driftVars,
                   retryVars>>

CallGoesOn(w) == CallWaits(w) \/ TrackError(w) \/ TrackOperation(w)

ProfilerStep(action) ==
    /\ part = "profiler" /\ action
    /\ UNCHANGED <<part, monitorVars, validationVars, runtimeVars, driftVars,
                   retryVars>>

DriftStep ==
    /\ part = "drift" /\ DriftNext
    /\ UNCHANGED <<part, monitorVars, validationVars, runtimeVars, profilerVars,
                   retryVars>>

\* Many executions and no event of a breaker, or events of breakers and one
\* execution at a time.
RetryStep ==
    /\ RetryNext
    /\ \/ part = "retries" /\ UNCHANGED <<breakerMetrics, now>>
       \/ part = "breakers" /\ OneAtATime
    /\ UNCHANGED <<part, monitorVars, validationVars, runtimeVars, profilerVars,
                   driftVars>>

Next == MonitorStep(MonitorNext) \/ ValidationStep \/ RuntimeStep
        \/ ProfilerStep(ProfilerNext) \/ DriftStep \/ RetryStep

Spec == Init /\ [][Next]_vars

Going(action) == MonitorStep(~crashed /\ action)

\* The alert on rule reaches the endpoint of some channel.
Delivered(rule) ==
    /\ Going(SendAlert) /\ Head(alerts) = rule /\ reachable # {}

(* The loop's goroutine and Stop go on when they can, time passes, and a   *)
(* select with several ready cases takes one at random, so that none is    *)
(* passed over for ever.  A channel answers: the HTTP clients have a       *)
(* timeout of 10 s.  smtp.SendMail has none, and nothing is claimed of a   *)
(* monitor with an email channel.                                          *)
FairSpec ==
    /\ Spec
    /\ SF_vars(Going(EndLoop)) /\ SF_vars(Going(PerformHealthCheck))
    /\ WF_vars(Going(ProcessAlert)) /\ WF_vars(Going(SendAlert))
    /\ WF_vars(Going(TimePasses))
    /\ \A c \in Stoppers : /\ WF_vars(Going(CloseStopCh(c)))
                           /\ WF_vars(Going(EndStop(c)))
    /\ WF_vars(ProfilerStep(GetAllOperationMetrics \/ ReadHistory \/ FinishReport))
    /\ \A w \in Workers : WF_vars(ProfilerStep(CallGoesOn(w)))

-----------------------------------------------------------------------------
(* Properties                                                              *)

\* Stop returns, whether the context or Stop has ended the loop, and
\* whatever the loop was at; or the process has died of a channel closed
\* twice.
MonitorStopReturns ==
    \A c \in Stoppers : stop[c] # "idle" ~> stop[c] = "idle" \/ crashed

\* A condition that stays is reported again and again for as long as the
\* monitor runs: the cooldown delays an alert and never hides it for good,
\* even when no channel could be reached the first time.
ConditionsAlert ==
    \A rule \in Names :
        Fires(rule) /\ <>[](part = "monitor" /\ loop # "none" /\ ~stopClosed /\ ~ctxDone
                             /\ ~crashed /\ reachable # {})
            => []<><<Delivered(rule)>>_vars

\* A tracked operation returns to its caller, whatever cleanups and reports
\* there are: all that can hold it for ever is a report that was caught by
\* a writer between the two times it takes the lock.
TrackedCallsReturn ==
    \A w \in Workers :
        calls[w].at # "idle" ~> calls[w].at = "idle" \/ (profile.at = "held" /\ pending # {})
=============================================================================
