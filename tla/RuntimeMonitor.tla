--------------------------- MODULE RuntimeMonitor ---------------------------
(***************************************************************************)
(* The runtime monitor (security/runtime.go): callers record events, which *)
(* are counted by type and kept in a buffer; a goroutine checks memory and *)
(* goroutines on every tick, records what it finds and drops old events;   *)
(* and a report is put together from three readings under the lock.        *)
(*                                                                         *)
(* cleanupOldData takes no lock.  An event recorded while it runs is lost  *)
(* from the buffer; and where its read meets a record, or its assignment a *)
(* reader, one of them may get the words of two slices: the monitor is     *)
(* "torn", and nothing is claimed of it any more.  Trend data, alerts and  *)
(* recommendations are left out.                                           *)
(***************************************************************************)
EXTENDS Integers, Sequences, SequencesExt

CONSTANTS
    Weights,       \* type of event -> what one of them costs, in tenths
    Caps,          \* type of event -> how many of them count
    Memory,        \* what ReadMemStats may find, in MB
    MaxMemory,     \* maxMemoryMB: 1024
    Kept,          \* the events the buffer keeps: 1000
    Listed,        \* the events a report lists: 100
    Callers,       \* the goroutines that may call Stop
    MaxEvents      \* bound on the events recorded

Types == DOMAIN Weights

ASSUME RuntimeAssumption ==
    /\ IsFiniteSet(Types) /\ Weights \in [Types -> Nat] /\ Caps \in [Types -> Nat]
    /\ Kept \in Nat \ {0} /\ Listed \in Nat \ {0} /\ MaxEvents \in Nat
    /\ {"memory_anomaly", "process_anomaly"} \subseteq Types

Unknown == -1      \* no memory_usage_mb yet
NoSecurityReport == [at |-> "none", metrics |-> [t \in Types |-> 0],
                     events |-> <<>>, score |-> 0]

VARIABLES
    watching,    \* rm.isRunning
    stopCh,      \* "open" or "closed"
    doneCh,      \* "open" or "closed"
    monitorEnds, \* caller -> where its call of Stop is
    check,       \* the loop's goroutine: [at, memory, recent]
    metrics,     \* type -> events counted
    eventBuffer, \* the events kept: [type, old]
    usage,       \* MetricsByCategory["memory_usage_mb"]
    security,    \* the report that is made, or was made last
    broken       \* "no", "panic" or "torn"

runtimeVars == <<watching, stopCh, doneCh, monitorEnds, check, metrics,
                 eventBuffer, usage, security, broken>>

NoCheck == [at |-> "none", memory |-> 0, recent |-> <<>>]

RuntimeInit ==
    /\ watching = FALSE /\ stopCh = "open" /\ doneCh = "open"
    /\ monitorEnds = [c \in Callers |-> "idle"] /\ check = NoCheck
    /\ metrics = [t \in Types |-> 0] /\ eventBuffer = <<>> /\ usage = Unknown
    /\ security = NoSecurityReport /\ broken = "no"

-----------------------------------------------------------------------------
(* Events.                                                                 *)

LastOf(s, n) == IF Len(s) <= n THEN s ELSE SubSeq(s, Len(s) - n + 1, Len(s))

Recorded == SumFunction(metrics)

RecordEvent(type) ==
    /\ Recorded < MaxEvents
    /\ metrics' = [metrics EXCEPT ![type] = @ + 1]
    /\ eventBuffer' = LastOf(Append(eventBuffer, [type |-> type, old |-> FALSE]), Kept)

CallerRecords(type) ==
    /\ RecordEvent(type)
    /\ UNCHANGED <<watching, stopCh, doneCh, monitorEnds, check, usage, security, broken>>

Bounded(n, low, high) == IF n < low THEN low ELSE IF n > high THEN high ELSE n

GetSecurityScore(counts) ==
    LET penalties == [t \in Types |-> Weights[t] * Bounded(counts[t], 0, Caps[t])]
    IN Bounded(1000 - SumFunction(penalties), 0, 1000)

-----------------------------------------------------------------------------
(* Start, Stop and the loop.                                               *)

StartWatching ==
    /\ ~watching /\ watching' = TRUE
    /\ check' = [NoCheck EXCEPT !.at = "select"]
    /\ UNCHANGED <<stopCh, doneCh, monitorEnds, metrics, eventBuffer, usage,
                   security, broken>>

BeginStopWatching(c) ==
    /\ monitorEnds[c] = "idle" /\ watching
    /\ monitorEnds' = [monitorEnds EXCEPT ![c] = "close"]
    /\ UNCHANGED <<watching, stopCh, doneCh, check, metrics, eventBuffer, usage,
                   security, broken>>

\* A channel is closed once: the second time panics.
Closed(channel) == broken' = IF channel = "closed" THEN "panic" ELSE broken

CloseStop(c) ==
    /\ monitorEnds[c] = "close" /\ stopCh' = "closed" /\ Closed(stopCh)
    /\ monitorEnds' = [monitorEnds EXCEPT ![c] = "wait"]
    /\ UNCHANGED <<watching, doneCh, check, metrics, eventBuffer, usage, security>>

StopWatching(c) ==
    /\ monitorEnds[c] = "wait" /\ doneCh = "closed" /\ watching' = FALSE
    /\ monitorEnds' = [monitorEnds EXCEPT ![c] = "idle"]
    /\ UNCHANGED <<stopCh, doneCh, check, metrics, eventBuffer, usage, security, broken>>

\* stopCh is closed, or the context is done, as it may be at any time.
EndWatching ==
    /\ check.at = "select" /\ check' = NoCheck
    /\ doneCh' = "closed" /\ Closed(doneCh)
    /\ UNCHANGED <<watching, stopCh, monitorEnds, metrics, eventBuffer, usage, security>>

Then(at) == check' = [check EXCEPT !.at = at]

\* What the loop records, if it has to; the other conjuncts are the same.
CheckStep(from, to, finds, type) ==
    /\ check.at = from /\ Then(to)
    /\ IF finds THEN RecordEvent(type) ELSE UNCHANGED <<metrics, eventBuffer>>
    /\ UNCHANGED <<watching, stopCh, doneCh, monitorEnds, usage, security, broken>>

BeginCheck(memory) ==
    /\ check.at = "select"
    /\ check' = [check EXCEPT !.at = "memory", !.memory = memory]
    /\ UNCHANGED <<watching, stopCh, doneCh, monitorEnds, metrics, eventBuffer,
                   usage, security, broken>>

CheckMemory == CheckStep("memory", "growth", check.memory > MaxMemory, "memory_anomaly")

CompareUsage ==
    /\ check.at = "growth"
    /\ Then(IF usage # Unknown /\ check.memory > 2 * usage THEN "grew" ELSE "process")
    /\ usage' = check.memory
    /\ UNCHANGED <<watching, stopCh, doneCh, monitorEnds, metrics, eventBuffer,
                   security, broken>>

RecordGrowth == CheckStep("grew", "process", TRUE, "memory_anomaly")

CheckProcess == \E many \in BOOLEAN :
                    CheckStep("process", "cleanup", many, "process_anomaly")

Recent(events) ==
    FoldLeft(LAMBDA kept, e : IF e.old THEN kept ELSE Append(kept, e), <<>>, events)

\* The read may meet a record.
ReadBuffer ==
    /\ check.at = "cleanup"
    /\ check' = [check EXCEPT !.at = "replace", !.recent = Recent(eventBuffer)]
    /\ broken' \in {broken, "torn"}
    /\ UNCHANGED <<watching, stopCh, doneCh, monitorEnds, metrics, eventBuffer,
                   usage, security>>

\* The assignment may meet a reader of what it replaces.
ReplaceBuffer ==
    /\ check.at = "replace"
    /\ eventBuffer' = check.recent
    /\ check' = [NoCheck EXCEPT !.at = "select"]
    /\ broken' \in {broken} \cup (IF eventBuffer = <<>> THEN {} ELSE {"torn"})
    /\ UNCHANGED <<watching, stopCh, doneCh, monitorEnds, metrics, usage, security>>

AnHourPasses ==
    LET Aged(events) == [i \in DOMAIN events |-> [events[i] EXCEPT !.old = TRUE]]
    IN /\ eventBuffer' = Aged(eventBuffer)
       /\ check' = [check EXCEPT !.recent = Aged(@)]
       /\ <<eventBuffer', check'>> # <<eventBuffer, check>>
       /\ UNCHANGED <<watching, stopCh, doneCh, monitorEnds, metrics, usage,
                      security, broken>>

-----------------------------------------------------------------------------
(* GenerateSecurityReport.                                                 *)

Keeps == UNCHANGED <<watching, stopCh, doneCh, monitorEnds, check, metrics,
                     eventBuffer, usage, broken>>

GetMetrics ==
    /\ security.at \in {"none", "done"}
    /\ security' = [NoSecurityReport EXCEPT !.at = "events", !.metrics = metrics]
    /\ Keeps

GetRecentEvents ==
    /\ security.at = "events"
    /\ security' = [security EXCEPT !.at = "score", !.events = LastOf(eventBuffer, Listed)]
    /\ Keeps

\* A mutant: the score is that of the metrics in the report.
ScoreOfTheCopy ==
    /\ security.at = "score"
    /\ security' = [security EXCEPT !.at = "done",
                                    !.score = GetSecurityScore(security.metrics)]
    /\ Keeps

CalculateSummary ==
    /\ security.at = "score"
    /\ security' = [security EXCEPT !.at = "done", !.score = GetSecurityScore(metrics)]
    /\ Keeps

RuntimeNext ==
    /\ broken = "no"
    /\ \/ \E type \in Types : CallerRecords(type)
       \/ StartWatching \/ EndWatching
       \/ \E c \in Callers : BeginStopWatching(c) \/ CloseStop(c) \/ StopWatching(c)
       \/ \E memory \in Memory : BeginCheck(memory)
       \/ CheckMemory \/ CompareUsage \/ RecordGrowth \/ CheckProcess
       \/ ReadBuffer \/ ReplaceBuffer \/ AnHourPasses
       \/ GetMetrics \/ GetRecentEvents \/ CalculateSummary

-----------------------------------------------------------------------------
(* Properties                                                              *)

\* A report never flatters: although it is read in three pieces, its score
\* is no better than the metrics in it, nor than the events it lists, and
\* every event it lists has been counted.
ReportNeverFlatters ==
    LET Count(t) == Cardinality({i \in DOMAIN security.events : security.events[i].type = t})
    IN security.at = "done" =>
          /\ security.score <= GetSecurityScore(security.metrics)
          /\ security.score <= GetSecurityScore([t \in Types |-> Count(t)])
          /\ \A t \in Types : Count(t) <= metrics[t]
=============================================================================
