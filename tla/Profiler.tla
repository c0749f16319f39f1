------------------------------ MODULE Profiler ------------------------------
(***************************************************************************)
(* The profiler (profiler/): the middleware times operations and tells the *)
(* analytics of each, first of its error and then of its duration; the     *)
(* resource monitor samples the memory; a report is made of both.          *)
(*                                                                         *)
(* The analytics' lock is a sync.RWMutex, whose waiting writers keep new   *)
(* readers out: GeneratePerformanceReport, which holds it for reading and  *)
(* takes it for reading once more, waits for a writer that waits for it.   *)
(* Stop of the profiler calls StopCPUProfile, which takes the lock Stop    *)
(* holds, and never returns.  Goroutine counts and pauses of the collector,*)
(* graded like the memory, and the profile files are left out.             *)
(***************************************************************************)
EXTENDS Integers, Sequences, FiniteSets, SequencesExt, Functions

CONSTANTS
    Workers,       \* the goroutines whose operations are timed
    Operations,    \* the names of operations
    Durations,     \* how long one may take, in seconds
    Heaps,         \* what a sample of the memory finds, tick by tick
    Latencies,     \* P95 is "medium", "high", "critical" above these, in seconds
    Rates,         \* errors in percent, likewise
    Steady,        \* memory that grows by more in a tick is "increasing"
    Growth,        \* "medium", "high" and "critical" growth
    Period,        \* the ticks a report looks back
    Samples,       \* durations kept of an operation, and samples of memory: 1000
    MaxCalls       \* bound on the operations timed

ASSUME ProfilerAssumption ==
    /\ Samples \in Nat \ {0}
    /\ IsFiniteSet(Workers)
    /\ Durations \subseteq Nat
    /\ Latencies \in Seq(Nat)
    /\ \A i, j \in DOMAIN Latencies : i < j => Latencies[i] < Latencies[j]

NoProfile == [at |-> "none", operations |-> <<>>, peak |-> 0, bottlenecks |-> {}]

VARIABLES
    profiler,    \* "new", "running" or "stuck": Stop holds p.mu for ever
    loops,       \* the loops of the monitor and of the analytics run
    samples,     \* the monitor's metrics: [time, heap]
    ticks,       \* the clock
    operations,  \* name -> [count, total, min, max, errors, old], if there is one
    durations,   \* name -> the durations kept, if there are any
    calls,       \* worker -> [at, name, duration, failed]
    cleaning,    \* the ticker of cleanupOldData has fired
    pending,     \* who waits for the analytics' lock to write
    profile      \* the report that is made, or was made last

profilerVars == <<profiler, loops, samples, ticks, operations, durations, calls,
                  cleaning, pending, profile>>

Untimed == [at |-> "idle", name |-> "", duration |-> 0, failed |-> FALSE]

ProfilerInit ==
    /\ profiler = "new" /\ loops = FALSE
    /\ samples = <<>> /\ ticks = 1 /\ operations = <<>> /\ durations = <<>>
    /\ calls = [w \in Workers |-> Untimed] /\ cleaning = FALSE /\ pending = {}
    /\ profile = NoProfile

-----------------------------------------------------------------------------
(* Start and Stop.                                                         *)

Tracked == <<operations, durations, calls, cleaning, pending, profile>>

StartProfiler ==
    /\ profiler = "new" /\ profiler' = "running"
    /\ loops' = TRUE
    /\ UNCHANGED <<samples, ticks, Tracked>>

\* Stop gets no further than StopCPUProfile, which waits for its caller: the
\* monitor and the analytics are not stopped.
StopProfiler ==
    /\ profiler = "running" /\ profiler' = "stuck"
    /\ UNCHANGED <<loops, samples, ticks, Tracked>>

\* The context of Start may be done at any time.
EndLoops ==
    /\ loops /\ ~cleaning /\ loops' = FALSE
    /\ UNCHANGED <<profiler, samples, ticks, Tracked>>

-----------------------------------------------------------------------------
(* The resource monitor.                                                   *)

Lately(s) == IF Len(s) <= Samples THEN s ELSE Tail(s)

Tick ==
    /\ ticks < Len(Heaps) /\ ticks' = ticks + 1
    /\ UNCHANGED <<profiler, loops, samples, Tracked>>

AddMetrics ==
    /\ loops
    /\ \A i \in DOMAIN samples : samples[i].time < ticks
    /\ samples' = Lately(Append(samples, [time |-> ticks, heap |-> Heaps[ticks]]))
    /\ UNCHANGED <<profiler, loops, ticks, Tracked>>

Smallest(a, b) == IF a < b THEN a ELSE b
Largest(a, b) == IF a > b THEN a ELSE b
Greatest(numbers) == FoldLeft(LAMBDA g, n : Largest(n, g), 0, numbers)
HeapsOf(s) == [i \in DOMAIN s |-> s[i].heap]

\* How many of the limits n passes, where they are for a unit: 0 means no
\* bottleneck, 1 to 3 are "medium", "high" and "critical".
Severity(n, unit, limits) == Cardinality({i \in DOMAIN limits : n > limits[i] * unit})

\* analyzeMemoryTrend: what the heap grew by, over which time.
AnalyzeMemoryTrend(s) ==
    IF s = <<>> THEN [direction |-> "unknown", growth |-> 0, span |-> 0, peak |-> 0]
    ELSE LET growth == Last(s).heap - Head(s).heap
             span == Last(s).time - Head(s).time
         IN [direction |-> IF growth > Steady * span /\ span > 0 THEN "increasing"
                           ELSE IF growth < -Steady * span /\ span > 0 THEN "decreasing"
                           ELSE "stable",
             growth |-> growth, span |-> span, peak |-> Greatest(HeapsOf(s))]

Since(s, time) == SelectSeq(s, LAMBDA m : m.time >= time)
GetMemoryTrend == AnalyzeMemoryTrend(Since(samples, ticks - Period))

\* Without a sample of the period the summary is of all there are.
PeakMemoryUsage ==
    LET recent == SelectSeq(samples, LAMBDA m : m.time > ticks - Period)
    IN Greatest(HeapsOf(IF recent = <<>> THEN samples ELSE recent))

-----------------------------------------------------------------------------
(* The analytics.                                                          *)

Read == {"held", "summary", "trend"}     \* a report holds the lock for reading

Set(f, x, value) == [y \in DOMAIN f \cup {x} |-> IF y = x THEN value ELSE f[y]]
Without(f, names) == [x \in DOMAIN f \ names |-> f[x]]

\* A timed operation has ended: an error is recorded first.
TrackOperationWithContext(w, name, duration, failed) ==
    /\ calls[w].at = "idle"
    /\ FoldFunction(LAMBDA op, n : op.count + n, 0, operations)
         + Cardinality({v \in Workers : calls[v].at # "idle"}) < MaxCalls
    /\ calls' = [calls EXCEPT ![w] = [at |-> IF failed THEN "error" ELSE "operation",
                                      name |-> name, duration |-> duration,
                                      failed |-> failed]]
    /\ UNCHANGED <<profiler, loops, samples, ticks, cleaning,
                   operations, durations, pending, profile>>

\* Lock of who wants to write while a report reads.
Waits(who) ==
    /\ profile.at \in Read /\ who \notin pending
    /\ pending' = pending \cup {who}
    /\ UNCHANGED <<profiler, loops, samples, ticks, cleaning,
                   operations, durations, calls, profile>>

CallWaits(w) == calls[w].at # "idle" /\ Waits(w)
CleanupWaits == cleaning /\ Waits("cleanup")

Locks(who) == profile.at \notin Read /\ pending' = pending \ {who}

TrackError(w) ==
    LET name == calls[w].name
        op == IF name \in DOMAIN operations THEN operations[name]
              ELSE [count |-> 0, total |-> 0, min |-> 0, max |-> 0, errors |-> 0,
                    old |-> FALSE]
    IN /\ calls[w].at = "error" /\ Locks(w)
       /\ operations' = Set(operations, name, [op EXCEPT !.errors = @ + 1, !.old = FALSE])
       /\ calls' = [calls EXCEPT ![w].at = "operation"]
       /\ UNCHANGED <<profiler, loops, samples, ticks, durations, cleaning,
                      profile>>

TrackOperation(w) ==
    LET name == calls[w].name
        d == calls[w].duration
        op == IF name \in DOMAIN operations THEN operations[name]
              ELSE [count |-> 0, total |-> 0, min |-> d, max |-> d, errors |-> 0,
                    old |-> FALSE]
        before == IF name \in DOMAIN durations THEN durations[name] ELSE <<>>
    IN /\ calls[w].at = "operation" /\ Locks(w)
       /\ operations' = Set(operations, name,
              [op EXCEPT !.count = @ + 1, !.total = @ + d, !.min = Smallest(d, @),
                         !.max = Largest(d, @), !.old = FALSE])
       /\ durations' = Set(durations, name, Lately(Append(before, d)))
       /\ calls' = [calls EXCEPT ![w] = Untimed]
       /\ UNCHANGED <<profiler, loops, samples, ticks, cleaning, profile>>

TwentyFourHoursPass ==
    /\ \E name \in DOMAIN operations : ~operations[name].old
    /\ operations' = [name \in DOMAIN operations |-> [operations[name] EXCEPT !.old = TRUE]]
    /\ UNCHANGED <<profiler, loops, samples, ticks, durations, calls, cleaning,
                   pending, profile>>

CleanupTick ==
    /\ loops /\ ~cleaning /\ cleaning' = TRUE
    /\ UNCHANGED <<profiler, loops, samples, ticks, operations, durations, calls,
                   pending, profile>>

Outdated == {name \in DOMAIN operations : operations[name].old}

\* A mutant: the durations are kept.
PerformCleanupKeepingDurations ==
    /\ cleaning /\ cleaning' = FALSE /\ Locks("cleanup")
    /\ operations' = Without(operations, Outdated)
    /\ UNCHANGED <<profiler, loops, samples, ticks, durations, calls, profile>>

PerformCleanup ==
    /\ cleaning /\ cleaning' = FALSE /\ Locks("cleanup")
    /\ operations' = Without(operations, Outdated)
    /\ durations' = Without(durations, Outdated)
    /\ UNCHANGED <<profiler, loops, samples, ticks, calls, profile>>

-----------------------------------------------------------------------------
(* Reports.                                                                *)

\* What stands at the k-th place of s when s is sorted.
Ranked(s, k) == Min({d \in Range(s) : Cardinality({i \in DOMAIN s : s[i] <= d}) >= k})

Percentile(s, p) == Ranked(s, ((Len(s) * p) \div 100) + 1)

GetOperationMetrics(name) ==
    LET op == operations[name]
        known == name \in DOMAIN durations
        P(p) == IF known THEN Percentile(durations[name], p) ELSE 0
    IN [count |-> op.count, errors |-> op.errors, min |-> op.min, max |-> op.max,
        avg |-> IF op.count > 0 THEN op.total \div op.count ELSE 0,
        p50 |-> P(50), p95 |-> P(95), p99 |-> P(99)]

\* With the longest the operation took, for the property below.
Bottleneck(type, operation, severity, longest) ==
    IF severity = 0 THEN {}
    ELSE {[type |-> type, operation |-> operation, severity |-> severity,
           longest |-> longest]}

IdentifyBottlenecks(ops, trend) ==
    (UNION {LET m == ops[name]
            IN Bottleneck("latency", name, Severity(m.p95, 1, Latencies), m.max)
                 \cup IF m.count = 0 THEN {}
                      ELSE Bottleneck("errors", name,
                               Severity(100 * m.errors, m.count, Rates), m.max)
            : name \in DOMAIN ops})
      \cup IF trend.direction # "increasing" THEN {}
           ELSE Bottleneck("memory", "system", Severity(trend.growth, trend.span, Growth), 0)

Reporting(next) ==
    /\ profile' = next
    /\ UNCHANGED <<profiler, loops, samples, ticks, operations, durations, calls,
                   cleaning, pending>>

\* GeneratePerformanceReport takes the lock for reading...
BeginReport ==
    /\ profile.at \in {"none", "done"} /\ pending = {}
    /\ Reporting([NoProfile EXCEPT !.at = "held"])

\* ...and once more, which is too late when a writer has come to wait...
GetAllOperationMetrics ==
    /\ profile.at = "held" /\ pending = {}
    /\ Reporting([profile EXCEPT !.at = "summary",
           !.operations = [name \in DOMAIN operations |-> GetOperationMetrics(name)]])

\* ...reads the monitor's history twice...
ReadHistory ==
    /\ profile.at = "summary"
    /\ Reporting([profile EXCEPT !.at = "trend", !.peak = PeakMemoryUsage])

\* A mutant: the lock is not given back.
FinishReportHoldingLock ==
    /\ profile.at = "trend"
    /\ Reporting([profile EXCEPT !.bottlenecks =
           IdentifyBottlenecks(profile.operations, GetMemoryTrend)])

\* ...and gives up the lock.  Of a report that is done the bottlenecks are
\* kept.
FinishReport ==
    /\ profile.at = "trend"
    /\ Reporting([NoProfile EXCEPT !.at = "done",
           !.bottlenecks = IdentifyBottlenecks(profile.operations, GetMemoryTrend)])

ProfilerNext ==
    \/ StartProfiler \/ StopProfiler \/ EndLoops
    \/ Tick \/ AddMetrics
    \/ \E w \in Workers : \/ CallWaits(w) \/ TrackError(w) \/ TrackOperation(w)
                          \/ \E name \in Operations, d \in Durations, failed \in BOOLEAN :
                                 TrackOperationWithContext(w, name, d, failed)
    \/ TwentyFourHoursPass \/ CleanupTick \/ CleanupWaits \/ PerformCleanup
    \/ BeginReport \/ GetAllOperationMetrics \/ ReadHistory \/ FinishReport

-----------------------------------------------------------------------------
(* Properties                                                              *)

\* What is told of an operation agrees with itself, although its count, its
\* durations and its errors are kept apart, an error is recorded before the
\* operation it is of, and a cleanup may come between the two: the times are
\* in order, and there are no more errors than calls and calls whose error
\* was recorded first.  A report blames no operation for a latency it never
\* had.
MeasuresAgree ==
    /\ \A name \in DOMAIN operations :
          LET m == GetOperationMetrics(name)
              between == {w \in Workers : calls[w].at = "operation" /\ calls[w].failed
                                          /\ calls[w].name = name}
          IN /\ m.min <= m.p50 /\ m.p50 <= m.p95 /\ m.p95 <= m.p99 /\ m.p99 <= m.max
             /\ m.min <= m.avg /\ m.avg <= m.max
             /\ m.errors <= m.count + Cardinality(between)
    /\ \A b \in profile.bottlenecks :
          b.type = "latency" => b.longest > Latencies[b.severity]
=============================================================================
