--------------------------- MODULE DriftDetector ---------------------------
(***************************************************************************)
(* The drift detector of one object: a window of snapshots of each field,  *)
(* which the validation of every batch extends, which may be saved to and  *)
(* loaded from the bucket, and in which DetectDrift compares the newest    *)
(* snapshot with the average of those before it.  Rates, shares and        *)
(* thresholds are in percent; an average is kept as its sum, so that a     *)
(* division by zero comes out as floating point has it: something over     *)
(* nothing exceeds every threshold, nothing over nothing none.             *)
(***************************************************************************)
EXTENDS Integers, Sequences, SequencesExt, FiniteSetsExt

CONSTANTS
    Fields,          \* the fields of the object's schema
    FieldStats,      \* what a batch may show of a field:
                     \*   [population, types: [Kinds -> share], mean]
    Kinds,           \* the types a value may have
    NoMean,          \* mean of a field without numeric statistics
    Threshold,       \* in percent
    Window,          \* WindowSize: snapshots kept of a field
    MinSampleSize,
    Medium, High,    \* changes beyond which a drift is medium, or high
    MaxTaken,        \* bound on the batches
    MaxSecond        \* bound on the clock

Statistics == [population : Nat, types : [Kinds -> Nat], mean : Int \cup {NoMean}]

ASSUME DriftAssumption ==
    /\ IsFiniteSet(Kinds) /\ NoMean \notin Int
    /\ \A stats \in FieldStats : stats \in Statistics
    /\ Threshold \in 0..99 /\ Medium \in Nat /\ High \in 0..99
    /\ Window \in Nat /\ MinSampleSize \in Nat

VARIABLES
    second,          \* the clock; snapshots are merged by its seconds
    taken,           \* batches so far, those of earlier processes included
    snapshots,       \* field -> its history in memory
    stored           \* what SaveFieldSnapshots has left in the bucket

driftVars == <<second, taken, snapshots, stored>>

NoSnapshots == [f \in Fields |-> <<>>]

DriftInit ==
    /\ second = 1 /\ taken = 0
    /\ snapshots = NoSnapshots /\ stored = NoSnapshots

\* The end of s that fits into the window.
Newest(s) == IF Len(s) <= Window THEN s ELSE SubSeq(s, Len(s) - Window + 1, Len(s))

-----------------------------------------------------------------------------
(* What DetectDrift makes of a window.                                     *)

Populations(s) == [i \in DOMAIN s |-> s[i].population]

Distance(a, b) == IF a > b THEN a - b ELSE b - a

\* The drift of a change that is measured in percent of base.
DriftOf(type, change, base) ==
    LET Exceeds(percent) == 100 * change > percent * base
    IN IF ~Exceeds(Threshold) THEN {}
       ELSE {[type |-> type,
              severity |-> IF Exceeds(High) THEN "high"
                           ELSE IF Exceeds(Medium) THEN "medium" ELSE "low"]}

\* A mutant: an average of zero is taken for a field there is nothing to say of.
CheckPopulationDriftUnlessEmpty(current, historical) ==
    LET sum == SumFunction(Populations(historical))
    IN IF sum = 0 THEN {}
       ELSE DriftOf("population", Distance(current.population * Len(historical), sum), sum)

CheckPopulationDrift(current, historical) ==
    LET sum == SumFunction(Populations(historical))
    IN DriftOf("population", Distance(current.population * Len(historical), sum), sum)

\* A type that is new counts by its share, like the others.
CheckTypeDistributionDrift(current, historical) ==
    LET n == Len(historical)
        Moved(k) == Distance(current.types[k] * n,
                             SumFunction([i \in 1..n |-> historical[i].types[k]]))
    IN DriftOf("type", SumFunction([k \in Kinds |-> Moved(k)]), 100 * n)

\* The mean of the means; snapshots without one do not count.
CheckStatisticalDrift(current, historical) ==
    LET numeric == {i \in DOMAIN historical : historical[i].mean # NoMean}
        sum == SumFunction([i \in numeric |-> historical[i].mean])
        change == Distance(current.mean * Cardinality(numeric), sum)
    IN IF current.mean = NoMean \/ sum = 0 THEN {}
       ELSE DriftOf("statistical", change, Distance(sum, 0))

AnalyzeFieldDrift(s) ==
    IF Len(s) < 2 THEN {}
    ELSE CheckPopulationDrift(Last(s), Front(s))
         \cup CheckTypeDistributionDrift(Last(s), Front(s))
         \cup CheckStatisticalDrift(Last(s), Front(s))

\* The drifts of each field.  DetectDrift changes nothing.
DetectDrift ==
    [f \in Fields |-> IF Len(snapshots[f]) < MinSampleSize THEN {}
                      ELSE AnalyzeFieldDrift(snapshots[f])]

-----------------------------------------------------------------------------
(* Operations                                                              *)

\* A batch was validated; stats is what it showed of each field.
TakeSnapshots(stats) ==
    /\ taken < MaxTaken
    /\ taken' = taken + 1
    /\ snapshots' = [f \in Fields |->
           Newest(Append(snapshots[f],
                         [id |-> taken', second |-> second, population |-> stats[f].population,
                          types |-> stats[f].types, mean |-> stats[f].mean]))]
    /\ UNCHANGED <<second, stored>>

\* With nothing in memory nothing is written.
SaveFieldSnapshots ==
    /\ snapshots # NoSnapshots
    /\ stored' = snapshots
    /\ UNCHANGED <<second, taken, snapshots>>

\* The snapshots of a set by their seconds, of which no two have the same.
InOrder(set) ==
    LET Place(x) == Cardinality({y \in set : y.second <= x.second})
    IN [i \in 1..Cardinality(set) |-> CHOOSE x \in set : Place(x) = i]

\* One snapshot for each second: the last of those loaded, or of those there.
MergeSnapshots(existing, new) ==
    LET At(s, time) == s[Max({i \in DOMAIN s : s[i].second = time})]
        Times(s) == {s[i].second : i \in DOMAIN s}
        merged == {At(new, time) : time \in Times(new)}
                  \cup {At(existing, time) : time \in Times(existing) \ Times(new)}
    IN Newest(InOrder(merged))

\* Any error of the read means that there is no file.
LoadFieldSnapshots ==
    /\ stored # NoSnapshots
    /\ snapshots' = [f \in Fields |->
           IF snapshots[f] = <<>> THEN stored[f]
           ELSE MergeSnapshots(snapshots[f], stored[f])]
    /\ UNCHANGED <<second, taken, stored>>

\* The process ends and another begins.
Restart ==
    /\ snapshots # NoSnapshots
    /\ snapshots' = NoSnapshots
    /\ UNCHANGED <<second, taken, stored>>

SecondPasses ==
    /\ second < MaxSecond
    /\ second' = second + 1
    /\ UNCHANGED <<taken, snapshots, stored>>

DriftNext ==
    \/ \E stats \in [Fields -> FieldStats] : TakeSnapshots(stats)
    \/ SaveFieldSnapshots \/ LoadFieldSnapshots \/ Restart \/ SecondPasses

-----------------------------------------------------------------------------
(* Properties                                                              *)

Alike(x, y) == /\ x.population = y.population /\ x.types = y.types
               /\ x.mean = y.mean

\* Whatever was taken, saved, merged and forgotten: the snapshots of a field
\* are in the order they were taken, so that DetectDrift compares the newest
\* it has with older ones; a field that has not changed is not reported; and
\* one that was empty throughout and now has values, or had values and now
\* is empty, is reported as a high drift of its population.
DriftJudged ==
    \A f \in Fields :
        LET s == snapshots[f]
            drifts == DetectDrift[f]
            Empty(x) == x.population = 0
        IN /\ \A i, j \in DOMAIN s : i < j => s[i].id < s[j].id
           /\ (\A i, j \in DOMAIN s : Alike(s[i], s[j])) => drifts = {}
           /\ /\ Len(s) >= 2 /\ Len(s) >= MinSampleSize
              /\ \A i \in DOMAIN Front(s) : Empty(s[i]) # Empty(Last(s))
              => [type |-> "population", severity |-> "high"] \in drifts
=============================================================================
