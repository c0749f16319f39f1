---------------------------- MODULE Validation -----------------------------
(***************************************************************************)
(* Data validation inside one run of the sync engine: the workers of       *)
(* syncObject validate every batch of records they extract before they     *)
(* write it, the attempt that commits hands its results over, and the run  *)
(* makes a report of them all.                                             *)
(*                                                                         *)
(* A record maps fields to values.  Of a value the model keeps its Go type *)
(* (kind), a number, whether that is whole, and which form a text has: a   *)
(* date, an email, and so on, or a plain word.  Each attempt extracts      *)
(* anew, and may find other records.                                       *)
(***************************************************************************)
EXTENDS Integers, Sequences, FiniteSets, SequencesExt

CONSTANTS
    Objects,         \* the objects of the run's plans
    SchemaFields,    \* the fields of a described object: name -> [type, nullable,
                     \* format], the format its name suggests or "none"
    CustomRules,     \* of the configuration: [field, type, min, max, values]
    Batches,         \* the batches a connector may send: name -> records
    MaxBatches,      \* bound on the batches of an attempt
    MaxAttempts,     \* 1 + MaxRetries of the recovery manager
    SamplingPercent, \* SamplingRate; the engine sets it to 100
    SmallBatch,      \* batches this small are validated in full: 100
    ErrorThreshold,  \* in percent
    WindowSize       \* snapshots kept by the drift detector: 100

ASSUME ValidationAssumption ==
    /\ SamplingPercent \in Nat /\ SamplingPercent >= 100
    /\ ErrorThreshold \in Nat
    /\ \A b \in DOMAIN Batches : Batches[b] \in Seq(Range(Batches[b]))

NoReport == [objects |-> {}, alerts |-> {}, status |-> "none"]

VARIABLES
    strict,       \* validationConfig.StrictMode
    schema,       \* object -> "fields", "empty" (no fields) or "nil"
    worker,       \* object -> [at, attempt, results, written]
    committed,    \* object -> the batches its commit added to the log
    results,      \* objectValidationResults
    history,      \* object -> snapshots the drift detector keeps of it
    run,          \* "syncing", "reporting", "failed", "crashed" or "done"
    report        \* the saved report, or NoReport

validationVars == <<strict, schema, worker, committed, results, history, run,
                    report>>

FieldsOf(o) == IF schema[o] = "fields" THEN DOMAIN SchemaFields ELSE {}

Idle == [at |-> "idle", attempt |-> 0, results |-> <<>>, written |-> <<>>]

ValidationInit ==
    /\ strict \in BOOLEAN
    /\ schema \in [Objects -> {"fields", "empty", "nil"}]
    /\ worker = [o \in Objects |-> Idle]
    /\ committed = [o \in Objects |-> <<>>]
    /\ results = {}
    /\ history = [o \in Objects |-> 0]
    /\ run = "syncing"
    /\ report = NoReport

-----------------------------------------------------------------------------
(* The validator, the collector and the sums they take.                    *)

Smaller(a, b) == IF a < b THEN a ELSE b

\* The record at position i, from 0, of a batch of n is validated.
Sampled(i, n) ==
    SamplingPercent >= 100 \/ n <= SmallBatch \/ 100 * i <= SamplingPercent * n

Null(value) == value.kind = "null"

\* A null breaks the constraint of its field and no other rule looks at it:
\* NullConstraintRule is only asked about values that are there.
BreaksNullConstraint(field, value) == Null(value) /\ ~SchemaFields[field].nullable

TypeCompatible(type, value) ==
    CASE type \in {"string", "binary"} -> value.kind = "string"
      [] type \in {"integer", "long"} ->
            value.kind = "integer" \/ (value.kind = "float" /\ value.whole)
      [] type = "double" -> value.kind \in {"float", "integer"}
      [] type = "boolean" -> value.kind = "boolean"
      [] type \in {"date", "datetime"} ->
            value.kind = "datetime" \/ (value.kind = "string" /\ value.text = "date")
      [] OTHER -> FALSE

\* A text that does not look as the name of its field suggests.  A field
\* named for an id is only asked about texts of the length of a UUID.
FormatInvalid(field, value) ==
    LET format == SchemaFields[field].format
    IN /\ value.kind = "string" /\ format # "none" /\ value.text # format
       /\ format = "uuid" => value.text = "36 characters"

\* Rules of type "format" and "regex", and Required, are accepted and never
\* looked at.
BreaksCustomRule(rule, value) ==
    CASE rule.type = "range" -> \/ value.kind \notin {"integer", "float"}
                               \/ value.number < rule.min
                               \/ value.number > rule.max
      [] rule.type = "enum" -> value.kind # "string" \/ value.text \notin rule.values
      [] OTHER -> FALSE

ValidateRecord(record, fields) ==
    LET Wrong(f) ==
            IF Null(record[f]) THEN BreaksNullConstraint(f, record[f])
            ELSE \/ ~TypeCompatible(SchemaFields[f].type, record[f])
                 \/ \E rule \in CustomRules : /\ rule.field = f
                                              /\ BreaksCustomRule(rule, record[f])
    IN [valid |-> \A f \in fields : ~Wrong(f),
        warned |-> \E f \in fields : FormatInvalid(f, record[f]),
        populated |-> {f \in fields : ~Null(record[f])}]

\* Of the records that are looked at: how many are valid and so on.
ValidateBatch(batch, fields) ==
    LET n == Len(batch)
        seen == {i \in 1..n : Sampled(i - 1, n)}
        Of(i) == ValidateRecord(batch[i], fields)
        Number(Is(_)) == Cardinality({i \in seen : Is(Of(i))})
    IN [total |-> n,
        valid |-> Number(LAMBDA r : r.valid),
        error |-> Number(LAMBDA r : ~r.valid),
        warning |-> Number(LAMBDA r : r.warned),
        populated |-> [f \in fields |-> Number(LAMBDA r : f \in r.populated)]]

HasErrors(result) == result.error > 0

\* How many values of each field are there, over all batches.
AggregateFieldMetrics(batches, fields) ==
    [f \in fields |-> SumFunction([i \in 1..Len(batches) |-> batches[i].populated[f]])]

AddObjectValidation(o, batches) ==
    LET Sum(count(_)) == SumFunction([i \in 1..Len(batches) |-> count(batches[i])])
        errors == Sum(LAMBDA b : b.error)
        warnings == Sum(LAMBDA b : b.warning)
        fields == UNION {DOMAIN batches[i].populated : i \in 1..Len(batches)}
    IN [name |-> o,
        total |-> Sum(LAMBDA b : b.total),
        processed |-> Sum(LAMBDA b : b.valid + b.error),
        error |-> errors,
        warning |-> warnings,
        populated |-> AggregateFieldMetrics(batches, fields),
        status |-> IF errors > 0 THEN "error"
                   ELSE IF warnings > 0 THEN "warning" ELSE "success"]

\* By how many times the error rate exceeds the threshold.
DetermineSeverity(objectReport) ==
    LET AtLeast(tenths) == 1000 * objectReport.error
                             >= tenths * ErrorThreshold * objectReport.processed
    IN CASE AtLeast(30) -> "critical"
         [] AtLeast(20) /\ ~AtLeast(30) -> "high"
         [] AtLeast(15) /\ ~AtLeast(20) -> "medium"
         [] OTHER -> "low"

\* The alerts that objects raise by their error rate.
GenerateAlerts(objectReports) ==
    {[object |-> r.name, severity |-> DetermineSeverity(r)] :
        r \in {q \in objectReports : 100 * q.error > ErrorThreshold * q.processed}}

FinalizeReport(objectReports) ==
    LET statuses == {r.status : r \in objectReports}
    IN IF "error" \in statuses THEN "error"
       ELSE IF "warning" \in statuses THEN "warning" ELSE "success"

-----------------------------------------------------------------------------
(* The workers, one for each plan.                                         *)

\* A mutant: a retry goes on with the results of the attempt before it.
StartAttemptKeepingResults(o) ==
    /\ run = "syncing" /\ worker[o].at = "idle"
    /\ worker[o].attempt < MaxAttempts
    /\ worker' = [worker EXCEPT ![o].at = "range", ![o].attempt = @ + 1,
                                ![o].written = <<>>]
    /\ UNCHANGED <<strict, schema, committed, results, history, run, report>>

\* Each attempt has batch results and Delta actions of its own.
StartAttempt(o) ==
    /\ run = "syncing" /\ worker[o].at = "idle"
    /\ worker[o].attempt < MaxAttempts
    /\ worker' = [worker EXCEPT ![o].at = "range", ![o].attempt = @ + 1,
                                ![o].results = <<>>, ![o].written = <<>>]
    /\ UNCHANGED <<strict, schema, committed, results, history, run, report>>

\* ValidateBatch reads the fields of the schema without asking for nil.  Its
\* call of UpdateStats then writes to a map that all workers share: when
\* another worker is there, the process may die of it.
Validate(o, batch) ==
    /\ run = "syncing" /\ worker[o].at = "range"
    /\ Len(worker[o].written) < MaxBatches
    /\ IF schema[o] = "nil"
         THEN run' = "crashed" /\ UNCHANGED worker
         ELSE /\ run' \in {"syncing"} \cup
                      (IF \E p \in Objects : worker[p].at = "stats"
                       THEN {"crashed"} ELSE {})
              /\ worker' = [worker EXCEPT ![o].at = "stats",
                                ![o].results =
                                    Append(@, ValidateBatch(Batches[batch], FieldsOf(o))),
                                ![o].written = Append(@, batch)]
    /\ UNCHANGED <<strict, schema, committed, results, history, report>>

UpdateStats(o) == [history EXCEPT ![o] = Smaller(@ + 1, WindowSize)]

\* An attempt that fails is retried, or its object is given up.
Fail(o) == worker' = [worker EXCEPT ![o].at =
                          IF @ # "idle" /\ worker[o].attempt < MaxAttempts
                          THEN "idle" ELSE "failed"]

\* The batch is validated; it is written, unless an error in strict mode or
\* the upload ends the attempt.
WriteBatch(o) ==
    /\ run = "syncing" /\ worker[o].at = "stats"
    /\ history' = UpdateStats(o)
    /\ \/ /\ ~(strict /\ HasErrors(Last(worker[o].results)))
          /\ worker' = [worker EXCEPT ![o].at = "range"]
       \/ Fail(o)
    /\ UNCHANGED <<strict, schema, committed, results, run, report>>

\* The connector reports an error, or the commit fails.
FailAttempt(o) ==
    /\ run = "syncing" /\ worker[o].at = "range"
    /\ Fail(o)
    /\ UNCHANGED <<strict, schema, committed, results, history, run, report>>

\* Nothing is committed when there is nothing to commit; the results are
\* stored all the same.
Commit(o) ==
    /\ run = "syncing" /\ worker[o].at = "range"
    /\ committed' = [committed EXCEPT ![o] = worker[o].written]
    /\ results' = results \cup {o}
    /\ worker' = [worker EXCEPT ![o].at = "done"]
    /\ UNCHANGED <<strict, schema, history, run, report>>

\* The circuit breaker, the state store or an error that is not recoverable
\* ends the retries before they are used up.
GiveUp(o) ==
    /\ run = "syncing" /\ worker[o].at = "idle"
    /\ worker' = [worker EXCEPT ![o].at = "failed"]
    /\ UNCHANGED <<strict, schema, committed, results, history, run, report>>

-----------------------------------------------------------------------------
(* The end of the run.                                                     *)

\* All workers are back.  A critical violation of consistency ends the run
\* before its report is made.
EndSync ==
    /\ run = "syncing"
    /\ \A o \in Objects : worker[o].at \in {"done", "failed"}
    /\ run' \in {"reporting", "failed"}
    /\ UNCHANGED <<strict, schema, worker, committed, results, history, report>>

\* A null rate over no fields is not a number, and a report with one in it
\* cannot be encoded.
Encodable == \A o \in results : schema[o] = "empty" => worker[o].results = <<>>

\* The upload may fail, which is only logged.
SaveReport ==
    /\ run = "reporting"
    /\ run' = "done"
    /\ \/ /\ Encodable
          /\ LET reports == {AddObjectValidation(o, worker[o].results) : o \in results}
             IN report' = [objects |-> reports, alerts |-> GenerateAlerts(reports),
                           status |-> FinalizeReport(reports)]
       \/ report' = report
    /\ UNCHANGED <<strict, schema, worker, committed, results, history>>

ValidationNext ==
    \/ \E o \in Objects :
          \/ StartAttempt(o) \/ WriteBatch(o) \/ FailAttempt(o) \/ Commit(o)
          \/ GiveUp(o) \/ \E batch \in DOMAIN Batches : Validate(o, batch)
    \/ EndSync \/ SaveReport

-----------------------------------------------------------------------------
(* Properties                                                              *)

\* A saved report is about the records that this run committed, however many
\* attempts were needed: it has the objects that were synced, each with the
\* number of its records, of the invalid, of those with a warning, and of
\* the values in each field; an alert only of an object with an invalid one;
\* and in strict mode no object in it has errors, for no invalid record is
\* committed then.
ReportMatchesCommits ==
    report # NoReport =>
        /\ {r.name : r \in report.objects} = {o \in Objects : worker[o].at = "done"}
        /\ \A r \in report.objects :
              LET batch(i) == Batches[committed[r.name][i]]
                  records == UNION {{<<i, j>> : j \in DOMAIN batch(i)}
                                       : i \in DOMAIN committed[r.name]}
                  Of(x) == ValidateRecord(batch(x[1])[x[2]], FieldsOf(r.name))
                  Number(Is(_)) == Cardinality({x \in records : Is(Of(x))})
              IN /\ r.total = Cardinality(records)
                 /\ r.error = Number(LAMBDA v : ~v.valid)
                 /\ r.warning = Number(LAMBDA v : v.warned)
                 /\ \A f \in DOMAIN r.populated :
                       r.populated[f] = Number(LAMBDA v : f \in v.populated)
                 /\ strict => r.status # "error"
        /\ \A alert \in report.alerts :
              \E r \in report.objects : r.name = alert.object /\ r.error > 0
        /\ (report.status = "error") = (\E r \in report.objects : r.error > 0)
=============================================================================
