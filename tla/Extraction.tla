----------------------------- MODULE Extraction -----------------------------
(***************************************************************************)
(* One query of one object: the producer goroutine of the Salesforce       *)
(* client (bulk.go, rest.go), the channels it fills, the forwarding        *)
(* goroutine of a plugin connector that may stand in between               *)
(* (plugin/connector.go), and the engine's worker, which writes every      *)
(* batch and commits only what it has been told is the whole result        *)
(* (syncObject in sync/engine.go).                                         *)
(*                                                                         *)
(* A batch is its number in the server's result.  A Go channel is what is  *)
(* in its buffer and whether it is closed; a send on an unbuffered one is  *)
(* one step with its receive.                                              *)
(***************************************************************************)
EXTENDS Integers, Sequences, SequencesExt

CONSTANTS
    MaxBatches,    \* bound on the batches of a result
    BulkBuffer,    \* capacity of the records channel of BulkQuery
    MaxAttempts    \* MaxAttempts of the client's retry policy

ASSUME ExtractionAssumption ==
    /\ MaxBatches \in Nat
    /\ BulkBuffer \in Nat \ {0}
    /\ MaxAttempts \in Nat \ {0}

VARIABLES
    path,        \* "direct" or "plugin": what the engine ranges over
    api,         \* "bulk" or "rest"
    total,       \* batches in the result of the query
    cancelled,   \* the context is done
    producer,    \* where the producer goroutine is
    attempt,     \* of the POST that creates the bulk job
    body,        \* the reader with its body has not been read yet
    jobs,        \* bulk jobs the server has created for this query
    next,        \* the batch the producer reads or sends
    records, recordsOpen,    \* the producer's channels
    error, errorsOpen,       \* error: one is in the buffer of errs
    wrapper,     \* where the plugin connector's goroutine is
    held,        \* the batch it has taken and not passed on
    worker,      \* where syncObject is
    written      \* the batches it has written, in order

client == <<attempt, body, jobs>>
channels == <<records, recordsOpen, error, errorsOpen>>
vars == <<path, api, total, cancelled, producer, client, next, channels,
          wrapper, held, worker, written>>

Init ==
    /\ path \in {"direct", "plugin"} /\ api \in {"bulk", "rest"}
    /\ total \in 0..MaxBatches
    /\ cancelled = FALSE
    /\ producer = "describe"
    /\ attempt = 1 /\ body = TRUE /\ jobs = 0
    /\ next = 1
    /\ records = <<>> /\ recordsOpen = TRUE
    /\ error = FALSE /\ errorsOpen = TRUE
    /\ held = 0
    /\ wrapper = (IF path = "plugin" THEN "ensure" ELSE "none")
    /\ worker = "range" /\ written = <<>>

Whole(n) == [i \in 1..n |-> i]

Cancel ==
    /\ ~cancelled
    /\ cancelled' = TRUE
    /\ UNCHANGED <<path, api, total, producer, client, next, channels, wrapper,
                   held, worker, written>>

-----------------------------------------------------------------------------
(* The producer                                                            *)

Produce == UNCHANGED <<path, api, total, cancelled, wrapper, held, worker, written>>

\* Any step that talks to the server may fail: the error is sent, then both
\* channels are closed.
Goes(from, to) ==
    /\ producer = from
    /\ producer' \in {to, "failing"}
    /\ UNCHANGED <<client, next, channels>>
    /\ Produce

\* The connector describes the object again before it builds the query.
Describe ==
    /\ wrapper \notin {"ensure", "refused"}
    /\ Goes("describe", IF api = "bulk" THEN "post" ELSE "read")

\* A mutant: every attempt sends the whole body.
PostAttemptRewound ==
    /\ producer = "post"
    /\ jobs' \in {jobs, jobs + 1}
    /\ \/ jobs' = jobs + 1 /\ producer' = "poll" /\ UNCHANGED attempt
       \/ producer' = "failing" /\ UNCHANGED attempt
       \/ attempt < MaxAttempts /\ attempt' = attempt + 1 /\ UNCHANGED producer
    /\ UNCHANGED <<body, next, channels>>
    /\ Produce

(* doWithRetry: all attempts share one reader, so that the body goes out   *)
(* with the first attempt that reaches the server; a later one is empty    *)
(* and can create no job.  An answer may be lost on the way back.          *)
PostAttempt ==
    /\ producer = "post"
    /\ body' \in {body, FALSE}
    /\ jobs' \in IF body /\ ~body' THEN {jobs, jobs + 1} ELSE {jobs}
    /\ \/ jobs' = jobs + 1 /\ producer' = "poll" /\ UNCHANGED attempt
       \/ producer' = "failing" /\ UNCHANGED attempt
       \/ attempt < MaxAttempts /\ attempt' = attempt + 1 /\ UNCHANGED producer
    /\ UNCHANGED <<next, channels>>
    /\ Produce

\* The loop goes on until the job is complete, failed or aborted, or until
\* bulkPollTimeout: a round that finds nothing changes nothing.
WaitForBulkJob == Goes("poll", "results")

\* GetStream and the header.
OpenResults == Goes("results", "read")

\* The rows of the next batch; at the end of them the channels are closed.
ReadBatch ==
    Goes("read", IF next <= total THEN "send" ELSE "closeErrors")

Capacity == IF api = "bulk" THEN BulkBuffer ELSE 1

Sent(to) ==
    /\ Len(records) < Capacity
    /\ records' = Append(records, next)
    /\ next' = next + 1
    /\ producer' = to
    /\ UNCHANGED <<recordsOpen, error, errorsOpen>>

GivesUp(to) == cancelled /\ producer' = to /\ UNCHANGED <<next, channels>>

\* A mutant: a cancelled query ends as if it had no more rows.
SendQuiet ==
    /\ producer = "send"
    /\ Sent("read") \/ GivesUp("closeErrors")
    /\ UNCHANGED client
    /\ Produce

SendBatch ==
    /\ producer = "send"
    /\ Sent("read") \/ GivesUp("failing")
    /\ UNCHANGED client
    /\ Produce

\* A mutant: errs without a buffer: the send waits for a worker that reads records.
ReportErrorUnbuffered ==
    /\ producer = "failing" /\ worker = "errors"
    /\ error' = TRUE
    /\ producer' = "closeErrors"
    /\ UNCHANGED <<client, next, records, recordsOpen, errorsOpen>>
    /\ Produce

ReportError ==
    /\ producer = "failing"
    /\ error' = TRUE
    /\ producer' = "closeErrors"
    /\ UNCHANGED <<client, next, records, recordsOpen, errorsOpen>>
    /\ Produce

\* The deferred closes run last first: errs is closed before records.
CloseErrors ==
    /\ producer = "closeErrors"
    /\ errorsOpen' = FALSE
    /\ producer' = "closeRecords"
    /\ UNCHANGED <<client, next, records, recordsOpen, error>>
    /\ Produce

CloseRecords ==
    /\ producer = "closeRecords"
    /\ recordsOpen' = FALSE
    /\ producer' = "ended"
    /\ UNCHANGED <<client, next, records, error, errorsOpen>>
    /\ Produce

ProducerStep ==
    \/ Describe \/ PostAttempt \/ WaitForBulkJob \/ OpenResults \/ ReadBatch
    \/ SendBatch \/ ReportError \/ CloseErrors \/ CloseRecords

-----------------------------------------------------------------------------
(* The forwarding goroutine of PluginConnector                             *)

Forward == UNCHANGED <<path, api, total, cancelled, producer, client, next>>

\* Without a connector the worker is handed a nil records channel.
EnsureConnector ==
    /\ wrapper = "ensure"
    /\ wrapper' \in {"select", "refused"}
    /\ UNCHANGED <<channels, held, worker, written>>
    /\ Forward

\* select takes any case that is ready: a batch, the end of either channel,
\* an error, or the end of the context.
Select ==
    /\ wrapper = "select"
    /\ \/ /\ records # <<>>
          /\ held' = Head(records) /\ records' = Tail(records)
          /\ wrapper' = "batch"
          /\ UNCHANGED <<recordsOpen, error, errorsOpen>>
       \/ /\ error
          /\ error' = FALSE
          /\ wrapper' = "error"
          /\ UNCHANGED <<records, recordsOpen, errorsOpen, held>>
       \/ /\ \/ records = <<>> /\ ~recordsOpen
             \/ ~error /\ ~errorsOpen
             \/ cancelled
          /\ wrapper' = "ended"
          /\ UNCHANGED <<channels, held>>
    /\ Forward
    /\ UNCHANGED <<worker, written>>

\* Neither of the wrapped channels has a buffer, and the sends are outside
\* the select: they wait for the worker whatever the context does.  A batch
\* finds it ranging; an error never finds it reading errors, which it does
\* only after this goroutine has ended: no step leaves "error".
ForwardBatch ==
    /\ wrapper = "batch" /\ worker = "range"
    /\ wrapper' = "select"
    /\ worker' = "write" /\ written' = Append(written, held)
    /\ UNCHANGED <<channels, held>>
    /\ Forward

-----------------------------------------------------------------------------
(* syncObject                                                              *)

Work == UNCHANGED <<path, api, total, cancelled, producer, client, next, wrapper, held>>

NoMoreRecords == IF path = "direct" THEN records = <<>> /\ ~recordsOpen
                                    ELSE wrapper = "ended"

TakeBatch ==
    /\ worker = "range" /\ path = "direct" /\ records # <<>>
    /\ worker' = "write" /\ written' = Append(written, Head(records))
    /\ records' = Tail(records)
    /\ UNCHANGED <<recordsOpen, error, errorsOpen>>
    /\ Work

\* Strict validation and WriteRecords may refuse the batch: the worker
\* returns at once, and reads neither channel again.
WriteBatch ==
    /\ worker = "write"
    /\ \/ worker' = "range" /\ UNCHANGED written
       \/ worker' = "error" /\ written' = Front(written)
    /\ UNCHANGED channels
    /\ Work

EndOfRecords ==
    /\ worker = "range" /\ NoMoreRecords
    /\ worker' = "errors"
    /\ UNCHANGED <<channels, written>>
    /\ Work

\* A receive from a closed channel without an error finds nothing.
CheckErrors ==
    /\ worker = "errors"
    /\ \/ path = "direct" /\ error /\ error' = FALSE /\ worker' = "error"
       \/ path = "direct" /\ ~error /\ ~errorsOpen /\ worker' = "commit" /\ UNCHANGED error
       \/ path = "plugin" /\ wrapper = "ended" /\ worker' = "commit" /\ UNCHANGED error
    /\ UNCHANGED <<records, recordsOpen, errorsOpen, written>>
    /\ Work

Commit ==
    /\ worker = "commit"
    /\ worker' \in IF written = <<>> THEN {"nil"} ELSE {"nil", "error"}
    /\ UNCHANGED <<channels, written>>
    /\ Work

WorkerStep == TakeBatch \/ WriteBatch \/ EndOfRecords \/ CheckErrors \/ Commit

Next ==
    \/ Cancel
    \/ Describe \/ PostAttempt \/ WaitForBulkJob \/ OpenResults \/ ReadBatch
    \/ SendBatch \/ ReportError \/ CloseErrors \/ CloseRecords
    \/ EnsureConnector \/ Select \/ ForwardBatch
    \/ TakeBatch \/ WriteBatch \/ EndOfRecords \/ CheckErrors \/ Commit

Spec == Init /\ [][Next]_vars

(* Requests end (the HTTP client has a timeout, the poll loop a deadline)  *)
(* and goroutines that can go on do.  Nothing makes the context end.       *)
FairSpec ==
    /\ Spec
    /\ WF_vars(ProducerStep) /\ WF_vars(WorkerStep)
    /\ WF_vars(EnsureConnector) /\ WF_vars(Select)
    /\ WF_vars(ForwardBatch)

-----------------------------------------------------------------------------
(* Properties                                                              *)

\* Every variable has its type, and no channel holds more than its buffer.
TypeOK ==
    /\ path \in {"direct", "plugin"} /\ api \in {"bulk", "rest"}
    /\ total \in 0..MaxBatches /\ cancelled \in BOOLEAN
    /\ producer \in {"describe", "post", "poll", "results", "read", "send",
                     "failing", "closeErrors", "closeRecords", "ended"}
    /\ attempt \in 1..MaxAttempts /\ body \in BOOLEAN /\ jobs \in Nat
    /\ next \in 1..(MaxBatches + 1)
    /\ records \in Seq(1..MaxBatches) /\ Len(records) <= BulkBuffer
    /\ recordsOpen \in BOOLEAN /\ error \in BOOLEAN /\ errorsOpen \in BOOLEAN
    /\ wrapper \in {"none", "ensure", "refused", "select", "batch", "error", "ended"}
    /\ held \in 0..MaxBatches
    /\ worker \in {"range", "write", "errors", "commit", "nil", "error"}
    /\ written \in Seq(1..MaxBatches)

\* A sync that commits has written every batch of the result once and in
\* order: the error of a result cut short (the server, the CSV, the context)
\* reaches the worker before it commits.
CommitMeansComplete ==
    path = "direct" /\ worker \in {"commit", "nil"} => written = Whole(total)

\* Retries of the POST leave at most one bulk job on the server, answers lost
\* on the way back included.
OneJob == jobs <= 1

\* A query of a direct connector ends on both sides, whatever fails: no
\* goroutine waits for one that waits for it, and a cancelled query leaves no
\* producer behind, also when the worker has left the records in the channel.
QueriesEnd ==
    /\ path = "direct" ~> worker \in {"nil", "error"}
    /\ cancelled /\ path = "direct" ~> producer = "ended"

\* What docs/plugin-development.md promises of a plugin connector as well:
\* a plugin's sync that commits has the whole result.
PluginCommitsAll ==
    path = "plugin" /\ worker \in {"commit", "nil"} => written = Whole(total)

\* The same for the end of the sync.
PluginReturns == path = "plugin" ~> worker \in {"nil", "error"}
=============================================================================
