-------------------------- MODULE Requests_proofs ---------------------------
(***************************************************************************)
(* Proofs about the parts that make requests to other services: the        *)
(* circuit breaker and the S3 client, which shares one among all its       *)
(* operations, and the extraction from Salesforce, for any callers, limits *)
(* and numbers of attempts, results of any length and any buffer.          *)
(*                                                                         *)
(* The breaker: ClosedIffBelowLimit needs nothing but the types beside     *)
(* itself, since each action that moves the state out of or into "closed"  *)
(* also moves the count across maxFailures, and no other does either.      *)
(*                                                                         *)
(* The client: every step of it is a step of the breaker or leaves that    *)
(* alone, so that what holds of the breaker holds of the client.  Of its   *)
(* own it keeps S3Inv: a caller is in the breaker exactly while it is in a *)
(* call, never makes more attempts than its policy has, and what it has    *)
(* acknowledged is in the store.                                           *)
(*                                                                         *)
(* The extraction: on the direct path the batches written and those in the *)
(* channel are, one after the other, the batches sent; the error of a      *)
(* result cut short is in errs before either channel is closed, and only a *)
(* worker that has seen both closed commits.                               *)
(***************************************************************************)
EXTENDS Extraction, S3Client, TLAPS

-----------------------------------------------------------------------------
(* The circuit breaker.                                                    *)

BInv == BreakerTypeOK /\ ClosedIffBelowLimit

(* A new breaker is closed and has counted nothing.                        *)
LEMMA BInvInit == BreakerInit => BInv
  BY BreakerAssumption DEF BreakerInit, BInv, BreakerTypeOK, ClosedIffBelowLimit

(* What one call does to the breaker, step by step of Execute.             *)
LEMMA BInvCall ==
    ASSUME BInv, NEW c \in Callers, CanExecute(c) \/ Promote(c) \/ Finish(c)
    PROVE  BInv'
  <1> USE BreakerAssumption DEF BInv, BreakerTypeOK, ClosedIffBelowLimit, Goto
  <1>1. CASE CanExecute(c)
    BY <1>1 DEF CanExecute
  <1>2. CASE Promote(c)
    \* from open to half-open: neither is closed
    BY <1>2 DEF Promote
  <1>3. CASE RecordFailure(c)
    <2>1. /\ failureCount' = Counted /\ failureCount' \in 0..MaxCount
          /\ failureCount < MaxFailures => failureCount' <= failureCount + 1
          /\ failureCount' >= failureCount
      BY <1>3 DEF RecordFailure, Counted
    <2>2. elapsed' \in BOOLEAN /\ pc' \in [Callers -> {"idle", "promote", "running"}]
      BY <1>3 DEF RecordFailure
    <2>3. /\ state' \in {"closed", "open", "halfOpen"}
          /\ state' = "closed" <=> failureCount' < MaxFailures
      <3>1. CASE state = "closed" /\ failureCount' < MaxFailures
        BY <1>3, <2>1, <3>1 DEF RecordFailure
      <3>2. CASE state = "closed" /\ failureCount' >= MaxFailures
        BY <1>3, <2>1, <3>2 DEF RecordFailure
      <3>3. CASE state # "closed"
        \* the count, already at the limit, only grows
        <4>1. ~(failureCount' < MaxFailures)
          BY <2>1, <3>3
        <4> QED
          BY <1>3, <3>3, <4>1 DEF RecordFailure
      <3> QED
        BY <2>1, <3>1, <3>2, <3>3
    <2> QED
      BY <2>1, <2>2, <2>3
  <1>4. CASE RecordSuccess(c)
    BY <1>4 DEF RecordSuccess
  <1> QED
    BY <1>1, <1>2, <1>3, <1>4 DEF Finish

(* Every step keeps the invariant.                                         *)
LEMMA BInvStep == BInv /\ [BreakerNext]_breakerVars => BInv'
  <1> SUFFICES ASSUME BInv, [BreakerNext]_breakerVars PROVE BInv'
    OBVIOUS
  <1>1. CASE TimePasses
    BY <1>1 DEF TimePasses, BInv, BreakerTypeOK, ClosedIffBelowLimit
  <1>2. CASE Reset
    BY <1>2, BreakerAssumption DEF Reset, BInv, BreakerTypeOK, ClosedIffBelowLimit
  <1>3. CASE \E c \in Callers : CanExecute(c) \/ Promote(c) \/ Finish(c)
    BY <1>3, BInvCall
  <1>4. CASE UNCHANGED breakerVars
    BY <1>4 DEF breakerVars, BInv, BreakerTypeOK, ClosedIffBelowLimit
  <1> QED
    BY <1>1, <1>2, <1>3, <1>4 DEF BreakerNext

(* The invariant holds in every behaviour.                                 *)
LEMMA BreakerInvariant == BreakerSpec => []BInv
  BY BInvInit, BInvStep, PTL DEF BreakerSpec

(* Every variable keeps its type, for any number of callers.               *)
THEOREM BreakerTypeCorrect == BreakerSpec => []BreakerTypeOK
  BY BreakerInvariant, PTL DEF BInv

(* The breaker is closed exactly while fewer than maxFailures failures are *)
(* counted, for any number of overlapping calls and any maxFailures.       *)
THEOREM BreakerOpensAtLimit == BreakerSpec => []ClosedIffBelowLimit
  BY BreakerInvariant, PTL DEF BInv

(* A step that leaves "open" is the promotion, after the timeout, or Reset.*)
LEMMA LeavesOpen ==
    ASSUME [BreakerNext]_breakerVars, state = "open", state' # "open"
    PROVE  (elapsed /\ state' = "halfOpen") \/ Reset
  <1>1. ASSUME NEW c \in Callers, CanExecute(c) \/ Promote(c) \/ Finish(c)
        PROVE  elapsed /\ state' = "halfOpen"
    BY <1>1 DEF CanExecute, Promote, Finish, RecordFailure, RecordSuccess
  <1> QED
    BY <1>1 DEF BreakerNext, TimePasses, breakerVars

(* An open breaker is left only after a quiet resetTimeout, or by Reset:   *)
(* no late result of an overlapping call lets calls through again.         *)
THEOREM OpenLeftAfterQuietPeriod == BreakerSpec => QuietPeriodKept
  <1>1. [BreakerNext]_breakerVars
          => [state = "open" /\ state' # "open" => (elapsed /\ state' = "halfOpen") \/ Reset]_breakerVars
    BY LeavesOpen
  <1> QED
    BY <1>1, PTL DEF BreakerSpec, QuietPeriodKept

-----------------------------------------------------------------------------
(* The client.                                                             *)

(* The client's variables have their types, and the attempts their limit.  *)
S3TypeOK ==
    /\ op \in [Callers -> {"none", "upload", "download", "exists"}]
    /\ step \in [Callers -> {"idle", "try", "call", "wait"}]
    /\ tries \in [Callers -> Nat]
    /\ object \in [Callers -> {"absent", "other", "stored"}]
    /\ result \in [Callers -> {"none", "ok", "missing", "refused", "failed"}]
    /\ troubled \in BOOLEAN

\* retry.Execute never goes beyond the attempts of its policy, and never
\* waits after the last one.
AttemptsKept ==
    \A c \in Callers : /\ step[c] # "idle" => tries[c] \in 1..Attempts(c)
                       /\ step[c] = "wait" => tries[c] < Attempts(c)

\* A caller is inside the breaker exactly while it is in a call, and has a
\* result only when it is not in an operation.
InCall ==
    \A c \in Callers : /\ pc[c] = "idle" <=> step[c] # "call"
                       /\ step[c] # "idle" => result[c] = "none" /\ op[c] # "none"

S3Inv == BInv /\ S3TypeOK /\ AttemptsKept /\ InCall /\ AckedUploadStored

(* A step of the client is a step of its breaker or leaves it alone.       *)
LEMMA S3StepIsBreakerStep == [S3Next]_s3Vars => [BreakerNext]_breakerVars
  <1> SUFFICES ASSUME [S3Next]_s3Vars PROVE [BreakerNext]_breakerVars
    OBVIOUS
  <1>1. ASSUME NEW c \in Callers, NEW kind \in {"upload", "download", "exists"},
               Begin(c, kind)
        PROVE  UNCHANGED breakerVars
    BY <1>1 DEF Begin
  <1>2. ASSUME NEW c \in Callers,
               Attempt(c) \/ PromoteCall(c) \/ Answered(c) \/ NoSuchKey(c) \/ Failed(c)
        PROVE  BreakerNext
    <2>1. CanExecute(c) \/ Promote(c) \/ Finish(c)
      BY <1>2 DEF Attempt, PromoteCall, Answered, NoSuchKey, Failed, Finish
    <2> QED
      BY <2>1 DEF BreakerNext
  <1>3. ASSUME NEW c \in Callers, Wait(c) \/ Delete(c) PROVE UNCHANGED breakerVars
    BY <1>3 DEF Wait, Delete
  <1>4. CASE Pause
    BY <1>4 DEF Pause, BreakerNext
  <1>5. CASE UNCHANGED s3Vars
    BY <1>5 DEF s3Vars
  <1> QED
    BY <1>1, <1>2, <1>3, <1>4, <1>5 DEF S3Next

(* The client uses its breaker as the breaker's specification has it: its  *)
(* behaviours are behaviours of CircuitBreaker, however operations of any  *)
(* number of callers meet in it.                                           *)
THEOREM S3UsesTheBreaker == S3Spec => BreakerSpec
  <1>1. S3Init => BreakerInit
    BY DEF S3Init
  <1> QED
    BY <1>1, S3StepIsBreakerStep, PTL DEF S3Spec, BreakerSpec

(* The breaker all operations share opens at its limit and not before.     *)
THEOREM S3OpensAtLimit == S3Spec => []ClosedIffBelowLimit
  BY S3UsesTheBreaker, BreakerOpensAtLimit, PTL

(* An open breaker lets nothing through before its quiet period is over,   *)
(* whichever operations were in flight when it opened.                     *)
THEOREM S3QuietPeriod == S3Spec => QuietPeriodKept
  BY S3UsesTheBreaker, OpenLeftAfterQuietPeriod, PTL

(* A client has a closed breaker, and has begun nothing.                   *)
LEMMA S3InvInit == S3Init => S3Inv
  <1> SUFFICES ASSUME S3Init PROVE S3Inv
    OBVIOUS
  <1>1. BInv
    BY BInvInit DEF S3Init
  <1>2. S3TypeOK /\ InCall /\ AckedUploadStored
    BY DEF S3Init, BreakerInit, S3TypeOK, InCall, AckedUploadStored
  <1>3. AttemptsKept
    BY S3Assumption DEF S3Init, AttemptsKept, Attempts
  <1> QED
    BY <1>1, <1>2, <1>3 DEF S3Inv

(* A caller begins an operation: its result and its attempts start anew.   *)
LEMMA BeginKeeps ==
    ASSUME S3Inv, NEW c \in Callers, NEW kind \in {"upload", "download", "exists"},
           Begin(c, kind)
    PROVE  S3TypeOK' /\ AttemptsKept' /\ InCall' /\ AckedUploadStored'
  <1> USE DEF S3Inv, BInv, BreakerTypeOK, S3TypeOK, Begin, breakerVars
  <1>1. S3TypeOK'
    OBVIOUS
  <1>2. AttemptsKept'
    BY S3Assumption DEF AttemptsKept, Attempts
  <1>3. InCall'
    BY DEF InCall
  <1>4. AckedUploadStored'
    BY DEF AckedUploadStored
  <1> QED
    BY <1>1, <1>2, <1>3, <1>4

(* Between the operations: the retry loop and the breaker's door.          *)
LEMMA LoopKeeps ==
    ASSUME S3Inv, NEW c \in Callers, Attempt(c) \/ PromoteCall(c) \/ Wait(c)
    PROVE  S3TypeOK' /\ AttemptsKept' /\ InCall' /\ AckedUploadStored'
  <1> USE DEF S3Inv, BInv, BreakerTypeOK, S3TypeOK, Goto, Move, Return
  <1>1. CASE Attempt(c)
    BY <1>1 DEF Attempt, CanExecute, AttemptsKept, Attempts, InCall, AckedUploadStored
  <1>2. CASE PromoteCall(c)
    BY <1>2 DEF PromoteCall, Promote, AttemptsKept, Attempts, InCall, AckedUploadStored
  <1>3. CASE Wait(c)
    <2>1. S3TypeOK' /\ InCall' /\ AckedUploadStored'
      BY <1>3 DEF Wait, breakerVars, InCall, AckedUploadStored
    <2>2. AttemptsKept'
      \* another attempt is made only after one that was not the last
      BY <1>3, S3Assumption DEF Wait, breakerVars, AttemptsKept, Attempts
    <2> QED
      BY <2>1, <2>2
  <1> QED
    BY <1>1, <1>2, <1>3

(* A request ends, one way or another.                                     *)
LEMMA RequestKeeps ==
    ASSUME S3Inv, NEW c \in Callers, Answered(c) \/ NoSuchKey(c) \/ Failed(c)
    PROVE  S3TypeOK' /\ AttemptsKept' /\ InCall' /\ AckedUploadStored'
  <1> USE DEF S3Inv, BInv, BreakerTypeOK, S3TypeOK, Goto, Move, Return, Put
  <1>1. CASE Answered(c)
    \* what is reported as stored has just been put there
    BY <1>1 DEF Answered, RecordSuccess, AttemptsKept, Attempts, InCall, AckedUploadStored
  <1>2. CASE NoSuchKey(c)
    BY <1>2 DEF NoSuchKey, RecordFailure, AttemptsKept, Attempts, InCall, AckedUploadStored
  <1>3. CASE Failed(c)
    <2>1. object' \in {object, [object EXCEPT ![c] = "stored"]}
      BY <1>3 DEF Failed
    <2>2. S3TypeOK'
      BY <1>3, <2>1 DEF Failed
    <2>3. AttemptsKept'
      BY <1>3 DEF Failed, AttemptsKept, Attempts
    <2>4. InCall'
      BY <1>3 DEF Failed, RecordFailure, InCall
    <2>5. AckedUploadStored'
      BY <1>3, <2>1 DEF Failed, AckedUploadStored
    <2> QED
      BY <2>2, <2>3, <2>4, <2>5
  <1> QED
    BY <1>1, <1>2, <1>3

(* Every step keeps the invariant.                                         *)
LEMMA S3InvStep == S3Inv /\ [S3Next]_s3Vars => S3Inv'
  <1> SUFFICES ASSUME S3Inv, [S3Next]_s3Vars PROVE S3Inv'
    OBVIOUS
  <1>1. BInv'
    BY S3StepIsBreakerStep, BInvStep DEF S3Inv
  <1>2. S3TypeOK' /\ AttemptsKept' /\ InCall' /\ AckedUploadStored'
    <2>1. CASE Pause
      BY <2>1 DEF Pause, TimePasses, S3Inv, S3TypeOK, AttemptsKept, Attempts, InCall,
                  AckedUploadStored
    <2>2. ASSUME NEW c \in Callers, Delete(c)
          PROVE  S3TypeOK' /\ AttemptsKept' /\ InCall' /\ AckedUploadStored'
      <3> USE DEF S3Inv, BInv, BreakerTypeOK, S3TypeOK
      <3>1. object' \in {object, [object EXCEPT ![c] = "absent"]}
        BY <2>2 DEF Delete
      <3>2. S3TypeOK' /\ AckedUploadStored'
        BY <2>2, <3>1 DEF Delete, AckedUploadStored
      <3>3. InCall'
        BY <2>2 DEF Delete, breakerVars, InCall
      <3>4. AttemptsKept'
        BY <2>2 DEF Delete, AttemptsKept, Attempts
      <3> QED
        BY <3>2, <3>3, <3>4
    <2>3. CASE UNCHANGED s3Vars
      BY <2>3 DEF s3Vars, breakerVars, S3Inv, S3TypeOK, AttemptsKept, Attempts, InCall,
                  AckedUploadStored
    <2> QED
      BY <2>1, <2>2, <2>3, BeginKeeps, LoopKeeps, RequestKeeps DEF S3Next
  <1> QED
    BY <1>1, <1>2 DEF S3Inv

(* The invariant holds in every behaviour of the client.                   *)
LEMMA S3Invariant == S3Spec => []S3Inv
  BY S3InvInit, S3InvStep, PTL DEF S3Spec

(* Every variable of the client has its type, and no operation makes more  *)
(* attempts than its policy allows or waits after the last one.            *)
THEOREM S3AttemptsBounded == S3Spec => [](S3TypeOK /\ AttemptsKept)
  BY S3Invariant, PTL DEF S3Inv

(* An upload that has reported success is in the store as a whole, for any *)
(* number of callers and attempts: whichever attempts before the last one  *)
(* failed, and whatever was applied of those whose answers were lost.      *)
THEOREM S3AckedUploadStored == S3Spec => []AckedUploadStored
  BY S3Invariant, PTL DEF S3Inv

-----------------------------------------------------------------------------
(* The extraction.                                                         *)


Cursor ==
    /\ next <= total + 1
    /\ producer = "send" => next <= total
    /\ wrapper = "batch" => held # 0

Job == jobs <= 1 /\ (body => jobs = 0)

\* What the worker has and what the channel holds is what was sent.
Stream ==
    /\ Len(written) + Len(records) = next - 1
    /\ \A i \in 1..Len(written) : written[i] = i
    /\ \A i \in 1..Len(records) : records[i] = Len(written) + i

\* The channels close after the last batch or after the error.
Closing ==
    /\ ~errorsOpen => producer \in {"closeRecords", "ended"}
    /\ ~recordsOpen => producer = "ended"
    /\ producer \in {"closeErrors", "closeRecords", "ended"} /\ worker # "error"
           => error \/ next = total + 1
    /\ worker \in {"errors", "commit", "nil"} => records = <<>> /\ ~recordsOpen
    /\ worker \in {"commit", "nil"} => next = total + 1

Direct ==
    path = "direct" => wrapper = "none" /\ (worker # "error" => Stream) /\ Closing

XInv == TypeOK /\ Cursor /\ Job /\ Direct

LEMMA XInvInit == Init => XInv
  <1> SUFFICES ASSUME Init PROVE XInv
    OBVIOUS
  <1> USE ExtractionAssumption DEF Init
  <1>1. records \in Seq(1..MaxBatches) /\ written \in Seq(1..MaxBatches)
        /\ Len(records) = 0 /\ Len(written) = 0
    OBVIOUS
  <1>2. wrapper \in {"none", "ensure"} /\ (path = "direct" => wrapper = "none")
    OBVIOUS
  <1>3. TypeOK
    <2>1. cancelled \in BOOLEAN /\ body \in BOOLEAN /\ recordsOpen \in BOOLEAN
          /\ error \in BOOLEAN /\ errorsOpen \in BOOLEAN
      OBVIOUS
    <2>2. attempt \in 1..MaxAttempts /\ jobs \in Nat /\ next \in 1..(MaxBatches + 1)
          /\ held \in 0..MaxBatches /\ Len(records) <= BulkBuffer
      BY <1>1
    <2> QED
      BY <1>1, <1>2, <2>1, <2>2 DEF TypeOK
  <1>4. Cursor /\ Job
    BY <1>2 DEF Cursor, Job
  <1>5. Direct
    BY <1>1, <1>2 DEF Direct, Stream, Closing
  <1> QED
    BY <1>3, <1>4, <1>5 DEF XInv

(* A step of the producer that sends nothing.                              *)
LEMMA GoesKeeps ==
    ASSUME XInv, NEW from, NEW to, Goes(from, to),
           to \in {"post", "poll", "results", "read", "send", "closeErrors"},
           from \in {"describe", "post", "poll", "results", "read"},
           to = "send" => next <= total,
           to = "closeErrors" => next = total + 1
    PROVE  XInv'
  <1> USE ExtractionAssumption DEF XInv, Goes, Produce, client, channels
  <1>1. TypeOK'
    BY DEF TypeOK
  <1>2. Cursor' /\ Job'
    BY DEF Cursor, Job
  <1>3. Direct'
    BY DEF Direct, Stream, Closing
  <1> QED
    BY <1>1, <1>2, <1>3

LEMMA PostAttemptKeeps == ASSUME XInv, PostAttempt PROVE XInv'
  <1> USE ExtractionAssumption DEF XInv, PostAttempt, Produce, channels
  <1>a. body' \in BOOLEAN /\ (body' => body)
    <2>1. body \in BOOLEAN
      BY DEF TypeOK
    <2>2. CASE body' = body
      BY ONLY <2>1, <2>2
    <2>3. CASE body' = FALSE
      BY ONLY <2>3
    <2> QED
      BY <2>2, <2>3
  <1>b. /\ jobs' \in {jobs, jobs + 1} /\ jobs \in Nat
        /\ ~(body /\ ~body') => jobs' = jobs
    <2>1. CASE body /\ ~body'
      BY <2>1 DEF TypeOK
    <2>2. CASE ~(body /\ ~body')
      BY <2>2 DEF TypeOK
    <2> QED
      BY <2>1, <2>2
  <1>c. producer' \in {"post", "poll", "failing"} /\ attempt' \in 1..MaxAttempts
    BY DEF TypeOK
  <1>1. jobs' \in {jobs, jobs + 1} /\ jobs \in Nat /\ body' \in BOOLEAN
        /\ producer' \in {"post", "poll", "failing"} /\ attempt' \in 1..MaxAttempts
    BY <1>a, <1>b, <1>c
  <1>2. TypeOK'
    BY <1>1 DEF TypeOK
  <1>3. Cursor'
    BY <1>1 DEF Cursor
  <1>4. Job'
    <2>1. CASE body /\ ~body'
      BY <1>1, <2>1 DEF Job
    <2>2. CASE ~(body /\ ~body')
      <3>1. jobs' = jobs /\ (body' => body)
        BY <1>a, <1>b, <2>2
      <3> QED
        BY <3>1 DEF Job
    <2> QED
      BY <2>1, <2>2
  <1>5. Direct'
    BY <1>1 DEF Direct, Stream, Closing
  <1> QED
    BY <1>2, <1>3, <1>4, <1>5

(* The batch sent is the next in line.                                     *)
LEMMA SendKeeps == ASSUME XInv, SendBatch PROVE XInv'
  <1> USE ExtractionAssumption DEF XInv, SendBatch, Produce, client
  <1>1. CASE Sent("read")
    <2> USE <1>1 DEF Sent
    <2>1. next \in 1..MaxBatches
      BY DEF TypeOK, Cursor
    <2>2. /\ records' \in Seq(1..MaxBatches) /\ Len(records') = Len(records) + 1
          /\ records'[Len(records) + 1] = next
          /\ \A i \in 1..Len(records) : records'[i] = records[i]
      BY <2>1 DEF TypeOK
    <2>3. Len(records') <= BulkBuffer
      BY <2>2 DEF Capacity, TypeOK
    <2>4. TypeOK'
      BY <2>1, <2>2, <2>3 DEF TypeOK
    <2>5. Cursor' /\ Job'
      BY <2>1 DEF Cursor, Job, TypeOK
    <2>6. ASSUME path = "direct" PROVE worker # "error" => Stream'
      <3> HAVE worker # "error"
      <3>1. Stream /\ Len(written) \in Nat /\ Len(records) \in Nat
        BY <2>6 DEF Direct, TypeOK
      <3>2. Len(written') + Len(records') = next' - 1
        BY <2>1, <2>2, <3>1 DEF Stream
      <3>3. \A i \in 1..Len(written') : written'[i] = i
        BY <3>1 DEF Stream
      <3>4. ASSUME NEW i \in 1..Len(records') PROVE records'[i] = Len(written') + i
        <4>1. CASE i \in 1..Len(records)
          BY <2>2, <3>1, <4>1 DEF Stream
        <4>2. CASE i = Len(records) + 1
          BY <2>1, <2>2, <3>1, <4>2 DEF Stream
        <4> QED
          BY <2>2, <3>1, <4>1, <4>2
      <3> QED
        BY <3>2, <3>3, <3>4 DEF Stream
    <2>7. ASSUME path = "direct" PROVE Closing'
      BY <2>7 DEF Direct, Closing
    <2> QED
      BY <2>4, <2>5, <2>6, <2>7 DEF Direct
  <1>2. CASE GivesUp("failing")
    <2> USE <1>2 DEF GivesUp, channels
    <2>1. TypeOK' /\ Cursor' /\ Job'
      BY DEF TypeOK, Cursor, Job
    <2>2. Direct'
      BY DEF Direct, Stream, Closing
    <2> QED
      BY <2>1, <2>2
  <1> QED
    BY <1>1, <1>2

LEMMA ClosingKeeps ==
    ASSUME XInv, ReportError \/ CloseErrors \/ CloseRecords PROVE XInv'
  <1> USE ExtractionAssumption DEF XInv, ReportError, CloseErrors, CloseRecords,
          Produce, client
  <1>a. /\ recordsOpen' \in BOOLEAN /\ error' \in BOOLEAN /\ errorsOpen' \in BOOLEAN
        /\ producer' \in {"closeErrors", "closeRecords", "ended"}
    BY DEF TypeOK
  <1>1. TypeOK'
    BY <1>a DEF TypeOK
  <1>2. Cursor' /\ Job'
    BY DEF Cursor, Job
  <1>3. Direct'
    BY DEF Direct, Stream, Closing
  <1> QED
    BY <1>1, <1>2, <1>3

(* The plugin connector's goroutine runs on the other path only.           *)
LEMMA WrapperKeeps ==
    ASSUME XInv, EnsureConnector \/ Select \/ ForwardBatch
    PROVE  XInv'
  <1> USE ExtractionAssumption DEF XInv, Forward, client, channels
  <1>1. CASE EnsureConnector
    BY <1>1 DEF EnsureConnector, TypeOK, Cursor, Job, Direct, Stream, Closing
  <1>2. CASE Select
    <2> USE <1>2 DEF Select
    <2>1. path = "plugin"
      BY DEF Direct, TypeOK
    <2>2. CASE records # <<>> /\ held' = Head(records) /\ records' = Tail(records)
               /\ wrapper' = "batch" /\ UNCHANGED <<recordsOpen, error, errorsOpen>>
      <3>1. held' \in 1..MaxBatches /\ records' \in Seq(1..MaxBatches)
            /\ Len(records') <= BulkBuffer
        BY <2>2 DEF TypeOK
      <3> QED
        BY <2>1, <2>2, <3>1 DEF TypeOK, Cursor, Job, Direct
    <2>3. CASE error /\ error' = FALSE /\ wrapper' = "error"
               /\ UNCHANGED <<records, recordsOpen, errorsOpen, held>>
      <3>1. error' \in BOOLEAN /\ wrapper' = "error"
        BY <2>3
      <3>2. TypeOK'
        BY <2>3, <3>1 DEF TypeOK
      <3> QED
        BY <2>1, <2>3, <3>2 DEF Cursor, Job, Direct
    <2>4. CASE wrapper' = "ended" /\ UNCHANGED <<channels, held>>
      BY <2>1, <2>4 DEF TypeOK, Cursor, Job, Direct
    <2> QED
      BY <2>2, <2>3, <2>4
  <1>3. CASE ForwardBatch
    <2>1. written' \in Seq(1..MaxBatches)
      BY <1>3 DEF ForwardBatch, TypeOK, Cursor
    <2> QED
      BY <1>3, <2>1 DEF ForwardBatch, TypeOK, Cursor, Job, Direct
  <1> QED
    BY <1>1, <1>2, <1>3

(* The worker takes the batch that follows those it has.                   *)
LEMMA TakeKeeps == ASSUME XInv, TakeBatch PROVE XInv'
  <1> USE ExtractionAssumption DEF XInv, TakeBatch, Work, client
  <1>1. /\ Len(records) > 0
        /\ records' \in Seq(1..MaxBatches) /\ Len(records') = Len(records) - 1
        /\ Head(records) = records[1] /\ Head(records) \in 1..MaxBatches
        /\ \A i \in 1..Len(records') : records'[i] = records[i + 1]
    BY DEF TypeOK
  <1>2. /\ written' \in Seq(1..MaxBatches) /\ Len(written') = Len(written) + 1
        /\ written'[Len(written) + 1] = records[1]
        /\ \A i \in 1..Len(written) : written'[i] = written[i]
    BY <1>1 DEF TypeOK
  <1>3. TypeOK' /\ Cursor' /\ Job'
    BY <1>1, <1>2 DEF TypeOK, Cursor, Job
  <1>4. Stream'
    BY <1>1, <1>2 DEF Direct, Stream, TypeOK
  <1>5. Closing'
    BY DEF Direct, Closing
  <1> QED
    BY <1>3, <1>4, <1>5 DEF Direct

LEMMA WriteKeeps == ASSUME XInv, WriteBatch PROVE XInv'
  <1> USE ExtractionAssumption DEF XInv, WriteBatch, Work, client, channels
  <1>1. CASE worker' = "range" /\ UNCHANGED written
    BY <1>1 DEF TypeOK, Cursor, Job, Direct, Stream, Closing
  <1>2. CASE worker' = "error" /\ written' = Front(written)
    <2>1. written' \in Seq(1..MaxBatches)
      BY <1>2 DEF TypeOK, Front
    <2> QED
      BY <1>2, <2>1 DEF TypeOK, Cursor, Job, Direct, Closing
  <1> QED
    BY <1>1, <1>2

(* errs is read when records has ended: it is empty and closed only if the *)
(* producer has reached the end of the result.                             *)
LEMMA EndKeeps ==
    ASSUME XInv, EndOfRecords \/ CheckErrors \/ Commit PROVE XInv'
  <1> USE ExtractionAssumption DEF XInv, Work, client, channels
  <1>1. CASE EndOfRecords
    BY <1>1 DEF EndOfRecords, NoMoreRecords, TypeOK, Cursor, Job, Direct, Stream, Closing
  <1>2. CASE CheckErrors
    <2> USE <1>2 DEF CheckErrors
    <2>a. error' \in BOOLEAN /\ worker' \in {"error", "commit"}
      BY DEF TypeOK
    <2>1. TypeOK' /\ Cursor' /\ Job'
      BY <2>a DEF TypeOK, Cursor, Job
    <2>2. ASSUME path = "direct" PROVE worker' # "error" => Stream'
      BY <2>2 DEF Direct, Stream
    <2>3. ASSUME path = "direct" PROVE Closing'
      BY <2>3 DEF Direct, Closing
    <2> QED
      BY <2>1, <2>2, <2>3 DEF Direct
  <1>3. CASE Commit
    <2>1. worker' \in {"nil", "error"}
      BY <1>3 DEF Commit
    <2> QED
      BY <1>3, <2>1 DEF Commit, TypeOK, Cursor, Job, Direct, Stream, Closing
  <1> QED
    BY <1>1, <1>2, <1>3

LEMMA XInvStep == XInv /\ [Next]_vars => XInv'
  <1> SUFFICES ASSUME XInv, [Next]_vars PROVE XInv'
    OBVIOUS
  <1>1. CASE Cancel
    BY <1>1 DEF Cancel, XInv, TypeOK, Cursor, Job, Direct, Stream, Closing, client, channels
  <1>2. CASE Describe
    BY <1>2, GoesKeeps DEF Describe
  <1>3. CASE WaitForBulkJob
    BY <1>3, GoesKeeps DEF WaitForBulkJob
  <1>4. CASE OpenResults
    BY <1>4, GoesKeeps DEF OpenResults
  <1>5. CASE ReadBatch
    <2>1. next > total => next = total + 1
      BY DEF XInv, TypeOK, Cursor
    <2>2. next <= total \/ next > total
      BY DEF XInv, TypeOK
    <2> QED
      BY <1>5, <2>1, <2>2, GoesKeeps DEF ReadBatch
  <1>6. CASE UNCHANGED vars
    BY <1>6 DEF vars, XInv, TypeOK, Cursor, Job, Direct, Stream, Closing, client, channels
  <1> QED
    BY <1>1, <1>2, <1>3, <1>4, <1>5, <1>6, PostAttemptKeeps, SendKeeps, ClosingKeeps,
       WrapperKeeps, TakeKeeps, WriteKeeps, EndKeeps DEF Next

LEMMA ExtractionInvariant == Spec => []XInv
  BY XInvInit, XInvStep, PTL DEF Spec

(* Every variable keeps its type, and no channel holds more than its       *)
(* buffer.                                                                 *)
THEOREM ExtractionTypeCorrect == Spec => []TypeOK
  BY ExtractionInvariant, PTL DEF XInv

(* However often the POST is retried and whatever answers are lost, the    *)
(* server is left with at most one bulk job for the query.                 *)
THEOREM RetriesLeaveOneJob == Spec => []OneJob
  <1>1. XInv => OneJob
    BY DEF XInv, Job, OneJob
  <1> QED
    BY <1>1, ExtractionInvariant, PTL

(* Under the invariant, a worker that commits has the whole result.        *)
LEMMA CommitsWhole == XInv => CommitMeansComplete
  <1> SUFFICES ASSUME XInv, path = "direct", worker \in {"commit", "nil"}
               PROVE  written = Whole(total)
    BY DEF CommitMeansComplete
  <1>1. Len(records) = 0 /\ next = total + 1 /\ Stream
    BY DEF XInv, Direct, Closing
  <1>2. Len(written) = total /\ \A i \in 1..total : written[i] = i
    BY <1>1 DEF Stream, XInv, TypeOK
  <1>3. written = [i \in 1..Len(written) |-> written[i]]
    BY DEF XInv, TypeOK
  <1> QED
    BY <1>2, <1>3 DEF Whole

(* A sync of a direct connector that commits has written the whole result, *)
(* whatever failed on the way.                                             *)
THEOREM CommitsAreComplete == Spec => []CommitMeansComplete
  BY CommitsWhole, ExtractionInvariant, PTL
=============================================================================
