----------------------------- MODULE S3Client ------------------------------
(***************************************************************************)
(* The S3 client (storage/s3.go): Upload, Download and Exists go through   *)
(* retry.Execute around the circuit breaker that all operations of the     *)
(* client share (retry/executor.go), with S3RetryableFunc deciding which   *)
(* errors are worth another attempt (retry/policy.go).  List, Delete and   *)
(* the copies go straight to S3 and touch no state of the client.          *)
(*                                                                         *)
(* Each caller works on a key of its own, so that they meet in the breaker *)
(* only.  The object under a key is "absent", what the caller last wanted  *)
(* to upload ("stored"), something older ("other") or "cut" short.         *)
(***************************************************************************)
EXTENDS CircuitBreaker

CONSTANTS
    UploadAttempts,      \* uploadPolicy.MaxAttempts
    DownloadAttempts     \* downloadPolicy.MaxAttempts

ASSUME S3Assumption == UploadAttempts \in Nat \ {0} /\ DownloadAttempts \in Nat \ {0}

VARIABLES
    op,          \* [Callers -> "none", "upload", "download" or "exists"]
    step,        \* "idle", "try" (before cb.Execute), "call" (in it) or "wait"
    tries,       \* the attempt of retry.Execute
    object,      \* the object under each caller's key
    result,      \* what the caller's last operation returned
    troubled     \* history: some request to S3 has failed

s3Vars == <<breakerVars, op, step, tries, object, result, troubled>>

S3Init ==
    /\ BreakerInit
    /\ op = [c \in Callers |-> "none"]
    /\ step = [c \in Callers |-> "idle"]
    /\ tries = [c \in Callers |-> 1]
    /\ object \in [Callers -> {"absent", "other"}]
    /\ result = [c \in Callers |-> "none"]
    /\ troubled = FALSE

Attempts(c) == IF op[c] = "upload" THEN UploadAttempts ELSE DownloadAttempts

Move(c, to) == step' = [step EXCEPT ![c] = to] /\ UNCHANGED <<op, tries, result>>

Return(c, r) ==
    /\ step' = [step EXCEPT ![c] = "idle"]
    /\ result' = [result EXCEPT ![c] = r]
    /\ UNCHANGED <<op, tries>>

Begin(c, kind) ==
    /\ step[c] = "idle"
    /\ op' = [op EXCEPT ![c] = kind]
    /\ step' = [step EXCEPT ![c] = "try"]
    /\ tries' = [tries EXCEPT ![c] = 1]
    /\ object' = IF kind = "upload" /\ object[c] # "absent"
                   THEN [object EXCEPT ![c] = "other"] ELSE object
    /\ result' = [result EXCEPT ![c] = "none"]
    /\ UNCHANGED <<breakerVars, troubled>>

\* The text of a CircuitBreakerError matches no pattern of S3RetryableFunc:
\* an open breaker ends the operation, whichever attempt it is.
Attempt(c) ==
    /\ step[c] = "try"
    /\ CanExecute(c)
    /\ IF pc'[c] = "idle" THEN Return(c, "refused") ELSE Move(c, "call")
    /\ UNCHANGED <<object, troubled>>

PromoteCall(c) == step[c] = "call" /\ Promote(c)
                  /\ UNCHANGED <<op, step, tries, object, result, troubled>>

\* A mutant: the attempts share one reader over the data, which the first
\* one leaves empty.
PutDrained(c) == [object EXCEPT ![c] = IF tries[c] = 1 THEN "stored" ELSE "cut"]

\* PutObject; every attempt has a reader of its own over the same data.
Put(c) == [object EXCEPT ![c] = "stored"]

\* The request is answered; HeadObject's NotFound is an answer like any.
Answered(c) ==
    /\ step[c] = "call" /\ RecordSuccess(c)
    /\ \/ op[c] = "upload" /\ object' = Put(c) /\ Return(c, "ok")
       \/ op[c] = "download" /\ object[c] # "absent" /\ Return(c, "ok") /\ UNCHANGED object
       \/ op[c] = "exists" /\ UNCHANGED object
          /\ Return(c, IF object[c] = "absent" THEN "missing" ELSE "ok")
    /\ UNCHANGED troubled

\* GetObject's NoSuchKey is an error like any to the breaker, which counts
\* it; S3RetryableFunc does not retry it.
NoSuchKey(c) ==
    /\ step[c] = "call" /\ RecordFailure(c)
    /\ op[c] = "download" /\ object[c] = "absent"
    /\ Return(c, "missing")
    /\ UNCHANGED <<object, troubled>>

\* The request fails, or its answer is lost: an upload may have been applied.
Failed(c) ==
    /\ step[c] = "call" /\ RecordFailure(c)
    /\ object' \in {object} \cup (IF op[c] = "upload" THEN {Put(c)} ELSE {})
    /\ \/ tries[c] < Attempts(c) /\ Move(c, "wait")
       \/ Return(c, "failed")          \* not retryable, or the last attempt
    /\ troubled' = TRUE

\* A mutant: the attempts are not counted.
WaitUncounted(c) ==
    /\ step[c] = "wait"
    /\ step' = [step EXCEPT ![c] = "try"]
    /\ UNCHANGED <<breakerVars, op, tries, object, result, troubled>>

\* The delay has passed, or the context has ended.
Wait(c) ==
    /\ step[c] = "wait"
    /\ \/ /\ step' = [step EXCEPT ![c] = "try"]
          /\ tries' = [tries EXCEPT ![c] = @ + 1]
          /\ UNCHANGED <<op, result>>
       \/ Return(c, "failed")
    /\ UNCHANGED <<breakerVars, object, troubled>>

\* Neither breaker nor retries; the error of a request that was applied may
\* still be reported.
Delete(c) ==
    /\ step[c] = "idle"
    /\ object' \in {object, [object EXCEPT ![c] = "absent"]}
    /\ op' = [op EXCEPT ![c] = "none"]
    /\ result' = [result EXCEPT ![c] = "none"]
    /\ UNCHANGED <<breakerVars, step, tries, troubled>>

GoesOn(c) ==
    Attempt(c) \/ PromoteCall(c) \/ Answered(c) \/ NoSuchKey(c) \/ Failed(c) \/ Wait(c)

Pause == TimePasses /\ UNCHANGED <<op, step, tries, object, result, troubled>>

S3Next ==
    \/ Pause
    \/ \E c \in Callers :
         \/ \E kind \in {"upload", "download", "exists"} : Begin(c, kind)
         \/ Attempt(c) \/ PromoteCall(c) \/ Answered(c) \/ NoSuchKey(c)
         \/ Failed(c) \/ Wait(c) \/ Delete(c)

S3Spec == S3Init /\ [][S3Next]_s3Vars

(* Time passes, and an operation that has begun goes on: the SDK's client  *)
(* has timeouts, and the wait ends with its delay or with the context.     *)
S3FairSpec ==
    /\ S3Spec
    /\ WF_s3Vars(Pause) /\ \A c \in Callers : WF_s3Vars(GoesOn(c))

-----------------------------------------------------------------------------
(* Properties                                                              *)

\* After an Upload that reports success the object under the key is the
\* whole of what the caller passed, whichever attempt it was that succeeded
\* and whatever the failed ones before it left there.
AckedUploadStored ==
    \A c \in Callers : op[c] = "upload" /\ result[c] = "ok" => object[c] = "stored"

\* Every operation returns, whatever S3 answers and however the other
\* callers move the breaker between two of its attempts.
OperationsReturn == \A c \in Callers : step[c] # "idle" ~> step[c] = "idle"

\* The breaker is there for "when upstream systems are unavailable"
\* (docs/error-handling.md:82): as long as no request has failed, no
\* operation is refused.  Reads of keys that are not there are counted.
RefusedOnlyInTrouble == (\E c \in Callers : result[c] = "refused") => troubled
=============================================================================
