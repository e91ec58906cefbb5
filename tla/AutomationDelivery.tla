------------------------- MODULE AutomationDelivery -------------------------
(***************************************************************************)
(* data-platform/hotpass/automation/{http,hooks}.py: the webhook and CRM   *)
(* deliveries at the end of a pipeline run, over one AutomationHTTPClient  *)
(* with retries, backoff and a circuit breaker, and one dead letter file.  *)
(*                                                                         *)
(* The deliveries are made one after the other: the webhooks in order      *)
(* (dispatch_webhooks), then the CRM push (push_crm_updates), and the two  *)
(* functions treat a delivery alike.  What varies is the network: a        *)
(* request may be answered, refused, or time out after the endpoint got    *)
(* it.  Time passes during requests, between deliveries and in sleep.      *)
(***************************************************************************)
EXTENDS Integers

CONSTANTS
    Deliveries,         \* webhooks plus the CRM push
    Attempts,           \* AutomationRetryPolicy.attempts
    BackoffFactor,      \* AutomationRetryPolicy.backoff_factor
    BackoffMax,         \* AutomationRetryPolicy.backoff_max
    FailureThreshold,   \* AutomationCircuitBreakerPolicy.failure_threshold
    RecoveryTime,       \* AutomationCircuitBreakerPolicy.recovery_time
    DeadLetters,        \* is_dead_letter_enabled()
    DiskFaults,         \* may appending to the dead letter file fail?
    MaxElapsed          \* bound: time a request, or a pause, takes

ASSUME PolicyAssumption ==
    /\ Deliveries \in Nat
    /\ Attempts \in Nat \ {0}
    /\ BackoffFactor \in Nat
    /\ BackoffMax \in Nat
    /\ FailureThreshold \in Nat \ {0}
    /\ RecoveryTime \in Nat
    /\ DeadLetters \in BOOLEAN
    /\ DiskFaults \in BOOLEAN
    /\ MaxElapsed \in Nat

VARIABLES
    now,           \* time.monotonic()
    failures,      \* _consecutive_failures
    openUntil,     \* _circuit_open_until
    delivery,      \* the delivery that is next, or under way
    attempt,       \* its attempt under way; 0 between two deliveries
    keys,          \* idempotency keys issued so far; the last is the current one
    status,        \* the report: what each delivery came to
    received,      \* the keys of the requests that reached each endpoint
    letter,        \* the key each delivery was dead-lettered with
    aborted,       \* did an error escape to the caller?
    quietUntil     \* history: end of the latest recovery window

breakerVars == <<failures, openUntil, quietUntil>>
vars == <<now, breakerVars, delivery, attempt, keys, status, received, letter,
          aborted>>

Index == 1..Deliveries
Closed == -1      \* _circuit_open_until is None
NoKey == 0        \* keys are numbered from 1
Elapsed == 0..MaxElapsed

AutomationTypeOK ==
    /\ now \in Nat
    /\ failures \in 0..FailureThreshold
    /\ openUntil \in Nat \cup {Closed}
    /\ delivery \in 1..(Deliveries + 1)
    /\ attempt \in 0..Attempts
    /\ attempt > 0 => delivery \in Index /\ ~aborted
    /\ keys \in Nat
    /\ status \in [Index -> {"pending", "delivered", "failed", "circuit_open"}]
    /\ received \in [Index -> SUBSET (1..keys)]
    /\ letter \in [Index -> 0..keys]
    /\ aborted \in BOOLEAN
    /\ quietUntil \in Nat

Init ==
    /\ now = 0
    /\ failures = 0
    /\ openUntil = Closed
    /\ delivery = 1
    /\ attempt = 0
    /\ keys = 0
    /\ status = [d \in Index |-> "pending"]
    /\ received = [d \in Index |-> {}]
    /\ letter = [d \in Index |-> NoKey]
    /\ aborted = FALSE
    /\ quietUntil = 0

-----------------------------------------------------------------------------
(* The circuit breaker. *)

\* Not the code: takes the circuit for closed one time unit early.
OpenAtEarly(t) == openUntil # Closed /\ t + 1 < openUntil

\* _is_circuit_open at time t.
OpenAt(t) == openUntil # Closed /\ t < openUntil

\* Not the code: counts the failure and compares the count before it.
RecordFailureLate(t) ==
    /\ failures' = failures + 1
    /\ IF failures >= FailureThreshold
       THEN openUntil' = t + RecoveryTime /\ quietUntil' = t + RecoveryTime
       ELSE UNCHANGED <<openUntil, quietUntil>>

\* _record_failure at time t.
RecordFailure(t) ==
    /\ failures' = failures + 1
    /\ IF failures + 1 >= FailureThreshold
       THEN openUntil' = t + RecoveryTime /\ quietUntil' = t + RecoveryTime
       ELSE UNCHANGED <<openUntil, quietUntil>>

\* _reset_circuit, and what _is_circuit_open does once the time is over.
ResetCircuit ==
    /\ failures' = 0
    /\ openUntil' = Closed
    /\ UNCHANGED quietUntil

-----------------------------------------------------------------------------
(* The hooks: one delivery, from the check of the circuit to the report.   *)

Pending == ~aborted /\ delivery \in Index
Underway == Pending /\ attempt > 0

Report(what) ==
    /\ status' = [status EXCEPT ![delivery] = what]
    /\ delivery' = delivery + 1
    /\ attempt' = 0

\* The circuit is open: the delivery is reported, not made.
Skip(pause) ==
    /\ Pending
    /\ attempt = 0
    /\ OpenAt(now + pause)
    /\ now' = now + pause
    /\ Report("circuit_open")
    /\ UNCHANGED <<breakerVars, keys, received, letter, aborted>>

\* The circuit is closed, or its recovery time is over: a new idempotency key
\* and the first attempt.
Begin(pause) ==
    /\ Pending
    /\ attempt = 0
    /\ ~OpenAt(now + pause)
    /\ now' = now + pause
    /\ IF openUntil = Closed THEN UNCHANGED breakerVars ELSE ResetCircuit
    /\ keys' = keys + 1
    /\ attempt' = 1
    /\ UNCHANGED <<delivery, status, received, letter, aborted>>

\* _backoff_for_attempt
Backoff(n) ==
    LET growing == BackoffFactor * 2^(n - 1)
    IN  IF growing < BackoffMax THEN growing ELSE BackoffMax

Slept(n) == IF Backoff(n) > 0 THEN Backoff(n) ELSE 0

\* The request under way reaches its endpoint, or gets lost before.
Reaches == received' = [received EXCEPT ![delivery] = @ \cup {keys}]
IsLost == UNCHANGED received

Succeed(elapsed) ==
    /\ Underway
    /\ now' = now + elapsed
    /\ ResetCircuit
    /\ Reaches
    /\ Report("delivered")
    /\ UNCHANGED <<keys, letter, aborted>>

\* Not the code: the idempotency key is made inside the retry loop.
RetryWithNewKey(elapsed) ==
    /\ Underway
    /\ attempt < Attempts
    /\ Reaches \/ IsLost
    /\ now' = now + elapsed + Slept(attempt)
    /\ attempt' = attempt + 1
    /\ keys' = keys + 1
    /\ UNCHANGED <<breakerVars, delivery, status, letter, aborted>>

\* A transport error, or a status of status_forcelist, with attempts left.
\* A request that timed out may have reached its endpoint.
Retry(elapsed) ==
    /\ Underway
    /\ attempt < Attempts
    /\ Reaches \/ IsLost
    /\ now' = now + elapsed + Slept(attempt)
    /\ attempt' = attempt + 1
    /\ UNCHANGED <<breakerVars, delivery, keys, status, letter, aborted>>

\* The delivery fails: any other error status on any attempt, or any error on
\* the last.  The envelope goes to the dead letter file before the report.
GiveUp(elapsed) ==
    /\ Underway
    /\ Reaches \/ (attempt = Attempts /\ IsLost)
    /\ now' = now + elapsed
    /\ RecordFailure(now + elapsed)
    /\ UNCHANGED <<keys>>

\* Not the code: a failed envelope is reported and forgotten.
FailUnrecorded(elapsed) ==
    /\ GiveUp(elapsed)
    /\ Report("failed")
    /\ UNCHANGED <<letter, aborted>>

Fail(elapsed) ==
    /\ GiveUp(elapsed)
    /\ Report("failed")
    /\ letter' = IF DeadLetters THEN [letter EXCEPT ![delivery] = keys] ELSE letter
    /\ UNCHANGED aborted

\* Appending the envelope fails: the error leaves the hook, the report is lost
\* and the remaining deliveries are not made.
FailUnreported(elapsed) ==
    /\ DeadLetters /\ DiskFaults
    /\ GiveUp(elapsed)
    /\ aborted' = TRUE
    /\ attempt' = 0
    /\ UNCHANGED <<delivery, status, letter>>

-----------------------------------------------------------------------------
Next ==
    \E t \in Elapsed :
        \/ Skip(t) \/ Begin(t)
        \/ Succeed(t) \/ Retry(t) \/ Fail(t) \/ FailUnreported(t)

Spec == Init /\ [][Next]_vars

-----------------------------------------------------------------------------
(* Properties *)

\* The breaker is open exactly when the threshold of consecutive failed
\* deliveries is reached; it never counts past it, and no delivery is under
\* way over an open circuit (http.py:306-324).
BreakerOpensAtThreshold ==
    /\ openUntil # Closed <=> failures = FailureThreshold
    /\ attempt > 0 => openUntil = Closed

\* While a recovery window lasts nothing is sent, whatever succeeded or
\* expired in between (http.py:208, 306-313).
NothingSentInRecovery == attempt > 0 => now >= quietUntil

\* An endpoint that drops repeated keys sees every delivery exactly once: the
\* requests of a delivery share one key, those of two deliveries never do,
\* also when timed-out requests had arrived (http.py:222-224).
KeysIdentifyDeliveries ==
    \A d, e \in Index : \A k \in received[d], l \in received[e] : k = l <=> d = e

\* Every delivery reported as failed can be replayed from the dead letter file
\* under the key its endpoint may already know, and nothing else can
\* (hooks.py:119, 231).
FailedCanBeReplayed ==
    DeadLetters =>
        \A d \in Index :
            /\ status[d] = "failed" <=> letter[d] # NoKey
            /\ letter[d] # NoKey => received[d] \subseteq {letter[d]}

=============================================================================
