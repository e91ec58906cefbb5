---------------------- MODULE AutomationDelivery_proofs ----------------------
(***************************************************************************)
(* Proofs about AutomationDelivery: its safety properties hold for any     *)
(* number of deliveries and attempts and any breaker and backoff policy.   *)
(***************************************************************************)
EXTENDS AutomationDelivery, TLAPS

-----------------------------------------------------------------------------
(* The inductive invariant. *)

\* A circuit that is not open has no recovery window left to wait for, and the
\* window of an open one ends with it.
RecoveryInv ==
    /\ openUntil = Closed => now >= quietUntil
    /\ openUntil # Closed => openUntil = quietUntil

\* Nothing is known of a delivery before its turn.
OrderInv ==
    \A d \in Index :
        /\ d >= delivery => status[d] = "pending" /\ letter[d] = NoKey
        /\ d > delivery => received[d] = {}
        /\ (d = delivery /\ attempt = 0 /\ ~aborted) => received[d] = {}

\* The delivery under way, and no other, uses the current key.
CurrentKeyInv ==
    attempt > 0 =>
        /\ keys >= 1
        /\ received[delivery] \subseteq {keys}
        /\ \A d \in Index : d # delivery => keys \notin received[d]

IInv ==
    /\ AutomationTypeOK
    /\ BreakerOpensAtThreshold
    /\ RecoveryInv
    /\ OrderInv
    /\ CurrentKeyInv
    /\ KeysIdentifyDeliveries
    /\ FailedCanBeReplayed

-----------------------------------------------------------------------------
\* The time slept between two attempts is a natural number, however large the
\* exponential grows.
LEMMA SleptIsNat ==
    ASSUME NEW n \in Nat \ {0}
    PROVE  Slept(n) \in Nat
<1>1. 2^(n - 1) \in Int
  BY SMT
<1>2. \A x \in Int : BackoffFactor * x \in Int
  BY PolicyAssumption, SMT
<1>3. Backoff(n) \in Int
  BY <1>1, <1>2, PolicyAssumption DEF Backoff
<1> QED
  BY <1>3 DEF Slept

\* Initial states satisfy the invariant.
LEMMA InitInv == Init => IInv
<1> SUFFICES ASSUME Init PROVE IInv
  OBVIOUS
<1> USE PolicyAssumption DEF Init, Closed, NoKey, Index
<1>1. AutomationTypeOK
  <2>1. status \in [Index -> {"pending", "delivered", "failed", "circuit_open"}]
    OBVIOUS
  <2>2. received \in [Index -> SUBSET (1..keys)]
    OBVIOUS
  <2>3. letter \in [Index -> 0..keys]
    OBVIOUS
  <2>4. delivery \in 1..(Deliveries + 1)
    OBVIOUS
  <2>7. openUntil \in Nat \cup {Closed}
    OBVIOUS
  <2>5. /\ now \in Nat /\ keys \in Nat /\ quietUntil \in Nat
        /\ failures \in 0..FailureThreshold /\ attempt \in 0..Attempts
    OBVIOUS
  <2>8. aborted \in BOOLEAN
    BY Zenon
  <2>6. attempt > 0 => delivery \in Index /\ ~aborted
    OBVIOUS
  <2> QED
    BY <2>1, <2>2, <2>3, <2>4, <2>5, <2>6, <2>7, <2>8, Zenon DEF AutomationTypeOK
<1>2. BreakerOpensAtThreshold /\ RecoveryInv
  BY DEF BreakerOpensAtThreshold, RecoveryInv
<1>3. OrderInv /\ CurrentKeyInv
  BY DEF OrderInv, CurrentKeyInv
<1>4. KeysIdentifyDeliveries /\ FailedCanBeReplayed
  BY DEF KeysIdentifyDeliveries, FailedCanBeReplayed
<1> QED
  BY <1>1, <1>2, <1>3, <1>4 DEF IInv

-----------------------------------------------------------------------------
(* The steps.  Each lemma takes one part of the invariant. *)

\* What reaching an endpoint, or not, does to the keys it knows.
LEMMA ReceivedStep ==
    ASSUME AutomationTypeOK, Underway, Reaches \/ IsLost
    PROVE  /\ \A d \in Index : d # delivery => received'[d] = received[d]
           /\ received'[delivery] = received[delivery] \cup {keys}
                  \/ received'[delivery] = received[delivery]
           /\ DOMAIN received' = Index
BY DEF AutomationTypeOK, Underway, Pending, Reaches, IsLost

\* Recording a failure opens the circuit exactly at the threshold.
LEMMA RecordStep ==
    ASSUME AutomationTypeOK, BreakerOpensAtThreshold, Underway,
           NEW t \in Nat, now <= t, RecordFailure(t)
    PROVE  /\ failures' \in 0..FailureThreshold
           /\ openUntil' \in Nat \cup {Closed}
           /\ quietUntil' \in Nat
           /\ openUntil' # Closed <=> failures' = FailureThreshold
           /\ openUntil' # Closed => openUntil' = quietUntil'
           /\ openUntil' = Closed => quietUntil' = quietUntil
BY PolicyAssumption
   DEF AutomationTypeOK, BreakerOpensAtThreshold, Underway, RecordFailure, Closed

\* Every step keeps the types.
LEMMA TypeStep ==
    ASSUME IInv, [Next]_vars
    PROVE  AutomationTypeOK'
<1> USE PolicyAssumption DEF Closed, NoKey, Index, Elapsed
<1>0. AutomationTypeOK /\ BreakerOpensAtThreshold /\ CurrentKeyInv
  BY DEF IInv
<1>1. ASSUME NEW t \in Elapsed, Skip(t) PROVE AutomationTypeOK'
  BY <1>0, <1>1 DEF AutomationTypeOK, Skip, Pending, Report, breakerVars
<1>2. ASSUME NEW t \in Elapsed, Begin(t) PROVE AutomationTypeOK'
  BY <1>0, <1>2 DEF AutomationTypeOK, Begin, Pending, ResetCircuit, breakerVars
<1>3. ASSUME NEW t \in Elapsed, Succeed(t) PROVE AutomationTypeOK'
  BY <1>0, <1>3
     DEF AutomationTypeOK, Succeed, Underway, Pending, ResetCircuit, Reaches,
         Report, CurrentKeyInv
<1>4. ASSUME NEW t \in Elapsed, Retry(t) PROVE AutomationTypeOK'
  <2>1. Slept(attempt) \in Nat
    BY <1>0, <1>4, SleptIsNat DEF Retry, Underway, AutomationTypeOK
  <2>2. now' \in Nat /\ attempt' \in 0..Attempts
    BY <1>0, <1>4, <2>1 DEF AutomationTypeOK, Retry
  <2>3. received' \in [Index -> SUBSET (1..keys)]
    BY <1>0, <1>4
       DEF AutomationTypeOK, Retry, Underway, Reaches, IsLost, CurrentKeyInv
  <2> QED
    BY <1>0, <1>4, <2>2, <2>3
       DEF AutomationTypeOK, Retry, Underway, Pending, breakerVars
<1>5. ASSUME NEW t \in Elapsed, Fail(t) PROVE AutomationTypeOK'
  <2>1. /\ failures' \in 0..FailureThreshold
        /\ openUntil' \in Nat \cup {Closed}
        /\ quietUntil' \in Nat
    BY <1>0, <1>5, RecordStep DEF Fail, GiveUp, AutomationTypeOK
  <2> QED
    BY <1>0, <1>5, <2>1
       DEF AutomationTypeOK, Fail, GiveUp, Underway, Pending, Reaches, IsLost,
           Report, CurrentKeyInv
<1>6. ASSUME NEW t \in Elapsed, FailUnreported(t) PROVE AutomationTypeOK'
  <2>1. /\ failures' \in 0..FailureThreshold
        /\ openUntil' \in Nat \cup {Closed}
        /\ quietUntil' \in Nat
    BY <1>0, <1>6, RecordStep DEF FailUnreported, GiveUp, AutomationTypeOK
  <2> QED
    BY <1>0, <1>6, <2>1
       DEF AutomationTypeOK, FailUnreported, GiveUp, Underway, Pending,
           Reaches, IsLost, CurrentKeyInv
<1>7. CASE UNCHANGED vars
  BY <1>0, <1>7 DEF AutomationTypeOK, vars, breakerVars
<1> QED
  BY <1>1, <1>2, <1>3, <1>4, <1>5, <1>6, <1>7 DEF Next

\* Every step keeps the breaker's count, its state and its quiet time together.
LEMMA BreakerStep ==
    ASSUME IInv, [Next]_vars
    PROVE  BreakerOpensAtThreshold' /\ RecoveryInv'
<1> USE PolicyAssumption DEF Closed, Elapsed
<1>0. AutomationTypeOK /\ BreakerOpensAtThreshold /\ RecoveryInv
  BY DEF IInv
<1>1. ASSUME NEW t \in Elapsed, Skip(t)
      PROVE  BreakerOpensAtThreshold' /\ RecoveryInv'
  BY <1>0, <1>1
     DEF AutomationTypeOK, BreakerOpensAtThreshold, RecoveryInv, Skip, OpenAt,
         Report, breakerVars
<1>2. ASSUME NEW t \in Elapsed, Begin(t)
      PROVE  BreakerOpensAtThreshold' /\ RecoveryInv'
  BY <1>0, <1>2
     DEF AutomationTypeOK, BreakerOpensAtThreshold, RecoveryInv, Begin, OpenAt,
         ResetCircuit, breakerVars
<1>3. ASSUME NEW t \in Elapsed, Succeed(t)
      PROVE  BreakerOpensAtThreshold' /\ RecoveryInv'
  BY <1>0, <1>3
     DEF AutomationTypeOK, BreakerOpensAtThreshold, RecoveryInv, Succeed,
         Underway, ResetCircuit, Report
<1>4. ASSUME NEW t \in Elapsed, Retry(t)
      PROVE  BreakerOpensAtThreshold' /\ RecoveryInv'
  <2>1. Slept(attempt) \in Nat
    BY <1>0, <1>4, SleptIsNat DEF Retry, Underway, AutomationTypeOK
  <2> QED
    BY <1>0, <1>4, <2>1
       DEF AutomationTypeOK, BreakerOpensAtThreshold, RecoveryInv, Retry,
           Underway, breakerVars
<1>5. ASSUME NEW t \in Elapsed, GiveUp(t), attempt' = 0
      PROVE  BreakerOpensAtThreshold' /\ RecoveryInv'
  <2>1. openUntil = Closed /\ now >= quietUntil
    BY <1>0, <1>5
       DEF GiveUp, Underway, BreakerOpensAtThreshold, RecoveryInv, AutomationTypeOK
  <2>2. now' = now + t /\ now + t \in Nat /\ now <= now + t
    BY <1>0, <1>5 DEF GiveUp, AutomationTypeOK
  <2>3. /\ openUntil' # Closed <=> failures' = FailureThreshold
        /\ openUntil' # Closed => openUntil' = quietUntil'
        /\ openUntil' = Closed => quietUntil' = quietUntil
    BY <1>0, <1>5, <2>2, RecordStep DEF GiveUp
  <2> QED
    BY <1>0, <1>5, <2>1, <2>2, <2>3
       DEF AutomationTypeOK, BreakerOpensAtThreshold, RecoveryInv
<1>6. ASSUME NEW t \in Elapsed, Fail(t) \/ FailUnreported(t)
      PROVE  BreakerOpensAtThreshold' /\ RecoveryInv'
  BY <1>5, <1>6 DEF Fail, FailUnreported, Report
<1>7. CASE UNCHANGED vars
  BY <1>0, <1>7 DEF BreakerOpensAtThreshold, RecoveryInv, vars, breakerVars
<1> QED
  BY <1>1, <1>2, <1>3, <1>4, <1>6, <1>7 DEF Next

\* Every step leaves deliveries untouched before their turn.
LEMMA OrderStep ==
    ASSUME IInv, [Next]_vars
    PROVE  OrderInv'
<1> USE PolicyAssumption DEF Index
<1>0. AutomationTypeOK /\ OrderInv
  BY DEF IInv
<1>1. ASSUME NEW t \in Elapsed, Skip(t) PROVE OrderInv'
  BY <1>0, <1>1 DEF AutomationTypeOK, OrderInv, Skip, Pending, Report
<1>2. ASSUME NEW t \in Elapsed, Begin(t) PROVE OrderInv'
  BY <1>0, <1>2 DEF AutomationTypeOK, OrderInv, Begin, Pending
<1>3. ASSUME NEW t \in Elapsed, Succeed(t) PROVE OrderInv'
  BY <1>0, <1>3
     DEF AutomationTypeOK, OrderInv, Succeed, Underway, Pending, Reaches, Report
<1>4. ASSUME NEW t \in Elapsed, Retry(t) PROVE OrderInv'
  BY <1>0, <1>4, ReceivedStep
     DEF AutomationTypeOK, OrderInv, Retry, Underway, Pending
<1>5. ASSUME NEW t \in Elapsed, Fail(t) PROVE OrderInv'
  <2>1. \A d \in Index : d # delivery => received'[d] = received[d]
    BY <1>0, <1>5, ReceivedStep DEF Fail, GiveUp
  <2> QED
    BY <1>0, <1>5, <2>1
       DEF AutomationTypeOK, OrderInv, Fail, GiveUp, Underway, Pending, Report
<1>6. ASSUME NEW t \in Elapsed, FailUnreported(t) PROVE OrderInv'
  <2>1. \A d \in Index : d # delivery => received'[d] = received[d]
    BY <1>0, <1>6, ReceivedStep DEF FailUnreported, GiveUp
  <2> QED
    BY <1>0, <1>6, <2>1
       DEF AutomationTypeOK, OrderInv, FailUnreported, GiveUp
<1>7. CASE UNCHANGED vars
  BY <1>0, <1>7 DEF OrderInv, vars
<1> QED
  BY <1>1, <1>2, <1>3, <1>4, <1>5, <1>6, <1>7 DEF Next

\* While a delivery is under way its requests add only the current key.
LEMMA KeysStep ==
    ASSUME IInv, [Next]_vars
    PROVE  CurrentKeyInv' /\ KeysIdentifyDeliveries'
<1> USE PolicyAssumption DEF Index
<1>0. /\ AutomationTypeOK /\ OrderInv
      /\ CurrentKeyInv /\ KeysIdentifyDeliveries
  BY DEF IInv
<1>1. ASSUME NEW t \in Elapsed, Skip(t)
      PROVE  CurrentKeyInv' /\ KeysIdentifyDeliveries'
  BY <1>0, <1>1 DEF CurrentKeyInv, KeysIdentifyDeliveries, Skip, Report
<1>2. ASSUME NEW t \in Elapsed, Begin(t)
      PROVE  CurrentKeyInv' /\ KeysIdentifyDeliveries'
  <2>1. received[delivery] = {}
    BY <1>0, <1>2 DEF OrderInv, Begin, Pending
  <2>2. \A d \in Index : keys + 1 \notin received[d]
    BY <1>0 DEF AutomationTypeOK
  <2> QED
    BY <1>0, <1>2, <2>1, <2>2
       DEF AutomationTypeOK, CurrentKeyInv, KeysIdentifyDeliveries, Begin
<1>3. ASSUME Underway, Reaches \/ IsLost, UNCHANGED keys
      PROVE  /\ KeysIdentifyDeliveries'
             /\ received'[delivery] \subseteq {keys}
             /\ \A d \in Index : d # delivery => keys \notin received'[d]
  <2>1. /\ \A d \in Index : d # delivery => received'[d] = received[d]
        /\ received'[delivery] \subseteq {keys}
    BY <1>0, <1>3, ReceivedStep DEF CurrentKeyInv, Underway
  <2>2. \A d \in Index : d # delivery => keys \notin received[d]
    BY <1>0, <1>3 DEF CurrentKeyInv, Underway
  <2> QED
    BY <1>0, <1>3, <2>1, <2>2 DEF KeysIdentifyDeliveries
<1>4. ASSUME NEW t \in Elapsed, Succeed(t) \/ Fail(t) \/ FailUnreported(t)
      PROVE  CurrentKeyInv' /\ KeysIdentifyDeliveries'
  <2>1. /\ Underway
        /\ Reaches \/ IsLost
        /\ UNCHANGED keys
        /\ attempt' = 0
    BY <1>4 DEF Succeed, Fail, FailUnreported, GiveUp, Report
  <2> QED
    BY <1>3, <2>1 DEF CurrentKeyInv
<1>5. ASSUME NEW t \in Elapsed, Retry(t)
      PROVE  CurrentKeyInv' /\ KeysIdentifyDeliveries'
  BY <1>0, <1>3, <1>5 DEF CurrentKeyInv, Retry, Underway
<1>6. CASE UNCHANGED vars
  BY <1>0, <1>6 DEF CurrentKeyInv, KeysIdentifyDeliveries, vars
<1> QED
  BY <1>1, <1>2, <1>4, <1>5, <1>6 DEF Next

\* Every step keeps what a failed delivery needs to be replayed.
LEMMA ReplayStep ==
    ASSUME IInv, [Next]_vars
    PROVE  FailedCanBeReplayed'
<1> USE PolicyAssumption DEF Index, NoKey
<1>0. /\ AutomationTypeOK /\ OrderInv
      /\ CurrentKeyInv /\ FailedCanBeReplayed
  BY DEF IInv
<1>1. ASSUME NEW t \in Elapsed, Skip(t) PROVE FailedCanBeReplayed'
  BY <1>0, <1>1
     DEF AutomationTypeOK, OrderInv, FailedCanBeReplayed, Skip, Pending, Report
<1>2. ASSUME NEW t \in Elapsed, Begin(t) PROVE FailedCanBeReplayed'
  BY <1>0, <1>2 DEF FailedCanBeReplayed, Begin
<1>3. ASSUME NEW t \in Elapsed, Succeed(t) PROVE FailedCanBeReplayed'
  <2>1. letter[delivery] = NoKey
    BY <1>0, <1>3 DEF OrderInv, AutomationTypeOK, Succeed, Underway, Pending
  <2> QED
    BY <1>0, <1>3, <2>1
       DEF AutomationTypeOK, FailedCanBeReplayed, Succeed, Underway, Pending,
           Reaches, Report
<1>4. ASSUME NEW t \in Elapsed, Retry(t) \/ FailUnreported(t)
      PROVE  FailedCanBeReplayed'
  <2>1. /\ UNCHANGED <<status, letter>>
        /\ Underway /\ (Reaches \/ IsLost)
    BY <1>4 DEF Retry, FailUnreported, GiveUp
  <2>2. letter[delivery] = NoKey
    BY <1>0, <2>1 DEF OrderInv, AutomationTypeOK, Underway, Pending
  <2>3. \A d \in Index : d # delivery => received'[d] = received[d]
    BY <1>0, <2>1, ReceivedStep
  <2> QED
    BY <1>0, <2>1, <2>2, <2>3 DEF FailedCanBeReplayed
<1>5. ASSUME NEW t \in Elapsed, Fail(t) PROVE FailedCanBeReplayed'
  <2>1. /\ \A d \in Index : d # delivery => received'[d] = received[d]
        /\ received'[delivery] \subseteq {keys}
        /\ keys >= 1
    BY <1>0, <1>5, ReceivedStep DEF CurrentKeyInv, Fail, GiveUp, Underway
  <2>2. CASE DeadLetters
    <3>1. /\ \A d \in Index : d # delivery => letter'[d] = letter[d]
          /\ \A d \in Index : d # delivery => status'[d] = status[d]
          /\ letter'[delivery] = keys
          /\ status'[delivery] = "failed"
      BY <1>0, <1>5, <2>2
         DEF AutomationTypeOK, Fail, GiveUp, Underway, Pending, Report
    <3> QED
      BY <1>0, <2>1, <3>1 DEF AutomationTypeOK, FailedCanBeReplayed
  <2>3. CASE ~DeadLetters
    BY <2>3 DEF FailedCanBeReplayed
  <2> QED
    BY <2>2, <2>3
<1>6. CASE UNCHANGED vars
  BY <1>0, <1>6 DEF FailedCanBeReplayed, vars
<1> QED
  BY <1>1, <1>2, <1>3, <1>4, <1>5, <1>6 DEF Next

-----------------------------------------------------------------------------
(* Theorems *)

\* The invariant holds in every reachable state: a lemma for the theorems below.
THEOREM Invariance == Spec => []IInv
<1>1. IInv /\ [Next]_vars => IInv'
  BY TypeStep, BreakerStep, OrderStep, KeysStep, ReplayStep DEF IInv
<1> QED
  BY InitInv, <1>1, PTL DEF Spec

\* Every variable of the hooks and of the client keeps its type; in particular
\* no delivery makes more attempts than the policy allows (http.py:230) and the
\* count of failures never passes the threshold (http.py:315).
THEOREM TypeCorrect == Spec => []AutomationTypeOK
<1>1. IInv => AutomationTypeOK
  BY DEF IInv
<1> QED
  BY Invariance, <1>1, PTL

\* For every threshold and recovery time the breaker is open exactly at the
\* threshold, and never while a delivery is under way (http.py:306-324).
THEOREM BreakerOpensCorrectly == Spec => []BreakerOpensAtThreshold
<1>1. IInv => BreakerOpensAtThreshold
  BY DEF IInv
<1> QED
  BY Invariance, <1>1, PTL

\* For every policy, no request is sent inside a recovery window (http.py:208).
THEOREM RecoveryIsQuiet == Spec => []NothingSentInRecovery
<1>1. IInv => NothingSentInRecovery
  BY DEF IInv, BreakerOpensAtThreshold, RecoveryInv, NothingSentInRecovery
<1> QED
  BY Invariance, <1>1, PTL

\* For any number of deliveries and attempts, the idempotency keys that reach
\* the endpoints tell the deliveries apart and nothing else (http.py:222).
THEOREM KeysIdentify == Spec => []KeysIdentifyDeliveries
<1>1. IInv => KeysIdentifyDeliveries
  BY DEF IInv
<1> QED
  BY Invariance, <1>1, PTL

\* With dead letters enabled, the file holds exactly the deliveries reported as
\* failed, each under the key its endpoint may know (hooks.py:119, 231).
THEOREM ReplayIsSafe == Spec => []FailedCanBeReplayed
<1>1. IInv => FailedCanBeReplayed
  BY DEF IInv
<1> QED
  BY Invariance, <1>1, PTL
=============================================================================
