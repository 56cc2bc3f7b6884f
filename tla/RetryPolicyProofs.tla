-------------------------- MODULE RetryPolicyProofs --------------------------
(***************************************************************************)
(* Theorems about RetryPolicy for any set of callers and any threshold,    *)
(* recovery time and number of retries.                                    *)
(***************************************************************************)
EXTENDS RetryPolicy, TLAPS

\* TypeOK alone is not inductive: the loop counter stays within max_retries
\* only because a caller never sleeps after its last attempt.
RetryLeft == \A c \in Caller : pc[c] = "backoff" => attempt[c] < MaxRetries

IInv == TypeOK /\ RetryLeft /\ CountDecidesState

\* No step of a caller, of a reader of the status or of the clock breaks the
\* types, the bound of the retry loop or the meaning of the failure count.
LEMMA StepKeepsIInv == IInv /\ [Next]_vars => IInv'
<1> SUFFICES ASSUME IInv, [Next]_vars PROVE IInv'
  OBVIOUS
<1> USE RetryAssumption
     DEF IInv, TypeOK, RetryLeft, CountDecidesState, BreakerState, Position, breaker, Move
<1>1. ASSUME NEW c \in Caller, Call(c) PROVE IInv'
  BY <1>1 DEF Call
<1>2. ASSUME NEW c \in Caller, Admit(c) PROVE IInv'
  BY <1>2 DEF Admit, CanExecute
<1>3. ASSUME NEW c \in Caller, Refuse(c) PROVE IInv'
  BY <1>3 DEF Refuse, Refused, RecordFailure, Bump
<1>4. ASSUME NEW c \in Caller, Succeed(c) PROVE IInv'
  BY <1>4 DEF Succeed, RecordSuccess
<1>5. ASSUME NEW c \in Caller, Retry(c) PROVE IInv'
  BY <1>5 DEF Retry
<1>6. ASSUME NEW c \in Caller, GiveUp(c) PROVE IInv'
  BY <1>6 DEF GiveUp, RecordFailure, Bump
<1>7. ASSUME NEW c \in Caller, Wake(c) PROVE IInv'
  BY <1>7 DEF Wake
<1>8. ASSUME NEW c \in Caller, Cancel(c) PROVE IInv'
  BY <1>8 DEF Cancel
<1>9. CASE ReadStatus
  BY <1>9 DEF ReadStatus, CanExecute
<1>10. CASE Tick
  BY <1>10 DEF Tick, Recovered
<1>11. CASE UNCHANGED vars
  BY <1>11 DEF vars
<1>12. QED
  BY <1>1, <1>2, <1>3, <1>4, <1>5, <1>6, <1>7, <1>8, <1>9, <1>10, <1>11 DEF Next, Step

LEMMA Invariance == Spec => []IInv
<1>1. Init => IInv
  BY RetryAssumption DEF Init, IInv, TypeOK, RetryLeft, CountDecidesState, BreakerState, Position
<1>2. QED
  BY <1>1, StepKeepsIInv, PTL DEF Spec

\* The breaker and the retry loops keep their types: no failure count passes
\* its bound and no caller makes more than max_retries + 1 attempts.
THEOREM TypeCorrect == Spec => []TypeOK
<1>1. IInv => TypeOK
  BY DEF IInv
<1>2. QED
  BY <1>1, Invariance, PTL

\* The breaker is closed exactly while fewer failures than the threshold are
\* on record, whatever the number of concurrent callers.
THEOREM CountDecides == Spec => []CountDecidesState
<1>1. IInv => CountDecidesState
  BY DEF IInv
<1>2. QED
  BY <1>1, Invariance, PTL

\* An open or half-open breaker closes on the success of an admitted call and
\* on nothing else.
THEOREM ClosingTakesASuccess == Spec => OnlySuccessCloses
<1> DEFINE Closes ==
      state # "CLOSED" /\ state' = "CLOSED" =>
        \E c \in Caller : pc[c] = "calling" /\ pc'[c] = "idle" /\ failure_count' = 0
<1>1. IInv /\ [Next]_vars => [Closes]_vars
  <2> SUFFICES ASSUME IInv, Next, state # "CLOSED", state' = "CLOSED"
               PROVE  \E c \in Caller : pc[c] = "calling" /\ pc'[c] = "idle" /\ failure_count' = 0
    BY DEF vars
  <2>1. PICK c \in Caller : Succeed(c)
    BY RetryAssumption DEF Next, Step, Call, Admit, Refuse, Refused, Retry, GiveUp, Wake, Cancel, ReadStatus, Tick,
       CanExecute, RecordFailure, breaker, IInv, TypeOK, BreakerState, CountDecidesState, Bump
  <2>2. pc[c] = "calling" /\ pc'[c] = "idle" /\ failure_count' = 0
    BY <2>1 DEF Succeed, Move, RecordSuccess, IInv, TypeOK
  <2>3. QED
    BY <2>2
<1>2. QED
  BY <1>1, Invariance, PTL DEF Spec, OnlySuccessCloses
=============================================================================
