----------------------------- MODULE RetryPolicy -----------------------------
(***************************************************************************)
(* The retry loop and the circuit breaker that guard every call to one LLM *)
(* provider (app/services/retry_policy.py).  One LLMRetryManager serves    *)
(* all the requests of a process, so several callers share the breaker:    *)
(* a step below runs from one await (or sleep) of a caller to the next,    *)
(* which is the granularity at which asyncio interleaves them.             *)
(*                                                                         *)
(* Time is the age of the breaker's last recorded failure, in ticks, and   *)
(* stops counting at RecoveryTimeout: the code only ever compares          *)
(* time.time() - last_failure_time with recovery_timeout.                  *)
(***************************************************************************)
EXTENDS Naturals

CONSTANTS
  Caller,            \* concurrent users of one provider
  FailureThreshold,  \* failures that open the breaker
  RecoveryTimeout,   \* ticks after which an open breaker lets a call through
  MaxRetries,        \* retries after the first attempt
  CountCap           \* bound on failure_count, which the code never bounds

ASSUME RetryAssumption ==
  /\ FailureThreshold \in Nat \ {0}
  /\ RecoveryTimeout \in Nat \ {0}
  /\ MaxRetries \in Nat
  /\ CountCap \in Nat /\ CountCap >= FailureThreshold

VARIABLES
  state,          \* CircuitBreaker.state
  failure_count,  \* CircuitBreaker.failure_count, counted up to CountCap
  quiet,          \* ticks since last_failure_time, counted up to RecoveryTimeout
  pc,             \* where each caller's execute_with_retry stands
  attempt,        \* loop counter of each caller
  permit          \* breaker state each caller was admitted in

breaker == <<state, failure_count, quiet>>
vars == <<state, failure_count, quiet, pc, attempt, permit>>

BreakerState == {"CLOSED", "OPEN", "HALF_OPEN"}

\* "idle": no call in progress; "gate": about to ask can_execute;
\* "calling": the provider is working; "backoff": asleep before a retry.
Position == {"idle", "gate", "calling", "backoff"}

Init ==
  /\ state = "CLOSED"
  /\ failure_count = 0
  /\ quiet = RecoveryTimeout
  /\ pc = [c \in Caller |-> "idle"]
  /\ attempt = [c \in Caller |-> 0]
  /\ permit = [c \in Caller |-> "CLOSED"]

-----------------------------------------------------------------------------
(* CircuitBreaker                                                          *)

Bump(n) == IF n < CountCap THEN n + 1 ELSE n

\* Slip: the comparison with the threshold off by one.
RecordFailureLate ==
  /\ failure_count' = Bump(failure_count)
  /\ quiet' = 0
  /\ state' = IF failure_count > FailureThreshold THEN "OPEN" ELSE state

RecordFailure ==
  /\ failure_count' = Bump(failure_count)
  /\ quiet' = 0
  /\ state' = IF failure_count' >= FailureThreshold THEN "OPEN" ELSE state

RecordSuccess ==
  /\ failure_count' = 0
  /\ state' = "CLOSED"
  /\ UNCHANGED quiet

Recovered == quiet >= RecoveryTimeout

\* Slip: an elapsed recovery time closes the breaker at once.
CanExecuteCloses ==
  /\ state = "OPEN" => Recovered
  /\ state' = IF state = "OPEN" THEN "CLOSED" ELSE state
  /\ failure_count' = IF state = "OPEN" THEN 0 ELSE failure_count
  /\ UNCHANGED quiet

\* can_execute answering TRUE; the open breaker turns HALF_OPEN on the way.
CanExecute ==
  /\ state = "OPEN" => Recovered
  /\ state' = IF state = "OPEN" THEN "HALF_OPEN" ELSE state
  /\ UNCHANGED <<failure_count, quiet>>

Refused == state = "OPEN" /\ ~Recovered

-----------------------------------------------------------------------------
(* LLMRetryManager.execute_with_retry, one caller                          *)

Move(c, from, to) ==
  /\ pc[c] = from
  /\ pc' = [pc EXCEPT ![c] = to]

Call(c) ==
  /\ Move(c, "idle", "gate")
  /\ attempt' = [attempt EXCEPT ![c] = 0]
  /\ UNCHANGED <<breaker, permit>>

Admit(c) ==
  /\ Move(c, "gate", "calling")
  /\ CanExecute
  /\ permit' = [permit EXCEPT ![c] = state']
  /\ UNCHANGED attempt

\* The refusal is itself a non-retryable LLMError raised inside the try, so
\* its handler counts it as one more failure of the provider.
Refuse(c) ==
  /\ Refused
  /\ Move(c, "gate", "idle")
  /\ RecordFailure
  /\ UNCHANGED <<attempt, permit>>

Succeed(c) ==
  /\ Move(c, "calling", "idle")
  /\ RecordSuccess
  /\ UNCHANGED <<attempt, permit>>

\* A retryable error before the last attempt: sleep, record nothing.
Retry(c) ==
  /\ attempt[c] < MaxRetries
  /\ Move(c, "calling", "backoff")
  /\ UNCHANGED <<breaker, attempt, permit>>

\* A non-retryable or unknown error, or the last attempt failing.
GiveUp(c) ==
  /\ Move(c, "calling", "idle")
  /\ RecordFailure
  /\ UNCHANGED <<attempt, permit>>

\* Slip: a while loop that forgets to count its attempts.
WakeUncounted(c) ==
  /\ Move(c, "backoff", "gate")
  /\ UNCHANGED <<breaker, attempt, permit>>

Wake(c) ==
  /\ Move(c, "backoff", "gate")
  /\ attempt' = [attempt EXCEPT ![c] = @ + 1]
  /\ UNCHANGED <<breaker, permit>>

\* The request is cancelled while it waits: CancelledError is no Exception, so
\* neither handler runs and nothing is recorded.
Cancel(c) ==
  /\ pc[c] \in {"calling", "backoff"}
  /\ pc' = [pc EXCEPT ![c] = "idle"]
  /\ UNCHANGED <<breaker, attempt, permit>>

\* get_status asks can_execute too, so reading the status may half-open.
ReadStatus ==
  /\ CanExecute
  /\ UNCHANGED <<pc, attempt, permit>>

Tick ==
  /\ ~Recovered
  /\ quiet' = quiet + 1
  /\ UNCHANGED <<state, failure_count, pc, attempt, permit>>

-----------------------------------------------------------------------------
Step(c) == Admit(c) \/ Refuse(c) \/ Succeed(c) \/ Retry(c) \/ GiveUp(c) \/ Wake(c)

Next ==
  \/ \E c \in Caller : Call(c) \/ Step(c) \/ Cancel(c)
  \/ ReadStatus
  \/ Tick

\* The event loop resumes every caller, provider calls time out, the clock runs.
Fairness == (\A c \in Caller : WF_vars(Step(c))) /\ WF_vars(Tick)

Spec == Init /\ [][Next]_vars /\ Fairness

-----------------------------------------------------------------------------
(* Correctness                                                             *)

TypeOK ==
  /\ state \in BreakerState
  /\ failure_count \in 0..CountCap
  /\ quiet \in 0..RecoveryTimeout
  /\ pc \in [Caller -> Position]
  /\ attempt \in [Caller -> 0..MaxRetries]
  /\ permit \in [Caller -> BreakerState]

\* The breaker is closed exactly while fewer failures than the threshold have
\* been recorded since the last success: half-opening keeps the count, so one
\* failed trial call is enough to open it again.
CountDecidesState == state = "CLOSED" <=> failure_count < FailureThreshold

\* An open or half-open breaker closes only on the success of a call that was
\* let through: no clock tick, refusal, status read or failed call closes it.
OnlySuccessCloses ==
  [][state # "CLOSED" /\ state' = "CLOSED" =>
       \E c \in Caller : pc[c] = "calling" /\ pc'[c] = "idle" /\ failure_count' = 0]_vars

\* Every caller gets its result or its error: the loop around the provider
\* ends, however its attempts interleave with those of other callers.
CallsEnd == \A c \in Caller : pc[c] = "gate" ~> pc[c] = "idle"

\* What the comment in can_execute says of HALF_OPEN: one trial call at most
\* is in progress.  (The code lets every caller through.)
OneTrialCall ==
  \A c, d \in Caller :
    pc[c] = "calling" /\ pc[d] = "calling" /\ permit[c] = "HALF_OPEN" /\ permit[d] = "HALF_OPEN" => c = d

\* What the class docstring says of the breaker: it blocks temporarily.  While
\* callers keep coming, an open breaker lets one of them through at last.  (The
\* code records a refusal as a failure, so steady traffic keeps it open.)
BlocksTemporarily ==
  (\A c \in Caller : []<>(pc[c] = "gate")) => (state = "OPEN" ~> state # "OPEN")

=============================================================================
