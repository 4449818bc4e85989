-------------------------------- MODULE Retry --------------------------------
(***************************************************************************)
(* retry.Execute: one run of a function under a RetryPolicy and a context  *)
(* that may be cancelled at any moment.  The context is looked at before   *)
(* every attempt and during every wait, never while the function runs.     *)
(*                                                                         *)
(* Durations are in clock ticks.  The policy is chosen in the initial      *)
(* state and never changes; the multiplier is a whole number.              *)
(***************************************************************************)
EXTENDS Integers

CONSTANTS
  MaxRetriesBound,   \* bound on MaxRetries
  Backoffs,          \* values of InitialBackoff and MaxBackoff
  Multipliers        \* values of BackoffMultiplier

ASSUME RetryAssumption ==
  /\ MaxRetriesBound \in Nat
  /\ Backoffs \subseteq Nat \ {0}
  /\ Multipliers \subseteq Nat \ {0}

VARIABLES
  policy,      \* the RetryPolicy
  pc,          \* "check", "call", "wait", "done"
  attempt,     \* the loop variable
  calls,       \* history: how often fn was called
  lastErr,     \* what the last call returned: "none", "transient", "fatal"
  wait,        \* how long the present wait lasts
  waited,      \* how much of it has passed
  cancelled,   \* whether the context is done
  late,        \* history: calls started after the context was done
  result       \* what Execute returned: "nil", an error, "cancelled"

vars == <<policy, pc, attempt, calls, lastErr, wait, waited, cancelled, late,
          result>>

(***************************************************************************)
(* MaxRetries may be any int; a negative one makes the loop body           *)
(* unreachable.  RetryableErrors and RetryIf come down to whether every    *)
(* error is retried or only the transient ones.                            *)
(***************************************************************************)
Policy == [MaxRetries : -1 .. MaxRetriesBound,
           InitialBackoff : Backoffs,
           MaxBackoff : Backoffs,
           BackoffMultiplier : Multipliers,
           Jitter : BOOLEAN,
           retryAll : BOOLEAN]

TypeOK ==
  /\ policy \in Policy
  /\ pc \in {"check", "call", "wait", "done"}
  /\ attempt \in 0 .. MaxRetriesBound
  /\ calls \in 0 .. MaxRetriesBound + 1
  /\ lastErr \in {"none", "transient", "fatal"}
  /\ wait \in Nat
  /\ waited \in 0 .. wait
  /\ cancelled \in BOOLEAN
  /\ late \in Nat
  /\ result \in {"none", "nil", "transient", "fatal", "cancelled"}

\* The loop condition is false at once for a negative MaxRetries, and
\* lastErr, still nil, is returned.
Init ==
  /\ policy \in Policy
  /\ attempt = 0 /\ calls = 0 /\ lastErr = "none"
  /\ wait = 0 /\ waited = 0 /\ late = 0
  /\ cancelled \in BOOLEAN
  /\ \/ policy.MaxRetries >= 0 /\ pc = "check" /\ result = "none"
     \/ policy.MaxRetries < 0 /\ pc = "done" /\ result = "nil"
-----------------------------------------------------------------------------
Finish(r) == pc' = "done" /\ result' = r

isRetryable(err) == policy.retryAll \/ err = "transient"

\* if err := ctx.Err(); err != nil
CheckContext ==
  /\ pc = "check"
  /\ \/ cancelled /\ Finish("cancelled")
     \/ ~cancelled /\ pc' = "call" /\ UNCHANGED result
  /\ UNCHANGED <<policy, attempt, calls, lastErr, wait, waited, cancelled,
                 late>>

\* Mutant: the backoff is capped only before it is multiplied again.
BackoffLateCap(attempts) ==
  LET backoff[i \in 0 .. attempts] ==
        IF i = 0 THEN policy.InitialBackoff
        ELSE IF backoff[i - 1] > policy.MaxBackoff THEN policy.MaxBackoff
             ELSE backoff[i - 1] * policy.BackoffMultiplier
  IN  backoff[attempts]

\* The backoff after so many attempts: multiplied, and capped, each time.
Backoff(attempts) ==
  LET backoff[i \in 0 .. attempts] ==
        IF i = 0 THEN policy.InitialBackoff
        ELSE LET b == backoff[i - 1] * policy.BackoffMultiplier
             IN  IF b > policy.MaxBackoff THEN policy.MaxBackoff ELSE b
  IN  backoff[attempts]

\* randInt64(0, b/4): a value of [0, b/4), or 0 when that is empty.
Jitters(b) == IF policy.Jitter /\ b \div 4 > 0 THEN 0 .. b \div 4 - 1 ELSE {0}

\* Mutant: the last attempt is followed by another wait.
MayRetryOnceMore(err) == attempt <= policy.MaxRetries /\ isRetryable(err)

MayRetry(err) == attempt < policy.MaxRetries /\ isRetryable(err)

Called ==
  /\ pc = "call"
  /\ calls' = calls + 1
  /\ late' = IF cancelled THEN late + 1 ELSE late
  /\ UNCHANGED <<policy, attempt, cancelled>>

\* fn returns nil.
CallSucceeds ==
  /\ Called
  /\ lastErr' = "none"
  /\ Finish("nil")
  /\ UNCHANGED <<wait, waited>>

\* fn returns an error.
CallFails ==
  /\ Called
  /\ \E err \in {"transient", "fatal"} :
       /\ lastErr' = err
       /\ \/ /\ ~MayRetry(err)
             /\ Finish(err)
             /\ UNCHANGED <<wait, waited>>
          \/ /\ MayRetry(err)
             /\ \E j \in Jitters(Backoff(attempt)) :
                  wait' = Backoff(attempt) + j
             /\ waited' = 0
             /\ pc' = "wait"
             /\ UNCHANGED result

Tick ==
  /\ pc = "wait" /\ waited < wait
  /\ waited' = waited + 1
  /\ UNCHANGED <<policy, pc, attempt, calls, lastErr, wait, cancelled, late,
                 result>>

\* Mutant: the timer is armed again when it fires.
WaitEndsRearms ==
  /\ pc = "wait" /\ waited >= wait
  /\ waited' = 0
  /\ UNCHANGED <<policy, pc, attempt, calls, lastErr, wait, cancelled, late,
                 result>>

\* case <-time.After(backoff), and attempt++.  When the context is done as
\* well, select may take either case.
WaitEnds ==
  /\ pc = "wait" /\ waited >= wait
  /\ attempt' = attempt + 1
  /\ pc' = "check"
  /\ wait' = 0 /\ waited' = 0
  /\ UNCHANGED <<policy, calls, lastErr, cancelled, late, result>>

\* Mutant: a wait that is cut short is followed by the next attempt.
WaitCancelledContinues ==
  /\ pc = "wait" /\ cancelled
  /\ attempt' = attempt + 1
  /\ pc' = "call"
  /\ wait' = 0 /\ waited' = 0
  /\ UNCHANGED <<policy, calls, lastErr, cancelled, late, result>>

\* case <-ctx.Done()
WaitCancelled ==
  /\ pc = "wait" /\ cancelled
  /\ Finish("cancelled")
  /\ wait' = 0 /\ waited' = 0
  /\ UNCHANGED <<policy, attempt, calls, lastErr, cancelled, late>>

\* The caller cancels, or the deadline expires.
Cancel ==
  /\ ~cancelled
  /\ cancelled' = TRUE
  /\ UNCHANGED <<policy, pc, attempt, calls, lastErr, wait, waited, late,
                 result>>

Execute ==
  \/ CheckContext
  \/ CallSucceeds
  \/ CallFails
  \/ Tick
  \/ WaitEnds
  \/ WaitCancelled

Next == Execute \/ Cancel

Spec == Init /\ [][Next]_vars

\* The function returns and the timer fires.
FairSpec == Spec /\ WF_vars(Execute)
-----------------------------------------------------------------------------
(***************************************************************************)
(* Cancellation is prompt: after the context is done at most one more call *)
(* is started, the one whose check had already passed, even when the timer *)
(* of a wait wins the race against the cancellation.                       *)
(***************************************************************************)
OneLateCall == late <= 1

(***************************************************************************)
(* Execute tells what happened: nil only when the last call succeeded, an  *)
(* error only when it is the error of the last call and either not         *)
(* retryable or the last of MaxRetries + 1 attempts, and a cancellation    *)
(* only of a context that is done.  (A negative MaxRetries is left out:    *)
(* it returns nil without a call.)                                         *)
(***************************************************************************)
ResultJustified ==
  pc = "done" /\ policy.MaxRetries >= 0 =>
    /\ result = "nil" => calls >= 1 /\ lastErr = "none"
    /\ result \in {"transient", "fatal"} =>
         /\ lastErr = result
         /\ ~isRetryable(result) \/ calls = policy.MaxRetries + 1
    /\ result = "cancelled" => cancelled
    /\ calls <= policy.MaxRetries + 1

(***************************************************************************)
(* No wait is longer than a quarter over the larger of the two backoffs:   *)
(* the cap is applied on every multiplication, and jitter comes on top.    *)
(***************************************************************************)
WaitBounded ==
  LET b == IF policy.InitialBackoff > policy.MaxBackoff
           THEN policy.InitialBackoff ELSE policy.MaxBackoff
  IN  wait <= b + b \div 4

(***************************************************************************)
(* Execute returns, provided the function does.                            *)
(***************************************************************************)
Terminates == <>(pc = "done")
=============================================================================
