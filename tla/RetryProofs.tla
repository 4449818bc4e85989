---------------------------- MODULE RetryProofs ----------------------------
(***************************************************************************)
(* Proofs about Retry, for every bound on MaxRetries, every set of         *)
(* backoffs and every whole multiplier: the state is well typed, at most   *)
(* one call starts after the context is done, Execute returns only what it *)
(* can justify, and no wait exceeds the cap and its jitter.                *)
(***************************************************************************)
EXTENDS Retry, WellFoundedInduction, TLAPS

(***************************************************************************)
(* The larger of the two backoffs of the policy: InitialBackoff is not     *)
(* capped, so a first wait may be longer than MaxBackoff.                  *)
(***************************************************************************)
Cap == IF policy.InitialBackoff > policy.MaxBackoff
       THEN policy.InitialBackoff ELSE policy.MaxBackoff

(***************************************************************************)
(* The loop: one call per attempt, and a wait only where another attempt   *)
(* is left.                                                                *)
(***************************************************************************)
CallsMatchAttempts ==
  /\ pc # "done" => policy.MaxRetries >= 0
  /\ pc \in {"check", "call"} => calls = attempt /\ attempt <= policy.MaxRetries
  /\ pc = "wait" => calls = attempt + 1 /\ attempt < policy.MaxRetries
  /\ pc = "done" /\ policy.MaxRetries >= 0 => calls <= policy.MaxRetries + 1

(***************************************************************************)
(* A late call is one that started under a done context; the context was   *)
(* live at the check before it, so no other late call went before.         *)
(***************************************************************************)
LateOnce ==
  /\ late \in {0, 1}
  /\ late = 1 => cancelled /\ pc # "call"

\* The inductive invariant.
IInv ==
  /\ TypeOK
  /\ CallsMatchAttempts
  /\ LateOnce
  /\ WaitBounded
  /\ ResultJustified
-----------------------------------------------------------------------------
(***************************************************************************)
(* Induction over the natural numbers, for a set: the least number outside *)
(* it would have a predecessor inside.                                     *)
(***************************************************************************)
LEMMA NatSetInduction ==
  ASSUME NEW S, 0 \in S, \A n \in Nat : n \in S => n + 1 \in S
  PROVE  Nat \subseteq S
<1> DEFINE T == Nat \ S
<1>1. SUFFICES ASSUME T # {} PROVE FALSE
  OBVIOUS
<1>2. PICK x \in T : \A y \in T : ~(<<y, x>> \in OpToRel(<, Nat))
  <2>1. T \subseteq Nat
    OBVIOUS
  <2> QED BY <1>1, <2>1, NatLessThanWellFounded, WFMin, Zenon
<1>3. x \in Nat /\ x # 0 /\ x \notin S
  OBVIOUS
<1>4. x - 1 \in Nat /\ x - 1 < x
  BY <1>3
<1>5. x - 1 \notin T
  <2> SUFFICES ASSUME x - 1 \in T PROVE FALSE
    OBVIOUS
  <2>1. <<x - 1, x>> \notin OpToRel(<, Nat)
    BY <1>2
  <2>2. <<x - 1, x>> \in OpToRel(<, Nat)
    BY <1>3, <1>4, Zenon DEF OpToRel
  <2> QED BY <2>1, <2>2
<1> QED
  BY <1>3, <1>4, <1>5

(***************************************************************************)
(* The numbers of a policy are numbers of the kind the code expects.       *)
(***************************************************************************)
LEMMA PolicyNumbers ==
  ASSUME policy \in Policy
  PROVE  /\ policy.MaxRetries \in Int /\ policy.MaxRetries <= MaxRetriesBound
         /\ policy.InitialBackoff \in Nat \ {0}
         /\ policy.MaxBackoff \in Nat \ {0}
         /\ policy.BackoffMultiplier \in Nat \ {0}
<1>1. /\ policy.MaxRetries \in -1 .. MaxRetriesBound
      /\ policy.InitialBackoff \in Backoffs
      /\ policy.MaxBackoff \in Backoffs
      /\ policy.BackoffMultiplier \in Multipliers
  BY Zenon DEF Policy
<1>2. policy.MaxRetries \in Int /\ policy.MaxRetries <= MaxRetriesBound
  BY <1>1, RetryAssumption
<1>3. /\ policy.InitialBackoff \in Nat \ {0}
      /\ policy.MaxBackoff \in Nat \ {0}
      /\ policy.BackoffMultiplier \in Nat \ {0}
  BY <1>1, RetryAssumption, Zenon
<1> QED BY <1>2, <1>3

(***************************************************************************)
(* b is the sequence of backoffs that the loop of Execute goes through in  *)
(* n rounds.                                                               *)
(***************************************************************************)
Rounds(b, n) ==
  b = [i \in 0 .. n |->
        IF i = 0 THEN policy.InitialBackoff
        ELSE LET next == b[i - 1] * policy.BackoffMultiplier
             IN  IF next > policy.MaxBackoff THEN policy.MaxBackoff ELSE next]

(***************************************************************************)
(* The recursion of Backoff has a solution, whatever the number of rounds. *)
(***************************************************************************)
LEMMA RoundsExist == \A n \in Nat : \E b : Rounds(b, n)
<1> DEFINE S == {n \in Nat : \E b : Rounds(b, n)}
<1>1. 0 \in S
  <2> DEFINE b == [i \in 0 .. 0 |-> policy.InitialBackoff]
  <2>1. Rounds(b, 0)
    BY DEF Rounds
  <2> QED BY <2>1
<1>2. ASSUME NEW n \in Nat, n \in S PROVE n + 1 \in S
  <2>1. PICK b : Rounds(b, n)
    BY <1>2
  <2> DEFINE c == [i \in 0 .. n + 1 |->
                    IF i = 0 THEN policy.InitialBackoff
                    ELSE LET next == b[i - 1] * policy.BackoffMultiplier
                         IN  IF next > policy.MaxBackoff
                             THEN policy.MaxBackoff ELSE next]
  <2>2. \A i \in 0 .. n : c[i] = b[i]
    BY <2>1 DEF Rounds
  <2>3. \A i \in 0 .. n + 1 : i # 0 => i - 1 \in 0 .. n
    OBVIOUS
  <2>4. \A i \in 0 .. n + 1 : i # 0 => c[i - 1] = b[i - 1]
    BY <2>2, <2>3
  <2>5. Rounds(c, n + 1)
    BY <2>4 DEF Rounds
  <2> QED BY <2>5
<1> HIDE DEF S
<1>3. Nat \subseteq S
  BY <1>1, <1>2, NatSetInduction, Zenon
<1> QED BY <1>3 DEF S

(***************************************************************************)
(* Every backoff is positive and at most the larger of InitialBackoff and  *)
(* MaxBackoff, after any number of attempts.                               *)
(***************************************************************************)
LEMMA BackoffBounded ==
  ASSUME policy \in Policy, NEW n \in Nat
  PROVE  Backoff(n) \in Nat \ {0} /\ Backoff(n) <= Cap
<1> DEFINE b == CHOOSE f : Rounds(f, n)
<1>1. Rounds(b, n)
  BY RoundsExist
<1>2. Backoff(n) = b[n]
  BY DEF Backoff, Rounds
<1>3. /\ policy.InitialBackoff \in Nat \ {0}
      /\ policy.MaxBackoff \in Nat \ {0}
      /\ policy.BackoffMultiplier \in Nat \ {0}
  BY PolicyNumbers
<1> DEFINE S == {k \in Nat : k <= n => b[k] \in Nat \ {0} /\ b[k] <= Cap}
<1> HIDE DEF b
<1>4. 0 \in S
  BY <1>1, <1>3 DEF Rounds, Cap
<1>5. ASSUME NEW k \in Nat, k \in S PROVE k + 1 \in S
  <2> SUFFICES ASSUME k + 1 <= n
               PROVE  b[k + 1] \in Nat \ {0} /\ b[k + 1] <= Cap
    OBVIOUS
  <2> DEFINE next == b[k] * policy.BackoffMultiplier
  <2>1. b[k] \in Nat \ {0}
    BY <1>5
  <2>2. b[k + 1] = IF next > policy.MaxBackoff THEN policy.MaxBackoff ELSE next
    BY <1>1 DEF Rounds
  <2>3. next \in Nat \ {0}
    BY <1>3, <2>1
  <2> HIDE DEF next
  <2> QED BY <1>3, <2>2, <2>3 DEF Cap
<1> HIDE DEF S
<1>6. Nat \subseteq S
  BY <1>4, <1>5, NatSetInduction, Zenon
<1> QED BY <1>2, <1>6 DEF S

(***************************************************************************)
(* Jitter adds at most a quarter.                                          *)
(***************************************************************************)
LEMMA JitterBounded ==
  ASSUME NEW b \in Nat, NEW j \in Jitters(b)
  PROVE  j \in Nat /\ j <= b \div 4
BY DEF Jitters

(***************************************************************************)
(* A quarter of a larger number is not smaller.                            *)
(***************************************************************************)
LEMMA QuarterMonotone ==
  ASSUME NEW a \in Nat, NEW b \in Nat, a <= b
  PROVE  a \div 4 \in Nat /\ a \div 4 <= b \div 4
OBVIOUS
-----------------------------------------------------------------------------
(***************************************************************************)
(* The invariant holds where Execute starts.                               *)
(***************************************************************************)
LEMMA InitIInv == Init => IInv
<1> SUFFICES ASSUME Init PROVE IInv
  OBVIOUS
<1>1. /\ policy.MaxRetries \in Int
      /\ policy.InitialBackoff \in Nat \ {0}
      /\ policy.MaxBackoff \in Nat \ {0}
  BY PolicyNumbers DEF Init
<1>2. TypeOK
  BY RetryAssumption DEF Init, TypeOK
<1>3. CallsMatchAttempts
  BY <1>1 DEF Init, CallsMatchAttempts
<1>4. LateOnce /\ ResultJustified
  BY <1>1 DEF Init, LateOnce, ResultJustified
<1>5. WaitBounded
  BY <1>1 DEF Init, WaitBounded
<1> QED BY <1>2, <1>3, <1>4, <1>5 DEF IInv

(***************************************************************************)
(* Every step keeps the invariant: the check of the context, a call that   *)
(* succeeds or fails, the wait and its two ends, and the cancellation.     *)
(***************************************************************************)
LEMMA NextIInv == IInv /\ [Next]_vars => IInv'
<1> SUFFICES ASSUME IInv, [Next]_vars PROVE IInv'
  OBVIOUS
<1> USE DEF IInv
<1>0. /\ policy \in Policy
      /\ policy.MaxRetries \in Int /\ policy.MaxRetries <= MaxRetriesBound
      /\ policy.InitialBackoff \in Nat \ {0}
      /\ policy.MaxBackoff \in Nat \ {0}
  BY PolicyNumbers DEF TypeOK
<1>1. CASE CheckContext
  <2>1. TypeOK'
    BY <1>1 DEF CheckContext, Finish, TypeOK
  <2>2. CallsMatchAttempts'
    BY <1>0, <1>1 DEF CheckContext, Finish, TypeOK, CallsMatchAttempts
  <2>3. LateOnce' /\ WaitBounded'
    BY <1>1 DEF CheckContext, Finish, TypeOK, LateOnce, WaitBounded
  <2>4. ResultJustified'
    BY <1>0, <1>1 DEF CheckContext, Finish, TypeOK, CallsMatchAttempts,
                      ResultJustified, isRetryable
  <2> QED BY <2>1, <2>2, <2>3, <2>4
<1>2. CASE CallSucceeds
  <2>1. TypeOK'
    <3>1. calls' \in 0 .. MaxRetriesBound + 1
      BY <1>0, <1>2, RetryAssumption
         DEF CallSucceeds, Called, TypeOK, CallsMatchAttempts
    <3>2. late' \in Nat
      BY <1>2 DEF CallSucceeds, Called, LateOnce
    <3> QED BY <1>2, <3>1, <3>2, Zenon
               DEF CallSucceeds, Called, Finish, TypeOK
  <2>2. CallsMatchAttempts'
    BY <1>0, <1>2 DEF CallSucceeds, Called, Finish, TypeOK, CallsMatchAttempts
  <2>3. LateOnce' /\ WaitBounded'
    BY <1>2 DEF CallSucceeds, Called, Finish, TypeOK, LateOnce, WaitBounded
  <2>4. ResultJustified'
    BY <1>0, <1>2 DEF CallSucceeds, Called, Finish, TypeOK,
                      CallsMatchAttempts, ResultJustified
  <2> QED BY <2>1, <2>2, <2>3, <2>4
<1>3. CASE CallFails
  <2>0. PICK err \in {"transient", "fatal"} :
          /\ lastErr' = err
          /\ \/ /\ ~MayRetry(err)
                /\ Finish(err)
                /\ UNCHANGED <<wait, waited>>
             \/ /\ MayRetry(err)
                /\ \E j \in Jitters(Backoff(attempt)) :
                     wait' = Backoff(attempt) + j
                /\ waited' = 0
                /\ pc' = "wait"
                /\ UNCHANGED result
    BY <1>3 DEF CallFails
  <2>1. Called
    BY <1>3 DEF CallFails
  <2>2. CASE ~MayRetry(err)
    <3>1. TypeOK'
      <4>1. calls' \in 0 .. MaxRetriesBound + 1
        BY <1>0, <2>1, RetryAssumption DEF Called, TypeOK, CallsMatchAttempts
      <4>2. late' \in Nat
        BY <2>1 DEF Called, LateOnce
      <4> QED BY <2>0, <2>1, <2>2, <4>1, <4>2, Zenon DEF Called, Finish, TypeOK
    <3>2. CallsMatchAttempts'
      BY <1>0, <2>0, <2>1, <2>2 DEF Called, Finish, TypeOK, CallsMatchAttempts
    <3>3. LateOnce' /\ WaitBounded'
      BY <2>0, <2>1, <2>2 DEF Called, Finish, TypeOK, LateOnce, WaitBounded
    <3>4. ResultJustified'
      BY <1>0, <2>0, <2>1, <2>2 DEF Called, Finish, TypeOK, MayRetry,
           isRetryable, CallsMatchAttempts, ResultJustified
    <3> QED BY <3>1, <3>2, <3>3, <3>4
  <2>3. CASE MayRetry(err)
    <3>1. PICK j \in Jitters(Backoff(attempt)) : wait' = Backoff(attempt) + j
      BY <2>0, <2>3
    <3>2. Backoff(attempt) \in Nat \ {0} /\ Backoff(attempt) <= Cap
      BY <1>0, BackoffBounded DEF TypeOK
    <3>3. j \in Nat /\ j <= Backoff(attempt) \div 4
      BY <3>2, JitterBounded
    <3>4. Cap \in Nat
      BY <1>0 DEF Cap
    <3>5. /\ Backoff(attempt) \div 4 \in Nat
          /\ Backoff(attempt) \div 4 <= Cap \div 4
      BY <3>2, <3>4, QuarterMonotone
    <3>6. wait' \in Nat /\ wait' <= Cap + Cap \div 4
      BY <3>1, <3>2, <3>3, <3>4, <3>5
    <3>7. /\ pc' = "wait" /\ waited' = 0
          /\ attempt < policy.MaxRetries
          /\ UNCHANGED result
      BY <2>0, <2>3 DEF MayRetry
    <3>8. TypeOK'
      <4>1. calls' \in 0 .. MaxRetriesBound + 1
        BY <1>0, <2>1, RetryAssumption DEF Called, TypeOK, CallsMatchAttempts
      <4>2. late' \in Nat
        BY <2>1 DEF Called, LateOnce
      <4>3. waited' \in 0 .. wait'
        BY <3>6, <3>7
      <4> QED BY <2>0, <2>1, <3>6, <3>7, <4>1, <4>2, <4>3, Zenon
                 DEF Called, TypeOK
    <3>9. CallsMatchAttempts'
      BY <1>0, <2>1, <3>7 DEF Called, TypeOK, CallsMatchAttempts
    <3>10. WaitBounded'
      BY <2>1, <3>6 DEF Called, WaitBounded, Cap
    <3>11. LateOnce' /\ ResultJustified'
      BY <2>1, <3>7 DEF Called, TypeOK, LateOnce, ResultJustified
    <3> QED BY <3>8, <3>9, <3>10, <3>11
  <2> QED BY <2>2, <2>3
<1>4. CASE Tick
  BY <1>0, <1>4 DEF Tick, TypeOK, CallsMatchAttempts, LateOnce, WaitBounded,
                    ResultJustified
<1>5. CASE WaitEnds
  <2>1. CallsMatchAttempts'
    BY <1>0, <1>5 DEF WaitEnds, TypeOK, CallsMatchAttempts
  <2>4. TypeOK'
    <3>1. /\ attempt' \in 0 .. MaxRetriesBound
          /\ wait' \in Nat /\ waited' \in 0 .. wait'
      BY <1>0, <1>5, RetryAssumption DEF WaitEnds, TypeOK, CallsMatchAttempts
    <3> QED BY <1>5, <3>1, Zenon DEF WaitEnds, TypeOK
  <2>2. LateOnce' /\ ResultJustified'
    BY <1>5 DEF WaitEnds, TypeOK, LateOnce, ResultJustified
  <2>3. WaitBounded'
    BY <1>0, <1>5 DEF WaitEnds, WaitBounded
  <2> QED BY <2>1, <2>2, <2>3, <2>4
<1>6. CASE WaitCancelled
  <2>1. TypeOK' /\ CallsMatchAttempts'
    BY <1>0, <1>6 DEF WaitCancelled, Finish, TypeOK, CallsMatchAttempts
  <2>2. LateOnce' /\ ResultJustified'
    BY <1>0, <1>6 DEF WaitCancelled, Finish, TypeOK, CallsMatchAttempts,
                      LateOnce, ResultJustified
  <2>3. WaitBounded'
    BY <1>0, <1>6 DEF WaitCancelled, WaitBounded
  <2> QED BY <2>1, <2>2, <2>3
<1>7. CASE Cancel
  <2>1. TypeOK' /\ CallsMatchAttempts'
    BY <1>7 DEF Cancel, TypeOK, CallsMatchAttempts
  <2>2. LateOnce' /\ WaitBounded' /\ ResultJustified'
    BY <1>7 DEF Cancel, TypeOK, LateOnce, WaitBounded, ResultJustified,
                isRetryable
  <2> QED BY <2>1, <2>2
<1>8. CASE UNCHANGED vars
  <2>1. TypeOK' /\ CallsMatchAttempts' /\ LateOnce'
    BY <1>8 DEF vars, TypeOK, CallsMatchAttempts, LateOnce
  <2>2. WaitBounded' /\ ResultJustified'
    BY <1>8 DEF vars, WaitBounded, ResultJustified, isRetryable
  <2> QED BY <2>1, <2>2
<1> QED
  BY <1>1, <1>2, <1>3, <1>4, <1>5, <1>6, <1>7, <1>8 DEF Next, Execute

(***************************************************************************)
(* The invariant holds throughout every run of Execute.                    *)
(***************************************************************************)
THEOREM Invariance == Spec => []IInv
<1> QED BY InitIInv, NextIInv, PTL DEF Spec

(***************************************************************************)
(* The state is well typed: in particular attempt never exceeds MaxRetries *)
(* and fn is called at most once more than that, however the context and   *)
(* the timer race.                                                         *)
(***************************************************************************)
THEOREM TypeCorrect == Spec => []TypeOK
<1>1. IInv => TypeOK
  BY DEF IInv
<1> QED BY <1>1, Invariance, PTL

(***************************************************************************)
(* Cancellation is prompt: at most one call starts after the context is    *)
(* done.                                                                   *)
(***************************************************************************)
THEOREM CancellationPrompt == Spec => []OneLateCall
<1>1. IInv => OneLateCall
  BY DEF IInv, LateOnce, OneLateCall
<1> QED BY <1>1, Invariance, PTL

(***************************************************************************)
(* What Execute returns is what happened: nil after a success, the last    *)
(* error when it may not be retried or no attempt is left, a cancellation  *)
(* only of a context that is done.                                         *)
(***************************************************************************)
THEOREM ReturnsJustified == Spec => []ResultJustified
<1>1. IInv => ResultJustified
  BY DEF IInv
<1> QED BY <1>1, Invariance, PTL

(***************************************************************************)
(* No wait exceeds the larger of the two backoffs and its quarter.         *)
(***************************************************************************)
THEOREM WaitsBounded == Spec => []WaitBounded
<1>1. IInv => WaitBounded
  BY DEF IInv
<1> QED BY <1>1, Invariance, PTL
=============================================================================
