------------------------ MODULE CircuitBreakerProofs ------------------------
(***************************************************************************)
(* Proofs about CircuitBreaker, for every number of callers and every      *)
(* setting of the breaker's fields that BreakerAssumption allows.          *)
(***************************************************************************)
EXTENDS CircuitBreaker, FiniteSetTheorems, TLAPS

(***************************************************************************)
(* What the half-open state maintains.  Every call let through in this     *)
(* period (requests + 1 of them) is still running, was counted as a        *)
(* success, or was lost; successes may also come from calls of earlier     *)
(* periods, hence the inequality.                                          *)
(***************************************************************************)
HalfOpenInv ==
  breaker.state = HalfOpen =>
    /\ breaker.requests <= MaxRequests
    /\ breaker.successes < SuccessThreshold
    /\ Cardinality(probes) <= breaker.requests + 1
    /\ Cardinality(probes) + breaker.successes + lost >= breaker.requests + 1

\* A probe is a running call, and there are none outside half-open.
ProbesInv ==
  /\ \A c \in probes : Running(c)
  /\ breaker.state # HalfOpen => probes = {}

\* openAge and the independent count of ticks agree while open.
OpenInv == breaker.state = Open => breaker.openAge = openTicks

ClosedInv == breaker.state = Closed => breaker.failures < FailureThreshold

IInv == TypeOK /\ HalfOpenInv /\ ProbesInv /\ OpenInv /\ ClosedInv

USE DEF Closed, Open, HalfOpen, CircuitState

-----------------------------------------------------------------------------
\* The updates of several fields at once that the methods make are typed.
LEMMA StateUpdatesTyped ==
  ASSUME NEW b \in Breaker
  PROVE  /\ [b EXCEPT !.state = HalfOpen, !.successes = 0, !.requests = 0]
              \in Breaker
         /\ [b EXCEPT !.state = Closed, !.failures = 0, !.successes = 0,
                      !.requests = 0] \in Breaker
BY Zenon DEF Breaker

LEMMA OpenUpdatesTyped ==
  ASSUME NEW b \in Breaker
  PROVE  /\ [b EXCEPT !.failures = b.failures + 1, !.state = Open,
                      !.openAge = 0] \in Breaker
         /\ [b EXCEPT !.state = Open, !.openAge = 0, !.successes = 0,
                      !.requests = 0] \in Breaker
<1>1. 0 \in 0 .. Timeout
  BY BreakerAssumption
<1>2. b.failures + 1 \in Nat
  BY DEF Breaker
<1> QED
  BY <1>1, <1>2, Zenon DEF Breaker

\* What each operator returns, field by field.
LEMMA AllowFacts ==
  ASSUME NEW b \in Breaker, Admits(b)
  PROVE  /\ AfterAllow(b) \in Breaker
         /\ b.state = Closed => AfterAllow(b) = b
         /\ b.state = Open =>
              /\ b.openAge = Timeout
              /\ AfterAllow(b).state = HalfOpen
              /\ AfterAllow(b).successes = 0
              /\ AfterAllow(b).requests = 0
         /\ b.state = HalfOpen =>
              /\ b.requests < MaxRequests
              /\ AfterAllow(b).state = HalfOpen
              /\ AfterAllow(b).successes = b.successes
              /\ AfterAllow(b).requests = b.requests + 1
<1> USE BreakerAssumption DEF Breaker
<1>1. CASE b.state = Closed
  BY <1>1 DEF AfterAllow
<1>2. CASE b.state = Open
  <2>1. TimeoutElapsed(b) /\ b.openAge = Timeout
    BY <1>2 DEF Admits, TimeoutElapsed
  <2>2. AfterAllow(b) = [b EXCEPT !.state = HalfOpen, !.successes = 0,
                                  !.requests = 0]
    BY <1>2, <2>1 DEF AfterAllow
  <2>3. AfterAllow(b) \in Breaker
    <3> HIDE DEF Breaker
    <3> QED
      BY <2>2, StateUpdatesTyped, Zenon
  <2>4. /\ AfterAllow(b).state = HalfOpen
        /\ AfterAllow(b).successes = 0
        /\ AfterAllow(b).requests = 0
    BY <2>2
  <2> QED
    BY <1>2, <2>1, <2>3, <2>4
<1>3. CASE b.state = HalfOpen
  <2>1. b.requests < MaxRequests
    BY <1>3 DEF Admits
  <2>2. AfterAllow(b) = [b EXCEPT !.requests = b.requests + 1]
    BY <1>3, <2>1 DEF AfterAllow
  <2> QED
    BY <1>3, <2>1, <2>2
<1> QED
  BY <1>1, <1>2, <1>3

\* Success never opens a circuit, and moves it only from half-open to closed.
LEMMA SuccessFacts ==
  ASSUME NEW b \in Breaker
  PROVE  /\ AfterSuccess(b) \in Breaker
         /\ b.state = Closed => /\ AfterSuccess(b).state = Closed
                                /\ AfterSuccess(b).failures = 0
         /\ b.state = Open => AfterSuccess(b) = b
         /\ b.state = HalfOpen =>
              \/ /\ b.successes + 1 < SuccessThreshold
                 /\ AfterSuccess(b).state = HalfOpen
                 /\ AfterSuccess(b).successes = b.successes + 1
                 /\ AfterSuccess(b).requests = b.requests
              \/ /\ AfterSuccess(b).state = Closed
                 /\ AfterSuccess(b).failures = 0
<1> USE BreakerAssumption DEF Breaker
<1>1. CASE b.state = Closed
  BY <1>1 DEF AfterSuccess
<1>2. CASE b.state = Open
  BY <1>2 DEF AfterSuccess
<1>3. CASE b.state = HalfOpen /\ b.successes + 1 < SuccessThreshold
  <2>1. AfterSuccess(b) = [b EXCEPT !.successes = b.successes + 1]
    BY <1>3 DEF AfterSuccess
  <2> QED
    BY <1>3, <2>1
<1>4. CASE b.state = HalfOpen /\ b.successes + 1 >= SuccessThreshold
  <2>1. AfterSuccess(b) = [b EXCEPT !.state = Closed, !.failures = 0,
                                    !.successes = 0, !.requests = 0]
    BY <1>4 DEF AfterSuccess
  <2>2. AfterSuccess(b) \in Breaker
    <3> HIDE DEF Breaker
    <3> QED
      BY <2>1, StateUpdatesTyped, Zenon
  <2>3. AfterSuccess(b).state = Closed /\ AfterSuccess(b).failures = 0
    BY <2>1
  <2> QED
    BY <1>4, <2>2, <2>3
<1> QED
  BY <1>1, <1>2, <1>3, <1>4

\* Failure never leaves the circuit half-open.
LEMMA FailureFacts ==
  ASSUME NEW b \in Breaker
  PROVE  /\ AfterFailure(b) \in Breaker
         /\ b.state = Closed =>
              \/ /\ AfterFailure(b).state = Closed
                 /\ AfterFailure(b).failures < FailureThreshold
              \/ /\ AfterFailure(b).state = Open
                 /\ AfterFailure(b).openAge = 0
         /\ b.state = Open => AfterFailure(b) = b
         /\ b.state = HalfOpen => /\ AfterFailure(b).state = Open
                                  /\ AfterFailure(b).openAge = 0
<1> USE BreakerAssumption DEF Breaker
<1>1. CASE b.state = Closed /\ b.failures + 1 < FailureThreshold
  <2>1. AfterFailure(b) = [b EXCEPT !.failures = b.failures + 1]
    BY <1>1 DEF AfterFailure
  <2> QED
    BY <1>1, <2>1
<1>2. CASE b.state = Closed /\ b.failures + 1 >= FailureThreshold
  <2>1. AfterFailure(b) = [b EXCEPT !.failures = b.failures + 1,
                                    !.state = Open, !.openAge = 0]
    BY <1>2 DEF AfterFailure
  <2>2. AfterFailure(b) \in Breaker
    <3> HIDE DEF Breaker
    <3> QED
      BY <2>1, OpenUpdatesTyped, Zenon
  <2>3. AfterFailure(b).state = Open /\ AfterFailure(b).openAge = 0
    BY <2>1
  <2> QED
    BY <1>2, <2>2, <2>3
<1>3. CASE b.state = Open
  BY <1>3 DEF AfterFailure
<1>4. CASE b.state = HalfOpen
  <2>1. AfterFailure(b) = [b EXCEPT !.state = Open, !.openAge = 0,
                                    !.successes = 0, !.requests = 0]
    BY <1>4 DEF AfterFailure
  <2>2. AfterFailure(b) \in Breaker
    <3> HIDE DEF Breaker
    <3> QED
      BY <2>1, OpenUpdatesTyped, Zenon
  <2>3. AfterFailure(b).state = Open /\ AfterFailure(b).openAge = 0
    BY <2>1
  <2> QED
    BY <1>4, <2>2, <2>3
<1> QED
  BY <1>1, <1>2, <1>3, <1>4

LEMMA AgedFacts ==
  ASSUME NEW b \in Breaker
  PROVE  /\ Aged(b) \in Breaker
         /\ Aged(b).state = b.state
         /\ Aged(b).failures = b.failures
         /\ Aged(b).successes = b.successes
         /\ Aged(b).requests = b.requests
         /\ b.state = Open =>
              Aged(b).openAge = IF b.openAge < Timeout THEN b.openAge + 1
                                                       ELSE b.openAge
BY BreakerAssumption DEF Aged, TimeoutElapsed, Breaker

LEMMA ResetFacts ==
  ASSUME NEW b \in Breaker
  PROVE  /\ AfterReset(b) \in Breaker
         /\ AfterReset(b).state = Closed
         /\ AfterReset(b).failures = 0
BY BreakerAssumption DEF AfterReset, Breaker

\* The cardinalities of the set of probes that the steps need.
LEMMA ProbeCounts ==
  ASSUME NEW P \in SUBSET Callers, NEW c \in Callers
  PROVE  /\ Cardinality(P) \in Nat
         /\ Cardinality({}) = 0
         /\ Cardinality({c}) = 1
         /\ c \notin P => Cardinality(P \cup {c}) = Cardinality(P) + 1
         /\ c \in P => Cardinality(P \ {c}) = Cardinality(P) - 1
         /\ c \notin P => Cardinality(P \ {c}) = Cardinality(P)
<1>1. IsFiniteSet(P)
  BY CallersAssumption, FS_Subset
<1>2. Cardinality(P) \in Nat /\ Cardinality({}) = 0
  BY <1>1, FS_CardinalityType, FS_EmptySet
<1>3. Cardinality({c}) = 1
  BY FS_Singleton
<1>4. c \notin P => Cardinality(P \cup {c}) = Cardinality(P) + 1
  BY <1>1, FS_AddElement
<1>5. c \in P => Cardinality(P \ {c}) = Cardinality(P) - 1
  BY <1>1, FS_RemoveElement
<1>6. c \notin P => P \ {c} = P
  OBVIOUS
<1> QED
  BY <1>2, <1>3, <1>4, <1>5, <1>6
-----------------------------------------------------------------------------
LEMMA InitIInv == Init => IInv
BY BreakerAssumption
   DEF Init, IInv, TypeOK, HalfOpenInv, ProbesInv, OpenInv, ClosedInv,
       NewCircuitBreaker, Breaker, CallState, EngineState

LEMMA StartKeepsIInv ==
  ASSUME IInv, NEW c \in Callers, Start(c)
  PROVE  IInv'
<1> USE BreakerAssumption DEF IInv, TypeOK, Start
<1>1. AfterAllow(breaker) \in Breaker
  BY AllowFacts
<1>2. TypeOK'
  <2>1. call' \in [Callers -> CallState]
    BY DEF CallState
  <2>2. probes' \subseteq Callers
    BY DEF Breaker
  <2> QED
    BY <1>1, <2>1, <2>2
<1>3. ProbesInv'
  BY AllowFacts DEF ProbesInv, Running, CallState, Breaker
<1>4. OpenInv' /\ ClosedInv'
  BY AllowFacts DEF OpenInv, ClosedInv, Breaker
<1>5. HalfOpenInv'
  <2>1. CASE breaker.state = Closed
    BY <2>1, AllowFacts DEF HalfOpenInv
  <2>2. CASE breaker.state = Open
    <3>1. /\ breaker'.successes = 0
          /\ breaker'.requests = 0
          /\ lost' = 0
      BY <2>2, AllowFacts
    <3>2. Cardinality(probes') = 1
      BY <2>2, ProbeCounts
    <3> HIDE DEF Start, IInv, TypeOK
    <3> QED
      BY <3>1, <3>2 DEF HalfOpenInv
  <2>3. CASE breaker.state = HalfOpen
    <3>1. c \notin probes
      BY DEF ProbesInv
    <3>2. /\ breaker'.state = HalfOpen
          /\ breaker'.successes = breaker.successes
          /\ breaker'.requests = breaker.requests + 1
          /\ breaker.requests < MaxRequests
          /\ lost' = lost
      BY <2>3, AllowFacts
    <3>3. Cardinality(probes') = Cardinality(probes) + 1
      BY <2>3, <3>1, ProbeCounts
    <3>4. Cardinality(probes) \in Nat
      BY ProbeCounts
    <3>5. /\ breaker.requests \in Nat
          /\ breaker.successes \in Nat
      BY DEF Breaker
    <3> QED
      BY <2>3, <3>2, <3>3, <3>4, <3>5 DEF HalfOpenInv
  <2> QED
    BY <2>1, <2>2, <2>3 DEF Breaker
<1> QED
  BY <1>2, <1>3, <1>4, <1>5

\* A call that leaves the set of probes changes its size by at most one.
LEMMA SucceedKeepsIInv ==
  ASSUME IInv, NEW c \in Callers, Succeed(c)
  PROVE  IInv'
<1> USE BreakerAssumption DEF IInv, TypeOK, Succeed
<1>1. AfterSuccess(breaker) \in Breaker
  BY SuccessFacts
<1>2. TypeOK'
  BY <1>1 DEF CallState, ProbesAfterReturn, OpenTicksFollow
<1>3. ProbesInv'
  BY DEF ProbesInv, ProbesAfterReturn, Running
<1>4. OpenInv' /\ ClosedInv'
  BY SuccessFacts
     DEF OpenInv, ClosedInv, Breaker, OpenTicksFollow, Opens
<1>5. HalfOpenInv'
  <2> SUFFICES ASSUME breaker'.state = HalfOpen
               PROVE  HalfOpenInv'
    BY DEF HalfOpenInv
  <2>1. /\ breaker.state = HalfOpen
        /\ breaker.successes + 1 < SuccessThreshold
        /\ breaker'.successes = breaker.successes + 1
        /\ breaker'.requests = breaker.requests
    BY SuccessFacts DEF Breaker
  <2>2. /\ probes' = probes \ {c}
        /\ lost' = lost
    BY DEF ProbesAfterReturn
  <2>3. /\ Cardinality(probes) \in Nat
        /\ \/ Cardinality(probes') = Cardinality(probes)
           \/ Cardinality(probes') = Cardinality(probes) - 1
    <3>1. CASE c \in probes
      BY <2>2, <3>1, ProbeCounts
    <3>2. CASE c \notin probes
      <4>1. probes' = probes
        BY <2>2, <3>2
      <4> QED
        BY <4>1, ProbeCounts
    <3> QED
      BY <3>1, <3>2
  <2>4. /\ breaker.requests \in Nat
        /\ breaker.successes \in Nat
    BY DEF Breaker
  <2> QED
    BY <2>1, <2>2, <2>3, <2>4 DEF HalfOpenInv
<1> QED
  BY <1>2, <1>3, <1>4, <1>5

LEMMA FailKeepsIInv ==
  ASSUME IInv, NEW c \in Callers, Fail(c)
  PROVE  IInv'
<1> USE BreakerAssumption DEF IInv, TypeOK, Fail
<1>1. /\ AfterFailure(breaker) \in Breaker
      /\ AfterFailure(breaker).state # HalfOpen
  BY FailureFacts DEF Breaker
<1>2. TypeOK'
  BY <1>1 DEF CallState, ProbesAfterReturn, OpenTicksFollow
<1>3. ProbesInv' /\ HalfOpenInv'
  BY <1>1 DEF ProbesInv, HalfOpenInv, ProbesAfterReturn
<1>4. OpenInv' /\ ClosedInv'
  BY FailureFacts
     DEF OpenInv, ClosedInv, Breaker, OpenTicksFollow, Opens
<1> QED
  BY <1>2, <1>3, <1>4

LEMMA PanicKeepsIInv ==
  ASSUME IInv, NEW c \in Callers, Panic(c)
  PROVE  IInv'
<1> USE BreakerAssumption DEF IInv, TypeOK, Panic
<1>1. TypeOK'
  BY DEF CallState
<1>2. ProbesInv'
  BY DEF ProbesInv, Running
<1>3. OpenInv' /\ ClosedInv'
  BY DEF OpenInv, ClosedInv
<1>4. HalfOpenInv'
  <2>1. /\ breaker.requests \in Nat
        /\ breaker.successes \in Nat
    BY DEF Breaker
  <2>2. Cardinality(probes) \in Nat
    BY ProbeCounts
  <2>3. CASE c \in probes
    <3>1. Cardinality(probes') = Cardinality(probes) - 1 /\ lost' = lost + 1
      BY <2>3, ProbeCounts
    <3> QED
      BY <2>1, <2>2, <3>1 DEF HalfOpenInv
  <2>4. CASE c \notin probes
    <3>1. probes' = probes /\ lost' = lost
      BY <2>4
    <3> QED
      BY <3>1 DEF HalfOpenInv
  <2> QED
    BY <2>3, <2>4
<1> QED
  BY <1>1, <1>2, <1>3, <1>4

LEMMA ResetKeepsIInv ==
  ASSUME IInv, Reset
  PROVE  IInv'
BY BreakerAssumption, ResetFacts
   DEF IInv, TypeOK, Reset, HalfOpenInv, ProbesInv, OpenInv, ClosedInv

LEMMA TickKeepsIInv ==
  ASSUME IInv, Tick
  PROVE  IInv'
<1> USE BreakerAssumption DEF IInv, TypeOK, Tick
<1>1. TypeOK'
  BY AgedFacts
<1>2. ProbesInv' /\ HalfOpenInv' /\ ClosedInv'
  BY AgedFacts DEF ProbesInv, HalfOpenInv, ClosedInv, Running
<1>3. OpenInv'
  BY AgedFacts DEF OpenInv
<1> QED
  BY <1>1, <1>2, <1>3

LEMMA EngineRecoversKeepsIInv ==
  ASSUME IInv, EngineRecovers
  PROVE  IInv'
BY DEF IInv, TypeOK, EngineRecovers, EngineState, HalfOpenInv, ProbesInv,
       OpenInv, ClosedInv, Running

LEMMA NextKeepsIInv == IInv /\ [Next]_vars => IInv'
<1> SUFFICES ASSUME IInv, [Next]_vars
             PROVE  IInv'
  OBVIOUS
<1>1. ASSUME NEW c \in Callers, Execute(c)
      PROVE  IInv'
  <2>1. CASE Start(c)
    BY <2>1, StartKeepsIInv
  <2>2. CASE Refuse(c)
    BY <2>2 DEF Refuse, vars, IInv, TypeOK, HalfOpenInv, ProbesInv, OpenInv,
                ClosedInv, Running
  <2> QED
    BY <1>1, <2>1, <2>2 DEF Execute
<1>2. ASSUME NEW c \in Callers, Return(c)
      PROVE  IInv'
  BY <1>2, SucceedKeepsIInv, FailKeepsIInv, PanicKeepsIInv DEF Return
<1>3. CASE UNCHANGED vars
  BY <1>3 DEF vars, IInv, TypeOK, HalfOpenInv, ProbesInv, OpenInv, ClosedInv,
              Running
<1> QED
  BY <1>1, <1>2, <1>3, ResetKeepsIInv, TickKeepsIInv, EngineRecoversKeepsIInv
     DEF Next

LEMMA IInvAlways == Spec => []IInv
BY InitIInv, NextKeepsIInv, PTL DEF Spec
-----------------------------------------------------------------------------
\* Every variable keeps its type in every execution of the breaker.
THEOREM TypeCorrect == Spec => []TypeOK
BY IInvAlways, PTL DEF IInv

\* The half-open circuit never has more than MaxRequests + 1 probes running.
THEOREM ProbesBounded == Spec => []ProbeBound
<1>1. IInv => ProbeBound
  <2> SUFFICES ASSUME IInv, breaker.state = HalfOpen
               PROVE  Cardinality(probes) <= MaxRequests + 1
    BY DEF ProbeBound
  <2>1. Cardinality(probes) \in Nat
    BY CallersAssumption, FS_Subset, FS_CardinalityType DEF IInv, TypeOK
  <2> QED
    BY <2>1, BreakerAssumption DEF IInv, TypeOK, HalfOpenInv, Breaker
<1> QED
  BY <1>1, IInvAlways, PTL

\* A half-open circuit that refuses requests still has a probe to wait for,
\* unless a panic lost one.
THEOREM NeverWedged == Spec => []NoWedge
<1>1. IInv => NoWedge
  <2> SUFFICES ASSUME IInv, breaker.state = HalfOpen, ~Admits(breaker),
                      probes = {}, ~(lost > 0)
               PROVE  FALSE
    BY DEF NoWedge
  <2>1. breaker.requests = MaxRequests
    BY BreakerAssumption DEF IInv, TypeOK, HalfOpenInv, Admits, Breaker
  <2>2. Cardinality(probes) = 0
    BY FS_EmptySet
  <2>3. lost = 0
    BY DEF IInv, TypeOK
  <2> QED
    BY <2>1, <2>2, <2>3, BreakerAssumption, SlotsAssumption
       DEF IInv, TypeOK, HalfOpenInv, Breaker
<1> QED
  BY <1>1, IInvAlways, PTL

\* No count passes the threshold that acts on it.
THEOREM CountsBounded == Spec => []CountsBelowThresholds
<1>1. IInv => CountsBelowThresholds
  BY DEF IInv, ClosedInv, HalfOpenInv, CountsBelowThresholds
<1> QED
  BY <1>1, IInvAlways, PTL

\* The circuit is open for no longer than Timeout once a request arrives.
THEOREM OpenEnds == Spec => []OpenNotExtended
<1>1. IInv => OpenNotExtended
  BY DEF IInv, TypeOK, OpenInv, OpenNotExtended, Admits, TimeoutElapsed
<1> QED
  BY <1>1, IInvAlways, PTL

\* The circuit is open for no less than Timeout, unless it is Reset.
THEOREM OpenHolds == Spec => OpenLastsTimeout
<1> DEFINE Leaves == breaker.state = Open /\ breaker'.state # Open
<1> DEFINE Due == breaker'.state = HalfOpen /\ openTicks >= Timeout
<1>1. IInv /\ [Next]_vars => [Leaves => Reset \/ Due]_vars
  <2> SUFFICES ASSUME IInv, Next, Leaves
               PROVE  Reset \/ Due
    BY DEF vars
  <2> USE DEF IInv, TypeOK
  <2>1. ASSUME NEW c \in Callers, Execute(c)
        PROVE  Due
    BY <2>1, AllowFacts, BreakerAssumption
       DEF Execute, Start, Refuse, vars, OpenInv
  <2>2. ASSUME NEW c \in Callers, Return(c)
        PROVE  FALSE
    BY <2>2, SuccessFacts, FailureFacts DEF Return, Succeed, Fail, Panic
  <2>3. ASSUME Tick
        PROVE  FALSE
    BY <2>3, AgedFacts DEF Tick
  <2>4. ASSUME EngineRecovers
        PROVE  FALSE
    BY <2>4 DEF EngineRecovers
  <2> QED
    BY <2>1, <2>2, <2>3, <2>4 DEF Next
<1> QED
  BY <1>1, IInvAlways, PTL DEF Spec, OpenLastsTimeout
=============================================================================
