----------------------------- MODULE BreakerOps -----------------------------
(***************************************************************************)
(* The circuit breaker of package retry as operators on its state record.  *)
(* Every method of retry.CircuitBreaker runs under c.mu, so each operator  *)
(* is one atomic step of whatever specification uses it.                   *)
(*                                                                         *)
(* The field openedAt is kept as openAge, the time elapsed since openedAt, *)
(* saturating at Timeout: the code only ever asks whether                  *)
(* time.Since(openedAt) >= Timeout, and only while the circuit is open.    *)
(***************************************************************************)
EXTENDS Naturals

CONSTANTS
  FailureThreshold,  \* failures recorded while closed that open the circuit
  SuccessThreshold,  \* successes recorded while half-open that close it
  MaxRequests,       \* further requests let through while half-open
  Timeout            \* how long the circuit stays open, in clock ticks

(***************************************************************************)
(* NewCircuitBreaker fixes SuccessThreshold = 2 and MaxRequests = 1, but   *)
(* the fields are exported and may be set to anything.                     *)
(***************************************************************************)
ASSUME BreakerAssumption ==
  /\ FailureThreshold \in Nat \ {0}
  /\ SuccessThreshold \in Nat \ {0}
  /\ MaxRequests \in Nat
  /\ Timeout \in Nat

\* With fewer slots a half-open circuit could never collect the successes
\* that close it.
ASSUME SlotsAssumption == SuccessThreshold <= MaxRequests + 1

Closed   == "closed"
Open     == "open"
HalfOpen == "half-open"

CircuitState == {Closed, Open, HalfOpen}

Breaker == [state     : CircuitState,
            failures  : Nat,
            successes : Nat,
            requests  : Nat,
            openAge   : 0 .. Timeout]

NewCircuitBreaker ==
  [state |-> Closed, failures |-> 0, successes |-> 0, requests |-> 0,
   openAge |-> 0]

TimeoutElapsed(b) == b.openAge >= Timeout

\* One tick of the clock, as time.Since(openedAt) sees it.
Aged(b) ==
  IF b.state = Open /\ ~TimeoutElapsed(b)
  THEN [b EXCEPT !.openAge = @ + 1]
  ELSE b

(***************************************************************************)
(* Allow: whether a request may proceed, and the state it leaves behind.   *)
(* The request that finds the timeout elapsed is let through without being *)
(* counted in requests.                                                    *)
(***************************************************************************)
Admits(b) ==
  \/ b.state = Closed
  \/ b.state = Open /\ TimeoutElapsed(b)
  \/ b.state = HalfOpen /\ b.requests < MaxRequests

\* Mutant: the probe that moves the circuit to half-open takes a slot.
AfterAllowCountsFirst(b) ==
  CASE b.state = Open /\ TimeoutElapsed(b) ->
         [b EXCEPT !.state = HalfOpen, !.successes = 0, !.requests = 1]
    [] b.state = HalfOpen /\ b.requests < MaxRequests ->
         [b EXCEPT !.requests = @ + 1]
    [] OTHER -> b

\* Mutant: requests let through while half-open are not counted.
AfterAllowUncounted(b) ==
  IF b.state = Open /\ TimeoutElapsed(b)
  THEN [b EXCEPT !.state = HalfOpen, !.successes = 0, !.requests = 0]
  ELSE b

AfterAllow(b) ==
  CASE b.state = Open /\ TimeoutElapsed(b) ->
         [b EXCEPT !.state = HalfOpen, !.successes = 0, !.requests = 0]
    [] b.state = HalfOpen /\ b.requests < MaxRequests ->
         [b EXCEPT !.requests = @ + 1]
    [] OTHER -> b

\* Mutant: a success also closes an open circuit.
AfterSuccessClosesOpen(b) ==
  CASE b.state # HalfOpen ->
         [b EXCEPT !.state = Closed, !.failures = 0]
    [] b.state = HalfOpen /\ b.successes + 1 < SuccessThreshold ->
         [b EXCEPT !.successes = @ + 1]
    [] b.state = HalfOpen /\ b.successes + 1 >= SuccessThreshold ->
         [b EXCEPT !.state = Closed, !.failures = 0, !.successes = 0,
                   !.requests = 0]

\* Mutant: one success more than the threshold is needed to close.
AfterSuccessOffByOne(b) ==
  CASE b.state = Closed -> [b EXCEPT !.failures = 0]
    [] b.state = HalfOpen /\ b.successes < SuccessThreshold ->
         [b EXCEPT !.successes = @ + 1]
    [] b.state = HalfOpen /\ b.successes >= SuccessThreshold ->
         [b EXCEPT !.state = Closed, !.failures = 0, !.successes = 0,
                   !.requests = 0]
    [] OTHER -> b

\* Mutant: a success gives back a half-open slot, whoever took it.
AfterSuccessReleasesSlot(b) ==
  CASE b.state = Closed -> [b EXCEPT !.failures = 0]
    [] b.state = HalfOpen /\ b.successes + 1 < SuccessThreshold ->
         [b EXCEPT !.successes = @ + 1, !.requests = @ - 1]
    [] b.state = HalfOpen /\ b.successes + 1 >= SuccessThreshold ->
         [b EXCEPT !.state = Closed, !.failures = 0, !.successes = 0,
                   !.requests = 0]
    [] OTHER -> b

\* Success: the outcome of a request that returned no error.  While the
\* circuit is open the outcome of a request admitted earlier is dropped.
AfterSuccess(b) ==
  CASE b.state = Closed -> [b EXCEPT !.failures = 0]
    [] b.state = HalfOpen /\ b.successes + 1 < SuccessThreshold ->
         [b EXCEPT !.successes = @ + 1]
    [] b.state = HalfOpen /\ b.successes + 1 >= SuccessThreshold ->
         [b EXCEPT !.state = Closed, !.failures = 0, !.successes = 0,
                   !.requests = 0]
    [] OTHER -> b

\* Mutant: a failure arriving while open starts the timeout again.
AfterFailureExtendsOpen(b) ==
  IF b.state = Closed /\ b.failures + 1 < FailureThreshold
  THEN [b EXCEPT !.failures = @ + 1]
  ELSE [b EXCEPT !.state = Open, !.openAge = 0]

\* Failure: the outcome of a request that returned an error.
AfterFailure(b) ==
  CASE b.state = Closed /\ b.failures + 1 < FailureThreshold ->
         [b EXCEPT !.failures = @ + 1]
    [] b.state = Closed /\ b.failures + 1 >= FailureThreshold ->
         [b EXCEPT !.failures = @ + 1, !.state = Open, !.openAge = 0]
    [] b.state = HalfOpen ->
         [b EXCEPT !.state = Open, !.openAge = 0, !.successes = 0,
                   !.requests = 0]
    [] OTHER -> b

\* Reset: manually closes the circuit.
AfterReset(b) ==
  [b EXCEPT !.state = Closed, !.failures = 0, !.successes = 0,
            !.requests = 0]
=============================================================================
