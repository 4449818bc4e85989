--------------------------- MODULE CircuitBreaker ---------------------------
(***************************************************************************)
(* One retry.CircuitBreaker shared by concurrent callers of Execute, and   *)
(* the engine behind it.  Execute takes the breaker's lock twice: once in  *)
(* Allow, before fn runs, and once in Success or Failure, after it.  What  *)
(* happens in between is not protected: other callers come and go, the     *)
(* circuit opens and half-opens, time passes, and the outcome that a call  *)
(* finally records may belong to a state the breaker left long ago.        *)
(***************************************************************************)
EXTENDS BreakerOps, FiniteSets

CONSTANT Callers   \* goroutines that call Execute, one call at a time each

ASSUME CallersAssumption == IsFiniteSet(Callers)

VARIABLES
  breaker,    \* the CircuitBreaker's fields
  call,       \* what each caller is doing, see CallState
  engine,     \* whether calls to the engine may fail
  probes,     \* history: running calls admitted in this half-open period
  lost,       \* history: calls of this half-open period that panicked
  openTicks   \* history: ticks since the circuit last opened, up to Timeout

vars == <<breaker, call, engine, probes, lost, openTicks>>

(***************************************************************************)
(* A call that has passed Allow is "exposed" when it reached the engine    *)
(* while the engine could still fail, and "safe" when it reached it        *)
(* afterwards.                                                             *)
(***************************************************************************)
CallState == {"idle", "exposed", "safe"}

EngineState == {"failing", "recovered"}

TypeOK ==
  /\ breaker \in Breaker
  /\ call \in [Callers -> CallState]
  /\ engine \in EngineState
  /\ probes \subseteq Callers
  /\ lost \in Nat
  /\ openTicks \in 0 .. Timeout

Init ==
  /\ breaker = NewCircuitBreaker
  /\ call = [c \in Callers |-> "idle"]
  /\ engine = "failing"
  /\ probes = {}
  /\ lost = 0
  /\ openTicks = 0
-----------------------------------------------------------------------------
Running(c) == call[c] # "idle"

(***************************************************************************)
(* The bookkeeping of the history variables, from the breaker's state      *)
(* before and after a step and the calls running after it.                 *)
(***************************************************************************)
Opens == breaker.state # Open /\ breaker'.state = Open

OpenTicksFollow == openTicks' = IF Opens THEN 0 ELSE openTicks

\* Execute: Allow lets the call through and fn starts.
Start(c) ==
  /\ ~Running(c)
  /\ Admits(breaker)
  /\ breaker' = AfterAllow(breaker)
  /\ call' = [call EXCEPT ![c] = IF engine = "failing" THEN "exposed"
                                                       ELSE "safe"]
  /\ probes' = CASE breaker.state = Closed   -> probes
                 [] breaker.state = Open     -> {c}
                 [] breaker.state = HalfOpen -> probes \cup {c}
  /\ lost' = IF breaker.state = Open THEN 0 ELSE lost
  /\ UNCHANGED <<engine, openTicks>>

\* Execute: Allow refuses, and ErrCircuitOpen is returned at once.
Refuse(c) ==
  /\ ~Running(c)
  /\ ~Admits(breaker)
  /\ UNCHANGED vars

\* Probes that remain after the step, once c's call has returned.
ProbesAfterReturn(c) ==
  IF breaker'.state = HalfOpen THEN probes \ {c} ELSE {}

\* Execute: fn returns nil and Success is recorded.
Succeed(c) ==
  /\ Running(c)
  /\ breaker' = AfterSuccess(breaker)
  /\ call' = [call EXCEPT ![c] = "idle"]
  /\ probes' = ProbesAfterReturn(c)
  /\ OpenTicksFollow
  /\ UNCHANGED <<engine, lost>>

\* Execute: fn returns an error (the engine's, or the expiry of a deadline
\* or a cancellation by the client) and Failure is recorded.
Fail(c) ==
  /\ call[c] = "exposed"
  /\ breaker' = AfterFailure(breaker)
  /\ call' = [call EXCEPT ![c] = "idle"]
  /\ probes' = ProbesAfterReturn(c)
  /\ OpenTicksFollow
  /\ UNCHANGED <<engine, lost>>

(***************************************************************************)
(* fn panics (EngineClient.Forward does, on some registered addresses).    *)
(* Execute defers nothing, so neither Success nor Failure is recorded, and *)
(* net/http recovers the panic and keeps serving.                          *)
(***************************************************************************)
Panic(c) ==
  /\ call[c] = "exposed"
  /\ call' = [call EXCEPT ![c] = "idle"]
  /\ probes' = probes \ {c}
  /\ lost' = IF c \in probes THEN lost + 1 ELSE lost
  /\ UNCHANGED <<breaker, engine, openTicks>>

\* Reset, at any moment.
Reset ==
  /\ breaker' = AfterReset(breaker)
  /\ probes' = {}
  /\ UNCHANGED <<call, engine, lost, openTicks>>

\* The clock.
Tick ==
  /\ breaker' = Aged(breaker)
  /\ openTicks' = IF breaker.state = Open /\ openTicks < Timeout
                  THEN openTicks + 1 ELSE openTicks
  /\ UNCHANGED <<call, engine, probes, lost>>

\* From here on the calls that reach the engine return no error.
EngineRecovers ==
  /\ engine = "failing"
  /\ engine' = "recovered"
  /\ UNCHANGED <<breaker, call, probes, lost, openTicks>>

Execute(c) == Start(c) \/ Refuse(c)

Return(c) == Succeed(c) \/ Fail(c) \/ Panic(c)

Next ==
  \/ \E c \in Callers : Execute(c) \/ Return(c)
  \/ Reset
  \/ Tick
  \/ EngineRecovers

Spec == Init /\ [][Next]_vars

(***************************************************************************)
(* Fairness: the clock runs; every call returns, since the gateway gives   *)
(* the request a deadline; and requests keep arriving.  Reset is not fair: *)
(* nothing in the gateway calls it.                                        *)
(***************************************************************************)
Fairness ==
  /\ WF_vars(Tick)
  /\ \A c \in Callers : WF_vars(Return(c)) /\ WF_vars(Start(c))

FairSpec == Spec /\ Fairness
-----------------------------------------------------------------------------
(***************************************************************************)
(* While the circuit is half-open, at most MaxRequests + 1 of the calls    *)
(* admitted in this half-open period are running: Allow lets through one   *)
(* probe when it half-opens the circuit and MaxRequests after it, whatever *)
(* calls of earlier periods return in the meantime.                        *)
(***************************************************************************)
ProbeBound ==
  breaker.state = HalfOpen => Cardinality(probes) <= MaxRequests + 1

(***************************************************************************)
(* A half-open circuit that refuses requests is waiting for a probe that   *)
(* is still running, or has lost the outcome of one to a panic.  Without   *)
(* this the breaker would refuse every request for ever: in half-open,     *)
(* Allow has no timeout to fall back on.                                   *)
(***************************************************************************)
NoWedge ==
  breaker.state = HalfOpen /\ ~Admits(breaker) => probes # {} \/ lost > 0

(***************************************************************************)
(* The circuit stays open for at least Timeout: only Reset leaves the open *)
(* state sooner, and never by way of a call of an earlier period that      *)
(* returns late.                                                           *)
(***************************************************************************)
OpenLastsTimeout ==
  [][breaker.state = Open /\ breaker'.state # Open
       => \/ Reset
          \/ breaker'.state = HalfOpen /\ openTicks >= Timeout]_vars

(***************************************************************************)
(* The circuit stays open for at most Timeout: once that much time has     *)
(* passed since it opened, the next request is let through, however many   *)
(* calls failed while it was open.                                         *)
(***************************************************************************)
OpenNotExtended ==
  breaker.state = Open /\ openTicks >= Timeout => Admits(breaker)

(***************************************************************************)
(* The circuit can only be half-open with fewer successes than would close *)
(* it, and closed with fewer failures than would open it: no interleaving  *)
(* of late outcomes carries a count past the threshold that acts on it.    *)
(***************************************************************************)
CountsBelowThresholds ==
  /\ breaker.state = Closed => breaker.failures < FailureThreshold
  /\ breaker.state = HalfOpen => breaker.successes < SuccessThreshold

(***************************************************************************)
(* Once the engine has recovered, the circuit closes and stays closed; the *)
(* one other end is a half-open circuit that lost a probe to a panic and   *)
(* waits for it for ever.                                                  *)
(***************************************************************************)
Recovers ==
  <>(engine = "recovered")
    => \/ <>[](breaker.state = Closed)
       \/ <>[](breaker.state = HalfOpen /\ lost > 0)
=============================================================================
