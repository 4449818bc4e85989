---------------------------- MODULE GatewayParts ----------------------------
(***************************************************************************)
(* The parts of Gateway against their own specifications.  Gateway uses    *)
(* the operators of the breaker and counts the limiter's tokens; here it   *)
(* is shown that what its requests do to the breaker of an instance is     *)
(* what CircuitBreaker describes, and that the limiter which both          *)
(* instances share keeps RateContract for all doors together.              *)
(*                                                                         *)
(* Both speak of the past, so Gateway is given the histories they need.    *)
(* A history is determined by the step taken and never prevents one.       *)
(***************************************************************************)
EXTENDS Gateway

CONSTANT Watched   \* the instance whose breaker is looked at

ASSUME WatchedAssumption == Watched \in Instances

VARIABLES
  probes,     \* the histories of these names in CircuitBreaker, for the
  lost,       \* breaker of the watched instance
  openTicks,
  granted,    \* and in RateContract, for the limiter
  mark

histories == <<probes, lost, openTicks, granted, mark>>

\* The requests that are inside the Execute of the watched instance, past
\* Allow and without an outcome.
Forwarding == {r \in RequestsOf(Watched) : At(r, "forward")}

\* What the callers of Execute are doing.  Any call may fail.
Calls ==
  [r \in RequestsOf(Watched) |-> IF At(r, "forward") THEN "exposed"
                                                     ELSE "idle"]

WatchedBreaker ==
  INSTANCE CircuitBreaker
    WITH Callers <- RequestsOf(Watched), call <- Calls,
         breaker <- breaker[Watched], engine <- "failing"

\* Requests a key can be granted over d ticks: a full bucket and its refill.
Budget(d) == Capacity + d

SharedLimiter ==
  INSTANCE RateContract
    WITH MaxTime <- MaxTicks, MaxBatch <- 1, now <- ticks
-----------------------------------------------------------------------------
StateBefore == breaker[Watched].state

StateAfter == breaker'[Watched].state

\* The circuit half-opens.
Probes == StateBefore = Open /\ StateAfter = HalfOpen

Opens == StateBefore # Open /\ StateAfter = Open

Entered == Forwarding' \ Forwarding

Left == Forwarding \ Forwarding'

\* A call of this half-open period panics.
LosesProbe == \E r \in probes \cap Left : answer'[r] = "aborted"

\* The limiter lets a request with key k through.
Grants(k) ==
  \E r \in Passing : KeyOf(r) = k /\ At(r, "limit") /\ At(r, "quota")'

HistoriesFollow ==
  /\ probes' = IF StateAfter # HalfOpen THEN {}
               ELSE IF Probes THEN Entered ELSE (probes \ Left) \cup Entered
  /\ lost' = IF Probes THEN 0 ELSE IF LosesProbe THEN lost + 1 ELSE lost
  /\ openTicks' =
       IF Opens THEN 0
       ELSE IF ticks' # ticks /\ StateBefore = Open /\ openTicks < Timeout
            THEN openTicks + 1 ELSE openTicks
  /\ granted' =
       [k \in Keys |-> IF Grants(k) THEN granted[k] + 1 ELSE granted[k]]
  /\ mark' =
       IF ticks' = ticks THEN mark
       ELSE [k \in Keys |-> [mark[k] EXCEPT ![ticks'] = granted[k]]]

InitWithHistories ==
  /\ Init
  /\ probes = {} /\ lost = 0 /\ openTicks = 0
  /\ granted = [k \in Keys |-> 0]
  /\ mark = [k \in Keys |-> [t \in 0 .. MaxTicks |-> 0]]

NextWithHistories == Next /\ HistoriesFollow

SpecWithHistories ==
  InitWithHistories /\ [][NextWithHistories]_<<vars, histories>>
-----------------------------------------------------------------------------
(***************************************************************************)
(* An instance uses its breaker as CircuitBreaker says: whatever the       *)
(* requests of all doors do, and wherever they are refused, fail or panic, *)
(* the Execute of each one admits it and records its outcome as one of the *)
(* callers there.  What holds of CircuitBreaker holds of both breakers.    *)
(***************************************************************************)
BreakerImplements == WatchedBreaker!Spec

(***************************************************************************)
(* The limiter that both instances share keeps the rate contract for all   *)
(* the doors together: within any interval of d ticks, and not only from   *)
(* the start, a tenant's requests for an engine that were let through, at  *)
(* whichever doors, are no more than a full bucket and the refill of d.    *)
(***************************************************************************)
LimiterImplements == SharedLimiter!Spec
=============================================================================
