------------------------------- MODULE Routing -------------------------------
(***************************************************************************)
(* Package routing as the front doors use it: a Registry that is changed   *)
(* while requests are being routed, and resolveEndpoint, which reads it    *)
(* two or three times under separate read locks and selects an endpoint    *)
(* under the lock of a load balancer in the end; and the health queries of *)
(* the gRPC and Connect doors, which read it three times.                  *)
(*                                                                         *)
(* The registry's map, the balancer's counters and the resolver's versions *)
(* are all indexed by engine name and no operation relates two names, so   *)
(* the module follows one engine.                                          *)
(***************************************************************************)
EXTENDS Integers, Sequences, FiniteSets

CONSTANTS
  Addresses,       \* addresses of the engine's instances
  VersionOf,       \* the version registered with each address
  WeightOf,        \* the weight registered with each address
  Hash,            \* hash(engine + len) by number of healthy endpoints
  SharedCalls,     \* routing calls that use one RoundRobinLoadBalancer
  FreshCalls,      \* routing calls that create a RoundRobinLoadBalancer
  WeightedCalls,   \* routing calls that use a WeightedLoadBalancer
  Queries,         \* calls of GetHealth, GetEngine or ListEngines
  Wanted,          \* what the version resolver answers to each call
  NoVersion,       \* the answer when it returns an error
  Duplicates,      \* whether an address may be registered again
  MaxEndpoints,    \* bound on the number of endpoints
  MaxRecent,       \* bound on the selections remembered
  MaxConcurrent    \* bound on the calls being routed at a time

Routed == SharedCalls \cup FreshCalls \cup WeightedCalls

Calls == Routed \cup Queries

\* What a call may end with in place of an address.
Failures == {"none", "not found", "panic"}

Statuses == {"unhealthy", "degraded", "healthy", "unknown"}

ASSUME RoutingAssumption ==
  /\ Duplicates \in BOOLEAN
  /\ MaxEndpoints \in Nat \ {0} /\ MaxRecent \in Nat /\ MaxConcurrent \in Nat
  /\ Addresses \cap (Failures \cup Statuses) = {}
  /\ WeightOf \in [Addresses -> Int]
  /\ Hash \in [1 .. MaxEndpoints -> Nat]
  /\ DOMAIN VersionOf = Addresses
  /\ DOMAIN Wanted = Routed
  /\ Routed \cap Queries = {}
  /\ SharedCalls \cap (FreshCalls \cup WeightedCalls) = {}

VARIABLES
  endpoints,    \* r.endpoints[name]
  counter,      \* counters[engine] of the shared round-robin balancer
  pc,           \* what each call does next
  snapshot,     \* the endpoints the call has read
  result,       \* what the step just taken returned, if it ended a call
  up,           \* history: addresses registered and not reported unhealthy
  wasUp,        \* history: per call, the addresses up at some time during it
  sawNone,      \* history: per call, whether nothing was healthy at some time
  fresh,        \* history: calls whose snapshot is of the present registry
  recent        \* history: the shared balancer's last selections from it

vars == <<endpoints, counter, pc, snapshot, result, up, wasUp, sawNone,
          fresh, recent>>

Endpoint == [address : Addresses, weight : Nat \ {0}, healthy : BOOLEAN]

TypeOK ==
  /\ endpoints \in Seq(Endpoint) /\ Len(endpoints) <= MaxEndpoints
  /\ counter \in 0 .. MaxEndpoints - 1
  /\ pc \in [Calls -> {"idle", "next", "select", "fallback",
                   "endpoints", "healthy"}]
  /\ snapshot \in [Calls -> Seq(Endpoint)]
  /\ result \in Addresses \cup Failures \cup Statuses
  /\ up \subseteq Addresses
  /\ wasUp \in [Calls -> SUBSET Addresses]
  /\ sawNone \in [Calls -> BOOLEAN]
  /\ fresh \subseteq Calls
  /\ recent \in Seq(Addresses) /\ Len(recent) <= MaxRecent

Init ==
  /\ endpoints = << >>
  /\ counter = 0
  /\ pc = [c \in Calls |-> "idle"]
  /\ snapshot = [c \in Calls |-> << >>]
  /\ result = "none"
  /\ up = {}
  /\ wasUp = [c \in Calls |-> {}]
  /\ sawNone = [c \in Calls |-> FALSE]
  /\ fresh = {}
  /\ recent = << >>
-----------------------------------------------------------------------------
(* The registry.                                                           *)

KeepIfHealthy(kept, ep) == IF ep.healthy THEN Append(kept, ep) ELSE kept

\* The loop of GetHealthyEndpoints: what it has kept after i endpoints.
HealthyIn(eps) ==
  LET kept[i \in 0 .. Len(eps)] ==
        IF i = 0 THEN << >> ELSE KeepIfHealthy(kept[i - 1], eps[i])
  IN  kept[Len(eps)]

\* Mutant: endpoints are returned whatever their health.
GetAllEndpoints == endpoints

\* Mutant: the last endpoint is left out.
GetHealthyButLast == HealthyIn(SubSeq(endpoints, 1, Len(endpoints) - 1))

GetHealthyEndpoints == HealthyIn(endpoints)

AddressesIn(eps) == {eps[i].address : i \in DOMAIN eps}

\* The first endpoint with address a, the one that SetHealthy and Unregister
\* act on.
IndexOf(a) ==
  CHOOSE i \in DOMAIN endpoints :
    /\ endpoints[i].address = a
    /\ \A j \in 1 .. i - 1 : endpoints[j].address # a

\* A change of the registry, as the calls in progress live through it.
Observed ==
  /\ LET routing(c) == c \in Routed /\ pc[c] # "idle"
     IN  /\ wasUp' = [c \in Calls |-> IF routing(c) THEN wasUp[c] \cup up'
                                                    ELSE wasUp[c]]
         /\ sawNone' = [c \in Calls |-> IF routing(c)
                                         THEN sawNone[c] \/ up' = {}
                                         ELSE sawNone[c]]
  /\ fresh' = {}
  /\ recent' = << >>
  /\ result' = "none"
  /\ UNCHANGED <<counter, pc, snapshot>>

\* Mutant: a weight of zero is stored as it is.
RegisterRawWeight(a) ==
  /\ Len(endpoints) < MaxEndpoints
  /\ Duplicates \/ a \notin AddressesIn(endpoints)
  /\ endpoints' = Append(endpoints, [address |-> a, healthy |-> TRUE,
                                     weight |-> WeightOf[a]])
  /\ up' = up \cup {a}
  /\ Observed

Register(a) ==
  /\ Len(endpoints) < MaxEndpoints
  /\ Duplicates \/ a \notin AddressesIn(endpoints)
  /\ endpoints' =
       Append(endpoints,
              [address |-> a, healthy |-> TRUE,
               weight |-> IF WeightOf[a] <= 0 THEN 1 ELSE WeightOf[a]])
  /\ up' = up \cup {a}
  /\ Observed

Unregister(a) ==
  /\ a \in AddressesIn(endpoints)
  /\ endpoints' = SubSeq(endpoints, 1, IndexOf(a) - 1)
                    \o SubSeq(endpoints, IndexOf(a) + 1, Len(endpoints))
  /\ up' = up \ {a}
  /\ Observed

SetHealthy(a, healthy) ==
  /\ a \in AddressesIn(endpoints)
  /\ endpoints' = [endpoints EXCEPT ![IndexOf(a)].healthy = healthy]
  /\ up' = IF healthy THEN up \cup {a} ELSE up \ {a}
  /\ Observed
-----------------------------------------------------------------------------
(* resolveEndpoint, one step per lock it takes.                            *)

InProgress == {c \in Calls : pc[c] # "idle"}

(***************************************************************************)
(* Bounds on concurrency: at most MaxConcurrent calls are routed at a      *)
(* time.  Queries share nothing with them but the registry, which they     *)
(* only read, so a query is followed while no other call is under way.     *)
(***************************************************************************)
MayStart(c) ==
  IF c \in Queries THEN InProgress = {}
  ELSE /\ InProgress \cap Queries = {}
       /\ Cardinality(InProgress) < MaxConcurrent

\* The call returns r; what was noted about it has served its purpose.
Return(c, r) ==
  /\ pc' = [pc EXCEPT ![c] = "idle"]
  /\ result' = r
  /\ wasUp' = [wasUp EXCEPT ![c] = {}]
  /\ sawNone' = [sawNone EXCEPT ![c] = FALSE]

Continue(c, step) ==
  /\ pc' = [pc EXCEPT ![c] = step]
  /\ result' = "none"

(***************************************************************************)
(* The first read only decides whether there is anything to balance.  When *)
(* there is not, the gRPC door gives up and the HTTP door, whose balancer  *)
(* is not the shared one, falls back on the version.                       *)
(***************************************************************************)
ResolveEndpoint(c) ==
  /\ c \in Routed
  /\ pc[c] = "idle" /\ MayStart(c)
  /\ \/ /\ GetHealthyEndpoints # << >>
        /\ Continue(c, "next")
        /\ wasUp' = [wasUp EXCEPT ![c] = up]
        /\ sawNone' = [sawNone EXCEPT ![c] = up = {}]
     \/ /\ GetHealthyEndpoints = << >> /\ c \notin SharedCalls
        /\ Wanted[c] # NoVersion
        /\ Continue(c, "fallback")
        /\ wasUp' = [wasUp EXCEPT ![c] = up]
        /\ sawNone' = [sawNone EXCEPT ![c] = up = {}]
     \/ /\ GetHealthyEndpoints = << >>
        /\ c \in SharedCalls \/ Wanted[c] = NoVersion
        /\ Return(c, "not found")
  /\ UNCHANGED <<endpoints, counter, snapshot, up, fresh, recent>>

\* The HTTP door's fallback reads the registry again, and takes the first
\* endpoint of the version that has become healthy since.
Fallback(c) ==
  /\ pc[c] = "fallback"
  /\ LET eps == GetHealthyEndpoints
         matching == {i \in DOMAIN eps :
                        VersionOf[eps[i].address] = Wanted[c]}
     IN  Return(c, IF matching = {} THEN "not found"
                   ELSE eps[CHOOSE i \in matching :
                              \A j \in matching : i <= j].address)
  /\ UNCHANGED <<endpoints, counter, snapshot, up, fresh, recent>>

\* Next, before it takes the balancer's lock: the snapshot it balances.
Next1(c) ==
  /\ pc[c] = "next"
  /\ LET eps == GetHealthyEndpoints
     IN  \/ /\ eps = << >>
            /\ Return(c, "not found")
            /\ UNCHANGED <<snapshot, fresh>>
         \/ /\ eps # << >>
            /\ snapshot' = [snapshot EXCEPT ![c] = eps]
            /\ fresh' = fresh \cup {c}
            /\ Continue(c, "select")
            /\ UNCHANGED <<wasUp, sawNone>>
  /\ UNCHANGED <<endpoints, counter, up, recent>>

\* The shared balancer's selections from an unchanged registry, the latest
\* last; pick is what this call adds to them.
Remember(c, pick) ==
  LET picks == recent \o pick
  IN  recent' = CASE c \notin SharedCalls -> recent
                  [] c \in SharedCalls /\ (c \notin fresh \/ pick = << >>)
                       -> << >>
                  [] OTHER -> IF Len(picks) <= MaxRecent THEN picks
                              ELSE Tail(picks)

\* Element i of the snapshot is returned; Go panics when there is none.
Select(c, i) ==
  /\ IF i \in DOMAIN snapshot[c]
     THEN /\ Return(c, snapshot[c][i].address)
          /\ Remember(c, <<snapshot[c][i].address>>)
     ELSE Return(c, "panic") /\ Remember(c, << >>)
  /\ snapshot' = [snapshot EXCEPT ![c] = << >>]
  /\ fresh' = fresh \ {c}
  /\ UNCHANGED <<endpoints, up>>

\* Mutant: the counter wraps one endpoint late.
NextSharedWrapsLate(c) ==
  /\ pc[c] = "select" /\ c \in SharedCalls
  /\ counter' = (counter + 1) % (Len(snapshot[c]) + 1)
  /\ Select(c, IF counter = Len(snapshot[c]) THEN 1 ELSE counter + 1)

\* RoundRobinLoadBalancer.Next under b.mu: the counter was left behind by a
\* call that may have seen another number of endpoints, and an index beyond
\* the snapshot panics, after the counter has been written.
NextShared(c) ==
  /\ pc[c] = "select" /\ c \in SharedCalls
  /\ counter' = (counter + 1) % Len(snapshot[c])
  /\ Select(c, counter + 1)

\* The same with a balancer of the call's own: its counter is zero.
NextFresh(c) ==
  /\ pc[c] = "select" /\ c \in FreshCalls
  /\ Select(c, 1)
  /\ UNCHANGED counter

\* The sum of the weights of the first i endpoints.
WeightUpTo(eps, i) ==
  LET weight[j \in 0 .. Len(eps)] ==
        IF j = 0 THEN 0 ELSE weight[j - 1] + eps[j].weight
  IN  weight[i]

\* WeightedLoadBalancer.Next: the endpoint whose share of the total weight
\* the hash falls into; a total of zero would divide by zero.
WeightedPick(eps) ==
  LET total == WeightUpTo(eps, Len(eps))
      pick  == Hash[Len(eps)] % total
  IN  IF total = 0 THEN 0
      ELSE CHOOSE i \in DOMAIN eps :
             WeightUpTo(eps, i - 1) <= pick /\ pick < WeightUpTo(eps, i)

NextWeighted(c) ==
  /\ pc[c] = "select" /\ c \in WeightedCalls
  /\ Select(c, WeightedPick(snapshot[c]))
  /\ UNCHANGED counter

-----------------------------------------------------------------------------
(* GetEngine, GetHealth and ListEngines, as far as they concern the engine.*)

\* The engine is looked up, with Count or in what ListAll returns.
LookUp(c) ==
  /\ c \in Queries
  /\ pc[c] = "idle" /\ MayStart(c)
  /\ IF endpoints = << >> THEN Return(c, "not found")
     ELSE Continue(c, "endpoints") /\ UNCHANGED <<wasUp, sawNone>>
  /\ UNCHANGED <<endpoints, counter, snapshot, up, fresh, recent>>

\* engineHealth: GetEndpoints.
ReadEndpoints(c) ==
  /\ pc[c] = "endpoints"
  /\ snapshot' = [snapshot EXCEPT ![c] = endpoints]
  /\ fresh' = fresh \cup {c}
  /\ Continue(c, "healthy")
  /\ UNCHANGED <<endpoints, counter, up, wasUp, sawNone, recent>>

\* Mutant: degraded is looked for before unhealthy.
StatusDegradedFirst(total, healthy) ==
  CASE healthy < total -> "degraded"
    [] healthy >= total /\ healthy > 0 -> "healthy"
    [] OTHER -> "unknown"

\* engineHealth: the status from the two numbers.
Status(total, healthy) ==
  CASE healthy = 0 /\ total > 0 -> "unhealthy"
    [] healthy > 0 /\ healthy < total -> "degraded"
    [] healthy > 0 /\ healthy >= total -> "healthy"
    [] OTHER -> "unknown"

\* engineHealth: GetHealthyEndpoints, and the answer.
ReadHealthy(c) ==
  /\ pc[c] = "healthy"
  /\ Return(c, Status(Len(snapshot[c]), Len(GetHealthyEndpoints)))
  /\ snapshot' = [snapshot EXCEPT ![c] = << >>]
  /\ fresh' = fresh \ {c}
  /\ UNCHANGED <<endpoints, counter, up, recent>>

RegistryStep ==
  \E a \in Addresses :
    \/ Register(a)
    \/ Unregister(a)
    \/ \E healthy \in BOOLEAN : SetHealthy(a, healthy)

CallStep(c) ==
  \/ ResolveEndpoint(c)
  \/ Fallback(c)
  \/ Next1(c)
  \/ NextShared(c)
  \/ NextFresh(c)
  \/ NextWeighted(c)
  \/ LookUp(c)
  \/ ReadEndpoints(c)
  \/ ReadHealthy(c)

Next == RegistryStep \/ \E c \in Calls : CallStep(c)

Spec == Init /\ [][Next]_vars
-----------------------------------------------------------------------------
Returns(c) == pc[c] # "idle" /\ pc'[c] = "idle"

(***************************************************************************)
(* A request is sent only to an address that was registered and not        *)
(* reported unhealthy at some moment of its own routing: the several reads *)
(* of a registry that changes between them never bring back an endpoint    *)
(* that was taken out before the request arrived.                          *)
(***************************************************************************)
RoutedWasUp ==
  [][\A c \in Routed : Returns(c) /\ result' \in Addresses
                        => result' \in wasUp[c]]_vars

(***************************************************************************)
(* A request is turned away as not found only if at some moment of its     *)
(* routing the engine had no healthy endpoint: no interleaving of the      *)
(* reads refuses a request while an endpoint was healthy throughout.       *)
(***************************************************************************)
NotFoundJustified ==
  [][\A c \in Routed : Returns(c) /\ result' = "not found"
                        => sawNone[c]]_vars

(***************************************************************************)
(* The shared round-robin balancer uses every endpoint before it uses one  *)
(* again, as long as the registry does not change: concurrent calls never  *)
(* select the same position twice in a round.                              *)
(***************************************************************************)
RoundRobinCycles ==
  \A i, j \in DOMAIN recent :
    i < j /\ j - i < Len(GetHealthyEndpoints) => recent[i] # recent[j]

(***************************************************************************)
(* Only the balancer that keeps its counter between calls can panic: the   *)
(* others always find an endpoint in their snapshot, whatever the registry *)
(* has become since, and whatever weights were registered.                 *)
(***************************************************************************)
PanicsOnlyShared ==
  [][\A c \in Routed \ SharedCalls : Returns(c) => result' # "panic"]_vars

(***************************************************************************)
(* The status a query reports says that the engine can be reached if and   *)
(* only if it could when the healthy endpoints were read; and it is the    *)
(* engine's status at that moment unless the registry changed between the  *)
(* two reads.  (If it did, a healthy engine may be called degraded and a   *)
(* degraded one healthy.)                                                  *)
(***************************************************************************)
HealthHonest ==
  [][\A c \in Queries : pc[c] = "healthy" /\ Returns(c) =>
       LET health == {endpoints[i].healthy : i \in DOMAIN endpoints}
       IN  /\ result' \in {"healthy", "degraded"} <=> TRUE \in health
           /\ c \in fresh => result' = CASE health = {} -> "unknown"
                                         [] health = {TRUE} -> "healthy"
                                         [] health = {FALSE} -> "unhealthy"
                                         [] OTHER -> "degraded"]_vars

(***************************************************************************)
(* What the comment on SetHealthy says: it marks an endpoint as healthy or *)
(* unhealthy, so that no healthy endpoint has an address last reported     *)
(* unhealthy, or removed.                                                  *)
(***************************************************************************)
HealthFollowsReports == AddressesIn(GetHealthyEndpoints) \subseteq up

(***************************************************************************)
(* What the comment on LoadBalancer says: Next returns the next endpoint   *)
(* for the engine, or an error when there is none.                         *)
(***************************************************************************)
NextReturnsEndpoint == result # "panic"
=============================================================================
