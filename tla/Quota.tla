-------------------------------- MODULE Quota --------------------------------
(***************************************************************************)
(* ratelimit.Quota: what tenants may use of resources until they are       *)
(* reset.  Every method holds q.mu throughout.  Amounts are int64 in the   *)
(* code; used + amount is assumed not to overflow.                         *)
(***************************************************************************)
EXTENDS Integers

CONSTANTS
  Tenants, Resources,
  MaxLimit,    \* bound on limits
  MaxAmount    \* bound on what one call consumes

VARIABLES
  limits,    \* q.limits: per tenant, the resources with a limit, and it
  usage,     \* q.usage: per tenant, the resources used, and how much
  charged    \* history: per tenant and resource, the amounts that were
             \* consumed under a limit since the tenant was last reset

vars == <<limits, usage, charged>>

\* A map read in Go: zero for an absent key.
At(map, r) == IF r \in DOMAIN map THEN map[r] ELSE 0

Put(map, r, n) ==
  [q \in DOMAIN map \cup {r} |-> IF q = r THEN n ELSE map[q]]

Init ==
  /\ limits = [t \in Tenants |-> << >>]
  /\ usage = [t \in Tenants |-> << >>]
  /\ charged = [t \in Tenants |-> [r \in Resources |-> 0]]

SetLimit(t, r, limit) ==
  /\ limits' = [limits EXCEPT ![t] = Put(@, r, limit)]
  /\ UNCHANGED <<usage, charged>>

Limited(t, r) == r \in DOMAIN limits[t]

Admits(t, r, amount) ==
  Limited(t, r) => At(usage[t], r) + amount <= limits[t][r]

\* Consume returns nil under a limit; without one it changes nothing, and
\* neither does a refusal.
Consume(t, r, amount) ==
  /\ Limited(t, r) /\ Admits(t, r, amount)
  /\ usage' = [usage EXCEPT ![t] = Put(@, r, At(@, r) + amount)]
  /\ charged' = [charged EXCEPT ![t][r] = @ + amount]
  /\ UNCHANGED limits

\* Reset deletes the tenant's usage of every resource.
Reset(t) ==
  /\ usage' = [usage EXCEPT ![t] = << >>]
  /\ charged' = [charged EXCEPT ![t] = [r \in Resources |-> 0]]
  /\ UNCHANGED limits

Next ==
  \E t \in Tenants :
    \/ Reset(t)
    \/ \E r \in Resources :
         \/ \E limit \in 0 .. MaxLimit : SetLimit(t, r, limit)
         \/ \E amount \in 1 .. MaxAmount : Consume(t, r, amount)

Spec == Init /\ [][Next]_vars
-----------------------------------------------------------------------------
(***************************************************************************)
(* However limits are set, lowered, raised and reset between the calls, a  *)
(* request is refused exactly when it would carry what the tenant consumed *)
(* under a limit since its last reset beyond the limit of now, and Usage   *)
(* reports that sum.                                                       *)
(***************************************************************************)
RefusesOnlyExcess ==
  \A t \in Tenants, r \in Resources :
    /\ At(usage[t], r) = charged[t][r]
    /\ \A amount \in 1 .. MaxAmount :
         ~Admits(t, r, amount) <=>
           Limited(t, r) /\ charged[t][r] + amount > limits[t][r]
=============================================================================
