---------------------------- MODULE RateContract ----------------------------
(***************************************************************************)
(* What a ratelimit.Limiter promises, whatever its algorithm: over any     *)
(* interval of time that ends now, the requests granted to a key stay      *)
(* within a budget that depends on the length of the interval only.  The   *)
(* three limiters are shown to implement this specification, each with the *)
(* budget its algorithm provides.                                          *)
(***************************************************************************)
EXTENDS Naturals

CONSTANTS
  Keys,       \* the keys requests are limited by
  MaxTime,    \* bound on the clock
  MaxBatch,   \* bound on the n of AllowN
  Budget(_)   \* requests that may be granted over d ticks after the first

VARIABLES
  now,        \* the clock, in ticks
  granted,    \* per key, the requests granted so far
  mark        \* per key and tick, the requests granted before that tick

vars == <<now, granted, mark>>

GrantHistory ==
  /\ now \in 0 .. MaxTime
  /\ granted \in [Keys -> Nat]
  /\ mark \in [Keys -> [0 .. MaxTime -> Nat]]

Init ==
  /\ now = 0
  /\ granted = [k \in Keys |-> 0]
  /\ mark = [k \in Keys |-> [t \in 0 .. MaxTime |-> 0]]

\* Requests granted to k from tick s until now.
GrantedSince(k, s) == granted[k] - mark[k][s]

\* Granting n more requests to k keeps every interval within its budget.
WithinBudget(k, n) ==
  \A s \in 0 .. now : GrantedSince(k, s) + n <= Budget(now - s)

Grant(k, n) ==
  /\ WithinBudget(k, n)
  /\ granted' = [granted EXCEPT ![k] = @ + n]
  /\ UNCHANGED <<now, mark>>

Tick ==
  /\ now < MaxTime
  /\ now' = now + 1
  /\ mark' = [k \in Keys |-> [mark[k] EXCEPT ![now + 1] = granted[k]]]
  /\ UNCHANGED granted

Next ==
  \/ Tick
  \/ \E k \in Keys, n \in 1 .. MaxBatch : Grant(k, n)

Spec == Init /\ [][Next]_vars
=============================================================================
