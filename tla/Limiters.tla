------------------------------ MODULE Limiters ------------------------------
(***************************************************************************)
(* What the three limiters of ratelimit have in common: their parameters,  *)
(* the clock they read, and the history of grants that RateContract speaks *)
(* about.                                                                  *)
(***************************************************************************)
EXTENDS Integers

CONSTANTS
  Keys,       \* the keys requests are limited by
  Limit,      \* requests per window; the capacity of a bucket, in tokens
  Window,     \* length of a window, in ticks
  Unit,       \* units per token
  Rate,       \* units refilled per tick
  MaxBatch,   \* bound on the n of AllowN
  MaxTime     \* bound on the clock

ASSUME LimitersAssumption ==
  /\ Limit \in Nat
  /\ Window \in Nat \ {0}
  /\ Unit \in Nat \ {0}
  /\ Rate \in Nat
  /\ MaxBatch \in Nat
  /\ MaxTime \in Nat

VARIABLES
  now,        \* the clock
  granted,    \* history: per key, the requests allowed so far
  mark        \* history: per key and tick, the requests allowed before it

history == <<now, granted, mark>>

HistoryOK ==
  /\ now \in 0 .. MaxTime
  /\ granted \in [Keys -> Nat]
  /\ mark \in [Keys -> [0 .. MaxTime -> Nat]]

NewHistory ==
  /\ now = 0
  /\ granted = [k \in Keys |-> 0]
  /\ mark = [k \in Keys |-> [t \in 0 .. MaxTime |-> 0]]

\* A batch of n is let through.
Granted(k, n) ==
  /\ granted' = [granted EXCEPT ![k] = @ + n]
  /\ UNCHANGED <<now, mark>>

\* The clock moves on.
Passes ==
  /\ now < MaxTime
  /\ now' = now + 1
  /\ mark' = [k \in Keys |-> [mark[k] EXCEPT ![now + 1] = granted[k]]]
  /\ UNCHANGED granted

\* Requests granted to k from tick s until now.
GrantedSince(k, s) == granted[k] - mark[k][s]
=============================================================================
