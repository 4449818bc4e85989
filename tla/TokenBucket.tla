---------------------------- MODULE TokenBucket -----------------------------
(***************************************************************************)
(* ratelimit.TokenBucket.  AllowN and Remaining hold t.mu throughout, so   *)
(* each is one step, and the clock they read under the lock never runs     *)
(* backwards from one to the next.                                         *)
(*                                                                         *)
(* Tokens are float64 in the code and are refilled in fractions; here they *)
(* are counted in units, Unit of them to a token and Rate of them per tick *)
(* of the clock.                                                           *)
(***************************************************************************)
EXTENDS Limiters

VARIABLE buckets   \* t.buckets: the keys seen so far, with their bucketState

vars == <<buckets, now, granted, mark>>

\* A full bucket, in units.
Full == Limit * Unit

BucketState == [tokens : 0 .. Full, lastRefill : 0 .. MaxTime]

(***************************************************************************)
(* Every bucket holds between none and its capacity, and was last          *)
(* refilled at a time that has passed: the cap is applied on every refill  *)
(* and no request takes tokens that are not there.                         *)
(***************************************************************************)
TypeOK ==
  /\ HistoryOK
  /\ DOMAIN buckets \subseteq Keys
  /\ \A k \in DOMAIN buckets :
       buckets[k] \in BucketState /\ buckets[k].lastRefill <= now

NewTokenBucket == buckets = << >>
-----------------------------------------------------------------------------
Capped(tokens) == IF tokens > Full THEN Full ELSE tokens

\* Mutant: a refill is credited for one tick too few.
RefilledLate(k) ==
  IF k \in DOMAIN buckets /\ buckets[k].lastRefill < now
  THEN Capped(buckets[k].tokens + (now - 1 - buckets[k].lastRefill) * Rate)
  ELSE IF k \in DOMAIN buckets THEN buckets[k].tokens ELSE Full

\* AllowN: the bucket of k once refilled; an unseen key has a full one.
Refilled(k) ==
  IF k \in DOMAIN buckets
  THEN Capped(buckets[k].tokens + (now - buckets[k].lastRefill) * Rate)
  ELSE Full

Admits(k, n) == Refilled(k) >= n * Unit

Store(k, tokens) ==
  buckets' = [j \in DOMAIN buckets \cup {k} |->
                IF j = k THEN [tokens |-> tokens, lastRefill |-> now]
                         ELSE buckets[j]]

\* AllowN returns true.
AllowN(k, n) ==
  /\ Admits(k, n)
  /\ Store(k, Refilled(k) - n * Unit)
  /\ Granted(k, n)

\* AllowN returns false: the bucket is refilled all the same.
RefuseN(k, n) ==
  /\ ~Admits(k, n)
  /\ Store(k, Refilled(k))
  /\ UNCHANGED history

\* Remaining: the value it returns; it changes nothing.  The conversion to
\* int drops the fraction of a token.
Remaining(k) ==
  IF k \in DOMAIN buckets
  THEN Capped(buckets[k].tokens
                + (now - buckets[k].lastRefill) * Rate) \div Unit
  ELSE Limit

Tick ==
  /\ Passes
  /\ UNCHANGED buckets

Init == NewTokenBucket /\ NewHistory

Next ==
  \/ Tick
  \/ \E k \in Keys, n \in 1 .. MaxBatch : AllowN(k, n) \/ RefuseN(k, n)

Spec == Init /\ [][Next]_vars
-----------------------------------------------------------------------------
\* Tokens that can be taken over d ticks: a full bucket and its refill.
Budget(d) == (Full + d * Rate) \div Unit

Contract == INSTANCE RateContract

(***************************************************************************)
(* TokenBucket implements RateContract: over every interval of d ticks,    *)
(* whatever the pattern of requests and refusals, a key is granted at most *)
(* a bucket's capacity and the refill of d ticks.                          *)
(***************************************************************************)
ImplementsContract == Contract!Spec

(***************************************************************************)
(* AllowN refuses only what the contract forbids: the many refills of      *)
(* refused requests, each of which overwrites lastRefill, lose no token.   *)
(* And Remaining lies in between: it reports all that the contract still   *)
(* allows, and no more than AllowN would let through.                      *)
(***************************************************************************)
RefusesOnlyExcess ==
  \A k \in Keys : \A n \in 1 .. MaxBatch :
    /\ Contract!WithinBudget(k, n) => Remaining(k) >= n
    /\ Remaining(k) >= n => Admits(k, n)
=============================================================================
