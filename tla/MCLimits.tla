------------------------------ MODULE MCLimits ------------------------------
(***************************************************************************)
(* FixedWindow, SlidingWindow, TokenBucket and Quota for TLC.  A behaviour *)
(* is one of one of them, chosen at the start; table is the limiter's map  *)
(* by key.  The quota reads no clock.                                      *)
(***************************************************************************)
EXTENDS Limiters

CONSTANT Resources

VARIABLES
  algorithm,                \* "fixed", "sliding", "bucket" or "quota"
  table,                    \* f.windows, s.logs or t.buckets
  limits, usage, charged    \* those of Quota

Fixed == INSTANCE FixedWindow WITH windows <- table

Sliding == INSTANCE SlidingWindow WITH logs <- table

Bucket == INSTANCE TokenBucket WITH buckets <- table

Quotas == INSTANCE Quota WITH Tenants <- Keys, MaxLimit <- Limit,
                              MaxAmount <- MaxBatch

limiterVars == <<table, now, granted, mark>>

quotaVars == <<limits, usage, charged>>

vars == <<algorithm, table, now, granted, mark, limits, usage, charged>>

Init ==
  /\ \/ algorithm = "fixed" /\ Fixed!Init
     \/ algorithm = "sliding" /\ Sliding!Init
     \/ algorithm = "bucket" /\ Bucket!Init
     \/ algorithm = "quota" /\ table = << >> /\ NewHistory
  /\ Quotas!Init

Next ==
  /\ \/ algorithm = "fixed" /\ Fixed!Next /\ UNCHANGED quotaVars
     \/ algorithm = "sliding" /\ Sliding!Next /\ UNCHANGED quotaVars
     \/ algorithm = "bucket" /\ Bucket!Next /\ UNCHANGED quotaVars
     \/ algorithm = "quota" /\ Quotas!Next /\ UNCHANGED limiterVars
  /\ UNCHANGED algorithm

Spec == Init /\ [][Next]_vars
-----------------------------------------------------------------------------
(***************************************************************************)
(* A fixed window counts at most Limit requests and ends at most Window    *)
(* ticks from now; a log has at most Limit entries, in the order of time;  *)
(* a bucket never overflows and no request takes tokens that are not there.*)
(***************************************************************************)
TypeOK ==
  /\ algorithm = "fixed" => Fixed!TypeOK
  /\ algorithm = "sliding" => Sliding!TypeOK
  /\ algorithm = "bucket" => Bucket!TypeOK

(***************************************************************************)
(* AllowN refuses only what is too much: a fixed window only when the      *)
(* Window ticks that end now have had their Limit, the sliding window      *)
(* exactly when they have, and the bucket only what its contract forbids:  *)
(* the many refills of refused requests, each of which overwrites          *)
(* lastRefill, lose no token.  Remaining reports what would be let through *)
(* also when the window or entries of the log have expired and are still   *)
(* stored; of a bucket, all that the contract still allows and no more     *)
(* than AllowN would let through.  Consume refuses exactly what goes       *)
(* beyond the quota.                                                       *)
(***************************************************************************)
RefusesOnlyExcess ==
  /\ algorithm = "fixed" => Fixed!RefusesOnlyExcess
  /\ algorithm = "sliding" => Sliding!LogExact
  /\ algorithm = "bucket" => Bucket!RefusesOnlyExcess
  /\ algorithm = "quota" => Quotas!RefusesOnlyExcess

(***************************************************************************)
(* Every grant keeps every interval that ends now within the budget of the *)
(* algorithm: all three limiters implement RateContract, the fixed window  *)
(* with the burst at the boundary of two windows, the sliding window       *)
(* without, and the bucket with its capacity and the refill of the         *)
(* interval, whatever the pattern of requests and refusals.                *)
(***************************************************************************)
ImplementsContract ==
  /\ Fixed!Contract!Init /\ Sliding!Contract!Init /\ Bucket!Contract!Init
  /\ [][/\ algorithm = "fixed" => Fixed!Contract!Next
        /\ algorithm = "sliding" => Sliding!Contract!Next
        /\ algorithm = "bucket" => Bucket!Contract!Next]_history
=============================================================================
