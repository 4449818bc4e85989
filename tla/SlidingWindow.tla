--------------------------- MODULE SlidingWindow ----------------------------
(***************************************************************************)
(* ratelimit.SlidingWindow, the log of the times at which requests were    *)
(* granted.  AllowN and Remaining hold s.mu throughout, and both drop the  *)
(* expired entries of the log, so that Remaining is a step as well.  A key *)
(* without a log and a key with an empty one are the same to the code.     *)
(***************************************************************************)
EXTENDS Limiters, Sequences

VARIABLE logs   \* s.logs: per key, the times of the requests that count

vars == <<logs, now, granted, mark>>

(***************************************************************************)
(* A log holds at most Limit entries, none of them in the future, oldest   *)
(* first: the log's memory is bounded by the limit.                        *)
(***************************************************************************)
TypeOK ==
  /\ HistoryOK
  /\ logs \in [Keys -> Seq(0 .. MaxTime)]
  /\ \A k \in Keys :
       /\ Len(logs[k]) <= Limit
       /\ \A i \in 1 .. Len(logs[k]) : logs[k][i] <= now
       /\ \A i, j \in 1 .. Len(logs[k]) : i <= j => logs[k][i] <= logs[k][j]

NewSlidingWindow == logs = [k \in Keys |-> << >>]
-----------------------------------------------------------------------------
KeepIfAfter(valid, t, cutoff) == IF t > cutoff THEN Append(valid, t) ELSE valid

\* The loop that drops expired entries: what it has kept after i entries.
EntriesAfter(entries, cutoff) ==
  LET valid[i \in 0 .. Len(entries)] ==
        IF i = 0 THEN << >> ELSE KeepIfAfter(valid[i - 1], entries[i], cutoff)
  IN  valid[Len(entries)]

\* The entries after the cutoff.
Valid(k) == EntriesAfter(logs[k], now - Window)

\* Mutant: one request over the limit is let through.
AdmitsOneOver(k, n) == Len(Valid(k)) <= Limit

Admits(k, n) == Len(Valid(k)) + n <= Limit

\* AllowN returns true: n entries with the present time are appended.
AllowN(k, n) ==
  /\ Admits(k, n)
  /\ logs' = [logs EXCEPT ![k] = Valid(k) \o [i \in 1 .. n |-> now]]
  /\ Granted(k, n)

\* AllowN returns false: the log is pruned all the same.
RefuseN(k, n) ==
  /\ ~Admits(k, n)
  /\ logs' = [logs EXCEPT ![k] = Valid(k)]
  /\ UNCHANGED history

\* Remaining: the value it returns.
Remaining(k) ==
  IF Limit - Len(Valid(k)) < 0 THEN 0 ELSE Limit - Len(Valid(k))

\* Remaining: what it does to the log.
Prune(k) ==
  /\ logs' = [logs EXCEPT ![k] = Valid(k)]
  /\ UNCHANGED history

Tick ==
  /\ Passes
  /\ UNCHANGED logs

Init == NewSlidingWindow /\ NewHistory

Next ==
  \/ Tick
  \/ \E k \in Keys, n \in 1 .. MaxBatch : AllowN(k, n) \/ RefuseN(k, n)
  \/ \E k \in Keys : Prune(k)

Spec == Init /\ [][Next]_vars
-----------------------------------------------------------------------------
\* The windows needed to cover d ticks and the instant before them.
Budget(d) == Limit * (d \div Window + 1)

Contract == INSTANCE RateContract

(***************************************************************************)
(* SlidingWindow implements RateContract with this budget: no stretch as   *)
(* long as the window ever sees more than Limit requests, wherever it      *)
(* starts and whoever calls Remaining in between.                          *)
(***************************************************************************)
ImplementsContract == Contract!Spec

(***************************************************************************)
(* The log is exact: a batch is let through if and only if the window that *)
(* ends now has room for it, and Remaining reports that room.              *)
(***************************************************************************)
LogExact ==
  \A k \in Keys : \A n \in 1 .. MaxBatch :
    LET s == IF now < Window THEN 0 ELSE now - Window + 1
    IN  /\ Admits(k, n) <=> GrantedSince(k, s) + n <= Limit
        /\ Remaining(k) >= n <=> Admits(k, n)
=============================================================================
