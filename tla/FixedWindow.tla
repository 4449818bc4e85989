---------------------------- MODULE FixedWindow -----------------------------
(***************************************************************************)
(* ratelimit.FixedWindow.  AllowN and Remaining hold f.mu throughout.  A   *)
(* key's window starts with the first request that finds none or an        *)
(* expired one, not at a multiple of the window's length.                  *)
(***************************************************************************)
EXTENDS Limiters

VARIABLE windows   \* f.windows: the keys seen so far, with their windowState

vars == <<windows, now, granted, mark>>

WindowState == [count : 0 .. Limit, windowEnd : 0 .. MaxTime + Window]

(***************************************************************************)
(* A window never counts more than Limit requests, and ends at most Window *)
(* ticks from now.                                                         *)
(***************************************************************************)
TypeOK ==
  /\ HistoryOK
  /\ DOMAIN windows \subseteq Keys
  /\ \A k \in DOMAIN windows :
       windows[k] \in WindowState /\ windows[k].windowEnd <= now + Window

NewFixedWindow == windows = << >>
-----------------------------------------------------------------------------
\* Mutant: a window is replaced at its last instant already.
ExpiredAtEnd(k) == k \notin DOMAIN windows \/ now >= windows[k].windowEnd

\* now.After(state.windowEnd), or no window yet.
Expired(k) == k \notin DOMAIN windows \/ now > windows[k].windowEnd

\* AllowN: the window the request is counted in.
Current(k) ==
  IF Expired(k) THEN [count |-> 0, windowEnd |-> now + Window]
                ELSE windows[k]

Admits(k, n) == Current(k).count + n <= Limit

Store(k, w) ==
  windows' = [j \in DOMAIN windows \cup {k} |->
                IF j = k THEN w ELSE windows[j]]

\* AllowN returns true.
AllowN(k, n) ==
  /\ Admits(k, n)
  /\ Store(k, [Current(k) EXCEPT !.count = @ + n])
  /\ Granted(k, n)

\* AllowN returns false: a fresh window may have started all the same.
RefuseN(k, n) ==
  /\ ~Admits(k, n)
  /\ Store(k, Current(k))
  /\ UNCHANGED history

\* Remaining: the value it returns; it changes nothing.
Remaining(k) ==
  IF Expired(k) THEN Limit
  ELSE IF Limit - windows[k].count < 0 THEN 0
  ELSE Limit - windows[k].count

Tick ==
  /\ Passes
  /\ UNCHANGED windows

Init == NewFixedWindow /\ NewHistory

Next ==
  \/ Tick
  \/ \E k \in Keys, n \in 1 .. MaxBatch : AllowN(k, n) \/ RefuseN(k, n)

Spec == Init /\ [][Next]_vars
-----------------------------------------------------------------------------
(***************************************************************************)
(* The windows that can overlap d ticks: one that was already running, and *)
(* those that start within them.  A window covers its last instant, so two *)
(* starts are more than Window apart.                                      *)
(***************************************************************************)
Budget(d) == Limit * (1 + (d + Window) \div (Window + 1))

Contract == INSTANCE RateContract

(***************************************************************************)
(* FixedWindow implements RateContract with this budget: at most 2 * Limit *)
(* requests in a stretch as long as a window, the burst at the boundary    *)
(* between two windows included, and never more.                           *)
(***************************************************************************)
ImplementsContract == Contract!Spec

(***************************************************************************)
(* AllowN refuses a batch only when the window's length of time that ends  *)
(* now has had its Limit: no request is refused for what was granted       *)
(* longer ago than that.  Remaining tells what AllowN would do now.        *)
(***************************************************************************)
RefusesOnlyExcess ==
  \A k \in Keys : \A n \in 1 .. MaxBatch :
    /\ ~Admits(k, n) =>
         \E s \in 0 .. now :
           now - s <= Window /\ GrantedSince(k, s) + n > Limit
    /\ Remaining(k) >= n <=> Admits(k, n)
=============================================================================
