---------------------------- MODULE LimitsProofs ----------------------------
(***************************************************************************)
(* Proofs about the three rate limiters and the quota, through MCLimits,   *)
(* in which a behaviour is one of one of them: type correctness, that they *)
(* refuse only what they should, and that the rate limiters implement      *)
(* RateContract, for any keys, limits, window lengths, rates and batches.  *)
(***************************************************************************)
EXTENDS MCLimits, SequenceTheorems, WellFoundedInduction, TLAPS

(***************************************************************************)
(* Induction over the natural numbers, for a set: the least number outside *)
(* it would have a predecessor inside.                                     *)
(***************************************************************************)
LEMMA NatSetInduction ==
  ASSUME NEW S, 0 \in S, \A n \in Nat : n \in S => n + 1 \in S
  PROVE  Nat \subseteq S
<1> DEFINE T == Nat \ S
<1>1. SUFFICES ASSUME T # {} PROVE FALSE
  OBVIOUS
<1>2. PICK x \in T : \A y \in T : ~(<<y, x>> \in OpToRel(<, Nat))
  <2>1. T \subseteq Nat
    OBVIOUS
  <2> QED BY <1>1, <2>1, NatLessThanWellFounded, WFMin, Zenon
<1>3. x \in Nat /\ x # 0 /\ x \notin S
  OBVIOUS
<1>4. x - 1 \in Nat /\ x - 1 < x
  BY <1>3
<1>5. x - 1 \notin T
  <2> SUFFICES ASSUME x - 1 \in T PROVE FALSE
    OBVIOUS
  <2>1. <<x - 1, x>> \notin OpToRel(<, Nat)
    BY <1>2
  <2>2. <<x - 1, x>> \in OpToRel(<, Nat)
    BY <1>3, <1>4, Zenon DEF OpToRel
  <2> QED BY <2>1, <2>2
<1> QED
  BY <1>3, <1>4, <1>5

(***************************************************************************)
(* Division by a positive number.                                          *)
(***************************************************************************)
LEMMA DivFacts ==
  ASSUME NEW m \in Nat \ {0}, NEW a \in Nat
  PROVE  /\ a \div m \in Nat
         /\ a < m => a \div m = 0
         /\ a >= m => a \div m >= 1
         /\ (a + m) \div m = a \div m + 1
         /\ \A b \in Nat : a <= b => a \div m <= b \div m
<1>1. /\ a \div m \in Nat
      /\ a < m => a \div m = 0
      /\ a >= m => a \div m >= 1
  OBVIOUS
<1>2. (a + m) \div m = a \div m + 1
  OBVIOUS
<1>3. \A b \in Nat : a <= b => a \div m <= b \div m
  OBVIOUS
<1> QED BY <1>1, <1>2, <1>3

(***************************************************************************)
(* Multiplication of natural numbers: what the bounds that count windows   *)
(* need of it.                                                             *)
(***************************************************************************)
LEMMA TimesFacts ==
  ASSUME NEW m \in Nat, NEW a \in Nat
  PROVE  /\ m * a \in Nat
         /\ m * (a + 1) = m * a + m
         /\ m * (1 + a) = m * a + m
         /\ \A b \in Nat : a <= b => m * a <= m * b
  OBVIOUS

-----------------------------------------------------------------------------
(***************************************************************************)
(* The marks of a key never decrease, and never exceed what was granted.   *)
(***************************************************************************)
Monotone(k) ==
  /\ \A t \in 0 .. now : mark[k][t] <= granted[k]
  /\ \A s, t \in 0 .. now : s <= t => mark[k][s] <= mark[k][t]

(***************************************************************************)
(* The history of grants is one of a clock and of counters that only go    *)
(* up.                                                                     *)
(***************************************************************************)
HistoryInv == HistoryOK /\ \A k \in Keys : Monotone(k)

(***************************************************************************)
(* The numbers that the history of a key consists of.                      *)
(***************************************************************************)
LEMMA MarkNat ==
  ASSUME HistoryInv, NEW k \in Keys
  PROVE  /\ now \in Nat /\ MaxTime \in Nat /\ now <= MaxTime
         /\ granted[k] \in Nat
         /\ \A t \in 0 .. now : mark[k][t] \in Nat /\ mark[k][t] <= granted[k]
         /\ \A s, t \in 0 .. now : s <= t => mark[k][s] <= mark[k][t]
<1>1. now \in Nat /\ MaxTime \in Nat /\ now <= MaxTime /\ granted[k] \in Nat
  BY LimitersAssumption DEF HistoryInv, HistoryOK
<1>2. \A t \in 0 .. now : mark[k][t] \in Nat
  BY <1>1 DEF HistoryInv, HistoryOK
<1> QED BY <1>1, <1>2 DEF HistoryInv, Monotone

(***************************************************************************)
(* At the start nothing was granted.                                       *)
(***************************************************************************)
LEMMA InitHistory ==
  NewHistory => /\ HistoryInv
                /\ \A k \in Keys : granted[k] = 0
                /\ \A k \in Keys : \A t \in 0 .. now : mark[k][t] = 0
<1> SUFFICES ASSUME NewHistory
             PROVE  /\ HistoryInv
                    /\ \A k \in Keys : granted[k] = 0
                    /\ \A k \in Keys : \A t \in 0 .. now : mark[k][t] = 0
  OBVIOUS
<1>1. HistoryOK
  BY LimitersAssumption DEF NewHistory, HistoryOK
<1>3. now = 0 /\ 0 .. now \subseteq 0 .. MaxTime
  BY LimitersAssumption DEF NewHistory
<1>4. \A k \in Keys : mark[k] = [t \in 0 .. MaxTime |-> 0]
  BY DEF NewHistory
<1>2. \A k \in Keys : granted[k] = 0 /\ \A t \in 0 .. now : mark[k][t] = 0
  BY <1>3, <1>4 DEF NewHistory
<1> QED BY <1>1, <1>2, <1>3 DEF HistoryInv, Monotone

(***************************************************************************)
(* A grant raises the counter of its key, and nothing else of the history. *)
(***************************************************************************)
LEMMA GrantKeeps ==
  ASSUME HistoryInv, NEW k \in Keys, NEW n \in Nat, Granted(k, n)
  PROVE  /\ HistoryInv'
         /\ now' = now /\ mark' = mark
         /\ granted'[k] = granted[k] + n
         /\ \A j \in Keys : j # k => granted'[j] = granted[j]
<1>1. now' = now /\ mark' = mark /\ granted' = [granted EXCEPT ![k] = @ + n]
  BY DEF Granted
<1>2. granted \in [Keys -> Nat]
  BY DEF HistoryInv, HistoryOK
<1>3. /\ granted' \in [Keys -> Nat]
      /\ granted'[k] = granted[k] + n
      /\ \A j \in Keys : j # k => granted'[j] = granted[j]
  BY <1>1, <1>2
<1>4. HistoryOK'
  BY <1>1, <1>3 DEF HistoryInv, HistoryOK
<1>5. ASSUME NEW j \in Keys PROVE Monotone(j)'
  <2>1. granted[j] \in Nat /\ granted'[j] \in Nat /\ granted[j] <= granted'[j]
    BY <1>2, <1>3
  <2> QED BY <1>1, <2>1, MarkNat DEF Monotone
<1> QED BY <1>1, <1>3, <1>4, <1>5 DEF HistoryInv

(***************************************************************************)
(* When the clock moves on, the new tick is marked with what was granted   *)
(* before it, and the earlier marks stay.                                  *)
(***************************************************************************)
LEMMA PassKeeps ==
  ASSUME HistoryInv, Passes
  PROVE  /\ HistoryInv'
         /\ now' = now + 1 /\ granted' = granted
         /\ \A k \in Keys : mark'[k][now + 1] = granted[k]
         /\ \A k \in Keys : \A t \in 0 .. now : mark'[k][t] = mark[k][t]
<1>1. /\ now < MaxTime /\ now' = now + 1 /\ granted' = granted
      /\ mark' = [k \in Keys |-> [mark[k] EXCEPT ![now + 1] = granted[k]]]
  BY DEF Passes
<1>2. /\ now \in 0 .. MaxTime /\ MaxTime \in Nat /\ now + 1 \in 0 .. MaxTime
      /\ granted \in [Keys -> Nat]
      /\ mark \in [Keys -> [0 .. MaxTime -> Nat]]
  BY <1>1, LimitersAssumption DEF HistoryInv, HistoryOK
<1>3. \A k \in Keys : mark'[k] \in [0 .. MaxTime -> Nat]
  BY <1>1, <1>2
<1>4. mark' \in [Keys -> [0 .. MaxTime -> Nat]]
  BY <1>1, <1>3
<1>5. ASSUME NEW k \in Keys
      PROVE  /\ mark'[k][now + 1] = granted[k]
             /\ \A t \in 0 .. now : mark'[k][t] = mark[k][t]
  <2>1. mark[k] \in [0 .. MaxTime -> Nat]
    BY <1>2
  <2>2. mark'[k] = [mark[k] EXCEPT ![now + 1] = granted[k]]
    BY <1>1
  <2> QED BY <1>2, <2>1, <2>2
<1>6. HistoryOK'
  BY <1>1, <1>2, <1>4 DEF HistoryOK
<1>7. ASSUME NEW k \in Keys PROVE Monotone(k)'
  <2>1. /\ granted[k] \in Nat
        /\ \A t \in 0 .. now : mark[k][t] <= granted[k]
        /\ \A s, t \in 0 .. now : s <= t => mark[k][s] <= mark[k][t]
    BY MarkNat
  <2> QED BY <1>1, <1>2, <1>5, <2>1 DEF Monotone
<1> QED BY <1>1, <1>5, <1>6, <1>7 DEF HistoryInv

-----------------------------------------------------------------------------
(***************************************************************************)
(* The instant of the request that started window w.                       *)
(***************************************************************************)
Start(w) == w.windowEnd - Window

(***************************************************************************)
(* How many windows can start within d ticks: two starts are more than     *)
(* Window ticks apart.                                                     *)
(***************************************************************************)
WindowsFrom(d) == (d + Window) \div (Window + 1)

(***************************************************************************)
(* w can be the window of k: it has counted what was granted since it      *)
(* started, nothing was granted after its end, and before its start each   *)
(* window took no more than the limit.                                     *)
(***************************************************************************)
Runs(k, w) ==
  /\ w \in Fixed!WindowState
  /\ Start(w) \in 0 .. now
  /\ w.count = granted[k] - mark[k][Start(w)]
  /\ \A t \in 0 .. now : t > w.windowEnd => mark[k][t] = granted[k]
  /\ \A s \in 0 .. Start(w) :
       mark[k][Start(w)] - mark[k][s] <= Limit * WindowsFrom(Start(w) - s)

(***************************************************************************)
(* The fixed window's invariant: every stored window runs, expired or not, *)
(* and a key without one was granted nothing.                              *)
(***************************************************************************)
FixedInv ==
  /\ HistoryInv
  /\ DOMAIN table \subseteq Keys
  /\ \A k \in Keys :
       IF k \in DOMAIN table THEN Runs(k, table[k])
       ELSE granted[k] = 0 /\ \A t \in 0 .. now : mark[k][t] = 0

(***************************************************************************)
(* One more window fits into Window + 1 more ticks, and the budget is that *)
(* of the windows that start and of one that was running.                  *)
(***************************************************************************)
LEMMA WindowsFromFacts ==
  ASSUME NEW d \in Nat
  PROVE  /\ WindowsFrom(d) \in Nat
         /\ d >= 1 => WindowsFrom(d) >= 1
         /\ \A e \in Nat : d <= e => WindowsFrom(d) <= WindowsFrom(e)
         /\ WindowsFrom(d + (Window + 1)) = WindowsFrom(d) + 1
         /\ Fixed!Budget(d) = Limit * WindowsFrom(d) + Limit
         /\ Limit * WindowsFrom(d) \in Nat
<1> DEFINE m == Window + 1
           a == d + Window
<1>1. m \in Nat \ {0} /\ a \in Nat /\ Limit \in Nat
  BY LimitersAssumption
<1>2. (d + m) + Window = a + m
  BY LimitersAssumption
<1>3. /\ a \div m \in Nat
      /\ a >= m => a \div m >= 1
      /\ (a + m) \div m = a \div m + 1
      /\ \A b \in Nat : a <= b => a \div m <= b \div m
  BY <1>1, DivFacts
<1>4. d >= 1 => a >= m
  BY LimitersAssumption
<1>5. ASSUME NEW e \in Nat, d <= e PROVE WindowsFrom(d) <= WindowsFrom(e)
  <2>1. e + Window \in Nat /\ a <= e + Window
    BY <1>5, LimitersAssumption
  <2> QED BY <1>3, <2>1 DEF WindowsFrom
<1>6. WindowsFrom(d) = a \div m /\ WindowsFrom(d + m) = (a + m) \div m
  BY <1>2 DEF WindowsFrom
<1>7. Fixed!Budget(d) = Limit * (1 + WindowsFrom(d))
  BY DEF Fixed!Budget, WindowsFrom
<1>8. WindowsFrom(d) \in Nat
  BY <1>3, <1>6
<1>9. Limit * (1 + WindowsFrom(d)) = Limit * WindowsFrom(d) + Limit
      /\ Limit * WindowsFrom(d) \in Nat
  BY <1>1, <1>8, TimesFacts
<1> QED BY <1>3, <1>4, <1>5, <1>6, <1>7, <1>8, <1>9

(***************************************************************************)
(* The fields of a window.                                                 *)
(***************************************************************************)
LEMMA RunsFacts ==
  ASSUME HistoryInv, NEW k \in Keys, NEW w, Runs(k, w)
  PROVE  /\ w.count \in 0 .. Limit /\ w.windowEnd \in Nat
         /\ w = [count |-> w.count, windowEnd |-> w.windowEnd]
         /\ Start(w) \in 0 .. now /\ w.windowEnd = Start(w) + Window
<1>1. w \in [count : 0 .. Limit, windowEnd : 0 .. MaxTime + Window]
  BY DEF Runs, Fixed!WindowState
<1>2. w.count \in 0 .. Limit /\ w.windowEnd \in Nat
      /\ w = [count |-> w.count, windowEnd |-> w.windowEnd]
  BY <1>1, LimitersAssumption
<1> QED BY <1>2, LimitersAssumption DEF Runs, Start

(***************************************************************************)
(* The window AllowN counts in, a fresh one in the place of one that has   *)
(* expired or none, runs and has not ended.                                *)
(***************************************************************************)
LEMMA CurrentRuns ==
  ASSUME FixedInv, NEW k \in Keys
  PROVE  Runs(k, Fixed!Current(k)) /\ now <= Fixed!Current(k).windowEnd
<1>0. HistoryInv
  BY DEF FixedInv
<1>a. /\ now \in Nat /\ MaxTime \in Nat /\ now <= MaxTime
      /\ granted[k] \in Nat
      /\ \A t \in 0 .. now : mark[k][t] \in Nat /\ mark[k][t] <= granted[k]
      /\ \A s, t \in 0 .. now : s <= t => mark[k][s] <= mark[k][t]
  BY <1>0, MarkNat
<1>b. Window \in Nat /\ Window > 0 /\ Limit \in Nat
  BY LimitersAssumption
<1> DEFINE c == [count |-> 0, windowEnd |-> now + Window]
<1>1. CASE ~Fixed!Expired(k)
  <2>1. k \in DOMAIN table /\ ~(now > table[k].windowEnd)
        /\ Fixed!Current(k) = table[k]
    BY <1>1 DEF Fixed!Expired, Fixed!Current
  <2>2. Runs(k, table[k])
    BY <2>1 DEF FixedInv
  <2> QED BY <1>0, <1>a, <2>1, <2>2, RunsFacts
<1>2. CASE Fixed!Expired(k)
  <2>1. Fixed!Current(k) = c
    BY <1>2 DEF Fixed!Current
  <2>2. /\ c \in Fixed!WindowState /\ c.count = 0 /\ c.windowEnd = now + Window
        /\ Start(c) = now
    BY <1>a, <1>b DEF Fixed!WindowState, Start
  <2> HIDE DEF c
  <2>3. mark[k][now] = granted[k]
        /\ \A s \in 0 .. now :
             granted[k] - mark[k][s] <= Limit * WindowsFrom(now - s)
    <3>1. CASE k \notin DOMAIN table
      <4>1. granted[k] = 0 /\ \A t \in 0 .. now : mark[k][t] = 0
        BY <3>1 DEF FixedInv
      <4> SUFFICES ASSUME NEW s \in 0 .. now
                   PROVE  0 <= Limit * WindowsFrom(now - s)
        BY <1>a, <4>1
      <4> QED BY <1>a, WindowsFromFacts
    <3>2. CASE k \in DOMAIN table
      <4> DEFINE w == table[k]
                 b == Start(w)
      <4>1. Runs(k, w) /\ now > w.windowEnd
        BY <1>2, <3>2 DEF FixedInv, Fixed!Expired
      <4> HIDE DEF w
      <4>2. /\ w.count \in 0 .. Limit /\ w.windowEnd \in Nat
            /\ b \in 0 .. now /\ w.windowEnd = b + Window
        BY <1>0, <4>1, RunsFacts
      <4>3. /\ w.count = granted[k] - mark[k][b]
            /\ \A t \in 0 .. now : t > w.windowEnd => mark[k][t] = granted[k]
            /\ \A s \in 0 .. b :
                 mark[k][b] - mark[k][s] <= Limit * WindowsFrom(b - s)
        BY <4>1 DEF Runs
      <4> HIDE DEF b
      <4>4. mark[k][now] = granted[k]
        BY <1>a, <4>1, <4>3
      <4>5. ASSUME NEW s \in 0 .. now
            PROVE  granted[k] - mark[k][s] <= Limit * WindowsFrom(now - s)
        <5>1. now - s \in Nat
          BY <1>a
        <5>2. CASE s <= b
          <6> DEFINE d == b - s
          <6>1. d \in Nat /\ d + (Window + 1) \in Nat
                /\ d + (Window + 1) <= now - s
            BY <1>a, <1>b, <4>1, <4>2, <5>2
          <6>2. mark[k][b] - mark[k][s] <= Limit * WindowsFrom(d)
            BY <1>a, <4>2, <4>3, <5>2
          <6> HIDE DEF d
          <6>3. granted[k] - mark[k][s] <= Limit * WindowsFrom(d) + Limit
            <7> DEFINE x == Limit * WindowsFrom(d)
            <7>1. x \in Nat /\ mark[k][b] - mark[k][s] <= x
              BY <6>1, <6>2, WindowsFromFacts
            <7> HIDE DEF x
            <7>2. granted[k] - mark[k][s] <= x + Limit
              BY <1>a, <1>b, <4>2, <4>3, <7>1
            <7> QED BY <7>2 DEF x
          <6>4. /\ WindowsFrom(d) \in Nat /\ WindowsFrom(now - s) \in Nat
                /\ WindowsFrom(d) + 1 <= WindowsFrom(now - s)
            BY <5>1, <6>1, WindowsFromFacts
          <6>5. Limit * WindowsFrom(d) + Limit <= Limit * WindowsFrom(now - s)
            <7> DEFINE p == WindowsFrom(d)
                       q == WindowsFrom(now - s)
            <7> HIDE DEF p, q
            <7>1. p \in Nat /\ q \in Nat /\ p + 1 \in Nat /\ p + 1 <= q
              BY <6>4 DEF p, q
            <7>2. Limit * (p + 1) = Limit * p + Limit
                  /\ Limit * (p + 1) <= Limit * q
              BY <1>b, <7>1, TimesFacts
            <7> QED BY <7>2 DEF p, q
          <6>6. /\ Limit * WindowsFrom(d) \in Nat
                /\ Limit * WindowsFrom(now - s) \in Nat
            BY <5>1, <6>1, WindowsFromFacts
          <6> QED BY <1>a, <1>b, <6>3, <6>5, <6>6
        <5>3. CASE b < s /\ s <= w.windowEnd
          <6>1. granted[k] - mark[k][s] <= Limit
            BY <1>a, <1>b, <4>2, <4>3, <5>3
          <6>2. WindowsFrom(now - s) \in Nat /\ WindowsFrom(now - s) >= 1
            BY <1>a, <4>1, <4>2, <5>1, <5>3, WindowsFromFacts
          <6>3. Limit <= Limit * WindowsFrom(now - s)
            <7> DEFINE q == WindowsFrom(now - s)
            <7> HIDE DEF q
            <7>1. q \in Nat /\ 1 <= q
              BY <6>2 DEF q
            <7> QED BY <1>b, <7>1, TimesFacts DEF q
          <6>4. Limit * WindowsFrom(now - s) \in Nat
            BY <5>1, WindowsFromFacts
          <6> QED BY <1>a, <1>b, <6>1, <6>3, <6>4
        <5>4. CASE s > w.windowEnd
          <6>1. granted[k] - mark[k][s] = 0
            BY <1>a, <4>3, <5>4
          <6> QED BY <5>1, <6>1, WindowsFromFacts
        <5> QED BY <1>a, <4>2, <5>2, <5>3, <5>4
      <4> QED BY <4>4, <4>5
    <3> QED BY <3>1, <3>2
  <2>4. Runs(k, c)
    <3>1. 0 = granted[k] - mark[k][now]
      BY <1>a, <2>3
    <3>2. \A t \in 0 .. now : ~(t > c.windowEnd)
      BY <1>a, <1>b, <2>2
    <3> QED BY <1>a, <2>2, <2>3, <3>1, <3>2 DEF Runs
  <2> QED BY <1>a, <1>b, <2>1, <2>2, <2>4
<1> QED BY <1>1, <1>2

(***************************************************************************)
(* What the current window has room for is within the budget of every      *)
(* interval that ends now: its part before the window started, and the     *)
(* window.                                                                 *)
(***************************************************************************)
LEMMA GrantInWindow ==
  ASSUME HistoryInv, NEW k \in Keys, NEW w, Runs(k, w), now <= w.windowEnd,
         NEW n \in Nat, w.count + n <= Limit, NEW s \in 0 .. now
  PROVE  GrantedSince(k, s) + n <= Fixed!Budget(now - s)
<1> DEFINE b == Start(w)
           x == Limit * WindowsFrom(now - s)
           y == Limit * WindowsFrom(b - s)
<1>1. /\ now \in Nat /\ granted[k] \in Nat /\ Limit \in Nat
      /\ \A t \in 0 .. now : mark[k][t] \in Nat /\ mark[k][t] <= granted[k]
      /\ \A r, t \in 0 .. now : r <= t => mark[k][r] <= mark[k][t]
  BY MarkNat, LimitersAssumption
<1>2. w.count \in 0 .. Limit /\ b \in 0 .. now
  BY RunsFacts
<1>3. /\ w.count = granted[k] - mark[k][b]
      /\ \A r \in 0 .. b :
           mark[k][b] - mark[k][r] <= Limit * WindowsFrom(b - r)
  BY DEF Runs
<1>4. now - s \in Nat /\ x \in Nat /\ Fixed!Budget(now - s) = x + Limit
  <2>1. now - s \in Nat
    BY <1>1
  <2> QED BY <2>1, WindowsFromFacts
<1>5. s <= b => mark[k][b] - mark[k][s] <= y
  BY <1>1, <1>2, <1>3
<1>6. s <= b => y \in Nat /\ y <= x
  <2> SUFFICES ASSUME s <= b PROVE y \in Nat /\ y <= x
    OBVIOUS
  <2> DEFINE p == WindowsFrom(b - s)
             q == WindowsFrom(now - s)
  <2>1. b - s \in Nat /\ b - s <= now - s
    BY <1>1, <1>2
  <2>2. p \in Nat /\ q \in Nat /\ p <= q
    BY <1>4, <2>1, WindowsFromFacts
  <2> HIDE DEF p, q
  <2>3. Limit * p \in Nat /\ Limit * p <= Limit * q
    BY <1>1, <2>2, TimesFacts
  <2> QED BY <2>3 DEF p, q
<1> HIDE DEF b, x, y
<1>7. granted[k] - mark[k][s] + n <= x + Limit
  BY <1>1, <1>2, <1>3, <1>4, <1>5, <1>6
<1> QED BY <1>4, <1>7 DEF GrantedSince

(***************************************************************************)
(* The invariant implies type correctness.                                 *)
(***************************************************************************)
LEMMA FixedTypes ==
  ASSUME FixedInv PROVE Fixed!TypeOK
<1>1. HistoryInv
  BY DEF FixedInv
<1>2. Fixed!HistoryOK
  BY <1>1 DEF HistoryInv, HistoryOK, Fixed!HistoryOK
<1>3. ASSUME NEW k \in DOMAIN table
      PROVE  /\ table[k] \in Fixed!WindowState
             /\ table[k].windowEnd <= now + Window
  <2>1. k \in Keys /\ Runs(k, table[k])
    BY DEF FixedInv
  <2>2. table[k] \in Fixed!WindowState
    BY <2>1 DEF Runs
  <2> DEFINE w == table[k]
  <2>3. Start(w) \in 0 .. now /\ w.windowEnd = Start(w) + Window
    BY <1>1, <2>1, RunsFacts
  <2> HIDE DEF w
  <2>4. now \in Nat /\ Window \in Nat
    BY <1>1, <2>1, MarkNat, LimitersAssumption
  <2>5. w.windowEnd <= now + Window
    BY <2>3, <2>4
  <2> QED BY <2>2, <2>5 DEF w
<1> QED BY <1>2, <1>3 DEF Fixed!TypeOK, FixedInv

(***************************************************************************)
(* The fixed window refuses only what exceeds the limit, since its window  *)
(* started.                                                                *)
(***************************************************************************)
LEMMA FixedExcess ==
  ASSUME FixedInv PROVE Fixed!RefusesOnlyExcess
<1> SUFFICES ASSUME NEW k \in Keys, NEW n \in 1 .. MaxBatch
             PROVE  /\ ~Fixed!Admits(k, n) =>
                         \E s \in 0 .. now :
                            /\ now - s <= Window
                            /\ Fixed!GrantedSince(k, s) + n > Limit
                    /\ Fixed!Remaining(k) >= n <=> Fixed!Admits(k, n)
  BY DEF Fixed!RefusesOnlyExcess
<1> DEFINE w == Fixed!Current(k)
<1>1. HistoryInv /\ n \in Nat /\ n > 0 /\ Window \in Nat /\ Limit \in Nat
  BY LimitersAssumption DEF FixedInv
<1>2. Runs(k, w) /\ now <= w.windowEnd
  BY CurrentRuns
<1>3. Fixed!Admits(k, n) <=> w.count + n <= Limit
  BY DEF Fixed!Admits
<1>4. /\ Fixed!Expired(k) => w.count = 0 /\ Fixed!Remaining(k) = Limit
      /\ ~Fixed!Expired(k) =>
           Fixed!Remaining(k) =
             IF Limit - w.count < 0 THEN 0 ELSE Limit - w.count
  BY DEF Fixed!Current, Fixed!Remaining
<1> HIDE DEF w
<1>5. /\ w.count \in 0 .. Limit /\ w.windowEnd = Start(w) + Window
      /\ Start(w) \in 0 .. now
  BY <1>1, <1>2, RunsFacts
<1>6. w.count = granted[k] - mark[k][Start(w)]
  BY <1>2 DEF Runs
<1>7. now \in Nat
  BY <1>1, MarkNat
<1>8. ~Fixed!Admits(k, n) =>
        \E s \in 0 .. now :
           now - s <= Window /\ Fixed!GrantedSince(k, s) + n > Limit
  <2> SUFFICES ASSUME ~Fixed!Admits(k, n)
               PROVE  /\ now - Start(w) <= Window
                      /\ Fixed!GrantedSince(k, Start(w)) + n > Limit
    BY <1>5
  <2>1. now - Start(w) <= Window
    BY <1>1, <1>2, <1>5, <1>7
  <2>2. Fixed!GrantedSince(k, Start(w)) = w.count
    BY <1>6 DEF Fixed!GrantedSince
  <2> QED BY <1>1, <1>3, <1>5, <2>1, <2>2
<1>9. Fixed!Remaining(k) >= n <=> Fixed!Admits(k, n)
  BY <1>1, <1>3, <1>4, <1>5
<1> QED BY <1>8, <1>9

(***************************************************************************)
(* A step that stores a window that runs, and grants to no other key,      *)
(* keeps the invariant.                                                    *)
(***************************************************************************)
LEMMA FixedStores ==
  ASSUME FixedInv, NEW k \in Keys, NEW w, Fixed!Store(k, w), HistoryInv',
         Runs(k, w)', now' = now, mark' = mark,
         \A j \in Keys : j # k => granted'[j] = granted[j]
  PROVE  FixedInv'
<1>1. /\ DOMAIN table' = DOMAIN table \cup {k}
      /\ table'[k] = w
      /\ \A j \in DOMAIN table : j # k => table'[j] = table[j]
  BY DEF Fixed!Store
<1>2. DOMAIN table' \subseteq Keys
  BY <1>1 DEF FixedInv
<1>3. ASSUME NEW j \in Keys
      PROVE  (IF j \in DOMAIN table THEN Runs(j, table[j])
              ELSE granted[j] = 0 /\ \A t \in 0 .. now : mark[j][t] = 0)'
  <2>1. CASE j = k
    <3>1. k \in DOMAIN table' /\ Runs(k, table[k])'
      BY <1>1 DEF Runs, Start
    <3> QED BY <2>1, <3>1
  <2>2. CASE j # k /\ j \in DOMAIN table
    <3>1. PICK u : u = table[j] /\ u = table'[j]
      BY <1>1, <2>2
    <3>2. Runs(j, u)
      BY <2>2, <3>1 DEF FixedInv
    <3>3. Runs(j, u)'
      BY <2>2, <3>2 DEF Runs, Start, Fixed!WindowState
    <3>4. Runs(j, table[j])'
      BY <3>1, <3>3 DEF Runs, Start
    <3> QED BY <1>1, <2>2, <3>4
  <2>3. CASE j # k /\ j \notin DOMAIN table
    BY <1>1, <2>3 DEF FixedInv
  <2> QED BY <2>1, <2>2, <2>3
<1> QED BY <1>2, <1>3 DEF FixedInv

(***************************************************************************)
(* AllowN returns true: the window counts the batch, which is a grant of   *)
(* the contract.                                                           *)
(***************************************************************************)
LEMMA FixedAllow ==
  ASSUME FixedInv, NEW k \in Keys, NEW n \in 1 .. MaxBatch, Fixed!AllowN(k, n)
  PROVE  FixedInv' /\ Fixed!Contract!Grant(k, n)
<1>a. PICK w : w = Fixed!Current(k)
  OBVIOUS
<1>b. PICK v : v = [w EXCEPT !.count = @ + n]
  OBVIOUS
<1>1. HistoryInv /\ n \in Nat /\ Limit \in Nat
  BY LimitersAssumption DEF FixedInv
<1>2. Runs(k, w) /\ now <= w.windowEnd
  BY <1>a, CurrentRuns
<1>3. w.count + n <= Limit /\ Fixed!Store(k, v) /\ Granted(k, n)
  BY <1>a, <1>b DEF Fixed!AllowN, Fixed!Admits, Fixed!Granted, Granted
<1>4. /\ HistoryInv' /\ now' = now /\ mark' = mark
      /\ granted'[k] = granted[k] + n
      /\ \A j \in Keys : j # k => granted'[j] = granted[j]
  BY <1>1, <1>3, GrantKeeps
<1>5. ASSUME NEW s \in 0 .. now
      PROVE  Fixed!Contract!GrantedSince(k, s) + n <= Fixed!Budget(now - s)
  BY <1>1, <1>2, <1>3, GrantInWindow
     DEF GrantedSince, Fixed!Contract!GrantedSince
<1>6. Fixed!Contract!Grant(k, n)
  BY <1>3, <1>5 DEF Fixed!Contract!Grant, Fixed!Contract!WithinBudget, Granted
<1>7. /\ w.count \in 0 .. Limit /\ w.windowEnd \in Nat
      /\ w = [count |-> w.count, windowEnd |-> w.windowEnd]
      /\ w \in Fixed!WindowState
      /\ Start(w) \in 0 .. now /\ w.windowEnd = Start(w) + Window
  BY <1>1, <1>2, RunsFacts DEF Runs
<1>8. /\ w.count = granted[k] - mark[k][Start(w)]
      /\ \A t \in 0 .. now : t > w.windowEnd => mark[k][t] = granted[k]
      /\ \A s \in 0 .. Start(w) :
           mark[k][Start(w)] - mark[k][s] <= Limit * WindowsFrom(Start(w) - s)
  BY <1>2 DEF Runs
<1>9. /\ v \in Fixed!WindowState /\ v.count = w.count + n
      /\ v.windowEnd = w.windowEnd
  BY <1>1, <1>3, <1>7, <1>b DEF Fixed!WindowState
<1>10. Start(v) = Start(w)
  BY <1>9 DEF Start
<1>11. Runs(k, v)'
  <2>1. now \in Nat /\ granted[k] \in Nat
        /\ \A t \in 0 .. now : mark[k][t] \in Nat
    BY <1>1, MarkNat
  <2>2. Start(v)' = Start(w) /\ (v \in Fixed!WindowState)'
    BY <1>9, <1>10 DEF Start
  <2>3. v.count = granted'[k] - mark'[k][Start(w)]
    BY <1>1, <1>4, <1>7, <1>8, <1>9, <2>1
  <2>4. \A t \in 0 .. now : ~(t > v.windowEnd)
    BY <1>2, <1>7, <1>9, <2>1
  <2> QED BY <1>4, <1>7, <1>8, <1>9, <1>10, <2>2, <2>3, <2>4 DEF Runs
<1>12. FixedInv'
  BY <1>3, <1>4, <1>11, FixedStores, Zenon
<1> QED BY <1>6, <1>12

(***************************************************************************)
(* AllowN returns false: a fresh window may be stored, and no grant is     *)
(* recorded.                                                               *)
(***************************************************************************)
LEMMA FixedRefuse ==
  ASSUME FixedInv, NEW k \in Keys, NEW n \in 1 .. MaxBatch, Fixed!RefuseN(k, n)
  PROVE  FixedInv' /\ UNCHANGED history
<1>a. PICK w : w = Fixed!Current(k)
  OBVIOUS
<1>1. Fixed!Store(k, w) /\ now' = now /\ granted' = granted /\ mark' = mark
  BY <1>a DEF Fixed!RefuseN, Fixed!history
<1>2. Runs(k, w)
  BY <1>a, CurrentRuns
<1>3. Runs(k, w)'
  BY <1>1, <1>2 DEF Runs, Start, Fixed!WindowState
<1>4. HistoryInv'
  BY <1>1 DEF FixedInv, HistoryInv, HistoryOK, Monotone
<1>5. FixedInv'
  BY <1>1, <1>3, <1>4, FixedStores, Zenon
<1> QED BY <1>1, <1>5 DEF history

(***************************************************************************)
(* Windows keep running, or expire, when the clock moves on.               *)
(***************************************************************************)
LEMMA FixedTick ==
  ASSUME FixedInv, Fixed!Tick
  PROVE  FixedInv' /\ Fixed!Contract!Tick
<1>1. HistoryInv /\ Passes /\ table' = table
  BY DEF FixedInv, Fixed!Tick, Fixed!Passes, Passes
<1>2. /\ HistoryInv' /\ now' = now + 1 /\ granted' = granted
      /\ \A k \in Keys : mark'[k][now + 1] = granted[k]
      /\ \A k \in Keys : \A t \in 0 .. now : mark'[k][t] = mark[k][t]
  BY <1>1, PassKeeps
<1>3. Fixed!Contract!Tick
  BY <1>1 DEF Passes, Fixed!Contract!Tick
<1>4. ASSUME NEW k \in Keys, NEW w, Runs(k, w) PROVE Runs(k, w)'
  <2>1. now \in Nat /\ 0 .. now' = (0 .. now) \cup {now + 1}
    BY <1>1, <1>2, MarkNat
  <2>2. /\ w \in Fixed!WindowState
        /\ Start(w) \in 0 .. now
        /\ w.count = granted[k] - mark[k][Start(w)]
        /\ \A t \in 0 .. now : t > w.windowEnd => mark[k][t] = granted[k]
        /\ \A s \in 0 .. Start(w) :
             mark[k][Start(w)] - mark[k][s]
               <= Limit * WindowsFrom(Start(w) - s)
    BY <1>4 DEF Runs
  <2>3. Start(w)' = Start(w) /\ 0 .. Start(w) \subseteq 0 .. now
    BY <2>1, <2>2 DEF Start
  <2>4. \A s \in 0 .. Start(w) :
          mark'[k][Start(w)] - mark'[k][s] = mark[k][Start(w)] - mark[k][s]
    BY <1>2, <2>2, <2>3
  <2>5. \A t \in 0 .. now' : t > w.windowEnd => mark'[k][t] = granted'[k]
    BY <1>2, <2>1, <2>2
  <2>6. w.count = granted'[k] - mark'[k][Start(w)]
    BY <1>2, <2>2
  <2>7. Start(w) \in 0 .. now'
    BY <2>1, <2>2
  <2>8. (w \in Fixed!WindowState)'
    BY <2>2 DEF Fixed!WindowState
  <2>9. \A s \in 0 .. Start(w) :
          mark'[k][Start(w)] - mark'[k][s] <= Limit * WindowsFrom(Start(w) - s)
    BY <2>2, <2>4
  <2> QED BY <2>3, <2>5, <2>6, <2>7, <2>8, <2>9 DEF Runs
<1>5. ASSUME NEW k \in Keys, k \in DOMAIN table PROVE Runs(k, table[k])'
  <2>1. Runs(k, table[k])
    BY <1>5 DEF FixedInv
  <2>3. PICK w : w = table[k] /\ w = table'[k]
    BY <1>1
  <2>4. Runs(k, w)'
    BY <1>4, <2>1, <2>3
  <2> QED BY <2>3, <2>4 DEF Runs, Start
<1>6. ASSUME NEW k \in Keys, k \notin DOMAIN table
      PROVE  granted'[k] = 0 /\ \A t \in 0 .. now' : mark'[k][t] = 0
  <2>1. now \in Nat /\ 0 .. now' = (0 .. now) \cup {now + 1}
    BY <1>1, <1>2, <1>6, MarkNat
  <2> QED BY <1>2, <1>6, <2>1 DEF FixedInv
<1>7. FixedInv'
  BY <1>1, <1>2, <1>5, <1>6 DEF FixedInv
<1> QED BY <1>3, <1>7

(***************************************************************************)
(* There are no windows at the start.                                      *)
(***************************************************************************)
LEMMA FixedInit ==
  ASSUME Fixed!Init PROVE FixedInv
<1>1. NewHistory /\ table = << >>
  BY DEF Fixed!Init, Fixed!NewHistory, NewHistory, Fixed!NewFixedWindow
<1>2. DOMAIN table = {}
  BY <1>1
<1> QED BY <1>1, <1>2, InitHistory DEF FixedInv

(***************************************************************************)
(* Every step of the fixed window keeps its invariant and is a step of the *)
(* contract, or leaves the history alone.                                  *)
(***************************************************************************)
LEMMA FixedStep ==
  ASSUME FixedInv, Fixed!Next
  PROVE  FixedInv' /\ (Fixed!Contract!Next \/ UNCHANGED history)
  BY FixedTick, FixedAllow, FixedRefuse DEF Fixed!Next, Fixed!Contract!Next

-----------------------------------------------------------------------------
(***************************************************************************)
(* v is what remains of the first n entries of es when those up to c are   *)
(* dropped: the last ones, in their order.                                 *)
(***************************************************************************)
Pruned(v, es, c, n) ==
  /\ v \in Seq(0 .. MaxTime)
  /\ Len(v) <= n
  /\ \A i \in 1 .. Len(v) : v[i] = es[(n - Len(v)) + i]
  /\ \A m \in 1 .. n : es[m] > c <=> m > n - Len(v)

(***************************************************************************)
(* The order of the entries of a log.                                      *)
(***************************************************************************)
Ascending(es) ==
  \A i, j \in 1 .. Len(es) : i <= j => es[i] <= es[j]

(***************************************************************************)
(* f is what the loop over the entries has kept after 0, 1, ..., n of      *)
(* them.                                                                   *)
(***************************************************************************)
Kept(f, es, c, n) ==
  f = [i \in 0 .. n |->
        IF i = 0 THEN << >> ELSE Sliding!KeepIfAfter(f[i - 1], es[i], c)]

(***************************************************************************)
(* The recursion of EntriesAfter has a solution.                           *)
(***************************************************************************)
LEMMA KeptExists == \A es, c : \A n \in Nat : \E f : Kept(f, es, c, n)
<1> TAKE es, c
<1> DEFINE S == {n \in Nat : \E f : Kept(f, es, c, n)}
<1>1. 0 \in S
  <2> DEFINE f == [i \in 0 .. 0 |-> << >>]
  <2>1. Kept(f, es, c, 0)
    BY DEF Kept
  <2> QED BY <2>1
<1>2. ASSUME NEW n \in Nat, n \in S PROVE n + 1 \in S
  <2>1. PICK f : Kept(f, es, c, n)
    BY <1>2
  <2> DEFINE g == [i \in 0 .. n + 1 |->
                    IF i = 0 THEN << >>
                    ELSE Sliding!KeepIfAfter(f[i - 1], es[i], c)]
  <2>2. \A i \in 0 .. n : g[i] = f[i]
    BY <2>1 DEF Kept
  <2>3. \A i \in 0 .. n + 1 : i # 0 => i - 1 \in 0 .. n
    OBVIOUS
  <2>4. \A i \in 0 .. n + 1 : i # 0 => g[i - 1] = f[i - 1]
    BY <2>2, <2>3
  <2>5. Kept(g, es, c, n + 1)
    BY <2>4 DEF Kept
  <2> QED BY <2>5
<1> HIDE DEF S
<1>3. Nat \subseteq S
  BY <1>1, <1>2, NatSetInduction, Zenon
<1> QED BY <1>3 DEF S

(***************************************************************************)
(* One round of the loop: an entry that is dropped comes before all that   *)
(* are kept, because the log is in the order of time.                      *)
(***************************************************************************)
LEMMA PrunedStep ==
  ASSUME NEW es \in Seq(0 .. MaxTime), Ascending(es), NEW c \in Int,
         NEW n \in Nat, n + 1 <= Len(es), NEW v, Pruned(v, es, c, n)
  PROVE  Pruned(Sliding!KeepIfAfter(v, es[n + 1], c), es, c, n + 1)
<1>0. /\ v \in Seq(0 .. MaxTime) /\ Len(v) \in Nat /\ Len(v) <= n
      /\ es[n + 1] \in 0 .. MaxTime /\ MaxTime \in Nat
      /\ \A i \in 1 .. Len(v) : v[i] = es[(n - Len(v)) + i]
      /\ \A m \in 1 .. n : es[m] > c <=> m > n - Len(v)
      /\ \A m \in 1 .. n + 1 : es[m] \in Nat
  BY LimitersAssumption DEF Pruned
<1>1. CASE es[n + 1] > c
  <2> DEFINE u == Append(v, es[n + 1])
  <2>1. /\ u \in Seq(0 .. MaxTime) /\ Len(u) = Len(v) + 1
        /\ \A i \in 1 .. Len(v) : u[i] = v[i]
        /\ u[Len(v) + 1] = es[n + 1]
    BY <1>0
  <2> HIDE DEF u
  <2>2. \A i \in 1 .. Len(u) : u[i] = es[((n + 1) - Len(u)) + i]
    <3> TAKE i \in 1 .. Len(u)
    <3>1. CASE i = Len(v) + 1
      <4>1. ((n + 1) - Len(u)) + i = n + 1
        BY <1>0, <2>1, <3>1
      <4> QED BY <2>1, <3>1, <4>1
    <3>2. CASE i \in 1 .. Len(v)
      <4>1. ((n + 1) - Len(u)) + i = (n - Len(v)) + i
        BY <1>0, <2>1, <3>2
      <4> QED BY <1>0, <2>1, <3>2, <4>1
    <3> QED BY <1>0, <2>1, <3>1, <3>2
  <2>3. \A m \in 1 .. n + 1 : es[m] > c <=> m > (n + 1) - Len(u)
    BY <1>0, <1>1, <2>1
  <2>4. Len(u) <= n + 1
    BY <1>0, <2>1
  <2>5. Pruned(u, es, c, n + 1)
    BY <2>1, <2>2, <2>3, <2>4 DEF Pruned
  <2> QED BY <1>1, <2>5 DEF u, Sliding!KeepIfAfter
<1>2. CASE ~(es[n + 1] > c)
  <2>1. \A m \in 1 .. n + 1 : ~(es[m] > c)
    <3> TAKE m \in 1 .. n + 1
    <3>1. m \in 1 .. Len(es) /\ n + 1 \in 1 .. Len(es) /\ m <= n + 1
      OBVIOUS
    <3>2. es[m] <= es[n + 1] /\ es[m] \in Nat
      BY <1>0, <3>1 DEF Ascending
    <3> QED BY <1>0, <1>2, <3>2
  <2>2. Len(v) = 0
    <3> SUFFICES ASSUME Len(v) > 0 PROVE FALSE
      BY <1>0
    <3>1. n \in 1 .. n /\ n > n - Len(v)
      BY <1>0
    <3>2. es[n] > c
      BY <1>0, <3>1
    <3> QED BY <2>1, <3>1, <3>2
  <2>3. Pruned(v, es, c, n + 1)
    BY <1>0, <2>1, <2>2 DEF Pruned
  <2> QED BY <1>2, <2>3 DEF Sliding!KeepIfAfter
<1> QED BY <1>1, <1>2

(***************************************************************************)
(* What the loop of AllowN and Remaining leaves of a log.                  *)
(***************************************************************************)
LEMMA PrunedLog ==
  ASSUME NEW es \in Seq(0 .. MaxTime), Ascending(es), NEW c \in Int
  PROVE  Pruned(Sliding!EntriesAfter(es, c), es, c, Len(es))
<1> DEFINE n == Len(es)
           f == CHOOSE g : Kept(g, es, c, n)
<1>0. n \in Nat
  OBVIOUS
<1>1. Kept(f, es, c, n)
  BY <1>0, KeptExists
<1>2. Sliding!EntriesAfter(es, c) = f[n]
  BY DEF Sliding!EntriesAfter, Kept
<1> HIDE DEF f
<1> DEFINE S == {k \in Nat : k <= n => Pruned(f[k], es, c, k)}
<1>3. 0 \in S
  <2>1. f[0] = << >>
    BY <1>0, <1>1 DEF Kept
  <2>2. Pruned(<< >>, es, c, 0)
    BY DEF Pruned
  <2> QED BY <2>1, <2>2
<1>4. ASSUME NEW k \in Nat, k \in S PROVE k + 1 \in S
  <2> SUFFICES ASSUME k + 1 <= n PROVE Pruned(f[k + 1], es, c, k + 1)
    OBVIOUS
  <2>1. Pruned(f[k], es, c, k)
    BY <1>0, <1>4
  <2>2. f[k + 1] = Sliding!KeepIfAfter(f[k], es[k + 1], c)
    BY <1>0, <1>1 DEF Kept
  <2> QED BY <2>1, <2>2, PrunedStep
<1> HIDE DEF S
<1>5. Nat \subseteq S
  BY <1>3, <1>4, NatSetInduction, Zenon
<1> QED BY <1>0, <1>2, <1>5 DEF S

(***************************************************************************)
(* What a log is after n entries with the same time were appended.         *)
(***************************************************************************)
LEMMA Appended ==
  ASSUME NEW T, NEW v \in Seq(T), NEW n \in Nat, NEW x \in T,
         NEW u, u = v \o [i \in 1 .. n |-> x]
  PROVE  /\ u \in Seq(T) /\ Len(u) = Len(v) + n
         /\ \A i \in 1 .. Len(v) : u[i] = v[i]
         /\ \A i \in Len(v) + 1 .. Len(v) + n : u[i] = x
<1> DEFINE p == [i \in 1 .. n |-> x]
<1>1. p \in Seq(T) /\ Len(p) = n /\ \A i \in 1 .. n : p[i] = x
  OBVIOUS
<1>2. u = v \o p
  OBVIOUS
<1> HIDE DEF p
<1>3. /\ v \o p \in Seq(T) /\ Len(v \o p) = Len(v) + Len(p)
      /\ \A k \in 1 .. Len(v) + Len(p) :
           (v \o p)[k] = IF k <= Len(v) THEN v[k] ELSE p[k - Len(v)]
  BY <1>1, ConcatProperties
<1>4. /\ u \in Seq(T) /\ Len(u) = Len(v) + Len(p)
      /\ \A k \in 1 .. Len(v) + Len(p) :
           u[k] = IF k <= Len(v) THEN v[k] ELSE p[k - Len(v)]
  BY <1>2, <1>3, Zenon
<1>5. Len(v) \in Nat
  OBVIOUS
<1>6. \A i \in 1 .. Len(v) : u[i] = v[i]
  BY <1>1, <1>4, <1>5
<1>7. ASSUME NEW i \in Len(v) + 1 .. Len(v) + n PROVE u[i] = x
  <2>1. i \in 1 .. Len(v) + Len(p) /\ ~(i <= Len(v)) /\ i - Len(v) \in 1 .. n
    BY <1>1, <1>5
  <2> QED BY <1>1, <1>4, <2>1
<1> QED BY <1>1, <1>4, <1>6, <1>7

-----------------------------------------------------------------------------
(***************************************************************************)
(* The sliding window's budget grows by Limit with every window, and       *)
(* covers one at least.                                                    *)
(***************************************************************************)
LEMMA BudgetFacts ==
  ASSUME NEW d \in Nat
  PROVE  /\ Sliding!Budget(d) \in Nat
         /\ Limit <= Sliding!Budget(d)
         /\ \A e \in Nat : d <= e => Sliding!Budget(d) <= Sliding!Budget(e)
         /\ Sliding!Budget(d + Window) = Sliding!Budget(d) + Limit
<1>1. Window \in Nat \ {0} /\ Limit \in Nat
  BY LimitersAssumption
<1>2. \A e \in Nat : /\ e \div Window \in Nat
                     /\ Sliding!Budget(e) = Limit * (e \div Window + 1)
  BY <1>1, DivFacts DEF Sliding!Budget
<1>3. ASSUME NEW e \in Nat, d <= e
      PROVE  Sliding!Budget(d) <= Sliding!Budget(e)
  <2> DEFINE p == d \div Window + 1
             q == e \div Window + 1
  <2>1. p \in Nat /\ q \in Nat /\ p <= q
    BY <1>1, <1>3, DivFacts
  <2>2. Sliding!Budget(d) = Limit * p /\ Sliding!Budget(e) = Limit * q
    BY <1>2
  <2> HIDE DEF p, q
  <2>3. Limit * p <= Limit * q
    BY <1>1, <2>1, TimesFacts
  <2> QED BY <2>2, <2>3
<1>4. Sliding!Budget(d + Window) = Sliding!Budget(d) + Limit
      /\ Sliding!Budget(d) \in Nat
  <2> DEFINE p == d \div Window + 1
             q == (d + Window) \div Window + 1
  <2>1. p \in Nat /\ q = p + 1
    <3>1. /\ d \div Window \in Nat
          /\ (d + Window) \div Window = d \div Window + 1
      BY <1>1, DivFacts
    <3> QED BY <3>1
  <2>2. Sliding!Budget(d) = Limit * p /\ Sliding!Budget(d + Window) = Limit * q
    <3>1. d + Window \in Nat
      BY <1>1
    <3> QED BY <1>2, <3>1
  <2> HIDE DEF p, q
  <2>3. Limit * (p + 1) = Limit * p + Limit /\ Limit * p \in Nat
    BY <1>1, <2>1, TimesFacts
  <2> QED BY <2>1, <2>2, <2>3
<1>5. Limit <= Sliding!Budget(d)
  <2> DEFINE p == d \div Window
  <2>1. p \in Nat /\ Sliding!Budget(d) = Limit * (p + 1)
    BY <1>2
  <2> HIDE DEF p
  <2>2. Limit * (p + 1) = Limit * p + Limit /\ Limit * p \in Nat
    BY <1>1, <2>1, TimesFacts
  <2> QED BY <1>1, <2>1, <2>2
<1> QED BY <1>3, <1>4, <1>5

-----------------------------------------------------------------------------
(***************************************************************************)
(* Requests granted to k from tick s until now.                            *)
(***************************************************************************)
Since(k, s) == granted[k] - mark[k][s]

(***************************************************************************)
(* log can be the log of k: for every tick s within the window that ends   *)
(* now, its entries from s on are as many as were granted since. Entries   *)
(* from before the window may be there or not.                             *)
(***************************************************************************)
Covers(k, log) ==
  /\ log \in Seq(0 .. MaxTime)
  /\ Len(log) <= Limit
  /\ \A i \in 1 .. Len(log) : log[i] <= now
  /\ Ascending(log)
  /\ \A s \in 0 .. now : s > now - Window =>
       /\ Since(k, s) <= Len(log)
       /\ \A i \in 1 .. Len(log) : log[i] >= s <=> i > Len(log) - Since(k, s)

(***************************************************************************)
(* Every interval of the past kept to the budget, those that end now and   *)
(* those that ended before an earlier tick.                                *)
(***************************************************************************)
Past(k) ==
  /\ \A s \in 0 .. now : Since(k, s) <= Sliding!Budget(now - s)
  /\ \A s, t \in 0 .. now :
       s < t => mark[k][t] - mark[k][s] <= Sliding!Budget((t - 1) - s)

(***************************************************************************)
(* The sliding window's invariant.                                         *)
(***************************************************************************)
SlidingInv ==
  /\ HistoryInv
  /\ table \in [Keys -> Seq(0 .. MaxTime)]
  /\ \A k \in Keys : Covers(k, table[k]) /\ Past(k)

(***************************************************************************)
(* The numbers of the history, and the parameters.                         *)
(***************************************************************************)
LEMMA SinceFacts ==
  ASSUME HistoryInv, NEW k \in Keys
  PROVE  /\ now \in Nat /\ now \in 0 .. MaxTime /\ MaxTime \in Nat
         /\ Window \in Nat /\ Window > 0 /\ Limit \in Nat
         /\ granted[k] \in Nat
         /\ \A s \in 0 .. now : Since(k, s) \in Nat /\ mark[k][s] \in Nat
<1>1. /\ now \in Nat /\ MaxTime \in Nat /\ now <= MaxTime /\ granted[k] \in Nat
      /\ \A s \in 0 .. now : mark[k][s] \in Nat /\ mark[k][s] <= granted[k]
  BY MarkNat
<1> QED BY <1>1, LimitersAssumption DEF Since

(***************************************************************************)
(* A log's length and entries are numbers.                                 *)
(***************************************************************************)
LEMMA LogFacts ==
  ASSUME NEW log \in Seq(0 .. MaxTime)
  PROVE  Len(log) \in Nat /\ \A i \in 1 .. Len(log) : log[i] \in Nat
<1>1. Len(log) \in Nat
  OBVIOUS
<1>2. \A i \in 1 .. Len(log) : log[i] \in 0 .. MaxTime
  BY ElementOfSeq, Zenon
<1> QED BY <1>1, <1>2, LimitersAssumption

(***************************************************************************)
(* Dropping the expired entries loses none that counts.                    *)
(***************************************************************************)
LEMMA ValidCovers ==
  ASSUME HistoryInv, NEW k \in Keys, NEW log, Covers(k, log),
         NEW v, v = Sliding!EntriesAfter(log, now - Window)
  PROVE  /\ Covers(k, v)
         /\ \A i \in 1 .. Len(v) : v[i] > now - Window
<1> DEFINE c == now - Window
           n == Len(log)
<1>1. /\ now \in Nat /\ Window \in Nat /\ Limit \in Nat /\ c \in Int
      /\ \A s \in 0 .. now : Since(k, s) \in Nat
  BY SinceFacts
<1>2. /\ log \in Seq(0 .. MaxTime) /\ n \in Nat /\ n <= Limit
      /\ Ascending(log)
      /\ \A i \in 1 .. n : log[i] \in Nat /\ log[i] <= now
  BY LogFacts DEF Covers
<1>3. /\ v \in Seq(0 .. MaxTime) /\ Len(v) \in Nat /\ Len(v) <= n
      /\ \A i \in 1 .. Len(v) : v[i] = log[(n - Len(v)) + i]
      /\ \A m \in 1 .. n : log[m] > c <=> m > n - Len(v)
  <2>1. Pruned(v, log, c, n)
    BY <1>1, <1>2, PrunedLog
  <2> QED BY <2>1, LogFacts DEF Pruned
<1>4. \A i \in 1 .. Len(v) : (n - Len(v)) + i \in 1 .. n
  BY <1>2, <1>3
<1>5. \A i \in 1 .. Len(v) : v[i] > c /\ v[i] <= now
  <2> TAKE i \in 1 .. Len(v)
  <2> DEFINE m == (n - Len(v)) + i
  <2>1. m \in 1 .. n /\ m > n - Len(v) /\ v[i] = log[m]
    BY <1>2, <1>3, <1>4
  <2> QED BY <1>2, <1>3, <2>1
<1>6. Ascending(v)
  <2> SUFFICES ASSUME NEW i \in 1 .. Len(v), NEW j \in 1 .. Len(v), i <= j
               PROVE  v[i] <= v[j]
    BY DEF Ascending
  <2> DEFINE m == (n - Len(v)) + i
             l == (n - Len(v)) + j
  <2>1. m \in 1 .. n /\ l \in 1 .. n
    BY <1>4
  <2>2. m <= l
    BY <1>2, <1>3
  <2>3. v[i] = log[m] /\ v[j] = log[l]
    BY <1>3
  <2>4. log[m] <= log[l]
    BY <1>2, <2>1, <2>2 DEF Ascending
  <2> QED BY <2>3, <2>4
<1>7. ASSUME NEW s \in 0 .. now, s > c
      PROVE  /\ Since(k, s) <= Len(v)
             /\ \A i \in 1 .. Len(v) : v[i] >= s <=> i > Len(v) - Since(k, s)
  <2> DEFINE g == Since(k, s)
  <2>1. /\ g \in Nat /\ g <= n
        /\ \A i \in 1 .. n : log[i] >= s <=> i > n - g
    BY <1>1, <1>7 DEF Covers
  <2> HIDE DEF g
  <2>2. g <= Len(v)
    <3> SUFFICES ASSUME g > Len(v) PROVE FALSE
      BY <1>3, <2>1
    <3> DEFINE m == (n - g) + 1
    <3>1. m \in 1 .. n /\ m > n - g /\ ~(m > n - Len(v))
      BY <1>2, <1>3, <2>1
    <3>2. log[m] >= s /\ ~(log[m] > c) /\ log[m] \in Nat
      BY <1>2, <1>3, <2>1, <3>1
    <3> QED BY <1>1, <1>7, <3>2
  <2>3. ASSUME NEW i \in 1 .. Len(v) PROVE v[i] >= s <=> i > Len(v) - g
    <3> DEFINE m == (n - Len(v)) + i
    <3>1. m \in 1 .. n /\ v[i] = log[m]
      BY <1>3, <1>4
    <3>2. log[m] >= s <=> m > n - g
      BY <2>1, <3>1
    <3>3. m > n - g <=> i > Len(v) - g
      BY <1>2, <1>3, <2>1
    <3> QED BY <3>1, <3>2, <3>3
  <2> QED BY <2>2, <2>3 DEF g
<1>8. Len(v) <= Limit
  BY <1>1, <1>2, <1>3
<1> QED BY <1>3, <1>5, <1>6, <1>7, <1>8 DEF Covers

(***************************************************************************)
(* What remains of the log is exactly what was granted within the window   *)
(* that ends now.                                                          *)
(***************************************************************************)
LEMMA ValidCounts ==
  ASSUME HistoryInv, NEW k \in Keys, NEW v, Covers(k, v),
         \A i \in 1 .. Len(v) : v[i] > now - Window,
         NEW s, s = IF now < Window THEN 0 ELSE now - Window + 1
  PROVE  s \in 0 .. now /\ Len(v) = Since(k, s)
<1>1. /\ now \in Nat /\ Window \in Nat /\ Window > 0
      /\ \A t \in 0 .. now : Since(k, t) \in Nat
  BY SinceFacts
<1>2. s \in 0 .. now /\ s > now - Window
  BY <1>1
<1>3. /\ Len(v) \in Nat
      /\ \A i \in 1 .. Len(v) : v[i] \in Nat
  BY LogFacts DEF Covers
<1>4. /\ Since(k, s) \in Nat /\ Since(k, s) <= Len(v)
      /\ \A i \in 1 .. Len(v) : v[i] >= s <=> i > Len(v) - Since(k, s)
  BY <1>1, <1>2 DEF Covers
<1>5. \A i \in 1 .. Len(v) : v[i] >= s
  BY <1>1, <1>3
<1>6. Len(v) > 0 => 1 > Len(v) - Since(k, s)
  BY <1>3, <1>4, <1>5
<1> QED BY <1>2, <1>3, <1>4, <1>6

(***************************************************************************)
(* What the log has room for is within the budget of every interval that   *)
(* ends now: an interval longer than the window is one that ended before   *)
(* the window began, and the window.                                       *)
(***************************************************************************)
LEMMA GrantWithin ==
  ASSUME HistoryInv, NEW k \in Keys, Past(k), NEW v, Covers(k, v),
         NEW n \in Nat, Len(v) + n <= Limit, NEW s \in 0 .. now
  PROVE  Since(k, s) + n <= Sliding!Budget(now - s)
<1>1. /\ now \in Nat /\ Window \in Nat /\ Window > 0 /\ Limit \in Nat
      /\ \A t \in 0 .. now : Since(k, t) \in Nat /\ mark[k][t] \in Nat
      /\ granted[k] \in Nat /\ now - s \in Nat
  BY SinceFacts
<1>2. \A t \in 0 .. now : t > now - Window => Since(k, t) <= Len(v)
  BY DEF Covers
<1>3. Len(v) \in Nat
  BY LogFacts DEF Covers
<1>4. CASE s > now - Window
  <2>1. Since(k, s) + n <= Limit
    BY <1>1, <1>2, <1>3, <1>4
  <2>2. Sliding!Budget(now - s) \in Nat /\ Limit <= Sliding!Budget(now - s)
    BY <1>1, BudgetFacts
  <2> QED BY <1>1, <2>1, <2>2
<1>5. CASE ~(s > now - Window)
  <2> DEFINE t == (now - Window) + 1
             d == (t - 1) - s
  <2>1. t \in 0 .. now /\ t > now - Window /\ s < t /\ d \in Nat
        /\ d + Window = now - s
    BY <1>1, <1>5
  <2>3. mark[k][t] - mark[k][s] <= Sliding!Budget(d)
    BY <2>1 DEF Past
  <2> HIDE DEF t, d
  <2>2. Since(k, t) + n <= Limit
    <3>1. Since(k, t) \in Nat /\ Since(k, t) <= Len(v)
      BY <1>1, <1>2, <2>1
    <3> QED BY <1>1, <1>3, <3>1
  <2>6. Since(k, t) \in Nat /\ mark[k][t] \in Nat /\ mark[k][s] \in Nat
    BY <1>1, <2>1
  <2>4. Since(k, s) = Since(k, t) + (mark[k][t] - mark[k][s])
    <3>1. granted[k] \in Nat
      BY <1>1
    <3> QED BY <2>6, <3>1 DEF Since
  <2>5. Sliding!Budget(d) \in Nat
        /\ Sliding!Budget(now - s) = Sliding!Budget(d) + Limit
    BY <2>1, BudgetFacts
  <2> DEFINE a == Since(k, t)
             m == mark[k][t] - mark[k][s]
             x == Sliding!Budget(d)
  <2>7. a \in Nat /\ m \in Int /\ x \in Nat /\ a + n <= Limit /\ m <= x
    BY <2>2, <2>3, <2>5, <2>6
  <2> HIDE DEF a, m, x
  <2>8. (a + m) + n <= x + Limit
    BY <1>1, <2>7
  <2> QED BY <2>4, <2>5, <2>8 DEF a, m, x
<1> QED BY <1>4, <1>5

(***************************************************************************)
(* The invariant implies type correctness.                                 *)
(***************************************************************************)
LEMMA SlidingTypes ==
  ASSUME SlidingInv PROVE Sliding!TypeOK
<1>1. Sliding!HistoryOK
  BY DEF SlidingInv, HistoryInv, HistoryOK, Sliding!HistoryOK
<1> QED BY <1>1 DEF Sliding!TypeOK, SlidingInv, Covers, Ascending

(***************************************************************************)
(* The log is exact.                                                       *)
(***************************************************************************)
LEMMA SlidingExact ==
  ASSUME SlidingInv PROVE Sliding!LogExact
<1> SUFFICES ASSUME NEW k \in Keys, NEW n \in 1 .. MaxBatch,
                    NEW s, s = IF now < Window THEN 0 ELSE now - Window + 1
             PROVE  /\ Sliding!Admits(k, n) <=>
                         Sliding!GrantedSince(k, s) + n <= Limit
                    /\ Sliding!Remaining(k) >= n <=> Sliding!Admits(k, n)
  BY DEF Sliding!LogExact
<1> DEFINE v == Sliding!Valid(k)
<1>1. HistoryInv /\ n \in Nat /\ n > 0 /\ Limit \in Nat
  BY LimitersAssumption DEF SlidingInv
<1>2. Covers(k, table[k])
  BY DEF SlidingInv
<1>3. v = Sliding!EntriesAfter(table[k], now - Window)
  BY DEF Sliding!Valid
<1>4. Covers(k, v) /\ \A i \in 1 .. Len(v) : v[i] > now - Window
  BY <1>1, <1>2, <1>3, ValidCovers
<1>5. Sliding!Admits(k, n) <=> Len(v) + n <= Limit
  BY DEF Sliding!Admits
<1>6. Sliding!Remaining(k) = IF Limit - Len(v) < 0 THEN 0 ELSE Limit - Len(v)
  BY DEF Sliding!Remaining
<1> HIDE DEF v
<1>7. Len(v) \in Nat /\ Len(v) <= Limit
  BY <1>4, LogFacts DEF Covers
<1>8. Len(v) = Sliding!GrantedSince(k, s)
  BY <1>1, <1>4, ValidCounts DEF Since, Sliding!GrantedSince
<1> QED BY <1>1, <1>5, <1>6, <1>7, <1>8

(***************************************************************************)
(* A step that stores a log that covers the history, and grants to no      *)
(* other key, keeps the invariant.                                         *)
(***************************************************************************)
LEMMA SlidingStores ==
  ASSUME SlidingInv, NEW k \in Keys, NEW v,
         table' = [table EXCEPT ![k] = v], HistoryInv',
         Covers(k, v)', Past(k)', now' = now, mark' = mark,
         \A j \in Keys : j # k => granted'[j] = granted[j]
  PROVE  SlidingInv'
<1>1. /\ table' \in [Keys -> Seq(0 .. MaxTime)]
      /\ table'[k] = v
      /\ \A j \in Keys : j # k => table'[j] = table[j]
  <2>1. v \in Seq(0 .. MaxTime)
    BY DEF Covers
  <2> QED BY <2>1 DEF SlidingInv
<1>2. ASSUME NEW j \in Keys PROVE Covers(j, table[j])' /\ Past(j)'
  <2>1. CASE j = k
    <3>1. Covers(k, table[k])'
      BY <1>1 DEF Covers, Since, Ascending
    <3> QED BY <2>1, <3>1
  <2>2. CASE j # k
    <3>1. PICK u : u = table[j] /\ u = table'[j]
      BY <1>1, <2>2
    <3>2. Covers(j, u) /\ Past(j)
      BY <3>1 DEF SlidingInv
    <3>3. granted'[j] = granted[j]
      BY <2>2
    <3>4. Covers(j, u)'
      BY <3>2, <3>3 DEF Covers, Since, Ascending
    <3>5. Past(j)'
      BY <3>2, <3>3 DEF Past, Since, Sliding!Budget
    <3>6. Covers(j, table[j])'
      BY <3>1, <3>4 DEF Covers, Since, Ascending
    <3> QED BY <3>5, <3>6
  <2> QED BY <2>1, <2>2
<1> QED BY <1>1, <1>2 DEF SlidingInv

(***************************************************************************)
(* AllowN returns true: the entries of the batch are those of the present  *)
(* tick, and the grant is one of the contract.                             *)
(***************************************************************************)
LEMMA SlidingAllow ==
  ASSUME SlidingInv, NEW k \in Keys, NEW n \in 1 .. MaxBatch,
         Sliding!AllowN(k, n)
  PROVE  SlidingInv' /\ Sliding!Contract!Grant(k, n)
<1>a. PICK v : v = Sliding!Valid(k)
  OBVIOUS
<1>b. PICK x : x = now
  OBVIOUS
<1>c. PICK u : u = v \o [i \in 1 .. n |-> x]
  OBVIOUS
<1>1. /\ HistoryInv /\ n \in Nat /\ Limit \in Nat /\ x \in 0 .. MaxTime
      /\ x \in Nat /\ Covers(k, table[k]) /\ Past(k)
  BY <1>b, LimitersAssumption DEF SlidingInv, HistoryInv, HistoryOK
<1>2. /\ Len(v) + n <= Limit
      /\ table' = [table EXCEPT ![k] = u] /\ Granted(k, n)
  BY <1>a, <1>b, <1>c
     DEF Sliding!AllowN, Sliding!Admits, Sliding!Granted, Granted
<1>3. Covers(k, v)
  BY <1>1, <1>a, ValidCovers DEF Sliding!Valid
<1>4. /\ HistoryInv' /\ now' = now /\ mark' = mark
      /\ granted'[k] = granted[k] + n
      /\ \A j \in Keys : j # k => granted'[j] = granted[j]
  BY <1>1, <1>2, GrantKeeps
<1>5. \A s \in 0 .. now : Since(k, s) + n <= Sliding!Budget(now - s)
  BY <1>1, <1>2, <1>3, GrantWithin
<1>6. Sliding!Contract!Grant(k, n)
  BY <1>2, <1>5
     DEF Since, Sliding!Contract!GrantedSince, Sliding!Contract!Grant,
         Sliding!Contract!WithinBudget, Granted
<1>7. /\ now \in Nat /\ granted[k] \in Nat
      /\ \A s \in 0 .. now : Since(k, s) \in Nat /\ mark[k][s] \in Nat
  BY <1>1, SinceFacts
<1>8. \A s \in 0 .. now : Since(k, s)' = Since(k, s) + n
  BY <1>1, <1>4, <1>7 DEF Since
<1>9. /\ v \in Seq(0 .. MaxTime) /\ Len(v) \in Nat /\ Len(v) <= Limit
      /\ \A i \in 1 .. Len(v) : v[i] \in Nat /\ v[i] <= now
      /\ Ascending(v)
  BY <1>3, LogFacts DEF Covers
<1>10. /\ u \in Seq(0 .. MaxTime) /\ Len(u) = Len(v) + n
       /\ \A i \in 1 .. Len(v) : u[i] = v[i]
       /\ \A i \in Len(v) + 1 .. Len(v) + n : u[i] = now
  BY <1>1, <1>9, <1>b, <1>c, Appended
<1>11. \A i \in 1 .. Len(u) :
         i \in 1 .. Len(v) \/ i \in Len(v) + 1 .. Len(v) + n
  BY <1>1, <1>9, <1>10
<1>12. \A i \in 1 .. Len(u) : u[i] \in Nat /\ u[i] <= now
  BY <1>7, <1>9, <1>10, <1>11
<1>13. Ascending(u)
  <2> SUFFICES ASSUME NEW i \in 1 .. Len(u), NEW j \in 1 .. Len(u), i <= j
               PROVE  u[i] <= u[j]
    BY DEF Ascending
  <2>1. CASE j \in 1 .. Len(v)
    <3>1. i \in 1 .. Len(v)
      BY <1>9, <1>10, <2>1
    <3> QED BY <1>9, <1>10, <2>1, <3>1 DEF Ascending
  <2>2. CASE j \in Len(v) + 1 .. Len(v) + n
    BY <1>10, <1>12, <2>2
  <2> QED BY <1>11, <2>1, <2>2
<1>14. ASSUME NEW s \in 0 .. now, s > now - Window
       PROVE  /\ Since(k, s) + n <= Len(u)
              /\ \A i \in 1 .. Len(u) :
                   u[i] >= s <=> i > Len(u) - (Since(k, s) + n)
  <2> DEFINE g == Since(k, s)
  <2>1. /\ g \in Nat /\ g <= Len(v)
        /\ \A i \in 1 .. Len(v) : v[i] >= s <=> i > Len(v) - g
    BY <1>3, <1>7, <1>14 DEF Covers
  <2> HIDE DEF g
  <2>2. g + n <= Len(u)
    BY <1>1, <1>9, <1>10, <2>1
  <2>3. ASSUME NEW i \in 1 .. Len(u) PROVE u[i] >= s <=> i > Len(u) - (g + n)
    <3>0. Len(u) - (g + n) = Len(v) - g
      BY <1>1, <1>9, <1>10, <2>1
    <3>1. CASE i \in 1 .. Len(v)
      BY <1>10, <2>1, <3>0, <3>1
    <3>2. CASE i \in Len(v) + 1 .. Len(v) + n
      <4>1. u[i] = now /\ i > Len(v) - g
        BY <1>1, <1>9, <1>10, <2>1, <3>2
      <4> QED BY <1>7, <3>0, <4>1
    <3> QED BY <1>11, <3>1, <3>2
  <2> QED BY <2>2, <2>3 DEF g
<1>15. Covers(k, u)'
  <2>1. Len(u) <= Limit
    BY <1>2, <1>10
  <2>2. \A s \in 0 .. now : s > now - Window =>
          /\ Since(k, s)' <= Len(u)
          /\ \A i \in 1 .. Len(u) : u[i] >= s <=> i > Len(u) - Since(k, s)'
    BY <1>8, <1>14
  <2>3. Ascending(u)'
    BY <1>13 DEF Ascending
  <2> QED BY <1>4, <1>10, <1>12, <2>1, <2>2, <2>3 DEF Covers
<1>16. Past(k)'
  <2>1. \A s \in 0 .. now' : Since(k, s)' <= Sliding!Budget(now' - s)
    BY <1>4, <1>5, <1>8
  <2>2. \A s, t \in 0 .. now' :
          s < t => mark'[k][t] - mark'[k][s] <= Sliding!Budget((t - 1) - s)
    BY <1>1, <1>4 DEF Past
  <2> QED BY <2>1, <2>2 DEF Past, Sliding!Budget
<1>17. SlidingInv'
  BY <1>2, <1>4, <1>15, <1>16, SlidingStores, Zenon
<1> QED BY <1>6, <1>17

(***************************************************************************)
(* AllowN returns false, or Remaining was called: the log is pruned, and   *)
(* the history stays.                                                      *)
(***************************************************************************)
LEMMA SlidingPrune ==
  ASSUME SlidingInv, NEW k \in Keys,
         table' = [table EXCEPT ![k] = Sliding!Valid(k)],
         UNCHANGED Sliding!history
  PROVE  SlidingInv' /\ UNCHANGED history
<1>a. PICK v : v = Sliding!Valid(k)
  OBVIOUS
<1>1. table' = [table EXCEPT ![k] = v]
      /\ now' = now /\ granted' = granted /\ mark' = mark
  BY <1>a DEF Sliding!history
<1>2. HistoryInv /\ Covers(k, table[k]) /\ Past(k)
  BY DEF SlidingInv
<1>3. Covers(k, v)
  BY <1>2, <1>a, ValidCovers DEF Sliding!Valid
<1>4. Covers(k, v)'
  BY <1>1, <1>3 DEF Covers, Since, Ascending
<1>5. Past(k)'
  BY <1>1, <1>2 DEF Past, Since, Sliding!Budget
<1>6. HistoryInv'
  BY <1>1, <1>2 DEF HistoryInv, HistoryOK, Monotone
<1>7. SlidingInv'
  BY <1>1, <1>4, <1>5, <1>6, SlidingStores, Zenon
<1> QED BY <1>1, <1>7 DEF history

(***************************************************************************)
(* The window moves on with the clock, and the log still covers it.        *)
(***************************************************************************)
LEMMA SlidingTick ==
  ASSUME SlidingInv, Sliding!Tick
  PROVE  SlidingInv' /\ Sliding!Contract!Tick
<1>1. HistoryInv /\ Passes /\ table' = table
  BY DEF SlidingInv, Sliding!Tick, Sliding!Passes, Passes
<1>2. /\ HistoryInv' /\ now' = now + 1 /\ granted' = granted
      /\ \A k \in Keys : mark'[k][now + 1] = granted[k]
      /\ \A k \in Keys : \A t \in 0 .. now : mark'[k][t] = mark[k][t]
  BY <1>1, PassKeeps
<1>3. Sliding!Contract!Tick
  BY <1>1 DEF Passes, Sliding!Contract!Tick
<1>4. ASSUME NEW k \in Keys
      PROVE  /\ now \in Nat /\ Window \in Nat /\ granted[k] \in Nat
             /\ \A s \in 0 .. now : Since(k, s)' = Since(k, s)
             /\ \A s : s = now + 1 => Since(k, s)' = 0
             /\ \A s \in 0 .. now : Since(k, s) \in Nat /\ mark[k][s] \in Nat
             /\ 0 .. now' = (0 .. now) \cup {now + 1}
  BY <1>1, <1>2, SinceFacts DEF Since
<1>5. ASSUME NEW k \in Keys PROVE Covers(k, table[k])'
  <2>1. PICK v : v = table[k] /\ v = table'[k]
    BY <1>1
  <2>2. /\ v \in Seq(0 .. MaxTime) /\ Len(v) <= Limit /\ Ascending(v)
        /\ \A i \in 1 .. Len(v) : v[i] <= now
        /\ \A s \in 0 .. now : s > now - Window =>
             /\ Since(k, s) <= Len(v)
             /\ \A i \in 1 .. Len(v) : v[i] >= s <=> i > Len(v) - Since(k, s)
    BY <2>1 DEF SlidingInv, Covers
  <2>3. Len(v) \in Nat /\ \A i \in 1 .. Len(v) : v[i] \in Nat
    BY <2>2, LogFacts
  <2>4. \A i \in 1 .. Len(v) : v[i] <= now'
    BY <1>2, <1>4, <2>2, <2>3
  <2>5. ASSUME NEW s \in 0 .. now', s > now' - Window
        PROVE  /\ Since(k, s)' <= Len(v)
               /\ \A i \in 1 .. Len(v) :
                    v[i] >= s <=> i > Len(v) - Since(k, s)'
    <3>1. CASE s = now + 1
      <4>1. Since(k, s)' = 0
        BY <1>4, <3>1
      <4>2. \A i \in 1 .. Len(v) : ~(v[i] >= s)
        BY <1>4, <2>2, <2>3, <3>1
      <4> QED BY <2>3, <4>1, <4>2
    <3>2. CASE s \in 0 .. now
      <4>1. s > now - Window
        BY <1>2, <1>4, <2>5, <3>2
      <4>2. Since(k, s)' = Since(k, s)
        BY <1>4, <3>2
      <4> QED BY <2>2, <3>2, <4>1, <4>2
    <3> QED BY <1>4, <3>1, <3>2
  <2>6. Covers(k, v)'
    BY <2>2, <2>4, <2>5 DEF Covers, Ascending
  <2> QED BY <2>1, <2>6 DEF Covers, Ascending
<1>6. ASSUME NEW k \in Keys PROVE Past(k)'
  <2>1. /\ \A s \in 0 .. now : Since(k, s) <= Sliding!Budget(now - s)
        /\ \A s, t \in 0 .. now :
             s < t => mark[k][t] - mark[k][s] <= Sliding!Budget((t - 1) - s)
    BY DEF SlidingInv, Past
  <2>2. ASSUME NEW s \in 0 .. now'
        PROVE  Since(k, s)' <= Sliding!Budget(now' - s)
    <3>1. CASE s = now + 1
      <4>1. Since(k, s)' = 0 /\ now' - s = 0
        BY <1>2, <1>4, <3>1
      <4>2. Sliding!Budget(0) \in Nat
        BY BudgetFacts
      <4> QED BY <4>1, <4>2
    <3>2. CASE s \in 0 .. now
      <4>1. now - s \in Nat /\ now' - s \in Nat /\ now - s <= now' - s
        BY <1>2, <1>4, <3>2
      <4>2. /\ Sliding!Budget(now - s) \in Nat
            /\ Sliding!Budget(now' - s) \in Nat
            /\ Sliding!Budget(now - s) <= Sliding!Budget(now' - s)
        BY <4>1, BudgetFacts
      <4>3. Since(k, s)' \in Nat /\ Since(k, s)' <= Sliding!Budget(now - s)
        BY <1>4, <2>1, <3>2
      <4> QED BY <4>2, <4>3
    <3> QED BY <1>4, <3>1, <3>2
  <2>3. ASSUME NEW s \in 0 .. now', NEW t \in 0 .. now', s < t
        PROVE  mark'[k][t] - mark'[k][s] <= Sliding!Budget((t - 1) - s)
    <3>0. s \in 0 .. now
      BY <1>2, <1>4, <2>3
    <3>1. CASE t = now + 1
      <4>1. mark'[k][t] - mark'[k][s] = Since(k, s)
        BY <1>2, <3>0, <3>1 DEF Since
      <4>2. (t - 1) - s = now - s
        BY <1>4, <3>1
      <4> QED BY <2>1, <3>0, <4>1, <4>2
    <3>2. CASE t \in 0 .. now
      BY <1>2, <2>1, <2>3, <3>0, <3>2
    <3> QED BY <1>4, <3>1, <3>2
  <2> QED BY <2>2, <2>3 DEF Past, Sliding!Budget
<1>7. SlidingInv'
  BY <1>1, <1>2, <1>5, <1>6 DEF SlidingInv
<1> QED BY <1>3, <1>7

(***************************************************************************)
(* Every log is empty at the start.                                        *)
(***************************************************************************)
LEMMA SlidingInit ==
  ASSUME Sliding!Init PROVE SlidingInv
<1>1. NewHistory /\ table = [k \in Keys |-> << >>]
  BY DEF Sliding!Init, Sliding!NewHistory, NewHistory, Sliding!NewSlidingWindow
<1>2. /\ HistoryInv /\ now = 0
      /\ \A k \in Keys : granted[k] = 0
      /\ \A k \in Keys : \A t \in 0 .. now : mark[k][t] = 0
  BY <1>1, InitHistory DEF NewHistory
<1>3. << >> \in Seq(0 .. MaxTime) /\ Len(<< >>) = 0
  OBVIOUS
<1>4. table \in [Keys -> Seq(0 .. MaxTime)] /\ \A k \in Keys : table[k] = << >>
  BY <1>1, <1>3
<1>5. ASSUME NEW k \in Keys PROVE Covers(k, table[k]) /\ Past(k)
  <2>1. \A s \in 0 .. now : Since(k, s) = 0
    BY <1>2 DEF Since
  <2>2. Covers(k, << >>)
    <3> DEFINE e == << >>
    <3>1. e \in Seq(0 .. MaxTime) /\ Len(e) = 0 /\ 1 .. Len(e) = {}
      BY <1>3
    <3> HIDE DEF e
    <3>2. Covers(k, e)
      BY <2>1, <3>1, LimitersAssumption DEF Covers, Ascending
    <3> QED BY <3>2 DEF e
  <2>3. \A s \in 0 .. now : s = 0 /\ now - s = 0
    <3>1. now = 0
      BY <1>2
    <3>2. \A s \in 0 .. 0 : s = 0
      OBVIOUS
    <3>3. 0 - 0 = 0
      OBVIOUS
    <3> QED BY <3>1, <3>2, <3>3, Zenon
  <2>4. Sliding!Budget(0) \in Nat
    BY BudgetFacts
  <2>5. Past(k)
    BY <1>2, <2>1, <2>3, <2>4 DEF Past
  <2> QED BY <1>4, <2>2, <2>5
<1> QED BY <1>2, <1>4, <1>5 DEF SlidingInv

(***************************************************************************)
(* Every step of the sliding window keeps its invariant and is a step of   *)
(* the contract, or leaves the history alone.                              *)
(***************************************************************************)
LEMMA SlidingStep ==
  ASSUME SlidingInv, Sliding!Next
  PROVE  SlidingInv' /\ (Sliding!Contract!Next \/ UNCHANGED history)
<1>1. CASE Sliding!Tick
  BY <1>1, SlidingTick DEF Sliding!Contract!Next
<1>2. ASSUME NEW k \in Keys, NEW n \in 1 .. MaxBatch, Sliding!AllowN(k, n)
      PROVE  SlidingInv' /\ Sliding!Contract!Next
  BY <1>2, SlidingAllow DEF Sliding!Contract!Next
<1>3. ASSUME NEW k \in Keys, NEW n \in 1 .. MaxBatch, Sliding!RefuseN(k, n)
      PROVE  SlidingInv' /\ UNCHANGED history
  BY <1>3, SlidingPrune DEF Sliding!RefuseN
<1>4. ASSUME NEW k \in Keys, Sliding!Prune(k)
      PROVE  SlidingInv' /\ UNCHANGED history
  BY <1>4, SlidingPrune DEF Sliding!Prune
<1> QED BY <1>1, <1>2, <1>3, <1>4 DEF Sliding!Next

-----------------------------------------------------------------------------
(***************************************************************************)
(* The maps by resource.                                                   *)
(***************************************************************************)
Maps == UNION {[D -> Nat] : D \in SUBSET Resources}

(***************************************************************************)
(* The maps of the quota, and the history of what was charged.             *)
(***************************************************************************)
QuotaTypes ==
  /\ limits \in [Keys -> Maps]
  /\ usage \in [Keys -> Maps]
  /\ charged \in [Keys -> [Resources -> Nat]]

(***************************************************************************)
(* A resource the tenant has not used since its reset is absent, and       *)
(* counts  as zero.                                                        *)
(***************************************************************************)
Books ==
  \A t \in Keys, r \in Resources : Quotas!At(usage[t], r) = charged[t][r]

(***************************************************************************)
(* The quota's invariant.                                                  *)
(***************************************************************************)
QuotaInv == QuotaTypes /\ Books

(***************************************************************************)
(* The empty map reads as zero everywhere.                                 *)
(***************************************************************************)
LEMMA EmptyMap == << >> \in Maps /\ \A r : Quotas!At(<< >>, r) = 0
<1>1. << >> \in [{} -> Nat] /\ DOMAIN << >> = {}
  OBVIOUS
<1> QED
  BY <1>1 DEF Maps, Quotas!At

(***************************************************************************)
(* What Put returns: a map that differs from the old one at r alone.       *)
(***************************************************************************)
LEMMA PutMap ==
  ASSUME NEW map \in Maps, NEW r \in Resources, NEW n \in Nat
  PROVE  /\ Quotas!Put(map, r, n) \in Maps
         /\ Quotas!At(Quotas!Put(map, r, n), r) = n
         /\ \A q \in Resources :
              q # r => Quotas!At(Quotas!Put(map, r, n), q) = Quotas!At(map, q)
<1>1. PICK D \in SUBSET Resources : map \in [D -> Nat]
  BY DEF Maps
<1>2. Quotas!Put(map, r, n) \in [D \cup {r} -> Nat]
  BY <1>1 DEF Quotas!Put
<1>3. D \cup {r} \in SUBSET Resources
  BY <1>1
<1> QED
  BY <1>1, <1>2, <1>3 DEF Maps, Quotas!At, Quotas!Put

(***************************************************************************)
(* A map of numbers reads as a number, also where it has no entry.         *)
(***************************************************************************)
LEMMA AtNat == ASSUME NEW map \in Maps, NEW r PROVE Quotas!At(map, r) \in Nat
  BY DEF Maps, Quotas!At

(***************************************************************************)
(* Nothing is used and nothing was charged.                                *)
(***************************************************************************)
LEMMA QuotaInit == Quotas!Init => QuotaInv
  BY EmptyMap DEF Quotas!Init, QuotaInv, QuotaTypes, Books

(***************************************************************************)
(* The usage and the history go up together, and down together.            *)
(***************************************************************************)
LEMMA QuotaStep == ASSUME QuotaInv, Quotas!Next PROVE QuotaInv'
<1> USE DEF QuotaInv, QuotaTypes
<1>1. ASSUME NEW t \in Keys, Quotas!Reset(t) PROVE QuotaInv'
  BY <1>1, EmptyMap DEF Quotas!Reset, Books
<1>2. ASSUME NEW t \in Keys, NEW r \in Resources, NEW limit \in 0 .. Limit,
             Quotas!SetLimit(t, r, limit)
      PROVE  QuotaInv'
  <2>1. Quotas!Put(limits[t], r, limit) \in Maps
    BY PutMap
  <2> QED
    BY <1>2, <2>1 DEF Quotas!SetLimit, Books
<1>3. ASSUME NEW t \in Keys, NEW r \in Resources,
             NEW amount \in 1 .. MaxBatch, Quotas!Consume(t, r, amount)
      PROVE  QuotaInv'
  <2> DEFINE n == Quotas!At(usage[t], r) + amount
             new == Quotas!Put(usage[t], r, n)
  <2>1. n \in Nat /\ usage[t] \in Maps
    BY AtNat
  <2>2. /\ new \in Maps
        /\ Quotas!At(new, r) = n
        /\ \A q \in Resources :
             q # r => Quotas!At(new, q) = Quotas!At(usage[t], q)
    BY <2>1, PutMap
  <2>3. /\ usage' = [usage EXCEPT ![t] = new]
        /\ charged' = [charged EXCEPT ![t][r] = @ + amount]
        /\ limits' = limits
    BY <1>3 DEF Quotas!Consume
  <2> HIDE DEF n, new
  <2>4. QuotaTypes'
    BY <2>2, <2>3
  <2>5. Books'
    <3> SUFFICES ASSUME NEW u \in Keys, NEW q \in Resources
                 PROVE  Quotas!At(usage'[u], q) = charged'[u][q]
      BY DEF Books, Quotas!At
    <3>1. CASE u = t /\ q = r
      BY <2>2, <2>3, <3>1 DEF Books, n
    <3>2. CASE ~(u = t /\ q = r)
      BY <2>2, <2>3, <3>2 DEF Books
    <3> QED
      BY <3>1, <3>2
  <2> QED
    BY <2>4, <2>5
<1> QED BY <1>1, <1>2, <1>3 DEF Quotas!Next

(***************************************************************************)
(* Consume refuses exactly what goes beyond the limit of now.              *)
(***************************************************************************)
LEMMA QuotaExact == ASSUME QuotaInv PROVE Quotas!RefusesOnlyExcess
<1> SUFFICES ASSUME NEW t \in Keys, NEW r \in Resources,
                    NEW amount \in 1 .. MaxBatch
             PROVE  /\ Quotas!At(usage[t], r) = charged[t][r]
                    /\ ~Quotas!Admits(t, r, amount) <=>
                         /\ Quotas!Limited(t, r)
                         /\ charged[t][r] + amount > limits[t][r]
  BY DEF Quotas!RefusesOnlyExcess, QuotaInv, Books
<1>1. Quotas!At(usage[t], r) = charged[t][r] /\ charged[t][r] \in Nat
  BY DEF QuotaInv, Books, QuotaTypes
<1>2. Quotas!Limited(t, r) => limits[t][r] \in Nat
  BY DEF QuotaInv, QuotaTypes, Maps, Quotas!Limited
<1> QED BY <1>1, <1>2 DEF Quotas!Admits

-----------------------------------------------------------------------------
(***************************************************************************)
(* What a key has taken since any tick s, and what it could take now, come *)
(* out of one full bucket and the refill since s.                          *)
(***************************************************************************)
Ledger ==
  \A k \in Keys : \A s \in 0 .. now :
    Unit * GrantedSince(k, s) + Bucket!Refilled(k)
      <= Bucket!Full + (now - s) * Rate

Solvent == Bucket!TypeOK /\ Ledger

\* A batch whose units fit into b is within the quotient of b.
LEMMA DivBound ==
  ASSUME NEW u \in Nat \ {0}, NEW a \in Int, NEW b \in Nat, u * a <= b
  PROVE  a <= b \div u
<1>1. /\ b = u * (b \div u) + (b % u)
      /\ b % u < u
      /\ b \div u \in Nat
      /\ b % u \in Nat
  OBVIOUS
<1>2. u * a < u * (b \div u) + u
  BY <1>1
<1>3. u * (a - (b \div u)) < u
  BY <1>1, <1>2
<1>4. a - (b \div u) < 1
  BY <1>1, <1>3
<1> QED
  BY <1>1, <1>4

\* A full bucket holds a whole number of units.
LEMMA FullTyped == Bucket!Full \in Nat
BY LimitersAssumption DEF Bucket!Full

\* The clock's distance to a past tick, times the rate, is a natural number
\* that grows by the rate with every tick.
LEMMA RefillGrows ==
  ASSUME NEW t \in Nat, NEW s \in 0 .. t
  PROVE  /\ (t - s) * Rate \in Nat
         /\ (t + 1 - s) * Rate = (t - s) * Rate + Rate
BY LimitersAssumption

\* A refill, which AllowN and Remaining cap, never overfills a bucket.
LEMMA RefilledTyped ==
  ASSUME Bucket!TypeOK, NEW k \in Keys
  PROVE  Bucket!Refilled(k) \in 0 .. Bucket!Full
<1>1. CASE k \in DOMAIN table
  <2>1. /\ table[k].tokens \in 0 .. Bucket!Full
        /\ table[k].lastRefill \in 0 .. now
        /\ now \in Nat
    BY <1>1, LimitersAssumption
       DEF Bucket!TypeOK, Bucket!HistoryOK, Bucket!BucketState
  <2>2. (now - table[k].lastRefill) * Rate \in Nat
    BY <2>1, RefillGrows
  <2> QED
    BY <1>1, <2>1, <2>2, FullTyped DEF Bucket!Refilled, Bucket!Capped
<1>2. CASE k \notin DOMAIN table
  BY <1>2, FullTyped DEF Bucket!Refilled
<1> QED
  BY <1>1, <1>2

\* A bucket stored now has nothing to refill yet, and the others are as they
\* were.
LEMMA BucketStores ==
  ASSUME Bucket!TypeOK, NEW k \in Keys, NEW v \in 0 .. Bucket!Full,
         Bucket!Store(k, v), now' = now
  PROVE  /\ Bucket!Refilled(k)' = v
         /\ \A j \in Keys \ {k} : Bucket!Refilled(j)' = Bucket!Refilled(j)
         /\ DOMAIN table' \subseteq Keys
         /\ \A j \in DOMAIN table' :
              table'[j] \in Bucket!BucketState /\ table'[j].lastRefill <= now'
<1>1. table'[k] = [tokens |-> v, lastRefill |-> now] /\ k \in DOMAIN table'
  BY DEF Bucket!Store
<1>2. now \in Nat /\ now \in 0 .. MaxTime
  BY LimitersAssumption DEF Bucket!TypeOK, Bucket!HistoryOK
<1>3. Bucket!Refilled(k)' = v
  <2>1. (now - now) * Rate = 0
    BY <1>2, LimitersAssumption
  <2>2. v + 0 = v /\ ~(v > Bucket!Full)
    BY FullTyped
  <2>3. Bucket!Refilled(k)' = Bucket!Capped(v + (now - now) * Rate)
    BY <1>1 DEF Bucket!Refilled, Bucket!Capped, Bucket!Full
  <2> QED
    BY <2>1, <2>2, <2>3 DEF Bucket!Capped
<1>4. \A j \in Keys \ {k} : Bucket!Refilled(j)' = Bucket!Refilled(j)
  BY DEF Bucket!Store, Bucket!Refilled, Bucket!Capped, Bucket!Full
<1>5. DOMAIN table' \subseteq Keys
  BY DEF Bucket!Store, Bucket!TypeOK, Bucket!HistoryOK
<1>6. \A j \in DOMAIN table' :
        table'[j] \in Bucket!BucketState /\ table'[j].lastRefill <= now'
  BY <1>2
     DEF Bucket!Store, Bucket!TypeOK, Bucket!HistoryOK, Bucket!BucketState
<1> QED
  BY <1>3, <1>4, <1>5, <1>6
-----------------------------------------------------------------------------
\* A bucket that was never used is full, and nothing was granted.
LEMMA SolventInit == Bucket!Init => Solvent
<1> SUFFICES ASSUME Bucket!Init
             PROVE  Solvent
  OBVIOUS
<1> USE LimitersAssumption
   DEF Bucket!Init, Bucket!NewTokenBucket, Bucket!NewHistory
<1>1. Bucket!TypeOK
  BY DEF Bucket!TypeOK, Bucket!HistoryOK
<1>2. ASSUME NEW k \in Keys, NEW s \in 0 .. now
      PROVE  Unit * GrantedSince(k, s) + Bucket!Refilled(k)
               <= Bucket!Full + (now - s) * Rate
  <2>1. s = 0 /\ now = 0 /\ GrantedSince(k, s) = 0
    BY DEF GrantedSince
  <2>2. Bucket!Refilled(k) = Bucket!Full
    BY DEF Bucket!Refilled
  <2> QED
    BY <2>1, <2>2, FullTyped
<1> QED
  BY <1>1, <1>2 DEF Solvent, Ledger

\* What a batch takes from its bucket it adds to the history.
LEMMA AllowNSolvent ==
  ASSUME Solvent, NEW k \in Keys, NEW n \in 1 .. MaxBatch, Bucket!AllowN(k, n)
  PROVE  Solvent'
<1> USE LimitersAssumption
<1>1. /\ Bucket!Refilled(k) \in 0 .. Bucket!Full
      /\ n * Unit \in Nat
      /\ Bucket!Refilled(k) >= n * Unit
  BY RefilledTyped DEF Solvent, Bucket!AllowN, Bucket!Granted, Bucket!Admits
<1>2. Bucket!Refilled(k) - n * Unit \in 0 .. Bucket!Full
  BY <1>1, FullTyped
<1>3. /\ Bucket!Refilled(k)' = Bucket!Refilled(k) - n * Unit
      /\ \A j \in Keys \ {k} : Bucket!Refilled(j)' = Bucket!Refilled(j)
      /\ DOMAIN table' \subseteq Keys
      /\ \A j \in DOMAIN table' :
           table'[j] \in Bucket!BucketState /\ table'[j].lastRefill <= now'
  BY <1>2, BucketStores DEF Solvent, Bucket!AllowN, Bucket!Granted
<1>4. Bucket!TypeOK'
  BY <1>3
     DEF Solvent, Bucket!TypeOK, Bucket!HistoryOK, Bucket!AllowN,
         Bucket!Granted
<1>5. ASSUME NEW j \in Keys, NEW s \in 0 .. now'
      PROVE  Unit * GrantedSince(j, s)' + Bucket!Refilled(j)'
               <= Bucket!Full + (now' - s) * Rate
  <2>1. now' = now /\ mark' = mark
    BY DEF Bucket!AllowN, Bucket!Granted
  <2>2. Unit * GrantedSince(j, s) + Bucket!Refilled(j)
          <= Bucket!Full + (now - s) * Rate
    BY <2>1 DEF Solvent, Ledger
  <2>3. GrantedSince(j, s) \in Int
    BY <2>1 DEF Solvent, Bucket!TypeOK, Bucket!HistoryOK, GrantedSince
  <2>4. CASE j = k
    <3>1. GrantedSince(k, s)' = GrantedSince(k, s) + n
      BY <2>1
         DEF Bucket!AllowN, Bucket!Granted, GrantedSince, Solvent,
             Bucket!TypeOK, Bucket!HistoryOK
    <3>2. Unit * (GrantedSince(k, s) + n)
            = Unit * GrantedSince(k, s) + n * Unit
      BY <2>3, <2>4
    <3>3. /\ Unit * GrantedSince(k, s) \in Int
          /\ Bucket!Full + (now - s) * Rate \in Int
      BY <2>1, <2>3, <2>4, FullTyped
         DEF Solvent, Bucket!TypeOK, Bucket!HistoryOK
    <3> QED
      BY <1>1, <1>3, <2>1, <2>2, <2>4, <3>1, <3>2, <3>3
  <2>5. CASE j # k
    <3>1. GrantedSince(j, s)' = GrantedSince(j, s)
      BY <2>1, <2>5
         DEF Bucket!AllowN, Bucket!Granted, GrantedSince, Solvent,
             Bucket!TypeOK, Bucket!HistoryOK
    <3> QED
      BY <1>3, <2>1, <2>2, <2>5, <3>1
  <2> QED
    BY <2>4, <2>5
<1> QED
  BY <1>4, <1>5 DEF Solvent, Ledger, Bucket!Full

\* A refusal stores the refill it has computed, and grants nothing.
LEMMA RefuseNSolvent ==
  ASSUME Solvent, NEW k \in Keys, NEW n \in 1 .. MaxBatch, Bucket!RefuseN(k, n)
  PROVE  Solvent'
<1>1. Bucket!Refilled(k) \in 0 .. Bucket!Full
  BY RefilledTyped DEF Solvent
<1>2. /\ Bucket!Refilled(k)' = Bucket!Refilled(k)
      /\ \A j \in Keys \ {k} : Bucket!Refilled(j)' = Bucket!Refilled(j)
      /\ DOMAIN table' \subseteq Keys
      /\ \A j \in DOMAIN table' :
           table'[j] \in Bucket!BucketState /\ table'[j].lastRefill <= now'
  BY <1>1, BucketStores DEF Solvent, Bucket!RefuseN, Bucket!history
<1>3. Bucket!TypeOK'
  BY <1>2
     DEF Solvent, Bucket!TypeOK, Bucket!HistoryOK, Bucket!RefuseN,
         Bucket!history
<1>4. ASSUME NEW j \in Keys, NEW s \in 0 .. now'
      PROVE  Unit * GrantedSince(j, s)' + Bucket!Refilled(j)'
               <= Bucket!Full + (now' - s) * Rate
  <2>1. Bucket!Refilled(j)' = Bucket!Refilled(j) /\ now' = now
    BY <1>2 DEF Bucket!RefuseN, Bucket!history
  <2>2. GrantedSince(j, s)' = GrantedSince(j, s)
    BY DEF GrantedSince, Bucket!RefuseN, Bucket!history
  <2> QED
    BY <2>1, <2>2 DEF Solvent, Ledger
<1> QED
  BY <1>3, <1>4 DEF Solvent, Ledger, Bucket!Full

\* A tick refills at most Rate, which is what it adds to the budget.
LEMMA TickSolvent ==
  ASSUME Solvent, Bucket!Tick
  PROVE  Solvent'
<1> USE LimitersAssumption
<1>1. now \in Nat /\ now + 1 \in 0 .. MaxTime /\ now' = now + 1
  BY DEF Solvent, Bucket!TypeOK, Bucket!HistoryOK, Bucket!Tick, Bucket!Passes
<1>2. Bucket!TypeOK'
  <2>1. mark' \in [Keys -> [0 .. MaxTime -> Nat]]
    BY <1>1
       DEF Solvent, Bucket!TypeOK, Bucket!HistoryOK, Bucket!Tick,
           Bucket!Passes
  <2>2. \A k \in DOMAIN table' :
          table'[k] \in Bucket!BucketState /\ table'[k].lastRefill <= now'
    BY <1>1
       DEF Solvent, Bucket!TypeOK, Bucket!HistoryOK, Bucket!Tick,
           Bucket!Passes, Bucket!BucketState
  <2> QED
    BY <1>1, <2>1, <2>2
       DEF Solvent, Bucket!TypeOK, Bucket!HistoryOK, Bucket!Tick,
           Bucket!Passes
<1>3. ASSUME NEW k \in Keys
      PROVE  /\ Bucket!Refilled(k) \in 0 .. Bucket!Full
             /\ Bucket!Refilled(k)' \in 0 .. Bucket!Full
             /\ Bucket!Refilled(k)' <= Bucket!Refilled(k) + Rate
  <2>1. Bucket!Refilled(k) \in 0 .. Bucket!Full
    BY RefilledTyped DEF Solvent
  <2>2. CASE k \in DOMAIN table
    <3> DEFINE t == table[k].tokens
               l == table[k].lastRefill
    <3>1. t \in 0 .. Bucket!Full /\ l \in 0 .. now
      BY <1>1, <2>2
         DEF Solvent, Bucket!TypeOK, Bucket!HistoryOK, Bucket!BucketState
    <3>2. /\ (now - l) * Rate \in Nat
          /\ (now + 1 - l) * Rate = (now - l) * Rate + Rate
      BY <1>1, <3>1, RefillGrows
    <3>3. Bucket!Refilled(k) = Bucket!Capped(t + (now - l) * Rate)
      BY <2>2 DEF Bucket!Refilled
    <3>4. Bucket!Refilled(k)' = Bucket!Capped(t + (now + 1 - l) * Rate)
      <4>1. table' = table /\ now' = now + 1
        BY <1>1 DEF Bucket!Tick, Bucket!Passes
      <4>2. Bucket!Refilled(k)' = Bucket!Capped(table'[k].tokens
                              + (now' - table'[k].lastRefill) * Rate)
        BY <2>2, <4>1 DEF Bucket!Refilled, Bucket!Capped, Bucket!Full
      <4>3. table'[k].tokens + (now' - table'[k].lastRefill) * Rate
              = t + (now + 1 - l) * Rate
        BY <1>1, <3>1, <4>1
      <4> QED
        BY <4>2, <4>3
    <3> HIDE DEF t, l
    <3> QED
      BY <2>1, <3>1, <3>2, <3>3, <3>4, FullTyped DEF Bucket!Capped
  <2>3. CASE k \notin DOMAIN table
    <3>1. /\ Bucket!Refilled(k) = Bucket!Full
          /\ Bucket!Refilled(k)' = Bucket!Full
      BY <2>3 DEF Bucket!Refilled, Bucket!Tick, Bucket!Passes, Bucket!Full
    <3> QED
      BY <3>1, FullTyped
  <2> QED
    BY <2>1, <2>2, <2>3
<1>4. ASSUME NEW k \in Keys, NEW s \in 0 .. now'
      PROVE  Unit * GrantedSince(k, s)' + Bucket!Refilled(k)'
               <= Bucket!Full + (now' - s) * Rate
  <2>1. CASE s = now'
    <3>1. GrantedSince(k, s)' = 0
      BY <1>1, <2>1
         DEF GrantedSince, Bucket!Tick, Bucket!Passes, Solvent,
             Bucket!TypeOK, Bucket!HistoryOK
    <3>2. (now' - s) * Rate = 0 /\ Unit * 0 = 0
      BY <1>1, <2>1
    <3> QED
      BY <1>3, <3>1, <3>2, FullTyped
  <2>2. CASE s # now'
    <3>1. s \in 0 .. now
      BY <1>1, <2>2
    <3>2. /\ GrantedSince(k, s)' = GrantedSince(k, s)
          /\ GrantedSince(k, s) \in Int
      BY <1>1, <3>1
         DEF GrantedSince, Bucket!Tick, Bucket!Passes, Solvent,
             Bucket!TypeOK, Bucket!HistoryOK
    <3>3. Unit * GrantedSince(k, s) + Bucket!Refilled(k)
            <= Bucket!Full + (now - s) * Rate
      BY <3>1 DEF Solvent, Ledger
    <3>4. /\ (now - s) * Rate \in Nat
          /\ (now + 1 - s) * Rate = (now - s) * Rate + Rate
      BY <1>1, <3>1, RefillGrows
    <3>5. Unit * GrantedSince(k, s) \in Int
      BY <3>2
    <3> QED
      BY <1>1, <1>3, <3>2, <3>3, <3>4, <3>5, FullTyped
  <2> QED
    BY <2>1, <2>2
<1> QED
  BY <1>2, <1>4 DEF Solvent, Ledger, Bucket!Full

(***************************************************************************)
(* AllowN lets a batch through only within the contract's budget.          *)
(***************************************************************************)
LEMMA BucketAllow ==
  ASSUME Solvent, NEW k \in Keys, NEW n \in 1 .. MaxBatch, Bucket!AllowN(k, n)
  PROVE  Bucket!Contract!Grant(k, n)
<1> USE LimitersAssumption
<1>1. ASSUME NEW s \in 0 .. now
      PROVE  granted[k] - mark[k][s] + n <= Bucket!Budget(now - s)
  <2> DEFINE g == GrantedSince(k, s)
  <2>1. /\ g \in Int
        /\ now \in Nat
    BY DEF Solvent, Bucket!TypeOK, Bucket!HistoryOK, GrantedSince
  <2>2. Unit * g + Bucket!Refilled(k) <= Bucket!Full + (now - s) * Rate
    BY DEF Solvent, Ledger
  <2>3. n * Unit <= Bucket!Refilled(k) /\ Bucket!Refilled(k) \in Nat
    BY RefilledTyped, FullTyped
       DEF Bucket!AllowN, Bucket!Granted, Bucket!Admits, Solvent
  <2>4. Bucket!Full + (now - s) * Rate \in Nat
    BY <2>1, FullTyped, RefillGrows
  <2> HIDE DEF g
  <2>5. Unit * (g + n) <= Bucket!Full + (now - s) * Rate
    <3>1. Unit * (g + n) = Unit * g + n * Unit
      BY <2>1
    <3>2. Unit * g \in Int /\ n * Unit \in Int
      BY <2>1
    <3> QED
      BY <3>1, <3>2, <2>2, <2>3, <2>4
  <2>6. g + n <= (Bucket!Full + (now - s) * Rate) \div Unit
    BY <2>1, <2>4, <2>5, DivBound
  <2> QED
    BY <2>6 DEF g, GrantedSince, Bucket!Budget
<1> QED
  BY <1>1
     DEF Bucket!AllowN, Bucket!Granted, Bucket!Contract!Grant,
         Bucket!Contract!WithinBudget, Bucket!Contract!GrantedSince
-----------------------------------------------------------------------------
(***************************************************************************)
(* The ledger has no slack: seen from some tick, the last one that found   *)
(* the bucket full, what was taken and what is there now are exactly a     *)
(* full bucket and the refill.                                             *)
(***************************************************************************)
Tight ==
  \A k \in Keys : \E s \in 0 .. now :
    Unit * GrantedSince(k, s) + Bucket!Refilled(k)
      = Bucket!Full + (now - s) * Rate

(***************************************************************************)
(* The invariant of the token bucket.                                      *)
(***************************************************************************)
BucketInv == Solvent /\ Tight

\* A bucket that was never used is full.
LEMMA TightInit == Bucket!Init => Tight
<1> SUFFICES ASSUME Bucket!Init, NEW k \in Keys
             PROVE  \E s \in 0 .. now :
                      Unit * GrantedSince(k, s) + Bucket!Refilled(k)
                        = Bucket!Full + (now - s) * Rate
  BY DEF Tight
<1> USE LimitersAssumption
<1>1. now = 0 /\ 0 \in 0 .. now /\ GrantedSince(k, 0) = 0
  BY DEF Bucket!Init, Bucket!NewTokenBucket, Bucket!NewHistory, GrantedSince
<1>2. Bucket!Refilled(k) = Bucket!Full
  BY
     DEF Bucket!Init, Bucket!NewTokenBucket, Bucket!NewHistory,
         Bucket!Refilled
<1>3. Unit * 0 = 0 /\ (0 - 0) * Rate = 0
  OBVIOUS
<1>4. Unit * GrantedSince(k, 0) + Bucket!Refilled(k)
        = Bucket!Full + (now - 0) * Rate
  BY <1>1, <1>2, <1>3, FullTyped
<1> QED
  BY <1>1, <1>4

(***************************************************************************)
(* When the clock moves on a bucket gains the refill of a tick, up to the  *)
(* capacity.                                                               *)
(***************************************************************************)
LEMMA TickRefills ==
  ASSUME Bucket!TypeOK, Bucket!Tick, NEW k \in Keys
  PROVE  /\ Bucket!Refilled(k) \in 0 .. Bucket!Full
         /\ Bucket!Refilled(k)' = Bucket!Capped(Bucket!Refilled(k) + Rate)
<1> USE LimitersAssumption
<1>1. now \in Nat /\ now' = now + 1 /\ table' = table
  BY DEF Bucket!TypeOK, Bucket!HistoryOK, Bucket!Tick, Bucket!Passes
<1>2. Bucket!Refilled(k) \in 0 .. Bucket!Full
  BY RefilledTyped
<1>3. CASE k \in DOMAIN table
  <2> DEFINE t == table[k].tokens
             l == table[k].lastRefill
  <2>1. t \in 0 .. Bucket!Full /\ l \in 0 .. now
    BY <1>1, <1>3 DEF Bucket!TypeOK, Bucket!HistoryOK, Bucket!BucketState
  <2>2. /\ (now - l) * Rate \in Nat
        /\ (now + 1 - l) * Rate = (now - l) * Rate + Rate
    BY <1>1, <2>1, RefillGrows
  <2>3. Bucket!Refilled(k) = Bucket!Capped(t + (now - l) * Rate)
    BY <1>3 DEF Bucket!Refilled
  <2>4. Bucket!Refilled(k)' = Bucket!Capped(t + (now + 1 - l) * Rate)
    <3>1. Bucket!Refilled(k)' = Bucket!Capped(table'[k].tokens
                            + (now' - table'[k].lastRefill) * Rate)
      BY <1>1, <1>3 DEF Bucket!Refilled, Bucket!Capped, Bucket!Full
    <3>2. table'[k].tokens + (now' - table'[k].lastRefill) * Rate
            = t + (now + 1 - l) * Rate
      <4>1. /\ table'[k].tokens = t /\ table'[k].lastRefill = l
            /\ now' = now + 1
        BY <1>1
      <4> HIDE DEF t, l
      <4> QED
        BY <1>1, <2>1, <2>2, <4>1, FullTyped
    <3> QED
      BY <3>1, <3>2
  <2> HIDE DEF t, l
  <2> QED
    BY <1>2, <2>1, <2>2, <2>3, <2>4, FullTyped DEF Bucket!Capped
<1>4. CASE k \notin DOMAIN table
  <2>1. Bucket!Refilled(k) = Bucket!Full /\ Bucket!Refilled(k)' = Bucket!Full
    BY <1>1, <1>4 DEF Bucket!Refilled, Bucket!Full
  <2> QED
    BY <2>1, FullTyped DEF Bucket!Capped
<1> QED
  BY <1>2, <1>3, <1>4

(***************************************************************************)
(* A grant takes from the bucket what it adds to the history, a refusal    *)
(* stores the refill it has computed, and a tick either credits its refill *)
(* in full or fills the bucket.                                            *)
(***************************************************************************)
LEMMA TightStep == Bucket!TypeOK /\ Tight /\ Bucket!Next => Tight'
<1> SUFFICES ASSUME Bucket!TypeOK, Tight, Bucket!Next, NEW j \in Keys
             PROVE  \E s \in 0 .. now' :
                      Unit * GrantedSince(j, s)' + Bucket!Refilled(j)'
                        = Bucket!Full + (now' - s) * Rate
  BY DEF Tight, Bucket!Full
<1> USE LimitersAssumption
<1>0. PICK s \in 0 .. now :
        Unit * GrantedSince(j, s) + Bucket!Refilled(j)
          = Bucket!Full + (now - s) * Rate
  BY DEF Tight
<1>g. /\ granted[j] \in Nat /\ mark[j][s] \in Nat
      /\ granted \in [Keys -> Nat]
  BY DEF Bucket!TypeOK, Bucket!HistoryOK
<1>t. /\ now \in Nat /\ GrantedSince(j, s) \in Int
      /\ Unit * GrantedSince(j, s) \in Int
      /\ Bucket!Refilled(j) \in 0 .. Bucket!Full /\ Bucket!Full \in Nat
      /\ (now - s) * Rate \in Nat
      /\ (now + 1 - s) * Rate = (now - s) * Rate + Rate
  <2>1. now \in Nat /\ GrantedSince(j, s) \in Int
    BY DEF Bucket!TypeOK, Bucket!HistoryOK, GrantedSince
  <2>2. Unit * GrantedSince(j, s) \in Int
    BY <2>1
  <2> QED
    BY <2>1, <2>2, RefilledTyped, FullTyped, RefillGrows
<1>1. ASSUME NEW k \in Keys, NEW n \in 1 .. MaxBatch, Bucket!AllowN(k, n)
      PROVE  /\ now' = now
             /\ Unit * GrantedSince(j, s)' + Bucket!Refilled(j)'
                  = Bucket!Full + (now - s) * Rate
  <2>1. /\ Bucket!Refilled(k) \in 0 .. Bucket!Full
        /\ n * Unit \in Nat
        /\ Bucket!Refilled(k) >= n * Unit
        /\ now' = now /\ mark' = mark
    BY <1>1, RefilledTyped DEF Bucket!AllowN, Bucket!Granted, Bucket!Admits
  <2>2. Bucket!Refilled(k) - n * Unit \in 0 .. Bucket!Full
    BY <2>1, FullTyped
  <2>3. /\ Bucket!Refilled(k)' = Bucket!Refilled(k) - n * Unit
        /\ \A i \in Keys \ {k} : Bucket!Refilled(i)' = Bucket!Refilled(i)
    BY <1>1, <2>2, BucketStores DEF Bucket!AllowN, Bucket!Granted
  <2>4. CASE j = k
    <3>0. granted'[k] = granted[k] + n
      BY <1>1, <1>g DEF Bucket!AllowN, Bucket!Granted
    <3>1. GrantedSince(k, s)' = GrantedSince(k, s) + n
      BY <1>g, <2>1, <2>4, <3>0 DEF GrantedSince
    <3>2. Unit * (GrantedSince(k, s) + n)
            = Unit * GrantedSince(k, s) + n * Unit
      BY <1>t, <2>4
    <3>3. Unit * GrantedSince(k, s)' = Unit * GrantedSince(k, s) + n * Unit
      BY <3>1, <3>2
    <3> QED
      BY <1>0, <1>t, <2>1, <2>3, <2>4, <3>3
  <2>5. CASE j # k
    <3>1. GrantedSince(j, s)' = GrantedSince(j, s)
      BY <1>1, <2>1, <2>5
         DEF Bucket!AllowN, Bucket!Granted, GrantedSince, Bucket!TypeOK,
             Bucket!HistoryOK
    <3> QED
      BY <1>0, <2>1, <2>3, <2>5, <3>1
  <2> QED
    BY <2>4, <2>5
<1>2. ASSUME NEW k \in Keys, NEW n \in 1 .. MaxBatch, Bucket!RefuseN(k, n)
      PROVE  /\ now' = now
             /\ Unit * GrantedSince(j, s)' + Bucket!Refilled(j)'
                  = Bucket!Full + (now - s) * Rate
  <2>1. now' = now /\ Bucket!Refilled(j)' = Bucket!Refilled(j)
    BY <1>2, RefilledTyped, BucketStores DEF Bucket!RefuseN, Bucket!history
  <2>2. GrantedSince(j, s)' = GrantedSince(j, s)
    BY <1>2 DEF GrantedSince, Bucket!RefuseN, Bucket!history
  <2> QED
    BY <1>0, <2>1, <2>2
<1>3. CASE Bucket!Tick
  <2>1. /\ now' = now + 1
        /\ Bucket!Refilled(j)' = Bucket!Capped(Bucket!Refilled(j) + Rate)
    BY <1>3, TickRefills DEF Bucket!Tick, Bucket!Passes
  <2>2. CASE Bucket!Refilled(j) + Rate <= Bucket!Full
    <3>1. Bucket!Refilled(j)' = Bucket!Refilled(j) + Rate
      BY <1>t, <2>1, <2>2 DEF Bucket!Capped
    <3>2. GrantedSince(j, s)' = GrantedSince(j, s)
      BY <1>3, <1>t
         DEF GrantedSince, Bucket!Tick, Bucket!Passes, Bucket!TypeOK,
             Bucket!HistoryOK
    <3>3. Unit * GrantedSince(j, s)' + Bucket!Refilled(j)'
            = Bucket!Full + (now' - s) * Rate
      BY <1>0, <1>t, <2>1, <3>1, <3>2
    <3> QED
      BY <1>t, <2>1, <3>3
  <2>3. CASE Bucket!Refilled(j) + Rate > Bucket!Full
    <3>1. Bucket!Refilled(j)' = Bucket!Full
      BY <1>t, <2>1, <2>3 DEF Bucket!Capped
    <3>2. PICK r : r = now + 1
      OBVIOUS
    <3>3. GrantedSince(j, r)' = 0
      <4>1. /\ mark[j] \in [0 .. MaxTime -> Nat] /\ r \in 0 .. MaxTime
            /\ granted' = granted
            /\ mark'[j] = [mark[j] EXCEPT ![r] = granted[j]]
        BY <1>3, <1>t, <3>2
           DEF Bucket!Tick, Bucket!Passes, Bucket!TypeOK, Bucket!HistoryOK
      <4>2. mark'[j][r] = granted[j]
        BY <4>1
      <4> QED
        BY <1>g, <4>1, <4>2 DEF GrantedSince
    <3>4. Unit * 0 = 0 /\ (now' - r) * Rate = 0 /\ r \in 0 .. now'
      BY <1>t, <2>1, <3>2
    <3>5. Unit * GrantedSince(j, r)' + Bucket!Refilled(j)'
            = Bucket!Full + (now' - r) * Rate
      BY <1>t, <3>1, <3>3, <3>4
    <3> QED
      BY <3>4, <3>5
  <2> QED
    BY <1>t, <2>2, <2>3
<1> QED
  BY <1>0, <1>1, <1>2, <1>3 DEF Bucket!Next

\* What fits into b, counted on top of a.
LEMMA DivOnTop ==
  ASSUME NEW u \in Nat \ {0}, NEW a \in Int, NEW b \in Nat, NEW n \in Nat,
         u * a + b \in Nat, a + n <= (u * a + b) \div u
  PROVE  u * n <= b
<1> DEFINE q == (u * a + b) \div u
<1>1. q \in Nat /\ u * q <= u * a + b
  OBVIOUS
<1> HIDE DEF q
<1>2. u * (a + n) <= u * q
  BY <1>1 DEF q
<1>3. u * (a + n) = u * a + u * n /\ u * a \in Int /\ u * n \in Nat
      /\ u * q \in Nat
  BY <1>1
<1> QED
  BY <1>1, <1>2, <1>3

(***************************************************************************)
(* AllowN refuses only what the contract forbids, and Remaining reports    *)
(* all that the contract still allows and no more than AllowN would let    *)
(* through, for every capacity, rate and pattern of requests.              *)
(***************************************************************************)
LEMMA BucketExcess == BucketInv => Bucket!RefusesOnlyExcess
<1> SUFFICES ASSUME Solvent, Tight, NEW k \in Keys, NEW n \in 1 .. MaxBatch
             PROVE  /\ Bucket!Contract!WithinBudget(k, n) =>
                         Bucket!Remaining(k) >= n
                    /\ Bucket!Remaining(k) >= n => Bucket!Admits(k, n)
  BY DEF BucketInv, Bucket!RefusesOnlyExcess
<1> USE LimitersAssumption
<1>1. Bucket!Refilled(k) \in Nat /\ n \in Nat /\ n * Unit = Unit * n
  BY RefilledTyped, FullTyped DEF Solvent
<1>2. Bucket!Remaining(k) = Bucket!Refilled(k) \div Unit
  <2>1. (Limit * Unit) \div Unit = Limit
    OBVIOUS
  <2> QED
    BY <2>1 DEF Bucket!Remaining, Bucket!Refilled, Bucket!Full
<1>3. ASSUME Bucket!Contract!WithinBudget(k, n) PROVE Bucket!Remaining(k) >= n
  <2>1. PICK s \in 0 .. now :
          Unit * GrantedSince(k, s) + Bucket!Refilled(k)
            = Bucket!Full + (now - s) * Rate
    BY DEF Tight
  <2> DEFINE g == GrantedSince(k, s)
  <2>2. g \in Int /\ now \in Nat
    BY DEF Solvent, Bucket!TypeOK, Bucket!HistoryOK, GrantedSince
  <2>3. Bucket!Full + (now - s) * Rate \in Nat
    BY <2>2, FullTyped, RefillGrows
  <2>4. g + n <= (Bucket!Full + (now - s) * Rate) \div Unit
    BY <1>3
       DEF Bucket!Contract!WithinBudget, Bucket!Contract!GrantedSince,
           GrantedSince, Bucket!Budget
  <2> HIDE DEF g
  <2>5. Unit * g + Bucket!Refilled(k) = Bucket!Full + (now - s) * Rate
    BY <2>1 DEF g
  <2>6. Unit * n <= Bucket!Refilled(k)
    BY <1>1, <2>2, <2>3, <2>4, <2>5, DivOnTop
  <2>7. n <= Bucket!Refilled(k) \div Unit
    BY <1>1, <2>6, DivBound
  <2> QED
    BY <1>1, <1>2, <2>7
<1>4. ASSUME Bucket!Remaining(k) >= n PROVE Bucket!Admits(k, n)
  <2> DEFINE r == Bucket!Refilled(k)
  <2>1. r \in Nat /\ r \div Unit >= n
    BY <1>1, <1>2, <1>4
  <2> HIDE DEF r
  <2>2. r >= Unit * n
    BY <1>1, <2>1
  <2> QED
    BY <1>1, <2>2 DEF r, Bucket!Admits
<1> QED
  BY <1>3, <1>4

\* A bucket that was never used satisfies the invariant.
LEMMA BucketInit ==
  ASSUME Bucket!Init PROVE BucketInv
BY SolventInit, TightInit DEF BucketInv

(***************************************************************************)
(* Every step of the token bucket keeps its invariant and is a step of the *)
(* contract, or leaves the history alone.                                  *)
(***************************************************************************)
LEMMA BucketStep ==
  ASSUME BucketInv, Bucket!Next
  PROVE  BucketInv' /\ (Bucket!Contract!Next \/ UNCHANGED history)
<1>1. Solvent /\ Tight
  BY DEF BucketInv
<1>2. Tight'
  BY <1>1, TightStep DEF Solvent
<1>3. Solvent' /\ (Bucket!Contract!Next \/ UNCHANGED history)
  <2>1. ASSUME NEW k \in Keys, NEW n \in 1 .. MaxBatch, Bucket!AllowN(k, n)
        PROVE  Solvent' /\ Bucket!Contract!Grant(k, n)
    BY <1>1, <2>1, AllowNSolvent, BucketAllow
  <2>2. ASSUME NEW k \in Keys, NEW n \in 1 .. MaxBatch, Bucket!RefuseN(k, n)
        PROVE  Solvent' /\ UNCHANGED history
    <3>1. UNCHANGED history
      BY <2>2 DEF Bucket!RefuseN, Bucket!history, history
    <3> QED BY <1>1, <2>2, <3>1, RefuseNSolvent
  <2>3. ASSUME Bucket!Tick PROVE Solvent' /\ Bucket!Contract!Tick
    <3>1. Bucket!Contract!Tick
      BY <2>3 DEF Bucket!Tick, Bucket!Passes, Bucket!Contract!Tick
    <3> QED BY <1>1, <2>3, <3>1, TickSolvent
  <2> QED BY <2>1, <2>2, <2>3 DEF Bucket!Next, Bucket!Contract!Next
<1> QED BY <1>2, <1>3 DEF BucketInv

\* Steps of the quota leave the bucket alone.
LEMMA BucketStutters ==
  ASSUME BucketInv, UNCHANGED limiterVars PROVE BucketInv'
<1>1. now' = now /\ granted' = granted /\ mark' = mark /\ table' = table
  BY DEF limiterVars
<1>2. Solvent'
  BY <1>1 DEF BucketInv, Solvent, Bucket!TypeOK, Bucket!HistoryOK, Ledger,
              GrantedSince, Bucket!Refilled, Bucket!Capped, Bucket!Full,
              Bucket!BucketState
<1>3. Tight'
  BY <1>1 DEF BucketInv, Tight, GrantedSince, Bucket!Refilled, Bucket!Capped,
              Bucket!Full
<1> QED BY <1>2, <1>3 DEF BucketInv
-----------------------------------------------------------------------------
(***************************************************************************)
(* The inductive invariant: that of the algorithm which runs.              *)
(***************************************************************************)
IInv ==
  /\ algorithm \in {"fixed", "sliding", "bucket", "quota"}
  /\ algorithm = "fixed" => FixedInv
  /\ algorithm = "sliding" => SlidingInv
  /\ algorithm = "bucket" => BucketInv
  /\ QuotaInv

(***************************************************************************)
(* The inductive invariant holds at the start.                             *)
(***************************************************************************)
LEMMA InitIInv == Init => IInv
<1> SUFFICES ASSUME Init PROVE IInv
  OBVIOUS
<1>1. QuotaInv
  BY QuotaInit DEF Init
<1>2. algorithm = "fixed" => Fixed!Init
  BY DEF Init
<1>3. algorithm = "sliding" => Sliding!Init
  BY DEF Init
<1>4. algorithm = "bucket" => Bucket!Init
  BY DEF Init
<1> QED BY <1>1, <1>2, <1>3, <1>4, FixedInit, SlidingInit, BucketInit
        DEF Init, IInv

(***************************************************************************)
(* A rate limiter's step leaves the quota alone.                           *)
(***************************************************************************)
LEMMA QuotaStutters ==
  ASSUME QuotaInv, UNCHANGED quotaVars PROVE QuotaInv'
  BY DEF QuotaInv, QuotaTypes, Books, quotaVars, Quotas!At

(***************************************************************************)
(* Steps of the quota leave the window limiters alone.                     *)
(***************************************************************************)
LEMMA WindowsStutter ==
  ASSUME UNCHANGED limiterVars
  PROVE  (FixedInv => FixedInv') /\ (SlidingInv => SlidingInv')
<1>1. now' = now /\ granted' = granted /\ mark' = mark /\ table' = table
  BY DEF limiterVars
<1>2. HistoryInv => HistoryInv'
  BY <1>1 DEF HistoryInv, HistoryOK, Monotone
<1>3. FixedInv => FixedInv'
  BY <1>1, <1>2 DEF FixedInv, Runs, Start, Fixed!WindowState
<1>4. SlidingInv => SlidingInv'
  BY <1>1, <1>2 DEF SlidingInv, Covers, Past, Since, Ascending, Sliding!Budget
<1> QED BY <1>3, <1>4

(***************************************************************************)
(* Every step keeps the inductive invariant.                               *)
(***************************************************************************)
LEMMA NextIInv == IInv /\ [Next]_vars => IInv'
<1> SUFFICES ASSUME IInv, [Next]_vars PROVE IInv'
  OBVIOUS
<1>1. ASSUME algorithm = "fixed", Fixed!Next, UNCHANGED quotaVars,
             algorithm' = algorithm
      PROVE  IInv'
  BY <1>1, FixedStep, QuotaStutters DEF IInv
<1>2. ASSUME algorithm = "sliding", Sliding!Next, UNCHANGED quotaVars,
             algorithm' = algorithm
      PROVE  IInv'
  BY <1>2, SlidingStep, QuotaStutters DEF IInv
<1>3. ASSUME algorithm = "quota", Quotas!Next, algorithm' = algorithm
      PROVE  IInv'
  BY <1>3, QuotaStep DEF IInv
<1>4. ASSUME algorithm = "bucket", Bucket!Next, UNCHANGED quotaVars,
             algorithm' = algorithm
      PROVE  IInv'
  BY <1>4, BucketStep, QuotaStutters DEF IInv
<1>5. CASE UNCHANGED vars
  <2>1. UNCHANGED quotaVars /\ UNCHANGED limiterVars /\ algorithm' = algorithm
    BY <1>5 DEF vars, quotaVars, limiterVars
  <2> QED BY <2>1, QuotaStutters, WindowsStutter, BucketStutters DEF IInv
<1> QED BY <1>1, <1>2, <1>3, <1>4, <1>5 DEF Next

(***************************************************************************)
(* The inductive invariant holds throughout, for any keys, resources,      *)
(* limit, window, batches and length of the run.                           *)
(***************************************************************************)
THEOREM Invariance == Spec => []IInv
  BY InitIInv, NextIInv, PTL DEF Spec

(***************************************************************************)
(* A fixed window never counts more than Limit requests or ends more than  *)
(* Window ticks from now, a log never has more than Limit entries or one   *)
(* out of order, and a bucket is never overfull or overdrawn, for any      *)
(* parameters.                                                             *)
(***************************************************************************)
THEOREM TypeCorrect == Spec => []TypeOK
<1>1. IInv => TypeOK
  BY FixedTypes, SlidingTypes DEF IInv, TypeOK, BucketInv, Solvent
<1> QED BY <1>1, Invariance, PTL

(***************************************************************************)
(* AllowN of the fixed window refuses a batch only when the Window ticks   *)
(* that end now have had their Limit, that of the sliding window exactly   *)
(* then, and that of the bucket only what its contract forbids; Remaining  *)
(* reports what would be let through, also when what is stored has         *)
(* expired; and Consume refuses exactly what would carry a tenant beyond   *)
(* the limit of now.  For any parameters, and any fraction of a token.     *)
(***************************************************************************)
THEOREM RefusalsJustified == Spec => []RefusesOnlyExcess
<1>1. IInv => RefusesOnlyExcess
  BY FixedExcess, SlidingExact, BucketExcess, QuotaExact
     DEF IInv, RefusesOnlyExcess
<1> QED BY <1>1, Invariance, PTL

(***************************************************************************)
(* The limiters implement RateContract, each with its budget: the fixed    *)
(* window lets through at most one window more than start within an        *)
(* interval, the sliding window never more than Limit within any stretch   *)
(* as long as its window, and the bucket at most its capacity and the      *)
(* refill of the interval.  For any parameters.                            *)
(***************************************************************************)
THEOREM Implementation == Spec => ImplementsContract
<1>1. Init => /\ Fixed!Contract!Init /\ Sliding!Contract!Init
              /\ Bucket!Contract!Init
  <2> SUFFICES ASSUME Init PROVE NewHistory
    BY DEF NewHistory, Fixed!Contract!Init, Sliding!Contract!Init,
           Bucket!Contract!Init
  <2> QED BY DEF Init, Fixed!Init, Sliding!Init, Fixed!NewHistory,
                 Sliding!NewHistory, Bucket!Init, Bucket!NewHistory,
                 NewHistory
<1>2. ASSUME IInv, [Next]_vars
      PROVE  [/\ algorithm = "fixed" => Fixed!Contract!Next
              /\ algorithm = "sliding" => Sliding!Contract!Next
              /\ algorithm = "bucket" => Bucket!Contract!Next]_history
  <2> SUFFICES ASSUME ~UNCHANGED history
               PROVE  /\ algorithm = "fixed" => Fixed!Contract!Next
                      /\ algorithm = "sliding" => Sliding!Contract!Next
                      /\ algorithm = "bucket" => Bucket!Contract!Next
    OBVIOUS
  <2>1. Next
    BY <1>2 DEF vars, history
  <2>2. /\ algorithm = "fixed" => Fixed!Next
        /\ algorithm = "sliding" => Sliding!Next
        /\ algorithm = "bucket" => Bucket!Next
    BY <2>1 DEF Next
  <2> QED BY <1>2, <2>2, FixedStep, SlidingStep, BucketStep DEF IInv
<1> QED BY <1>1, <1>2, Invariance, PTL DEF Spec, ImplementsContract
=============================================================================
