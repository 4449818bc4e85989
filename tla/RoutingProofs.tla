--------------------------- MODULE RoutingProofs ---------------------------
(***************************************************************************)
(* Proofs about Routing, for any number of instances, calls and concurrent *)
(* requests and any weights, versions and hash: type correctness, and      *)
(* every property the run checks. Three of them need no assumption; the    *)
(* two about which address a request is sent to, and the order of the      *)
(* round-robin balancer, hold as long as no address is registered twice    *)
(* (~Duplicates), and the run routing_duplicates shows what happens        *)
(* otherwise.                                                              *)
(***************************************************************************)
EXTENDS Routing, SequenceTheorems, WellFoundedInduction, TLAPS

(***************************************************************************)
(* Induction over the natural numbers, for a set: the least number outside *)
(* it would have a predecessor inside.                                     *)
(***************************************************************************)
LEMMA NatSetInduction ==
  ASSUME NEW S, 0 \in S, \A n \in Nat : n \in S => n + 1 \in S
  PROVE  Nat \subseteq S
<1> DEFINE T == Nat \ S
<1>1. SUFFICES ASSUME T # {} PROVE FALSE
  OBVIOUS
<1>2. PICK x \in T : \A y \in T : ~(<<y, x>> \in OpToRel(<, Nat))
  <2>1. T \subseteq Nat
    OBVIOUS
  <2> QED BY <1>1, <2>1, NatLessThanWellFounded, WFMin, Zenon
<1>3. x \in Nat /\ x # 0 /\ x \notin S
  OBVIOUS
<1>4. x - 1 \in Nat /\ x - 1 < x
  BY <1>3
<1>5. x - 1 \notin T
  <2> SUFFICES ASSUME x - 1 \in T PROVE FALSE
    OBVIOUS
  <2>1. <<x - 1, x>> \notin OpToRel(<, Nat)
    BY <1>2
  <2>2. <<x - 1, x>> \in OpToRel(<, Nat)
    BY <1>3, <1>4, Zenon DEF OpToRel
  <2> QED BY <2>1, <2>2
<1> QED
  BY <1>3, <1>4, <1>5

(***************************************************************************)
(* Every nonempty set of natural numbers has a least element: the first    *)
(* endpoint with an address, the first of a version, and the endpoint at   *)
(* which a running total of weights passes the hash.                       *)
(***************************************************************************)
LEMMA Least ==
  ASSUME NEW T \in SUBSET Nat, T # {}
  PROVE  \E x \in T : \A y \in T : x <= y
<1>1. PICK x \in T : \A y \in T : ~(<<y, x>> \in OpToRel(<, Nat))
  BY NatLessThanWellFounded, WFMin, Zenon
<1>2. \A y \in T : ~(y < x)
  <2> TAKE y \in T
  <2>1. <<y, x>> \notin OpToRel(<, Nat)
    BY <1>1
  <2>2. y < x => <<y, x>> \in OpToRel(<, Nat)
    BY Zenon DEF OpToRel
  <2> QED BY <2>1, <2>2
<1>3. \A y \in T : x <= y
  BY <1>2
<1> QED BY <1>3

-----------------------------------------------------------------------------
(***************************************************************************)
(* h is what the loop of GetHealthyEndpoints has kept of eps after 0, 1,   *)
(* ..., n endpoints.                                                       *)
(***************************************************************************)
Kept(h, eps, n) ==
  h = [i \in 0 .. n |->
        IF i = 0 THEN << >> ELSE KeepIfHealthy(h[i - 1], eps[i])]

(***************************************************************************)
(* The recursion of HealthyIn has a solution.                              *)
(***************************************************************************)
LEMMA KeptExists == \A eps : \A n \in Nat : \E h : Kept(h, eps, n)
<1> TAKE eps
<1> DEFINE S == {n \in Nat : \E h : Kept(h, eps, n)}
<1>1. 0 \in S
  <2> DEFINE h == [i \in 0 .. 0 |-> << >>]
  <2>1. Kept(h, eps, 0)
    BY DEF Kept
  <2> QED BY <2>1
<1>2. ASSUME NEW n \in Nat, n \in S PROVE n + 1 \in S
  <2>1. PICK h : Kept(h, eps, n)
    BY <1>2
  <2> DEFINE g == [i \in 0 .. n + 1 |->
                    IF i = 0 THEN << >> ELSE KeepIfHealthy(h[i - 1], eps[i])]
  <2>2. \A i \in 0 .. n : g[i] = h[i]
    BY <2>1 DEF Kept
  <2>3. \A i \in 0 .. n + 1 : i # 0 => i - 1 \in 0 .. n
    OBVIOUS
  <2>4. \A i \in 0 .. n + 1 : i # 0 => g[i - 1] = h[i - 1]
    BY <2>2, <2>3
  <2>5. Kept(g, eps, n + 1)
    BY <2>4 DEF Kept
  <2> QED BY <2>5
<1> HIDE DEF S
<1>3. Nat \subseteq S
  BY <1>1, <1>2, NatSetInduction, Zenon
<1> QED BY <1>3 DEF S

(***************************************************************************)
(* h holds the healthy ones of the first n endpoints of eps, those only,   *)
(* in their order; and its length tells whether one of them is not         *)
(* healthy.                                                                *)
(***************************************************************************)
Filtered(h, eps, n) ==
  /\ h \in Seq(Endpoint)
  /\ Len(h) <= n
  /\ \A i \in 1 .. Len(h) : \E m \in 1 .. n : h[i] = eps[m] /\ eps[m].healthy
  /\ \A m \in 1 .. n : eps[m].healthy => \E i \in 1 .. Len(h) : h[i] = eps[m]
  /\ \A i, j \in 1 .. Len(h) :
       i < j => \E m, l \in 1 .. n : m < l /\ h[i] = eps[m] /\ h[j] = eps[l]
  /\ Len(h) = n => \A m \in 1 .. n : eps[m].healthy
  /\ Len(h) < n => \E m \in 1 .. n : ~eps[m].healthy

(***************************************************************************)
(* One round of the loop of GetHealthyEndpoints.                           *)
(***************************************************************************)
LEMMA FilteredStep ==
  ASSUME NEW eps \in Seq(Endpoint), NEW n \in Nat, n + 1 <= Len(eps),
         NEW h, Filtered(h, eps, n)
  PROVE  Filtered(KeepIfHealthy(h, eps[n + 1]), eps, n + 1)
<1>1. CASE eps[n + 1].healthy
  <2> DEFINE g == Append(h, eps[n+1])
  <2>0. /\ h \in Seq(Endpoint) /\ Len(h) \in Nat /\ Len(h) <= n
        /\ eps[n + 1] \in Endpoint
    BY DEF Filtered
  <2>1. /\ g \in Seq(Endpoint) /\ Len(g) = Len(h) + 1 /\ Len(g) <= n + 1
        /\ \A i \in 1 .. Len(h) : g[i] = h[i]
        /\ g[Len(h) + 1] = eps[n + 1]
    BY <2>0
  <2> HIDE DEF g
  <2>2. \A i \in 1 .. Len(g) :
          \E m \in 1 .. n + 1 : g[i] = eps[m] /\ eps[m].healthy
    <3> TAKE i \in 1 .. Len(g)
    <3>1. CASE i = Len(h) + 1
      BY <1>1, <2>0, <2>1, <3>1
    <3>2. CASE i \in 1 .. Len(h)
      <4>1. PICK m \in 1 .. n : h[i] = eps[m] /\ eps[m].healthy
        BY <3>2 DEF Filtered
      <4> QED BY <2>0, <2>1, <3>2, <4>1
    <3> QED BY <2>0, <2>1, <3>1, <3>2
  <2>3. \A m \in 1 .. n + 1 :
          eps[m].healthy => \E i \in 1 .. Len(g) : g[i] = eps[m]
    <3> TAKE m \in 1 .. n + 1
    <3>1. CASE m = n + 1
      BY <2>0, <2>1, <3>1
    <3>2. CASE m \in 1 .. n
      BY <2>0, <2>1, <3>2 DEF Filtered
    <3> QED BY <3>1, <3>2
  <2>4. ASSUME NEW i \in 1 .. Len(g), NEW j \in 1 .. Len(g), i < j
        PROVE \E m, l \in 1 .. n + 1 : m < l /\ g[i] = eps[m] /\ g[j] = eps[l]
    <3>1. CASE j = Len(h) + 1
      <4>1. i \in 1 .. Len(h) /\ g[j] = eps[n + 1] /\ g[i] = h[i]
        BY <2>0, <2>1, <2>4, <3>1
      <4>2. PICK m \in 1 .. n : h[i] = eps[m]
        BY <4>1 DEF Filtered
      <4> QED BY <4>1, <4>2
    <3>2. CASE j \in 1 .. Len(h)
      <4>1. i \in 1 .. Len(h) /\ g[j] = h[j] /\ g[i] = h[i]
        BY <2>0, <2>1, <2>4, <3>2
      <4>2. PICK m \in 1 .. n, l \in 1 .. n :
              m < l /\ h[i] = eps[m] /\ h[j] = eps[l]
        BY <2>4, <3>2, <4>1 DEF Filtered
      <4> QED BY <4>1, <4>2
    <3> QED BY <2>0, <2>1, <3>1, <3>2
  <2>5. Len(g) = n + 1 => \A m \in 1 .. n + 1 : eps[m].healthy
    BY <1>1, <2>0, <2>1 DEF Filtered
  <2>6. Len(g) < n + 1 => \E m \in 1 .. n + 1 : ~eps[m].healthy
    BY <2>0, <2>1 DEF Filtered
  <2>7. Filtered(g, eps, n + 1)
    BY <2>1, <2>2, <2>3, <2>4, <2>5, <2>6 DEF Filtered
  <2> QED BY <1>1, <2>7 DEF g, KeepIfHealthy
<1>2. CASE ~eps[n + 1].healthy
  <2>1. h \in Seq(Endpoint) /\ Len(h) \in Nat /\ Len(h) <= n
    BY DEF Filtered
  <2>2. \A m \in 1 .. n + 1 : eps[m].healthy => m \in 1 .. n
    BY <1>2
  <2>3. 1 .. n \subseteq 1 .. n + 1 /\ n + 1 \in 1 .. n + 1
    OBVIOUS
  <2>4. Filtered(h, eps, n + 1)
    BY <1>2, <2>1, <2>2, <2>3 DEF Filtered
  <2> QED BY <1>2, <2>4 DEF KeepIfHealthy
<1> QED BY <1>1, <1>2

(***************************************************************************)
(* What GetHealthyEndpoints returns.                                       *)
(***************************************************************************)
LEMMA HealthyFiltered ==
  ASSUME NEW eps \in Seq(Endpoint)
  PROVE  Filtered(HealthyIn(eps), eps, Len(eps))
<1> DEFINE n == Len(eps)
<1> DEFINE h == CHOOSE f : Kept(f, eps, n)
<1>0. n \in Nat
  OBVIOUS
<1>1. Kept(h, eps, n)
  BY <1>0, KeptExists
<1>2. HealthyIn(eps) = h[n]
  BY DEF HealthyIn, Kept
<1> HIDE DEF h
<1> DEFINE S == {k \in Nat : k <= n => Filtered(h[k], eps, k)}
<1>3. 0 \in S
  <2>1. h[0] = << >>
    BY <1>0, <1>1 DEF Kept
  <2>2. Filtered(<< >>, eps, 0)
    BY DEF Filtered
  <2> QED BY <2>1, <2>2
<1>4. ASSUME NEW k \in Nat, k \in S PROVE k + 1 \in S
  <2> SUFFICES ASSUME k + 1 <= n PROVE Filtered(h[k + 1], eps, k + 1)
    OBVIOUS
  <2>1. Filtered(h[k], eps, k)
    BY <1>0, <1>4
  <2>2. h[k + 1] = KeepIfHealthy(h[k], eps[k + 1])
    BY <1>0, <1>1 DEF Kept
  <2> QED BY <2>1, <2>2, FilteredStep
<1> HIDE DEF S
<1>5. Nat \subseteq S
  BY <1>3, <1>4, NatSetInduction, Zenon
<1> QED BY <1>0, <1>2, <1>5 DEF S
(***************************************************************************)
(* What Unregister leaves of a sequence when it cuts out element i.        *)
(***************************************************************************)
LEMMA RemoveAt ==
  ASSUME NEW S, NEW s \in Seq(S), NEW i \in 1 .. Len(s),
         NEW t, t = SubSeq(s, 1, i - 1) \o SubSeq(s, i + 1, Len(s))
  PROVE  /\ t \in Seq(S) /\ Len(t) = Len(s) - 1
         /\ \A k \in 1 .. i - 1 : t[k] = s[k]
         /\ \A k \in i .. Len(s) - 1 : t[k] = s[k + 1]
<1> DEFINE p == SubSeq(s, 1, i - 1)
           q == SubSeq(s, i + 1, Len(s))
<1>0. Len(s) \in Nat /\ i \in Nat /\ 1 <= i /\ i <= Len(s)
  OBVIOUS
<1>1. p \in Seq(S) /\ Len(p) = i - 1 /\ \A k \in 1 .. i - 1 : p[k] = s[k]
  OBVIOUS
<1>2. /\ q \in Seq(S) /\ Len(q) = Len(s) - i
      /\ \A k \in 1 .. Len(s) - i : q[k] = s[k + i]
  BY SubSeqProperties
<1> HIDE DEF p, q
<1>3. t = p \o q
  BY DEF p, q
<1>4. /\ p \o q \in Seq(S) /\ Len(p \o q) = Len(p) + Len(q)
      /\ \A k \in 1 .. Len(p) + Len(q) :
           (p \o q)[k] = IF k <= Len(p) THEN p[k] ELSE q[k - Len(p)]
  BY <1>1, <1>2, ConcatProperties
<1>5. /\ t \in Seq(S) /\ Len(t) = Len(p) + Len(q)
      /\ \A k \in 1 .. Len(p) + Len(q) :
           t[k] = IF k <= Len(p) THEN p[k] ELSE q[k - Len(p)]
  BY <1>3, <1>4, Zenon
<1>6. Len(p) + Len(q) = Len(s) - 1
  BY <1>0, <1>1, <1>2
<1>7. \A k \in 1 .. i - 1 : t[k] = s[k]
  <2> TAKE k \in 1 .. i - 1
  <2>1. k \in 1 .. Len(p) + Len(q) /\ k <= Len(p)
    BY <1>0, <1>1, <1>6
  <2> QED BY <1>1, <1>5, <2>1
<1>8. ASSUME NEW k \in i .. Len(s) - 1 PROVE t[k] = s[k + 1]
  <2>1. k \in 1 .. Len(p) + Len(q) /\ ~(k <= Len(p))
    BY <1>0, <1>1, <1>6
  <2>2. t[k] = q[k - Len(p)]
    BY <1>5, <2>1
  <2>3. k - Len(p) \in 1 .. Len(s) - i /\ (k - Len(p)) + i = k + 1
    BY <1>0, <1>1
  <2> QED BY <1>2, <2>2, <2>3
<1> QED BY <1>5, <1>6, <1>7, <1>8

(***************************************************************************)
(* The addresses with a healthy endpoint.                                  *)
(***************************************************************************)
Reachable(eps) ==
  {a \in Addresses :
     \E m \in 1 .. Len(eps) : eps[m].address = a /\ eps[m].healthy}

(***************************************************************************)
(* No address is registered twice.                                         *)
(***************************************************************************)
Distinct(eps) ==
  \A m, l \in 1 .. Len(eps) : eps[m].address = eps[l].address => m = l

(***************************************************************************)
(* The fields of an endpoint.                                              *)
(***************************************************************************)
LEMMA EndpointFields ==
  ASSUME NEW ep \in Endpoint
  PROVE  /\ ep.address \in Addresses
         /\ ep.weight \in Nat \ {0}
         /\ ep.healthy \in BOOLEAN
BY Zenon DEF Endpoint

(***************************************************************************)
(* GetHealthyEndpoints returns an endpoint for every address that has a    *)
(* healthy one, and for no other.                                          *)
(***************************************************************************)
LEMMA HealthyAddresses ==
  ASSUME NEW eps \in Seq(Endpoint)
  PROVE  AddressesIn(HealthyIn(eps)) = Reachable(eps)
<1> DEFINE h == HealthyIn(eps)
<1>1. Filtered(h, eps, Len(eps))
  BY HealthyFiltered
<1> HIDE DEF h
<1>2. h \in Seq(Endpoint) /\ DOMAIN h = 1 .. Len(h)
  BY <1>1 DEF Filtered
<1>3. ASSUME NEW a \in AddressesIn(h) PROVE a \in Reachable(eps)
  <2>1. PICK i \in 1 .. Len(h) : a = h[i].address
    BY <1>2, <1>3 DEF AddressesIn
  <2>2. PICK m \in 1 .. Len(eps) : h[i] = eps[m] /\ eps[m].healthy
    BY <1>1 DEF Filtered
  <2>3. a \in Addresses
    BY <1>2, <2>1, EndpointFields
  <2> QED BY <2>1, <2>2, <2>3 DEF Reachable
<1>4. ASSUME NEW a \in Reachable(eps) PROVE a \in AddressesIn(h)
  <2>1. PICK m \in 1 .. Len(eps) : eps[m].address = a /\ eps[m].healthy
    BY <1>4 DEF Reachable
  <2>2. PICK i \in 1 .. Len(h) : h[i] = eps[m]
    BY <1>1, <2>1 DEF Filtered
  <2> QED BY <1>2, <2>1, <2>2 DEF AddressesIn
<1> QED BY <1>3, <1>4 DEF h

(***************************************************************************)
(* Endpoints with distinct addresses stay so when they are filtered.       *)
(***************************************************************************)
LEMMA HealthyDistinct ==
  ASSUME NEW eps \in Seq(Endpoint), Distinct(eps)
  PROVE  Distinct(HealthyIn(eps))
<1> DEFINE h == HealthyIn(eps)
<1>1. Filtered(h, eps, Len(eps))
  BY HealthyFiltered
<1> HIDE DEF h
<1>2. \A i, j \in 1 .. Len(h) : i < j => h[i].address # h[j].address
  <2> SUFFICES ASSUME NEW i \in 1 .. Len(h), NEW j \in 1 .. Len(h), i < j
               PROVE  h[i].address # h[j].address
    OBVIOUS
  <2>1. PICK m \in 1 .. Len(eps), l \in 1 .. Len(eps) :
          m < l /\ h[i] = eps[m] /\ h[j] = eps[l]
    BY <1>1 DEF Filtered
  <2> QED BY <2>1 DEF Distinct
<1>3. \A i, j \in 1 .. Len(h) : i = j \/ i < j \/ j < i
  BY <1>1 DEF Filtered
<1> QED BY <1>2, <1>3 DEF h, Distinct

(***************************************************************************)
(* The loops of SetHealthy and Unregister find an endpoint with the        *)
(* address when there is one.                                              *)
(***************************************************************************)
LEMMA IndexOfFirst ==
  ASSUME endpoints \in Seq(Endpoint), NEW a \in AddressesIn(endpoints)
  PROVE  /\ IndexOf(a) \in 1 .. Len(endpoints)
         /\ endpoints[IndexOf(a)].address = a
<1> DEFINE T == {i \in 1 .. Len(endpoints) : endpoints[i].address = a}
<1>1. DOMAIN endpoints = 1 .. Len(endpoints) /\ Len(endpoints) \in Nat
  OBVIOUS
<1>2. T # {} /\ T \in SUBSET Nat
  BY <1>1 DEF AddressesIn
<1>3. PICK i \in T : \A j \in T : i <= j
  BY <1>2, Least
<1>4. \A j \in 1 .. i - 1 : endpoints[j].address # a
  BY <1>1, <1>3
<1>5. \E k \in DOMAIN endpoints :
        /\ endpoints[k].address = a
        /\ \A j \in 1 .. k - 1 : endpoints[j].address # a
  BY <1>1, <1>3, <1>4
<1>6. /\ IndexOf(a) \in DOMAIN endpoints
      /\ endpoints[IndexOf(a)].address = a
  BY <1>5, Zenon DEF IndexOf
<1> QED BY <1>1, <1>6

(***************************************************************************)
(* w is the running total of the weights of eps.                           *)
(***************************************************************************)
Sums(w, eps, n) ==
  w = [j \in 0 .. n |-> IF j = 0 THEN 0 ELSE w[j - 1] + eps[j].weight]

(***************************************************************************)
(* The recursion of WeightUpTo has a solution.                             *)
(***************************************************************************)
LEMMA SumsExist == \A eps : \A n \in Nat : \E w : Sums(w, eps, n)
<1> TAKE eps
<1> DEFINE S == {n \in Nat : \E w : Sums(w, eps, n)}
<1>1. 0 \in S
  <2> DEFINE w == [i \in 0 .. 0 |-> 0]
  <2>1. Sums(w, eps, 0)
    BY DEF Sums
  <2> QED BY <2>1
<1>2. ASSUME NEW n \in Nat, n \in S PROVE n + 1 \in S
  <2>1. PICK w : Sums(w, eps, n)
    BY <1>2
  <2> DEFINE v == [j \in 0 .. n + 1 |->
                    IF j = 0 THEN 0 ELSE w[j - 1] + eps[j].weight]
  <2>2. \A i \in 0 .. n : v[i] = w[i]
    BY <2>1 DEF Sums
  <2>3. \A i \in 0 .. n + 1 : i # 0 => i - 1 \in 0 .. n
    OBVIOUS
  <2>4. \A i \in 0 .. n + 1 : i # 0 => v[i - 1] = w[i - 1]
    BY <2>2, <2>3
  <2>5. Sums(v, eps, n + 1)
    BY <2>4 DEF Sums
  <2> QED BY <2>5
<1> HIDE DEF S
<1>3. Nat \subseteq S
  BY <1>1, <1>2, NatSetInduction, Zenon
<1> QED BY <1>3 DEF S

(***************************************************************************)
(* The running totals of weights start at zero and grow by the weights.    *)
(***************************************************************************)
LEMMA WeightSums ==
  ASSUME NEW eps \in Seq(Endpoint)
  PROVE  /\ WeightUpTo(eps, 0) = 0
         /\ \A i \in 1 .. Len(eps) :
              WeightUpTo(eps, i) = WeightUpTo(eps, i - 1) + eps[i].weight
         /\ \A i \in 0 .. Len(eps) : WeightUpTo(eps, i) \in Nat
<1> DEFINE n == Len(eps)
           w == CHOOSE f : Sums(f, eps, n)
<1>0. n \in Nat
  OBVIOUS
<1>1. Sums(w, eps, n)
  BY <1>0, SumsExist
<1>2. \A i : WeightUpTo(eps, i) = w[i]
  BY DEF WeightUpTo, Sums
<1> HIDE DEF w
<1>3. w[0] = 0 /\ \A i \in 1 .. n : w[i] = w[i - 1] + eps[i].weight
  BY <1>0, <1>1 DEF Sums
<1>4. \A i \in 1 .. n : eps[i].weight \in Nat
  BY EndpointFields
<1> DEFINE S == {k \in Nat : k <= n => w[k] \in Nat}
<1>5. 0 \in S
  BY <1>3
<1>6. ASSUME NEW k \in Nat, k \in S PROVE k + 1 \in S
  <2> SUFFICES ASSUME k + 1 <= n PROVE w[k + 1] \in Nat
    OBVIOUS
  <2>1. w[k] \in Nat
    BY <1>0, <1>6
  <2>2. w[k + 1] = w[k] + eps[k + 1].weight /\ eps[k + 1].weight \in Nat
    BY <1>0, <1>3, <1>4
  <2> QED BY <2>1, <2>2
<1> HIDE DEF S
<1>7. Nat \subseteq S
  BY <1>5, <1>6, NatSetInduction, Zenon
<1>8. \A i \in 0 .. n : w[i] \in Nat
  BY <1>0, <1>7 DEF S
<1> QED BY <1>2, <1>3, <1>8

(***************************************************************************)
(* The loop of WeightedLoadBalancer.Next finds an endpoint whatever the    *)
(* hash: the running total starts at zero and ends above hash %            *)
(* totalWeight.                                                            *)
(***************************************************************************)
LEMMA WeightedPickFinds ==
  ASSUME NEW eps \in Seq(Endpoint), eps # << >>, Len(eps) <= MaxEndpoints
  PROVE  WeightedPick(eps) \in DOMAIN eps
<1> DEFINE n == Len(eps)
           W(i) == WeightUpTo(eps, i)
           total == W(n)
           pick == Hash[n] % total
<1>0. n \in Nat \ {0} /\ DOMAIN eps = 1 .. n
  OBVIOUS
<1>1. /\ W(0) = 0
      /\ \A i \in 1 .. n : W(i) = W(i - 1) + eps[i].weight
      /\ \A i \in 0 .. n : W(i) \in Nat
  BY WeightSums
<1>2. eps[n].weight \in Nat \ {0}
  BY <1>0, EndpointFields
<1> HIDE DEF W
<1>3. total \in Nat \ {0}
  BY <1>0, <1>1, <1>2
<1>4. Hash[n] \in Nat
  BY <1>0, RoutingAssumption
<1>5. pick \in 0 .. total - 1
  BY <1>3, <1>4
<1> HIDE DEF pick, total
<1> DEFINE T == {i \in 1 .. n : pick < W(i)}
<1>6. n \in T
  BY <1>0, <1>3, <1>5 DEF total
<1>7. PICK i \in T : \A j \in T : i <= j
  <2>1. T \in SUBSET Nat /\ T # {}
    BY <1>0, <1>6
  <2> QED BY <2>1, Least
<1>8. W(i - 1) <= pick
  <2>1. CASE i = 1
    BY <1>1, <1>3, <1>5, <2>1
  <2>2. CASE i # 1
    <3>1. i - 1 \in 1 .. n /\ i - 1 \notin T
      BY <1>0, <1>7, <2>2
    <3>2. W(i - 1) \in Nat /\ ~(pick < W(i - 1))
      BY <1>0, <1>1, <3>1
    <3> QED BY <1>3, <1>5, <3>2
  <2> QED BY <2>1, <2>2
<1>9. \E k \in DOMAIN eps : W(k - 1) <= pick /\ pick < W(k)
  BY <1>0, <1>7, <1>8
<1>10. total # 0
  BY <1>3
<1>11. WeightedPick(eps) =
         CHOOSE k \in DOMAIN eps : W(k - 1) <= pick /\ pick < W(k)
  BY <1>10 DEF WeightedPick, W, pick, total
<1> QED BY <1>9, <1>11

-----------------------------------------------------------------------------
(***************************************************************************)
(* What Register does to the reachable addresses.                          *)
(***************************************************************************)
LEMMA AppendReachable ==
  ASSUME NEW e \in Seq(Endpoint), NEW ep \in Endpoint, ep.healthy
  PROVE  /\ Append(e, ep) \in Seq(Endpoint)
         /\ Len(Append(e, ep)) = Len(e) + 1
         /\ Reachable(Append(e, ep)) = Reachable(e) \cup {ep.address}
         /\ Distinct(e) /\ ep.address \notin AddressesIn(e)
              => Distinct(Append(e, ep))
<1> DEFINE f == Append(e, ep)
           n == Len(e)
<1>1. /\ f \in Seq(Endpoint) /\ n \in Nat /\ Len(f) = n + 1
      /\ \A m \in 1 .. n : f[m] = e[m]
      /\ f[n + 1] = ep
      /\ DOMAIN e = 1 .. n
  OBVIOUS
<1>2. ep.address \in Addresses
  BY EndpointFields
<1> HIDE DEF f, n
<1>3. \A m \in 1 .. n + 1 : m \in 1 .. n \/ m = n + 1
  BY <1>1
<1>4. 1 .. n \subseteq 1 .. n + 1 /\ n + 1 \in 1 .. n + 1
  BY <1>1
<1>5. Reachable(f) = Reachable(e) \cup {ep.address}
  <2>1. \A a \in Reachable(f) : a \in Reachable(e) \cup {ep.address}
    BY <1>1, <1>3 DEF Reachable, n
  <2>2. \A a \in Reachable(e) : a \in Reachable(f)
    BY <1>1, <1>4 DEF Reachable, n
  <2>3. ep.address \in Reachable(f)
    BY <1>1, <1>2, <1>4 DEF Reachable
  <2> QED BY <2>1, <2>2, <2>3
<1>6. ASSUME Distinct(e), ep.address \notin AddressesIn(e) PROVE Distinct(f)
  <2>1. \A m \in 1 .. n : e[m].address # ep.address
    BY <1>1, <1>6 DEF AddressesIn
  <2>2. \A m, l \in 1 .. n : e[m].address = e[l].address => m = l
    BY <1>6 DEF Distinct, n
  <2>3. \A m, l \in 1 .. n + 1 : f[m].address = f[l].address => m = l
    BY <1>1, <1>3, <2>1, <2>2
  <2> QED BY <1>1, <2>3 DEF Distinct
<1> QED BY <1>1, <1>5, <1>6 DEF f, n

(***************************************************************************)
(* What Unregister does to the reachable addresses: of a duplicated one an *)
(* endpoint may stay.                                                      *)
(***************************************************************************)
LEMMA RemoveReachable ==
  ASSUME NEW e \in Seq(Endpoint), NEW i \in 1 .. Len(e),
         NEW f \in Seq(Endpoint), Len(f) = Len(e) - 1,
         \A k \in 1 .. i - 1 : f[k] = e[k],
         \A k \in i .. Len(e) - 1 : f[k] = e[k + 1]
  PROVE  /\ Reachable(e) \ {e[i].address} \subseteq Reachable(f)
         /\ Reachable(f) \subseteq Reachable(e)
         /\ Distinct(e) => Distinct(f) /\ e[i].address \notin Reachable(f)
<1> DEFINE n == Len(e)
           from == [k \in 1 .. n - 1 |-> IF k < i THEN k ELSE k + 1]
<1>1. n \in Nat /\ i \in Nat /\ 1 <= i /\ i <= n
  OBVIOUS
<1>2. /\ Len(f) = n - 1
      /\ \A k \in 1 .. i - 1 : f[k] = e[k]
      /\ \A k \in i .. n - 1 : f[k] = e[k + 1]
  OBVIOUS
<1>3. \A k \in 1 .. Len(f) :
        from[k] \in 1 .. n /\ from[k] # i /\ f[k] = e[from[k]]
  BY <1>1, <1>2
<1>4. \A k, l \in 1 .. Len(f) : from[k] = from[l] => k = l
  BY <1>1, <1>2
<1>5. \A m \in 1 .. n : m # i => \E k \in 1 .. Len(f) : from[k] = m
  <2> TAKE m \in 1 .. n
  <2>1. m < i => m \in 1 .. Len(f) /\ from[m] = m
    BY <1>1, <1>2
  <2>2. m > i => m - 1 \in 1 .. Len(f) /\ from[m - 1] = m
    BY <1>1, <1>2
  <2>3. m # i => m < i \/ m > i
    BY <1>1
  <2> HIDE DEF from
  <2> QED BY <2>1, <2>2, <2>3
<1> HIDE DEF from
<1>6. ASSUME NEW a \in Reachable(f) PROVE a \in Reachable(e)
  <2>1. PICK k \in 1 .. Len(f) : f[k].address = a /\ f[k].healthy
    BY <1>6 DEF Reachable
  <2> QED BY <1>3, <1>6, <2>1 DEF Reachable, n
<1>7. ASSUME NEW a \in Reachable(e), a # e[i].address PROVE a \in Reachable(f)
  <2>1. PICK m \in 1 .. n : e[m].address = a /\ e[m].healthy
    BY <1>7 DEF Reachable, n
  <2>2. PICK k \in 1 .. Len(f) : from[k] = m
    BY <1>5, <1>7, <2>1
  <2> QED BY <1>3, <1>7, <2>1, <2>2 DEF Reachable
<1>8. ASSUME Distinct(e) PROVE Distinct(f) /\ e[i].address \notin Reachable(f)
  <2>1. \A k \in 1 .. Len(f) : f[k].address # e[i].address
    BY <1>1, <1>3, <1>8 DEF Distinct, n
  <2>2. ASSUME NEW k \in 1 .. Len(f), NEW l \in 1 .. Len(f),
               f[k].address = f[l].address
        PROVE  k = l
    <3>1. e[from[k]].address = e[from[l]].address
      BY <1>3, <2>2
    <3>2. from[k] = from[l]
      BY <1>3, <1>8, <3>1 DEF Distinct, n
    <3> QED BY <1>4, <3>2
  <2> QED BY <2>1, <2>2 DEF Reachable, Distinct
<1> QED BY <1>6, <1>7, <1>8

(***************************************************************************)
(* What SetHealthy leaves of a sequence when it writes to element i.       *)
(***************************************************************************)
LEMMA SetAt ==
  ASSUME NEW e \in Seq(Endpoint), NEW i \in 1 .. Len(e), NEW b \in BOOLEAN
  PROVE  LET f == [e EXCEPT ![i].healthy = b]
         IN  /\ f \in Seq(Endpoint) /\ Len(f) = Len(e)
             /\ f[i].address = e[i].address /\ f[i].healthy = b
             /\ \A k \in 1 .. Len(e) : k # i => f[k] = e[k]
<1> DEFINE ep == [e[i] EXCEPT !.healthy = b]
           f == [e EXCEPT ![i].healthy = b]
<1>1. e[i] \in Endpoint
  OBVIOUS
<1>2. ep \in Endpoint
  BY <1>1, Zenon DEF Endpoint
<1>3. ep.address = e[i].address /\ ep.healthy = b
  BY <1>1, Zenon DEF Endpoint
<1>4. f = [e EXCEPT ![i] = ep]
  OBVIOUS
<1> HIDE DEF ep, f
<1>5. /\ f \in Seq(Endpoint) /\ Len(f) = Len(e)
      /\ f[i] = ep
      /\ \A k \in 1 .. Len(e) : k # i => f[k] = e[k]
  BY <1>1, <1>2, <1>4, ExceptSeq
<1>6. /\ f \in Seq(Endpoint) /\ Len(f) = Len(e)
      /\ f[i].address = e[i].address /\ f[i].healthy = b
      /\ \A k \in 1 .. Len(e) : k # i => f[k] = e[k]
  BY <1>3, <1>5, Zenon
<1> QED BY <1>6, Zenon DEF f

(***************************************************************************)
(* What SetHealthy does to the reachable addresses.                        *)
(***************************************************************************)
LEMMA SetReachable ==
  ASSUME NEW e \in Seq(Endpoint), NEW i \in 1 .. Len(e), NEW b \in BOOLEAN,
         NEW f \in Seq(Endpoint), Len(f) = Len(e),
         f[i].address = e[i].address, f[i].healthy = b,
         \A k \in 1 .. Len(e) : k # i => f[k] = e[k]
  PROVE  /\ Reachable(e) \ {e[i].address} \subseteq Reachable(f)
         /\ Reachable(f) \subseteq Reachable(e) \cup {e[i].address}
         /\ b => e[i].address \in Reachable(f)
         /\ Distinct(e) =>
              Distinct(f) /\ (~b => e[i].address \notin Reachable(f))
<1> DEFINE n == Len(e)
<1>1. n \in Nat /\ e[i] \in Endpoint
  OBVIOUS
<1>3. e[i].address \in Addresses
  BY <1>1, EndpointFields
<1>5. Len(f) = n /\ \A k \in 1 .. n : k # i => f[k] = e[k]
  OBVIOUS
<1>6. \A k \in 1 .. n : f[k].address = e[k].address
  BY <1>3, <1>5
<1>7. Reachable(e) \ {e[i].address} \subseteq Reachable(f)
  BY <1>5, <1>6 DEF Reachable, n
<1>8. Reachable(f) \subseteq Reachable(e) \cup {e[i].address}
  BY <1>3, <1>5, <1>6 DEF Reachable, n
<1>9. b => e[i].address \in Reachable(f)
  BY <1>3, <1>5 DEF Reachable, n
<1>10. ASSUME Distinct(e)
       PROVE  Distinct(f) /\ (~b => e[i].address \notin Reachable(f))
  <2>1. Distinct(f)
    BY <1>5, <1>6, <1>10 DEF Distinct, n
  <2>2. ASSUME ~b, e[i].address \in Reachable(f) PROVE FALSE
    <3>1. PICK k \in 1 .. n : f[k].address = e[i].address /\ f[k].healthy
      BY <1>5, <2>2 DEF Reachable
    <3>2. k = i
      BY <1>6, <1>10, <3>1 DEF Distinct, n
    <3> QED BY <1>3, <1>5, <2>2, <3>1, <3>2
  <2> QED BY <2>1, <2>2
<1> QED BY <1>7, <1>8, <1>9, <1>10

-----------------------------------------------------------------------------
(***************************************************************************)
(* With the counter at k, the position among n endpoints of the selection  *)
(* d before the latest.                                                    *)
(***************************************************************************)
Turn(k, d, n) ==
  LET p == IF k = 0 THEN n ELSE k
  IN  IF d < p THEN p - d ELSE p - d + n

(***************************************************************************)
(* The selections R were made in turn from h and left the counter at k.    *)
(***************************************************************************)
InTurn(R, k, h) ==
  /\ R # << >> => k < Len(h)
  /\ \A d \in 0 .. Len(R) - 1 :
       d < Len(h) => R[Len(R) - d] = h[Turn(k, d, Len(h))].address
  /\ \A i, j \in 1 .. Len(R) : i < j /\ j - i < Len(h) => R[i] # R[j]

(***************************************************************************)
(* One more selection moves every position one further back, and is of     *)
(* none of the n - 1 positions before it.                                  *)
(***************************************************************************)
LEMMA TurnNext ==
  ASSUME NEW n \in Nat \ {0}, NEW k \in 0 .. n - 1
  PROVE  /\ (k + 1) % n \in 0 .. n - 1
         /\ Turn((k + 1) % n, 0, n) = k + 1
         /\ \A d \in 1 .. n - 1 :
              /\ Turn((k + 1) % n, d, n) = Turn(k, d - 1, n)
              /\ Turn((k + 1) % n, d, n) \in 1 .. n
              /\ Turn((k + 1) % n, d, n) # k + 1
<1>1. CASE k + 1 = n
  <2>1. (k + 1) % n = 0
    BY <1>1
  <2> QED BY <1>1, <2>1 DEF Turn
<1>2. CASE k + 1 # n
  <2>1. k + 1 \in 1 .. n - 1
    BY <1>2
  <2>2. (k + 1) % n = k + 1
    BY <2>1
  <2> QED BY <2>1, <2>2 DEF Turn
<1> QED BY <1>1, <1>2

(***************************************************************************)
(* RoundRobinLoadBalancer.Next selects in turn.                            *)
(***************************************************************************)
LEMMA InTurnAppend ==
  ASSUME NEW h \in Seq(Endpoint), Distinct(h), h # << >>,
         NEW k \in 0 .. Len(h) - 1,
         NEW R \in Seq(Addresses), InTurn(R, k, h),
         NEW Q \in Seq(Addresses), Len(Q) = Len(R) + 1,
         \A i \in 1 .. Len(R) : Q[i] = R[i],
         Q[Len(R) + 1] = h[k + 1].address
  PROVE  InTurn(Q, (k + 1) % Len(h), h)
<1> DEFINE n == Len(h)
           r == Len(R)
           k2 == (k + 1) % n
<1>0. n \in Nat \ {0} /\ r \in Nat /\ k \in 0 .. n - 1
  OBVIOUS
<1>1. /\ k2 \in 0 .. n - 1
      /\ Turn(k2, 0, n) = k + 1
      /\ \A d \in 1 .. n - 1 :
           /\ Turn(k2, d, n) = Turn(k, d - 1, n)
           /\ Turn(k2, d, n) \in 1 .. n
           /\ Turn(k2, d, n) # k + 1
  BY <1>0, TurnNext
<1> HIDE DEF k2
<1>2. ASSUME NEW d \in 0 .. r, d < n
      PROVE  Q[r + 1 - d] = h[Turn(k2, d, n)].address
  <2>1. CASE d = 0
    BY <1>0, <1>1, <2>1
  <2>2. CASE d # 0
    <3>1. d - 1 \in 0 .. r - 1 /\ d - 1 < n /\ d \in 1 .. n - 1
      BY <1>0, <1>2, <2>2
    <3>2. R[r - (d - 1)] = h[Turn(k, d - 1, n)].address
      BY <3>1 DEF InTurn
    <3>3. r + 1 - d = r - (d - 1) /\ r - (d - 1) \in 1 .. r
      BY <1>0, <1>2, <3>1
    <3>4. Q[r + 1 - d] = R[r - (d - 1)]
      BY <3>3
    <3>5. Turn(k2, d, n) = Turn(k, d - 1, n)
      BY <1>1, <3>1
    <3> QED BY <3>2, <3>4, <3>5
  <2> QED BY <2>1, <2>2
<1>3. ASSUME NEW i \in 1 .. r + 1, NEW j \in 1 .. r + 1, i < j, j - i < n
      PROVE  Q[i] # Q[j]
  <2>1. CASE j = r + 1
    <3> DEFINE d == r + 1 - i
    <3>1. d \in 0 .. r /\ d \in 1 .. n - 1 /\ d < n /\ r + 1 - d = i
      BY <1>0, <1>3, <2>1
    <3> HIDE DEF d
    <3>2. Q[r + 1 - d] = h[Turn(k2, d, n)].address
      BY <1>2, <3>1
    <3>3. /\ Turn(k2, d, n) \in 1 .. n /\ Turn(k2, d, n) # k + 1
          /\ k + 1 \in 1 .. n
      BY <1>0, <1>1, <3>1
    <3>4. h[Turn(k2, d, n)].address # h[k + 1].address
      BY <3>3 DEF Distinct
    <3> QED BY <2>1, <3>1, <3>2, <3>4
  <2>2. CASE j # r + 1
    <3>1. i \in 1 .. r /\ j \in 1 .. r
      BY <1>0, <1>3, <2>2
    <3> QED BY <1>3, <3>1 DEF InTurn
  <2> QED BY <2>1, <2>2
<1>4. \A d \in 0 .. Len(Q) - 1 :
        d < n => Q[Len(Q) - d] = h[Turn(k2, d, n)].address
  BY <1>0, <1>2
<1>5. \A i, j \in 1 .. Len(Q) : i < j /\ j - i < n => Q[i] # Q[j]
  BY <1>0, <1>3
<1>6. k2 < n
  BY <1>0, <1>1
<1> QED BY <1>4, <1>5, <1>6 DEF InTurn, k2

(***************************************************************************)
(* Forgetting the oldest selection changes nothing.                        *)
(***************************************************************************)
LEMMA InTurnTail ==
  ASSUME NEW R \in Seq(Addresses), R # << >>, NEW h \in Seq(Endpoint),
         NEW k, InTurn(R, k, h)
  PROVE  InTurn(Tail(R), k, h)
<1> DEFINE Q == Tail(R)
<1>1. /\ Len(Q) = Len(R) - 1 /\ Len(R) \in Nat /\ Len(h) \in Nat
      /\ \A i \in 1 .. Len(Q) : Q[i] = R[i + 1]
  BY HeadTailProperties
<1> HIDE DEF Q
<1>2. ASSUME NEW d \in 0 .. Len(Q) - 1, d < Len(h)
      PROVE  Q[Len(Q) - d] = h[Turn(k, d, Len(h))].address
  <2>1. Len(Q) - d \in 1 .. Len(Q) /\ Len(Q) - d + 1 = Len(R) - d
    BY <1>1
  <2>2. d \in 0 .. Len(R) - 1
    BY <1>1
  <2>3. R[Len(R) - d] = h[Turn(k, d, Len(h))].address
    BY <1>2, <2>2 DEF InTurn
  <2> QED BY <1>1, <2>1, <2>3
<1>3. ASSUME NEW i \in 1 .. Len(Q), NEW j \in 1 .. Len(Q),
             i < j, j - i < Len(h)
      PROVE  Q[i] # Q[j]
  <2>1. i + 1 \in 1 .. Len(R) /\ j + 1 \in 1 .. Len(R)
        /\ i + 1 < j + 1 /\ (j + 1) - (i + 1) < Len(h)
    BY <1>1, <1>3
  <2>2. R[i + 1] # R[j + 1]
    BY <2>1 DEF InTurn
  <2> QED BY <1>1, <2>2
<1>4. k < Len(h)
  BY DEF InTurn
<1> QED BY <1>2, <1>3, <1>4 DEF InTurn, Q

-----------------------------------------------------------------------------
(***************************************************************************)
(* Where a call may be, and what it has read there.                        *)
(***************************************************************************)
CallShape ==
  \A c \in Calls :
    /\ pc[c] \in {"next", "select", "fallback"} => c \in Routed
    /\ pc[c] \in {"endpoints", "healthy"} => c \in Queries
    /\ pc[c] = "select" => snapshot[c] # << >>
    /\ Len(snapshot[c]) <= MaxEndpoints

(***************************************************************************)
(* What a call has read is still so if the registry has not changed.       *)
(***************************************************************************)
FreshSnapshots ==
  \A c \in fresh :
    /\ c \in Routed => snapshot[c] = GetHealthyEndpoints
    /\ c \in Queries => snapshot[c] = endpoints

(***************************************************************************)
(* An address that is up has a healthy endpoint, duplicates or not.        *)
(***************************************************************************)
UpReachable == up \subseteq Reachable(endpoints)

(***************************************************************************)
(* A request in progress has noted that nothing was up if nothing is, and  *)
(* one that falls back on the version has.                                 *)
(***************************************************************************)
AbsenceNoted ==
  \A c \in Routed :
    /\ pc[c] # "idle" /\ up = {} => sawNone[c]
    /\ pc[c] = "fallback" => sawNone[c]

(***************************************************************************)
(* A request in progress has noted what is up.                             *)
(***************************************************************************)
UpNoted == \A c \in Routed : pc[c] # "idle" => up \subseteq wasUp[c]

(***************************************************************************)
(* Without duplicates, only what is up has a healthy endpoint.             *)
(***************************************************************************)
SoleEndpoints ==
  /\ Distinct(endpoints)
  /\ Reachable(endpoints) \subseteq up

(***************************************************************************)
(* A balancer chooses among addresses that were up during the request.     *)
(***************************************************************************)
SnapshotsWereUp ==
  \A c \in Routed :
    pc[c] = "select" => AddressesIn(snapshot[c]) \subseteq wasUp[c]

(***************************************************************************)
(* The remembered selections were made in turn from the present registry.  *)
(***************************************************************************)
Rounds == InTurn(recent, counter, GetHealthyEndpoints)

(***************************************************************************)
(* The inductive invariant for any registry ...                            *)
(***************************************************************************)
IInv ==
  /\ TypeOK
  /\ CallShape
  /\ FreshSnapshots
  /\ UpReachable
  /\ AbsenceNoted

(***************************************************************************)
(* ... and what is added to it when no address is registered twice.        *)
(***************************************************************************)
SoleInv ==
  /\ UpNoted
  /\ SoleEndpoints
  /\ SnapshotsWereUp
  /\ Rounds

-----------------------------------------------------------------------------
(***************************************************************************)
(* What GetHealthyEndpoints returns of a well-typed registry.              *)
(***************************************************************************)
LEMMA HealthyType ==
  ASSUME TypeOK
  PROVE  /\ GetHealthyEndpoints \in Seq(Endpoint)
         /\ Len(GetHealthyEndpoints) \in Nat
         /\ Len(GetHealthyEndpoints) <= MaxEndpoints
         /\ AddressesIn(GetHealthyEndpoints) = Reachable(endpoints)
         /\ GetHealthyEndpoints = << >> <=> Reachable(endpoints) = {}
<1> DEFINE h == GetHealthyEndpoints
<1>1. endpoints \in Seq(Endpoint) /\ Len(endpoints) <= MaxEndpoints
  BY DEF TypeOK
<1>2. h \in Seq(Endpoint) /\ Len(h) <= Len(endpoints)
  BY <1>1, HealthyFiltered DEF Filtered, GetHealthyEndpoints
<1>3. AddressesIn(h) = Reachable(endpoints)
  BY <1>1, HealthyAddresses DEF GetHealthyEndpoints
<1> HIDE DEF h
<1>4. h = << >> <=> AddressesIn(h) = {}
  <2>1. CASE h = << >>
    BY <2>1 DEF AddressesIn
  <2>2. CASE h # << >>
    <3>1. 1 \in DOMAIN h
      BY <1>2, <2>2
    <3> QED BY <2>2, <3>1 DEF AddressesIn
  <2> QED BY <2>1, <2>2
<1>5. Len(h) \in Nat /\ Len(h) <= MaxEndpoints
  BY <1>1, <1>2, RoutingAssumption
<1> QED BY <1>2, <1>3, <1>4, <1>5 DEF h

(***************************************************************************)
(* Register, Unregister and SetHealthy keep the registry well typed, what  *)
(* is up reachable and, without duplicates, the rest unreachable.          *)
(***************************************************************************)
LEMMA RegistryStepKeeps ==
  ASSUME TypeOK, RegistryStep
  PROVE  /\ endpoints' \in Seq(Endpoint) /\ Len(endpoints') <= MaxEndpoints
         /\ up' \subseteq Addresses
         /\ Observed
         /\ UpReachable => UpReachable'
         /\ ~Duplicates /\ SoleEndpoints => SoleEndpoints'
<1>0. /\ endpoints \in Seq(Endpoint)
      /\ Len(endpoints) \in Nat /\ Len(endpoints) <= MaxEndpoints
      /\ up \subseteq Addresses
  BY DEF TypeOK
<1>1. PICK a \in Addresses : \/ Register(a)
                             \/ Unregister(a)
                             \/ \E healthy \in BOOLEAN : SetHealthy(a, healthy)
  BY DEF RegistryStep
<1>2. CASE Register(a)
  <2> DEFINE w == IF WeightOf[a] <= 0 THEN 1 ELSE WeightOf[a]
             ep == [address |-> a, healthy |-> TRUE, weight |-> w]
  <2>1. w \in Nat \ {0}
    BY RoutingAssumption
  <2> HIDE DEF w
  <2>2. ep \in Endpoint /\ ep.address = a /\ ep.healthy
    BY <2>1, Zenon DEF Endpoint
  <2>3. /\ endpoints' = Append(endpoints, ep)
        /\ Len(endpoints) < MaxEndpoints
        /\ Duplicates \/ a \notin AddressesIn(endpoints)
        /\ up' = up \cup {a}
        /\ Observed
    BY <1>2, Zenon DEF Register, w
  <2> HIDE DEF ep
  <2>4. /\ Append(endpoints, ep) \in Seq(Endpoint)
        /\ Len(Append(endpoints, ep)) = Len(endpoints) + 1
        /\ Reachable(Append(endpoints, ep)) = Reachable(endpoints) \cup {a}
        /\ Distinct(endpoints) /\ a \notin AddressesIn(endpoints)
             => Distinct(Append(endpoints, ep))
    BY <1>0, <2>2, AppendReachable, Zenon
  <2>5. /\ endpoints' \in Seq(Endpoint)
        /\ Len(endpoints') = Len(endpoints) + 1
        /\ Reachable(endpoints') = Reachable(endpoints) \cup {a}
        /\ Distinct(endpoints) /\ a \notin AddressesIn(endpoints)
             => Distinct(endpoints')
    BY <2>3, <2>4, Zenon
  <2>6. Len(endpoints') <= MaxEndpoints
    BY <1>0, <2>3, <2>5, RoutingAssumption
  <2>7. UpReachable => UpReachable'
    BY <2>3, <2>5, Zenon DEF UpReachable
  <2>8. ~Duplicates /\ SoleEndpoints => SoleEndpoints'
    BY <2>3, <2>5, Zenon DEF SoleEndpoints
  <2> QED BY <1>0, <2>3, <2>5, <2>6, <2>7, <2>8, Zenon
<1>3. CASE Unregister(a)
  <2> DEFINE i == IndexOf(a)
  <2>1. /\ a \in AddressesIn(endpoints)
        /\ endpoints' = SubSeq(endpoints, 1, i - 1)
                          \o SubSeq(endpoints, i + 1, Len(endpoints))
        /\ up' = up \ {a}
        /\ Observed
    BY <1>3 DEF Unregister
  <2>2. i \in 1 .. Len(endpoints) /\ endpoints[i].address = a
    BY <1>0, <2>1, IndexOfFirst
  <2> HIDE DEF i
  <2>3. /\ endpoints' \in Seq(Endpoint) /\ Len(endpoints') = Len(endpoints) - 1
        /\ \A k \in 1 .. i - 1 : endpoints'[k] = endpoints[k]
        /\ \A k \in i .. Len(endpoints) - 1 : endpoints'[k] = endpoints[k + 1]
    <3> DEFINE f == SubSeq(endpoints, 1, i - 1)
                      \o SubSeq(endpoints, i + 1, Len(endpoints))
    <3>1. endpoints' = f
      BY <2>1
    <3>2. /\ f \in Seq(Endpoint) /\ Len(f) = Len(endpoints) - 1
          /\ \A k \in 1 .. i - 1 : f[k] = endpoints[k]
          /\ \A k \in i .. Len(endpoints) - 1 : f[k] = endpoints[k + 1]
      BY <1>0, <2>2, RemoveAt
    <3> HIDE DEF f
    <3> QED BY <3>1, <3>2, Zenon
  <2>4. /\ Reachable(endpoints) \ {a} \subseteq Reachable(endpoints')
        /\ Reachable(endpoints') \subseteq Reachable(endpoints)
        /\ Distinct(endpoints) =>
             Distinct(endpoints') /\ a \notin Reachable(endpoints')
    BY <1>0, <2>2, <2>3, RemoveReachable, Zenon
  <2>5. Len(endpoints') <= MaxEndpoints
    BY <1>0, <2>3, RoutingAssumption
  <2>6. UpReachable => UpReachable'
    BY <2>1, <2>4, Zenon DEF UpReachable
  <2>7. SoleEndpoints => SoleEndpoints'
    BY <2>1, <2>4, Zenon DEF SoleEndpoints
  <2> QED BY <1>0, <2>1, <2>3, <2>5, <2>6, <2>7, Zenon
<1>4. ASSUME NEW healthy \in BOOLEAN, SetHealthy(a, healthy)
      PROVE  /\ endpoints' \in Seq(Endpoint) /\ Len(endpoints') <= MaxEndpoints
             /\ up' \subseteq Addresses
             /\ Observed
             /\ UpReachable => UpReachable'
             /\ ~Duplicates /\ SoleEndpoints => SoleEndpoints'
  <2> DEFINE i == IndexOf(a)
  <2>1. /\ a \in AddressesIn(endpoints)
        /\ endpoints' = [endpoints EXCEPT ![i].healthy = healthy]
        /\ up' = IF healthy THEN up \cup {a} ELSE up \ {a}
        /\ Observed
    BY <1>4 DEF SetHealthy
  <2>2. i \in 1 .. Len(endpoints) /\ endpoints[i].address = a
    BY <1>0, <2>1, IndexOfFirst
  <2> HIDE DEF i
  <2>3. /\ endpoints' \in Seq(Endpoint) /\ Len(endpoints') = Len(endpoints)
        /\ Reachable(endpoints) \ {a} \subseteq Reachable(endpoints')
        /\ Reachable(endpoints') \subseteq Reachable(endpoints) \cup {a}
        /\ healthy => a \in Reachable(endpoints')
        /\ Distinct(endpoints) =>
             /\ Distinct(endpoints')
             /\ ~healthy => a \notin Reachable(endpoints')
    <3> DEFINE f == [endpoints EXCEPT ![i].healthy = healthy]
    <3>1. endpoints' = f
      BY <2>1
    <3>2. /\ f \in Seq(Endpoint) /\ Len(f) = Len(endpoints)
          /\ f[i].address = endpoints[i].address /\ f[i].healthy = healthy
          /\ \A k \in 1 .. Len(endpoints) : k # i => f[k] = endpoints[k]
      BY <1>0, <2>2, SetAt
    <3> HIDE DEF f
    <3>3. /\ Reachable(endpoints) \ {a} \subseteq Reachable(f)
          /\ Reachable(f) \subseteq Reachable(endpoints) \cup {a}
          /\ healthy => a \in Reachable(f)
          /\ Distinct(endpoints) =>
               Distinct(f) /\ (~healthy => a \notin Reachable(f))
      BY <1>0, <2>2, <3>2, SetReachable, Zenon
    <3> QED BY <3>1, <3>2, <3>3, Zenon
  <2>4. Len(endpoints') <= MaxEndpoints
    BY <1>0, <2>3
  <2>5. UpReachable => UpReachable'
    BY <2>1, <2>3, Zenon DEF UpReachable
  <2>6. SoleEndpoints => SoleEndpoints'
    BY <2>1, <2>3, Zenon DEF SoleEndpoints
  <2>7. up' \subseteq Addresses
    BY <1>0, <2>1, Zenon
  <2> QED BY <2>1, <2>3, <2>4, <2>5, <2>6, <2>7, Zenon
<1> QED BY <1>1, <1>2, <1>3, <1>4

(***************************************************************************)
(* A call that returns changes only what is noted about itself.            *)
(***************************************************************************)
LEMMA ReturnKeeps ==
  ASSUME TypeOK, NEW c \in Calls, NEW r, Return(c, r)
  PROVE  /\ pc' \in [Calls -> {"idle", "next", "select", "fallback",
                               "endpoints", "healthy"}]
         /\ pc'[c] = "idle" /\ \A d \in Calls : d # c => pc'[d] = pc[d]
         /\ wasUp' \in [Calls -> SUBSET Addresses]
         /\ \A d \in Calls : d # c => wasUp'[d] = wasUp[d]
         /\ sawNone' \in [Calls -> BOOLEAN]
         /\ \A d \in Calls : d # c => sawNone'[d] = sawNone[d]
         /\ result' = r
<1>1. /\ pc' \in [Calls -> {"idle", "next", "select", "fallback",
                            "endpoints", "healthy"}]
      /\ pc'[c] = "idle" /\ \A d \in Calls : d # c => pc'[d] = pc[d]
  BY Zenon DEF Return, TypeOK
<1>2. /\ wasUp' \in [Calls -> SUBSET Addresses]
      /\ \A d \in Calls : d # c => wasUp'[d] = wasUp[d]
  BY Zenon DEF Return, TypeOK
<1>3. /\ sawNone' \in [Calls -> BOOLEAN]
      /\ \A d \in Calls : d # c => sawNone'[d] = sawNone[d]
  BY Zenon DEF Return, TypeOK
<1> QED BY <1>1, <1>2, <1>3 DEF Return

(***************************************************************************)
(* So does a call that goes on.                                            *)
(***************************************************************************)
LEMMA ContinueKeeps ==
  ASSUME TypeOK, NEW c \in Calls,
         NEW step \in {"next", "select", "fallback", "endpoints", "healthy"},
         Continue(c, step)
  PROVE  /\ pc' \in [Calls -> {"idle", "next", "select", "fallback",
                               "endpoints", "healthy"}]
         /\ pc'[c] = step /\ \A d \in Calls : d # c => pc'[d] = pc[d]
         /\ result' = "none"
BY Zenon DEF Continue, TypeOK

(***************************************************************************)
(* A call writes its own snapshot only.                                    *)
(***************************************************************************)
LEMMA SnapshotKeeps ==
  ASSUME TypeOK, NEW c \in Calls, NEW s \in Seq(Endpoint),
         snapshot' = [snapshot EXCEPT ![c] = s]
  PROVE  /\ snapshot' \in [Calls -> Seq(Endpoint)]
         /\ snapshot'[c] = s
         /\ \A d \in Calls : d # c => snapshot'[d] = snapshot[d]
BY Zenon DEF TypeOK

(***************************************************************************)
(* What becomes of the remembered selections.                              *)
(***************************************************************************)
LEMMA RememberKeeps ==
  ASSUME TypeOK, NEW c \in Calls, NEW a \in Addresses,
         NEW pick \in {<< >>, <<a>>}, Remember(c, pick)
  PROVE  /\ recent' \in Seq(Addresses) /\ Len(recent') <= MaxRecent
         /\ \/ c \notin SharedCalls /\ recent' = recent
            \/ recent' = << >>
            \/ /\ c \in SharedCalls \cap fresh
               /\ recent' = Append(recent, a)
            \/ /\ c \in SharedCalls \cap fresh
               /\ recent' = Tail(Append(recent, a))
<1>0. /\ recent \in Seq(Addresses) /\ Len(recent) \in Nat
      /\ Len(recent) <= MaxRecent /\ MaxRecent \in Nat
  BY RoutingAssumption DEF TypeOK
<1> DEFINE p == Append(recent, a)
<1>1. CASE c \notin SharedCalls
  BY <1>0, <1>1 DEF Remember
<1>2. CASE c \in SharedCalls /\ (c \notin fresh \/ pick = << >>)
  <2>1. recent' = << >>
    BY <1>2 DEF Remember
  <2> QED BY <1>0, <2>1
<1>3. CASE c \in SharedCalls /\ c \in fresh /\ pick = <<a>>
  <2>1. recent' = IF Len(recent \o <<a>>) <= MaxRecent
                  THEN recent \o <<a>> ELSE Tail(recent \o <<a>>)
    <3>1. pick # << >>
      BY <1>3
    <3> QED BY <1>3, <3>1, Zenon DEF Remember
  <2>2. recent \o <<a>> = p
    BY <1>0, AppendIsConcat
  <2>3. p \in Seq(Addresses) /\ Len(p) = Len(recent) + 1 /\ p # << >>
    BY <1>0
  <2>4. recent' = IF Len(p) <= MaxRecent THEN p ELSE Tail(p)
    BY <2>1, <2>2, Zenon
  <2> HIDE DEF p
  <2>5. Tail(p) \in Seq(Addresses) /\ Len(Tail(p)) = Len(p) - 1
    BY <2>3, HeadTailProperties
  <2>6. recent' \in Seq(Addresses) /\ Len(recent') <= MaxRecent
    BY <1>0, <2>3, <2>4, <2>5
  <2> QED BY <1>3, <2>4, <2>6 DEF p
<1> QED BY <1>1, <1>2, <1>3

(***************************************************************************)
(* What the end of a balancer's Next changes.                              *)
(***************************************************************************)
LEMMA SelectKeeps ==
  ASSUME TypeOK, CallShape, NEW c \in Calls, pc[c] = "select",
         NEW i, Select(c, i)
  PROVE  /\ \E r \in Addresses \cup {"panic"} :
              /\ Return(c, r)
              /\ i \in DOMAIN snapshot[c] => r \in AddressesIn(snapshot[c])
              /\ i \notin DOMAIN snapshot[c] => r = "panic"
         /\ recent' \in Seq(Addresses) /\ Len(recent') <= MaxRecent
         /\ \/ c \notin SharedCalls /\ recent' = recent
            \/ recent' = << >>
            \/ /\ c \in SharedCalls \cap fresh /\ i \in DOMAIN snapshot[c]
               /\ LET p == Append(recent, snapshot[c][i].address)
                  IN  recent' = p \/ recent' = Tail(p)
         /\ snapshot' = [snapshot EXCEPT ![c] = << >>]
         /\ fresh' = fresh \ {c}
         /\ UNCHANGED <<endpoints, up>>
<1>0. snapshot[c] \in Seq(Endpoint) /\ snapshot[c] # << >>
  BY DEF TypeOK, CallShape
<1>1. /\ snapshot' = [snapshot EXCEPT ![c] = << >>]
      /\ fresh' = fresh \ {c}
      /\ UNCHANGED <<endpoints, up>>
  BY DEF Select
<1>2. CASE i \in DOMAIN snapshot[c]
  <2> DEFINE a == snapshot[c][i].address
  <2>1. a \in Addresses
    <3>1. snapshot[c][i] \in Endpoint
      BY <1>0, <1>2
    <3> QED BY <3>1, EndpointFields
  <2>2. a \in AddressesIn(snapshot[c])
    BY <1>2, Zenon DEF AddressesIn
  <2>3. Return(c, a) /\ Remember(c, <<a>>)
    BY <1>2, Zenon DEF Select
  <2> HIDE DEF a
  <2>4. /\ recent' \in Seq(Addresses) /\ Len(recent') <= MaxRecent
        /\ \/ c \notin SharedCalls /\ recent' = recent
           \/ recent' = << >>
           \/ /\ c \in SharedCalls \cap fresh
              /\ recent' = Append(recent, a)
           \/ /\ c \in SharedCalls \cap fresh
              /\ recent' = Tail(Append(recent, a))
    BY <2>1, <2>3, RememberKeeps, Zenon
  <2>5. /\ \/ c \notin SharedCalls /\ recent' = recent
           \/ recent' = << >>
           \/ /\ c \in SharedCalls \cap fresh /\ i \in DOMAIN snapshot[c]
              /\ LET p == Append(recent, snapshot[c][i].address)
                 IN  recent' = p \/ recent' = Tail(p)
    BY <1>2, <2>4, Zenon DEF a
  <2> QED BY <1>1, <1>2, <2>1, <2>2, <2>3, <2>4, <2>5, Zenon
<1>3. CASE i \notin DOMAIN snapshot[c]
  <2>1. Return(c, "panic") /\ Remember(c, << >>)
    BY <1>3, Zenon DEF Select
  <2>2. \/ recent' = << >>
        \/ c \notin SharedCalls /\ recent' = recent
    <3>1. CASE c \in SharedCalls
      BY <2>1, <3>1 DEF Remember
    <3>2. CASE c \notin SharedCalls
      BY <2>1, <3>2 DEF Remember
    <3> QED BY <3>1, <3>2
  <2>3. recent' \in Seq(Addresses) /\ Len(recent') <= MaxRecent
    <3>1. /\ recent \in Seq(Addresses) /\ Len(recent) <= MaxRecent
          /\ MaxRecent \in Nat
      BY RoutingAssumption DEF TypeOK
    <3>2. CASE recent' = << >>
      BY <3>1, <3>2
    <3>3. CASE recent' = recent
      BY <3>1, <3>3, Zenon
    <3> QED BY <2>2, <3>2, <3>3
  <2> QED BY <1>1, <1>3, <2>1, <2>2, <2>3, Zenon
<1> QED BY <1>2, <1>3

-----------------------------------------------------------------------------
(***************************************************************************)
(* The steps of a call.                                                    *)
(***************************************************************************)
Steps == {"idle", "next", "select", "fallback", "endpoints", "healthy"}

(***************************************************************************)
(* A step of one call keeps the invariant if it changes only what is noted *)
(* about itself, and that as the invariant says.                           *)
(***************************************************************************)
LEMMA CallFrame ==
  ASSUME IInv, NEW c \in Calls,
         UNCHANGED <<endpoints, up>>,
         counter' \in 0 .. MaxEndpoints - 1,
         result' \in Addresses \cup Failures \cup Statuses,
         recent' \in Seq(Addresses), Len(recent') <= MaxRecent,
         pc' \in [Calls -> Steps],
         \A d \in Calls : d # c => pc'[d] = pc[d],
         snapshot' \in [Calls -> Seq(Endpoint)],
         \A d \in Calls : d # c => snapshot'[d] = snapshot[d],
         wasUp' \in [Calls -> SUBSET Addresses],
         sawNone' \in [Calls -> BOOLEAN],
         \A d \in Calls : d # c => sawNone'[d] = sawNone[d],
         fresh' \subseteq fresh \cup {c},
         pc'[c] \in {"next", "select", "fallback"} => c \in Routed,
         pc'[c] \in {"endpoints", "healthy"} => c \in Queries,
         pc'[c] = "select" => snapshot'[c] # << >>,
         Len(snapshot'[c]) <= MaxEndpoints,
         c \in fresh' /\ c \in Routed => snapshot'[c] = GetHealthyEndpoints,
         c \in fresh' /\ c \in Queries => snapshot'[c] = endpoints,
         pc'[c] # "idle" /\ c \in Routed /\ up = {} => sawNone'[c],
         pc'[c] = "fallback" => sawNone'[c]
  PROVE  IInv'
<1>1. endpoints' = endpoints /\ up' = up
  OBVIOUS
<1>2. GetHealthyEndpoints' = GetHealthyEndpoints
  BY <1>1, Zenon DEF GetHealthyEndpoints
<1>3. TypeOK'
  <2>1. fresh' \subseteq Calls
    BY Zenon DEF IInv, TypeOK
  <2> QED BY <1>1, <2>1, Zenon DEF IInv, TypeOK, Steps
<1>4. CallShape'
  <2> SUFFICES ASSUME NEW d \in Calls
               PROVE  /\ pc'[d] \in {"next", "select", "fallback"}
                           => d \in Routed
                      /\ pc'[d] \in {"endpoints", "healthy"} => d \in Queries
                      /\ pc'[d] = "select" => snapshot'[d] # << >>
                      /\ Len(snapshot'[d]) <= MaxEndpoints
    BY Zenon DEF CallShape
  <2>1. CASE d = c
    BY <2>1, Zenon
  <2>2. CASE d # c
    BY <2>2, Zenon DEF IInv, CallShape
  <2> QED BY <2>1, <2>2
<1>5. FreshSnapshots'
  <2> SUFFICES ASSUME NEW d \in fresh'
               PROVE  /\ d \in Routed => snapshot'[d] = GetHealthyEndpoints
                      /\ d \in Queries => snapshot'[d] = endpoints
    BY <1>1, <1>2, Zenon DEF FreshSnapshots
  <2>1. CASE d = c
    BY <2>1, Zenon
  <2>2. CASE d # c
    BY <2>2, Zenon DEF IInv, FreshSnapshots, TypeOK
  <2> QED BY <2>1, <2>2
<1>6. UpReachable'
  BY <1>1, Zenon DEF IInv, UpReachable
<1>7. AbsenceNoted'
  <2> SUFFICES ASSUME NEW d \in Routed
               PROVE  /\ pc'[d] # "idle" /\ up = {} => sawNone'[d]
                      /\ pc'[d] = "fallback" => sawNone'[d]
    BY <1>1, Zenon DEF AbsenceNoted
  <2>0. d \in Calls
    BY DEF Calls
  <2>1. CASE d = c
    BY <2>1, Zenon
  <2>2. CASE d # c
    BY <2>0, <2>2, Zenon DEF IInv, AbsenceNoted
  <2> QED BY <2>1, <2>2
<1> QED BY <1>3, <1>4, <1>5, <1>6, <1>7 DEF IInv

(***************************************************************************)
(* The end of a balancer's Next keeps the invariant.                       *)
(***************************************************************************)
LEMMA SelectKeepsIInv ==
  ASSUME IInv, NEW c \in Calls, pc[c] = "select", NEW i, Select(c, i),
         counter' \in 0 .. MaxEndpoints - 1
  PROVE  IInv'
<1>0. TypeOK /\ CallShape /\ c \in Routed
  BY DEF IInv, CallShape
<1>1. PICK r \in Addresses \cup {"panic"} : Return(c, r)
  BY <1>0, SelectKeeps, Zenon
<1>2. /\ recent' \in Seq(Addresses) /\ Len(recent') <= MaxRecent
      /\ snapshot' = [snapshot EXCEPT ![c] = << >>]
      /\ fresh' = fresh \ {c}
      /\ UNCHANGED <<endpoints, up>>
  BY <1>0, SelectKeeps, Zenon
<1>3. /\ pc' \in [Calls -> Steps]
      /\ pc'[c] = "idle" /\ \A d \in Calls : d # c => pc'[d] = pc[d]
      /\ wasUp' \in [Calls -> SUBSET Addresses]
      /\ sawNone' \in [Calls -> BOOLEAN]
      /\ \A d \in Calls : d # c => sawNone'[d] = sawNone[d]
      /\ result' = r
  BY <1>0, <1>1, ReturnKeeps, Zenon DEF Steps
<1>4. << >> \in Seq(Endpoint) /\ Len(<< >>) <= MaxEndpoints
  BY RoutingAssumption
<1>5. /\ snapshot' \in [Calls -> Seq(Endpoint)]
      /\ snapshot'[c] = << >>
      /\ \A d \in Calls : d # c => snapshot'[d] = snapshot[d]
  BY <1>0, <1>2, <1>4, SnapshotKeeps, Zenon
<1>6. result' \in Addresses \cup Failures \cup Statuses
  BY <1>1, <1>3 DEF Failures
<1>7. Len(snapshot'[c]) <= MaxEndpoints
  BY <1>4, <1>5, Zenon
<1>8. c \notin fresh' /\ fresh' \subseteq fresh \cup {c}
  BY <1>2
<1>9. pc'[c] \notin {"next", "select", "fallback", "endpoints", "healthy"}
  BY <1>3
<1> QED BY <1>2, <1>3, <1>5, <1>6, <1>7, <1>8, <1>9, CallFrame, Zenon

(***************************************************************************)
(* A return that selects nothing keeps the invariant.                      *)
(***************************************************************************)
LEMMA ReturnKeepsIInv ==
  ASSUME IInv, NEW c \in Calls,
         NEW r \in Addresses \cup Failures \cup Statuses,
         Return(c, r), UNCHANGED <<endpoints, counter, up, recent>>,
         \/ UNCHANGED <<snapshot, fresh>>
         \/ snapshot' = [snapshot EXCEPT ![c] = << >>] /\ fresh' = fresh \ {c}
  PROVE  IInv'
<1>0. TypeOK
  BY DEF IInv
<1>1. /\ counter' \in 0 .. MaxEndpoints - 1
      /\ recent' \in Seq(Addresses) /\ Len(recent') <= MaxRecent
  BY <1>0, Zenon DEF TypeOK
<1>3. /\ pc' \in [Calls -> Steps]
      /\ pc'[c] = "idle" /\ \A d \in Calls : d # c => pc'[d] = pc[d]
      /\ wasUp' \in [Calls -> SUBSET Addresses]
      /\ sawNone' \in [Calls -> BOOLEAN]
      /\ \A d \in Calls : d # c => sawNone'[d] = sawNone[d]
      /\ result' = r
  BY <1>0, ReturnKeeps, Zenon DEF Steps
<1>4. << >> \in Seq(Endpoint) /\ Len(<< >>) <= MaxEndpoints
  BY RoutingAssumption
<1>5. /\ snapshot' \in [Calls -> Seq(Endpoint)]
      /\ \A d \in Calls : d # c => snapshot'[d] = snapshot[d]
      /\ Len(snapshot'[c]) <= MaxEndpoints
      /\ fresh' \subseteq fresh \cup {c}
      /\ c \in fresh' /\ c \in Routed => snapshot'[c] = GetHealthyEndpoints
      /\ c \in fresh' /\ c \in Queries => snapshot'[c] = endpoints
  <2>1. CASE UNCHANGED <<snapshot, fresh>>
    BY <2>1, Zenon DEF IInv, TypeOK, CallShape, FreshSnapshots
  <2>2. CASE snapshot' = [snapshot EXCEPT ![c] = << >>] /\ fresh' = fresh \ {c}
    <3>1. /\ snapshot' \in [Calls -> Seq(Endpoint)]
          /\ snapshot'[c] = << >>
          /\ \A d \in Calls : d # c => snapshot'[d] = snapshot[d]
      BY <1>0, <1>4, <2>2, SnapshotKeeps, Zenon
    <3>2. c \notin fresh' /\ fresh' \subseteq fresh \cup {c}
      BY <2>2
    <3> QED BY <1>4, <3>1, <3>2, Zenon
  <2> QED BY <2>1, <2>2, Zenon
<1>9. pc'[c] \notin {"next", "select", "fallback", "endpoints", "healthy"}
  BY <1>3
<1> QED BY <1>1, <1>3, <1>5, <1>9, CallFrame, Zenon

(***************************************************************************)
(* The first read of resolveEndpoint keeps the invariant: with nothing     *)
(* healthy, nothing is up.                                                 *)
(***************************************************************************)
LEMMA ResolveKeepsIInv ==
  ASSUME IInv, NEW c \in Calls, ResolveEndpoint(c)
  PROVE  IInv'
<1>0. /\ TypeOK /\ c \in Routed
      /\ UNCHANGED <<endpoints, counter, snapshot, up, fresh, recent>>
  BY DEF IInv, ResolveEndpoint
<1>1. CASE Return(c, "not found")
  <2>1. "not found" \in Addresses \cup Failures \cup Statuses
    BY DEF Failures
  <2> QED BY <1>0, <1>1, <2>1, ReturnKeepsIInv, Zenon
<1>2. ASSUME NEW step \in {"next", "fallback"}, Continue(c, step),
             step = "fallback" => GetHealthyEndpoints = << >>,
             wasUp' = [wasUp EXCEPT ![c] = up],
             sawNone' = [sawNone EXCEPT ![c] = up = {}]
      PROVE  IInv'
  <2>1. /\ pc' \in [Calls -> Steps]
        /\ pc'[c] = step /\ \A d \in Calls : d # c => pc'[d] = pc[d]
        /\ result' = "none"
    <3>1. step \in {"next", "select", "fallback", "endpoints", "healthy"}
      BY <1>2
    <3> QED BY <1>0, <1>2, <3>1, ContinueKeeps, Zenon DEF Steps
  <2>2. /\ counter' \in 0 .. MaxEndpoints - 1
        /\ recent' \in Seq(Addresses) /\ Len(recent') <= MaxRecent
        /\ fresh' = fresh /\ snapshot' = snapshot
        /\ snapshot' \in [Calls -> Seq(Endpoint)]
    BY <1>0, Zenon DEF TypeOK
  <2>3. wasUp' \in [Calls -> SUBSET Addresses]
    BY <1>0, <1>2, Zenon DEF TypeOK
  <2>4. /\ sawNone' \in [Calls -> BOOLEAN]
        /\ sawNone'[c] = (up = {})
        /\ \A d \in Calls : d # c => sawNone'[d] = sawNone[d]
    BY <1>0, <1>2, Zenon DEF TypeOK
  <2>5. step = "fallback" => up = {}
    BY <1>0, <1>2, HealthyType DEF IInv, UpReachable
  <2>6. /\ pc'[c] \notin {"endpoints", "healthy"} /\ pc'[c] # "select"
        /\ result' \in Addresses \cup Failures \cup Statuses
    BY <1>2, <2>1 DEF Failures
  <2>7. /\ Len(snapshot'[c]) <= MaxEndpoints
        /\ c \in fresh' /\ c \in Routed => snapshot'[c] = GetHealthyEndpoints
        /\ c \in fresh' /\ c \in Queries => snapshot'[c] = endpoints
    BY <2>2, Zenon DEF IInv, CallShape, FreshSnapshots
  <2> QED BY <1>0, <2>1, <2>2, <2>3, <2>4, <2>5, <2>6, <2>7, CallFrame, Zenon
<1> QED BY <1>1, <1>2, Zenon DEF ResolveEndpoint

(***************************************************************************)
(* The fallback returns not found, or the address of a healthy endpoint.   *)
(***************************************************************************)
LEMMA FallbackReturns ==
  ASSUME TypeOK, NEW c \in Calls, Fallback(c)
  PROVE  \/ Return(c, "not found")
         \/ \E r \in AddressesIn(GetHealthyEndpoints) : Return(c, r)
<1> DEFINE eps == GetHealthyEndpoints
           M == {i \in DOMAIN eps : VersionOf[eps[i].address] = Wanted[c]}
           k == CHOOSE i \in M : \A j \in M : i <= j
<1>1. Return(c, IF M = {} THEN "not found" ELSE eps[k].address)
  BY DEF Fallback
<1>2. eps \in Seq(Endpoint)
  BY HealthyType
<1> HIDE DEF eps
<1>3. ASSUME M # {} PROVE eps[k].address \in AddressesIn(eps)
  <2>1. M \in SUBSET Nat
    BY <1>2
  <2>2. \E i \in M : \A j \in M : i <= j
    BY <1>3, <2>1, Least
  <2>3. k \in M
    BY <2>2
  <2> HIDE DEF k
  <2> QED BY <2>3, Zenon DEF AddressesIn
<1> HIDE DEF M, k
<1> QED BY <1>1, <1>3, Zenon DEF eps

(***************************************************************************)
(* Healthy endpoints have addresses.                                       *)
(***************************************************************************)
LEMMA HealthyAreAddresses ==
  ASSUME TypeOK PROVE AddressesIn(GetHealthyEndpoints) \subseteq Addresses
BY HealthyType DEF Reachable

(***************************************************************************)
(* So have the endpoints of a snapshot.                                    *)
(***************************************************************************)
LEMMA SnapshotsAreAddresses ==
  ASSUME TypeOK, NEW c \in Calls
  PROVE  AddressesIn(snapshot[c]) \subseteq Addresses
<1> DEFINE s == snapshot[c]
<1>1. s \in Seq(Endpoint)
  BY Zenon DEF TypeOK
<1> HIDE DEF s
<1>2. \A i \in DOMAIN s : s[i] \in Endpoint
  BY <1>1
<1>3. \A i \in DOMAIN s : s[i].address \in Addresses
  BY <1>2, EndpointFields, Zenon
<1> QED BY <1>3, Zenon DEF AddressesIn, s

(***************************************************************************)
(* The read of a balancer's Next keeps the invariant.                      *)
(***************************************************************************)
LEMMA Next1KeepsIInv ==
  ASSUME IInv, NEW c \in Calls, Next1(c)
  PROVE  IInv'
<1>0. /\ TypeOK /\ c \in Routed /\ pc[c] = "next"
      /\ UNCHANGED <<endpoints, counter, up, recent>>
  BY DEF IInv, CallShape, Next1
<1>1. CASE Return(c, "not found") /\ UNCHANGED <<snapshot, fresh>>
  <2>1. "not found" \in Addresses \cup Failures \cup Statuses
    BY DEF Failures
  <2> QED BY <1>0, <1>1, <2>1, ReturnKeepsIInv, Zenon
<1>2. CASE /\ GetHealthyEndpoints # << >>
           /\ snapshot' = [snapshot EXCEPT ![c] = GetHealthyEndpoints]
           /\ fresh' = fresh \cup {c}
           /\ Continue(c, "select")
           /\ UNCHANGED <<wasUp, sawNone>>
  <2>1. /\ pc' \in [Calls -> Steps]
        /\ pc'[c] = "select" /\ \A d \in Calls : d # c => pc'[d] = pc[d]
        /\ result' = "none"
    BY <1>0, <1>2, ContinueKeeps, Zenon DEF Steps
  <2>2. /\ GetHealthyEndpoints \in Seq(Endpoint)
        /\ Len(GetHealthyEndpoints) <= MaxEndpoints
    BY <1>0, HealthyType
  <2>3. /\ snapshot' \in [Calls -> Seq(Endpoint)]
        /\ snapshot'[c] = GetHealthyEndpoints
        /\ \A d \in Calls : d # c => snapshot'[d] = snapshot[d]
    BY <1>0, <1>2, <2>2, SnapshotKeeps, Zenon
  <2>4. /\ counter' \in 0 .. MaxEndpoints - 1
        /\ recent' \in Seq(Addresses) /\ Len(recent') <= MaxRecent
        /\ wasUp' \in [Calls -> SUBSET Addresses]
        /\ sawNone' \in [Calls -> BOOLEAN]
        /\ sawNone' = sawNone
    BY <1>0, <1>2, Zenon DEF TypeOK
  <2>5. /\ pc'[c] \notin {"endpoints", "healthy"} /\ pc'[c] # "fallback"
        /\ result' \in Addresses \cup Failures \cup Statuses
        /\ c \notin Queries
        /\ pc[c] # "idle"
    BY <1>0, <2>1, RoutingAssumption DEF Failures
  <2>6. up = {} => sawNone'[c]
    BY <1>0, <2>4, <2>5, Zenon DEF IInv, AbsenceNoted
  <2>7. fresh' \subseteq fresh \cup {c}
    BY <1>2
  <2> QED BY <1>0, <1>2, <2>1, <2>2, <2>3, <2>4, <2>5, <2>6, <2>7,
             CallFrame, Zenon
<1> QED BY <1>1, <1>2, Zenon DEF Next1

(***************************************************************************)
(* The three reads of a health query keep the invariant.                   *)
(***************************************************************************)
LEMMA QueryKeepsIInv ==
  ASSUME IInv, NEW c \in Calls, LookUp(c) \/ ReadEndpoints(c) \/ ReadHealthy(c)
  PROVE  IInv'
<1>0. TypeOK
  BY DEF IInv
<1>1. CASE LookUp(c)
  <2>0. /\ c \in Queries
        /\ UNCHANGED <<endpoints, counter, snapshot, up, fresh, recent>>
    BY <1>1 DEF LookUp
  <2>1. CASE Return(c, "not found")
    <3>1. "not found" \in Addresses \cup Failures \cup Statuses
      BY DEF Failures
    <3> QED BY <2>0, <2>1, <3>1, ReturnKeepsIInv, Zenon
  <2>2. CASE Continue(c, "endpoints") /\ UNCHANGED <<wasUp, sawNone>>
    <3>1. /\ pc' \in [Calls -> Steps]
          /\ pc'[c] = "endpoints" /\ \A d \in Calls : d # c => pc'[d] = pc[d]
          /\ result' = "none"
      BY <1>0, <2>2, ContinueKeeps, Zenon DEF Steps
    <3>2. /\ counter' \in 0 .. MaxEndpoints - 1
          /\ recent' \in Seq(Addresses) /\ Len(recent') <= MaxRecent
          /\ wasUp' \in [Calls -> SUBSET Addresses]
          /\ sawNone' \in [Calls -> BOOLEAN]
          /\ sawNone' = sawNone
          /\ fresh' = fresh /\ snapshot' = snapshot
          /\ snapshot' \in [Calls -> Seq(Endpoint)]
      BY <1>0, <2>0, <2>2, Zenon DEF TypeOK
    <3>3. /\ pc'[c] \notin {"next", "select", "fallback"}
          /\ pc'[c] # "select" /\ pc'[c] # "fallback"
          /\ result' \in Addresses \cup Failures \cup Statuses
          /\ c \notin Routed
      BY <2>0, <3>1, RoutingAssumption DEF Failures
    <3>4. /\ Len(snapshot'[c]) <= MaxEndpoints
          /\ c \in fresh' /\ c \in Queries => snapshot'[c] = endpoints
      BY <3>2, Zenon DEF IInv, CallShape, FreshSnapshots
    <3> QED BY <2>0, <3>1, <3>2, <3>3, <3>4, CallFrame, Zenon
  <2> QED BY <1>1, <2>1, <2>2, Zenon DEF LookUp
<1>2. CASE ReadEndpoints(c)
  <2>0. /\ c \in Queries
        /\ UNCHANGED <<endpoints, counter, up, wasUp, sawNone, recent>>
        /\ snapshot' = [snapshot EXCEPT ![c] = endpoints]
        /\ fresh' = fresh \cup {c}
        /\ Continue(c, "healthy")
    BY <1>2 DEF ReadEndpoints, IInv, CallShape
  <2>1. /\ pc' \in [Calls -> Steps]
        /\ pc'[c] = "healthy" /\ \A d \in Calls : d # c => pc'[d] = pc[d]
        /\ result' = "none"
    BY <1>0, <2>0, ContinueKeeps, Zenon DEF Steps
  <2>2. endpoints \in Seq(Endpoint) /\ Len(endpoints) <= MaxEndpoints
    BY <1>0, Zenon DEF TypeOK
  <2>3. /\ snapshot' \in [Calls -> Seq(Endpoint)]
        /\ snapshot'[c] = endpoints
        /\ \A d \in Calls : d # c => snapshot'[d] = snapshot[d]
    BY <1>0, <2>0, <2>2, SnapshotKeeps, Zenon
  <2>4. /\ counter' \in 0 .. MaxEndpoints - 1
        /\ recent' \in Seq(Addresses) /\ Len(recent') <= MaxRecent
        /\ wasUp' \in [Calls -> SUBSET Addresses]
        /\ sawNone' \in [Calls -> BOOLEAN]
        /\ sawNone' = sawNone
    BY <1>0, <2>0, Zenon DEF TypeOK
  <2>5. /\ pc'[c] \notin {"next", "select", "fallback"}
        /\ pc'[c] # "select" /\ pc'[c] # "fallback"
        /\ result' \in Addresses \cup Failures \cup Statuses
        /\ c \notin Routed
        /\ fresh' \subseteq fresh \cup {c}
    BY <2>0, <2>1, RoutingAssumption DEF Failures
  <2> QED BY <2>0, <2>1, <2>2, <2>3, <2>4, <2>5, CallFrame, Zenon
<1>3. CASE ReadHealthy(c)
  <2> DEFINE r == Status(Len(snapshot[c]), Len(GetHealthyEndpoints))
  <2>1. /\ Return(c, r)
        /\ snapshot' = [snapshot EXCEPT ![c] = << >>]
        /\ fresh' = fresh \ {c}
        /\ UNCHANGED <<endpoints, counter, up, recent>>
    BY <1>3 DEF ReadHealthy
  <2>2. r \in Addresses \cup Failures \cup Statuses
    BY DEF Status, Statuses
  <2> HIDE DEF r
  <2> QED BY <2>1, <2>2, ReturnKeepsIInv, Zenon
<1> QED BY <1>1, <1>2, <1>3

(***************************************************************************)
(* What a change of the registry does to the calls in progress.            *)
(***************************************************************************)
LEMMA ObservedKeeps ==
  ASSUME TypeOK, Observed, up' \subseteq Addresses
  PROVE  /\ wasUp' \in [Calls -> SUBSET Addresses]
         /\ sawNone' \in [Calls -> BOOLEAN]
         /\ \A c \in Routed : pc[c] # "idle" =>
              /\ wasUp'[c] = wasUp[c] \cup up'
              /\ sawNone'[c] = (sawNone[c] \/ up' = {})
         /\ fresh' = {} /\ recent' = << >> /\ result' = "none"
         /\ UNCHANGED <<counter, pc, snapshot>>
<1>0. Routed \subseteq Calls
  BY DEF Calls
<1>1. /\ wasUp' = [c \in Calls |-> IF c \in Routed /\ pc[c] # "idle"
                                   THEN wasUp[c] \cup up' ELSE wasUp[c]]
      /\ sawNone' = [c \in Calls |-> IF c \in Routed /\ pc[c] # "idle"
                                     THEN sawNone[c] \/ up' = {}
                                     ELSE sawNone[c]]
  BY Zenon DEF Observed
<1>2. wasUp' \in [Calls -> SUBSET Addresses]
  BY <1>1 DEF TypeOK
<1>3. sawNone' \in [Calls -> BOOLEAN]
  BY <1>1, Zenon DEF TypeOK
<1>4. \A c \in Routed : pc[c] # "idle" => wasUp'[c] = wasUp[c] \cup up'
  BY <1>0, <1>1, Zenon
<1>5. \A c \in Routed :
        pc[c] # "idle" => sawNone'[c] = (sawNone[c] \/ up' = {})
  BY <1>0, <1>1, Zenon
<1> QED BY <1>2, <1>3, <1>4, <1>5, Zenon DEF Observed

(***************************************************************************)
(* A change of the registry keeps the invariant.                           *)
(***************************************************************************)
LEMMA RegistryKeepsIInv ==
  ASSUME IInv, RegistryStep
  PROVE  IInv'
<1>0. TypeOK
  BY DEF IInv
<1>1. /\ endpoints' \in Seq(Endpoint) /\ Len(endpoints') <= MaxEndpoints
      /\ up' \subseteq Addresses
      /\ Observed
      /\ UpReachable'
  BY <1>0, RegistryStepKeeps, Zenon DEF IInv
<1>2. /\ wasUp' \in [Calls -> SUBSET Addresses]
      /\ sawNone' \in [Calls -> BOOLEAN]
      /\ \A c \in Routed : pc[c] # "idle" =>
           /\ wasUp'[c] = wasUp[c] \cup up'
           /\ sawNone'[c] = (sawNone[c] \/ up' = {})
      /\ fresh' = {} /\ recent' = << >> /\ result' = "none"
      /\ UNCHANGED <<counter, pc, snapshot>>
  BY <1>0, <1>1, ObservedKeeps, Zenon
<1>3. TypeOK'
  <2>1. /\ recent' \in Seq(Addresses) /\ Len(recent') <= MaxRecent
        /\ fresh' \subseteq Calls
        /\ result' \in Addresses \cup Failures \cup Statuses
    <3>1. << >> \in Seq(Addresses) /\ Len(<< >>) <= MaxRecent
      BY RoutingAssumption
    <3>2. "none" \in Failures
      BY DEF Failures
    <3> QED BY <1>2, <3>1, <3>2, Zenon
  <2> QED BY <1>0, <1>1, <1>2, <2>1, Zenon DEF TypeOK
<1>4. CallShape'
  BY <1>2, Zenon DEF IInv, CallShape
<1>5. FreshSnapshots'
  BY <1>2, Zenon DEF FreshSnapshots
<1>6. AbsenceNoted'
  <2>1. \A c \in Routed : pc[c] = "fallback" => pc[c] # "idle"
    OBVIOUS
  <2> QED BY <1>2, <2>1, Zenon DEF IInv, AbsenceNoted
<1> QED BY <1>1, <1>3, <1>4, <1>5, <1>6 DEF IInv

(***************************************************************************)
(* The invariant holds initially.                                          *)
(***************************************************************************)
LEMMA InitIInv == Init => IInv
<1> SUFFICES ASSUME Init PROVE IInv
  OBVIOUS
<1>1. TypeOK
  <2>1. << >> \in Seq(Endpoint) /\ Len(<< >>) = 0 /\ << >> \in Seq(Addresses)
    OBVIOUS
  <2>2. 0 <= MaxEndpoints /\ 0 <= MaxRecent /\ 0 \in 0 .. MaxEndpoints - 1
    BY RoutingAssumption
  <2>3. "none" \in Addresses \cup Failures \cup Statuses
    BY DEF Failures
  <2> QED BY <2>1, <2>2, <2>3, Zenon DEF Init, TypeOK
<1>2. CallShape
  <2>1. Len(<< >>) <= MaxEndpoints
    BY RoutingAssumption
  <2>2. \A c \in Calls : pc[c] = "idle" /\ snapshot[c] = << >>
    BY DEF Init
  <2> QED BY <2>1, <2>2, Zenon DEF CallShape
<1>3. FreshSnapshots /\ UpReachable
  BY DEF Init, FreshSnapshots, UpReachable
<1>4. AbsenceNoted
  BY DEF Init, AbsenceNoted, Calls
<1> QED BY <1>1, <1>2, <1>3, <1>4 DEF IInv

(***************************************************************************)
(* Every step of a call keeps the invariant.                               *)
(***************************************************************************)
LEMMA CallKeepsIInv ==
  ASSUME IInv, NEW c \in Calls, CallStep(c)
  PROVE  IInv'
<1>0. TypeOK /\ CallShape
  BY DEF IInv
<1>1. CASE ResolveEndpoint(c)
  BY <1>1, ResolveKeepsIInv
<1>2. CASE Fallback(c)
  <2>1. /\ \/ Return(c, "not found")
           \/ \E r \in AddressesIn(GetHealthyEndpoints) : Return(c, r)
        /\ UNCHANGED <<endpoints, counter, snapshot, up, fresh, recent>>
    BY <1>0, <1>2, FallbackReturns, Zenon DEF Fallback
  <2>2. PICK r \in Addresses \cup Failures \cup Statuses : Return(c, r)
    <3>1. "not found" \in Failures
      BY DEF Failures
    <3> QED BY <1>0, <2>1, <3>1, HealthyAreAddresses, Zenon
  <2> QED BY <2>1, <2>2, ReturnKeepsIInv, Zenon
<1>3. CASE Next1(c)
  BY <1>3, Next1KeepsIInv
<1>4. CASE NextShared(c)
  <2>1. counter' \in 0 .. MaxEndpoints - 1
    <3>1. /\ snapshot[c] \in Seq(Endpoint) /\ snapshot[c] # << >>
          /\ Len(snapshot[c]) <= MaxEndpoints
          /\ counter' = (counter + 1) % Len(snapshot[c])
      BY <1>0, <1>4, Zenon DEF NextShared, TypeOK, CallShape
    <3>2. Len(snapshot[c]) \in Nat \ {0}
      BY <3>1
    <3>3. counter + 1 \in Nat
      BY <1>0, RoutingAssumption DEF TypeOK
    <3>4. counter' \in 0 .. Len(snapshot[c]) - 1
      BY <3>1, <3>2, <3>3
    <3> QED BY <3>1, <3>2, <3>4, RoutingAssumption
  <2>2. pc[c] = "select" /\ Select(c, counter + 1)
    BY <1>4 DEF NextShared
  <2> QED BY <2>1, <2>2, SelectKeepsIInv, Zenon
<1>5. CASE NextFresh(c)
  <2>1. pc[c] = "select" /\ Select(c, 1) /\ counter' \in 0 .. MaxEndpoints - 1
    BY <1>0, <1>5, Zenon DEF NextFresh, TypeOK
  <2> QED BY <2>1, SelectKeepsIInv, Zenon
<1>6. CASE NextWeighted(c)
  <2>1. /\ pc[c] = "select" /\ Select(c, WeightedPick(snapshot[c]))
        /\ counter' \in 0 .. MaxEndpoints - 1
    BY <1>0, <1>6, Zenon DEF NextWeighted, TypeOK
  <2> QED BY <2>1, SelectKeepsIInv, Zenon
<1>7. CASE LookUp(c) \/ ReadEndpoints(c) \/ ReadHealthy(c)
  BY <1>7, QueryKeepsIInv
<1> QED BY <1>1, <1>2, <1>3, <1>4, <1>5, <1>6, <1>7 DEF CallStep

(***************************************************************************)
(* Every step keeps the invariant.                                         *)
(***************************************************************************)
LEMMA NextIInv == IInv /\ [Next]_vars => IInv'
<1> SUFFICES ASSUME IInv, [Next]_vars PROVE IInv'
  OBVIOUS
<1>1. CASE RegistryStep
  BY <1>1, RegistryKeepsIInv
<1>2. CASE \E c \in Calls : CallStep(c)
  BY <1>2, CallKeepsIInv
<1>3. CASE UNCHANGED vars
  <2>1. TypeOK'
    BY <1>3, Zenon DEF IInv, vars, TypeOK
  <2>2. CallShape' /\ FreshSnapshots' /\ UpReachable' /\ AbsenceNoted'
    BY <1>3, Zenon DEF IInv, vars, CallShape, FreshSnapshots, UpReachable,
                       AbsenceNoted, GetHealthyEndpoints
  <2> QED BY <2>1, <2>2 DEF IInv
<1> QED BY <1>1, <1>2, <1>3 DEF Next

(***************************************************************************)
(* The invariant holds throughout.                                         *)
(***************************************************************************)
THEOREM Invariance == Spec => []IInv
<1> QED BY InitIInv, NextIInv, PTL DEF Spec

(***************************************************************************)
(* The registry, the balancer's counter and every call stay well typed;    *)
(* the counter never exceeds the number of endpoints the registry may      *)
(* hold.                                                                   *)
(***************************************************************************)
THEOREM TypeCorrect == Spec => []TypeOK
<1>1. IInv => TypeOK
  BY DEF IInv
<1> QED BY <1>1, Invariance, PTL

-----------------------------------------------------------------------------
(***************************************************************************)
(* A step of one call keeps the second invariant if it changes only what   *)
(* is noted about itself, and that as the invariant says.                  *)
(***************************************************************************)
LEMMA SoleFrame ==
  ASSUME IInv, SoleInv, NEW c \in Calls,
         UNCHANGED <<endpoints, up>>,
         \A d \in Calls : d # c => pc'[d] = pc[d],
         \A d \in Calls : d # c => snapshot'[d] = snapshot[d],
         \A d \in Calls : d # c => wasUp'[d] = wasUp[d],
         c \in Routed /\ pc'[c] # "idle" => up \subseteq wasUp'[c],
         c \in Routed /\ pc'[c] = "select"
           => AddressesIn(snapshot'[c]) \subseteq wasUp'[c],
         InTurn(recent', counter', GetHealthyEndpoints)
  PROVE  SoleInv'
<1>0. /\ endpoints' = endpoints /\ up' = up
      /\ \A d \in Routed : d \in Calls
  BY DEF Calls
<1>1. GetHealthyEndpoints' = GetHealthyEndpoints
  BY <1>0, Zenon DEF GetHealthyEndpoints
<1>2. SoleEndpoints'
  BY <1>0, Zenon DEF SoleInv, SoleEndpoints
<1>3. Rounds'
  BY <1>1, Zenon DEF Rounds
<1>4. UpNoted'
  <2> SUFFICES ASSUME NEW d \in Routed, pc'[d] # "idle"
               PROVE  up \subseteq wasUp'[d]
    BY <1>0, Zenon DEF UpNoted
  <2>1. CASE d = c
    BY <2>1, Zenon
  <2>2. CASE d # c
    BY <1>0, <2>2, Zenon DEF SoleInv, UpNoted
  <2> QED BY <2>1, <2>2
<1>5. SnapshotsWereUp'
  <2> SUFFICES ASSUME NEW d \in Routed, pc'[d] = "select"
               PROVE  AddressesIn(snapshot'[d]) \subseteq wasUp'[d]
    BY Zenon DEF SnapshotsWereUp, AddressesIn
  <2>1. CASE d = c
    BY <2>1, Zenon
  <2>2. CASE d # c
    BY <1>0, <2>2, Zenon DEF SoleInv, SnapshotsWereUp
  <2> QED BY <2>1, <2>2
<1> QED BY <1>2, <1>3, <1>4, <1>5 DEF SoleInv

(***************************************************************************)
(* A return keeps the second invariant.                                    *)
(***************************************************************************)
LEMMA ReturnKeepsSole ==
  ASSUME IInv, SoleInv, NEW c \in Calls, NEW r, Return(c, r),
         UNCHANGED <<endpoints, up>>,
         UNCHANGED snapshot \/ snapshot' = [snapshot EXCEPT ![c] = << >>],
         InTurn(recent', counter', GetHealthyEndpoints)
  PROVE  SoleInv'
<1>0. TypeOK
  BY DEF IInv
<1>1. /\ pc'[c] = "idle" /\ \A d \in Calls : d # c => pc'[d] = pc[d]
      /\ \A d \in Calls : d # c => wasUp'[d] = wasUp[d]
  BY <1>0, ReturnKeeps, Zenon
<1>2. \A d \in Calls : d # c => snapshot'[d] = snapshot[d]
  BY <1>0, Zenon DEF TypeOK
<1>3. pc'[c] # "select"
  BY <1>1
<1> QED BY <1>1, <1>2, <1>3, SoleFrame, Zenon

(***************************************************************************)
(* The first read of resolveEndpoint notes what is up.                     *)
(***************************************************************************)
LEMMA ResolveKeepsSole ==
  ASSUME IInv, SoleInv, NEW c \in Calls, ResolveEndpoint(c)
  PROVE  SoleInv'
<1>0. TypeOK /\ UNCHANGED <<endpoints, counter, snapshot, up, fresh, recent>>
  BY DEF IInv, ResolveEndpoint
<1>1. InTurn(recent', counter', GetHealthyEndpoints)
  BY <1>0, Zenon DEF SoleInv, Rounds
<1>2. CASE Return(c, "not found")
  BY <1>0, <1>1, <1>2, ReturnKeepsSole, Zenon
<1>3. ASSUME NEW step \in {"next", "fallback"}, Continue(c, step),
             wasUp' = [wasUp EXCEPT ![c] = up]
      PROVE  SoleInv'
  <2>1. pc'[c] = step /\ \A d \in Calls : d # c => pc'[d] = pc[d]
    <3>1. step \in {"next", "select", "fallback", "endpoints", "healthy"}
      BY <1>3
    <3> QED BY <1>0, <1>3, <3>1, ContinueKeeps, Zenon
  <2>2. wasUp'[c] = up /\ \A d \in Calls : d # c => wasUp'[d] = wasUp[d]
    BY <1>0, <1>3, Zenon DEF TypeOK
  <2>3. pc'[c] # "select"
    BY <1>3, <2>1
  <2> QED BY <1>0, <1>1, <2>1, <2>2, <2>3, SoleFrame, Zenon
<1> QED BY <1>2, <1>3, Zenon DEF ResolveEndpoint

(***************************************************************************)
(* A balancer reads endpoints that are up.                                 *)
(***************************************************************************)
LEMMA Next1KeepsSole ==
  ASSUME IInv, SoleInv, NEW c \in Calls, Next1(c)
  PROVE  SoleInv'
<1>0. /\ TypeOK /\ c \in Routed /\ pc[c] = "next"
      /\ UNCHANGED <<endpoints, counter, up, recent>>
  BY DEF IInv, CallShape, Next1
<1>1. InTurn(recent', counter', GetHealthyEndpoints)
  BY <1>0, Zenon DEF SoleInv, Rounds
<1>2. CASE Return(c, "not found") /\ UNCHANGED <<snapshot, fresh>>
  BY <1>0, <1>1, <1>2, ReturnKeepsSole, Zenon
<1>3. CASE /\ snapshot' = [snapshot EXCEPT ![c] = GetHealthyEndpoints]
           /\ Continue(c, "select")
           /\ UNCHANGED <<wasUp, sawNone>>
  <2>1. pc'[c] = "select" /\ \A d \in Calls : d # c => pc'[d] = pc[d]
    BY <1>0, <1>3, ContinueKeeps, Zenon
  <2>2. /\ GetHealthyEndpoints \in Seq(Endpoint)
        /\ AddressesIn(GetHealthyEndpoints) = Reachable(endpoints)
    BY <1>0, HealthyType
  <2>3. /\ snapshot'[c] = GetHealthyEndpoints
        /\ \A d \in Calls : d # c => snapshot'[d] = snapshot[d]
    BY <1>0, <1>3, <2>2, SnapshotKeeps, Zenon
  <2>4. pc[c] # "idle"
    BY <1>0
  <2>5. up \subseteq wasUp'[c] /\ AddressesIn(snapshot'[c]) \subseteq wasUp'[c]
    BY <1>0, <1>3, <2>2, <2>3, <2>4, Zenon
       DEF SoleInv, UpNoted, SoleEndpoints
  <2> QED BY <1>0, <1>1, <1>3, <2>1, <2>3, <2>5, SoleFrame, Zenon
<1> QED BY <1>2, <1>3, Zenon DEF Next1

(***************************************************************************)
(* A selection of the shared balancer is the next in turn; one of a call   *)
(* whose snapshot is out of date, or that panics, starts the memory anew.  *)
(***************************************************************************)
LEMMA SelectKeepsSole ==
  ASSUME IInv, SoleInv, NEW c \in Calls, pc[c] = "select", NEW i, Select(c, i),
         c \notin SharedCalls => UNCHANGED counter,
         c \in SharedCalls => /\ i = counter + 1
                              /\ counter' = (counter + 1) % Len(snapshot[c])
  PROVE  SoleInv'
<1> DEFINE h == GetHealthyEndpoints
<1>0. TypeOK /\ CallShape /\ c \in Routed
  BY DEF IInv, CallShape
<1>1. PICK r : Return(c, r)
  BY <1>0, SelectKeeps, Zenon
<1>2. /\ \/ c \notin SharedCalls /\ recent' = recent
         \/ recent' = << >>
         \/ /\ c \in SharedCalls \cap fresh /\ i \in DOMAIN snapshot[c]
            /\ LET p == Append(recent, snapshot[c][i].address)
               IN  recent' = p \/ recent' = Tail(p)
      /\ snapshot' = [snapshot EXCEPT ![c] = << >>]
      /\ UNCHANGED <<endpoints, up>>
  BY <1>0, SelectKeeps, Zenon
<1>3. InTurn(recent', counter', h)
  <2>1. CASE c \notin SharedCalls /\ recent' = recent
    BY <2>1, Zenon DEF SoleInv, Rounds
  <2>2. CASE recent' = << >>
    <3>1. \A k, s : InTurn(<< >>, k, s)
      BY DEF InTurn
    <3> QED BY <2>2, <3>1, Zenon
  <2>3. CASE /\ c \in SharedCalls \cap fresh /\ i \in DOMAIN snapshot[c]
             /\ LET p == Append(recent, snapshot[c][i].address)
                IN  recent' = p \/ recent' = Tail(p)
    <3>1. /\ snapshot[c] = h /\ i = counter + 1
          /\ counter' = (counter + 1) % Len(h)
      BY <1>0, <2>3, Zenon DEF IInv, FreshSnapshots
    <3>2. h \in Seq(Endpoint) /\ h # << >> /\ Len(h) \in Nat \ {0}
      BY <1>0, <3>1, HealthyType DEF CallShape
    <3>3. counter \in 0 .. Len(h) - 1
      <4>1. counter \in Nat
        BY <1>0, RoutingAssumption DEF TypeOK
      <4>2. counter + 1 \in 1 .. Len(h)
        BY <2>3, <3>1, <3>2
      <4> QED BY <3>2, <4>1, <4>2
    <3>4. Distinct(h)
      BY <1>0, HealthyDistinct, Zenon
         DEF SoleInv, SoleEndpoints, GetHealthyEndpoints, TypeOK
    <3> DEFINE a == h[counter + 1].address
               p == Append(recent, a)
    <3>5. a \in Addresses
      BY <3>2, <3>3, EndpointFields
    <3>6. recent \in Seq(Addresses) /\ InTurn(recent, counter, h)
      BY <1>0, Zenon DEF TypeOK, SoleInv, Rounds
    <3>7. recent' = p \/ recent' = Tail(p)
      BY <2>3, <3>1, Zenon
    <3> HIDE DEF h, a
    <3>8. /\ p \in Seq(Addresses) /\ Len(p) = Len(recent) + 1 /\ p # << >>
          /\ \A j \in 1 .. Len(recent) : p[j] = recent[j]
          /\ p[Len(recent) + 1] = a
      BY <3>5, <3>6
    <3> HIDE DEF p
    <3>9. InTurn(p, counter', h)
      BY <3>1, <3>2, <3>3, <3>4, <3>6, <3>8, InTurnAppend, Zenon DEF a
    <3>10. InTurn(Tail(p), counter', h)
      BY <3>2, <3>8, <3>9, InTurnTail, Zenon
    <3> QED BY <3>7, <3>9, <3>10, Zenon
  <2> QED BY <1>2, <2>1, <2>2, <2>3, Zenon
<1> QED BY <1>1, <1>2, <1>3, ReturnKeepsSole, Zenon

(***************************************************************************)
(* Every step of a call keeps the second invariant.                        *)
(***************************************************************************)
LEMMA CallKeepsSole ==
  ASSUME IInv, SoleInv, NEW c \in Calls, CallStep(c)
  PROVE  SoleInv'
<1>0. TypeOK /\ CallShape
  BY DEF IInv
<1>9. InTurn(recent, counter, GetHealthyEndpoints)
  BY DEF SoleInv, Rounds
<1>1. CASE ResolveEndpoint(c)
  BY <1>1, ResolveKeepsSole
<1>2. CASE Fallback(c)
  <2>1. UNCHANGED <<endpoints, counter, snapshot, up, fresh, recent>>
    BY <1>2 DEF Fallback
  <2>2. PICK r : Return(c, r)
    BY <1>2, Zenon DEF Fallback
  <2>3. InTurn(recent', counter', GetHealthyEndpoints)
    BY <1>9, <2>1, Zenon
  <2> QED BY <2>1, <2>2, <2>3, ReturnKeepsSole, Zenon
<1>3. CASE Next1(c)
  BY <1>3, Next1KeepsSole
<1>4. CASE NextShared(c)
  BY <1>4, SelectKeepsSole, Zenon DEF NextShared
<1>5. CASE NextFresh(c)
  <2>1. c \notin SharedCalls
    BY <1>5, RoutingAssumption, Zenon DEF NextFresh
  <2> QED BY <1>5, <2>1, SelectKeepsSole, Zenon DEF NextFresh
<1>6. CASE NextWeighted(c)
  <2>1. c \notin SharedCalls
    BY <1>6, RoutingAssumption, Zenon DEF NextWeighted
  <2> QED BY <1>6, <2>1, SelectKeepsSole, Zenon DEF NextWeighted
<1>7. CASE LookUp(c) \/ ReadEndpoints(c) \/ ReadHealthy(c)
  <2>0. c \in Queries /\ c \notin Routed
    BY <1>0, <1>7, RoutingAssumption, Zenon
       DEF CallShape, LookUp, ReadEndpoints, ReadHealthy
  <2>1. UNCHANGED <<endpoints, counter, up, recent>>
    BY <1>7, Zenon DEF LookUp, ReadEndpoints, ReadHealthy
  <2>2. InTurn(recent', counter', GetHealthyEndpoints)
    BY <1>9, <2>1, Zenon
  <2>3. /\ \A d \in Calls : d # c => pc'[d] = pc[d]
        /\ \A d \in Calls : d # c => wasUp'[d] = wasUp[d]
        /\ \A d \in Calls : d # c => snapshot'[d] = snapshot[d]
    BY <1>0, <1>7, Zenon
       DEF TypeOK, LookUp, ReadEndpoints, ReadHealthy, Return, Continue
  <2> QED BY <2>0, <2>1, <2>2, <2>3, SoleFrame, Zenon
<1> QED BY <1>1, <1>2, <1>3, <1>4, <1>5, <1>6, <1>7 DEF CallStep

(***************************************************************************)
(* A change of the registry keeps the second invariant.                    *)
(***************************************************************************)
LEMMA RegistryKeepsSole ==
  ASSUME ~Duplicates, IInv, SoleInv, RegistryStep
  PROVE  SoleInv'
<1>0. TypeOK
  BY DEF IInv
<1>1. Observed /\ SoleEndpoints' /\ up' \subseteq Addresses
  BY <1>0, RegistryStepKeeps, Zenon DEF SoleInv
<1>2. /\ \A c \in Routed : pc[c] # "idle" => wasUp'[c] = wasUp[c] \cup up'
      /\ recent' = << >>
      /\ UNCHANGED <<counter, pc, snapshot>>
  BY <1>0, <1>1, ObservedKeeps, Zenon
<1>3. UpNoted'
  BY <1>2, Zenon DEF UpNoted
<1>4. SnapshotsWereUp'
  <2>1. \A c \in Routed : pc[c] = "select" => pc[c] # "idle"
    OBVIOUS
  <2> QED BY <1>2, <2>1, Zenon DEF SoleInv, SnapshotsWereUp, AddressesIn
<1>5. Rounds'
  <2>1. \A k, s : InTurn(<< >>, k, s)
    BY DEF InTurn
  <2> QED BY <1>2, <2>1, Zenon DEF Rounds
<1> QED BY <1>1, <1>3, <1>4, <1>5 DEF SoleInv

(***************************************************************************)
(* The second invariant holds initially.                                   *)
(***************************************************************************)
LEMMA InitSole == Init => SoleInv
<1> SUFFICES ASSUME Init PROVE SoleInv
  OBVIOUS
<1>1. UpNoted /\ SnapshotsWereUp
  BY DEF Init, UpNoted, SnapshotsWereUp, Calls
<1>2. SoleEndpoints
  BY DEF Init, SoleEndpoints, Distinct, Reachable
<1>3. Rounds
  <2>1. \A k, s : InTurn(<< >>, k, s)
    BY DEF InTurn
  <2> QED BY <2>1, Zenon DEF Init, Rounds
<1> QED BY <1>1, <1>2, <1>3 DEF SoleInv

(***************************************************************************)
(* Every step keeps the second invariant.                                  *)
(***************************************************************************)
LEMMA NextSole ==
  ASSUME ~Duplicates
  PROVE  IInv /\ SoleInv /\ [Next]_vars => SoleInv'
<1> SUFFICES ASSUME IInv, SoleInv, [Next]_vars PROVE SoleInv'
  OBVIOUS
<1>1. CASE RegistryStep
  BY <1>1, RegistryKeepsSole
<1>2. CASE \E c \in Calls : CallStep(c)
  BY <1>2, CallKeepsSole
<1>3. CASE UNCHANGED vars
  BY <1>3, Zenon DEF SoleInv, vars, UpNoted, SoleEndpoints, SnapshotsWereUp,
                     AddressesIn, Rounds, GetHealthyEndpoints
<1> QED BY <1>1, <1>2, <1>3 DEF Next

(***************************************************************************)
(* Without duplicates, the second invariant holds throughout.              *)
(***************************************************************************)
THEOREM SoleInvariance ==
  ASSUME ~Duplicates
  PROVE  Spec => []SoleInv
<1>1. IInv /\ SoleInv /\ [Next]_vars => SoleInv'
  BY NextSole
<1> QED BY <1>1, InitSole, Invariance, PTL DEF Spec

(***************************************************************************)
(* As long as no address is registered twice and the registry does not     *)
(* change, the shared balancer uses every endpoint before it uses one      *)
(* again, however many calls race.                                         *)
(***************************************************************************)
THEOREM RoundRobinFair ==
  ASSUME ~Duplicates
  PROVE  Spec => []RoundRobinCycles
<1>1. IInv /\ SoleInv => RoundRobinCycles
  <2> SUFFICES ASSUME IInv, SoleInv PROVE RoundRobinCycles
    OBVIOUS
  <2>1. /\ recent \in Seq(Addresses)
        /\ InTurn(recent, counter, GetHealthyEndpoints)
    BY DEF IInv, TypeOK, SoleInv, Rounds
  <2>2. DOMAIN recent = 1 .. Len(recent)
    BY <2>1
  <2> QED BY <2>1, <2>2, Zenon DEF InTurn, RoundRobinCycles
<1> QED BY <1>1, Invariance, SoleInvariance, PTL

-----------------------------------------------------------------------------
(***************************************************************************)
(* Only a step of its own makes a call return.                             *)
(***************************************************************************)
LEMMA ReturnedBy ==
  ASSUME IInv, Next, NEW c \in Calls, Returns(c)
  PROVE  CallStep(c)
<1>0. TypeOK
  BY DEF IInv
<1>1. CASE RegistryStep
  <2>1. pc' = pc
    BY <1>0, <1>1, RegistryStepKeeps, Zenon DEF Observed
  <2> QED BY <2>1, Zenon DEF Returns
<1>2. ASSUME NEW d \in Calls, CallStep(d) PROVE CallStep(c)
  <2>1. \E step \in Steps : pc' = [pc EXCEPT ![d] = step]
    <3>1. \A r : Return(d, r) => pc' = [pc EXCEPT ![d] = "idle"]
      BY Zenon DEF Return
    <3>2. \A step : Continue(d, step) => pc' = [pc EXCEPT ![d] = step]
      BY Zenon DEF Continue
    <3>3. \A i : Select(d, i) => pc' = [pc EXCEPT ![d] = "idle"]
      BY <3>1, Zenon DEF Select
    <3>4. /\ "idle" \in Steps /\ "next" \in Steps /\ "select" \in Steps
          /\ "fallback" \in Steps /\ "endpoints" \in Steps
          /\ "healthy" \in Steps
      BY DEF Steps
    <3>5. CASE ResolveEndpoint(d) \/ Next1(d)
      BY <3>1, <3>2, <3>4, <3>5, Zenon DEF ResolveEndpoint, Next1
    <3>6. CASE Fallback(d) \/ NextShared(d) \/ NextFresh(d) \/ NextWeighted(d)
      BY <3>1, <3>3, <3>4, <3>6, Zenon
         DEF Fallback, NextShared, NextFresh, NextWeighted
    <3>7. CASE LookUp(d) \/ ReadEndpoints(d) \/ ReadHealthy(d)
      BY <3>1, <3>2, <3>4, <3>7, Zenon DEF LookUp, ReadEndpoints, ReadHealthy
    <3> QED BY <1>2, <3>5, <3>6, <3>7, Zenon DEF CallStep
  <2>2. d # c => pc'[c] = pc[c]
    BY <1>0, <2>1, Zenon DEF TypeOK
  <2>3. d = c
    BY <2>2, Zenon DEF Returns
  <2> QED BY <1>2, <2>3, Zenon
<1> QED BY <1>1, <1>2 DEF Next

(***************************************************************************)
(* How a routing call may return, and with what.                           *)
(***************************************************************************)
LEMMA RoutedReturn ==
  ASSUME IInv, NEW c \in Routed, CallStep(c), Returns(c)
  PROVE  \/ /\ pc[c] = "fallback"
            /\ \/ result' = "not found"
               \/ result' \in AddressesIn(GetHealthyEndpoints)
         \/ /\ pc[c] = "next" /\ GetHealthyEndpoints = << >>
            /\ result' = "not found"
         \/ /\ pc[c] = "select"
            /\ \/ result' \in AddressesIn(snapshot[c])
               \/ result' = "panic" /\ c \in SharedCalls
<1>0. TypeOK /\ CallShape /\ c \in Calls /\ c \notin Queries
  BY RoutingAssumption, Zenon DEF IInv, Calls
<1>1. pc[c] # "idle" /\ pc'[c] = "idle"
  BY DEF Returns
<1>2. \A r : Return(c, r) => result' = r
  BY Zenon DEF Return
<1>3. CASE ResolveEndpoint(c)
  BY <1>1, <1>3, Zenon DEF ResolveEndpoint
<1>4. CASE Fallback(c)
  <2>1. pc[c] = "fallback"
    BY <1>4 DEF Fallback
  <2> QED BY <1>0, <1>2, <1>4, <2>1, FallbackReturns, Zenon
<1>5. CASE Next1(c)
  <2>1. pc[c] = "next"
    BY <1>5 DEF Next1
  <2>2. Continue(c, "select") => pc'[c] = "select"
    BY <1>0, ContinueKeeps, Zenon
  <2>3. ~Continue(c, "select")
    BY <1>1, <2>2
  <2> QED BY <1>2, <1>5, <2>1, <2>3, Zenon DEF Next1
<1>6. ASSUME NEW i, Select(c, i), pc[c] = "select",
             i \in DOMAIN snapshot[c] \/ c \in SharedCalls
      PROVE  \/ result' \in AddressesIn(snapshot[c])
             \/ result' = "panic" /\ c \in SharedCalls
  <2>1. PICK r \in Addresses \cup {"panic"} :
          /\ Return(c, r)
          /\ i \in DOMAIN snapshot[c] => r \in AddressesIn(snapshot[c])
          /\ i \notin DOMAIN snapshot[c] => r = "panic"
    BY <1>0, <1>6, SelectKeeps, Zenon
  <2> QED BY <1>2, <1>6, <2>1, Zenon
<1>7. CASE NextShared(c)
  BY <1>6, <1>7, Zenon DEF NextShared
<1>8. CASE NextFresh(c)
  <2>1. pc[c] = "select" /\ Select(c, 1)
    BY <1>8 DEF NextFresh
  <2>2. snapshot[c] \in Seq(Endpoint) /\ snapshot[c] # << >>
    BY <1>0, <2>1, Zenon DEF TypeOK, CallShape
  <2>3. 1 \in DOMAIN snapshot[c]
    BY <2>2
  <2> QED BY <1>6, <2>1, <2>3, Zenon
<1>9. CASE NextWeighted(c)
  <2>1. pc[c] = "select" /\ Select(c, WeightedPick(snapshot[c]))
    BY <1>9 DEF NextWeighted
  <2>2. /\ snapshot[c] \in Seq(Endpoint) /\ snapshot[c] # << >>
        /\ Len(snapshot[c]) <= MaxEndpoints
    BY <1>0, <2>1, Zenon DEF TypeOK, CallShape
  <2>3. WeightedPick(snapshot[c]) \in DOMAIN snapshot[c]
    BY <2>2, WeightedPickFinds
  <2> QED BY <1>6, <2>1, <2>3, Zenon
<1>10. CASE LookUp(c) \/ ReadEndpoints(c) \/ ReadHealthy(c)
  <2>1. c \in Queries
    <3>1. pc[c] = "endpoints" \/ pc[c] = "healthy" => c \in Queries
      BY <1>0, Zenon DEF CallShape
    <3> QED BY <1>10, <3>1, Zenon DEF LookUp, ReadEndpoints, ReadHealthy
  <2> QED BY <1>0, <2>1
<1> QED BY <1>3, <1>4, <1>5, <1>7, <1>8, <1>9, <1>10, Zenon DEF CallStep

(***************************************************************************)
(* As long as no address is registered twice, a request is sent only to an *)
(* address that was registered and healthy at some moment of its routing.  *)
(***************************************************************************)
THEOREM RoutesToUp ==
  ASSUME ~Duplicates
  PROVE  Spec => RoutedWasUp
<1>1. ASSUME IInv, SoleInv, [Next]_vars
      PROVE  [\A c \in Routed : Returns(c) /\ result' \in Addresses
                => result' \in wasUp[c]]_vars
  <2> SUFFICES ASSUME Next, NEW c \in Routed, Returns(c), result' \in Addresses
               PROVE  result' \in wasUp[c]
    BY <1>1
  <2>0. TypeOK /\ c \in Calls /\ pc[c] # "idle"
    BY <1>1, Zenon DEF IInv, Calls, Returns
  <2>1. CallStep(c)
    BY <1>1, <2>0, ReturnedBy
  <2>2. "not found" \notin Addresses /\ "panic" \notin Addresses
    BY RoutingAssumption DEF Failures
  <2>3. \/ result' \in AddressesIn(GetHealthyEndpoints)
        \/ pc[c] = "select" /\ result' \in AddressesIn(snapshot[c])
    BY <1>1, <2>1, <2>2, RoutedReturn, Zenon
  <2>4. AddressesIn(GetHealthyEndpoints) \subseteq wasUp[c]
    <3>1. AddressesIn(GetHealthyEndpoints) = Reachable(endpoints)
      BY <2>0, HealthyType
    <3> QED BY <1>1, <2>0, <3>1, Zenon DEF SoleInv, SoleEndpoints, UpNoted
  <2>5. pc[c] = "select" => AddressesIn(snapshot[c]) \subseteq wasUp[c]
    BY <1>1, Zenon DEF SoleInv, SnapshotsWereUp
  <2> QED BY <2>3, <2>4, <2>5, Zenon
<1> QED BY <1>1, Invariance, SoleInvariance, PTL DEF Spec, RoutedWasUp

(***************************************************************************)
(* A request is turned away as not found only if nothing was up at some    *)
(* moment of its routing; duplicates make no difference.                   *)
(***************************************************************************)
THEOREM RefusalsJustified == Spec => NotFoundJustified
<1>1. ASSUME IInv, [Next]_vars
      PROVE  [\A c \in Routed : Returns(c) /\ result' = "not found"
                => sawNone[c]]_vars
  <2> SUFFICES ASSUME Next, NEW c \in Routed, Returns(c), result' = "not found"
               PROVE  sawNone[c]
    BY <1>1
  <2>0. TypeOK /\ c \in Calls /\ pc[c] # "idle"
    BY <1>1, Zenon DEF IInv, Calls, Returns
  <2>1. CallStep(c)
    BY <1>1, <2>0, ReturnedBy
  <2>2. "not found" \notin Addresses /\ "not found" # "panic"
    BY RoutingAssumption DEF Failures
  <2>3. AddressesIn(snapshot[c]) \subseteq Addresses
    BY <2>0, SnapshotsAreAddresses
  <2>4. \/ pc[c] = "fallback"
        \/ pc[c] = "next" /\ GetHealthyEndpoints = << >>
    BY <1>1, <2>1, <2>2, <2>3, RoutedReturn, Zenon
  <2>5. GetHealthyEndpoints = << >> => up = {}
    BY <1>1, <2>0, HealthyType DEF IInv, UpReachable
  <2> QED BY <1>1, <2>0, <2>4, <2>5, Zenon DEF IInv, AbsenceNoted
<1> QED BY <1>1, Invariance, PTL DEF Spec, NotFoundJustified

(***************************************************************************)
(* Only the balancer that keeps its counter between calls can panic,       *)
(* whatever the weights, the hash and the changes of the registry.         *)
(***************************************************************************)
THEOREM OthersNeverPanic == Spec => PanicsOnlyShared
<1>1. ASSUME IInv, [Next]_vars
      PROVE  [\A c \in Routed \ SharedCalls :
                 Returns(c) => result' # "panic"]_vars
  <2> SUFFICES ASSUME Next, NEW c \in Routed \ SharedCalls, Returns(c)
               PROVE  result' # "panic"
    BY <1>1
  <2>0. TypeOK /\ c \in Calls
    BY <1>1, Zenon DEF IInv, Calls
  <2>1. CallStep(c)
    BY <1>1, <2>0, ReturnedBy
  <2>2. "panic" \notin Addresses /\ "not found" # "panic"
    BY RoutingAssumption DEF Failures
  <2>3. AddressesIn(snapshot[c]) \subseteq Addresses
    BY <2>0, SnapshotsAreAddresses
  <2>4. AddressesIn(GetHealthyEndpoints) \subseteq Addresses
    BY <2>0, HealthyAreAddresses
  <2> QED BY <1>1, <2>1, <2>2, <2>3, <2>4, RoutedReturn, Zenon
<1> QED BY <1>1, Invariance, PTL DEF Spec, PanicsOnlyShared

-----------------------------------------------------------------------------
(***************************************************************************)
(* engineHealth's two numbers tell the status of the engine, and the       *)
(* number of healthy endpoints alone tells whether it can be reached.      *)
(***************************************************************************)
LEMMA StatusHonest ==
  ASSUME TypeOK, NEW total \in Nat
  PROVE  LET health == {endpoints[i].healthy : i \in DOMAIN endpoints}
             status == Status(total, Len(GetHealthyEndpoints))
         IN  /\ status \in {"healthy", "degraded"} <=> TRUE \in health
             /\ total = Len(endpoints) =>
                  status = CASE health = {} -> "unknown"
                             [] health = {TRUE} -> "healthy"
                             [] health = {FALSE} -> "unhealthy"
                             [] OTHER -> "degraded"
<1> DEFINE health == {endpoints[i].healthy : i \in DOMAIN endpoints}
           n == Len(endpoints)
           h == GetHealthyEndpoints
           m == Len(h)
           status == Status(total, m)
<1>0. endpoints \in Seq(Endpoint) /\ n \in Nat /\ DOMAIN endpoints = 1 .. n
  BY DEF TypeOK
<1>1. Filtered(h, endpoints, n)
  BY <1>0, HealthyFiltered DEF GetHealthyEndpoints
<1>2. m \in Nat /\ m <= n
  BY <1>1 DEF Filtered
<1> HIDE DEF h, m, n
<1>3. \A i \in 1 .. n : endpoints[i].healthy \in BOOLEAN
  BY <1>0, EndpointFields DEF n
<1>4. health \subseteq BOOLEAN
  BY <1>0, <1>3, Zenon
<1>5. TRUE \in health <=> m > 0
  <2>1. ASSUME TRUE \in health PROVE m > 0
    <3>1. PICK i \in 1 .. n : endpoints[i].healthy
      BY <1>0, <2>1, Zenon
    <3>2. \E k \in 1 .. Len(h) : h[k] = endpoints[i]
      BY <1>1, <3>1 DEF Filtered
    <3> QED BY <1>2, <3>2 DEF m
  <2>2. ASSUME m > 0 PROVE TRUE \in health
    <3>1. 1 \in 1 .. Len(h)
      BY <1>2, <2>2 DEF m
    <3>2. PICK i \in 1 .. n : endpoints[i].healthy
      BY <1>1, <3>1 DEF Filtered
    <3>3. endpoints[i].healthy = TRUE
      BY <1>3, <3>2, Zenon
    <3> QED BY <1>0, <3>3, Zenon
  <2> QED BY <2>1, <2>2
<1>6. FALSE \in health <=> m < n
  <2>1. ASSUME FALSE \in health PROVE m < n
    <3>1. PICK i \in 1 .. n : ~endpoints[i].healthy
      BY <1>0, <2>1, Zenon
    <3>2. m # n
      BY <1>1, <3>1, Zenon DEF Filtered, m
    <3> QED BY <1>0, <1>2, <3>2
  <2>2. ASSUME m < n PROVE FALSE \in health
    <3>1. PICK i \in 1 .. n : ~endpoints[i].healthy
      BY <1>1, <2>2, Zenon DEF Filtered, m
    <3>2. endpoints[i].healthy = FALSE
      BY <1>3, <3>1, Zenon
    <3> QED BY <1>0, <3>2, Zenon
  <2> QED BY <2>1, <2>2
<1> HIDE DEF health
<1>7. status \in {"healthy", "degraded"} <=> TRUE \in health
  <2>1. status \in {"healthy", "degraded"} <=> m > 0
    BY <1>2 DEF Status
  <2> QED BY <1>5, <2>1, Zenon
<1>8. ASSUME total = n
      PROVE  status = CASE health = {} -> "unknown"
                        [] health = {TRUE} -> "healthy"
                        [] health = {FALSE} -> "unhealthy"
                        [] OTHER -> "degraded"
  <2>1. CASE m = 0 /\ n = 0
    <3>1. health = {}
      <4>1. ~(m > 0) /\ ~(m < n)
        BY <2>1
      <4> QED BY <1>4, <1>5, <1>6, <4>1, Zenon
    <3>2. status = "unknown"
      BY <1>8, <2>1 DEF Status
    <3> QED BY <3>1, <3>2
  <2>2. CASE m = 0 /\ n > 0
    <3>1. health = {FALSE}
      <4>1. ~(m > 0) /\ m < n
        BY <2>2
      <4> QED BY <1>4, <1>5, <1>6, <4>1, Zenon
    <3>2. status = "unhealthy"
      BY <1>8, <2>2 DEF Status
    <3>3. health # {} /\ health # {TRUE}
      BY <3>1, Zenon
    <3> QED BY <3>1, <3>2, <3>3, Zenon
  <2>3. CASE m > 0 /\ m = n
    <3>1. health = {TRUE}
      <4>1. m > 0 /\ ~(m < n)
        BY <1>0, <2>3
      <4> QED BY <1>4, <1>5, <1>6, <4>1, Zenon
    <3>2. status = "healthy"
      BY <1>2, <1>8, <2>3 DEF Status
    <3>3. health # {} /\ health # {FALSE}
      BY <3>1, Zenon
    <3> QED BY <3>1, <3>2, <3>3, Zenon
  <2>4. CASE m > 0 /\ m < n
    <3>1. TRUE \in health /\ FALSE \in health
      BY <1>5, <1>6, <2>4, Zenon
    <3>2. status = "degraded"
      BY <1>0, <1>2, <1>8, <2>4 DEF Status
    <3>3. health # {} /\ health # {FALSE} /\ health # {TRUE}
      BY <3>1, Zenon
    <3> QED BY <3>2, <3>3, Zenon
  <2>5. \/ m = 0 /\ n = 0
        \/ m = 0 /\ n > 0
        \/ m > 0 /\ m = n
        \/ m > 0 /\ m < n
    BY <1>0, <1>2
  <2> QED BY <2>1, <2>2, <2>3, <2>4, <2>5, Zenon
<1> QED BY <1>7, <1>8, Zenon DEF health, n, h, m

(***************************************************************************)
(* A health query tells whether the engine can be reached, and its status  *)
(* if the registry did not change between the two reads.                   *)
(***************************************************************************)
THEOREM QueriesHonest == Spec => HealthHonest
<1> DEFINE health == {endpoints[i].healthy : i \in DOMAIN endpoints}
           Honest(c) ==
             /\ result' \in {"healthy", "degraded"} <=> TRUE \in health
             /\ c \in fresh => result' = CASE health = {} -> "unknown"
                                           [] health = {TRUE} -> "healthy"
                                           [] health = {FALSE} -> "unhealthy"
                                           [] OTHER -> "degraded"
<1>1. ASSUME IInv, [Next]_vars
      PROVE  [\A c \in Queries :
                 pc[c] = "healthy" /\ Returns(c) => Honest(c)]_vars
  <2> SUFFICES ASSUME Next, NEW c \in Queries, pc[c] = "healthy", Returns(c)
               PROVE  Honest(c)
    BY <1>1
  <2>0. TypeOK /\ c \in Calls
    BY <1>1, Zenon DEF IInv, Calls
  <2>1. CallStep(c)
    BY <1>1, <2>0, ReturnedBy
  <2> DEFINE total == Len(snapshot[c])
             status == Status(total, Len(GetHealthyEndpoints))
  <2>2. result' = status
    <3>1. ReadHealthy(c)
      <4>1. /\ ~(pc[c] = "idle") /\ ~(pc[c] = "next") /\ ~(pc[c] = "select")
            /\ ~(pc[c] = "fallback") /\ ~(pc[c] = "endpoints")
        OBVIOUS
      <4> QED BY <2>1, <4>1, Zenon
              DEF CallStep, ResolveEndpoint, Fallback, Next1, NextShared,
                  NextFresh, NextWeighted, LookUp, ReadEndpoints
    <3> QED BY <3>1, Zenon DEF ReadHealthy, Return
  <2>3. total \in Nat
    BY <2>0 DEF TypeOK
  <2>4. c \in fresh => total = Len(endpoints)
    BY <1>1, Zenon DEF IInv, FreshSnapshots
  <2>5. /\ status \in {"healthy", "degraded"} <=> TRUE \in health
        /\ total = Len(endpoints) =>
             status = CASE health = {} -> "unknown"
                        [] health = {TRUE} -> "healthy"
                        [] health = {FALSE} -> "unhealthy"
                        [] OTHER -> "degraded"
    BY <2>0, <2>3, StatusHonest, Zenon
  <2> HIDE DEF health, total, status
  <2> QED BY <2>2, <2>4, <2>5, Zenon
<1> QED BY <1>1, Invariance, PTL DEF Spec, HealthHonest
=============================================================================
