------------------------- MODULE AuthorizationProofs -------------------------
(***************************************************************************)
(* RBACAuthorizer.  First matchPattern, for any alphabet: its loop finds   *)
(* the layout of the pattern's parts that ends first, so it finds one if   *)
(* there is any.  Then Authorize, for any policies, any calls and any      *)
(* order in which they come: the exchange sort leaves the policies in      *)
(* descending order of priority and loses none, so the first that applies  *)
(* is one that no other outranks.                                          *)
(***************************************************************************)
EXTENDS MCAuthorization, SequenceTheorems, WellFoundedInduction, TLAPS

-----------------------------------------------------------------------------
\* Induction on the natural numbers, for a set.
LEMMA NatSetInduction ==
  ASSUME NEW S, 0 \in S, \A n \in Nat : n \in S => n + 1 \in S
  PROVE  Nat \subseteq S
<1> DEFINE T == Nat \ S
<1>1. SUFFICES ASSUME T # {} PROVE FALSE
  OBVIOUS
<1>2. PICK x \in T : \A y \in T : ~(<<y, x>> \in OpToRel(<, Nat))
  <2>1. T \subseteq Nat
    OBVIOUS
  <2> QED BY <1>1, <2>1, NatLessThanWellFounded, WFMin, Zenon
<1>3. x \in Nat /\ x # 0 /\ x \notin S
  OBVIOUS
<1>4. x - 1 \in Nat /\ x - 1 < x
  BY <1>3
<1>5. x - 1 \notin T
  <2> SUFFICES ASSUME x - 1 \in T PROVE FALSE
    OBVIOUS
  <2>1. <<x - 1, x>> \notin OpToRel(<, Nat)
    BY <1>2
  <2>2. <<x - 1, x>> \in OpToRel(<, Nat)
    BY <1>3, <1>4, Zenon DEF OpToRel
  <2> QED BY <2>1, <2>2
<1> QED
  BY <1>3, <1>4, <1>5

\* A set of natural numbers that is not empty has a least element.
LEMMA Least ==
  ASSUME NEW T \in SUBSET Nat, T # {}
  PROVE  \E x \in T : \A y \in T : x <= y
<1>1. PICK x \in T : \A y \in T : ~(<<y, x>> \in OpToRel(<, Nat))
  BY NatLessThanWellFounded, WFMin, Zenon
<1>2. ASSUME NEW y \in T PROVE ~(y < x)
  <2> SUFFICES ASSUME y < x PROVE FALSE
    OBVIOUS
  <2>1. <<y, x>> \notin OpToRel(<, Nat)
    BY <1>1
  <2>2. y \in Nat /\ x \in Nat
    OBVIOUS
  <2>3. <<y, x>> \in OpToRel(<, Nat)
    BY <2>2, Zenon DEF OpToRel
  <2> QED BY <2>1, <2>3
<1>3. \A y \in T : x <= y
  BY <1>2
<1> QED BY <1>3

-----------------------------------------------------------------------------
\* at lays the first n parts out in the value, in order and without overlap.
Laid(parts, n, value, at) ==
  /\ at \in [1 .. n -> 0 .. Len(value)]
  /\ \A k \in 1 .. n : OccursAt(parts[k], value, at[k])
  /\ \A k \in 1 .. n : k > 1 => at[k - 1] + Len(parts[k - 1]) <= at[k]

\* Where part k ends.
End(parts, at, k) == at[k] + Len(parts[k])

\* The layout without its last part is one.
LEMMA LaidBefore ==
  ASSUME NEW value, Len(value) \in Nat, NEW n \in Nat, NEW parts, NEW at,
         Laid(parts, n + 1, value, at)
  PROVE  Laid(parts, n, value, [k \in 1 .. n |-> at[k]])
<1> DEFINE b == [k \in 1 .. n |-> at[k]]
<1>1. \A k \in 1 .. n : b[k] = at[k] /\ k \in 1 .. n + 1
  OBVIOUS
<1>2. b \in [1 .. n -> 0 .. Len(value)]
  BY DEF Laid
<1>3. \A k \in 1 .. n : OccursAt(parts[k], value, b[k])
  BY <1>1 DEF Laid
<1>4. \A k \in 1 .. n : k > 1 => b[k - 1] + Len(parts[k - 1]) <= b[k]
  <2> SUFFICES ASSUME NEW k \in 1 .. n, k > 1
               PROVE  b[k - 1] + Len(parts[k - 1]) <= b[k]
    OBVIOUS
  <2>1. k - 1 \in 1 .. n
    OBVIOUS
  <2>2. b[k - 1] = at[k - 1] /\ b[k] = at[k] /\ k \in 1 .. n + 1
    BY <1>1, <2>1
  <2>3. at[k - 1] + Len(parts[k - 1]) <= at[k]
    BY <2>2 DEF Laid
  <2> HIDE DEF b
  <2> QED BY <2>2, <2>3
<1> HIDE DEF b
<1>5. Laid(parts, n, value, b)
  BY <1>2, <1>3, <1>4 DEF Laid
<1> QED BY <1>5 DEF b

\* A layout can be continued with a part that occurs behind it.
LEMMA LaidAfter ==
  ASSUME NEW value, Len(value) \in Nat, NEW n \in Nat, NEW parts, NEW at,
         Laid(parts, n, value, at),
         NEW y \in 0 .. Len(value), OccursAt(parts[n + 1], value, y),
         n > 0 => End(parts, at, n) <= y
  PROVE  Laid(parts, n + 1, value,
              [k \in 1 .. n + 1 |-> IF k = n + 1 THEN y ELSE at[k]])
<1> DEFINE b == [k \in 1 .. n + 1 |-> IF k = n + 1 THEN y ELSE at[k]]
<1>1. /\ \A k \in 1 .. n : b[k] = at[k]
      /\ b[n + 1] = y
  OBVIOUS
<1>2. \A k \in 1 .. n + 1 : k # n + 1 => k \in 1 .. n
  OBVIOUS
<1>3. b \in [1 .. n + 1 -> 0 .. Len(value)]
  BY <1>2 DEF Laid
<1> HIDE DEF b
<1>4. \A k \in 1 .. n + 1 : OccursAt(parts[k], value, b[k])
  <2> TAKE k \in 1 .. n + 1
  <2>1. CASE k = n + 1
    BY <1>1, <2>1, Zenon
  <2>2. CASE k # n + 1
    <3>1. k \in 1 .. n
      BY <2>2
    <3> QED BY <1>1, <3>1, Zenon DEF Laid
  <2> QED BY <2>1, <2>2
<1>5. \A k \in 1 .. n + 1 : k > 1 => b[k - 1] + Len(parts[k - 1]) <= b[k]
  <2> SUFFICES ASSUME NEW k \in 1 .. n + 1, k > 1
               PROVE  b[k - 1] + Len(parts[k - 1]) <= b[k]
    OBVIOUS
  <2>1. CASE k = n + 1
    <3>1. k - 1 = n /\ n > 0 /\ n \in 1 .. n
      BY <2>1
    <3>2. b[n] = at[n] /\ b[k] = y
      BY <1>1, <2>1, <3>1
    <3>3. at[n] + Len(parts[n]) <= y
      BY <3>1 DEF End
    <3> QED BY <3>1, <3>2, <3>3
  <2>2. CASE k # n + 1
    <3>1. k \in 1 .. n /\ k - 1 \in 1 .. n
      BY <2>2
    <3>2. b[k - 1] = at[k - 1] /\ b[k] = at[k]
      BY <1>1, <3>1
    <3>3. at[k - 1] + Len(parts[k - 1]) <= at[k]
      BY <3>1 DEF Laid
    <3> QED BY <3>2, <3>3
  <2> QED BY <2>1, <2>2
<1>6. Laid(parts, n + 1, value, b)
  BY <1>3, <1>4, <1>5, Zenon DEF Laid
<1> QED BY <1>6 DEF b

\* f is the index of the search after each turn.
Index(f, value, parts, n) ==
  f = [i \in 0 .. n |->
        IF i = 0 THEN 0 ELSE AfterPart(value, f[i - 1], parts[i])]

\* The recursion has a solution.
LEMMA IndexExists ==
  \A value, parts : \A n \in Nat : \E f : Index(f, value, parts, n)
<1> TAKE value, parts
<1> DEFINE S == {n \in Nat : \E f : Index(f, value, parts, n)}
<1>1. 0 \in S
  <2> DEFINE f == [i \in 0 .. 0 |-> 0]
  <2>1. Index(f, value, parts, 0)
    BY DEF Index
  <2> QED BY <2>1
<1>2. ASSUME NEW n \in Nat, n \in S PROVE n + 1 \in S
  <2>1. PICK f : Index(f, value, parts, n)
    BY <1>2
  <2> DEFINE g == [i \in 0 .. n + 1 |->
                    IF i = 0 THEN 0 ELSE AfterPart(value, f[i - 1], parts[i])]
  <2>2. \A i \in 0 .. n : g[i] = f[i]
    BY <2>1 DEF Index
  <2>3. \A i \in 0 .. n + 1 : i # 0 => i - 1 \in 0 .. n
    OBVIOUS
  <2>4. \A i \in 0 .. n + 1 : i # 0 => g[i - 1] = f[i - 1]
    BY <2>2, <2>3
  <2>5. Index(g, value, parts, n + 1)
    BY <2>4 DEF Index
  <2> QED BY <2>5
<1> HIDE DEF S
<1>3. Nat \subseteq S
  BY <1>1, <1>2, NatSetInduction, Zenon
<1> QED BY <1>3 DEF S

\* After n parts the index x is behind the layout that ends first, or there is
\* no layout.
Foremost(x, n, value, parts) ==
  \/ x = NotFound /\ \A at : ~Laid(parts, n, value, at)
  \/ /\ x \in 0 .. Len(value)
     /\ n = 0 => x = 0
     /\ \E at : Laid(parts, n, value, at) /\ (n > 0 => End(parts, at, n) = x)
     /\ \A at : Laid(parts, n, value, at) /\ n > 0 => x <= End(parts, at, n)

\* The last part of a layout starts behind the foremost end of the others.
LEMMA LastBehind ==
  ASSUME NEW value, Len(value) \in Nat, NEW n \in Nat, NEW parts,
         NEW x \in 0 .. Len(value), n = 0 => x = 0,
         \A at : Laid(parts, n, value, at) /\ n > 0 => x <= End(parts, at, n),
         \A k \in 1 .. n : Len(parts[k]) \in Nat,
         NEW at, Laid(parts, n + 1, value, at)
  PROVE  at[n + 1] \in x .. Len(value)
<1>1. at[n + 1] \in 0 .. Len(value)
  BY DEF Laid
<1>2. CASE n = 0
  BY <1>1, <1>2
<1>3. CASE n > 0
  <2> DEFINE b == [k \in 1 .. n |-> at[k]]
  <2>1. Laid(parts, n, value, b)
    BY LaidBefore
  <2>2. b[n] = at[n] /\ at[n] \in 0 .. Len(value) /\ Len(parts[n]) \in Nat
    BY <1>3 DEF Laid
  <2> HIDE DEF b
  <2>3. x <= End(parts, b, n)
    BY <1>3, <2>1
  <2>4. at[n] + Len(parts[n]) <= at[n + 1]
    <3>1. n + 1 \in 1 .. n + 1 /\ n + 1 > 1 /\ (n + 1) - 1 = n
      BY <1>3
    <3> QED BY <3>1 DEF Laid
  <2>5. x <= at[n] + Len(parts[n])
    BY <2>2, <2>3, Zenon DEF End
  <2> QED BY <1>1, <2>2, <2>4, <2>5
<1> QED BY <1>2, <1>3

\* One turn of the search.
LEMMA ForemostStep ==
  ASSUME NEW value, Len(value) \in Nat, NEW n \in Nat, NEW parts,
         \A k \in 1 .. n + 1 : Len(parts[k]) \in Nat,
         NEW x, Foremost(x, n, value, parts)
  PROVE  Foremost(AfterPart(value, x, parts[n + 1]), n + 1, value, parts)
<1> PICK p : p = parts[n + 1]
  OBVIOUS
<1> DEFINE found == {i \in x .. Len(value) : OccursAt(p, value, i)}
           first == CHOOSE i \in found : \A j \in found : i <= j
           y == AfterPart(value, x, p)
<1>0. y = IF x = NotFound \/ found = {} THEN NotFound ELSE first + Len(p)
  BY Zenon DEF AfterPart
<1> HIDE DEF y
<1>1. Len(p) \in Nat
  OBVIOUS
<1>2. CASE x = NotFound
  <2>1. y = NotFound
    BY <1>0, <1>2, Zenon
  <2>2. x \notin 0 .. Len(value)
    BY <1>2 DEF NotFound
  <2>3. \A at : ~Laid(parts, n, value, at)
    BY <2>2, Zenon DEF Foremost
  <2>4. \A at : ~Laid(parts, n + 1, value, at)
    BY <2>3, LaidBefore, Zenon
  <2> QED BY <2>1, <2>4, Zenon DEF Foremost, y
<1>3. CASE x # NotFound
  <2>1. /\ x \in 0 .. Len(value)
        /\ n = 0 => x = 0
        /\ \E at : /\ Laid(parts, n, value, at)
                   /\ n > 0 => End(parts, at, n) = x
        /\ \A at : Laid(parts, n, value, at) /\ n > 0 => x <= End(parts, at, n)
    BY <1>3, Zenon DEF Foremost
  <2>2. \A k \in 1 .. n : Len(parts[k]) \in Nat
    OBVIOUS
  <2>3. ASSUME NEW at, Laid(parts, n + 1, value, at)
        PROVE  at[n + 1] \in found
    <3>1. at[n + 1] \in x .. Len(value)
      BY <2>1, <2>2, <2>3, LastBehind
    <3>2. OccursAt(parts[n + 1], value, at[n + 1])
      <4>1. n + 1 \in 1 .. n + 1
        OBVIOUS
      <4> QED BY <2>3, <4>1, Zenon DEF Laid
    <3> QED BY <3>1, <3>2, Zenon
  <2>4. CASE found = {}
    <3>1. y = NotFound
      BY <1>0, <2>4, Zenon
    <3>2. \A at : ~Laid(parts, n + 1, value, at)
      BY <2>3, <2>4, Zenon
    <3> QED BY <3>1, <3>2, Zenon DEF Foremost, y
  <2>5. CASE found # {}
    <3>1. first \in found /\ \A l \in found : first <= l
      <4>1. found \in SUBSET Nat
        BY <2>1
      <4> HIDE DEF found
      <4>2. \E i \in found : \A j \in found : i <= j
        BY <2>5, <4>1, Least
      <4> QED BY <4>2, Zenon
    <3>2. y = first + Len(p)
      BY <1>0, <1>3, <2>5, Zenon
    <3> HIDE DEF first
    <3>3. first \in x .. Len(value) /\ OccursAt(p, value, first)
      BY <3>1, Zenon
    <3>4. first \in 0 .. Len(value) /\ x <= first
      BY <2>1, <3>3
    <3>5. y \in 0 .. Len(value)
      <4>1. first + Len(p) <= Len(value)
        BY <3>3, Zenon DEF OccursAt
      <4> QED BY <1>1, <3>2, <3>4, <4>1
    <3>6. \E at : /\ Laid(parts, n + 1, value, at)
                  /\ End(parts, at, n + 1) = y
      <4>1. PICK at : /\ Laid(parts, n, value, at)
                      /\ n > 0 => End(parts, at, n) = x
        BY <2>1
      <4> DEFINE b == [k \in 1 .. n + 1 |-> IF k = n + 1 THEN first ELSE at[k]]
      <4>2. n > 0 => End(parts, at, n) <= first
        BY <3>4, <4>1
      <4>3. OccursAt(parts[n + 1], value, first)
        BY <3>3, Zenon
      <4>4. Laid(parts, n + 1, value, b)
        BY <3>4, <4>1, <4>2, <4>3, LaidAfter
      <4>5. b[n + 1] = first
        OBVIOUS
      <4> HIDE DEF b
      <4>6. End(parts, b, n + 1) = y
        BY <3>2, <4>5, Zenon DEF End
      <4> QED BY <4>4, <4>6, Zenon
    <3>7. ASSUME NEW at, Laid(parts, n + 1, value, at)
          PROVE  y <= End(parts, at, n + 1)
      <4>1. at[n + 1] \in found
        BY <2>3, <3>7
      <4>2. first <= at[n + 1] /\ at[n + 1] \in x .. Len(value)
        BY <3>1, <4>1, Zenon
      <4>3. first + Len(p) <= at[n + 1] + Len(p)
        BY <1>1, <2>1, <3>4, <4>2
      <4> QED BY <3>2, <4>3, Zenon DEF End
    <3>8. ~(n + 1 = 0)
      OBVIOUS
    <3>9. Foremost(y, n + 1, value, parts)
      BY <3>5, <3>6, <3>7, <3>8, Zenon DEF Foremost
    <3> QED BY <3>9, Zenon DEF y
  <2> QED BY <2>4, <2>5
<1> QED BY <1>2, <1>3

(***************************************************************************)
(* The loop of matchPattern, for every value and every list of parts: it   *)
(* comes to its end if and only if the parts can be laid out.              *)
(***************************************************************************)
LEMMA SearchExact ==
  ASSUME NEW value, Len(value) \in Nat, NEW parts, Len(parts) \in Nat,
         \A k \in 1 .. Len(parts) : Len(parts[k]) \in Nat
  PROVE  Search(value, parts) # NotFound
           <=> \E at : Laid(parts, Len(parts), value, at)
<1> PICK n : n = Len(parts)
  OBVIOUS
<1> DEFINE f == CHOOSE g : Index(g, value, parts, n)
<1>1. Index(f, value, parts, n)
  BY IndexExists
<1>2. Search(value, parts) = f[n]
  BY DEF Search, Index
<1> HIDE DEF f
<1> DEFINE S == {k \in Nat : k <= n => Foremost(f[k], k, value, parts)}
<1>3. 0 \in S
  <2>1. f[0] = 0
    BY <1>1 DEF Index
  <2> DEFINE at == [k \in 1 .. 0 |-> 0]
  <2>2. Laid(parts, 0, value, at)
    BY DEF Laid
  <2>3. 0 \in 0 .. Len(value) /\ ~(0 > 0)
    OBVIOUS
  <2>4. Foremost(0, 0, value, parts)
    <3> HIDE DEF at
    <3> QED BY <2>2, <2>3, Zenon DEF Foremost
  <2> QED BY <2>1, <2>4
<1>4. ASSUME NEW k \in Nat, k \in S PROVE k + 1 \in S
  <2> SUFFICES ASSUME k + 1 <= n PROVE Foremost(f[k + 1], k + 1, value, parts)
    OBVIOUS
  <2>1. Foremost(f[k], k, value, parts)
    BY <1>4
  <2>2. f[k + 1] = AfterPart(value, f[k], parts[k + 1])
    BY <1>1 DEF Index
  <2>3. \A l \in 1 .. k + 1 : Len(parts[l]) \in Nat
    OBVIOUS
  <2>4. Foremost(AfterPart(value, f[k], parts[k + 1]), k + 1, value, parts)
    BY <2>1, <2>3, ForemostStep
  <2> QED BY <2>2, <2>4, Zenon
<1> HIDE DEF S
<1>5. Nat \subseteq S
  BY <1>3, <1>4, NatSetInduction, Zenon
<1>6. Foremost(f[n], n, value, parts)
  BY <1>5 DEF S
<1>7. NotFound \notin 0 .. Len(value)
  BY DEF NotFound
<1> QED BY <1>2, <1>6, <1>7, Zenon DEF Foremost

-----------------------------------------------------------------------------
\* Whether the character at i begins a part, if it is no "*".
Begins(pattern, i) == i = 1 \/ pattern[i - 1] = Star

\* f is what strings.Split has made of the first characters of the pattern.
Splits(f, pattern, n) ==
  f = [i \in 0 .. n |->
        IF i = 0 THEN << >>
        ELSE Split(f[i - 1], pattern[i], Begins(pattern, i))]

\* The recursion has a solution.
LEMMA SplitExists ==
  \A pattern : \A n \in Nat : \E f : Splits(f, pattern, n)
<1> TAKE pattern
<1> DEFINE S == {n \in Nat : \E f : Splits(f, pattern, n)}
<1>1. 0 \in S
  <2> DEFINE f == [i \in 0 .. 0 |-> << >>]
  <2>1. Splits(f, pattern, 0)
    BY DEF Splits
  <2> QED BY <2>1
<1>2. ASSUME NEW n \in Nat, n \in S PROVE n + 1 \in S
  <2>1. PICK f : Splits(f, pattern, n)
    BY <1>2
  <2> DEFINE g == [i \in 0 .. n + 1 |->
                    IF i = 0 THEN << >>
                    ELSE Split(f[i - 1], pattern[i], Begins(pattern, i))]
  <2>2. \A i \in 0 .. n : g[i] = f[i]
    BY <2>1 DEF Splits
  <2>3. \A i \in 0 .. n + 1 : i # 0 => i - 1 \in 0 .. n
    OBVIOUS
  <2>4. \A i \in 0 .. n + 1 : i # 0 => g[i - 1] = f[i - 1]
    BY <2>2, <2>3
  <2>5. Splits(g, pattern, n + 1)
    BY <2>4 DEF Splits
  <2> QED BY <2>5
<1> HIDE DEF S
<1>3. Nat \subseteq S
  BY <1>1, <1>2, NatSetInduction, Zenon
<1> QED BY <1>3 DEF S

\* What one more character makes of a list of parts.
Grown(q, parts, c, begins) ==
  /\ begins => /\ Len(q) = Len(parts) + 1
               /\ q[Len(q)] = <<c>>
               /\ \A k \in 1 .. Len(parts) : q[k] = parts[k]
  /\ ~begins => /\ Len(q) = Len(parts)
                /\ q[Len(q)] = Append(parts[Len(parts)], c)
                /\ \A k \in 1 .. Len(parts) - 1 : q[k] = parts[k]

\* A character other than "*" begins a part or makes the last one longer.
LEMMA SplitStep ==
  ASSUME NEW C, NEW c \in C, NEW begins \in BOOLEAN,
         NEW parts \in Seq(Seq(C)), begins \/ Len(parts) > 0,
         c # Star, NEW q, q = Split(parts, c, begins)
  PROVE  q \in Seq(Seq(C)) /\ Grown(q, parts, c, begins)
<1> DEFINE D == Seq(C)
<1>1. CASE begins
  <2>1. q = Append(parts, <<c>>)
    BY <1>1, Zenon DEF Split
  <2>2. <<c>> \in D
    OBVIOUS
  <2> PICK one : one = <<c>>  OBVIOUS
  <2> HIDE DEF D
  <2>3. parts \in Seq(D) /\ one \in D /\ q = Append(parts, one)
    BY <2>1, <2>2, Zenon DEF D
  <2>4. /\ q \in Seq(D) /\ Len(q) = Len(parts) + 1
        /\ q[Len(q)] = one
        /\ \A k \in 1 .. Len(parts) : q[k] = parts[k]
    BY <2>3
  <2> QED BY <1>1, <2>4, Zenon DEF D, Grown
<1>2. CASE ~begins
  <2>1. q = [parts EXCEPT ![Len(parts)] = Append(parts[Len(parts)], c)]
    BY <1>2, Zenon DEF Split
  <2>2. Len(parts) \in 1 .. Len(parts) /\ Len(parts) \in Nat
    BY <1>2, LenProperties
  <2>3. parts[Len(parts)] \in D
    BY <2>2, ElementOfSeq
  <2> PICK e : e = Append(parts[Len(parts)], c)  OBVIOUS
  <2>4. e \in D
    BY <2>3
  <2> HIDE DEF D
  <2>5. parts \in Seq(D) /\ q = [parts EXCEPT ![Len(parts)] = e]
    BY <2>1, Zenon DEF D
  <2>6. /\ q \in Seq(D) /\ Len(q) = Len(parts)
        /\ q[Len(parts)] = e
        /\ \A k \in 1 .. Len(parts) - 1 : q[k] = parts[k]
    BY <2>2, <2>4, <2>5, ExceptSeq
  <2>7. q[Len(q)] = Append(parts[Len(parts)], c)
    BY <2>6, Zenon
  <2> QED BY <1>2, <2>6, <2>7, Zenon DEF D, Grown
<1> QED BY <1>1, <1>2

\* The parts of the first i characters, and that a part is under way unless a
\* "*" came last.
PartsOf(parts, pattern, C, i) ==
  /\ parts \in Seq(Seq(C))
  /\ i > 0 /\ pattern[i] # Star => Len(parts) > 0

\* They are, after every character.
LEMMA PartsTyped ==
  ASSUME NEW C, NEW pattern \in Seq(C), NEW f,
         Splits(f, pattern, Len(pattern))
  PROVE  \A i \in 0 .. Len(pattern) : PartsOf(f[i], pattern, C, i)
<1> PICK n : n = Len(pattern)
  OBVIOUS
<1> DEFINE S == {i \in Nat : i <= n => PartsOf(f[i], pattern, C, i)}
<1>0. n \in Nat /\ \A i \in 1 .. n : pattern[i] \in C
  BY ElementOfSeq, LenProperties
<1>1. 0 \in S
  <2>1. f[0] = << >>
    BY <1>0 DEF Splits
  <2>2. f[0] \in Seq(Seq(C))
    BY <2>1, EmptySeq, Zenon
  <2> QED BY <2>2 DEF PartsOf
<1>2. ASSUME NEW i \in Nat, i \in S PROVE i + 1 \in S
  <2> SUFFICES ASSUME i + 1 <= n PROVE PartsOf(f[i + 1], pattern, C, i + 1)
    OBVIOUS
  <2>1. PartsOf(f[i], pattern, C, i)
    BY <1>0, <1>2
  <2>2. f[i + 1] = Split(f[i], pattern[i + 1], Begins(pattern, i + 1))
    BY <1>0 DEF Splits
  <2>3. pattern[i + 1] \in C
    BY <1>0
  <2>4. Begins(pattern, i + 1) \in BOOLEAN
    BY Zenon DEF Begins
  <2>5. Begins(pattern, i + 1) \/ Len(f[i]) > 0
    <3>1. Begins(pattern, i + 1) \/ (i > 0 /\ pattern[i] # Star)
      <4>1. (i + 1) - 1 = i /\ (i + 1 = 1 \/ i > 0)
        OBVIOUS
      <4> QED BY <4>1, Zenon DEF Begins
    <3> QED BY <2>1, <3>1, Zenon DEF PartsOf
  <2>6. CASE pattern[i + 1] = Star
    <3>1. f[i + 1] = f[i]
      BY <2>2, <2>6, Zenon DEF Split
    <3> QED BY <2>1, <2>6, <3>1, Zenon DEF PartsOf
  <2>7. CASE pattern[i + 1] # Star
    <3>0. PICK a, b, c, begins :
            /\ a = f[i] /\ b = f[i + 1] /\ c = pattern[i + 1]
            /\ begins = Begins(pattern, i + 1)
      OBVIOUS
    <3>1. a \in Seq(Seq(C)) /\ (begins \/ Len(a) > 0) /\ begins \in BOOLEAN
      BY <2>1, <2>4, <2>5, <3>0, Zenon DEF PartsOf
    <3>2. b = Split(a, c, begins) /\ c \in C /\ c # Star
      BY <2>2, <2>3, <2>7, <3>0, Zenon
    <3>s. b \in Seq(Seq(C)) /\ Grown(b, a, c, begins)
      BY <3>1, <3>2, SplitStep
    <3>3. /\ b \in Seq(Seq(C))
          /\ begins => Len(b) = Len(a) + 1
          /\ ~begins => Len(b) = Len(a)
      BY <3>s, Zenon DEF Grown
    <3>4. Len(a) \in Nat
      BY <3>1, LenProperties
    <3>5. Len(b) > 0
      BY <3>1, <3>3, <3>4
    <3> QED BY <3>0, <3>3, <3>5, Zenon DEF PartsOf
  <2> QED BY <2>6, <2>7
<1> HIDE DEF S
<1>3. Nat \subseteq S
  BY <1>1, <1>2, NatSetInduction, Zenon
<1>4. \A i \in 0 .. n : PartsOf(f[i], pattern, C, i)
  BY <1>0, <1>3 DEF S
<1> QED BY <1>4

\* What strings.Split has made of each prefix of the pattern.
SplitOf(pattern) == CHOOSE f : Splits(f, pattern, Len(pattern))

\* The parts of the pattern are those of all its characters.
LEMMA PartsSplit ==
  ASSUME NEW C, NEW pattern \in Seq(C)
  PROVE  /\ Splits(SplitOf(pattern), pattern, Len(pattern))
         /\ Parts(pattern) = SplitOf(pattern)[Len(pattern)]
         /\ Parts(pattern) \in Seq(Seq(C))
         /\ \A k \in 1 .. Len(Parts(pattern)) : Len(Parts(pattern)[k]) \in Nat
<1>0. PICK n : n = Len(pattern) /\ n \in Nat
  BY LenProperties
<1> DEFINE f == SplitOf(pattern)
<1>1. Splits(f, pattern, Len(pattern))
  <2>1. \E g : Splits(g, pattern, n)
    BY <1>0, SplitExists
  <2> QED BY <1>0, <2>1, Zenon DEF SplitOf
<1>2. Parts(pattern) = f[Len(pattern)]
  BY Zenon DEF Parts, SplitOf, Splits, Begins
<1>3. Parts(pattern) \in Seq(Seq(C))
  <2> HIDE DEF f
  <2>1. PartsOf(f[n], pattern, C, n)
    BY <1>0, <1>1, PartsTyped
  <2> QED BY <1>0, <1>2, <2>1, Zenon DEF PartsOf
<1>4. \A k \in 1 .. Len(Parts(pattern)) : Len(Parts(pattern)[k]) \in Nat
  <2> TAKE k \in 1 .. Len(Parts(pattern))
  <2>1. Parts(pattern)[k] \in Seq(C)
    BY <1>3, ElementOfSeq, Zenon
  <2> QED BY <2>1, LenProperties, Zenon
<1> QED BY <1>1, <1>2, <1>3, <1>4, Zenon
-----------------------------------------------------------------------------
\* A shell starts with nothing matched.
Origin == {0}

\* g is what a shell reaches in the value with each prefix of the pattern.
Reaches(g, pattern, value, n) ==
  g = [i \in 0 .. n |->
        IF i = 0 THEN Origin ELSE ShellStep(g[i - 1], pattern[i], value)]

\* The recursion has a solution.
LEMMA ReachExists ==
  \A pattern, value : \A n \in Nat : \E g : Reaches(g, pattern, value, n)
<1> TAKE pattern, value
<1> DEFINE S == {n \in Nat : \E g : Reaches(g, pattern, value, n)}
<1>1. 0 \in S
  <2> DEFINE f == [i \in 0 .. 0 |-> Origin]
  <2>1. Reaches(f, pattern, value, 0)
    BY DEF Reaches
  <2> QED BY <2>1
<1>2. ASSUME NEW n \in Nat, n \in S PROVE n + 1 \in S
  <2>1. PICK f : Reaches(f, pattern, value, n)
    BY <1>2
  <2> DEFINE g == [i \in 0 .. n + 1 |->
                    IF i = 0 THEN Origin
                    ELSE ShellStep(f[i - 1], pattern[i], value)]
  <2>2. \A i \in 0 .. n : g[i] = f[i]
    BY <2>1 DEF Reaches
  <2>3. \A i \in 0 .. n + 1 : i # 0 => i - 1 \in 0 .. n
    OBVIOUS
  <2>4. \A i \in 0 .. n + 1 : i # 0 => g[i - 1] = f[i - 1]
    BY <2>2, <2>3
  <2>5. Reaches(g, pattern, value, n + 1)
    BY <2>4 DEF Reaches
  <2> QED BY <2>5
<1> HIDE DEF S
<1>3. Nat \subseteq S
  BY <1>1, <1>2, NatSetInduction, Zenon
<1> QED BY <1>3 DEF S

\* It starts at the origin and takes a step for every character.
LEMMA ReachSteps ==
  ASSUME NEW g, NEW pattern, NEW value, NEW n \in Nat,
         Reaches(g, pattern, value, n)
  PROVE  /\ g[0] = Origin
         /\ \A i \in Nat :
              i + 1 <= n => g[i + 1] = ShellStep(g[i], pattern[i + 1], value)
BY DEF Reaches

\* What a shell reaches with each prefix of the pattern.
ReachOf(pattern, value) ==
  CHOOSE g : Reaches(g, pattern, value, Len(pattern))

\* A shell matches when it reaches the end of the value.
LEMMA ShellReaches ==
  ASSUME NEW C, NEW pattern \in Seq(C), NEW value
  PROVE  /\ Reaches(ReachOf(pattern, value), pattern, value, Len(pattern))
         /\ ShellMatch(pattern, value)
              <=> Len(value) \in ReachOf(pattern, value)[Len(pattern)]
<1>0. PICK n : n = Len(pattern) /\ n \in Nat
  BY LenProperties
<1>1. Reaches(ReachOf(pattern, value), pattern, value, Len(pattern))
  <2>1. \E g : Reaches(g, pattern, value, n)
    BY <1>0, ReachExists
  <2> QED BY <1>0, <2>1, Zenon DEF ReachOf
<1>2. ShellMatch(pattern, value)
        <=> Len(value) \in ReachOf(pattern, value)[Len(pattern)]
  BY Zenon DEF ShellMatch, ReachOf, Reaches, Origin
<1> QED BY <1>1, <1>2

\* The parts can be laid out in the first j characters, to the last of them
\* if the part is still under way.
Covers(parts, value, j, under) ==
  LET n == Len(parts)
  IN  /\ j \in 0 .. Len(value)
      /\ \E at : /\ Laid(parts, n, value, at)
                 /\ n > 0 => End(parts, at, n) <= j
                 /\ under => n > 0 /\ End(parts, at, n) = j

\* A layout depends on the parts it places only.
LEMMA LaidSame ==
  ASSUME NEW parts, NEW q, NEW n \in Nat, NEW value, NEW at,
         Laid(parts, n, value, at), \A l \in 1 .. n : q[l] = parts[l]
  PROVE  Laid(q, n, value, at)
<1>1. at \in [1 .. n -> 0 .. Len(value)]
  BY Zenon DEF Laid
<1>2. ASSUME NEW l \in 1 .. n PROVE OccursAt(q[l], value, at[l])
  BY Zenon DEF Laid
<1>3. ASSUME NEW l \in 1 .. n, l > 1
      PROVE  at[l - 1] + Len(q[l - 1]) <= at[l]
  <2>1. l - 1 \in 1 .. n
    BY <1>3
  <2>2. at[l - 1] + Len(parts[l - 1]) <= at[l]
    BY <1>3, Zenon DEF Laid
  <2> QED BY <2>1, <2>2, Zenon
<1> QED BY <1>1, <1>2, <1>3, Zenon DEF Laid

\* A part begins with the character behind the first k.
LEMMA CoversBegin ==
  ASSUME NEW C, NEW value \in Seq(C), NEW parts \in Seq(Seq(C)),
         NEW q \in Seq(Seq(C)), NEW c, NEW k, NEW under,
         Covers(parts, value, k, under),
         k < Len(value), value[k + 1] = c,
         Len(q) = Len(parts) + 1, q[Len(q)] = <<c>>,
         \A l \in 1 .. Len(parts) : q[l] = parts[l]
  PROVE  Covers(q, value, k + 1, TRUE)
<1> PICK n, m : n = Len(parts) /\ m = Len(value)
  OBVIOUS
<1>0. n \in Nat /\ m \in Nat /\ Len(q) = n + 1
  BY LenProperties
<1>1. k \in 0 .. m /\ k < m
  BY DEF Covers
<1>2. PICK at : /\ Laid(parts, n, value, at)
                /\ n > 0 => End(parts, at, n) <= k
  BY Zenon DEF Covers
<1>3. Laid(q, n, value, at)
  <2>1. \A l \in 1 .. n : q[l] = parts[l]
    BY <1>0
  <2> QED BY <1>0, <1>2, <2>1, LaidSame
<1>4. n > 0 => End(q, at, n) <= k
  <2> SUFFICES ASSUME n > 0 PROVE End(q, at, n) <= k
    OBVIOUS
  <2>1. n \in 1 .. Len(parts)
    BY <1>0
  <2>2. q[n] = parts[n]
    BY <2>1
  <2> QED BY <1>2, <2>2, Zenon DEF End
<1>5. OccursAt(q[n + 1], value, k)
  <2> PICK one : one = <<c>>
    OBVIOUS
  <2>1. Len(one) = 1 /\ one[1] = c
    OBVIOUS
  <2>2. OccursAt(one, value, k)
    BY <1>1, <2>1 DEF OccursAt
  <2>3. q[n + 1] = one
    BY <1>0
  <2> QED BY <2>2, <2>3, Zenon
<1> DEFINE b == [l \in 1 .. n + 1 |-> IF l = n + 1 THEN k ELSE at[l]]
<1>6. Laid(q, n + 1, value, b)
  BY <1>0, <1>1, <1>3, <1>4, <1>5, LaidAfter
<1>7. b[n + 1] = k
  BY <1>0
<1> HIDE DEF b
<1>8. End(q, b, n + 1) = k + 1
  <2> PICK one : one = <<c>>
    OBVIOUS
  <2>1. Len(one) = 1 /\ q[n + 1] = one
    BY <1>0
  <2> QED BY <1>7, <2>1, Zenon DEF End
<1>9. k + 1 \in 0 .. Len(value) /\ n + 1 > 0 /\ k + 1 <= k + 1
  BY <1>0, <1>1
<1> QED BY <1>0, <1>6, <1>8, <1>9, Zenon DEF Covers

\* The last part grows by the character behind the first k.
LEMMA CoversGrow ==
  ASSUME NEW C, NEW value \in Seq(C), NEW parts \in Seq(Seq(C)),
         NEW q \in Seq(Seq(C)), NEW c \in C, NEW k,
         Covers(parts, value, k, TRUE),
         k < Len(value), value[k + 1] = c,
         Len(q) = Len(parts), q[Len(q)] = Append(parts[Len(parts)], c),
         \A l \in 1 .. Len(parts) - 1 : q[l] = parts[l]
  PROVE  Covers(q, value, k + 1, TRUE)
<1> PICK n, m : n = Len(parts) /\ m = Len(value)
  OBVIOUS
<1>1. k \in 0 .. m /\ k < m
  BY DEF Covers
<1>2. PICK at : /\ Laid(parts, n, value, at)
                /\ n > 0 /\ End(parts, at, n) = k
  BY Zenon DEF Covers
<1>0. n \in Nat /\ n > 0 /\ m \in Nat /\ Len(q) = n
  BY <1>2, LenProperties
<1> PICK last, grown : last = parts[n] /\ grown = q[n]
  OBVIOUS
<1>3. /\ last \in Seq(C) /\ grown = Append(last, c)
  <2>1. n \in 1 .. Len(parts)
    BY <1>0
  <2> QED BY <1>0, <2>1, ElementOfSeq, Zenon
<1>4. /\ Len(last) \in Nat /\ Len(grown) = Len(last) + 1
      /\ grown[Len(last) + 1] = c
      /\ \A l \in 1 .. Len(last) : grown[l] = last[l]
  BY <1>3
<1>5. at[n] \in 0 .. m /\ at[n] + Len(last) = k
  <2>1. n \in 1 .. n
    BY <1>0
  <2> QED BY <1>2, <2>1 DEF Laid, End
<1>6. OccursAt(grown, value, at[n])
  <2>1. OccursAt(last, value, at[n])
    <3>1. n \in 1 .. n
      BY <1>0
    <3> QED BY <1>2, <3>1, Zenon DEF Laid
  <2>2. at[n] + Len(grown) <= Len(value)
    BY <1>1, <1>4, <1>5
  <2>3. ASSUME NEW l \in 1 .. Len(grown) PROVE value[at[n] + l] = grown[l]
    <3>1. CASE l = Len(last) + 1
      <4>1. at[n] + l = k + 1
        BY <1>1, <1>4, <1>5, <3>1
      <4> QED BY <1>4, <3>1, <4>1
    <3>2. CASE l # Len(last) + 1
      <4>1. l \in 1 .. Len(last)
        BY <1>4, <3>2
      <4>2. value[at[n] + l] = last[l]
        BY <2>1, <4>1, Zenon DEF OccursAt
      <4> QED BY <1>4, <4>1, <4>2
    <3> QED BY <3>1, <3>2
  <2> QED BY <2>2, <2>3, Zenon DEF OccursAt
<1>7. Laid(q, n, value, at)
  <2>1. at \in [1 .. n -> 0 .. Len(value)]
    BY <1>2, Zenon DEF Laid
  <2>2. \A l \in 1 .. n : l # n => q[l] = parts[l]
    BY <1>0
  <2>3. ASSUME NEW l \in 1 .. n PROVE OccursAt(q[l], value, at[l])
    <3>1. CASE l = n
      BY <1>6, <3>1, Zenon
    <3>2. CASE l # n
      <4>1. OccursAt(parts[l], value, at[l])
        BY <1>2, Zenon DEF Laid
      <4> QED BY <2>2, <3>2, <4>1, Zenon
    <3> QED BY <3>1, <3>2
  <2>4. ASSUME NEW l \in 1 .. n, l > 1
        PROVE  at[l - 1] + Len(q[l - 1]) <= at[l]
    <3>1. l - 1 \in 1 .. n /\ l - 1 # n
      BY <1>0, <2>4
    <3>2. q[l - 1] = parts[l - 1]
      BY <2>2, <3>1
    <3>3. at[l - 1] + Len(parts[l - 1]) <= at[l]
      BY <1>2, <2>4, Zenon DEF Laid
    <3> QED BY <3>2, <3>3, Zenon
  <2> QED BY <2>1, <2>3, <2>4, Zenon DEF Laid
<1>8. End(q, at, n) = k + 1
  <2>1. at[n] + Len(grown) = k + 1
    BY <1>0, <1>1, <1>4, <1>5
  <2> QED BY <2>1, Zenon DEF End
<1>9. k + 1 \in 0 .. Len(value) /\ k + 1 <= k + 1
  BY <1>0, <1>1
<1> QED BY <1>0, <1>7, <1>8, <1>9, Zenon DEF Covers

\* What covers a prefix of the value covers a longer one.
LEMMA CoversMore ==
  ASSUME NEW C, NEW value \in Seq(C), NEW parts \in Seq(Seq(C)), NEW k,
         NEW under, Covers(parts, value, k, under),
         NEW j \in 0 .. Len(value), k <= j
  PROVE  Covers(parts, value, j, FALSE)
<1> PICK n, m : n = Len(parts) /\ m = Len(value)
  OBVIOUS
<1>0. n \in Nat /\ m \in Nat
  BY LenProperties
<1>1. PICK at : /\ Laid(parts, n, value, at)
                /\ n > 0 => End(parts, at, n) <= k
  BY Zenon DEF Covers
<1>2. k \in 0 .. m
  BY Zenon DEF Covers
<1>3. ASSUME n > 0 PROVE End(parts, at, n) <= j
  <2> PICK last : last = parts[n]
    OBVIOUS
  <2>1. n \in 1 .. n
    BY <1>0, <1>3
  <2>2. at[n] \in 0 .. m
    BY <1>1, <2>1 DEF Laid
  <2>3. last \in Seq(C)
    BY <2>1, ElementOfSeq, Zenon
  <2>4. Len(last) \in Nat
    BY <2>3, LenProperties
  <2>5. at[n] + Len(last) <= k
    BY <1>1, <1>3, Zenon DEF End
  <2>6. at[n] + Len(last) <= j
    BY <1>0, <1>2, <2>2, <2>4, <2>5
  <2> QED BY <2>6, Zenon DEF End
<1> QED BY <1>1, <1>3, Zenon DEF Covers

\* A part is under way behind the first i characters of the pattern.
Under(pattern, i) == i > 0 /\ pattern[i] # Star

\* Where a shell gets with a prefix of the pattern, its parts are laid out.
LEMMA ShellCovers ==
  ASSUME NEW C, NEW pattern \in Seq(C), NEW value \in Seq(C), NEW f, NEW g,
         Splits(f, pattern, Len(pattern)),
         Reaches(g, pattern, value, Len(pattern))
  PROVE  \A j \in g[Len(pattern)] :
           Covers(f[Len(pattern)], value, j, Under(pattern, Len(pattern)))
<1> PICK n, m : n = Len(pattern) /\ m = Len(value)
  OBVIOUS
<1>0. n \in Nat /\ m \in Nat /\ \A i \in 1 .. n : pattern[i] \in C
  BY ElementOfSeq, LenProperties
<1>p. \A i \in 0 .. n : PartsOf(f[i], pattern, C, i)
  BY PartsTyped
<1> DEFINE Good(i) == \A j \in g[i] : Covers(f[i], value, j, Under(pattern, i))
           S == {i \in Nat : i <= n => Good(i)}
<1>1. 0 \in S
  <2>1. f[0] = << >> /\ g[0] = Origin
    BY <1>0, ReachSteps DEF Splits
  <2> PICK none : none = << >>
    OBVIOUS
  <2> DEFINE at == [k \in 1 .. 0 |-> 0]
  <2>2. Laid(none, 0, value, at)
    BY DEF Laid
  <2>3. Len(none) = 0 /\ 0 \in 0 .. Len(value) /\ ~(0 > 0)
    BY <1>0
  <2> HIDE DEF at
  <2>4. Covers(none, value, 0, FALSE)
    BY <2>2, <2>3, Zenon DEF Covers
  <2>5. Under(pattern, 0) = FALSE
    BY <2>3, Zenon DEF Under
  <2>6. Good(0)
    BY <2>1, <2>4, <2>5, Zenon DEF Origin
  <2> HIDE DEF Good
  <2> QED BY <2>6
<1>2. ASSUME NEW i \in Nat, i \in S PROVE i + 1 \in S
  <2> SUFFICES ASSUME i + 1 <= n PROVE Good(i + 1)
    <3> HIDE DEF Good
    <3> QED OBVIOUS
  <2>p. PICK a, b, c, begins :
          /\ a = f[i] /\ b = f[i + 1] /\ c = pattern[i + 1]
          /\ begins = Begins(pattern, i + 1)
    OBVIOUS
  <2>0. i \in 0 .. n /\ i + 1 \in 0 .. n /\ i + 1 \in 1 .. n /\ i <= n
    BY <1>0
  <2>1. Good(i)
    <3> HIDE DEF Good
    <3> QED BY <1>2, <2>0
  <2>2. b = Split(a, c, begins)
    <3>1. f[i + 1] = Split(f[i], pattern[i + 1], Begins(pattern, i + 1))
      BY <2>0 DEF Splits
    <3> QED BY <2>p, <3>1, Zenon
  <2>3. g[i + 1] = ShellStep(g[i], c, value)
    <3>1. g[i + 1] = ShellStep(g[i], pattern[i + 1], value)
      BY <1>0, ReachSteps
    <3> QED BY <2>p, <3>1, Zenon
  <2>4. /\ a \in Seq(Seq(C)) /\ b \in Seq(Seq(C)) /\ c \in C
        /\ begins \in BOOLEAN
    BY <1>0, <1>p, <2>0, <2>p, Zenon DEF PartsOf, Begins
  <2>5. CASE c = Star
    <3>1. b = a
      BY <2>2, <2>5, Zenon DEF Split
    <3>2. Under(pattern, i + 1) = FALSE
      BY <2>5, <2>p, Zenon DEF Under
    <3>3. ASSUME NEW j \in g[i + 1] PROVE Covers(b, value, j, FALSE)
      <4>1. j \in 0 .. Len(value) /\ \E k \in g[i] : k <= j
        BY <2>3, <2>5, <3>3, Zenon DEF ShellStep
      <4>2. PICK k \in g[i] : k <= j
        BY <4>1, Zenon
      <4>3. Covers(a, value, k, Under(pattern, i))
        BY <2>1, <2>p, <4>2, Zenon
      <4>4. Covers(a, value, j, FALSE)
        BY <2>4, <4>1, <4>2, <4>3, CoversMore
      <4> QED BY <3>1, <4>4, Zenon
    <3> QED BY <2>p, <3>2, <3>3, Zenon
  <2>6. CASE c # Star
    <3>1. Under(pattern, i + 1) = TRUE
      <4>1. i + 1 > 0
        BY <2>0
      <4> QED BY <2>6, <2>p, <4>1, Zenon DEF Under
    <3>2. begins = FALSE => Under(pattern, i) = TRUE
      <4>1. (i + 1) - 1 = i /\ (i + 1 = 1 \/ i > 0)
        OBVIOUS
      <4> QED BY <2>p, <4>1, Zenon DEF Begins, Under
    <3>3. begins \/ Len(a) > 0
      <4>1. PartsOf(f[i], pattern, C, i)
        BY <1>p, <2>0
      <4> QED BY <2>4, <2>p, <3>2, <4>1, Zenon DEF PartsOf, Under
    <3>4. Grown(b, a, c, begins)
      BY <2>2, <2>4, <2>6, <3>3, SplitStep
    <3>5. ASSUME NEW j \in g[i + 1] PROVE Covers(b, value, j, TRUE)
      <4>1. PICK k \in g[i] : k < Len(value) /\ value[k + 1] = c /\ j = k + 1
        BY <2>3, <2>6, <3>5, Zenon DEF ShellStep
      <4>2. Covers(a, value, k, Under(pattern, i))
        BY <2>1, <2>p, <4>1, Zenon
      <4>3. CASE begins
        <5>1. Covers(b, value, k + 1, TRUE)
          <6>1. /\ Len(b) = Len(a) + 1
                /\ b[Len(b)] = <<c>>
                /\ \A l \in 1 .. Len(a) : b[l] = a[l]
            BY <3>4, <4>3, Zenon DEF Grown
          <6> QED BY <2>4, <4>1, <4>2, <6>1, CoversBegin
        <5> QED BY <4>1, <5>1, Zenon
      <4>4. CASE ~begins
        <5>1. Covers(a, value, k, TRUE)
          BY <2>4, <3>2, <4>2, <4>4, Zenon
        <5>2. Covers(b, value, k + 1, TRUE)
          <6>1. /\ Len(b) = Len(a)
                /\ b[Len(b)] = Append(a[Len(a)], c)
                /\ \A l \in 1 .. Len(a) - 1 : b[l] = a[l]
            BY <3>4, <4>4, Zenon DEF Grown
          <6> QED BY <2>4, <4>1, <5>1, <6>1, CoversGrow
        <5> QED BY <4>1, <5>2, Zenon
      <4> QED BY <4>3, <4>4
    <3> QED BY <2>p, <3>1, <3>5, Zenon
  <2> HIDE DEF Good
  <2> QED BY <2>5, <2>6
<1> HIDE DEF S
<1>3. Nat \subseteq S
  BY <1>1, <1>2, NatSetInduction, Zenon
<1>4. Good(n)
  <2> HIDE DEF Good
  <2> QED BY <1>0, <1>3 DEF S
<1> QED BY <1>4

\* LaidOut, with the positions of the layout counted from one.
LEMMA LaidOutMeans ==
  ASSUME NEW C, NEW pattern \in Seq(C), NEW value
  PROVE  LaidOut(pattern, value)
           <=> \E at : Laid(Parts(pattern), Len(Parts(pattern)), value, at)
<1> PICK parts, n : parts = Parts(pattern) /\ n = Len(parts)
  OBVIOUS
<1>1. DOMAIN parts = 1 .. n
  <2>1. Parts(pattern) \in Seq(Seq(C))
    BY PartsSplit
  <2> QED BY <2>1, LenProperties, Zenon
<1>2. LaidOut(pattern, value)
        <=> \E at \in [1 .. n -> 0 .. Len(value)] :
              /\ \A k \in 1 .. n : OccursAt(parts[k], value, at[k])
              /\ \A k \in 1 .. n :
                   k > 1 => at[k - 1] + Len(parts[k - 1]) <= at[k]
  BY <1>1, Zenon DEF LaidOut
<1> QED BY <1>2, Zenon DEF Laid

\* What a shell matches has room for the parts.
LEMMA ShellLays ==
  ASSUME NEW C, NEW pattern \in Seq(C), NEW value \in Seq(C),
         ShellMatch(pattern, value)
  PROVE  LaidOut(pattern, value)
<1> DEFINE f == SplitOf(pattern)
           g == ReachOf(pattern, value)
           n == Len(pattern)
<1>1. Splits(f, pattern, n) /\ Parts(pattern) = f[n]
  BY PartsSplit
<1>2. Reaches(g, pattern, value, n) /\ Len(value) \in g[n]
  BY ShellReaches
<1> HIDE DEF f, g
<1>3. Covers(f[n], value, Len(value), Under(pattern, n))
  BY <1>1, <1>2, ShellCovers
<1>4. \E at : Laid(Parts(pattern), Len(Parts(pattern)), value, at)
  BY <1>1, <1>3, Zenon DEF Covers
<1> QED BY <1>4, LaidOutMeans

\* A shell matches a string with itself.
LEMMA ShellSelf ==
  ASSUME NEW C, NEW pattern \in Seq(C)
  PROVE  ShellMatch(pattern, pattern)
<1>0. PICK n : n = Len(pattern) /\ n \in Nat
  BY LenProperties
<1>1. PICK g : /\ Reaches(g, pattern, pattern, n)
               /\ ShellMatch(pattern, pattern) <=> n \in g[n]
  BY <1>0, ShellReaches
<1> DEFINE S == {i \in Nat : i <= n => i \in g[i]}
<1>2. 0 \in S
  <2>1. g[0] = Origin
    BY <1>0, <1>1, ReachSteps
  <2> QED BY <2>1 DEF Origin
<1>3. ASSUME NEW i \in Nat, i \in S PROVE i + 1 \in S
  <2> SUFFICES ASSUME i + 1 <= n PROVE i + 1 \in g[i + 1]
    OBVIOUS
  <2>0. i < n /\ i + 1 \in 0 .. n /\ i <= i + 1
    BY <1>0
  <2>1. i \in g[i]
    BY <1>0, <1>3, <2>0
  <2>2. g[i + 1] = ShellStep(g[i], pattern[i + 1], pattern)
    BY <1>0, <1>1, ReachSteps
  <2>3. CASE pattern[i + 1] = Star
    <3>1. g[i + 1] = {j \in 0 .. Len(pattern) : \E k \in g[i] : k <= j}
      BY <2>2, <2>3, Zenon DEF ShellStep
    <3> QED BY <1>0, <2>0, <2>1, <3>1, Zenon
  <2>4. CASE pattern[i + 1] # Star
    <3> DEFINE T == {k \in g[i] : /\ k < Len(pattern)
                                  /\ pattern[k + 1] = pattern[i + 1]}
    <3>1. g[i + 1] = {k + 1 : k \in T}
      BY <2>2, <2>4, Zenon DEF ShellStep
    <3>2. i \in T
      BY <1>0, <2>0, <2>1, Zenon
    <3> HIDE DEF T
    <3> QED BY <3>1, <3>2, Zenon
  <2> QED BY <2>3, <2>4
<1> HIDE DEF S
<1>4. Nat \subseteq S
  BY <1>2, <1>3, NatSetInduction, Zenon
<1>5. n \in g[n]
  BY <1>0, <1>4 DEF S
<1> QED BY <1>1, <1>5

\* Without a "*" a shell matches nothing else.
LEMMA ShellEqual ==
  ASSUME NEW C, NEW pattern \in Seq(C), NEW value \in Seq(C),
         ~HasStar(pattern), ShellMatch(pattern, value)
  PROVE  pattern = value
<1>0. PICK n : n = Len(pattern) /\ n \in Nat
  BY LenProperties
<1>1. PICK g : Reaches(g, pattern, value, n) /\ Len(value) \in g[n]
  BY <1>0, ShellReaches
<1>2. DOMAIN pattern = 1 .. n /\ \A i \in 1 .. n : pattern[i] # Star
  <2>1. DOMAIN pattern = 1 .. n
    BY <1>0, LenProperties
  <2> QED BY <2>1, Zenon DEF HasStar
<1> DEFINE Same(i) == \A l \in 1 .. i : value[l] = pattern[l]
           S == {i \in Nat : i <= n => \A j \in g[i] : j = i /\ Same(i)}
<1>3. 0 \in S
  <2>1. g[0] = Origin
    BY <1>0, <1>1, ReachSteps
  <2> QED BY <2>1 DEF Origin
<1>4. ASSUME NEW i \in Nat, i \in S PROVE i + 1 \in S
  <2> SUFFICES ASSUME i + 1 <= n, NEW j \in g[i + 1]
               PROVE  j = i + 1 /\ Same(i + 1)
    OBVIOUS
  <2>1. \A k \in g[i] : k = i /\ Same(i)
    BY <1>0, <1>4
  <2>2. g[i + 1] = ShellStep(g[i], pattern[i + 1], value)
    BY <1>0, <1>1, ReachSteps
  <2>3. pattern[i + 1] # Star
    BY <1>0, <1>2
  <2>4. \E k \in g[i] : k < Len(value) /\ value[k + 1] = pattern[i + 1]
                        /\ j = k + 1
    BY <2>2, <2>3, Zenon DEF ShellStep
  <2>5. j = i + 1 /\ value[i + 1] = pattern[i + 1] /\ Same(i)
    BY <2>1, <2>4, Zenon
  <2>6. Same(i + 1)
    <3> TAKE l \in 1 .. i + 1
    <3>1. CASE l = i + 1
      BY <2>5, <3>1, Zenon
    <3>2. CASE l # i + 1
      <4>1. l \in 1 .. i
        BY <3>2
      <4> QED BY <2>5, <4>1, Zenon
    <3> QED BY <3>1, <3>2
  <2> QED BY <2>5, <2>6, Zenon
<1> HIDE DEF S
<1>5. Nat \subseteq S
  BY <1>3, <1>4, NatSetInduction, Zenon
<1>6. Len(value) = n /\ Same(n)
  BY <1>0, <1>1, <1>5 DEF S
<1>7. \A l \in 1 .. Len(value) : value[l] = pattern[l]
  BY <1>6, Zenon
<1> QED BY <1>0, <1>6, <1>7, SeqEqual, Zenon

\* The pattern "*" has no parts to lay out.
LEMMA StarLays ==
  ASSUME NEW C, NEW pattern \in Seq(C), NEW value, Len(value) \in Nat,
         pattern = <<Star>>
  PROVE  LaidOut(pattern, value)
<1> DEFINE f == SplitOf(pattern)
<1>0. Len(pattern) = 1 /\ pattern[1] = Star
  OBVIOUS
<1>1. Splits(f, pattern, Len(pattern)) /\ Parts(pattern) = f[Len(pattern)]
  BY PartsSplit
<1> HIDE DEF f
<1>2. Splits(f, pattern, 1) /\ Parts(pattern) = f[1]
  BY <1>0, <1>1
<1>3. f[0] = << >> /\ f[1] = Split(f[0], pattern[1], Begins(pattern, 1))
  BY <1>2 DEF Splits
<1>4. Parts(pattern) = << >>
  BY <1>0, <1>2, <1>3, Zenon DEF Split
<1> PICK none : none = << >>
  OBVIOUS
<1> DEFINE at == [k \in 1 .. 0 |-> 0]
<1>5. Laid(none, 0, value, at)
  BY DEF Laid
<1>6. Len(none) = 0
  OBVIOUS
<1>7. \E b : Laid(Parts(pattern), Len(Parts(pattern)), value, b)
  <2> HIDE DEF at
  <2> QED BY <1>4, <1>5, <1>6, Zenon
<1> QED BY <1>7, LaidOutMeans

\* What the code matches, for every pattern with a "*" and every value.
LEMMA MatchExact ==
  ASSUME NEW C, NEW pattern \in Seq(C), NEW value \in Seq(C), HasStar(pattern)
  PROVE  matchPattern(pattern, value) <=> LaidOut(pattern, value)
<1>0. Len(value) \in Nat
  BY LenProperties
<1>1. Search(value, Parts(pattern)) # NotFound <=> LaidOut(pattern, value)
  <2>1. /\ Len(Parts(pattern)) \in Nat
        /\ \A k \in 1 .. Len(Parts(pattern)) : Len(Parts(pattern)[k]) \in Nat
    <3>1. Parts(pattern) \in Seq(Seq(C))
      BY PartsSplit
    <3> QED BY <3>1, PartsSplit, LenProperties, Zenon
  <2>2. Search(value, Parts(pattern)) # NotFound
          <=> \E at : Laid(Parts(pattern), Len(Parts(pattern)), value, at)
    BY <1>0, <2>1, SearchExact
  <2> QED BY <2>2, LaidOutMeans
<1>2. pattern = <<Star>> => LaidOut(pattern, value)
  BY <1>0, StarLays
<1>3. pattern = value => LaidOut(pattern, value)
  BY ShellSelf, ShellLays
<1> QED BY <1>1, <1>2, <1>3, Zenon DEF matchPattern, HasStar

\* Strings of the characters C.
LEMMA StringsTyped ==
  ASSUME NEW C, NEW max \in Nat, NEW s \in Strings(C, max)
  PROVE  s \in Seq(C)
<1>1. PICK n \in 0 .. max : s \in [1 .. n -> C]
  BY Zenon DEF Strings
<1>2. n \in Nat
  OBVIOUS
<1> QED BY <1>1, <1>2, SeqDef, Zenon

\* The inputs are strings over one alphabet.
LEMMA InputsTyped ==
  ASSUME NEW pattern \in PatternInputs, NEW value \in ValueInputs
  PROVE  /\ pattern \in Seq(Letters \cup {Star})
         /\ value \in Seq(Letters \cup {Star})
<1>1. pattern \in Seq(Letters \cup {Star})
  BY StringsAssumption, StringsTyped, Zenon DEF PatternInputs
<1>2. PICK n \in 0 .. MaxValue : value \in [1 .. n -> Letters]
  BY Zenon DEF ValueInputs, Strings
<1>3. n \in Nat
  BY StringsAssumption
<1>4. value \in [1 .. n -> Letters \cup {Star}]
  BY <1>2
<1> QED BY <1>1, <1>3, <1>4, SeqDef, Zenon

(***************************************************************************)
(* Going from left to right without going back misses no match, for every  *)
(* alphabet and patterns and values of any length.                         *)
(***************************************************************************)
THEOREM FirstOccurrence == Spec => []FirstOccurrenceSuffices
<1>1. FirstOccurrenceSuffices
  <2> SUFFICES ASSUME NEW pattern \in PatternInputs, NEW value \in ValueInputs,
                      HasStar(pattern)
               PROVE  matchPattern(pattern, value) <=> LaidOut(pattern, value)
    BY Zenon DEF FirstOccurrenceSuffices
  <2> QED BY InputsTyped, MatchExact
<1> QED BY <1>1, PTL

(***************************************************************************)
(* What a shell matches the code matches too, for every alphabet and       *)
(* patterns and values of any length.                                      *)
(***************************************************************************)
THEOREM ShellMatches == Spec => []ShellMatchesAccepted
<1>1. ShellMatchesAccepted
  <2> SUFFICES ASSUME NEW pattern \in PatternInputs, NEW value \in ValueInputs,
                      ShellMatch(pattern, value)
               PROVE  matchPattern(pattern, value)
    BY Zenon DEF ShellMatchesAccepted
  <2> PICK C : C = Letters \cup {Star}
    OBVIOUS
  <2>1. pattern \in Seq(C) /\ value \in Seq(C)
    BY InputsTyped
  <2>2. CASE HasStar(pattern)
    <3>1. LaidOut(pattern, value)
      BY <2>1, ShellLays
    <3> QED BY <2>1, <2>2, <3>1, MatchExact
  <2>3. CASE ~HasStar(pattern)
    <3>1. pattern = value
      BY <2>1, <2>3, ShellEqual
    <3> QED BY <3>1, Zenon DEF matchPattern
  <2> QED BY <2>2, <2>3
<1> QED BY <1>1, PTL
-----------------------------------------------------------------------------
(***************************************************************************)
(* The lists the sort works on: n policies, and the policies of a list.    *)
(***************************************************************************)
Lists(n) == [1 .. n -> Policies]

Members(s, n) == {s[k] : k \in 1 .. n}

\* The policies at the positions before i rank no lower than any after them.
Ranked(s, i, n) ==
  \A a, b \in 1 .. n : a < i /\ a < b => s[b].Priority <= s[a].Priority

\* The policy at i ranks no lower than those after it, up to j.
Leads(s, i, j) ==
  \A b \in i + 1 .. j : s[b].Priority <= s[i].Priority

\* Priorities are numbers.
LEMMA Priorities ==
  ASSUME NEW n \in Nat, NEW s \in Lists(n), NEW k \in 1 .. n
  PROVE  s[k] \in Policies /\ s[k].Priority \in Int
<1>1. s[k] \in Policies
  BY DEF Lists
<1> QED BY <1>1, AuthorizationAssumption

\* One turn of the inner loop.
LEMMA ExchangeStep ==
  ASSUME NEW n \in Nat, NEW i \in 1 .. n, NEW j \in 1 .. n,
         NEW s \in Lists(n), Ranked(s, i, n), Leads(s, i, j - 1),
         NEW t, t = Exchange(s, i, j)
  PROVE  /\ t \in Lists(n)
         /\ Members(t, n) = Members(s, n)
         /\ Ranked(t, i, n)
         /\ Leads(t, i, j)
<1> DEFINE P(k) == s[k].Priority
<1>1. \A k \in 1 .. n : s[k] \in Policies /\ P(k) \in Int
  BY Priorities
<1>2. CASE j > i /\ P(j) > P(i)
  <2>1. t = [s EXCEPT ![i] = s[j], ![j] = s[i]]
    BY <1>2 DEF Exchange
  <2>2. /\ t \in Lists(n)
        /\ t[i] = s[j] /\ t[j] = s[i]
        /\ \A k \in 1 .. n : k # i /\ k # j => t[k] = s[k]
    BY <1>1, <1>2, <2>1 DEF Lists
  <2>3. Members(t, n) = Members(s, n)
    BY <2>2 DEF Members
  <2>4. Ranked(t, i, n)
    <3> SUFFICES ASSUME NEW a \in 1 .. n, NEW b \in 1 .. n, a < i, a < b
                 PROVE  t[b].Priority <= t[a].Priority
      BY DEF Ranked
    <3>1. t[a] = s[a] /\ a < j
      BY <1>2, <2>2
    <3>2. PICK c \in 1 .. n : t[b] = s[c] /\ a < c
      BY <1>2, <2>2
    <3>3. P(c) <= P(a)
      BY <3>2 DEF Ranked
    <3> QED BY <3>1, <3>2, <3>3
  <2>5. Leads(t, i, j)
    <3> SUFFICES ASSUME NEW b \in i + 1 .. j
                 PROVE  t[b].Priority <= t[i].Priority
      BY DEF Leads
    <3>1. b \in 1 .. n
      OBVIOUS
    <3>2. CASE b = j
      BY <1>1, <1>2, <2>2, <3>2
    <3>3. CASE b # j
      <4>1. t[b] = s[b] /\ b \in i + 1 .. j - 1
        BY <2>2, <3>1, <3>3
      <4>2. P(b) <= P(i)
        BY <4>1 DEF Leads
      <4>3. P(b) \in Int /\ P(i) \in Int /\ P(j) \in Int
        BY <1>1, <3>1
      <4> QED BY <1>2, <2>2, <4>1, <4>2, <4>3
    <3> QED BY <3>2, <3>3
  <2> QED BY <2>2, <2>3, <2>4, <2>5
<1>3. CASE ~(j > i /\ P(j) > P(i))
  <2>1. t = s
    BY <1>3 DEF Exchange
  <2>2. Leads(s, i, j)
    <3> SUFFICES ASSUME NEW b \in i + 1 .. j
                 PROVE  P(b) <= P(i)
      BY DEF Leads
    <3>1. CASE b = j
      BY <1>1, <1>3, <3>1
    <3>2. CASE b # j
      <4>1. b \in i + 1 .. j - 1
        BY <3>2
      <4> QED BY <4>1 DEF Leads
    <3> QED BY <3>1, <3>2
  <2> QED BY <2>1, <2>2
<1> QED BY <1>2, <1>3

\* f is what the inner loop has made of s after each turn.
Sweep(f, s, at, n) ==
  f = [i \in 0 .. n |-> IF i = 0 THEN s ELSE Exchange(f[i - 1], at, i)]

\* The recursion has a solution.
LEMMA SweepExists ==
  \A s, at : \A n \in Nat : \E f : Sweep(f, s, at, n)
<1> TAKE s, at
<1> DEFINE S == {n \in Nat : \E f : Sweep(f, s, at, n)}
<1>1. 0 \in S
  <2> DEFINE f == [i \in 0 .. 0 |-> s]
  <2>1. Sweep(f, s, at, 0)
    BY DEF Sweep
  <2> QED BY <2>1
<1>2. ASSUME NEW n \in Nat, n \in S PROVE n + 1 \in S
  <2>1. PICK f : Sweep(f, s, at, n)
    BY <1>2
  <2> DEFINE g == [i \in 0 .. n + 1 |->
                    IF i = 0 THEN s ELSE Exchange(f[i - 1], at, i)]
  <2>2. \A i \in 0 .. n : g[i] = f[i]
    BY <2>1 DEF Sweep
  <2>3. \A i \in 0 .. n + 1 : i # 0 => i - 1 \in 0 .. n
    OBVIOUS
  <2>4. \A i \in 0 .. n + 1 : i # 0 => g[i - 1] = f[i - 1]
    BY <2>2, <2>3
  <2>5. Sweep(g, s, at, n + 1)
    BY <2>4 DEF Sweep
  <2> QED BY <2>5
<1> HIDE DEF S
<1>3. Nat \subseteq S
  BY <1>1, <1>2, NatSetInduction, Zenon
<1> QED BY <1>3 DEF S

(***************************************************************************)
(* The inner loop: it moves a policy of the highest priority to position   *)
(* i, and neither disturbs the positions before i nor loses a policy.      *)
(***************************************************************************)
LEMMA PassRanks ==
  ASSUME NEW n \in Nat, NEW i \in 1 .. n,
         NEW s \in Lists(n), Len(s) = n, Ranked(s, i, n),
         NEW t, t = Pass(s, i)
  PROVE  /\ t \in Lists(n)
         /\ Members(t, n) = Members(s, n)
         /\ Ranked(t, i + 1, n)
<1> DEFINE f == CHOOSE g : Sweep(g, s, i, n)
<1>1. Sweep(f, s, i, n)
  BY SweepExists
<1>2. t = f[n]
  BY DEF Pass, Sweep
<1> HIDE DEF f
<1> DEFINE Good(k) == /\ f[k] \in Lists(n)
                      /\ Members(f[k], n) = Members(s, n)
                      /\ Ranked(f[k], i, n)
                      /\ Leads(f[k], i, k)
           S == {k \in Nat : k <= n => Good(k)}
<1>3. 0 \in S
  <2>1. f[0] = s
    BY <1>1 DEF Sweep
  <2>2. Leads(s, i, 0)
    BY DEF Leads
  <2> QED BY <2>1, <2>2
<1>4. ASSUME NEW k \in Nat, k \in S PROVE k + 1 \in S
  <2> SUFFICES ASSUME k + 1 <= n PROVE Good(k + 1)
    OBVIOUS
  <2>1. Good(k)
    BY <1>4
  <2>2. f[k + 1] = Exchange(f[k], i, k + 1)
    BY <1>1 DEF Sweep
  <2>3. k + 1 \in 1 .. n /\ (k + 1) - 1 = k
    OBVIOUS
  <2> QED BY <2>1, <2>2, <2>3, ExchangeStep
<1> HIDE DEF S
<1>5. Nat \subseteq S
  BY <1>3, <1>4, NatSetInduction, Zenon
<1>6. Good(n)
  BY <1>5 DEF S
<1> HIDE DEF Good
<1>7. /\ t \in Lists(n)
      /\ Members(t, n) = Members(s, n)
      /\ Ranked(t, i, n)
      /\ Leads(t, i, n)
  BY <1>2, <1>6 DEF Good
<1>8. Ranked(t, i + 1, n)
  <2> SUFFICES ASSUME NEW a \in 1 .. n, NEW b \in 1 .. n, a < i + 1, a < b
               PROVE  t[b].Priority <= t[a].Priority
    BY DEF Ranked
  <2>1. CASE a < i
    BY <1>7, <2>1 DEF Ranked
  <2>2. CASE a = i
    BY <1>7, <2>2 DEF Leads
  <2> QED BY <2>1, <2>2
<1> QED BY <1>7, <1>8

\* f is what the outer loop has made of s after each turn.
Sort(f, s, n) ==
  f = [i \in 0 .. n |-> IF i = 0 THEN s ELSE Pass(f[i - 1], i)]

\* The recursion has a solution.
LEMMA SortExists ==
  \A s : \A n \in Nat : \E f : Sort(f, s, n)
<1> TAKE s
<1> DEFINE S == {n \in Nat : \E f : Sort(f, s, n)}
<1>1. 0 \in S
  <2> DEFINE f == [i \in 0 .. 0 |-> s]
  <2>1. Sort(f, s, 0)
    BY DEF Sort
  <2> QED BY <2>1
<1>2. ASSUME NEW n \in Nat, n \in S PROVE n + 1 \in S
  <2>1. PICK f : Sort(f, s, n)
    BY <1>2
  <2> DEFINE g == [i \in 0 .. n + 1 |->
                    IF i = 0 THEN s ELSE Pass(f[i - 1], i)]
  <2>2. \A i \in 0 .. n : g[i] = f[i]
    BY <2>1 DEF Sort
  <2>3. \A i \in 0 .. n + 1 : i # 0 => i - 1 \in 0 .. n
    OBVIOUS
  <2>4. \A i \in 0 .. n + 1 : i # 0 => g[i - 1] = f[i - 1]
    BY <2>2, <2>3
  <2>5. Sort(g, s, n + 1)
    BY <2>4 DEF Sort
  <2> QED BY <2>5
<1> HIDE DEF S
<1>3. Nat \subseteq S
  BY <1>1, <1>2, NatSetInduction, Zenon
<1> QED BY <1>3 DEF S

\* A list of n policies has length n.
LEMMA ListLength ==
  ASSUME NEW n \in Nat, NEW s \in Lists(n)
  PROVE  Len(s) = n
  BY SeqDef, LenProperties DEF Lists

(***************************************************************************)
(* The sort of Authorize, for every list of policies: the result holds the *)
(* same policies, by descending priority.                                  *)
(***************************************************************************)
LEMMA SortedRanks ==
  ASSUME NEW n \in Nat, NEW s \in Lists(n), NEW t, t = Sorted(s)
  PROVE  /\ t \in Lists(n)
         /\ Members(t, n) = Members(s, n)
         /\ Ranked(t, n + 1, n)
<1>0. Len(s) = n
  BY ListLength
<1> DEFINE f == CHOOSE g : Sort(g, s, n)
<1>1. Sort(f, s, n)
  BY SortExists
<1>2. t = f[n]
  BY <1>0 DEF Sorted, Sort
<1> HIDE DEF f
<1> DEFINE Good(k) == /\ f[k] \in Lists(n)
                      /\ Members(f[k], n) = Members(s, n)
                      /\ Ranked(f[k], k + 1, n)
           S == {k \in Nat : k <= n => Good(k)}
<1>3. 0 \in S
  <2>1. f[0] = s
    BY <1>1 DEF Sort
  <2>2. Ranked(s, 1, n)
    BY DEF Ranked
  <2> QED BY <2>1, <2>2
<1>4. ASSUME NEW k \in Nat, k \in S PROVE k + 1 \in S
  <2> SUFFICES ASSUME k + 1 <= n PROVE Good(k + 1)
    OBVIOUS
  <2>1. Good(k)
    BY <1>4
  <2>2. f[k + 1] = Pass(f[k], k + 1)
    BY <1>1 DEF Sort
  <2>3. k + 1 \in 1 .. n /\ Len(f[k]) = n
    BY <2>1, ListLength
  <2> QED BY <2>1, <2>2, <2>3, PassRanks
<1> HIDE DEF S
<1>5. Nat \subseteq S
  BY <1>3, <1>4, NatSetInduction, Zenon
<1>6. Good(n)
  BY <1>5 DEF S
<1> QED BY <1>2, <1>6

\* No policy that applies and has an effect ranks above p.
NoneOutranks(p, s, n, request) ==
  \A k \in 1 .. n :
    Applies(s[k], request) /\ s[k].Effect \in {"allow", "deny"}
      => s[k].Priority <= p.Priority

\* What may be answered on the policies s.
Justified(d, s, n, request) ==
  \/ /\ d = "no matching policy"
     /\ \A k \in 1 .. n : Applies(s[k], request) => s[k].Effect = "other"
  \/ \E k \in 1 .. n :
       /\ Applies(s[k], request)
       /\ s[k].Effect = d /\ d \in {"allow", "deny"}
       /\ NoneOutranks(s[k], s, n, request)

(***************************************************************************)
(* What the loop over the sorted policies returns: the effect of a policy  *)
(* that applies and that no other with an effect outranks.                 *)
(***************************************************************************)
LEMMA Decides ==
  ASSUME NEW n \in Nat, NEW s \in Lists(n), NEW request
  PROVE  Justified(Decision(Sorted(s), request), s, n, request)
<1> PICK t : t = Sorted(s)
  OBVIOUS
<1>1. /\ t \in Lists(n)
      /\ Members(t, n) = Members(s, n)
      /\ Ranked(t, n + 1, n)
  BY SortedRanks
<1> DEFINE hits == {k \in DOMAIN t : /\ Applies(t[k], request)
                                    /\ t[k].Effect \in {"allow", "deny"}}
           first == CHOOSE k \in hits : \A l \in hits : k <= l
           d == Decision(t, request)
<1>2. d = IF hits = {} THEN "no matching policy" ELSE t[first].Effect
  BY Zenon DEF Decision
<1>0. DOMAIN t = 1 .. n
  BY <1>1 DEF Lists
<1>3. /\ \A k \in 1 .. n : \E l \in 1 .. n : s[k] = t[l]
      /\ \A k \in 1 .. n : \E l \in 1 .. n : t[k] = s[l]
  <2>1. /\ \A k \in 1 .. n : s[k] \in Members(s, n)
        /\ \A k \in 1 .. n : t[k] \in Members(t, n)
    BY DEF Members
  <2>2. /\ \A k \in 1 .. n : s[k] \in Members(t, n)
        /\ \A k \in 1 .. n : t[k] \in Members(s, n)
    BY <1>1, <2>1
  <2> QED BY <2>2 DEF Members
<1>4. \A k \in 1 .. n : t[k] \in Policies /\ t[k].Priority \in Int
  BY <1>1, Priorities
<1> HIDE DEF d
<1>5. CASE hits = {}
  <2>1. d = "no matching policy"
    BY <1>2, <1>5
  <2>2. ASSUME NEW k \in 1 .. n, Applies(s[k], request)
        PROVE  s[k].Effect = "other"
    <3>1. PICK l \in 1 .. n : s[k] = t[l]
      BY <1>3
    <3>2. t[l].Effect \in Effects
      BY <1>4, AuthorizationAssumption
    <3>3. Applies(t[l], request)
      BY <2>2, <3>1
    <3> QED BY <1>0, <1>5, <3>1, <3>2, <3>3 DEF Effects
  <2> QED BY <2>1, <2>2 DEF Justified, d
<1>6. CASE hits # {}
  <2>1. first \in hits /\ \A l \in hits : first <= l
    <3>1. hits \in SUBSET Nat
      BY <1>0
    <3> HIDE DEF hits
    <3>2. \E x \in hits : \A y \in hits : x <= y
      BY <1>6, <3>1, Least
    <3> QED BY <3>2, Zenon
  <2>2. d = t[first].Effect
    BY <1>2, <1>6
  <2> HIDE DEF first
  <2>3. /\ first \in 1 .. n /\ Applies(t[first], request)
        /\ t[first].Effect \in {"allow", "deny"}
    BY <1>0, <2>1
  <2>4. PICK m \in 1 .. n : t[first] = s[m]
    BY <1>3, <2>3
  <2>5. NoneOutranks(t[first], s, n, request)
    <3> SUFFICES ASSUME NEW k \in 1 .. n, Applies(s[k], request),
                        s[k].Effect \in {"allow", "deny"}
                 PROVE  s[k].Priority <= t[first].Priority
      BY DEF NoneOutranks
    <3>1. PICK l \in 1 .. n : s[k] = t[l]
      BY <1>3
    <3>2. l \in hits
      BY <1>0, <3>1
    <3>3. first <= l
      BY <2>1, <3>2
    <3>4. t[l].Priority <= t[first].Priority
      <4>1. CASE first = l
        BY <1>4, <4>1
      <4>2. CASE first # l
        BY <1>1, <2>3, <3>3, <4>2 DEF Ranked
      <4> QED BY <4>1, <4>2
    <3> QED BY <3>1, <3>4
  <2> HIDE DEF hits
  <2>6. /\ Applies(s[m], request)
        /\ s[m].Effect = d /\ d \in {"allow", "deny"}
        /\ NoneOutranks(s[m], s, n, request)
    BY <2>2, <2>3, <2>4, <2>5, Zenon
  <2> QED BY <2>6, Zenon DEF Justified, d
<1> QED BY <1>5, <1>6

-----------------------------------------------------------------------------
\* The call is made for someone.
Identified(c) == RequestOf[c].identity # NoIdentity

ListsTyped ==
  /\ policies \in Seq(Policies)
  /\ known \in [Calls -> Seq(Policies)]
  /\ copied \in [Calls -> Seq(Policies)]
  /\ pc \in [Calls -> {"new", "called", "copied", "done"}]
  /\ DOMAIN answer = Calls

\* Every policy of s is one of t.
Within(s, t) == \A k \in 1 .. Len(s) : \E l \in 1 .. Len(t) : s[k] = t[l]

CopyComplete ==
  \A c \in Calls :
    /\ Within(known[c], policies)
    /\ Within(copied[c], policies)
    /\ pc[c] \in {"copied", "done"} /\ Identified(c)
         => Within(known[c], copied[c])

AnswerDecided ==
  \A c \in Calls :
    pc[c] = "done" /\ Identified(c) =>
      answer[c] = Decision(Sorted(copied[c]), RequestOf[c])

(***************************************************************************)
(* The inductive invariant: policies are only added, so a call's copy has  *)
(* every policy there was when the call was made, and the answer is the    *)
(* decision on that copy.                                                  *)
(***************************************************************************)
IInv == ListsTyped /\ CopyComplete /\ AnswerDecided

\* Appending a policy loses none.
LEMMA WithinGrows ==
  ASSUME NEW s \in Seq(Policies), NEW t \in Seq(Policies), Within(s, t),
         NEW p \in Policies
  PROVE  Within(s, Append(t, p))
<1>1. /\ Len(Append(t, p)) = Len(t) + 1
      /\ \A k \in 1 .. Len(t) : Append(t, p)[k] = t[k]
      /\ Len(t) \in Nat
  OBVIOUS
<1> QED BY <1>1 DEF Within

\* No call has been made and no policy added.
LEMMA IInvInit == Init => IInv
<1> SUFFICES ASSUME Init PROVE IInv
  OBVIOUS
<1>1. << >> \in Seq(Policies)
  BY EmptySeq, Zenon
<1>2. ListsTyped
  BY <1>1 DEF Init, ListsTyped
<1>3. CopyComplete
  BY DEF Init, CopyComplete, Within
<1>4. AnswerDecided
  BY DEF Init, AnswerDecided
<1> QED BY <1>2, <1>3, <1>4 DEF IInv

\* Policies grow under AddPolicy; the other steps are of one call.
LEMMA IInvNext == IInv /\ [Next]_vars => IInv'
<1> SUFFICES ASSUME IInv, [Next]_vars PROVE IInv'
  OBVIOUS
<1>1. ListsTyped /\ CopyComplete /\ AnswerDecided
  BY DEF IInv
<1>2. ASSUME NEW p \in Policies, AddPolicy(p) PROVE IInv'
  <2>1. /\ policies' = Append(policies, p)
        /\ pc' = pc /\ known' = known /\ copied' = copied /\ answer' = answer
    BY <1>2 DEF AddPolicy
  <2>2. ListsTyped'
    BY <1>1, <2>1 DEF ListsTyped
  <2>3. CopyComplete'
    <3> SUFFICES ASSUME NEW c \in Calls
                 PROVE  /\ Within(known[c], policies')
                        /\ Within(copied[c], policies')
      BY <1>1, <2>1 DEF CopyComplete
    <3>1. /\ known[c] \in Seq(Policies) /\ copied[c] \in Seq(Policies)
          /\ policies \in Seq(Policies)
      BY <1>1 DEF ListsTyped
    <3>2. Within(known[c], policies) /\ Within(copied[c], policies)
      BY <1>1 DEF CopyComplete
    <3> QED BY <2>1, <3>1, <3>2, WithinGrows
  <2>4. AnswerDecided'
    BY <1>1, <2>1 DEF AnswerDecided
  <2> QED BY <2>2, <2>3, <2>4 DEF IInv
<1>3. ASSUME NEW c \in Calls, Call(c) PROVE IInv'
  <2>1. /\ pc[c] = "new"
        /\ known' = [known EXCEPT ![c] = policies]
        /\ policies' = policies /\ copied' = copied
        /\ \/ /\ ~Identified(c)
              /\ pc' = [pc EXCEPT ![c] = "done"]
              /\ answer' = [answer EXCEPT ![c] = "no identity"]
           \/ /\ pc' = [pc EXCEPT ![c] = "called"]
              /\ answer' = answer
    BY <1>3 DEF Call, Identified
  <2>2. ListsTyped'
    BY <1>1, <2>1 DEF ListsTyped
  <2>3. CopyComplete'
    <3>1. Within(policies, policies)
      BY <1>1 DEF ListsTyped, Within
    <3> QED BY <1>1, <2>1, <3>1 DEF CopyComplete, ListsTyped
  <2>4. AnswerDecided'
    BY <1>1, <2>1 DEF AnswerDecided, ListsTyped
  <2> QED BY <2>2, <2>3, <2>4 DEF IInv
<1>4. ASSUME NEW c \in Calls, Copy(c) PROVE IInv'
  <2>1. /\ pc[c] = "called"
        /\ copied' = [copied EXCEPT ![c] = policies]
        /\ pc' = [pc EXCEPT ![c] = "copied"]
        /\ policies' = policies /\ known' = known /\ answer' = answer
    BY <1>4 DEF Copy
  <2>2. ListsTyped'
    BY <1>1, <2>1 DEF ListsTyped
  <2>3. CopyComplete'
    <3>1. Within(policies, policies)
      BY <1>1 DEF ListsTyped, Within
    <3> QED BY <1>1, <2>1, <3>1 DEF CopyComplete, ListsTyped
  <2>4. AnswerDecided'
    BY <1>1, <2>1 DEF AnswerDecided, ListsTyped
  <2> QED BY <2>2, <2>3, <2>4 DEF IInv
<1>5. ASSUME NEW c \in Calls, Evaluate(c) PROVE IInv'
  <2>1. PICK d : d = Decision(Sorted(copied[c]), RequestOf[c])
    OBVIOUS
  <2>2. /\ pc[c] = "copied"
        /\ answer' = [answer EXCEPT ![c] = d]
        /\ pc' = [pc EXCEPT ![c] = "done"]
        /\ policies' = policies /\ known' = known /\ copied' = copied
    BY <1>5, <2>1, Zenon DEF Evaluate
  <2>3. ListsTyped'
    BY <1>1, <2>2 DEF ListsTyped
  <2>4. CopyComplete'
    BY <1>1, <2>2 DEF CopyComplete, ListsTyped
  <2>5. AnswerDecided'
    <3> SUFFICES ASSUME NEW x \in Calls, pc'[x] = "done", Identified(x)
                 PROVE  answer'[x] = Decision(Sorted(copied[x]), RequestOf[x])
      BY <2>2, Zenon DEF AnswerDecided, Identified
    <3>1. CASE x = c
      BY <1>1, <2>1, <2>2, <3>1 DEF ListsTyped
    <3>2. CASE x # c
      BY <1>1, <2>2, <3>2 DEF ListsTyped, AnswerDecided
    <3> QED BY <3>1, <3>2
  <2> QED BY <2>3, <2>4, <2>5 DEF IInv
<1>6. CASE UNCHANGED vars
  BY <1>1, <1>6 DEF IInv, ListsTyped, CopyComplete, AnswerDecided, Within, vars
<1> QED BY <1>2, <1>3, <1>4, <1>5, <1>6 DEF Next

\* The decision on the copy is Justified; every policy known when the call was
\* made is in the copy, and every policy of the copy has been added.
LEMMA IInvSuffices == IInv => HigherWins
<1> SUFFICES ASSUME IInv, NEW c \in Calls, pc[c] = "done", Identified(c)
             PROVE
      LET before == {p \in ToSet(known[c]) : Applies(p, RequestOf[c])}
          now == {p \in ToSet(policies) : Applies(p, RequestOf[c])}
          opposite(e) == IF e = "allow" THEN "deny" ELSE "allow"
      IN  \/ /\ answer[c] = "no matching policy"
             /\ \A p \in before : p.Effect = "other"
          \/ \E p \in now :
               /\ p.Effect = answer[c]
               /\ \A q \in before :
                    q.Effect = opposite(p.Effect) => q.Priority <= p.Priority
  BY Zenon DEF HigherWins, Identified
<1> PICK s, n, request : s = copied[c] /\ n = Len(s) /\ request = RequestOf[c]
  OBVIOUS
<1>1. /\ s \in Seq(Policies) /\ known[c] \in Seq(Policies)
      /\ policies \in Seq(Policies)
  BY DEF IInv, ListsTyped
<1>2. Within(known[c], s) /\ Within(s, policies)
  <2>1. CopyComplete /\ pc[c] \in {"copied", "done"}
    BY Zenon DEF IInv
  <2> QED BY <2>1, Zenon DEF CopyComplete
<1>3. n \in Nat /\ s \in Lists(n)
  <2> HIDE DEF Lists
  <2>1. Len(s) \in Nat /\ s \in [1 .. Len(s) -> Policies]
    BY <1>1, LenProperties
  <2> QED BY <2>1, Zenon DEF Lists
<1>4. Justified(answer[c], s, n, request)
  <2>1. answer[c] = Decision(Sorted(s), request)
    BY DEF IInv, AnswerDecided
  <2>2. Justified(Decision(Sorted(s), request), s, n, request)
    BY <1>3, Decides
  <2> QED BY <2>1, <2>2, Zenon
<1>5. /\ \A p \in ToSet(known[c]) : \E k \in 1 .. n : p = s[k]
      /\ \A k \in 1 .. n : s[k] \in ToSet(policies)
  <2>1. PICK a, b : a = known[c] /\ b = policies
    OBVIOUS
  <2>2. /\ a \in Seq(Policies) /\ b \in Seq(Policies)
        /\ Within(a, s) /\ Within(s, b)
    BY <1>1, <1>2, <2>1
  <2>3. DOMAIN a = 1 .. Len(a) /\ DOMAIN b = 1 .. Len(b)
    BY <2>2
  <2>4. \A p \in ToSet(a) : \E k \in 1 .. n : p = s[k]
    <3> TAKE p \in ToSet(a)
    <3>1. PICK k \in 1 .. Len(a) : p = a[k]
      BY <2>3, Zenon DEF ToSet
    <3> QED BY <2>2, <3>1, Zenon DEF Within
  <2>5. \A k \in 1 .. n : s[k] \in ToSet(b)
    <3> TAKE k \in 1 .. n
    <3>1. PICK l \in 1 .. Len(b) : s[k] = b[l]
      BY <2>2, Zenon DEF Within
    <3> QED BY <2>3, <3>1, Zenon DEF ToSet
  <2> QED BY <2>1, <2>4, <2>5, Zenon
<1>6. CASE /\ answer[c] = "no matching policy"
           /\ \A k \in 1 .. n : Applies(s[k], request) => s[k].Effect = "other"
  <2>1. ASSUME NEW p \in ToSet(known[c]), Applies(p, RequestOf[c])
        PROVE  p.Effect = "other"
    <3>1. PICK k \in 1 .. n : p = s[k]
      BY <1>5, Zenon
    <3>2. Applies(s[k], request)
      BY <2>1, <3>1, Zenon
    <3> QED BY <1>6, <3>1, <3>2, Zenon
  <2> QED BY <1>6, <2>1, Zenon
<1>7. ASSUME NEW k \in 1 .. n,
             Applies(s[k], request),
             s[k].Effect = answer[c], answer[c] \in {"allow", "deny"},
             NoneOutranks(s[k], s, n, request)
      PROVE  \E p \in ToSet(policies) :
               /\ Applies(p, request)
               /\ p.Effect = answer[c]
               /\ \A q \in ToSet(known[c]) :
                    Applies(q, request)
                    /\ q.Effect =
                         (IF p.Effect = "allow" THEN "deny" ELSE "allow")
                      => q.Priority <= p.Priority
  <2>1. s[k] \in ToSet(policies)
    BY <1>5
  <2>2. ASSUME NEW q \in ToSet(known[c]), Applies(q, request),
               q.Effect = (IF s[k].Effect = "allow" THEN "deny" ELSE "allow")
        PROVE  q.Priority <= s[k].Priority
    <3>1. PICK l \in 1 .. n : q = s[l]
      BY <1>5
    <3>2. q.Effect \in {"allow", "deny"}
      BY <2>2, Zenon
    <3> QED BY <1>7, <2>2, <3>1, <3>2, Zenon DEF NoneOutranks
  <2> QED BY <1>7, <2>1, <2>2, Zenon
<1> QED BY <1>4, <1>6, <1>7, Zenon DEF Justified

(***************************************************************************)
(* The invariant that the theorem below rests on.                          *)
(***************************************************************************)
THEOREM Invariance == Spec => []IInv
  BY IInvInit, IInvNext, PTL DEF Spec

(***************************************************************************)
(* Higher wins: for any policies, added in any order and at any time, an   *)
(* answer of Authorize rests on a policy that applies and that none of the *)
(* opposite effect outranks, and there is one if any was known.            *)
(***************************************************************************)
THEOREM HighestPriorityDecides == Spec => []HigherWins
  BY Invariance, IInvSuffices, PTL
==============================================================================
