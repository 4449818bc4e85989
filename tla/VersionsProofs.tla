--------------------------- MODULE VersionsProofs ---------------------------
(***************************************************************************)
(* VersionResolver, for any versions, any constraints and any order in     *)
(* which they come.  First splitVersion and compareVersions: releases are  *)
(* compared by major, minor and patch, and every version equals itself.    *)
(* Then Resolve: whichever way sort.Slice leaves the versions that compare *)
(* equal, the first that satisfies the constraint is one that none of the  *)
(* others is above.  Last, that they can be put in order at all.           *)
(***************************************************************************)
EXTENDS Versions, SequenceTheorems, WellFoundedInduction, TLAPS

-----------------------------------------------------------------------------
\* Induction on the natural numbers, for a set.
LEMMA NatSetInduction ==
  ASSUME NEW S, 0 \in S, \A n \in Nat : n \in S => n + 1 \in S
  PROVE  Nat \subseteq S
<1> DEFINE T == Nat \ S
<1>1. SUFFICES ASSUME T # {} PROVE FALSE
  OBVIOUS
<1>2. PICK x \in T : \A y \in T : ~(<<y, x>> \in OpToRel(<, Nat))
  <2>1. T \subseteq Nat
    OBVIOUS
  <2> QED BY <1>1, <2>1, NatLessThanWellFounded, WFMin, Zenon
<1>3. x \in Nat /\ x # 0 /\ x \notin S
  OBVIOUS
<1>4. x - 1 \in Nat /\ x - 1 < x
  BY <1>3
<1>5. x - 1 \notin T
  <2> SUFFICES ASSUME x - 1 \in T PROVE FALSE
    OBVIOUS
  <2>1. <<x - 1, x>> \notin OpToRel(<, Nat)
    BY <1>2
  <2>2. <<x - 1, x>> \in OpToRel(<, Nat)
    BY <1>3, <1>4, Zenon DEF OpToRel
  <2> QED BY <2>1, <2>2
<1> QED
  BY <1>3, <1>4, <1>5

\* A set of natural numbers that is not empty has a least element.
LEMMA Least ==
  ASSUME NEW T \in SUBSET Nat, T # {}
  PROVE  \E x \in T : \A y \in T : x <= y
<1>1. PICK x \in T : \A y \in T : ~(<<y, x>> \in OpToRel(<, Nat))
  BY NatLessThanWellFounded, WFMin, Zenon
<1>2. ASSUME NEW y \in T PROVE ~(y < x)
  <2> SUFFICES ASSUME y < x PROVE FALSE
    OBVIOUS
  <2>1. <<y, x>> \notin OpToRel(<, Nat)
    BY <1>1
  <2>2. y \in Nat /\ x \in Nat
    OBVIOUS
  <2>3. <<y, x>> \in OpToRel(<, Nat)
    BY <2>2, Zenon DEF OpToRel
  <2> QED BY <2>1, <2>3
<1>3. \A y \in T : x <= y
  BY <1>2
<1> QED BY <1>3

-----------------------------------------------------------------------------
Tokens == Parts \cup Separators

\* f is the list of the parts after each token.
Splits(f, v, n) ==
  f = [i \in 0 .. n |-> IF i = 0 THEN <<>> ELSE Token(f[i - 1], v[i])]

\* The recursion of splitVersion has a solution.
LEMMA SplitsExists ==
  \A v : \A n \in Nat : \E f : Splits(f, v, n)
<1> TAKE v
<1> DEFINE S == {n \in Nat : \E f : Splits(f, v, n)}
<1>1. 0 \in S
  <2> DEFINE f == [i \in 0 .. 0 |-> <<>>]
  <2>1. Splits(f, v, 0)
    BY DEF Splits
  <2> QED BY <2>1
<1>2. ASSUME NEW n \in Nat, n \in S PROVE n + 1 \in S
  <2>1. PICK f : Splits(f, v, n)
    BY <1>2
  <2> DEFINE g == [i \in 0 .. n + 1 |->
                     IF i = 0 THEN <<>> ELSE Token(f[i - 1], v[i])]
  <2>2. \A i \in 0 .. n : g[i] = f[i]
    BY <2>1 DEF Splits
  <2>3. \A i \in 0 .. n + 1 : i # 0 => i - 1 \in 0 .. n
    OBVIOUS
  <2>4. \A i \in 0 .. n + 1 : i # 0 => g[i - 1] = f[i - 1]
    BY <2>2, <2>3
  <2>5. Splits(g, v, n + 1)
    BY <2>4 DEF Splits
  <2> QED BY <2>5
<1> HIDE DEF S
<1>3. Nat \subseteq S
  BY <1>1, <1>2, NatSetInduction, Zenon
<1> QED BY <1>3 DEF S

\* The list of the parts after each token of a version.
PartsAfter(v) == CHOOSE f : Splits(f, v, Len(v))

\* How the parts come about, token by token.
LEMMA SplitSteps ==
  ASSUME NEW v, Len(v) \in Nat
  PROVE  /\ splitVersion(v) = PartsAfter(v)[Len(v)]
         /\ PartsAfter(v)[0] = <<>>
         /\ \A n \in 0 .. Len(v) :
              n + 1 <= Len(v) =>
                PartsAfter(v)[n + 1] = Token(PartsAfter(v)[n], v[n + 1])
<1> PICK f : f = PartsAfter(v)
  OBVIOUS
<1>1. splitVersion(v) = f[Len(v)]
  BY Zenon DEF splitVersion, PartsAfter, Splits
<1>2. Splits(f, v, Len(v))
  BY SplitsExists, Zenon DEF PartsAfter
<1>3. f[0] = <<>>
  BY <1>2 DEF Splits
<1>4. ASSUME NEW n \in 0 .. Len(v), n + 1 <= Len(v)
      PROVE  f[n + 1] = Token(f[n], v[n + 1])
  <2>1. n + 1 \in 0 .. Len(v) /\ n + 1 # 0 /\ (n + 1) - 1 = n
    BY <1>4
  <2> QED BY <1>2, <2>1 DEF Splits
<1> QED BY <1>1, <1>3, <1>4

\* A version is split into parts.
LEMMA SplitTyped ==
  ASSUME NEW v \in Seq(Tokens)
  PROVE  splitVersion(v) \in Seq(Parts)
<1> PICK f : f = PartsAfter(v)
  OBVIOUS
<1>0. Len(v) \in Nat
  BY LenProperties, Zenon
<1>1. /\ splitVersion(v) = f[Len(v)] /\ f[0] = <<>>
      /\ \A n \in 0 .. Len(v) :
           n + 1 <= Len(v) => f[n + 1] = Token(f[n], v[n + 1])
  BY <1>0, SplitSteps, Zenon
<1> DEFINE S == {n \in Nat : n <= Len(v) => f[n] \in Seq(Parts)}
<1>2. 0 \in S
  <2>1. f[0] \in Seq(Parts)
    BY <1>1, EmptySeq, Zenon
  <2> QED BY <2>1
<1>3. ASSUME NEW n \in Nat, n \in S PROVE n + 1 \in S
  <2> SUFFICES ASSUME n + 1 <= Len(v) PROVE f[n + 1] \in Seq(Parts)
    OBVIOUS
  <2>1. n \in 0 .. Len(v) /\ n + 1 \in 1 .. Len(v)
    BY <1>0
  <2>2. f[n] \in Seq(Parts)
    BY <1>3, <2>1
  <2>3. v[n + 1] \in Tokens
    BY <2>1, ElementOfSeq
  <2>4. f[n + 1] = Token(f[n], v[n + 1])
    BY <1>1, <2>1
  <2>5. CASE v[n + 1] \in Separators
    BY <2>2, <2>4, <2>5, Zenon DEF Token
  <2>6. CASE v[n + 1] \notin Separators
    <3>1. v[n + 1] \in Parts
      BY <2>3, <2>6, Zenon DEF Tokens
    <3>2. f[n + 1] = Append(f[n], v[n + 1])
      BY <2>4, <2>6, Zenon DEF Token
    <3> QED BY <2>2, <3>1, <3>2, AppendProperties, Zenon
  <2> QED BY <2>5, <2>6
<1> HIDE DEF S
<1>4. Nat \subseteq S
  BY <1>2, <1>3, NatSetInduction, Zenon
<1>5. f[Len(v)] \in Seq(Parts)
  BY <1>0, <1>4 DEF S
<1> QED BY <1>1, <1>5, Zenon

\* A list of two parts, with one more.
LEMMA ThirdPart ==
  ASSUME NEW s \in Seq(Parts), Len(s) = 2, NEW p \in Parts
  PROVE  /\ Append(s, p) \in Seq(Parts) /\ Len(Append(s, p)) = 3
         /\ Append(s, p)[1] = s[1] /\ Append(s, p)[2] = s[2]
         /\ Append(s, p)[3] = p
<1>1. Append(s, p) \in Seq(Parts) /\ Len(Append(s, p)) = Len(s) + 1
  BY AppendProperties, Zenon
<1>2. \A i \in 1 .. Len(s) : Append(s, p)[i] = s[i]
  BY AppendProperties
<1>3. Append(s, p)[Len(s) + 1] = p
  BY AppendProperties, Zenon
<1> QED BY <1>1, <1>2, <1>3

\* A release is split into its three numbers.
LEMMA SplitRelease ==
  ASSUME NEW v \in Seq(Tokens), IsRelease(v)
  PROVE  /\ splitVersion(v) \in Seq(Parts) /\ Len(splitVersion(v)) = 3
         /\ splitVersion(v)[1] = v[1] /\ splitVersion(v)[2] = v[3]
         /\ splitVersion(v)[3] = v[5]
<1> PICK f : f = PartsAfter(v)
  OBVIOUS
<1>0. Len(v) = 5
  BY DEF IsRelease
<1>1. /\ splitVersion(v) = f[5] /\ f[0] = <<>>
      /\ f[1] = Token(f[0], v[1]) /\ f[2] = Token(f[1], v[2])
      /\ f[3] = Token(f[2], v[3]) /\ f[4] = Token(f[3], v[4])
      /\ f[5] = Token(f[4], v[5])
  <2>1. /\ splitVersion(v) = f[Len(v)] /\ f[0] = <<>>
        /\ \A n \in 0 .. Len(v) :
             n + 1 <= Len(v) => f[n + 1] = Token(f[n], v[n + 1])
    <3>1. Len(v) \in Nat
      BY <1>0
    <3> QED BY <3>1, SplitSteps, Zenon
  <2>2. \A n \in 0 .. 5 : n + 1 <= 5 => f[n + 1] = Token(f[n], v[n + 1])
    BY <1>0, <2>1, Zenon
  <2>3. /\ f[0 + 1] = Token(f[0], v[0 + 1]) /\ f[1 + 1] = Token(f[1], v[1 + 1])
        /\ f[2 + 1] = Token(f[2], v[2 + 1]) /\ f[3 + 1] = Token(f[3], v[3 + 1])
        /\ f[4 + 1] = Token(f[4], v[4 + 1])
    BY <2>2
  <2> QED BY <1>0, <2>1, <2>3
<1>2. /\ v[1] \notin Separators /\ v[3] \notin Separators
      /\ v[5] \notin Separators
      /\ v[2] \in Separators /\ v[4] \in Separators
  <2>1. {v[1], v[3], v[5]} \subseteq Parts
    BY VersionsAssumption, Zenon DEF IsRelease
  <2>2. v[2] = "." /\ v[4] = "."
    BY Zenon DEF IsRelease
  <2>3. "." \in Separators
    BY Zenon DEF Separators
  <2> QED BY <2>1, <2>2, <2>3, VersionsAssumption, Zenon
<1>3. /\ f[1] = Append(<<>>, v[1]) /\ f[2] = f[1]
      /\ f[3] = Append(f[2], v[3]) /\ f[4] = f[3]
      /\ f[5] = Append(f[4], v[5])
  BY <1>1, <1>2, Zenon DEF Token
<1>4. v[1] \in Parts /\ v[3] \in Parts /\ v[5] \in Parts
  BY VersionsAssumption, Zenon DEF IsRelease
<1>5. /\ f[1] \in Seq(Parts) /\ Len(f[1]) = 1 /\ f[1][1] = v[1]
  <2>1. <<>> \in Seq(Parts) /\ Len(<<>>) = 0
    BY EmptySeq, Zenon
  <2>2. Append(<<>>, v[1]) = <<v[1]>>
    OBVIOUS
  <2> QED BY <1>3, <1>4, <2>1, <2>2, AppendProperties
<1>6. /\ f[3] \in Seq(Parts) /\ Len(f[3]) = 2
      /\ f[3][1] = v[1] /\ f[3][2] = v[3]
  <2>1. f[3] = Append(f[1], v[3])
    BY <1>3, Zenon
  <2> QED BY <1>4, <1>5, <2>1, AppendProperties
<1>7. /\ f[5] \in Seq(Parts) /\ Len(f[5]) = 3
      /\ f[5][1] = v[1] /\ f[5][2] = v[3] /\ f[5][3] = v[5]
  <2>1. f[5] = Append(f[3], v[5])
    BY <1>3, Zenon
  <2>2. v[5] \in Parts /\ f[3] \in Seq(Parts) /\ Len(f[3]) = 2
    BY <1>4, <1>6
  <2>3. /\ f[5] \in Seq(Parts) /\ Len(f[5]) = 3
        /\ f[5][1] = f[3][1] /\ f[5][2] = f[3][2] /\ f[5][3] = v[5]
    BY <2>1, <2>2, ThirdPart
  <2> QED BY <1>6, <2>3, Zenon
<1> QED BY <1>1, <1>7, Zenon
-----------------------------------------------------------------------------
\* The place of a part in the order of strings.
LEMMA RankTyped ==
  ASSUME NEW p \in Parts
  PROVE  TextRank(p) \in Nat /\ TextOrder[TextRank(p)] = p
<1>1. \E k \in DOMAIN TextOrder : TextOrder[k] = p
  BY Zenon DEF Parts, ToSet
<1>2. TextRank(p) \in DOMAIN TextOrder /\ TextOrder[TextRank(p)] = p
  BY <1>1, Zenon DEF TextRank
<1>3. DOMAIN TextOrder = 1 .. Len(TextOrder) /\ Len(TextOrder) \in Nat
  BY VersionsAssumption, LenProperties, Zenon
<1> QED BY <1>2, <1>3

\* Parts compare as integers do: a part equals itself, and the order of the
\* two only changes the sign.
LEMMA PartsCompare ==
  ASSUME NEW p \in Parts, NEW q \in Parts
  PROVE  /\ compareParts(p, q) \in Int
         /\ compareParts(p, p) = 0
         /\ compareParts(q, p) = 0 - compareParts(p, q)
<1>1. TextRank(p) \in Nat /\ TextRank(q) \in Nat
  BY RankTyped
<1>2. p \in DOMAIN Number => Number[p] \in Nat
  BY VersionsAssumption
<1>3. q \in DOMAIN Number => Number[q] \in Nat
  BY VersionsAssumption
<1>4. /\ compareParts(p, q) =
           IF p \in DOMAIN Number /\ q \in DOMAIN Number
           THEN Number[p] - Number[q] ELSE TextRank(p) - TextRank(q)
      /\ compareParts(q, p) =
           IF p \in DOMAIN Number /\ q \in DOMAIN Number
           THEN Number[q] - Number[p] ELSE TextRank(q) - TextRank(p)
      /\ compareParts(p, p) =
           IF p \in DOMAIN Number THEN Number[p] - Number[p]
           ELSE TextRank(p) - TextRank(p)
  BY DEF compareParts
<1> QED BY <1>1, <1>2, <1>3, <1>4

\* Where two lists of parts differ.
Differ(ap, bp) ==
  {i \in DOMAIN ap \cap DOMAIN bp : compareParts(ap[i], bp[i]) # 0}

\* Position i is the first at which the lists differ.
FirstDiffers(ap, bp, i) ==
  i \in Differ(ap, bp) /\ \A j \in Differ(ap, bp) : i <= j

\* compareVersions, of the lists of parts.
CompareLists(ap, bp) ==
  LET first == CHOOSE i \in Differ(ap, bp) : \A j \in Differ(ap, bp) : i <= j
  IN  IF Differ(ap, bp) = {} THEN Len(ap) - Len(bp)
      ELSE compareParts(ap[first], bp[first])

\* x is what the comparison comes to: the first difference decides, else the
\* length.
Decided(ap, bp, x) ==
  \/ Differ(ap, bp) = {} /\ x = Len(ap) - Len(bp)
  \/ \E i \in 1 .. Len(ap) :
       /\ i \in 1 .. Len(bp) /\ FirstDiffers(ap, bp, i)
       /\ x = compareParts(ap[i], bp[i])

\* The loop of compareVersions.
LEMMA ComparedBy ==
  ASSUME NEW a \in Seq(Tokens), NEW b \in Seq(Tokens)
  PROVE  Decided(splitVersion(a), splitVersion(b), compareVersions(a, b))
<1> PICK ap : ap = splitVersion(a)
  OBVIOUS
<1> PICK bp : bp = splitVersion(b)
  OBVIOUS
<1>0. SUFFICES Decided(ap, bp, compareVersions(a, b))
  BY Zenon
<1> DEFINE D == Differ(ap, bp)
           first == CHOOSE i \in D : \A j \in D : i <= j
<1>1. ap \in Seq(Parts) /\ bp \in Seq(Parts)
  BY SplitTyped
<1>2. compareVersions(a, b) = IF D = {} THEN Len(ap) - Len(bp)
                              ELSE compareParts(ap[first], bp[first])
  <2>1. compareVersions(a, b) = CompareLists(splitVersion(a), splitVersion(b))
    BY Zenon DEF compareVersions, CompareLists, Differ
  <2>2. compareVersions(a, b) = CompareLists(ap, bp)
    BY <2>1, Zenon
  <2> QED BY <2>2, Zenon DEF CompareLists
<1>3. CASE D = {}
  BY <1>2, <1>3, Zenon DEF Decided
<1>4. CASE D # {}
  <2>1. DOMAIN ap = 1 .. Len(ap) /\ DOMAIN bp = 1 .. Len(bp)
    BY <1>1, LenProperties, Zenon
  <2>2. D \subseteq 1 .. Len(ap) /\ D \subseteq 1 .. Len(bp)
    BY <2>1, Zenon DEF Differ
  <2>3. D \in SUBSET Nat
    BY <2>2
  <2> HIDE DEF D
  <2>4. \E i \in D : \A j \in D : i <= j
    BY <1>4, <2>3, Least
  <2>5. first \in D /\ \A j \in D : first <= j
    BY <2>4, Zenon
  <2> HIDE DEF first
  <2>6. FirstDiffers(ap, bp, first)
    BY <2>5, Zenon DEF FirstDiffers, D
  <2>7. compareVersions(a, b) = compareParts(ap[first], bp[first])
    BY <1>2, <1>4, Zenon
  <2> QED BY <2>2, <2>5, <2>6, <2>7, Zenon DEF Decided
<1> QED BY <1>3, <1>4

\* A version equals itself.
LEMMA ComparesEqual ==
  ASSUME NEW v \in Seq(Tokens)
  PROVE  compareVersions(v, v) = 0
<1> PICK p : p = splitVersion(v)
  OBVIOUS
<1>1. /\ p \in Seq(Parts)
      /\ \/ compareVersions(v, v) = Len(p) - Len(p)
         \/ \E i \in 1 .. Len(p) :
              FirstDiffers(p, p, i)
  <2>1. Decided(p, p, compareVersions(v, v))
    BY ComparedBy, Zenon
  <2> QED BY <2>1, SplitTyped, Zenon DEF Decided
<1>2. ASSUME NEW i \in 1 .. Len(p) PROVE ~FirstDiffers(p, p, i)
  <2>1. p[i] \in Parts
    BY <1>1, ElementOfSeq
  <2>2. compareParts(p[i], p[i]) = 0
    BY <2>1, PartsCompare, Zenon
  <2> QED BY <2>2, Zenon DEF FirstDiffers, Differ
<1>3. Len(p) \in Nat
  BY <1>1, LenProperties, Zenon
<1> QED BY <1>1, <1>2, <1>3

\* A release is below a later one.
LEMMA LaterIsAbove ==
  ASSUME NEW v \in Seq(Tokens), NEW w \in Seq(Tokens),
         IsRelease(v), IsRelease(w), LaterRelease(v, w)
  PROVE  ~(compareVersions(w, v) >= 0)
<1> PICK p : p = splitVersion(w)
  OBVIOUS
<1> PICK q : q = splitVersion(v)
  OBVIOUS
<1>1. /\ p \in Seq(Parts) /\ Len(p) = 3
      /\ p[1] = w[1] /\ p[2] = w[3] /\ p[3] = w[5]
  BY SplitRelease, Zenon
<1>2. /\ q \in Seq(Parts) /\ Len(q) = 3
      /\ q[1] = v[1] /\ q[2] = v[3] /\ q[3] = v[5]
  BY SplitRelease, Zenon
<1>3. /\ {p[1], p[2], p[3]} \subseteq DOMAIN Number
      /\ {q[1], q[2], q[3]} \subseteq DOMAIN Number
  BY <1>1, <1>2, Zenon DEF IsRelease
<1>4. \A i \in 1 .. 3 :
        /\ Number[p[i]] \in Nat /\ Number[q[i]] \in Nat
        /\ compareParts(p[i], q[i]) = Number[p[i]] - Number[q[i]]
  <2> TAKE i \in 1 .. 3
  <2>1. p[i] \in DOMAIN Number /\ q[i] \in DOMAIN Number
    BY <1>3
  <2>2. Number[p[i]] \in Nat /\ Number[q[i]] \in Nat
    BY <2>1, VersionsAssumption, Zenon
  <2>3. compareParts(p[i], q[i]) = Number[p[i]] - Number[q[i]]
    BY <2>1 DEF compareParts
  <2> QED BY <2>2, <2>3
<1>5. PICK k \in 1 .. 3 :
        /\ Number[q[k]] > Number[p[k]]
        /\ \A j \in 1 .. 3 : j < k => Number[q[j]] = Number[p[j]]
  <2>1. \/ Number[q[1]] > Number[p[1]]
        \/ Number[q[2]] > Number[p[2]] /\ Number[q[1]] = Number[p[1]]
        \/ /\ Number[q[3]] > Number[p[3]]
           /\ Number[q[1]] = Number[p[1]] /\ Number[q[2]] = Number[p[2]]
    BY <1>1, <1>2 DEF LaterRelease
  <2>2. CASE Number[q[1]] > Number[p[1]]
    <3> WITNESS 1 \in 1 .. 3
    <3> QED BY <2>2
  <2>3. CASE Number[q[2]] > Number[p[2]] /\ Number[q[1]] = Number[p[1]]
    <3> WITNESS 2 \in 1 .. 3
    <3>1. \A j \in 1 .. 3 : j < 2 => j = 1
      OBVIOUS
    <3> QED BY <2>3, <3>1
  <2>4. CASE /\ Number[q[3]] > Number[p[3]]
             /\ Number[q[1]] = Number[p[1]] /\ Number[q[2]] = Number[p[2]]
    <3> WITNESS 3 \in 1 .. 3
    <3>1. \A j \in 1 .. 3 : j < 3 => j = 1 \/ j = 2
      OBVIOUS
    <3> QED BY <2>4, <3>1
  <2> QED BY <2>1, <2>2, <2>3, <2>4
<1>6. k \in Differ(p, q)
  <2>1. DOMAIN p = 1 .. 3 /\ DOMAIN q = 1 .. 3
    BY <1>1, <1>2, LenProperties
  <2>2. compareParts(p[k], q[k]) # 0
    BY <1>4, <1>5
  <2> QED BY <2>1, <2>2, Zenon DEF Differ
<1>7. \/ Differ(p, q) = {}
      \/ \E i \in 1 .. Len(p) :
           /\ FirstDiffers(p, q, i)
           /\ compareVersions(w, v) = compareParts(p[i], q[i])
  <2>1. Decided(p, q, compareVersions(w, v))
    BY ComparedBy, Zenon
  <2> QED BY <2>1, Zenon DEF Decided
<1>8. PICK i \in 1 .. 3 :
        /\ FirstDiffers(p, q, i)
        /\ compareVersions(w, v) = compareParts(p[i], q[i])
  BY <1>1, <1>6, <1>7
<1>9. i <= k /\ compareParts(p[i], q[i]) # 0
  BY <1>6, <1>8, Zenon DEF FirstDiffers, Differ
<1>10. i = k
  <2> SUFFICES ASSUME i # k PROVE FALSE
    OBVIOUS
  <2>1. i < k
    BY <1>9
  <2>2. Number[q[i]] = Number[p[i]]
    BY <1>5, <2>1
  <2> QED BY <1>4, <1>9, <2>2
<1>11. compareVersions(w, v) = Number[p[k]] - Number[q[k]]
  BY <1>4, <1>8, <1>10
<1> QED BY <1>4, <1>5, <1>11
-----------------------------------------------------------------------------
\* The order of two versions only changes the sign.
LEMMA ComparesOpposite ==
  ASSUME NEW a \in Seq(Tokens), NEW b \in Seq(Tokens)
  PROVE  /\ compareVersions(a, b) \in Int
         /\ compareVersions(b, a) = 0 - compareVersions(a, b)
<1> PICK p : p = splitVersion(a)
  OBVIOUS
<1> PICK q : q = splitVersion(b)
  OBVIOUS
<1>1. /\ p \in Seq(Parts) /\ q \in Seq(Parts)
      /\ \/ Differ(p, q) = {} /\ compareVersions(a, b) = Len(p) - Len(q)
         \/ \E i \in 1 .. Len(p) :
              /\ i \in 1 .. Len(q) /\ FirstDiffers(p, q, i)
              /\ compareVersions(a, b) = compareParts(p[i], q[i])
  <2>1. Decided(p, q, compareVersions(a, b))
    BY ComparedBy, Zenon
  <2> QED BY <2>1, SplitTyped, Zenon DEF Decided
<1>2. \/ Differ(q, p) = {} /\ compareVersions(b, a) = Len(q) - Len(p)
      \/ \E i \in 1 .. Len(q) :
           /\ i \in 1 .. Len(p) /\ FirstDiffers(q, p, i)
           /\ compareVersions(b, a) = compareParts(q[i], p[i])
  <2>1. Decided(q, p, compareVersions(b, a))
    BY ComparedBy, Zenon
  <2> QED BY <2>1, Zenon DEF Decided
<1>3. /\ DOMAIN p = 1 .. Len(p) /\ DOMAIN q = 1 .. Len(q)
      /\ Len(p) \in Nat /\ Len(q) \in Nat
  BY <1>1, LenProperties, Zenon
<1>4. ASSUME NEW i \in 1 .. Len(p), i \in 1 .. Len(q)
      PROVE  /\ compareParts(p[i], q[i]) \in Int
             /\ compareParts(q[i], p[i]) = 0 - compareParts(p[i], q[i])
  <2>1. p[i] \in Parts /\ q[i] \in Parts
    BY <1>1, <1>4, ElementOfSeq
  <2> QED BY <2>1, PartsCompare, Zenon
<1>5. \A i : i \in Differ(p, q) <=> i \in Differ(q, p)
  <2>1. \A i : i \in Differ(p, q) <=> /\ i \in 1 .. Len(p) /\ i \in 1 .. Len(q)
                                      /\ compareParts(p[i], q[i]) # 0
    BY <1>3, Zenon DEF Differ
  <2>2. \A i : i \in Differ(q, p) <=> /\ i \in 1 .. Len(p) /\ i \in 1 .. Len(q)
                                      /\ compareParts(q[i], p[i]) # 0
    BY <1>3, Zenon DEF Differ
  <2>3. \A i \in 1 .. Len(p) : i \in 1 .. Len(q) =>
          (compareParts(p[i], q[i]) # 0 <=> compareParts(q[i], p[i]) # 0)
    BY <1>4
  <2> QED BY <2>1, <2>2, <2>3, Zenon
<1>6. CASE Differ(p, q) = {}
  <2>1. Differ(q, p) = {}
    BY <1>5, <1>6, Zenon
  <2>2. /\ compareVersions(a, b) = Len(p) - Len(q)
        /\ compareVersions(b, a) = Len(q) - Len(p)
    BY <1>1, <1>2, <1>6, <2>1, Zenon DEF FirstDiffers
  <2>3. Len(p) \in Nat /\ Len(q) \in Nat
    BY <1>3
  <2> QED BY <2>2, <2>3
<1>7. CASE Differ(p, q) # {}
  <2>1. PICK i \in 1 .. Len(p) :
          /\ i \in 1 .. Len(q) /\ FirstDiffers(p, q, i)
          /\ compareVersions(a, b) = compareParts(p[i], q[i])
    BY <1>1, <1>7, Zenon
  <2>2. PICK j \in 1 .. Len(q) :
          /\ j \in 1 .. Len(p) /\ FirstDiffers(q, p, j)
          /\ compareVersions(b, a) = compareParts(q[j], p[j])
    BY <1>2, <1>5, <1>7, Zenon
  <2>3. i <= j /\ j <= i
    BY <1>5, <2>1, <2>2, Zenon DEF FirstDiffers
  <2>4. i = j
    BY <1>3, <2>3
  <2>5. /\ compareParts(p[i], q[i]) \in Int
        /\ compareParts(q[i], p[i]) = 0 - compareParts(p[i], q[i])
    BY <1>4, <2>1
  <2> QED BY <2>1, <2>2, <2>4, <2>5, Zenon
<1> QED BY <1>6, <1>7

\* When the parts with a number are together in the order of strings,
\* comparing as numbers and comparing as strings are one order.
LEMMA PartsTransitive ==
  ASSUME NumbersTogether,
         NEW p \in Parts, NEW q \in Parts, NEW r \in Parts,
         compareParts(p, q) >= 0, compareParts(q, r) >= 0
  PROVE  /\ compareParts(p, r) >= 0
         /\ compareParts(p, q) > 0 => compareParts(p, r) > 0
         /\ compareParts(q, r) > 0 => compareParts(p, r) > 0
<1>1. /\ TextRank(p) \in Nat /\ TextRank(q) \in Nat /\ TextRank(r) \in Nat
  BY RankTyped
<1>2. /\ p \in DOMAIN Number => Number[p] \in Nat
      /\ q \in DOMAIN Number => Number[q] \in Nat
      /\ r \in DOMAIN Number => Number[r] \in Nat
  BY VersionsAssumption
<1>3. \A x, y : compareParts(x, y) =
           IF x \in DOMAIN Number /\ y \in DOMAIN Number
           THEN Number[x] - Number[y] ELSE TextRank(x) - TextRank(y)
  BY DEF compareParts
<1>4. \A x \in {p, q, r} : x \notin DOMAIN Number =>
        \/ \A y \in {p, q, r} :
             y \in DOMAIN Number => TextRank(x) > TextRank(y)
        \/ \A y \in {p, q, r} :
             y \in DOMAIN Number => TextRank(x) < TextRank(y)
  <2> TAKE x \in {p, q, r}
  <2> HAVE x \notin DOMAIN Number
  <2>1. x \in Parts \ DOMAIN Number
    OBVIOUS
  <2> QED BY <2>1, Zenon DEF NumbersTogether
<1>5. CASE q \in DOMAIN Number
  BY <1>1, <1>2, <1>3, <1>4, <1>5
<1>6. CASE q \notin DOMAIN Number
  BY <1>1, <1>2, <1>3, <1>4, <1>6
<1> QED BY <1>5, <1>6

\* At position i the first list is above the second, and equal before it.
Exceeds(p, q, i) ==
  /\ i \in 1 .. Len(p) /\ i \in 1 .. Len(q)
  /\ compareParts(p[i], q[i]) > 0
  /\ \A j \in 1 .. Len(p) : j < i => compareParts(p[j], q[j]) = 0

\* The first list goes on where the second ends.
GoesOn(p, q) ==
  /\ Len(q) <= Len(p)
  /\ \A j \in 1 .. Len(q) : compareParts(p[j], q[j]) = 0

\* When a version is not below another.
LEMMA NotBelow ==
  ASSUME NEW a \in Seq(Tokens), NEW b \in Seq(Tokens),
         NEW p, p = splitVersion(a), NEW q, q = splitVersion(b)
  PROVE  compareVersions(a, b) >= 0 <=>
           (\E i \in 1 .. Len(p) : Exceeds(p, q, i)) \/ GoesOn(p, q)
<1>1. /\ p \in Seq(Parts) /\ q \in Seq(Parts)
      /\ \/ Differ(p, q) = {} /\ compareVersions(a, b) = Len(p) - Len(q)
         \/ \E i \in 1 .. Len(p) :
              /\ i \in 1 .. Len(q) /\ FirstDiffers(p, q, i)
              /\ compareVersions(a, b) = compareParts(p[i], q[i])
  <2>1. Decided(p, q, compareVersions(a, b))
    BY ComparedBy, Zenon
  <2> QED BY <2>1, SplitTyped, Zenon DEF Decided
<1>2. /\ DOMAIN p = 1 .. Len(p) /\ DOMAIN q = 1 .. Len(q)
      /\ Len(p) \in Nat /\ Len(q) \in Nat
  BY <1>1, LenProperties, Zenon
<1>3. \A i : i \in Differ(p, q) <=> /\ i \in 1 .. Len(p) /\ i \in 1 .. Len(q)
                                    /\ compareParts(p[i], q[i]) # 0
  BY <1>2, Zenon DEF Differ
<1>4. ASSUME NEW i \in 1 .. Len(p), i \in 1 .. Len(q)
      PROVE  compareParts(p[i], q[i]) \in Int
  <2>1. p[i] \in Parts /\ q[i] \in Parts
    BY <1>1, <1>4, ElementOfSeq
  <2> QED BY <2>1, PartsCompare, Zenon
<1>5. CASE Differ(p, q) = {}
  <2>1. compareVersions(a, b) = Len(p) - Len(q)
    BY <1>1, <1>5, Zenon DEF FirstDiffers
  <2>2. \A i \in 1 .. Len(p) : i \in 1 .. Len(q) =>
          compareParts(p[i], q[i]) = 0
    BY <1>3, <1>5, Zenon
  <2>3. ~\E i \in 1 .. Len(p) : Exceeds(p, q, i)
    BY <2>2 DEF Exceeds
  <2>4. Len(q) <= Len(p) => \A j \in 1 .. Len(q) : j \in 1 .. Len(p)
    BY <1>2
  <2>5. GoesOn(p, q) <=> Len(q) <= Len(p)
    BY <2>2, <2>4, Zenon DEF GoesOn
  <2> QED BY <1>2, <2>1, <2>3, <2>5
<1>6. CASE Differ(p, q) # {}
  <2>1. PICK i \in 1 .. Len(p) :
          /\ i \in 1 .. Len(q) /\ FirstDiffers(p, q, i)
          /\ compareVersions(a, b) = compareParts(p[i], q[i])
    BY <1>1, <1>6, Zenon
  <2>2. compareParts(p[i], q[i]) \in Int /\ compareParts(p[i], q[i]) # 0
    BY <1>3, <1>4, <2>1, Zenon DEF FirstDiffers
  <2>3. \A j \in 1 .. Len(p) : j < i => compareParts(p[j], q[j]) = 0
    <3> SUFFICES ASSUME NEW j \in 1 .. Len(p), j < i,
                        compareParts(p[j], q[j]) # 0
                 PROVE  FALSE
      OBVIOUS
    <3>1. j \in 1 .. Len(q)
      BY <1>2, <2>1
    <3>2. i <= j
      BY <1>3, <2>1, <3>1, Zenon DEF FirstDiffers
    <3> QED BY <3>2
  <2>4. ~GoesOn(p, q)
    BY <2>1, <2>2 DEF GoesOn
  <2>5. ASSUME NEW k \in 1 .. Len(p), Exceeds(p, q, k) PROVE k = i
    <3>1. /\ k \in 1 .. Len(q) /\ compareParts(p[k], q[k]) > 0
          /\ \A j \in 1 .. Len(p) : j < k => compareParts(p[j], q[j]) = 0
      BY <2>5, Zenon DEF Exceeds
    <3>2. ~(k < i)
      BY <2>3, <3>1
    <3>3. ~(i < k)
      BY <2>2, <3>1
    <3> QED BY <3>2, <3>3
  <2>6. compareVersions(a, b) >= 0 <=> compareParts(p[i], q[i]) > 0
    BY <2>1, <2>2
  <2>7. compareParts(p[i], q[i]) > 0 => Exceeds(p, q, i)
    BY <2>1, <2>3, Zenon DEF Exceeds
  <2>8. Exceeds(p, q, i) => compareParts(p[i], q[i]) > 0
    BY Zenon DEF Exceeds
  <2> QED BY <2>4, <2>5, <2>6, <2>7, <2>8, Zenon
<1> QED BY <1>5, <1>6

(***************************************************************************)
(* compareVersions orders the versions: of two, one is not below the       *)
(* other, and what is not below the middle one of three is not below the   *)
(* last.  This is what sort.Slice needs to leave them in order.            *)
(***************************************************************************)
LEMMA CompareTransitive ==
  ASSUME NumbersTogether,
         NEW a \in Seq(Tokens), NEW b \in Seq(Tokens), NEW c \in Seq(Tokens),
         compareVersions(a, b) >= 0, compareVersions(b, c) >= 0
  PROVE  compareVersions(a, c) >= 0
<1> PICK p : p = splitVersion(a)
  OBVIOUS
<1> PICK q : q = splitVersion(b)
  OBVIOUS
<1> PICK r : r = splitVersion(c)
  OBVIOUS
<1>0. p \in Seq(Parts) /\ q \in Seq(Parts) /\ r \in Seq(Parts)
  BY SplitTyped
<1>1. Len(p) \in Nat /\ Len(q) \in Nat /\ Len(r) \in Nat
  BY <1>0, LenProperties, Zenon
<1>2. (\E i \in 1 .. Len(p) : Exceeds(p, q, i)) \/ GoesOn(p, q)
  BY NotBelow
<1>3. (\E i \in 1 .. Len(q) : Exceeds(q, r, i)) \/ GoesOn(q, r)
  BY NotBelow
<1>4. SUFFICES (\E i \in 1 .. Len(p) : Exceeds(p, r, i)) \/ GoesOn(p, r)
  BY NotBelow
<1>t. /\ \A i \in 1 .. Len(p) : i \in 1 .. Len(q) =>
             compareParts(p[i], q[i]) \in Int
      /\ \A i \in 1 .. Len(q) : i \in 1 .. Len(r) =>
             compareParts(q[i], r[i]) \in Int
  <2>1. /\ \A i \in 1 .. Len(p) : p[i] \in Parts
        /\ \A i \in 1 .. Len(q) : q[i] \in Parts
        /\ \A i \in 1 .. Len(r) : r[i] \in Parts
    BY <1>0, ElementOfSeq
  <2> QED BY <2>1, PartsCompare, Zenon
<1>5. ASSUME NEW i \in 1 .. Len(p), i \in 1 .. Len(q), i \in 1 .. Len(r),
             compareParts(p[i], q[i]) >= 0, compareParts(q[i], r[i]) >= 0
      PROVE  /\ compareParts(p[i], r[i]) >= 0
             /\ compareParts(p[i], q[i]) > 0 => compareParts(p[i], r[i]) > 0
             /\ compareParts(q[i], r[i]) > 0 => compareParts(p[i], r[i]) > 0
  <2>1. p[i] \in Parts /\ q[i] \in Parts /\ r[i] \in Parts
    BY <1>0, <1>5, ElementOfSeq
  <2> QED BY <1>5, <2>1, PartsTransitive, Zenon
<1>6. ASSUME NEW i \in 1 .. Len(p), i \in 1 .. Len(q), i \in 1 .. Len(r),
             compareParts(p[i], q[i]) = 0, compareParts(q[i], r[i]) = 0
      PROVE  compareParts(p[i], r[i]) = 0
  <2>1. p[i] \in Parts /\ q[i] \in Parts /\ r[i] \in Parts
    BY <1>0, <1>6, ElementOfSeq
  <2>2. compareParts(p[i], r[i]) >= 0
    BY <1>5, <1>6
  <2>3. /\ compareParts(q[i], p[i]) = 0 - compareParts(p[i], q[i])
        /\ compareParts(r[i], q[i]) = 0 - compareParts(q[i], r[i])
        /\ compareParts(r[i], p[i]) = 0 - compareParts(p[i], r[i])
        /\ compareParts(p[i], r[i]) \in Int
    BY <2>1, PartsCompare, Zenon
  <2>4. compareParts(r[i], p[i]) >= 0
    <3>1. compareParts(r[i], q[i]) >= 0 /\ compareParts(q[i], p[i]) >= 0
      BY <1>6, <2>3
    <3> QED BY <2>1, <3>1, PartsTransitive, Zenon
  <2> QED BY <2>2, <2>3, <2>4
<1>7. ASSUME NEW i \in 1 .. Len(p), NEW j \in 1 .. Len(q),
             Exceeds(p, q, i), Exceeds(q, r, j)
      PROVE  \E k \in 1 .. Len(p) : Exceeds(p, r, k)
  <2>1. /\ i \in 1 .. Len(q) /\ compareParts(p[i], q[i]) > 0
        /\ \A l \in 1 .. Len(p) : l < i => compareParts(p[l], q[l]) = 0
        /\ j \in 1 .. Len(r) /\ compareParts(q[j], r[j]) > 0
        /\ \A l \in 1 .. Len(q) : l < j => compareParts(q[l], r[l]) = 0
    BY <1>7, Zenon DEF Exceeds
  <2> DEFINE k == IF i <= j THEN i ELSE j
  <2>2. /\ k \in 1 .. Len(p) /\ k \in 1 .. Len(q) /\ k \in 1 .. Len(r)
        /\ k <= i /\ k <= j
    BY <1>1, <2>1
  <2>3. /\ compareParts(p[k], q[k]) >= 0 /\ compareParts(q[k], r[k]) >= 0
        /\ compareParts(p[k], q[k]) > 0 \/ compareParts(q[k], r[k]) > 0
    <3>0. /\ compareParts(p[k], q[k]) \in Int
          /\ compareParts(q[k], r[k]) \in Int
      BY <1>t, <2>2, Zenon
    <3>1. CASE i < j
      <4>1. k = i
        BY <3>1
      <4>2. compareParts(p[k], q[k]) > 0 /\ compareParts(q[k], r[k]) = 0
        BY <2>1, <3>1, <4>1, Zenon
      <4> QED BY <3>0, <4>2
    <3>2. CASE i = j
      <4>1. k = i /\ k = j
        BY <3>2
      <4>2. compareParts(p[k], q[k]) > 0 /\ compareParts(q[k], r[k]) > 0
        BY <2>1, <4>1, Zenon
      <4> QED BY <3>0, <4>2
    <3>3. CASE j < i
      <4>1. k = j
        BY <3>3
      <4>2. compareParts(p[k], q[k]) = 0 /\ compareParts(q[k], r[k]) > 0
        BY <2>1, <2>2, <3>3, <4>1, Zenon
      <4> QED BY <3>0, <4>2
    <3> QED BY <3>1, <3>2, <3>3
  <2> HIDE DEF k
  <2>4. compareParts(p[k], r[k]) > 0
    BY <1>5, <2>2, <2>3
  <2>5. \A l \in 1 .. Len(p) : l < k => compareParts(p[l], r[l]) = 0
    <3> SUFFICES ASSUME NEW l \in 1 .. Len(p), l < k
                 PROVE  compareParts(p[l], r[l]) = 0
      OBVIOUS
    <3>1. l \in 1 .. Len(q) /\ l \in 1 .. Len(r) /\ l < i /\ l < j
      BY <1>1, <2>2
    <3> QED BY <1>6, <2>1, <3>1
  <2> QED BY <2>2, <2>4, <2>5, Zenon DEF Exceeds
<1>8. ASSUME NEW i \in 1 .. Len(p), Exceeds(p, q, i), GoesOn(q, r)
      PROVE  (\E k \in 1 .. Len(p) : Exceeds(p, r, k)) \/ GoesOn(p, r)
  <2>1. /\ i \in 1 .. Len(q) /\ compareParts(p[i], q[i]) > 0
        /\ \A l \in 1 .. Len(p) : l < i => compareParts(p[l], q[l]) = 0
        /\ Len(r) <= Len(q)
        /\ \A l \in 1 .. Len(r) : compareParts(q[l], r[l]) = 0
    BY <1>8, Zenon DEF Exceeds, GoesOn
  <2>2. ASSUME NEW l \in 1 .. Len(p), l < i, l <= Len(r)
        PROVE  compareParts(p[l], r[l]) = 0
    <3>1. l \in 1 .. Len(q) /\ l \in 1 .. Len(r)
      BY <1>1, <2>1, <2>2
    <3> QED BY <1>6, <2>1, <2>2, <3>1
  <2>3. CASE i <= Len(r)
    <3>1. i \in 1 .. Len(r)
      BY <1>1, <2>3
    <3>2. compareParts(p[i], r[i]) > 0
      <4>1. /\ compareParts(p[i], q[i]) \in Int
            /\ compareParts(q[i], r[i]) = 0
        BY <1>t, <2>1, <3>1, Zenon
      <4>2. compareParts(p[i], q[i]) >= 0 /\ compareParts(q[i], r[i]) >= 0
        BY <2>1, <4>1
      <4> QED BY <1>5, <2>1, <3>1, <4>2, Zenon
    <3>3. \A l \in 1 .. Len(p) : l < i => compareParts(p[l], r[l]) = 0
      BY <1>1, <2>2, <2>3
    <3> QED BY <3>1, <3>2, <3>3, Zenon DEF Exceeds
  <2>4. CASE Len(r) < i
    <3>1. Len(r) <= Len(p)
      BY <1>1, <2>4
    <3>2. \A l \in 1 .. Len(r) : compareParts(p[l], r[l]) = 0
      BY <1>1, <2>2, <2>4
    <3> QED BY <3>1, <3>2, Zenon DEF GoesOn
  <2> QED BY <1>1, <2>3, <2>4
<1>9. ASSUME GoesOn(p, q), NEW j \in 1 .. Len(q), Exceeds(q, r, j)
      PROVE  \E k \in 1 .. Len(p) : Exceeds(p, r, k)
  <2>1. /\ Len(q) <= Len(p)
        /\ \A l \in 1 .. Len(q) : compareParts(p[l], q[l]) = 0
        /\ j \in 1 .. Len(r) /\ compareParts(q[j], r[j]) > 0
        /\ \A l \in 1 .. Len(q) : l < j => compareParts(q[l], r[l]) = 0
    BY <1>9, Zenon DEF Exceeds, GoesOn
  <2>2. j \in 1 .. Len(p)
    BY <1>1, <2>1
  <2>3. compareParts(p[j], r[j]) > 0
    <3>1. compareParts(q[j], r[j]) \in Int /\ compareParts(p[j], q[j]) = 0
      BY <1>t, <2>1, Zenon
    <3>2. compareParts(p[j], q[j]) >= 0 /\ compareParts(q[j], r[j]) >= 0
      BY <2>1, <3>1
    <3> QED BY <1>5, <2>1, <2>2, <3>2, Zenon
  <2>4. \A l \in 1 .. Len(p) : l < j => compareParts(p[l], r[l]) = 0
    <3> SUFFICES ASSUME NEW l \in 1 .. Len(p), l < j
                 PROVE  compareParts(p[l], r[l]) = 0
      OBVIOUS
    <3>1. l \in 1 .. Len(q) /\ l \in 1 .. Len(r)
      BY <1>1, <2>1
    <3> QED BY <1>6, <2>1, <3>1
  <2> QED BY <2>1, <2>2, <2>3, <2>4, Zenon DEF Exceeds
<1>10. ASSUME GoesOn(p, q), GoesOn(q, r) PROVE GoesOn(p, r)
  <2>1. /\ Len(q) <= Len(p) /\ Len(r) <= Len(q)
        /\ \A l \in 1 .. Len(q) : compareParts(p[l], q[l]) = 0
        /\ \A l \in 1 .. Len(r) : compareParts(q[l], r[l]) = 0
    BY <1>10, Zenon DEF GoesOn
  <2>2. Len(r) <= Len(p)
    BY <1>1, <2>1
  <2>3. \A l \in 1 .. Len(r) : l \in 1 .. Len(p) /\ l \in 1 .. Len(q)
    BY <1>1, <2>1
  <2>4. \A l \in 1 .. Len(r) : compareParts(p[l], r[l]) = 0
    BY <1>6, <2>1, <2>3
  <2> QED BY <2>2, <2>4, Zenon DEF GoesOn
<1> QED BY <1>2, <1>3, <1>7, <1>8, <1>9, <1>10, Zenon
-----------------------------------------------------------------------------
\* No version is below one that is behind it.
Descending(s) ==
  \A i, j \in 1 .. Len(s) : i < j => compareVersions(s[i], s[j]) >= 0

\* What is in a sequence.
LEMMA InToSet ==
  ASSUME NEW S, NEW s \in Seq(S)
  PROVE  \A x : x \in ToSet(s) <=> \E k \in 1 .. Len(s) : x = s[k]
<1>1. DOMAIN s = 1 .. Len(s)
  BY LenProperties, Zenon
<1> QED BY <1>1, Zenon DEF ToSet

\* The sort leaves a descending list of the same versions.
LEMMA SortedFacts ==
  ASSUME versions \in Seq(AllVersions), NEW sorted \in SortedVersions
  PROVE  /\ sorted \in Seq(AllVersions) /\ Len(sorted) = Len(versions)
         /\ ToSet(sorted) = ToSet(versions)
         /\ Descending(sorted)
<1> PICK n : n = Len(versions)
  OBVIOUS
<1>0. n \in Nat /\ DOMAIN versions = 1 .. n
  BY LenProperties, Zenon
<1>1. PICK p \in Bijection(1 .. n, 1 .. n) :
        /\ sorted = [k \in 1 .. n |-> versions[p[k]]]
        /\ \A i, j \in 1 .. n :
             i < j => compareVersions(versions[p[i]], versions[p[j]]) >= 0
  <2>1. \E p \in Bijection(DOMAIN versions, DOMAIN versions) :
          /\ sorted = [k \in DOMAIN versions |-> versions[p[k]]]
          /\ \A i, j \in DOMAIN versions :
               i < j => compareVersions(versions[p[i]], versions[p[j]]) >= 0
    BY Zenon DEF SortedVersions
  <2> QED BY <1>0, <2>1
<1>2. /\ p \in [1 .. n -> 1 .. n]
      /\ \A m \in 1 .. n : \E k \in 1 .. n : p[k] = m
  BY Zenon DEF Bijection, Injection, Surjection
<1>3. /\ \A k \in 1 .. n : sorted[k] = versions[p[k]]
      /\ DOMAIN sorted = 1 .. n
  BY <1>1, Zenon
<1>4. \A k \in 1 .. n : versions[k] \in AllVersions
  BY ElementOfSeq
<1>5. \A k \in 1 .. n : p[k] \in 1 .. n
  BY <1>2
<1>6. sorted \in Seq(AllVersions) /\ Len(sorted) = n
  <2>1. sorted \in [1 .. n -> AllVersions]
    BY <1>1, <1>4, <1>5
  <2>2. sorted \in Seq(AllVersions)
    BY <1>0, <2>1, SeqDef, Zenon
  <2> QED BY <1>0, <2>1, <2>2, LenProperties
<1>7. Descending(sorted)
  BY <1>1, <1>3, <1>6, Zenon DEF Descending
<1>8. ToSet(sorted) = ToSet(versions)
  <2>1. ASSUME NEW x \in ToSet(sorted) PROVE x \in ToSet(versions)
    <3>1. PICK k \in 1 .. n : x = sorted[k]
      BY <1>3, Zenon DEF ToSet
    <3>2. x = versions[p[k]] /\ p[k] \in DOMAIN versions
      BY <1>0, <1>3, <1>5, <3>1, Zenon
    <3> QED BY <3>2, Zenon DEF ToSet
  <2>2. ASSUME NEW x \in ToSet(versions) PROVE x \in ToSet(sorted)
    <3>1. PICK m \in 1 .. n : x = versions[m]
      BY <1>0, Zenon DEF ToSet
    <3>2. PICK k \in 1 .. n : p[k] = m
      BY <1>2
    <3> QED BY <1>3, <3>1, <3>2, Zenon DEF ToSet
  <2> QED BY <2>1, <2>2
<1> QED BY <1>6, <1>7, <1>8

\* The first that matches, if any does, is one that no other match is above.
LEMMA FirstMatchBest ==
  ASSUME NEW s \in Seq(AllVersions), Descending(s), NEW c,
         NEW best, best = FirstMatch(s, c)
  PROVE  IF \E v \in ToSet(s) : matchesConstraint(v, c)
         THEN /\ best \in ToSet(s) /\ matchesConstraint(best, c)
              /\ \A v \in ToSet(s) :
                   matchesConstraint(v, c) => compareVersions(best, v) >= 0
         ELSE best = NoVersion
<1> DEFINE hits == {k \in 1 .. Len(s) : matchesConstraint(s[k], c)}
           first == CHOOSE k \in hits : \A l \in hits : k <= l
<1>0. DOMAIN s = 1 .. Len(s) /\ Len(s) \in Nat
  BY LenProperties, Zenon
<1>1. best = IF hits = {} THEN NoVersion ELSE s[first]
  <2>1. FirstMatch(s, c) =
          LET h == {k \in DOMAIN s : matchesConstraint(s[k], c)}
          IN  IF h = {} THEN NoVersion
              ELSE s[CHOOSE k \in h : \A l \in h : k <= l]
    BY Zenon DEF FirstMatch
  <2> QED BY <1>0, <2>1
<1>2. \A x : x \in ToSet(s) <=> \E k \in 1 .. Len(s) : x = s[k]
  BY InToSet, Zenon
<1>3. CASE hits = {}
  <2>1. ~\E v \in ToSet(s) : matchesConstraint(v, c)
    BY <1>2, <1>3, Zenon
  <2> QED BY <1>1, <1>3, <2>1, Zenon
<1>4. CASE hits # {}
  <2>1. hits \in SUBSET Nat
    BY <1>0
  <2>2. \A k : k \in hits <=> k \in 1 .. Len(s) /\ matchesConstraint(s[k], c)
    BY Zenon
  <2> HIDE DEF hits
  <2>3. \E k \in hits : \A l \in hits : k <= l
    BY <1>4, <2>1, Least
  <2>4. first \in hits /\ \A l \in hits : first <= l
    BY <2>3, Zenon
  <2> HIDE DEF first
  <2>5. best = s[first] /\ first \in 1 .. Len(s) /\ matchesConstraint(best, c)
    BY <1>1, <1>4, <2>2, <2>4, Zenon
  <2>6. best \in ToSet(s)
    BY <1>2, <2>5, Zenon
  <2>7. ASSUME NEW v \in ToSet(s), matchesConstraint(v, c)
        PROVE  compareVersions(best, v) >= 0
    <3>1. PICK m \in 1 .. Len(s) : v = s[m]
      BY <1>2, Zenon
    <3>2. first <= m
      BY <2>2, <2>4, <2>7, <3>1, Zenon
    <3>3. CASE first = m
      <4>1. v \in Seq(Tokens)
        BY <3>1, ElementOfSeq, VersionsAssumption, Zenon DEF Tokens
      <4>2. best = v
        BY <2>5, <3>1, <3>3, Zenon
      <4>3. compareVersions(best, v) = 0
        BY <4>1, <4>2, ComparesEqual, Zenon
      <4> QED BY <4>3
    <3>4. CASE first # m
      <4>1. first < m
        BY <1>0, <2>5, <3>2, <3>4
      <4> QED BY <2>5, <3>1, <4>1, Zenon DEF Descending
    <3> QED BY <3>3, <3>4
  <2> QED BY <2>5, <2>6, <2>7, Zenon
<1> QED BY <1>3, <1>4

-----------------------------------------------------------------------------
(***************************************************************************)
(* The inductive invariant: every version is one that may be registered,   *)
(* and the last answer for a constraint is a registered version that       *)
(* satisfies it.                                                           *)
(***************************************************************************)
IInv ==
  /\ versions \in Seq(AllVersions)
  /\ DefaultVersion \in AllVersions \cup {NoVersion}
  /\ resolved \in [Queries -> AllVersions \cup {NoVersion}]
  /\ \A query \in Constraints :
       resolved[query] # NoVersion =>
         /\ resolved[query] \in ToSet(versions)
         /\ matchesConstraint(resolved[query], Stripped(query))

\* The versions that may be the answer.
Fit(query) == {v \in ToSet(versions) : Satisfies(v, query)}

\* Resolve: the answer fits, and unless it is the default version nothing that
\* fits is above it.
LEMMA ResolvesBest ==
  ASSUME IInv, NEW sorted \in SortedVersions, NEW query \in Queries,
         NEW best, best = ResolveIn(sorted, query)
  PROVE  /\ IF Fit(query) = {} THEN best = NoVersion ELSE best \in Fit(query)
         /\ best # NoVersion
            /\ (query = Latest => DefaultVersion \notin ToSet(versions)) =>
              \A v \in Fit(query) : compareVersions(best, v) >= 0
<1>0. /\ sorted \in Seq(AllVersions) /\ Len(sorted) = Len(versions)
      /\ ToSet(sorted) = ToSet(versions)
      /\ Descending(sorted)
  <2>1. versions \in Seq(AllVersions)
    BY DEF IInv
  <2> QED BY <2>1, SortedFacts
<1>1. \A x : x \in ToSet(versions) <=>
             \E k \in 1 .. Len(sorted) : x = sorted[k]
  BY <1>0, InToSet, Zenon
<1>2. \A v : v \in Fit(query) <=> v \in ToSet(versions) /\ Satisfies(v, query)
  BY Zenon DEF Fit
<1>3. CASE sorted = <<>>
  <2>1. best = NoVersion
    BY <1>3, Zenon DEF ResolveIn
  <2>2. Len(sorted) = 0
    BY <1>3
  <2>3. Fit(query) = {}
    <3>1. \A k \in 1 .. Len(sorted) : FALSE
      BY <2>2
    <3> QED BY <1>1, <1>2, <3>1, Zenon
  <2> QED BY <2>1, <2>3, Zenon
<1>4. CASE sorted # <<>> /\ query = Latest
  <2>1. 1 \in 1 .. Len(sorted) /\ Len(sorted) \in Nat
    <3>1. Len(sorted) \in Nat /\ Len(sorted) # 0
      BY <1>0, <1>4, LenProperties, EmptySeq
    <3> QED BY <3>1
  <2>2. \A v \in ToSet(versions) : v \in Fit(query)
    BY <1>2, <1>4, Zenon DEF Satisfies
  <2>3. best = IF DefaultVersion \in ToSet(versions) THEN DefaultVersion
               ELSE sorted[1]
    BY <1>0, <1>4, Zenon DEF ResolveIn
  <2>4. sorted[1] \in ToSet(versions)
    BY <1>1, <2>1, Zenon
  <2>5. best \in Fit(query)
    BY <2>2, <2>3, <2>4, Zenon
  <2>6. ASSUME DefaultVersion \notin ToSet(versions), NEW v \in Fit(query)
        PROVE  compareVersions(best, v) >= 0
    <3>1. best = sorted[1]
      BY <2>3, <2>6, Zenon
    <3>2. PICK m \in 1 .. Len(sorted) : v = sorted[m]
      BY <1>1, <1>2, Zenon
    <3>3. CASE m = 1
      <4>1. v \in Seq(Tokens)
        BY <1>0, <3>2, ElementOfSeq, VersionsAssumption, Zenon DEF Tokens
      <4>2. best = v
        BY <3>1, <3>2, <3>3, Zenon
      <4>3. compareVersions(best, v) = 0
        BY <4>1, <4>2, ComparesEqual, Zenon
      <4> QED BY <4>3
    <3>4. CASE m # 1
      <4>1. 1 < m
        BY <2>1, <3>4
      <4> QED BY <1>0, <2>1, <3>1, <3>2, <4>1, Zenon DEF Descending
    <3> QED BY <3>3, <3>4
  <2> QED BY <1>4, <2>5, <2>6, Zenon
<1>5. CASE sorted # <<>> /\ query # Latest
  <2>1. best = FirstMatch(sorted, Stripped(query))
    BY <1>5, Zenon DEF ResolveIn
  <2>2. \A v : v \in Fit(query) <=> /\ v \in ToSet(versions)
                                    /\ matchesConstraint(v, Stripped(query))
    BY <1>2, <1>5, Zenon DEF Satisfies
  <2>3. IF \E v \in ToSet(sorted) : matchesConstraint(v, Stripped(query))
        THEN /\ best \in ToSet(sorted)
             /\ matchesConstraint(best, Stripped(query))
             /\ \A v \in ToSet(sorted) :
                  matchesConstraint(v, Stripped(query)) =>
                    compareVersions(best, v) >= 0
        ELSE best = NoVersion
    BY <1>0, <2>1, FirstMatchBest, Zenon
  <2>4. IF \E v \in ToSet(versions) : matchesConstraint(v, Stripped(query))
        THEN /\ best \in ToSet(versions)
             /\ matchesConstraint(best, Stripped(query))
             /\ \A v \in ToSet(versions) :
                  matchesConstraint(v, Stripped(query)) =>
                    compareVersions(best, v) >= 0
        ELSE best = NoVersion
    BY <1>0, <2>3, Zenon
  <2> QED BY <2>2, <2>4, Zenon
<1> QED BY <1>3, <1>4, <1>5

\* The answer is one of the versions, or none.
LEMMA ResolveTyped ==
  ASSUME IInv, NEW sorted \in SortedVersions, NEW query \in Queries
  PROVE  ResolveIn(sorted, query) \in AllVersions \cup {NoVersion}
<1> PICK best : best = ResolveIn(sorted, query)
  OBVIOUS
<1>1. IF Fit(query) = {} THEN best = NoVersion ELSE best \in Fit(query)
  BY ResolvesBest
<1>2. versions \in Seq(AllVersions)
  BY DEF IInv
<1>3. CASE best \in ToSet(versions)
  <2>1. PICK k \in 1 .. Len(versions) : best = versions[k]
    BY <1>2, <1>3, InToSet, Zenon
  <2> QED BY <1>2, <2>1, ElementOfSeq
<1> QED BY <1>1, <1>3, Zenon DEF Fit

\* The answer for a constraint is a registered version that satisfies it.
Grounded ==
  \A query \in Constraints :
    resolved[query] # NoVersion =>
      /\ resolved[query] \in ToSet(versions)
      /\ matchesConstraint(resolved[query], Stripped(query))

\* The invariant holds at first.
LEMMA InitIInv == Init => IInv
<1> SUFFICES ASSUME Init PROVE IInv
  OBVIOUS
<1>1. versions \in Seq(AllVersions)
  BY EmptySeq, Zenon DEF Init
<1>2. resolved \in [Queries -> AllVersions \cup {NoVersion}]
  BY DEF Init
<1>3. \A query \in Constraints : resolved[query] = NoVersion
  BY DEF Init, Queries
<1> QED BY <1>1, <1>2, <1>3, Zenon DEF IInv, Init

\* RegisterVersion keeps what is registered.
LEMMA Registers ==
  ASSUME IInv, NEW v \in AllVersions, RegisterVersion(v)
  PROVE  /\ versions' \in Seq(AllVersions)
         /\ \A x \in ToSet(versions) : x \in ToSet(versions)'
<1> PICK vs : vs = versions
  OBVIOUS
<1>1. vs \in Seq(AllVersions) /\ versions' = Append(vs, v)
  BY Zenon DEF IInv, RegisterVersion
<1>2. Append(vs, v) \in Seq(AllVersions) /\ Len(Append(vs, v)) = Len(vs) + 1
  BY <1>1, AppendProperties, Zenon
<1>3. \A i \in 1 .. Len(vs) : Append(vs, v)[i] = vs[i]
  BY <1>1, AppendProperties
<1>4. ASSUME NEW x \in ToSet(vs) PROVE x \in ToSet(Append(vs, v))
  <2>1. PICK k \in 1 .. Len(vs) : x = vs[k]
    BY <1>1, InToSet, Zenon
  <2>2. k \in 1 .. Len(Append(vs, v))
    <3>1. Len(vs) \in Nat
      BY <1>1, LenProperties, Zenon
    <3> QED BY <1>2, <3>1
  <2>3. x = Append(vs, v)[k]
    BY <1>3, <2>1, Zenon
  <2> QED BY <1>2, <2>2, <2>3, InToSet, Zenon
<1> QED BY <1>1, <1>2, <1>4, Zenon

\* The answer for one query is changed.
LEMMA Answers ==
  ASSUME IInv, NEW query \in Queries,
         NEW best \in AllVersions \cup {NoVersion},
         resolved' = [resolved EXCEPT ![query] = best]
  PROVE  /\ resolved' \in [Queries -> AllVersions \cup {NoVersion}]
         /\ resolved'[query] = best
         /\ \A q \in Queries : q # query => resolved'[q] = resolved[q]
BY DEF IInv

\* Every step keeps the invariant.
LEMMA NextIInv == IInv /\ [Next]_vars => IInv'
<1> SUFFICES ASSUME IInv, [Next]_vars PROVE IInv'
  OBVIOUS
<1> USE Zenon
<1>1. ASSUME NEW v \in AllVersions, RegisterVersion(v) PROVE IInv'
  <2>1. /\ versions' \in Seq(AllVersions)
        /\ \A x \in ToSet(versions) : x \in ToSet(versions)'
    BY <1>1, Registers, Zenon
  <2>2. DefaultVersion' = DefaultVersion /\ resolved' = resolved
    BY <1>1, Zenon DEF RegisterVersion
  <2>3. \A query \in Constraints :
          resolved'[query] # NoVersion =>
            /\ resolved'[query] \in ToSet(versions)'
            /\ matchesConstraint(resolved'[query], Stripped(query))
    BY <2>1, <2>2, Zenon DEF IInv
  <2> QED BY <2>1, <2>2, <2>3, Zenon DEF IInv
<1>2. ASSUME NEW query \in Queries, Resolve(query) PROVE IInv'
  <2>1. PICK sorted \in SortedVersions :
          resolved' = [resolved EXCEPT ![query] = ResolveIn(sorted, query)]
    BY <1>2, Zenon DEF Resolve
  <2>2. DefaultVersion' = DefaultVersion /\ versions' = versions
    BY <1>2, Zenon DEF Resolve
  <2> DEFINE best == ResolveIn(sorted, query)
  <2>3. best \in AllVersions \cup {NoVersion}
    BY ResolveTyped, Zenon
  <2>4. best # NoVersion => best \in ToSet(versions) /\ Satisfies(best, query)
    <3>1. IF Fit(query) = {} THEN best = NoVersion ELSE best \in Fit(query)
      BY ResolvesBest
    <3> QED BY <3>1, Zenon DEF Fit
  <2> HIDE DEF best
  <2>5. /\ resolved' \in [Queries -> AllVersions \cup {NoVersion}]
        /\ resolved'[query] = best
        /\ \A q \in Queries : q # query => resolved'[q] = resolved[q]
    <3>1. resolved' = [resolved EXCEPT ![query] = best]
      BY <2>1, Zenon DEF best
    <3> QED BY <2>3, <3>1, Answers, Zenon
  <2>6. ASSUME NEW q \in Constraints, resolved'[q] # NoVersion
        PROVE  /\ resolved'[q] \in ToSet(versions')
               /\ matchesConstraint(resolved'[q], Stripped(q))
    <3>1. q \in Queries /\ q # Latest
      BY VersionsAssumption, Zenon DEF Queries
    <3>2. CASE q = query
      BY <2>2, <2>4, <2>5, <2>6, <3>1, <3>2, Zenon DEF Satisfies
    <3>3. CASE q # query
      BY <2>2, <2>5, <2>6, <3>1, <3>3, Zenon DEF IInv
    <3> QED BY <3>2, <3>3
  <2> QED BY <2>2, <2>5, <2>6, Zenon DEF IInv
<1>3. CASE UNCHANGED vars
  BY <1>3, Zenon DEF IInv, vars
<1> QED BY <1>1, <1>2, <1>3, Zenon DEF Next

\* A later release is above.
LEMMA NoneLater ==
  ASSUME IInv, NEW v \in ToSet(versions), NEW w \in ToSet(versions),
         IsRelease(v), IsRelease(w), compareVersions(w, v) >= 0
  PROVE  ~LaterRelease(v, w)
<1>1. versions \in Seq(AllVersions)
  BY Zenon DEF IInv
<1>2. ASSUME NEW x \in ToSet(versions) PROVE x \in Seq(Tokens)
  <2>1. PICK k \in 1 .. Len(versions) : x = versions[k]
    BY <1>1, InToSet, Zenon
  <2>2. versions[k] \in AllVersions
    BY <1>1, ElementOfSeq, Zenon
  <2> QED BY <2>1, <2>2, VersionsAssumption, Zenon DEF Tokens
<1>3. v \in Seq(Tokens) /\ w \in Seq(Tokens)
  BY <1>2, Zenon
<1> QED BY <1>3, LaterIsAbove, Zenon

\* The invariant implies BestRelease.
LEMMA IInvBest == IInv => BestRelease
<1> SUFFICES ASSUME IInv, NEW query \in Queries, NEW sorted \in SortedVersions,
                    NEW best, best = ResolveIn(sorted, query)
             PROVE  /\ IF Fit(query) = {} THEN best = NoVersion
                       ELSE best \in Fit(query)
                    /\ best # NoVersion /\ IsRelease(best)
                       /\ (query = Latest =>
                             DefaultVersion \notin ToSet(versions)) =>
                         \A v \in Fit(query) :
                           IsRelease(v) => ~LaterRelease(v, best)
  BY Zenon DEF BestRelease, Fit
<1>1. /\ IF Fit(query) = {} THEN best = NoVersion ELSE best \in Fit(query)
      /\ best # NoVersion
         /\ (query = Latest => DefaultVersion \notin ToSet(versions)) =>
           \A v \in Fit(query) : compareVersions(best, v) >= 0
  BY ResolvesBest
<1>2. ASSUME best # NoVersion, IsRelease(best),
             query = Latest => DefaultVersion \notin ToSet(versions),
             NEW v \in Fit(query), IsRelease(v)
      PROVE  ~LaterRelease(v, best)
  <2>1. best \in Fit(query) /\ compareVersions(best, v) >= 0
    BY <1>1, <1>2, Zenon
  <2>2. best \in ToSet(versions) /\ v \in ToSet(versions)
    BY <1>2, <2>1, Zenon DEF Fit
  <2> QED BY <1>2, <2>1, <2>2, NoneLater, Zenon
<1> QED BY <1>1, <1>2, Zenon

\* What NeverOlder says of one step.
OlderNever ==
  \A query \in Constraints :
    resolved[query] # NoVersion =>
      /\ resolved'[query] # NoVersion
      /\ compareVersions(resolved'[query], resolved[query]) >= 0

\* A registered version equals itself.
LEMMA StaysEqual ==
  ASSUME IInv, NEW v \in ToSet(versions)
  PROVE  compareVersions(v, v) >= 0
<1>1. versions \in Seq(AllVersions)
  BY Zenon DEF IInv
<1>2. PICK k \in 1 .. Len(versions) : v = versions[k]
  BY <1>1, InToSet, Zenon
<1>3. versions[k] \in AllVersions
  BY <1>1, ElementOfSeq, Zenon
<1>4. v \in Seq(Tokens)
  BY <1>2, <1>3, VersionsAssumption, Zenon DEF Tokens
<1>5. compareVersions(v, v) = 0
  BY <1>4, ComparesEqual, Zenon
<1> QED BY <1>5

\* No step makes an answer older.
LEMMA StepNotOlder == IInv /\ [Next]_vars => OlderNever
<1> SUFFICES ASSUME IInv, [Next]_vars,
                    NEW q \in Constraints, resolved[q] # NoVersion
             PROVE  /\ resolved'[q] # NoVersion
                    /\ compareVersions(resolved'[q], resolved[q]) >= 0
  BY Zenon DEF OlderNever
<1>0. /\ q \in Queries /\ q # Latest
      /\ resolved[q] \in ToSet(versions)
      /\ matchesConstraint(resolved[q], Stripped(q))
  BY VersionsAssumption, Zenon DEF Queries, IInv
<1>1. CASE resolved'[q] = resolved[q]
  BY <1>0, <1>1, StaysEqual, Zenon
<1>2. ASSUME NEW query \in Queries, Resolve(query), resolved'[q] # resolved[q]
      PROVE  /\ resolved'[q] # NoVersion
             /\ compareVersions(resolved'[q], resolved[q]) >= 0
  <2>1. PICK sorted \in SortedVersions :
          resolved' = [resolved EXCEPT ![query] = ResolveIn(sorted, query)]
    BY <1>2, Zenon DEF Resolve
  <2> DEFINE best == ResolveIn(sorted, query)
  <2>2. /\ best \in AllVersions \cup {NoVersion}
        /\ IF Fit(query) = {} THEN best = NoVersion ELSE best \in Fit(query)
        /\ best # NoVersion
           /\ (query = Latest => DefaultVersion \notin ToSet(versions)) =>
             \A v \in Fit(query) : compareVersions(best, v) >= 0
    BY ResolveTyped, ResolvesBest
  <2>3. resolved' = [resolved EXCEPT ![query] = best]
    BY <2>1
  <2> HIDE DEF best
  <2>4. /\ resolved'[query] = best
        /\ \A r \in Queries : r # query => resolved'[r] = resolved[r]
    BY <2>2, <2>3, Answers, Zenon
  <2>5. q = query
    BY <1>0, <1>2, <2>4, Zenon
  <2>6. resolved[q] \in Fit(query)
    BY <1>0, <2>5, Zenon DEF Fit, Satisfies
  <2>7. best \in ToSet(versions)
    BY <2>2, <2>6, Zenon DEF Fit
  <2>8. best # NoVersion
    <3>1. versions \in Seq(AllVersions)
      BY Zenon DEF IInv
    <3>2. PICK k \in 1 .. Len(versions) : best = versions[k]
      BY <2>7, <3>1, InToSet, Zenon
    <3>3. versions[k] \in AllVersions
      BY <3>1, ElementOfSeq, Zenon
    <3> QED BY <3>2, <3>3, VersionsAssumption, Zenon
  <2>9. compareVersions(best, resolved[q]) >= 0
    BY <1>0, <2>2, <2>5, <2>6, <2>8, Zenon
  <2> QED BY <2>4, <2>5, <2>8, <2>9, Zenon
<1>3. ASSUME NEW v \in AllVersions, RegisterVersion(v)
      PROVE  resolved' = resolved
  BY <1>3, Zenon DEF RegisterVersion
<1>4. UNCHANGED vars => resolved' = resolved
  BY Zenon DEF vars
<1> QED BY <1>1, <1>2, <1>3, <1>4, Zenon DEF Next

(***************************************************************************)
(* Every answer of a constraint is a registered version that satisfies it. *)
(***************************************************************************)
THEOREM Invariance == Spec => []IInv
<1>1. Init => IInv
  BY InitIInv
<1>2. IInv /\ [Next]_vars => IInv'
  BY NextIInv
<1> QED BY <1>1, <1>2, PTL DEF Spec

(***************************************************************************)
(* The best release wins: whichever versions were registered, and in       *)
(* whichever order sort.Slice leaves those that compare equal, Resolve     *)
(* answers with a version that fits, with none only if none does, and      *)
(* never with a release when a later one that fits is registered.          *)
(***************************************************************************)
THEOREM BestReleaseWins == Spec => []BestRelease
<1>1. IInv => BestRelease
  BY IInvBest
<1> QED BY <1>1, Invariance, PTL

(***************************************************************************)
(* No client that keeps its constraint is moved back to an older version   *)
(* by a registration or by another run of the unstable sort.               *)
(***************************************************************************)
THEOREM NoAnswerOlder == Spec => NeverOlder
<1>1. IInv /\ [Next]_vars =>
        [\A query \in Constraints :
           resolved[query] # NoVersion =>
             /\ resolved'[query] # NoVersion
             /\ compareVersions(resolved'[query], resolved[query]) >= 0]_vars
  BY StepNotOlder, Zenon DEF OlderNever
<1> QED BY <1>1, Invariance, PTL DEF Spec, NeverOlder

-----------------------------------------------------------------------------
\* Version i of the list is not below version j.
NotBelowAt(s, i, j) == compareVersions(s[i], s[j]) >= 0

\* p puts the first n of the list in descending order.
Sorts(p, s, n) ==
  /\ p \in [1 .. n -> 1 .. n]
  /\ \A i, j \in 1 .. n : p[i] = p[j] => i = j
  /\ \A m \in 1 .. n : \E k \in 1 .. n : p[k] = m
  /\ \A i, j \in 1 .. n : i < j => NotBelowAt(s, p[i], p[j])

\* compareVersions orders the positions of a list.
LEMMA OrderedAt ==
  ASSUME NumbersTogether, NEW s \in Seq(AllVersions)
  PROVE  /\ \A i, j \in 1 .. Len(s) :
              NotBelowAt(s, i, j) \/ NotBelowAt(s, j, i)
         /\ \A i, j, k \in 1 .. Len(s) :
              NotBelowAt(s, i, j) /\ NotBelowAt(s, j, k) => NotBelowAt(s, i, k)
<1>1. \A i \in 1 .. Len(s) : s[i] \in Seq(Tokens)
  <2> TAKE i \in 1 .. Len(s)
  <2>1. s[i] \in AllVersions
    BY ElementOfSeq
  <2> QED BY <2>1, VersionsAssumption, Zenon DEF Tokens
<1>2. ASSUME NEW i \in 1 .. Len(s), NEW j \in 1 .. Len(s)
      PROVE  NotBelowAt(s, i, j) \/ NotBelowAt(s, j, i)
  <2>1. s[i] \in Seq(Tokens) /\ s[j] \in Seq(Tokens)
    BY <1>1, Zenon
  <2>2. /\ compareVersions(s[i], s[j]) \in Int
        /\ compareVersions(s[j], s[i]) = 0 - compareVersions(s[i], s[j])
    BY <2>1, ComparesOpposite, Zenon
  <2>3. compareVersions(s[i], s[j]) >= 0 \/ compareVersions(s[j], s[i]) >= 0
    BY <2>2
  <2> QED BY <2>3, Zenon DEF NotBelowAt
<1>3. ASSUME NEW i \in 1 .. Len(s), NEW j \in 1 .. Len(s),
             NEW k \in 1 .. Len(s),
             NotBelowAt(s, i, j), NotBelowAt(s, j, k)
      PROVE  NotBelowAt(s, i, k)
  <2>1. /\ s[i] \in Seq(Tokens) /\ s[j] \in Seq(Tokens) /\ s[k] \in Seq(Tokens)
    BY <1>1, Zenon
  <2> QED BY <1>3, <2>1, CompareTransitive, Zenon DEF NotBelowAt
<1> QED BY <1>2, <1>3, Zenon

\* One more version finds its place among those that are in order.
LEMMA OneMore ==
  ASSUME NumbersTogether, NEW s \in Seq(AllVersions),
         NEW n \in Nat, n + 1 <= Len(s), NEW p, Sorts(p, s, n)
  PROVE  \E g : Sorts(g, s, n + 1)
<1>1. /\ p \in [1 .. n -> 1 .. n]
      /\ \A i, j \in 1 .. n : p[i] = p[j] => i = j
      /\ \A m \in 1 .. n : \E k \in 1 .. n : p[k] = m
      /\ \A i, j \in 1 .. n : i < j => NotBelowAt(s, p[i], p[j])
  BY Zenon DEF Sorts
<1>2. /\ \A i, j \in 1 .. Len(s) : NotBelowAt(s, i, j) \/ NotBelowAt(s, j, i)
      /\ \A i, j, k \in 1 .. Len(s) :
           NotBelowAt(s, i, j) /\ NotBelowAt(s, j, k) => NotBelowAt(s, i, k)
  BY OrderedAt, Zenon
<1>3. Len(s) \in Nat /\ n + 1 \in 1 .. Len(s)
  BY LenProperties
<1>4. \A i \in 1 .. n : p[i] \in 1 .. n /\ p[i] \in 1 .. Len(s) /\ p[i] # n + 1
  <2> TAKE i \in 1 .. n
  <2>1. p[i] \in 1 .. n
    BY <1>1
  <2> QED BY <1>3, <2>1
<1> DEFINE places == {k \in 1 .. n + 1 :
                        k \in 1 .. n => ~NotBelowAt(s, p[k], n + 1)}
<1>5. PICK m \in places : \A k \in places : m <= k
  <2>1. places \in SUBSET Nat
    OBVIOUS
  <2>2. n + 1 \in places
    BY DEF places
  <2> HIDE DEF places
  <2> QED BY <2>1, <2>2, Least
<1>6. /\ m \in 1 .. n + 1
      /\ m \in 1 .. n => ~NotBelowAt(s, p[m], n + 1)
      /\ \A k \in 1 .. n : k < m => NotBelowAt(s, p[k], n + 1)
  <2>1. ASSUME NEW k \in 1 .. n, k < m PROVE NotBelowAt(s, p[k], n + 1)
    <3>1. k \notin places
      BY <1>5, <2>1
    <3> QED BY <3>1
  <2> QED BY <1>5, <2>1
<1> HIDE DEF places
<1>7. ASSUME NEW j \in 1 .. n, m <= j PROVE NotBelowAt(s, n + 1, p[j])
  <2>1. m \in 1 .. n
    BY <1>6, <1>7
  <2>2. NotBelowAt(s, n + 1, p[m])
    BY <1>2, <1>3, <1>4, <1>6, <2>1, Zenon
  <2>3. CASE m = j
    BY <2>2, <2>3, Zenon
  <2>4. CASE m # j
    <3>1. m < j
      BY <1>7, <2>1, <2>4
    <3>2. NotBelowAt(s, p[m], p[j])
      BY <1>1, <2>1, <3>1, Zenon
    <3> QED BY <1>2, <1>3, <1>4, <2>1, <2>2, <3>2, Zenon
  <2> QED BY <2>3, <2>4
<1> DEFINE g == [k \in 1 .. n + 1 |->
                   IF k < m THEN p[k] ELSE IF k = m THEN n + 1 ELSE p[k - 1]]
<1>8. /\ \A k \in 1 .. n + 1 : k < m => k \in 1 .. n /\ g[k] = p[k]
      /\ g[m] = n + 1
      /\ \A k \in 1 .. n + 1 : k > m => k - 1 \in 1 .. n /\ g[k] = p[k - 1]
      /\ \A k \in 1 .. n + 1 : k < m \/ k = m \/ k > m
  BY <1>6
<1>9. g \in [1 .. n + 1 -> 1 .. n + 1]
  <2>1. \A k \in 1 .. n + 1 :
          (IF k < m THEN p[k] ELSE IF k = m THEN n + 1 ELSE p[k - 1])
             \in 1 .. n + 1
    BY <1>4, <1>6
  <2> QED BY <2>1
<1> HIDE DEF g
<1>10. ASSUME NEW i \in 1 .. n + 1, NEW j \in 1 .. n + 1, i < j
       PROVE  g[i] # g[j] /\ NotBelowAt(s, g[i], g[j])
  <2>1. CASE j < m
    <3>1. i < m
      BY <1>6, <1>10, <2>1
    <3>2. g[i] = p[i] /\ g[j] = p[j] /\ i \in 1 .. n /\ j \in 1 .. n
      BY <1>8, <2>1, <3>1, Zenon
    <3>3. i # j
      BY <1>10
    <3> QED BY <1>1, <1>10, <3>2, <3>3, Zenon
  <2>2. CASE j = m
    <3>1. i < m
      BY <1>10, <2>2, Zenon
    <3>2. g[i] = p[i] /\ g[j] = n + 1 /\ i \in 1 .. n
      BY <1>8, <2>2, <3>1, Zenon
    <3> QED BY <1>4, <1>6, <3>1, <3>2, Zenon
  <2>3. CASE j > m /\ i < m
    <3>1. g[i] = p[i] /\ g[j] = p[j - 1] /\ i \in 1 .. n /\ j - 1 \in 1 .. n
      BY <1>8, <2>3, Zenon
    <3>2. i < j - 1
      BY <1>6, <2>3
    <3>3. i # j - 1
      BY <3>2
    <3>4. p[i] # p[j - 1] /\ NotBelowAt(s, p[i], p[j - 1])
      BY <1>1, <3>1, <3>2, <3>3, Zenon
    <3> QED BY <3>1, <3>4, Zenon
  <2>4. CASE j > m /\ i = m
    <3>1. g[i] = n + 1 /\ g[j] = p[j - 1] /\ j - 1 \in 1 .. n
      BY <1>8, <2>4, Zenon
    <3>2. m <= j - 1
      BY <1>6, <2>4
    <3>3. NotBelowAt(s, n + 1, p[j - 1])
      BY <1>7, <3>1, <3>2
    <3> QED BY <1>4, <3>1, <3>3, Zenon
  <2>5. CASE j > m /\ i > m
    <3>1. /\ g[i] = p[i - 1] /\ g[j] = p[j - 1]
          /\ i - 1 \in 1 .. n /\ j - 1 \in 1 .. n
      BY <1>8, <2>5, Zenon
    <3>2. i - 1 < j - 1 /\ i - 1 # j - 1
      BY <1>10
    <3>3. p[i - 1] # p[j - 1] /\ NotBelowAt(s, p[i - 1], p[j - 1])
      BY <1>1, <3>1, <3>2, Zenon
    <3> QED BY <3>1, <3>3, Zenon
  <2> QED BY <1>8, <2>1, <2>2, <2>3, <2>4, <2>5, Zenon
<1>11. \A i, j \in 1 .. n + 1 : g[i] = g[j] => i = j
  <2> TAKE i, j \in 1 .. n + 1
  <2>1. i < j \/ j < i \/ i = j
    OBVIOUS
  <2> QED BY <1>10, <2>1, Zenon
<1>12. ASSUME NEW x \in 1 .. n + 1 PROVE \E k \in 1 .. n + 1 : g[k] = x
  <2>1. CASE x = n + 1
    BY <1>6, <1>8, <2>1, Zenon
  <2>2. CASE x # n + 1
    <3>1. x \in 1 .. n
      BY <2>2
    <3>2. PICK k \in 1 .. n : p[k] = x
      BY <1>1, <3>1, Zenon
    <3>3. CASE k < m
      <4>1. k \in 1 .. n + 1
        OBVIOUS
      <4> QED BY <1>8, <3>2, <3>3, <4>1, Zenon
    <3>4. CASE ~(k < m)
      <4>1. k + 1 \in 1 .. n + 1 /\ k + 1 > m /\ (k + 1) - 1 = k
        BY <1>6, <3>4
      <4>2. g[k + 1] = p[(k + 1) - 1]
        BY <1>8, <4>1, Zenon
      <4> QED BY <3>2, <4>1, <4>2, Zenon
    <3> QED BY <3>3, <3>4
  <2> QED BY <2>1, <2>2
<1>13. Sorts(g, s, n + 1)
  BY <1>9, <1>10, <1>11, <1>12, Zenon DEF Sorts
<1> QED BY <1>13

\* Every list of versions can be sorted.
LEMMA SomeOrder ==
  ASSUME NumbersTogether, NEW s \in Seq(AllVersions)
  PROVE  \E p : Sorts(p, s, Len(s))
<1> DEFINE S == {n \in Nat : n <= Len(s) => \E p : Sorts(p, s, n)}
<1>0. Len(s) \in Nat
  BY LenProperties, Zenon
<1>1. 0 \in S
  <2> DEFINE p == [k \in 1 .. 0 |-> k]
  <2>1. Sorts(p, s, 0)
    BY DEF Sorts
  <2> QED BY <2>1
<1>2. ASSUME NEW n \in Nat, n \in S PROVE n + 1 \in S
  <2> SUFFICES ASSUME n + 1 <= Len(s) PROVE \E p : Sorts(p, s, n + 1)
    OBVIOUS
  <2>1. n <= Len(s)
    BY <1>0
  <2>2. PICK p : Sorts(p, s, n)
    BY <1>2, <2>1
  <2> QED BY <2>2, OneMore
<1> HIDE DEF S
<1>3. Nat \subseteq S
  BY <1>1, <1>2, NatSetInduction, Zenon
<1> QED BY <1>0, <1>3 DEF S

(***************************************************************************)
(* There is an order in which sort.Slice may leave the versions, whichever *)
(* are registered, so the less function it is given means an order and     *)
(* Resolve always has an answer, provided the parts with a number are      *)
(* together in the order of strings: compareVersions then is an order.     *)
(***************************************************************************)
THEOREM AlwaysSortable ==
  ASSUME NumbersTogether
  PROVE  Spec => []Sortable
<1>1. ASSUME IInv PROVE Sortable
  <2>1. versions \in Seq(AllVersions)
    BY <1>1, Zenon DEF IInv
  <2> PICK n : n = Len(versions)
    OBVIOUS
  <2>2. DOMAIN versions = 1 .. n
    BY <2>1, LenProperties, Zenon
  <2>3. PICK p : Sorts(p, versions, n)
    BY <2>1, SomeOrder, Zenon
  <2>4. p \in Bijection(1 .. n, 1 .. n)
    <3>1. /\ p \in [1 .. n -> 1 .. n]
          /\ \A i, j \in 1 .. n : p[i] = p[j] => i = j
          /\ \A m \in 1 .. n : \E k \in 1 .. n : p[k] = m
      BY <2>3, Zenon DEF Sorts
    <3>2. p \in Injection(1 .. n, 1 .. n)
      BY <3>1 DEF Injection, IsInjective
    <3>3. p \in Surjection(1 .. n, 1 .. n)
      BY <3>1 DEF Surjection
    <3> QED BY <3>2, <3>3, Zenon DEF Bijection
  <2>5. \A i, j \in 1 .. n :
          i < j => compareVersions(versions[p[i]], versions[p[j]]) >= 0
    BY <2>3, Zenon DEF Sorts, NotBelowAt
  <2>6. [k \in DOMAIN versions |-> versions[p[k]]] \in SortedVersions
    BY <2>2, <2>4, <2>5, Zenon DEF SortedVersions
  <2> QED BY <2>6, Zenon DEF Sortable
<1> QED BY <1>1, Invariance, PTL
=============================================================================
