------------------------------- MODULE Versions -------------------------------
(***************************************************************************)
(* VersionResolver: versions of an engine are registered, and constraints  *)
(* are resolved to the best of them.  One engine is enough: the resolver   *)
(* keeps a list per engine and the lists never meet.                       *)
(*                                                                         *)
(* A version is a sequence of parts and separators.  Of a part the code    *)
(* uses the number Sscanf("%d") reads off its front, if there is one, and  *)
(* its place in the order of strings; both are given by constants.         *)
(***************************************************************************)
EXTENDS Integers, Sequences, SequencesExt

CONSTANTS
  AllVersions,      \* versions that may be registered
  Constraints,      \* constraints other than "" and "latest"
  Number,           \* the parts that start with a number, and that number
  TextOrder,        \* all parts, in ascending order as strings
  Digits,           \* the parts that are one of the digits 1 to 9
  Unprefixed,       \* the parts that start with "v", and what follows the v
  Latest,           \* the constraints "" and "latest", which are treated alike
  NoVersion,        \* no default version, or no version found
  MaxVersions       \* bound on the number of registered versions

Separators == {".", "-", "+"}

Parts == ToSet(TextOrder)

ASSUME VersionsAssumption ==
  /\ TextOrder \in Seq(Parts) /\ IsInjective(TextOrder)
  /\ Parts \cap Separators = {}
  /\ AllVersions \subseteq Seq(Parts \cup Separators)
  /\ DOMAIN Number \subseteq Parts
  /\ \A p \in DOMAIN Number : Number[p] \in Nat
  /\ MaxVersions \in Nat
  /\ Latest \notin Constraints
  /\ NoVersion \notin AllVersions

VARIABLES
  DefaultVersion,   \* VersionResolver.DefaultVersion
  versions,         \* VersionResolver.Versions of the engine
  resolved          \* history: the last answer for each constraint

vars == <<DefaultVersion, versions, resolved>>

Queries == Constraints \cup {Latest}

\* The default version is chosen when the resolver is made.
Init ==
  /\ DefaultVersion \in AllVersions \cup {NoVersion}
  /\ versions = <<>>
  /\ resolved = [c \in Queries |-> NoVersion]
-----------------------------------------------------------------------------
\* The parts so far, with one more token of the version.
Token(parts, t) == IF t \in Separators THEN parts ELSE Append(parts, t)

splitVersion(v) ==
  LET parts[i \in 0 .. Len(v)] ==
        IF i = 0 THEN <<>> ELSE Token(parts[i - 1], v[i])
  IN  parts[Len(v)]

TextRank(p) == CHOOSE k \in DOMAIN TextOrder : TextOrder[k] = p

\* Mutant: parts are always compared as strings.
comparePartsAsText(p, q) == TextRank(p) - TextRank(q)

\* Mutant: whether the first part starts with a number is not checked.
comparePartsUnchecked(p, q) ==
  IF q \in DOMAIN Number
  THEN (IF p \in DOMAIN Number THEN Number[p] ELSE 0) - Number[q]
  ELSE TextRank(p) - TextRank(q)

\* As numbers when both parts start with one, else as strings.
compareParts(p, q) ==
  IF {p, q} \subseteq DOMAIN Number THEN Number[p] - Number[q]
  ELSE TextRank(p) - TextRank(q)

compareVersions(a, b) ==
  LET ap == splitVersion(a)
      bp == splitVersion(b)
      differ == {i \in DOMAIN ap \cap DOMAIN bp :
                   compareParts(ap[i], bp[i]) # 0}
      first == CHOOSE i \in differ : \A j \in differ : i <= j
  IN  IF differ = {} THEN Len(ap) - Len(bp)
      ELSE compareParts(ap[first], bp[first])

\* Exact, one digit for a major version, or major.minor.
matchesConstraint(version, constraint) ==
  LET v == splitVersion(version)
      c == splitVersion(constraint)
  IN  \/ version = constraint
      \/ /\ Len(constraint) = 1 /\ constraint[1] \in Digits
         /\ Len(v) > 0 /\ v[1] = constraint[1]
      \/ /\ Len(c) = 2 /\ Len(v) >= 2
         /\ c[1] = v[1] /\ c[2] = v[2]

\* A leading "v" of the constraint is dropped.
Stripped(constraint) ==
  IF constraint # <<>> /\ constraint[1] \in DOMAIN Unprefixed
  THEN <<Unprefixed[constraint[1]]>> \o Tail(constraint)
  ELSE constraint

\* Mutant: the sort is ascending.
SortedVersionsAscending ==
  {[k \in DOMAIN versions |-> versions[p[k]]] :
     p \in {f \in Bijection(DOMAIN versions, DOMAIN versions) :
              \A i, j \in DOMAIN versions :
                i < j => compareVersions(versions[f[i]], versions[f[j]]) <= 0}}

\* The orders in which sort.Slice may leave the versions: descending, and
\* unstable among equals.
SortedVersions ==
  {[k \in DOMAIN versions |-> versions[p[k]]] :
     p \in {f \in Bijection(DOMAIN versions, DOMAIN versions) :
              \A i, j \in DOMAIN versions :
                i < j => compareVersions(versions[f[i]], versions[f[j]]) >= 0}}

FirstMatch(sorted, constraint) ==
  LET hits == {k \in DOMAIN sorted : matchesConstraint(sorted[k], constraint)}
  IN  IF hits = {} THEN NoVersion
      ELSE sorted[CHOOSE k \in hits : \A l \in hits : k <= l]

\* What Resolve returns for a query, given how the versions were sorted;
\* NoVersion is an error.
ResolveIn(sorted, query) ==
  IF sorted = <<>> THEN NoVersion
  ELSE IF query = Latest
       THEN IF DefaultVersion \in ToSet(sorted) THEN DefaultVersion
            ELSE sorted[1]
       ELSE FirstMatch(sorted, Stripped(query))

RegisterVersion(v) ==
  /\ Len(versions) < MaxVersions
  /\ versions' = Append(versions, v)
  /\ UNCHANGED <<DefaultVersion, resolved>>

Resolve(query) ==
  /\ \E sorted \in SortedVersions :
       resolved' = [resolved EXCEPT ![query] = ResolveIn(sorted, query)]
  /\ UNCHANGED <<DefaultVersion, versions>>

Next ==
  \/ \E v \in AllVersions : RegisterVersion(v)
  \/ \E query \in Queries : Resolve(query)

Spec == Init /\ [][Next]_vars
-----------------------------------------------------------------------------
\* A release: three numbers.
IsRelease(v) ==
  /\ Len(v) = 5 /\ v[2] = "." /\ v[4] = "."
  /\ {v[1], v[3], v[5]} \subseteq DOMAIN Number

\* Release v comes after w: by major, minor and patch, as numbers.
LaterRelease(v, w) ==
  \E i \in {1, 3, 5} :
    /\ Number[v[i]] > Number[w[i]]
    /\ \A j \in {1, 3, 5} : j < i => Number[v[j]] = Number[w[j]]

\* Version v may be the answer to the query.
Satisfies(v, query) == query = Latest \/ matchesConstraint(v, Stripped(query))

(***************************************************************************)
(* The best release wins: Resolve answers with a registered version that   *)
(* satisfies the constraint, and with none only if none does; and never    *)
(* with a release when a later one that satisfies the constraint is        *)
(* registered.  (Latest is the default version, if that is registered.)    *)
(***************************************************************************)
BestRelease ==
  \A query \in Queries : \A sorted \in SortedVersions :
    LET best == ResolveIn(sorted, query)
        fit == {v \in ToSet(versions) : Satisfies(v, query)}
    IN  /\ IF fit = {} THEN best = NoVersion ELSE best \in fit
        /\ best # NoVersion /\ IsRelease(best)
           /\ (query = Latest => DefaultVersion \notin ToSet(versions)) =>
             \A v \in fit : IsRelease(v) => ~LaterRelease(v, best)

(***************************************************************************)
(* As strings, a part without a number is either above all the parts with  *)
(* one or below them: it starts with something else than a digit.  (What   *)
(* starts with digits that do not fit in an int is the exception.)         *)
(***************************************************************************)
NumbersTogether ==
  \A p \in Parts \ DOMAIN Number :
    \/ \A q \in DOMAIN Number : TextRank(p) > TextRank(q)
    \/ \A q \in DOMAIN Number : TextRank(p) < TextRank(q)

(***************************************************************************)
(* The versions can be put in order: comparing some parts as numbers and   *)
(* others as strings never goes round in a circle, so the function that    *)
(* sort.Slice is given means an order, and Resolve an answer.              *)
(***************************************************************************)
Sortable == SortedVersions # {}

(***************************************************************************)
(* As versions are registered, the answer for a constraint never gets      *)
(* older: clients that keep asking with the same constraint are not moved  *)
(* back.  (Latest is left out: it moves to the default version as soon as  *)
(* that is registered.)                                                    *)
(***************************************************************************)
NeverOlder ==
  [][\A query \in Constraints :
       resolved[query] # NoVersion =>
         /\ resolved'[query] # NoVersion
         /\ compareVersions(resolved'[query], resolved[query]) >= 0]_vars
=============================================================================
