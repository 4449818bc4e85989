--------------------------- MODULE MCAuthorization ---------------------------
(***************************************************************************)
(* Policies that allow and deny overlapping actions to overlapping sets of *)
(* identities, at different and at equal priorities; and matchPattern on   *)
(* every pattern and every value of bounded length.                        *)
(***************************************************************************)
EXTENDS Authorization

CONSTANTS
  c1, c2, c3,
  Letters,      \* the characters of values
  MaxPattern,   \* bound on the length of a pattern
  MaxValue      \* bound on the length of a value

ASSUME StringsAssumption == MaxPattern \in Nat /\ MaxValue \in Nat

pol(action, roles, perms, effect, priority) ==
  [Action |-> action, Roles |-> roles, Permissions |-> perms,
   Effect |-> effect, Priority |-> priority]

MCPolicies ==
  {pol(<<"*">>, {}, {}, "allow", 1),
   pol(<<"x", ":", "*">>, {<<"r">>}, {}, "deny", 2),
   pol(<<"x">>, {}, {<<"x", "*">>}, "allow", 3),
   pol(<<"x">>, {<<"*">>}, {}, "deny", 3),
   pol(<<"*">>, {}, {}, "other", 4)}

MCRequestOf ==
  c1 :> [identity |-> [Roles |-> {<<"r">>}, Permissions |-> {<<"x", "y">>}],
         action |-> <<"x">>, resource |-> <<"y">>]
  @@ c2 :> [identity |-> NoIdentity, action |-> <<"x">>, resource |-> <<>>]
  @@ c3 :> [identity |-> [Roles |-> {}, Permissions |-> {<<"z">>}],
         action |-> <<"x">>, resource |-> <<>>]
-----------------------------------------------------------------------------
Strings(chars, max) == UNION {[1 .. n -> chars] : n \in 0 .. max}

PatternInputs == Strings(Letters \cup {Star}, MaxPattern)

ValueInputs == Strings(Letters, MaxValue)

\* The two properties of matchPattern are of no state in particular, and are
\* evaluated in the initial one.

HasStar(pattern) == \E i \in DOMAIN pattern : pattern[i] = Star

\* The parts can be laid out in the value, in order and without overlap.
LaidOut(pattern, value) ==
  LET parts == Parts(pattern)
  IN  \E at \in [DOMAIN parts -> 0 .. Len(value)] :
        /\ \A k \in DOMAIN parts : OccursAt(parts[k], value, at[k])
        /\ \A k \in DOMAIN parts :
             k > 1 => at[k - 1] + Len(parts[k - 1]) <= at[k]

(***************************************************************************)
(* Searching the parts from left to right, each at its first occurrence    *)
(* and without going back, misses no match: a pattern with a "*" matches   *)
(* exactly the values in which its parts occur in order and disjointly.    *)
(* (The ends are not anchored: "a*" also matches "ba".)                    *)
(***************************************************************************)
FirstOccurrenceSuffices ==
  Init => \A pattern \in PatternInputs, value \in ValueInputs :
    HasStar(pattern) =>
      (matchPattern(pattern, value) <=> LaidOut(pattern, value))

\* One more character of the pattern, read as a shell does: the lengths of the
\* prefixes of the value that match with it, given those that match without.
ShellStep(reach, c, value) ==
  IF c = Star THEN {j \in 0 .. Len(value) : \E k \in reach : k <= j}
  ELSE {k + 1 : k \in {k \in reach : k < Len(value) /\ value[k + 1] = c}}

ShellMatch(pattern, value) ==
  LET reach[i \in 0 .. Len(pattern)] ==
        IF i = 0 THEN {0} ELSE ShellStep(reach[i - 1], pattern[i], value)
  IN  Len(value) \in reach[Len(pattern)]

(***************************************************************************)
(* A star stands for any characters, none included: when a value matches a *)
(* pattern the way a shell reads it, the code says so too.                 *)
(***************************************************************************)
ShellMatchesAccepted ==
  Init => \A pattern \in PatternInputs, value \in ValueInputs :
    ShellMatch(pattern, value) => matchPattern(pattern, value)
=============================================================================
