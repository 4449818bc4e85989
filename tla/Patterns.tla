------------------------------- MODULE Patterns -------------------------------
(***************************************************************************)
(* matchPattern of the auth package, which compares the action of a policy *)
(* with the action of a request.  Strings are sequences of characters, and *)
(* "*" is the only wildcard the code looks for.                            *)
(***************************************************************************)
EXTENDS Integers, Sequences

Star == "*"

\* The parts with one more character: "*" ends a part, and any other
\* character begins one or belongs to the last.
Split(parts, c, begins) ==
  IF c = Star THEN parts
  ELSE IF begins THEN Append(parts, <<c>>)
  ELSE [parts EXCEPT ![Len(parts)] = Append(@, c)]

\* strings.Split(pattern, "*") without the empty parts, which are skipped.
Parts(pattern) ==
  LET split[i \in 0 .. Len(pattern)] ==
        IF i = 0 THEN <<>>
        ELSE Split(split[i - 1], pattern[i], i = 1 \/ pattern[i - 1] = Star)
  IN  split[Len(pattern)]

OccursAt(part, value, i) ==
  /\ i + Len(part) <= Len(value)
  /\ \A l \in 1 .. Len(part) : value[i + l] = part[l]

NotFound == -1

\* Mutant: the search for the next part starts inside the part just found.
AfterPartOverlaps(value, index, part) ==
  LET found == {i \in index .. Len(value) : OccursAt(part, value, i)}
  IN  IF index = NotFound \/ found = {} THEN NotFound
      ELSE CHOOSE i \in found : \A j \in found : i <= j

\* Mutant: the search finds the last occurrence, not the first.
AfterPartGreedy(value, index, part) ==
  LET found == {i \in index .. Len(value) : OccursAt(part, value, i)}
  IN  IF index = NotFound \/ found = {} THEN NotFound
      ELSE (CHOOSE i \in found : \A j \in found : i >= j) + Len(part)

\* One turn of the loop: the index behind the first occurrence of part in
\* value[index:].
AfterPart(value, index, part) ==
  LET found == {i \in index .. Len(value) : OccursAt(part, value, i)}
  IN  IF index = NotFound \/ found = {} THEN NotFound
      ELSE (CHOOSE i \in found : \A j \in found : i <= j) + Len(part)

\* The index after the loop over the parts.
Search(value, parts) ==
  LET index[k \in 0 .. Len(parts)] ==
        IF k = 0 THEN 0 ELSE AfterPart(value, index[k - 1], parts[k])
  IN  index[Len(parts)]

matchPattern(pattern, value) ==
  \/ pattern = <<Star>>
  \/ pattern = value
  \/ /\ \E i \in DOMAIN pattern : pattern[i] = Star
     /\ Search(value, Parts(pattern)) # NotFound
=============================================================================
