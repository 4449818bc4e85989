---------------------------- MODULE Authorization ----------------------------
(***************************************************************************)
(* RBACAuthorizer: policies are added while calls of Authorize are under   *)
(* way.  A call copies the policies under the read lock and works on its   *)
(* copy from then on, so it takes two steps: the copy, and all that        *)
(* follows (sorting, evaluation), which touches nothing shared.            *)
(***************************************************************************)
EXTENDS Patterns, SequencesExt

CONSTANTS
  Policies,       \* the policies that may be added
  Calls,          \* calls of Authorize
  RequestOf,      \* what each call asks: identity, action, resource
  NoIdentity,     \* the nil identity
  MaxPolicies     \* bound on the number of policies

Effects == {"allow", "deny", "other"}   \* "other": any other string

ASSUME AuthorizationAssumption ==
  /\ \A p \in Policies : p.Effect \in Effects /\ p.Priority \in Int
  /\ DOMAIN RequestOf = Calls
  /\ MaxPolicies \in Nat

VARIABLES
  policies,   \* RBACAuthorizer.policies
  pc,         \* per call: "new", "called", "copied", "done"
  known,      \* history: the policies there were when the call was made
  copied,     \* the call's copy of the policies
  answer      \* what Authorize returned

vars == <<policies, pc, known, copied, answer>>

Init ==
  /\ policies = <<>>
  /\ pc = [c \in Calls |-> "new"]
  /\ known = [c \in Calls |-> <<>>]
  /\ copied = [c \in Calls |-> <<>>]
  /\ answer = [c \in Calls |-> "none"]
-----------------------------------------------------------------------------
\* Roles and permissions are sets: only membership is asked.  A required
\* role or permission "*" still needs the identity to have some.
identityMatches(identity, policy) ==
  \/ \E required \in policy.Roles, role \in identity.Roles :
       required = role \/ required = <<Star>>
  \/ \E required \in policy.Permissions, perm \in identity.Permissions :
       matchPattern(required, perm)
  \/ policy.Roles = {} /\ policy.Permissions = {}

fullAction(request) ==
  IF request.resource = <<>> THEN request.action
  ELSE request.action \o <<":">> \o request.resource

Applies(policy, request) ==
  /\ \/ matchPattern(policy.Action, fullAction(request))
     \/ matchPattern(policy.Action, request.action)
  /\ identityMatches(request.identity, policy)

\* Mutant: lowest priority first.
ExchangeUpward(s, i, j) ==
  IF j > i /\ s[j].Priority < s[i].Priority
  THEN [s EXCEPT ![i] = s[j], ![j] = s[i]] ELSE s

\* The body of the two loops of the sort.
Exchange(s, i, j) ==
  IF j > i /\ s[j].Priority > s[i].Priority
  THEN [s EXCEPT ![i] = s[j], ![j] = s[i]] ELSE s

\* The inner loop: what s is after j has passed over it.
Pass(s, i) ==
  LET swept[j \in 0 .. Len(s)] ==
        IF j = 0 THEN s ELSE Exchange(swept[j - 1], i, j)
  IN  swept[Len(s)]

\* Highest priority first.
Sorted(s) ==
  LET passed[i \in 0 .. Len(s)] ==
        IF i = 0 THEN s ELSE Pass(passed[i - 1], i)
  IN  passed[Len(s)]

\* The first policy that applies decides; one whose effect is neither allow
\* nor deny is passed over.
Decision(sorted, request) ==
  LET hits == {k \in DOMAIN sorted : /\ Applies(sorted[k], request)
                                     /\ sorted[k].Effect \in {"allow", "deny"}}
  IN  IF hits = {} THEN "no matching policy"
      ELSE sorted[CHOOSE k \in hits : \A l \in hits : k <= l].Effect
-----------------------------------------------------------------------------
AddPolicy(p) ==
  /\ Len(policies) < MaxPolicies
  /\ policies' = Append(policies, p)
  /\ UNCHANGED <<pc, known, copied, answer>>

\* Authorize is called; a nil identity is an error at once.
Call(c) ==
  /\ pc[c] = "new"
  /\ known' = [known EXCEPT ![c] = policies]
  /\ \/ /\ RequestOf[c].identity = NoIdentity
        /\ pc' = [pc EXCEPT ![c] = "done"]
        /\ answer' = [answer EXCEPT ![c] = "no identity"]
     \/ /\ RequestOf[c].identity # NoIdentity
        /\ pc' = [pc EXCEPT ![c] = "called"]
        /\ UNCHANGED answer
  /\ UNCHANGED <<policies, copied>>

\* The copy, under the read lock.
Copy(c) ==
  /\ pc[c] = "called"
  /\ copied' = [copied EXCEPT ![c] = policies]
  /\ pc' = [pc EXCEPT ![c] = "copied"]
  /\ UNCHANGED <<policies, known, answer>>

\* Sort and evaluate.
Evaluate(c) ==
  /\ pc[c] = "copied"
  /\ answer' = [answer EXCEPT ![c] = Decision(Sorted(copied[c]), RequestOf[c])]
  /\ pc' = [pc EXCEPT ![c] = "done"]
  /\ UNCHANGED <<policies, known, copied>>

Next ==
  \/ \E p \in Policies : AddPolicy(p)
  \/ \E c \in Calls : Call(c) \/ Copy(c) \/ Evaluate(c)

Spec == Init /\ [][Next]_vars
-----------------------------------------------------------------------------
(***************************************************************************)
(* Higher wins, whatever is added in the meantime: an answer rests on a    *)
(* policy that applies and that no applicable policy with the opposite     *)
(* effect outranks among those added before the call was made; and a call  *)
(* ends without a matching policy only when there was none at that time.   *)
(***************************************************************************)
HigherWins ==
  \A c \in Calls :
    pc[c] = "done" /\ RequestOf[c].identity # NoIdentity =>
      LET before == {p \in ToSet(known[c]) : Applies(p, RequestOf[c])}
          now == {p \in ToSet(policies) : Applies(p, RequestOf[c])}
          opposite(e) == IF e = "allow" THEN "deny" ELSE "allow"
      IN  \/ /\ answer[c] = "no matching policy"
             /\ \A p \in before : p.Effect = "other"
          \/ \E p \in now :
               /\ p.Effect = answer[c]
               /\ \A q \in before :
                    q.Effect = opposite(p.Effect) => q.Priority <= p.Priority
=============================================================================
