---------------------------- MODULE GatewayProofs ----------------------------
(***************************************************************************)
(* Conservation in Gateway: for any requests through any of the doors, any *)
(* calls they make and any configuration, the tokens of the shared limiter,*)
(* the quota of each instance and its metrics add up; and the doors agree  *)
(* on what a call asks for, who asks and who pays.                         *)
(***************************************************************************)
EXTENDS GatewayParts, FiniteSetTheorems, SequenceTheorems, TLAPS

Undecided == {"new", "limit", "quota", "resolve", "allow", "forward"}

\* The answers that go through RecordRequest.
Recorded == {"unavailable", "engine error", "engine status", "ok"}

(***************************************************************************)
(* Types, and what the stage of a request says of it: it passed the door   *)
(* if it is under way, and its answer is decided by the time it is         *)
(* recorded and not before.                                                *)
(***************************************************************************)
CoreInv ==
  /\ pc \in [Requests -> Stages]
  /\ answer \in [Requests -> Answers \cup {"none"}]
  /\ tokens \in [Keys -> Nat]
  /\ usage \in [Instances -> [DOMAIN QuotaLimit -> Nat]]
  /\ metrics \in [Instances -> Counters]
  /\ ticks \in Nat
  /\ \A r \in Requests :
       /\ pc[r] \notin {"new", "done"} => r \in Passing
       /\ pc[r] \in Undecided => answer[r] = "none"
       /\ pc[r] = "record" => answer[r] \in Recorded

IInv ==
  /\ CoreInv
  /\ RateLimitShared
  /\ QuotaConserved
  /\ MetricsAccount

\* What a step of request r does to its stage and its answer.
Move(r, p, a) ==
  /\ pc' = [pc EXCEPT ![r] = p]
  /\ answer' = [answer EXCEPT ![r] = a]

\* PastLimiter and PastQuota, as predicates of a stage and an answer.
LimiterPassed(p, a) ==
  p \notin {"new", "limit", "done"} \/ a \in LaterAnswers \ {"rate limited"}

QuotaPassed(p, a) ==
  LimiterPassed(p, a) /\ p # "quota" /\ a # "quota exceeded"

-----------------------------------------------------------------------------
\* r is the path q with the segment x after it, if there is one.
Longer(r, q, x, S) ==
  /\ r \in Seq(S)
  /\ \A i \in 1 .. Len(q) : r[i] = q[i]
  /\ x = Empty => Len(r) = Len(q)
  /\ x # Empty => Len(r) = Len(q) + 1 /\ r[Len(q) + 1] = x

\* Joining a segment to a path makes it Longer.
LEMMA OneMore ==
  ASSUME NEW S, NEW q \in Seq(S), NEW x \in S
  PROVE  Longer(q \o Segment(x), q, x, S)
<1>1. CASE x = Empty
  <2>1. q \o Segment(x) = q
    BY <1>1, ConcatEmptySeq, Zenon DEF Segment
  <2>2. Longer(q, q, x, S)
    BY <1>1 DEF Longer
  <2> QED BY <2>1, <2>2, Zenon
<1>2. CASE x # Empty
  <2>1. <<x>> \in Seq(S) /\ Len(<<x>>) = 1 /\ <<x>>[1] = x
    OBVIOUS
  <2>2. Segment(x) = <<x>>
    BY <1>2, Zenon DEF Segment
  <2> PICK one : one = <<x>>  OBVIOUS
  <2>3. /\ q \o one \in Seq(S) /\ Len(q \o one) = Len(q) + Len(one)
        /\ \A i \in 1 .. Len(q) + Len(one) :
             (q \o one)[i] = IF i <= Len(q) THEN q[i] ELSE one[i - Len(q)]
    <3>1. one \in Seq(S)
      BY <2>1, Zenon
    <3> QED BY <3>1, ConcatProperties, Zenon
  <2>4. one[1] = x /\ Len(one) = 1
    BY <2>1
  <2> PICK r : r = q \o one  OBVIOUS
  <2>5. /\ r \in Seq(S) /\ Len(r) = Len(q) + Len(one)
        /\ \A i \in 1 .. Len(q) + Len(one) :
             r[i] = IF i <= Len(q) THEN q[i] ELSE one[i - Len(q)]
    BY <2>3, Zenon
  <2>6. Len(q) \in Nat
    OBVIOUS
  <2>7. Longer(r, q, x, S)
    <3>1. \A i \in 1 .. Len(q) : r[i] = q[i]
      BY <2>4, <2>5, <2>6
    <3>2. r[Len(q) + 1] = x
      BY <2>4, <2>5, <2>6
    <3> QED BY <1>2, <2>4, <2>5, <3>1, <3>2, Zenon DEF Longer
  <2> QED BY <2>2, <2>7, Zenon
<1> QED BY <1>1, <1>2

\* The fields of a call.
LEMMA CallFields ==
  ASSUME NEW call \in Call
  PROVE  /\ call.engine \in Engines \cup {Empty}
         /\ call.version \in VSegments \cup {Empty}
         /\ call.capability \in Segments \cup {Empty}
         /\ call.sub \in Segments \cup {Empty}
         /\ call.Authorization \in Authorizations
         /\ call.APIKey \in APIKeys
         /\ call.tenant \in OptionalTenant
         /\ call.metadataTenant \in OptionalTenant
  BY Zenon DEF Call

\* The engine and the capability that FromHTTP reads from the path are those
\* of the RPC message, unless the call is one of Expressible's exceptions.
LEMMA SameTarget ==
  ASSUME NEW call \in Call, Expressible(call)
  PROVE  FromHTTP(Path(call)) = FromRPC(call)
<1> PICK e, v, c, s : /\ e = call.engine /\ v = call.version
                      /\ c = call.capability /\ s = call.sub
  OBVIOUS
<1>1. /\ e # Empty
      /\ ~(c \in VSegments /\ s # Empty /\ v = Empty)
      /\ c = Empty => v = Empty /\ s = Empty
      /\ v # Empty => v \in VSegments
  BY CallFields DEF Expressible
<1> DEFINE S == {e, v, c, s}
<1>0. PICK p1, p2, p3, p : /\ p1 = Segment(e)
                           /\ p2 = p1 \o Segment(v)
                           /\ p3 = p2 \o Segment(c)
                           /\ p = p3 \o Segment(s)
  OBVIOUS
<1>2. p = Path(call)
  BY <1>0, Zenon DEF Path
<1>3. p1 \in Seq(S) /\ Len(p1) = 1 /\ p1[1] = e
  <2>1. p1 = <<e>>
    BY <1>1, <1>0, Zenon DEF Segment
  <2> QED BY <2>1
<1>4. e \in S /\ v \in S /\ c \in S /\ s \in S
  OBVIOUS
<1> HIDE DEF S
<1>5. /\ p2 \in Seq(S)
      /\ \A i \in 1 .. Len(p1) : p2[i] = p1[i]
      /\ v = Empty => Len(p2) = Len(p1)
      /\ v # Empty => Len(p2) = Len(p1) + 1 /\ p2[Len(p1) + 1] = v
  <2>1. Longer(p1 \o Segment(v), p1, v, S)
    BY <1>3, <1>4, OneMore, Zenon
  <2> QED BY <1>0, <2>1, Zenon DEF Longer
<1>6. /\ p3 \in Seq(S)
      /\ \A i \in 1 .. Len(p2) : p3[i] = p2[i]
      /\ c = Empty => Len(p3) = Len(p2)
      /\ c # Empty => Len(p3) = Len(p2) + 1 /\ p3[Len(p2) + 1] = c
  <2>1. Longer(p2 \o Segment(c), p2, c, S)
    BY <1>4, <1>5, OneMore, Zenon
  <2> QED BY <1>0, <2>1, Zenon DEF Longer
<1>7. /\ p \in Seq(S)
      /\ \A i \in 1 .. Len(p3) : p[i] = p3[i]
      /\ s = Empty => Len(p) = Len(p3)
      /\ s # Empty => Len(p) = Len(p3) + 1 /\ p[Len(p3) + 1] = s
  <2>1. Longer(p3 \o Segment(s), p3, s, S)
    BY <1>4, <1>6, OneMore, Zenon
  <2> QED BY <1>0, <2>1, Zenon DEF Longer
<1>8. CASE c = Empty
  <2>1. Len(p) < 2
    BY <1>1, <1>3, <1>5, <1>6, <1>7, <1>8
  <2>2. FromHTTP(p) = Invalid
    BY <2>1, Zenon DEF FromHTTP
  <2>3. FromRPC(call) = Invalid
    BY <1>8, Zenon DEF FromRPC
  <2> QED BY <1>2, <2>2, <2>3, Zenon
<1>9. CASE c # Empty
  <2>1. FromRPC(call) = <<e, c>>
    BY <1>1, <1>9, Zenon DEF FromRPC
  <2>2. CASE v = Empty
    <3>1. /\ Len(p2) = 1 /\ p2[1] = e
      BY <1>3, <1>5, <2>2
    <3>2. /\ Len(p3) = 2 /\ p3[1] = e /\ p3[2] = c
      BY <1>6, <1>9, <3>1
    <3>3. p[1] = e /\ p[2] = c
      BY <1>7, <3>2
    <3>4. ~(Len(p) < 2) /\ (Len(p) >= 3 => s # Empty)
      <4>1. s = Empty => Len(p) = 2
        BY <1>7, <3>2, Zenon
      <4>2. s # Empty => Len(p) = 2 + 1
        BY <1>7, <3>2, Zenon
      <4>3. \A k : (k = 2 => ~(k < 2) /\ ~(k >= 3)) /\ (k = 2 + 1 => ~(k < 2))
        OBVIOUS
      <4> QED BY <4>1, <4>2, <4>3, Zenon
    <3>5. ~(Len(p) >= 3 /\ p[2] \in VSegments)
      BY <1>1, <2>2, <3>3, <3>4, Zenon
    <3>6. FromHTTP(p) = <<p[1], p[2]>>
      BY <3>4, <3>5, Zenon DEF FromHTTP
    <3> QED BY <1>2, <2>1, <3>3, <3>6, Zenon
  <2>3. CASE v # Empty
    <3>1. /\ Len(p2) = 2 /\ p2[1] = e /\ p2[2] = v
      BY <1>3, <1>5, <2>3
    <3>2. /\ Len(p3) = 3 /\ p3[1] = e /\ p3[2] = v /\ p3[3] = c
      BY <1>6, <1>9, <3>1
    <3>3. p[1] = e /\ p[2] = v /\ p[3] = c
      BY <1>7, <3>2
    <3>4. ~(Len(p) < 2) /\ Len(p) >= 3
      BY <1>7, <3>2
    <3>5. p[2] \in VSegments
      BY <1>1, <2>3, <3>3, Zenon
    <3>6. FromHTTP(p) = <<p[1], p[3]>>
      BY <3>4, <3>5, Zenon DEF FromHTTP
    <3> QED BY <1>2, <2>1, <3>3, <3>6, Zenon
  <2> QED BY <2>2, <2>3
<1> QED BY <1>8, <1>9

\* The outcome of a call that passes, but for the verdict.
WithVerdict(outcome, v) == [outcome EXCEPT !.verdict = v]

\* An outcome that names a question and a key.
Answer(v, q, k) == [verdict |-> v, question |-> q, key |-> k]

\* Overwriting the verdict changes nothing else.
LEMMA Overwritten ==
  \A v, w, x, y : WithVerdict(Answer(v, x, y), w) = Answer(w, x, y)
  BY DEF WithVerdict, Answer

\* SamePolicy holds of each call at each setting: target, identity and tenant
\* are the same at both doors, so their outcomes differ by resolves alone.
LEMMA PolicyHolds ==
  ASSUME NEW setting \in Setting, NEW call \in Call
  PROVE  SamePolicy(setting, call)
<1> SUFFICES ASSUME Expressible(call)
             PROVE  \/ HTTPDoor(setting, call) = RPCDoor(setting, call)
                    \/ /\ setting.tenantResolver /\ ~TenantResolves(call)
                       /\ HTTPDoor(setting, call) =
                            [RPCDoor(setting, call) EXCEPT !.verdict = "no tenant"]
  BY DEF SamePolicy
<1> DEFINE target == FromRPC(call)
           id == Identity(setting, RPCCredentials(call))
           resolves == setting.tenantResolver => TenantResolves(call)
           http == HTTPDoor(setting, call)
           rpc == RPCDoor(setting, call)
<1>1. FromHTTP(Path(call)) = target
  BY SameTarget
<1>2. HTTPCredentials(call) = RPCCredentials(call)
  BY CallFields DEF Expressible, HTTPCredentials, RPCCredentials
<1>3. HTTPTenant(call) = call.tenant /\ RPCTenant(call) = call.tenant
  BY DEF Expressible, HTTPTenant, RPCTenant
<1>4. /\ http = Outcome(target, id, call.tenant, resolves, call.tenant)
      /\ rpc = Outcome(target, id, call.tenant, TRUE, call.tenant)
  BY <1>1, <1>2, <1>3, Zenon DEF HTTPDoor, RPCDoor
<1>5. ~resolves => setting.tenantResolver /\ ~TenantResolves(call)
  BY Zenon
<1>6. resolves \in BOOLEAN
  BY Zenon
<1> HIDE DEF target, id, resolves, http, rpc
<1>7. CASE resolves
  <2>1. resolves = TRUE
    BY <1>7, <1>6, Zenon
  <2>2. http = rpc
    BY <1>4, <2>1, Zenon
  <2> QED BY <2>2, Zenon DEF http, rpc
<1>8. CASE ~resolves
  <2>1. CASE target = Invalid \/ id = Rejected
    <3>1. http = rpc
      BY <1>4, <2>1, Zenon DEF Outcome
    <3> QED BY <3>1, Zenon DEF http, rpc
  <2>2. CASE target # Invalid /\ id # Rejected
    <3>0. PICK q, k, pass, fail :
            /\ q = <<id, target, call.tenant>>
            /\ k = rateLimitKey(call.tenant, target[1])
            /\ pass = "passes" /\ fail = "no tenant"
      OBVIOUS
    <3>1. http = Answer(fail, q, k)
      BY <1>4, <1>8, <2>2, <3>0, Zenon DEF Outcome, Answer
    <3>2. rpc = Answer(pass, q, k)
      BY <1>4, <2>2, <3>0, Zenon DEF Outcome, Answer
    <3>3. WithVerdict(Answer(pass, q, k), fail) = Answer(fail, q, k)
      BY Overwritten
    <3>4. http = WithVerdict(rpc, fail)
      BY <3>1, <3>2, <3>3, Zenon
    <3>5. http = [rpc EXCEPT !.verdict = fail]
      BY <3>4, Zenon DEF WithVerdict
    <3> QED BY <1>5, <1>8, <3>0, <3>5, Zenon DEF http, rpc
  <2> QED BY <2>1, <2>2
<1> QED BY <1>7, <1>8 DEF http, rpc

(***************************************************************************)
(* The same policy at every door, for every engine, segment, tenant and    *)
(* host: what fromHTTP, FromGRPC and the header lookups of server.go and   *)
(* the RPC servers read from one call agrees, the named exceptions aside.  *)
(***************************************************************************)
THEOREM DoorsTreatAlike == Spec => []DoorsAgree
<1>1. DoorsAgree
  BY PolicyHolds, Zenon DEF DoorsAgree
<1> QED BY <1>1, PTL

USE GatewayAssumption DEF Count

-----------------------------------------------------------------------------
\* A request that the door lets pass has a key.
LEMMA PassingKeys ==
  /\ Passing \subseteq Requests
  /\ \A r \in Passing : KeyOf(r) \in Keys
  BY DEF Passing, Keys, KeyOf

\* Every request is served by one of the two instances.
LEMMA InstancesTyped == \A r \in Requests : InstanceOf(r) \in Instances
  BY DEF InstanceOf, Instances

\* Every set of requests has a number, and one more request adds one to it.
LEMMA RequestCounts ==
  ASSUME NEW S \in SUBSET Requests
  PROVE  /\ Cardinality(S) \in Nat
         /\ \A r \in Requests \ S :
              Cardinality(S \cup {r}) = Cardinality(S) + 1
<1>1. IsFiniteSet(Requests)
  BY DEF Requests
<1>2. IsFiniteSet(S)
  BY <1>1, FS_Subset
<1> QED
  BY <1>2, FS_CardinalityType, FS_AddElement

\* A request gets past the limiter or it stays on its side of it.
LEMMA LimiterMoves ==
  ASSUME CoreInv, NEW r \in Requests, NEW p, NEW a, Move(r, p, a)
  PROVE  /\ r \in PastLimiter <=> LimiterPassed(pc[r], answer[r])
         /\ (LimiterPassed(p, a) <=> LimiterPassed(pc[r], answer[r]))
              => PastLimiter' = PastLimiter
         /\ LimiterPassed(p, a) /\ ~LimiterPassed(pc[r], answer[r])
              => PastLimiter' = PastLimiter \cup {r}
  BY DEF CoreInv, Move, LimiterPassed, PastLimiter

\* The same of the quota.
LEMMA QuotaMoves ==
  ASSUME CoreInv, NEW r \in Requests, NEW p, NEW a, Move(r, p, a)
  PROVE  /\ r \in PastQuota <=> QuotaPassed(pc[r], answer[r])
         /\ (QuotaPassed(p, a) <=> QuotaPassed(pc[r], answer[r]))
              => PastQuota' = PastQuota
         /\ QuotaPassed(p, a) /\ ~QuotaPassed(pc[r], answer[r])
              => PastQuota' = PastQuota \cup {r}
  BY DEF CoreInv, Move, LimiterPassed, QuotaPassed, PastLimiter, PastQuota

\* The requests of instance i that were answered with one of S.
Answered(i, S) == {r \in RequestsOf(i) : At(r, "done") /\ answer[r] \in S}

FailedAt(i) ==
  IF i = "http" THEN {"unavailable", "engine error"}
  ELSE {"unavailable", "engine error", "engine status"}

\* The requests that took a token of key k, and those that the quota of
\* instance i charged to tenant t.
Holders(k) == {r \in PastLimiter : KeyOf(r) = k}

Charges(i, t) == {r \in PastQuota : InstanceOf(r) = i /\ TenantOf(r) = t}

\* A step that does not end a request with a recorded answer leaves the
\* recorded ones alone.
LEMMA AnsweredMoves ==
  ASSUME CoreInv, NEW r \in Requests, NEW p, NEW a, Move(r, p, a),
         NEW i \in Instances, NEW S \in SUBSET Recorded, pc[r] # "done"
  PROVE  /\ p # "done" \/ a \notin S \/ InstanceOf(r) # i
              => Answered(i, S)' = Answered(i, S)
         /\ p = "done" /\ a \in S /\ InstanceOf(r) = i
              => Answered(i, S)' = Answered(i, S) \cup {r}
         /\ r \notin Answered(i, S)
  BY DEF CoreInv, Move, Answered, RequestsOf, At

\* MetricsAccount in terms of the answered requests.
LEMMA MetricsMeaning ==
  MetricsAccount <=>
    \A i \in Instances :
      /\ metrics[i].ErrorCount = Cardinality(Answered(i, FailedAt(i)))
      /\ metrics[i].RequestCount = Cardinality(Answered(i, Recorded))
      /\ metrics[i].SuccessCount + metrics[i].ErrorCount
           = metrics[i].RequestCount
  BY DEF MetricsAccount, Answered, FailedAt, Recorded

-----------------------------------------------------------------------------
\* Initially nobody is past anything, and nothing was counted.
LEMMA InitIInv == Init => IInv
<1> SUFFICES ASSUME Init PROVE IInv
  OBVIOUS
<1> USE DEF Init
<1>1. CoreInv
  BY DEF CoreInv, Stages, Answers, Counters, Undecided, Recorded
<1>2. Cardinality({}) = 0
  BY FS_EmptySet
<1>3. PastLimiter = {}
  BY DEF PastLimiter, LaterAnswers
<1>4. RateLimitShared
  <2>1. ASSUME NEW k \in Keys
        PROVE  Cardinality(Holders(k)) = 0 /\ tokens[k] = Capacity
    <3>1. Holders(k) = {}
      BY <1>3 DEF Holders
    <3> QED
      BY <1>2, <3>1
  <2>2. \A k \in Keys : Cardinality(Holders(k)) + tokens[k] <= Capacity + ticks
    BY <2>1
  <2> QED
    BY <2>2 DEF RateLimitShared, Holders
<1>5. QuotaConserved
  <2>1. ASSUME NEW i \in Instances, NEW t \in DOMAIN QuotaLimit
        PROVE  Cardinality(Charges(i, t)) = 0
    <3>1. Charges(i, t) = {}
      BY <1>3 DEF Charges, PastQuota
    <3> QED
      BY <1>2, <3>1
  <2>2. \A i \in Instances : \A t \in DOMAIN QuotaLimit :
          usage[i][t] = Cardinality(Charges(i, t)) /\ usage[i][t] <= QuotaLimit[t]
    BY <2>1
  <2> QED
    BY <2>2 DEF QuotaConserved, Charges
<1>6. MetricsAccount
  <2>1. ASSUME NEW i \in Instances, NEW S PROVE Cardinality(Answered(i, S)) = 0
    <3>1. Answered(i, S) = {}
      BY DEF Answered, RequestsOf, At
    <3> QED
      BY <1>2, <3>1
  <2>2. ASSUME NEW i \in Instances
        PROVE  /\ metrics[i].ErrorCount = Cardinality(Answered(i, FailedAt(i)))
               /\ metrics[i].RequestCount = Cardinality(Answered(i, Recorded))
               /\ metrics[i].SuccessCount + metrics[i].ErrorCount
                    = metrics[i].RequestCount
    BY <2>1
  <2> QED
    BY <2>2, MetricsMeaning
<1> QED
  BY <1>1, <1>4, <1>5, <1>6 DEF IInv

-----------------------------------------------------------------------------
\* A move to a stage that suits the answer keeps CoreInv.
LEMMA CoreMove ==
  ASSUME CoreInv, NEW r \in Requests, NEW p \in Stages,
         NEW a \in Answers \cup {"none"}, Move(r, p, a),
         p \notin {"new", "done"} => r \in Passing,
         p \in Undecided => a = "none",
         p = "record" => a \in Recorded,
         tokens' \in [Keys -> Nat],
         usage' \in [Instances -> [DOMAIN QuotaLimit -> Nat]],
         metrics' \in [Instances -> Counters],
         ticks' \in Nat
  PROVE  CoreInv'
<1>1. pc' \in [Requests -> Stages] /\ answer' \in [Requests -> Answers \cup {"none"}]
  BY DEF CoreInv, Move
<1>2. ASSUME NEW q \in Requests
      PROVE  /\ pc'[q] \notin {"new", "done"} => q \in Passing
             /\ pc'[q] \in Undecided => answer'[q] = "none"
             /\ pc'[q] = "record" => answer'[q] \in Recorded
  BY DEF CoreInv, Move
<1>3. Passing' = Passing /\ Keys' = Keys
  BY DEF Passing, Keys
<1> QED
  BY <1>1, <1>2, <1>3 DEF CoreInv

\* A request that stays on its side of the limiter.
LEMMA LimiterQuiet ==
  ASSUME IInv, NEW r \in Requests, NEW p, NEW a, Move(r, p, a),
         LimiterPassed(p, a) <=> LimiterPassed(pc[r], answer[r]),
         UNCHANGED <<tokens, ticks>>
  PROVE  RateLimitShared'
<1>1. PastLimiter' = PastLimiter
  BY LimiterMoves DEF IInv
<1> QED
  BY <1>1 DEF IInv, RateLimitShared, Keys, KeyOf

\* A request that stays on its side of the quota, or has none.
LEMMA QuotaQuiet ==
  ASSUME IInv, NEW r \in Requests, NEW p, NEW a, Move(r, p, a),
         \/ QuotaPassed(p, a) <=> QuotaPassed(pc[r], answer[r])
         \/ /\ QuotaPassed(p, a) /\ ~QuotaPassed(pc[r], answer[r])
            /\ TenantOf(r) \notin DOMAIN QuotaLimit,
         UNCHANGED usage
  PROVE  QuotaConserved'
<1>1. \/ PastQuota' = PastQuota
      \/ /\ PastQuota' = PastQuota \cup {r}
         /\ TenantOf(r) \notin DOMAIN QuotaLimit
  <2>1. CASE QuotaPassed(p, a) <=> QuotaPassed(pc[r], answer[r])
    BY <2>1, QuotaMoves DEF IInv
  <2>2. CASE /\ QuotaPassed(p, a) /\ ~QuotaPassed(pc[r], answer[r])
             /\ TenantOf(r) \notin DOMAIN QuotaLimit
    BY <2>2, QuotaMoves DEF IInv
  <2> QED
    BY <2>1, <2>2
<1>2. ASSUME NEW i \in Instances, NEW t \in DOMAIN QuotaLimit
      PROVE  {q \in PastQuota' : InstanceOf(q) = i /\ TenantOf(q) = t}
               = {q \in PastQuota : InstanceOf(q) = i /\ TenantOf(q) = t}
  BY <1>1
<1> QED
  BY <1>2 DEF IInv, QuotaConserved, InstanceOf, TenantOf, KeyOf

\* A step that ends no request with a recorded answer.
LEMMA MetricsQuiet ==
  ASSUME IInv, NEW r \in Requests, NEW p, NEW a, Move(r, p, a),
         pc[r] # "done", p # "done" \/ a \notin Recorded,
         UNCHANGED metrics
  PROVE  MetricsAccount'
<1>1. ASSUME NEW i \in Instances, NEW S \in SUBSET Recorded
      PROVE  Answered(i, S)' = Answered(i, S)
  BY <1>1, AnsweredMoves DEF IInv
<1>2. ASSUME NEW i \in Instances PROVE FailedAt(i) \in SUBSET Recorded
  BY DEF FailedAt, Recorded
<1>3. ASSUME NEW i \in Instances
      PROVE  /\ Answered(i, FailedAt(i))' = Answered(i, FailedAt(i))
             /\ Answered(i, Recorded)' = Answered(i, Recorded)
  BY <1>1, <1>2 DEF Answered, FailedAt, Recorded
<1>4. MetricsAccount
  BY DEF IInv
<1> QED
  BY <1>3, <1>4 DEF MetricsAccount, Answered, FailedAt, Recorded

\* A step that changes none of the three books.
LEMMA QuietIInv ==
  ASSUME IInv, NEW r \in Requests, NEW p \in Stages,
         NEW a \in Answers \cup {"none"}, Move(r, p, a),
         p \notin {"new", "done"} => r \in Passing,
         p \in Undecided => a = "none",
         p = "record" => a \in Recorded,
         pc[r] # "done", p # "done" \/ a \notin Recorded,
         LimiterPassed(p, a) <=> LimiterPassed(pc[r], answer[r]),
         QuotaPassed(p, a) <=> QuotaPassed(pc[r], answer[r]),
         UNCHANGED <<tokens, usage, metrics, ticks>>
  PROVE  IInv'
<1>1. CoreInv'
  BY CoreMove DEF IInv, CoreInv
<1>2. RateLimitShared' /\ QuotaConserved' /\ MetricsAccount'
  BY LimiterQuiet, QuotaQuiet, MetricsQuiet
<1> QED
  BY <1>1, <1>2 DEF IInv

-----------------------------------------------------------------------------
\* RecordRequest counts the request once.
LEMMA Counting ==
  ASSUME NEW m \in Counters, NEW success
  PROVE  LET n == RecordRequest(m, success)
         IN  /\ n \in Counters
             /\ n.RequestCount = m.RequestCount + 1
             /\ success => /\ n.SuccessCount = m.SuccessCount + 1
                           /\ n.ErrorCount = m.ErrorCount
             /\ ~success => /\ n.SuccessCount = m.SuccessCount
                            /\ n.ErrorCount = m.ErrorCount + 1
<1>1. /\ m.RequestCount + 1 \in Nat /\ m.SuccessCount + 1 \in Nat
      /\ m.ErrorCount + 1 \in Nat
  BY DEF Counters
<1>2. CASE success
  BY <1>1, <1>2 DEF RecordRequest, Counters
<1>3. CASE ~success
  BY <1>1, <1>3 DEF RecordRequest, Counters
<1> QED
  BY <1>2, <1>3

\* A request whose outcome is recorded.
LEMMA RecordIInv == ASSUME IInv, NEW r \in Requests, Record(r) PROVE IInv'
<1> DEFINE i == InstanceOf(r)
           s == RecordedAsSuccess(r)
<1>1. /\ r \in Passing /\ answer[r] \in Recorded /\ i \in Instances
      /\ pc[r] = "record"
  BY InstancesTyped DEF IInv, CoreInv, Record, Reaches, At
<1>2. Move(r, "done", answer[r])
  BY DEF IInv, CoreInv, Record, Move
<1>3. metrics \in [Instances -> Counters]
  BY DEF IInv, CoreInv
<1>4. /\ metrics'[i].RequestCount = metrics[i].RequestCount + 1
      /\ s => /\ metrics'[i].SuccessCount = metrics[i].SuccessCount + 1
              /\ metrics'[i].ErrorCount = metrics[i].ErrorCount
      /\ ~s => /\ metrics'[i].SuccessCount = metrics[i].SuccessCount
               /\ metrics'[i].ErrorCount = metrics[i].ErrorCount + 1
      /\ metrics' \in [Instances -> Counters]
      /\ \A j \in Instances \ {i} : metrics'[j] = metrics[j]
  <2>2. metrics' = [metrics EXCEPT ![i] = RecordRequest(metrics[i], s)]
    BY DEF Record
  <2>3. metrics'[i] = RecordRequest(metrics[i], s)
    BY <1>1, <1>3, <2>2
  <2>4. metrics[i] \in Counters
    BY <1>1, <1>3
  <2>5. \A j \in Instances \ {i} : metrics'[j] = metrics[j]
    BY <1>3, <2>2
  <2>6. metrics'[i] \in Counters
    BY <2>3, <2>4, Counting
  <2>7. metrics' \in [Instances -> Counters]
    BY <1>3, <2>2, <2>3, <2>6
  <2> HIDE DEF s
  <2>8. /\ metrics'[i].RequestCount = metrics[i].RequestCount + 1
        /\ s => /\ metrics'[i].SuccessCount = metrics[i].SuccessCount + 1
                /\ metrics'[i].ErrorCount = metrics[i].ErrorCount
        /\ ~s => /\ metrics'[i].SuccessCount = metrics[i].SuccessCount
                 /\ metrics'[i].ErrorCount = metrics[i].ErrorCount + 1
    <3> DEFINE m == metrics[i]
               n == metrics'[i]
    <3>1. m \in Counters /\ n = RecordRequest(m, s)
      BY <2>3, <2>4
    <3> HIDE DEF m, n
    <3>2. /\ n.RequestCount = m.RequestCount + 1
          /\ s => n.SuccessCount = m.SuccessCount + 1 /\ n.ErrorCount = m.ErrorCount
          /\ ~s => n.SuccessCount = m.SuccessCount /\ n.ErrorCount = m.ErrorCount + 1
      BY <3>1, Counting
    <3> QED
      BY <3>2 DEF m, n
  <2> QED
    BY <2>5, <2>7, <2>8
<1>5. UNCHANGED <<answer, tokens, usage, ticks>>
  BY DEF Record
<1>6. CoreInv'
  BY <1>1, <1>2, <1>4, <1>5, CoreMove
     DEF IInv, CoreInv, Stages, Answers, LaterAnswers, Recorded, Undecided
<1>7. RateLimitShared' /\ QuotaConserved'
  BY <1>1, <1>2, <1>5, LimiterQuiet, QuotaQuiet
     DEF LimiterPassed, QuotaPassed, Recorded, LaterAnswers
<1>8. s <=> answer[r] \notin FailedAt(i)
  BY <1>1 DEF RecordedAsSuccess, FailedAt, InstanceOf, Instances, Recorded
<1>9. ASSUME NEW j \in Instances
      PROVE  /\ metrics'[j].ErrorCount = Cardinality(Answered(j, FailedAt(j))')
             /\ metrics'[j].RequestCount = Cardinality(Answered(j, Recorded)')
             /\ metrics'[j].SuccessCount + metrics'[j].ErrorCount
                  = metrics'[j].RequestCount
  <2>1. /\ metrics[j].ErrorCount = Cardinality(Answered(j, FailedAt(j)))
        /\ metrics[j].RequestCount = Cardinality(Answered(j, Recorded))
        /\ metrics[j].SuccessCount + metrics[j].ErrorCount
             = metrics[j].RequestCount
        /\ metrics[j] \in Counters
    BY <1>3, MetricsMeaning DEF IInv
  <2>2. ASSUME NEW S \in SUBSET Recorded
        PROVE  Cardinality(Answered(j, S)') =
                 IF j = i /\ answer[r] \in S
                   THEN Cardinality(Answered(j, S)) + 1
                   ELSE Cardinality(Answered(j, S))
    <3>1. /\ j = i /\ answer[r] \in S => Answered(j, S)' = Answered(j, S) \cup {r}
          /\ ~(j = i /\ answer[r] \in S) => Answered(j, S)' = Answered(j, S)
          /\ r \notin Answered(j, S)
      BY <1>1, <1>2, AnsweredMoves DEF IInv
    <3>2. Answered(j, S) \in SUBSET Requests
      BY DEF Answered, RequestsOf
    <3> QED
      BY <3>1, <3>2, RequestCounts
  <2>3. FailedAt(j) \in SUBSET Recorded
    BY DEF FailedAt, Recorded
  <2>4. CASE j # i
    <3>1. /\ Cardinality(Answered(j, FailedAt(j))')
               = Cardinality(Answered(j, FailedAt(j)))
          /\ Cardinality(Answered(j, Recorded)')
               = Cardinality(Answered(j, Recorded))
      BY <2>2, <2>3, <2>4
    <3> QED
      BY <1>4, <2>1, <2>4, <3>1
  <2>5. CASE j = i
    <3>1. Cardinality(Answered(j, Recorded)')
            = Cardinality(Answered(j, Recorded)) + 1
      BY <1>1, <2>2, <2>5
    <3>2. /\ s => Cardinality(Answered(j, FailedAt(j))')
                    = Cardinality(Answered(j, FailedAt(j)))
          /\ ~s => Cardinality(Answered(j, FailedAt(j))')
                     = Cardinality(Answered(j, FailedAt(j))) + 1
      BY <1>8, <2>2, <2>3, <2>5
    <3>3. /\ metrics[j].SuccessCount \in Nat /\ metrics[j].ErrorCount \in Nat
          /\ metrics[j].RequestCount \in Nat
      BY <2>1 DEF Counters
    <3> QED
      BY <1>4, <2>1, <2>5, <3>1, <3>2, <3>3
  <2> QED
    BY <2>4, <2>5
<1>10. MetricsAccount'
  BY <1>9 DEF MetricsAccount, Answered, FailedAt, Recorded
<1> QED
  BY <1>6, <1>7, <1>10 DEF IInv

\* The clock gives each bucket at most one token.
LEMMA TickIInv == ASSUME IInv, Tick PROVE IInv'
<1>0. tokens \in [Keys -> Nat] /\ ticks \in Nat
  BY DEF IInv, CoreInv
<1>1. /\ ticks' \in Nat
      /\ tokens' \in [Keys -> Nat] /\ ticks' = ticks + 1
      /\ \A k \in Keys : tokens'[k] <= tokens[k] + 1
      /\ UNCHANGED <<pc, answer, usage, metrics>>
  BY <1>0 DEF Tick
<1>2. CoreInv'
  BY <1>1 DEF IInv, CoreInv, Passing, Keys
<1>3. PastLimiter' = PastLimiter /\ PastQuota' = PastQuota
  BY <1>1 DEF PastLimiter, PastQuota
<1>4. ASSUME NEW k \in Keys
      PROVE  Cardinality(Holders(k)') + tokens'[k] <= Capacity + ticks'
  <2>1. Holders(k)' = Holders(k) /\ Cardinality(Holders(k)) \in Nat
    <3>1. Holders(k) \in SUBSET Requests
      BY DEF Holders, PastLimiter
    <3> QED
      BY <1>3, <3>1, RequestCounts DEF Holders, KeyOf
  <2>2. Cardinality(Holders(k)) + tokens[k] <= Capacity + ticks
    BY DEF IInv, RateLimitShared, Holders
  <2>3. tokens[k] \in Nat /\ tokens'[k] \in Nat /\ tokens'[k] <= tokens[k] + 1
    BY <1>0, <1>1
  <2> QED
    BY <1>0, <1>1, <2>1, <2>2, <2>3
<1>5. RateLimitShared'
  BY <1>4 DEF RateLimitShared, Holders, Keys, KeyOf
<1>6. QuotaConserved' /\ MetricsAccount'
  <2>1. QuotaConserved'
    BY <1>1, <1>3 DEF IInv, QuotaConserved, InstanceOf, TenantOf, KeyOf
  <2>2. MetricsAccount'
    BY <1>1 DEF IInv, MetricsAccount, RequestsOf, InstanceOf, At
  <2> QED
    BY <2>1, <2>2
<1> QED
  BY <1>2, <1>5, <1>6 DEF IInv

-----------------------------------------------------------------------------
USE DEF Stages, Answers, LaterAnswers, Undecided, Recorded, Reaches, At

\* What each way of going on does to stage and answer.
LEMMA Moves ==
  ASSUME CoreInv, NEW r \in Requests
  PROVE  /\ \A p : Proceed(r, p) => Move(r, p, answer[r])
         /\ \A a : Respond(r, a) => Move(r, "done", a)
         /\ \A a : Decide(r, a) => Move(r, "record", a)
  BY DEF CoreInv, Proceed, Respond, Decide, Move

\* A request that takes a token.
LEMMA GrantIInv ==
  ASSUME IInv, NEW r \in Requests, At(r, "limit"), tokens[KeyOf(r)] >= 1,
         tokens' = [tokens EXCEPT ![KeyOf(r)] = @ - 1],
         Move(r, "quota", answer[r]), UNCHANGED <<usage, metrics, ticks>>
  PROVE  IInv'
<1>1. r \in Passing /\ answer[r] = "none" /\ KeyOf(r) \in Keys
  BY PassingKeys DEF IInv, CoreInv
<1>2. tokens' \in [Keys -> Nat]
  <2>1. tokens \in [Keys -> Nat]
    BY DEF IInv, CoreInv
  <2>2. tokens[KeyOf(r)] - 1 \in Nat
    BY <1>1, <2>1
  <2> QED
    BY <2>1, <2>2
<1>3. CoreInv'
  BY <1>1, <1>2, CoreMove DEF IInv, CoreInv
<1>4. QuotaConserved' /\ MetricsAccount'
  BY <1>1, QuotaQuiet, MetricsQuiet DEF QuotaPassed, LimiterPassed
<1>5. PastLimiter' = PastLimiter \cup {r} /\ r \notin PastLimiter
  <2>1. LimiterPassed("quota", answer[r]) /\ ~LimiterPassed(pc[r], answer[r])
    BY <1>1 DEF LimiterPassed
  <2> QED
    BY <2>1, LimiterMoves DEF IInv
<1>6. ASSUME NEW k \in Keys
      PROVE  Cardinality(Holders(k)') + tokens'[k] <= Capacity + ticks'
  <2>1. Cardinality(Holders(k)) + tokens[k] <= Capacity + ticks
    BY DEF IInv, RateLimitShared, Holders
  <2>2. /\ Cardinality(Holders(k)) \in Nat
        /\ \A q \in Requests \ Holders(k) :
             Cardinality(Holders(k) \cup {q}) = Cardinality(Holders(k)) + 1
    <3>1. Holders(k) \in SUBSET Requests
      BY DEF Holders, PastLimiter
    <3> QED
      BY <3>1, RequestCounts
  <2>3. /\ tokens[k] \in Nat /\ ticks \in Nat
        /\ k = KeyOf(r) => tokens'[k] = tokens[k] - 1
        /\ k # KeyOf(r) => tokens'[k] = tokens[k]
    BY <1>1 DEF IInv, CoreInv
  <2>4. CASE k = KeyOf(r)
    <3>1. Holders(k)' = Holders(k) \cup {r} /\ r \notin Holders(k)
      BY <1>5, <2>4 DEF Holders, KeyOf
    <3>2. Cardinality(Holders(k)') = Cardinality(Holders(k)) + 1
      BY <2>2, <3>1
    <3> QED
      BY <2>1, <2>2, <2>3, <2>4, <3>2
  <2>5. CASE k # KeyOf(r)
    <3>1. Holders(k)' = Holders(k)
      BY <1>5, <2>5 DEF Holders, KeyOf
    <3> QED
      BY <2>1, <2>3, <2>5, <3>1
  <2> QED
    BY <2>4, <2>5
<1>7. RateLimitShared'
  BY <1>6 DEF RateLimitShared, Holders, Keys, KeyOf
<1> QED
  BY <1>3, <1>4, <1>7 DEF IInv

\* A request that the quota charges.
LEMMA ChargeIInv ==
  ASSUME IInv, NEW r \in Requests, At(r, "quota"), Limited(r),
         Used(r) + 1 <= QuotaLimit[TenantOf(r)],
         usage' = [usage EXCEPT ![InstanceOf(r)][TenantOf(r)] = @ + 1],
         Move(r, "resolve", answer[r]), UNCHANGED <<tokens, metrics, ticks>>
  PROVE  IInv'
<1>1. /\ r \in Passing /\ answer[r] = "none"
      /\ InstanceOf(r) \in Instances /\ TenantOf(r) \in DOMAIN QuotaLimit
  BY InstancesTyped DEF IInv, CoreInv, Limited
<1>2. usage' \in [Instances -> [DOMAIN QuotaLimit -> Nat]]
  <2>1. usage \in [Instances -> [DOMAIN QuotaLimit -> Nat]]
    BY DEF IInv, CoreInv
  <2>2. usage[InstanceOf(r)][TenantOf(r)] + 1 \in Nat
    BY <1>1, <2>1
  <2> QED
    BY <2>1, <2>2
<1>3. CoreInv'
  BY <1>1, <1>2, CoreMove DEF IInv, CoreInv
<1>4. RateLimitShared' /\ MetricsAccount'
  BY <1>1, LimiterQuiet, MetricsQuiet DEF LimiterPassed
<1>5. PastQuota' = PastQuota \cup {r} /\ r \notin PastQuota
  <2>1. QuotaPassed("resolve", answer[r]) /\ ~QuotaPassed(pc[r], answer[r])
    BY <1>1 DEF LimiterPassed, QuotaPassed
  <2> QED
    BY <2>1, QuotaMoves DEF IInv
<1>6. ASSUME NEW i \in Instances, NEW t \in DOMAIN QuotaLimit
      PROVE  /\ usage'[i][t] = Cardinality(Charges(i, t)')
             /\ usage'[i][t] <= QuotaLimit[t]
  <2>1. /\ usage[i][t] = Cardinality(Charges(i, t))
        /\ usage[i][t] <= QuotaLimit[t]
    BY DEF IInv, QuotaConserved, Charges
  <2>2. \A q \in Requests \ Charges(i, t) :
          Cardinality(Charges(i, t) \cup {q}) = Cardinality(Charges(i, t)) + 1
    <3>1. Charges(i, t) \in SUBSET Requests
      BY DEF Charges, PastQuota, PastLimiter
    <3> QED
      BY <3>1, RequestCounts
  <2>3. CASE i = InstanceOf(r) /\ t = TenantOf(r)
    <3>1. Charges(i, t)' = Charges(i, t) \cup {r} /\ r \notin Charges(i, t)
      BY <1>5, <2>3 DEF Charges, InstanceOf, TenantOf, KeyOf
    <3>2. Cardinality(Charges(i, t)') = Cardinality(Charges(i, t)) + 1
      BY <2>2, <3>1
    <3>3. usage'[i][t] = usage[i][t] + 1 /\ Used(r) = usage[i][t]
      BY <1>1, <2>3 DEF IInv, CoreInv, Used
    <3> QED
      BY <2>1, <2>3, <3>2, <3>3
  <2>4. CASE ~(i = InstanceOf(r) /\ t = TenantOf(r))
    <3>1. Charges(i, t)' = Charges(i, t)
      BY <1>5, <2>4 DEF Charges, InstanceOf, TenantOf, KeyOf
    <3>2. usage'[i][t] = usage[i][t]
      BY <1>1, <2>4 DEF IInv, CoreInv
    <3> QED
      BY <2>1, <3>1, <3>2
  <2> QED
    BY <2>3, <2>4
<1>7. QuotaConserved'
  BY <1>6 DEF QuotaConserved, Charges
<1> QED
  BY <1>3, <1>4, <1>7 DEF IInv

-----------------------------------------------------------------------------
\* Every step keeps the books.
LEMMA NextIInv == IInv /\ [Next]_vars => IInv'
<1> SUFFICES ASSUME IInv, [Next]_vars PROVE IInv'
  OBVIOUS
<1>1. CASE Tick
  BY <1>1, TickIInv
<1>2. ASSUME NEW r \in Requests, Step(r) PROVE IInv'
  <2>1. /\ CoreInv
        /\ pc[r] \notin {"new", "done"} => r \in Passing
        /\ pc[r] \in Undecided => answer[r] = "none"
    BY DEF IInv, CoreInv
  <2>2. CASE Admit(r)
    <3>1. pc[r] = "new" /\ UNCHANGED <<tokens, usage, metrics, ticks>>
      BY <2>2 DEF Admit
    <3>2. CASE r \in Passing /\ Proceed(r, "limit")
      <4>1. Move(r, "limit", "none")
        BY <2>1, <3>1, <3>2, Moves
      <4> QED
        BY <2>1, <3>1, <3>2, <4>1, QuietIInv DEF LimiterPassed, QuotaPassed
    <3>3. CASE Respond(r, "rejected")
      <4>1. Move(r, "done", "rejected")
        BY <2>1, <3>3, Moves
      <4> QED
        BY <2>1, <3>1, <4>1, QuietIInv DEF LimiterPassed, QuotaPassed
    <3> QED
      BY <2>2, <3>2, <3>3 DEF Admit
  <2>3. CASE RateLimit(r)
    <3>1. pc[r] = "limit" /\ UNCHANGED <<usage, metrics, ticks>>
      BY <2>3 DEF RateLimit
    <3>2. CASE /\ tokens[KeyOf(r)] >= 1
               /\ tokens' = [tokens EXCEPT ![KeyOf(r)] = @ - 1]
               /\ Proceed(r, "quota")
      <4>1. Move(r, "quota", answer[r])
        BY <2>1, <3>2, Moves
      <4> QED
        BY <3>1, <3>2, <4>1, GrantIInv
    <3>3. CASE Respond(r, "rate limited") /\ UNCHANGED tokens
      <4>1. Move(r, "done", "rate limited")
        BY <2>1, <3>3, Moves
      <4> QED
        BY <2>1, <3>1, <3>3, <4>1, QuietIInv DEF LimiterPassed, QuotaPassed
    <3> QED
      BY <2>3, <3>2, <3>3 DEF RateLimit
  <2>4. CASE checkQuota(r)
    <3>1. pc[r] = "quota" /\ UNCHANGED <<tokens, metrics, ticks>>
      BY <2>4 DEF checkQuota
    <3>2. CASE /\ Limited(r) /\ Used(r) + 1 <= QuotaLimit[TenantOf(r)]
               /\ usage' = [usage EXCEPT ![InstanceOf(r)][TenantOf(r)] = @ + 1]
               /\ Proceed(r, "resolve")
      <4>1. Move(r, "resolve", answer[r])
        BY <2>1, <3>2, Moves
      <4> QED
        BY <3>1, <3>2, <4>1, ChargeIInv
    <3>3. CASE ~Limited(r) /\ Proceed(r, "resolve") /\ UNCHANGED usage
      <4>1. Move(r, "resolve", "none") /\ r \in Passing /\ answer[r] = "none"
        BY <2>1, <3>1, <3>3, Moves
      <4>2. CoreInv'
        BY <2>1, <3>1, <3>3, <4>1, CoreMove DEF CoreInv
      <4>3. RateLimitShared' /\ MetricsAccount'
        BY <3>1, <4>1, LimiterQuiet, MetricsQuiet DEF LimiterPassed
      <4>4. QuotaConserved'
        BY <3>1, <3>3, <4>1, QuotaQuiet DEF Limited, LimiterPassed, QuotaPassed
      <4> QED
        BY <4>2, <4>3, <4>4 DEF IInv
    <3>4. CASE Respond(r, "quota exceeded") /\ UNCHANGED usage
      <4>1. Move(r, "done", "quota exceeded")
        BY <2>1, <3>4, Moves
      <4> QED
        BY <2>1, <3>1, <3>4, <4>1, QuietIInv DEF LimiterPassed, QuotaPassed
    <3> QED
      BY <2>4, <3>2, <3>3, <3>4 DEF checkQuota
  <2>5. CASE ResolveEndpoint(r)
    <3>1. pc[r] = "resolve" /\ UNCHANGED <<tokens, usage, metrics, ticks>>
      BY <2>5 DEF ResolveEndpoint
    <3>2. Move(r, "allow", "none") \/ Move(r, "done", "not found")
      BY <2>1, <2>5, <3>1, Moves DEF ResolveEndpoint
    <3> QED
      BY <2>1, <3>1, <3>2, QuietIInv DEF LimiterPassed, QuotaPassed
  <2>6. CASE Allow(r)
    <3>1. pc[r] = "allow" /\ UNCHANGED <<tokens, usage, metrics, ticks>>
      BY <2>6 DEF Allow
    <3>2. Move(r, "forward", "none") \/ Move(r, "record", "unavailable")
      BY <2>1, <2>6, <3>1, Moves DEF Allow
    <3> QED
      BY <2>1, <3>1, <3>2, QuietIInv DEF LimiterPassed, QuotaPassed
  <2>7. CASE ForwardReturns(r) \/ ForwardFails(r)
    <3>1. pc[r] = "forward" /\ UNCHANGED <<tokens, usage, metrics, ticks>>
      BY <2>7 DEF ForwardReturns, ForwardFails
    <3>2. PICK a \in {"ok", "engine status", "engine error"} : Move(r, "record", a)
      BY <2>1, <2>7, Moves DEF ForwardReturns, ForwardFails
    <3> QED
      BY <2>1, <3>1, <3>2, QuietIInv DEF LimiterPassed, QuotaPassed
  <2>8. CASE ResolvePanics(r) \/ ForwardPanics(r)
    <3>1. /\ pc[r] \in {"resolve", "forward"}
          /\ UNCHANGED <<tokens, usage, metrics, ticks>>
      BY <2>8 DEF ResolvePanics, ForwardPanics, Panic
    <3>2. Move(r, "done", "aborted")
      BY <2>1, <2>8, Moves DEF ResolvePanics, ForwardPanics, Panic
    <3> QED
      BY <2>1, <3>1, <3>2, QuietIInv DEF LimiterPassed, QuotaPassed
  <2>9. CASE Record(r)
    BY <2>9, RecordIInv
  <2> QED
    BY <1>2, <2>2, <2>3, <2>4, <2>5, <2>6, <2>7, <2>8, <2>9 DEF Step
<1>3. CASE UNCHANGED vars
  <2>1. UNCHANGED <<pc, answer, tokens, usage, metrics, ticks>>
    BY <1>3 DEF vars
  <2>2. CoreInv'
    BY <2>1 DEF IInv, CoreInv, Passing, Keys
  <2>3. PastLimiter' = PastLimiter /\ PastQuota' = PastQuota
    BY <2>1 DEF PastLimiter, PastQuota
  <2>4. RateLimitShared' /\ QuotaConserved'
    BY <2>1, <2>3 DEF IInv, RateLimitShared, QuotaConserved, Keys, InstanceOf,
                      TenantOf, KeyOf
  <2>5. MetricsAccount'
    BY <2>1 DEF IInv, MetricsAccount, RequestsOf, InstanceOf
  <2> QED
    BY <2>2, <2>4, <2>5 DEF IInv
<1> QED
  BY <1>1, <1>2, <1>3 DEF Next

\* The inductive invariant holds throughout.
LEMMA Invariant == Spec => []IInv
  BY InitIInv, NextIInv, PTL DEF Spec

(***************************************************************************)
(* The shared bucket never gives more than it held and was refilled with,  *)
(* whichever doors the requests come through.                              *)
(***************************************************************************)
THEOREM LimiterShared == Spec => []RateLimitShared
<1>1. IInv => RateLimitShared
  BY DEF IInv
<1> QED
  BY <1>1, Invariant, PTL

(***************************************************************************)
(* Each instance's quota is charged exactly for the requests that got past *)
(* it.                                                                     *)
(***************************************************************************)
THEOREM QuotaCharged == Spec => []QuotaConserved
<1>1. IInv => QuotaConserved
  BY DEF IInv
<1> QED
  BY <1>1, Invariant, PTL

(***************************************************************************)
(* The metrics count each request answered from the breaker on, once.      *)
(***************************************************************************)
THEOREM MetricsExact == Spec => []MetricsAccount
<1>1. IInv => MetricsAccount
  BY DEF IInv
<1> QED
  BY <1>1, Invariant, PTL

-----------------------------------------------------------------------------
\* The methods of the breaker keep its type.
LEMMA BreakerTyped ==
  ASSUME NEW b \in Breaker
  PROVE  /\ Aged(b) \in Breaker
         /\ AfterAllow(b) \in Breaker
         /\ AfterSuccess(b) \in Breaker
         /\ AfterFailure(b) \in Breaker
<1> USE DEF CircuitState, Closed, Open, HalfOpen
<1>1. /\ 0 \in 0 .. Timeout /\ 0 \in Nat
      /\ b.failures + 1 \in Nat /\ b.successes + 1 \in Nat /\ b.requests + 1 \in Nat
  BY BreakerAssumption DEF Breaker
<1>2. Aged(b) \in Breaker
  BY BreakerAssumption DEF Aged, TimeoutElapsed, Breaker
<1>3. /\ [b EXCEPT !.state = HalfOpen, !.successes = 0, !.requests = 0] \in Breaker
      /\ [b EXCEPT !.state = Closed, !.failures = 0, !.successes = 0,
                   !.requests = 0] \in Breaker
      /\ [b EXCEPT !.failures = b.failures + 1, !.state = Open, !.openAge = 0]
           \in Breaker
      /\ [b EXCEPT !.state = Open, !.openAge = 0, !.successes = 0, !.requests = 0]
           \in Breaker
  BY <1>1, Zenon DEF Breaker
<1>4. /\ [b EXCEPT !.requests = b.requests + 1] \in Breaker
      /\ [b EXCEPT !.successes = b.successes + 1] \in Breaker
      /\ [b EXCEPT !.failures = b.failures + 1] \in Breaker
      /\ [b EXCEPT !.failures = 0] \in Breaker
  BY <1>1, Zenon DEF Breaker
<1>5. AfterAllow(b) \in Breaker
  BY <1>3, <1>4 DEF AfterAllow
<1>6. AfterSuccess(b) \in Breaker
  BY <1>3, <1>4 DEF AfterSuccess
<1>7. AfterFailure(b) \in Breaker
  BY <1>3, <1>4 DEF AfterFailure
<1> QED
  BY <1>2, <1>5, <1>6, <1>7

\* What TypeOK says beyond CoreInv: the bounds, and the breakers.
LEMMA NextTyped == IInv /\ TypeOK /\ [Next]_vars => TypeOK'
<1> SUFFICES ASSUME IInv, TypeOK, [Next]_vars PROVE TypeOK'
  OBVIOUS
<1>1. CoreInv'
  BY NextIInv DEF IInv
<1>2. /\ tokens \in [Keys -> 0 .. Capacity] /\ breaker \in [Instances -> Breaker]
      /\ crashed \in BOOLEAN /\ ticks \in 0 .. MaxTicks
  BY DEF TypeOK
<1>3. /\ tokens' \in [Keys -> 0 .. Capacity] /\ ticks' \in 0 .. MaxTicks
      /\ breaker' \in [Instances -> Breaker] /\ crashed' \in BOOLEAN
  <2>1. CASE Tick
    <3>1. tokens' \in [Keys -> 0 .. Capacity] /\ ticks' \in 0 .. MaxTicks
      BY <1>2, <2>1 DEF Tick
    <3>2. breaker' \in [Instances -> Breaker] /\ crashed' \in BOOLEAN
      BY <1>2, <2>1, BreakerTyped DEF Tick
    <3> QED
      BY <3>1, <3>2
  <2>2. ASSUME NEW r \in Requests, Step(r)
        PROVE  /\ tokens' \in [Keys -> 0 .. Capacity] /\ UNCHANGED ticks
               /\ breaker' \in [Instances -> Breaker] /\ crashed' \in BOOLEAN
    <3>1. InstanceOf(r) \in Instances /\ breaker[InstanceOf(r)] \in Breaker
      BY <1>2, InstancesTyped
    <3>2. CASE RateLimit(r)
      <4>1. KeyOf(r) \in Keys
        BY <3>2, PassingKeys DEF IInv, CoreInv, RateLimit
      <4>2. tokens[KeyOf(r)] >= 1 => tokens[KeyOf(r)] - 1 \in 0 .. Capacity
        BY <1>2, <4>1
      <4> QED
        BY <1>2, <3>2, <4>1, <4>2 DEF RateLimit
    <3>3. CASE Allow(r)
      BY <1>2, <3>1, <3>3, BreakerTyped DEF Allow
    <3>4. CASE ForwardReturns(r)
      BY <1>2, <3>1, <3>4, BreakerTyped DEF ForwardReturns
    <3>5. CASE ForwardFails(r)
      BY <1>2, <3>1, <3>5, BreakerTyped DEF ForwardFails
    <3>6. CASE ResolvePanics(r) \/ ForwardPanics(r)
      <4>1. UNCHANGED <<tokens, ticks, breaker>>
        BY <3>6 DEF ResolvePanics, ForwardPanics, Panic
      <4>2. crashed' = (r \in GRPCRequests)
        BY <3>6, Zenon DEF ResolvePanics, ForwardPanics, Panic
      <4>3. crashed' \in BOOLEAN
        <5>1. CASE r \in GRPCRequests
          BY <4>2, <5>1
        <5>2. CASE r \notin GRPCRequests
          BY <4>2, <5>2
        <5> QED
          BY <5>1, <5>2
      <4>4. /\ tokens' \in [Keys -> 0 .. Capacity]
            /\ breaker' \in [Instances -> Breaker]
        BY <1>2, <4>1
      <4> QED
        BY <4>1, <4>3, <4>4, Zenon
    <3>7. CASE Admit(r) \/ checkQuota(r) \/ ResolveEndpoint(r) \/ Record(r)
      BY <1>2, <3>7 DEF Admit, checkQuota, ResolveEndpoint, Record
    <3> QED
      BY <2>2, <3>2, <3>3, <3>4, <3>5, <3>6, <3>7 DEF Step
  <2>3. CASE UNCHANGED vars
    BY <1>2, <2>3 DEF vars
  <2> QED
    BY <1>2, <2>1, <2>2, <2>3 DEF Next
<1> QED
  BY <1>1, <1>3 DEF TypeOK, CoreInv, Keys

(***************************************************************************)
(* Type correctness; a bucket holds between none and Capacity tokens.      *)
(***************************************************************************)
THEOREM TypeCorrect == Spec => []TypeOK
<1>1. Init => TypeOK
  <2> SUFFICES ASSUME Init PROVE TypeOK
    OBVIOUS
  <2>1. CoreInv
    BY InitIInv DEF IInv
  <2>2. NewCircuitBreaker \in Breaker
    BY BreakerAssumption
       DEF NewCircuitBreaker, Breaker, CircuitState, Closed, Open, HalfOpen
  <2>3. tokens \in [Keys -> 0 .. Capacity] /\ ticks \in 0 .. MaxTicks
    <3>1. Capacity \in 0 .. Capacity /\ 0 \in 0 .. MaxTicks
      OBVIOUS
    <3> QED
      BY <3>1 DEF Init
  <2>4. breaker \in [Instances -> Breaker]
    BY <2>2, Zenon DEF Init
  <2>5. crashed \in BOOLEAN
    BY DEF Init
  <2> QED
    BY <2>1, <2>3, <2>4, <2>5 DEF CoreInv, TypeOK
<1> QED
  BY <1>1, Invariant, NextTyped, PTL DEF Spec

-----------------------------------------------------------------------------
(***************************************************************************)
(* The parts of Gateway against their own specifications.                  *)
(***************************************************************************)
USE WatchedAssumption

\* Request r comes to stage p.
Comes(r, p) == pc' = [pc EXCEPT ![r] = p]

BreakerAt(r, b) == breaker' = [breaker EXCEPT ![InstanceOf(r)] = b]

\* The four kinds of steps of a request, as its breaker and the limiter see
\* them: it is granted a token, it enters Execute, it leaves Execute, or
\* neither of them is concerned.
Granting(r) ==
  /\ At(r, "limit") /\ Comes(r, "quota")
  /\ tokens[KeyOf(r)] >= 1
  /\ tokens' = [tokens EXCEPT ![KeyOf(r)] = @ - 1]
  /\ UNCHANGED breaker

Entering(r) ==
  LET b == breaker[InstanceOf(r)]
  IN  /\ At(r, "allow") /\ Comes(r, "forward")
      /\ Admits(b) /\ BreakerAt(r, AfterAllow(b))
      /\ UNCHANGED tokens

Leaving(r) ==
  LET b == breaker[InstanceOf(r)]
  IN  /\ At(r, "forward") /\ \E p \in Stages \ {"forward"} : Comes(r, p)
      /\ \/ BreakerAt(r, AfterSuccess(b)) /\ answer'[r] # "aborted"
         \/ BreakerAt(r, AfterFailure(b)) /\ answer'[r] # "aborted"
         \/ UNCHANGED breaker /\ answer'[r] = "aborted"
      /\ UNCHANGED tokens

Elsewhere(r) ==
  /\ ~At(r, "forward")
  /\ \E p \in Stages \ {"forward"} :
       Comes(r, p) /\ ~(At(r, "limit") /\ p = "quota")
  /\ UNCHANGED <<tokens, breaker>>

\* Every step of a request is of one of them.
LEMMA StepKinds ==
  ASSUME IInv, NEW r \in Requests, Step(r)
  PROVE  /\ UNCHANGED ticks
         /\ Granting(r) \/ Entering(r) \/ Leaving(r) \/ Elsewhere(r)
<1> USE DEF Comes, BreakerAt
<1>0. answer \in [Requests -> Answers \cup {"none"}]
  BY DEF IInv, CoreInv
<1>1. CASE RateLimit(r)
  BY <1>1 DEF RateLimit, Proceed, Respond, Granting, Elsewhere
<1>2. CASE Allow(r)
  BY <1>2 DEF Allow, Proceed, Decide, Entering, Elsewhere
<1>3. CASE ForwardReturns(r) \/ ForwardFails(r)
  <2>1. answer'[r] \in {"ok", "engine status", "engine error"}
    BY <1>0, <1>3 DEF ForwardReturns, ForwardFails, Decide
  <2> QED BY <1>3, <2>1 DEF ForwardReturns, ForwardFails, Decide, Leaving
<1>4. CASE ForwardPanics(r)
  BY <1>0, <1>4 DEF ForwardPanics, Panic, Respond, Leaving
<1>5. CASE Admit(r) \/ ResolveEndpoint(r) \/ ResolvePanics(r)
  BY <1>5 DEF Admit, ResolveEndpoint, ResolvePanics, Panic, Proceed, Respond,
              Elsewhere
<1>6. CASE checkQuota(r) \/ Record(r)
  BY <1>6 DEF checkQuota, Record, Proceed, Respond, Elsewhere
<1> QED BY <1>1, <1>2, <1>3, <1>4, <1>5, <1>6 DEF Step

\* What a request that comes to a stage does to Forwarding and to Calls.
LEMMA ForwardMoves ==
  ASSUME pc \in [Requests -> Stages], NEW r \in Requests, NEW p, Comes(r, p)
  PROVE  /\ r \in RequestsOf(Watched) /\ ~At(r, "forward") /\ p = "forward"
              => /\ Entered = {r} /\ Left = {}
                 /\ Calls[r] = "idle" /\ Calls' = [Calls EXCEPT ![r] = "exposed"]
         /\ r \in RequestsOf(Watched) /\ At(r, "forward") /\ p # "forward"
              => /\ Entered = {} /\ Left = {r}
                 /\ Calls[r] = "exposed" /\ Calls' = [Calls EXCEPT ![r] = "idle"]
         /\ r \notin RequestsOf(Watched) \/ (At(r, "forward") <=> p = "forward")
              => Entered = {} /\ Left = {} /\ Calls' = Calls
<1> DEFINE W == RequestsOf(Watched)
<1>1. W \subseteq Requests /\ W' = W
  BY DEF RequestsOf, InstanceOf
<1>2. /\ \A q \in Requests : q # r => pc'[q] = pc[q]
      /\ pc'[r] = p
  BY DEF Comes
<1>3. /\ Forwarding = {q \in W : pc[q] = "forward"}
      /\ Forwarding' = {q \in W : pc'[q] = "forward"}
      /\ Calls = [q \in W |-> IF pc[q] = "forward" THEN "exposed" ELSE "idle"]
      /\ Calls' = [q \in W |-> IF pc'[q] = "forward" THEN "exposed"
                                                     ELSE "idle"]
  BY <1>1 DEF Forwarding, Calls
<1> HIDE DEF W
<1>4. ASSUME r \in W, ~At(r, "forward"), p = "forward"
      PROVE  /\ Entered = {r} /\ Left = {}
             /\ Calls[r] = "idle" /\ Calls' = [Calls EXCEPT ![r] = "exposed"]
  BY <1>1, <1>2, <1>3, <1>4 DEF Entered, Left
<1>5. ASSUME r \in W, At(r, "forward"), p # "forward"
      PROVE  /\ Entered = {} /\ Left = {r}
             /\ Calls[r] = "exposed" /\ Calls' = [Calls EXCEPT ![r] = "idle"]
  BY <1>1, <1>2, <1>3, <1>5 DEF Entered, Left
<1>6. ASSUME r \notin W \/ (At(r, "forward") <=> p = "forward")
      PROVE  Entered = {} /\ Left = {} /\ Calls' = Calls
  <2>1. \A q \in W : pc'[q] = "forward" <=> pc[q] = "forward"
    BY <1>1, <1>2, <1>6
  <2> QED BY <1>3, <2>1 DEF Entered, Left
<1> QED BY <1>4, <1>5, <1>6 DEF W

\* How the methods of the breaker change its state.
LEMMA Transitions ==
  ASSUME NEW b \in Breaker
  PROVE  /\ Aged(b).state = b.state
         /\ Admits(b) => IF b.state = Open THEN AfterAllow(b).state = HalfOpen
                         ELSE AfterAllow(b).state = b.state
         /\ AfterSuccess(b).state = Open <=> b.state = Open
         /\ AfterSuccess(b).state = HalfOpen => b.state = HalfOpen
         /\ AfterFailure(b).state # HalfOpen
<1> USE DEF CircuitState, Closed, Open, HalfOpen
<1>0. /\ b.state \in CircuitState /\ b.successes \in Nat /\ b.failures \in Nat
      /\ b.requests \in Nat
  BY DEF Breaker
<1>1. Aged(b).state = b.state
  BY DEF Aged, Breaker
<1>2. Admits(b) => IF b.state = Open THEN AfterAllow(b).state = HalfOpen
                   ELSE AfterAllow(b).state = b.state
  BY <1>0 DEF Admits, AfterAllow, Breaker
<1>3. /\ AfterSuccess(b).state = Open <=> b.state = Open
      /\ AfterSuccess(b).state = HalfOpen => b.state = HalfOpen
  BY <1>0, BreakerAssumption DEF AfterSuccess, Breaker
<1>4. AfterFailure(b).state # HalfOpen
  BY <1>0, BreakerAssumption DEF AfterFailure, Breaker
<1> QED BY <1>1, <1>2, <1>3, <1>4

\* Only a half-open circuit has probes.
ProbesWhileHalfOpen == StateBefore # HalfOpen => probes = {}

\* What is known of Gateway in every state, without its histories.
Known == IInv /\ TypeOK

\* CircuitBreaker has the breaker's operators from BreakerOps, as Gateway has.
LEMMA SameOperators ==
  /\ WatchedBreaker!Closed = Closed /\ WatchedBreaker!Open = Open
  /\ WatchedBreaker!HalfOpen = HalfOpen
  /\ WatchedBreaker!NewCircuitBreaker = NewCircuitBreaker
  /\ \A b : /\ WatchedBreaker!Admits(b) <=> Admits(b)
            /\ WatchedBreaker!Aged(b) = Aged(b)
            /\ WatchedBreaker!AfterAllow(b) = AfterAllow(b)
            /\ WatchedBreaker!AfterSuccess(b) = AfterSuccess(b)
            /\ WatchedBreaker!AfterFailure(b) = AfterFailure(b)
<1> USE DEF WatchedBreaker!Closed, WatchedBreaker!Open,
            WatchedBreaker!HalfOpen, WatchedBreaker!TimeoutElapsed,
            Closed, Open, HalfOpen, TimeoutElapsed
<1>1. /\ WatchedBreaker!Closed = Closed /\ WatchedBreaker!Open = Open
      /\ WatchedBreaker!HalfOpen = HalfOpen
      /\ WatchedBreaker!NewCircuitBreaker = NewCircuitBreaker
  BY DEF WatchedBreaker!NewCircuitBreaker, NewCircuitBreaker
<1>2. ASSUME NEW b
      PROVE  /\ WatchedBreaker!Admits(b) <=> Admits(b)
             /\ WatchedBreaker!Aged(b) = Aged(b)
  BY Zenon DEF WatchedBreaker!Admits, Admits, WatchedBreaker!Aged, Aged
<1>3. ASSUME NEW b
      PROVE  /\ WatchedBreaker!AfterAllow(b) = AfterAllow(b)
             /\ WatchedBreaker!AfterSuccess(b) = AfterSuccess(b)
             /\ WatchedBreaker!AfterFailure(b) = AfterFailure(b)
  BY Zenon DEF WatchedBreaker!AfterAllow, AfterAllow,
               WatchedBreaker!AfterSuccess, AfterSuccess,
               WatchedBreaker!AfterFailure, AfterFailure
<1> QED BY <1>1, <1>2, <1>3

\* A request that enters Execute, at the breaker of the watched instance.
LEMMA EnteringStarts ==
  ASSUME Known, ProbesWhileHalfOpen, HistoriesFollow, UNCHANGED ticks,
         NEW r \in RequestsOf(Watched), Entering(r)
  PROVE  WatchedBreaker!Start(r)
<1> DEFINE b == breaker[Watched]
<1>1. /\ r \in Requests /\ InstanceOf(r) = Watched /\ b \in Breaker
      /\ breaker \in [Instances -> Breaker] /\ pc \in [Requests -> Stages]
  BY DEF RequestsOf, Known, TypeOK
<1>2. /\ Entered = {r} /\ Left = {} /\ Calls[r] = "idle"
      /\ Calls' = [Calls EXCEPT ![r] = "exposed"]
  BY <1>1, ForwardMoves DEF Entering
<1>3. Admits(b) /\ breaker'[Watched] = AfterAllow(b)
  BY <1>1 DEF Entering, BreakerAt
<1>4. IF b.state = Open THEN StateAfter = HalfOpen ELSE StateAfter = b.state
  BY <1>1, <1>3, Transitions DEF StateAfter
<1>5. b.state \in {Closed, Open, HalfOpen}
  BY <1>1 DEF Breaker, CircuitState
<1>6. Closed # Open /\ Closed # HalfOpen /\ Open # HalfOpen
  BY DEF Closed, Open, HalfOpen
<1>7. probes' = CASE b.state = Closed   -> probes
                  [] b.state = Open     -> {r}
                  [] b.state = HalfOpen -> probes \cup {r}
  BY <1>2, <1>4, <1>5, <1>6
     DEF HistoriesFollow, StateBefore, Probes, ProbesWhileHalfOpen
<1>8. lost' = IF b.state = Open THEN 0 ELSE lost
  BY <1>2, <1>4, <1>5, <1>6
     DEF HistoriesFollow, StateBefore, Probes, LosesProbe
<1>9. openTicks' = openTicks
  BY <1>4, <1>5, <1>6 DEF HistoriesFollow, Opens, StateBefore
<1> HIDE DEF b
<1>10. breaker[Watched] = b
  BY DEF b
<1> QED
  BY <1>2, <1>3, <1>7, <1>8, <1>9, <1>10, SameOperators
     DEF WatchedBreaker!Start, WatchedBreaker!Running

\* A request that leaves it.
LEMMA LeavingReturns ==
  ASSUME Known, ProbesWhileHalfOpen, HistoriesFollow, UNCHANGED ticks,
         NEW r \in RequestsOf(Watched), Leaving(r)
  PROVE  WatchedBreaker!Return(r)
<1> DEFINE b == breaker[Watched]
<1>1. /\ r \in Requests /\ InstanceOf(r) = Watched /\ b \in Breaker
      /\ breaker \in [Instances -> Breaker] /\ pc \in [Requests -> Stages]
  BY DEF RequestsOf, Known, TypeOK
<1>2. /\ Entered = {} /\ Left = {r} /\ Calls[r] = "exposed"
      /\ Calls' = [Calls EXCEPT ![r] = "idle"]
  BY <1>1, ForwardMoves DEF Leaving
<1>3. \/ breaker'[Watched] = AfterSuccess(b) /\ answer'[r] # "aborted"
      \/ breaker'[Watched] = AfterFailure(b) /\ answer'[r] # "aborted"
      \/ breaker'[Watched] = b /\ answer'[r] = "aborted"
  BY <1>1 DEF Leaving, BreakerAt
<1>4. ~Probes
  <2>1. StateAfter = HalfOpen => b.state = HalfOpen
    BY <1>1, <1>3, Transitions DEF StateAfter
  <2> QED BY <2>1 DEF Probes, StateBefore, Open, HalfOpen
<1>5. probes' = IF StateAfter = HalfOpen THEN probes \ {r} ELSE {}
  BY <1>2, <1>4 DEF HistoriesFollow
<1>6. openTicks' = IF Opens THEN 0 ELSE openTicks
  BY DEF HistoriesFollow
<1>7. lost' = IF r \in probes /\ answer'[r] = "aborted" THEN lost + 1 ELSE lost
  <2>1. LosesProbe <=> r \in probes /\ answer'[r] = "aborted"
    BY <1>2 DEF LosesProbe
  <2> QED BY <1>4, <2>1 DEF HistoriesFollow
<1>8. CASE breaker'[Watched] = AfterSuccess(b) /\ answer'[r] # "aborted"
  <2>1. WatchedBreaker!Succeed(r)
    BY <1>2, <1>5, <1>6, <1>7, <1>8, SameOperators
       DEF WatchedBreaker!Succeed, WatchedBreaker!Running,
           WatchedBreaker!ProbesAfterReturn, WatchedBreaker!OpenTicksFollow,
           WatchedBreaker!Opens, Opens, StateBefore, StateAfter
  <2> QED BY <2>1 DEF WatchedBreaker!Return
<1>9. CASE breaker'[Watched] = AfterFailure(b) /\ answer'[r] # "aborted"
  <2>1. WatchedBreaker!Fail(r)
    BY <1>2, <1>5, <1>6, <1>7, <1>9, SameOperators
       DEF WatchedBreaker!Fail,
           WatchedBreaker!ProbesAfterReturn, WatchedBreaker!OpenTicksFollow,
           WatchedBreaker!Opens, Opens, StateBefore, StateAfter
  <2> QED BY <2>1 DEF WatchedBreaker!Return
<1>10. CASE breaker'[Watched] = b /\ answer'[r] = "aborted"
  <2>1. probes' = probes \ {r} /\ openTicks' = openTicks
    BY <1>5, <1>6, <1>10
       DEF ProbesWhileHalfOpen, Opens, StateBefore, StateAfter
  <2>2. WatchedBreaker!Panic(r)
    BY <1>2, <1>7, <1>10, <2>1 DEF WatchedBreaker!Panic
  <2> QED BY <2>2 DEF WatchedBreaker!Return
<1> QED BY <1>3, <1>8, <1>9, <1>10

\* A step that does not concern the breaker of the watched instance.
LEMMA WatchedRests ==
  ASSUME ProbesWhileHalfOpen, HistoriesFollow, UNCHANGED ticks,
         Entered = {}, Left = {}, Calls' = Calls,
         breaker'[Watched] = breaker[Watched]
  PROVE  UNCHANGED WatchedBreaker!vars
<1>1. /\ StateAfter = StateBefore /\ ~Probes /\ ~Opens /\ ~LosesProbe
  BY DEF StateAfter, StateBefore, Probes, Opens, LosesProbe, Open, HalfOpen
<1>2. UNCHANGED <<probes, lost, openTicks>>
  BY <1>1 DEF HistoriesFollow, ProbesWhileHalfOpen
<1> QED BY <1>2 DEF WatchedBreaker!vars

\* The clock, as the breaker of the watched instance sees it.
LEMMA TickTicks ==
  ASSUME Known, ProbesWhileHalfOpen, HistoriesFollow, Tick
  PROVE  WatchedBreaker!Tick
<1> DEFINE b == breaker[Watched]
<1>1. /\ ticks' # ticks /\ breaker'[Watched] = Aged(b) /\ UNCHANGED pc
  <2>1. ticks \in Nat
    BY DEF Known, IInv, CoreInv
  <2>2. ticks' # ticks
    BY <2>1 DEF Tick
  <2> QED BY <2>2 DEF Tick
<1>2. Forwarding' = Forwarding /\ Calls' = Calls
  BY <1>1 DEF Forwarding, Calls, RequestsOf, InstanceOf
<1>3. /\ StateAfter = StateBefore /\ StateBefore = b.state
      /\ ~Probes /\ ~Opens /\ ~LosesProbe /\ Entered = {} /\ Left = {}
  <2>1. b \in Breaker
    BY DEF Known, TypeOK
  <2>2. StateAfter = StateBefore /\ StateBefore = b.state
    BY <1>1, <2>1, Transitions DEF StateAfter, StateBefore
  <2> QED BY <1>2, <2>2
          DEF Probes, Opens, LosesProbe, Entered, Left, Open, HalfOpen
<1>4. /\ UNCHANGED <<probes, lost>>
      /\ openTicks' = IF b.state = Open /\ openTicks < Timeout
                      THEN openTicks + 1 ELSE openTicks
  BY <1>1, <1>3 DEF HistoriesFollow, ProbesWhileHalfOpen
<1> QED BY <1>1, <1>2, <1>4, SameOperators DEF WatchedBreaker!Tick

\* Every step of Gateway is a step of the watched breaker or leaves it alone.
LEMMA BreakerSteps ==
  ASSUME Known, ProbesWhileHalfOpen, [NextWithHistories]_<<vars, histories>>
  PROVE  [WatchedBreaker!Next]_(WatchedBreaker!vars) /\ ProbesWhileHalfOpen'
<1>1. CASE NextWithHistories
  <2>1. HistoriesFollow
    BY <1>1 DEF NextWithHistories
  <2>2. ProbesWhileHalfOpen'
    BY <2>1 DEF HistoriesFollow, ProbesWhileHalfOpen, StateBefore, StateAfter,
                HalfOpen
  <2>3. CASE Tick
    BY <2>1, <2>2, <2>3, TickTicks DEF WatchedBreaker!Next
  <2>4. ASSUME NEW r \in Requests, Step(r)
        PROVE  [WatchedBreaker!Next]_(WatchedBreaker!vars)
    <3>1. /\ UNCHANGED ticks /\ pc \in [Requests -> Stages]
          /\ breaker \in [Instances -> Breaker]
      BY <2>4, StepKinds DEF Known, TypeOK
    <3>2. CASE Entering(r) /\ r \in RequestsOf(Watched)
      BY <2>1, <3>1, <3>2, EnteringStarts
         DEF WatchedBreaker!Next, WatchedBreaker!Execute
    <3>3. CASE Leaving(r) /\ r \in RequestsOf(Watched)
      BY <2>1, <3>1, <3>3, LeavingReturns DEF WatchedBreaker!Next
    <3>4. CASE Granting(r) \/ Elsewhere(r)
      <4>1. Entered = {} /\ Left = {} /\ Calls' = Calls
        <5>1. PICK p \in Stages \ {"forward"} : Comes(r, p) /\ ~At(r, "forward")
          BY <3>4 DEF Granting, Elsewhere
        <5> QED BY <3>1, <5>1, ForwardMoves
      <4>2. breaker'[Watched] = breaker[Watched]
        BY <3>4 DEF Granting, Elsewhere
      <4> QED BY <2>1, <3>1, <4>1, <4>2, WatchedRests
    <3>5. CASE (Entering(r) \/ Leaving(r)) /\ r \notin RequestsOf(Watched)
      <4>1. Entered = {} /\ Left = {} /\ Calls' = Calls
        <5>1. PICK p : Comes(r, p)
          BY <3>5 DEF Entering, Leaving
        <5> QED BY <3>1, <3>5, <5>1, ForwardMoves
      <4>2. InstanceOf(r) # Watched
        BY <3>5 DEF RequestsOf
      <4>3. breaker'[Watched] = breaker[Watched]
        BY <3>1, <3>5, <4>2 DEF Entering, Leaving, BreakerAt
      <4> QED BY <2>1, <3>1, <4>1, <4>3, WatchedRests
    <3> QED BY <2>4, <3>2, <3>3, <3>4, <3>5, StepKinds DEF Known
  <2> QED BY <1>1, <2>2, <2>3, <2>4 DEF NextWithHistories, Next
<1>2. CASE UNCHANGED <<vars, histories>>
  <2>1. UNCHANGED <<pc, breaker, probes, lost, openTicks>>
    BY <1>2 DEF vars, histories
  <2>2. UNCHANGED WatchedBreaker!vars
    BY <2>1 DEF WatchedBreaker!vars, Calls, RequestsOf, InstanceOf
  <2>3. ProbesWhileHalfOpen'
    BY <2>1 DEF ProbesWhileHalfOpen, StateBefore
  <2> QED BY <2>2, <2>3
<1> QED BY <1>1, <1>2

\* The watched breaker starts as a new one.
LEMMA BreakerStarts ==
  InitWithHistories => WatchedBreaker!Init /\ ProbesWhileHalfOpen
<1> SUFFICES ASSUME InitWithHistories
             PROVE  WatchedBreaker!Init /\ ProbesWhileHalfOpen
  OBVIOUS
<1>1. /\ breaker[Watched] = NewCircuitBreaker
      /\ probes = {} /\ lost = 0 /\ openTicks = 0
  BY DEF InitWithHistories, Init
<1>2. Calls = [r \in RequestsOf(Watched) |-> "idle"]
  BY DEF InitWithHistories, Init, Calls, RequestsOf
<1> QED BY <1>1, <1>2, SameOperators
        DEF WatchedBreaker!Init, ProbesWhileHalfOpen

\* The histories change nothing in Gateway, whose invariants hold with them.
LEMMA KnownHolds == SpecWithHistories => []Known
<1>1. SpecWithHistories => Spec
  <2>1. InitWithHistories => Init
    BY DEF InitWithHistories
  <2>2. [NextWithHistories]_<<vars, histories>> => [Next]_vars
    BY DEF NextWithHistories
  <2> QED BY <2>1, <2>2, PTL DEF SpecWithHistories, Spec
<1> QED BY <1>1, Invariant, TypeCorrect, PTL DEF Known

(***************************************************************************)
(* Each instance uses its breaker as CircuitBreaker says, for any requests *)
(* at any doors, any thresholds and any bound on the clock: every Allow    *)
(* and every outcome that the chains of concurrent requests bring about is *)
(* a step of one of its callers, and nothing else touches the breaker.     *)
(***************************************************************************)
THEOREM BreakerImplementation == SpecWithHistories => BreakerImplements
<1>1. [](Known /\ ProbesWhileHalfOpen)
        /\ [][NextWithHistories]_<<vars, histories>>
          => [][WatchedBreaker!Next]_(WatchedBreaker!vars)
  BY BreakerSteps, PTL
<1>2. Known /\ ProbesWhileHalfOpen /\ [NextWithHistories]_<<vars, histories>>
        => ProbesWhileHalfOpen'
  BY BreakerSteps
<1> QED
  BY <1>1, <1>2, BreakerStarts, KnownHolds, PTL
     DEF SpecWithHistories, BreakerImplements, WatchedBreaker!Spec

-----------------------------------------------------------------------------
(***************************************************************************)
(* In every interval that ends now, the requests granted to a key and the  *)
(* tokens still in its bucket are within the budget of the interval.       *)
(***************************************************************************)
WithinBucket ==
  \A k \in Keys, s \in 0 .. ticks :
    granted[k] - mark[k][s] + tokens[k] <= Capacity + (ticks - s)

LimiterInv ==
  /\ granted \in [Keys -> Nat]
  /\ mark \in [Keys -> [0 .. MaxTicks -> Nat]]
  /\ WithinBucket

\* The numbers that the limiter's arithmetic is about.
LEMMA LimiterNumbers ==
  ASSUME Known, LimiterInv
  PROVE  /\ ticks \in Nat /\ MaxTicks \in Nat /\ ticks <= MaxTicks
         /\ Capacity \in Nat
         /\ \A k \in Keys : /\ tokens[k] \in Nat /\ tokens[k] <= Capacity
                            /\ granted[k] \in Nat
                            /\ \A s \in 0 .. MaxTicks : mark[k][s] \in Nat
<1>1. Capacity \in Nat /\ MaxTicks \in Nat
  OBVIOUS
<1>2. ticks \in 0 .. MaxTicks /\ tokens \in [Keys -> 0 .. Capacity]
  BY DEF Known, TypeOK
<1>3. granted \in [Keys -> Nat] /\ mark \in [Keys -> [0 .. MaxTicks -> Nat]]
  BY DEF LimiterInv
<1>4. \A k \in Keys : tokens[k] \in Nat /\ tokens[k] <= Capacity
  BY <1>1, <1>2
<1>5. ticks \in Nat /\ ticks <= MaxTicks
  BY <1>1, <1>2
<1> QED BY <1>1, <1>3, <1>4, <1>5

\* A step of a request grants one to its key if it takes a token and nothing
\* otherwise, and moves no mark.
LEMMA RequestGrants ==
  ASSUME Known, LimiterInv, HistoriesFollow, NEW r \in Requests, Step(r)
  PROVE  /\ UNCHANGED <<mark, ticks>>
         /\ \/ /\ Granting(r) /\ KeyOf(r) \in Keys
               /\ granted' = [granted EXCEPT ![KeyOf(r)] = @ + 1]
            \/ UNCHANGED <<granted, tokens>>
<1>1. /\ UNCHANGED <<mark, ticks>> /\ pc \in [Requests -> Stages]
      /\ granted \in [Keys -> Nat]
      /\ granted' = [k \in Keys |-> IF Grants(k) THEN granted[k] + 1
                                                 ELSE granted[k]]
  BY StepKinds DEF HistoriesFollow, Known, TypeOK, LimiterInv
<1>2. CASE Granting(r)
  <2>1. r \in Passing /\ KeyOf(r) \in Keys
    BY <1>2, PassingKeys DEF Granting, Known, IInv, CoreInv
  <2>2. \A k \in Keys : Grants(k) <=> k = KeyOf(r)
    BY <1>1, <1>2, <2>1 DEF Granting, Comes, Grants, Passing
  <2>3. granted' = [granted EXCEPT ![KeyOf(r)] = @ + 1]
    BY <1>1, <2>1, <2>2
  <2> QED BY <1>1, <1>2, <2>1, <2>3
<1>3. CASE Entering(r) \/ Leaving(r) \/ Elsewhere(r)
  <2>1. \A q \in Requests : ~(At(q, "limit") /\ At(q, "quota")')
    BY <1>1, <1>3 DEF Entering, Leaving, Elsewhere, Comes
  <2>2. \A k \in Keys : ~Grants(k)
    BY <2>1 DEF Grants, Passing
  <2>3. granted' = granted
    BY <1>1, <2>2
  <2> QED BY <1>1, <1>3, <2>3 DEF Entering, Leaving, Elsewhere
<1> QED BY <1>2, <1>3, StepKinds DEF Known

\* A grant is one of RateContract's.
LEMMA GrantingGrants ==
  ASSUME Known, LimiterInv, NEW r \in Requests, Granting(r),
         KeyOf(r) \in Keys, UNCHANGED <<mark, ticks>>,
         granted' = [granted EXCEPT ![KeyOf(r)] = @ + 1]
  PROVE  SharedLimiter!Next /\ LimiterInv'
<1> DEFINE key == KeyOf(r)
<1>1. /\ tokens[key] >= 1 /\ tokens' = [tokens EXCEPT ![key] = tokens[key] - 1]
      /\ granted' = [granted EXCEPT ![key] = granted[key] + 1]
  BY DEF Granting
<1>2. key \in Keys
  OBVIOUS
<1> HIDE DEF key
<1>3. SharedLimiter!WithinBudget(key, 1)
  <2>1. ASSUME NEW s \in 0 .. ticks
        PROVE  granted[key] - mark[key][s] + 1 <= Capacity + (ticks - s)
    <3>1. granted[key] - mark[key][s] + tokens[key] <= Capacity + (ticks - s)
      BY <1>2 DEF LimiterInv, WithinBucket
    <3>2. mark[key][s] \in Nat
      BY <1>2, LimiterNumbers
    <3> QED BY <1>1, <1>2, <3>1, <3>2, LimiterNumbers
  <2> QED BY <2>1 DEF SharedLimiter!WithinBudget, SharedLimiter!GrantedSince,
                      Budget
<1>4. SharedLimiter!Next
  <2>1. SharedLimiter!Grant(key, 1)
    BY <1>1, <1>3 DEF SharedLimiter!Grant
  <2> QED BY <1>2, <2>1 DEF SharedLimiter!Next
<1>5. granted' \in [Keys -> Nat] /\ mark' \in [Keys -> [0 .. MaxTicks -> Nat]]
  BY <1>1, <1>2 DEF LimiterInv
<1>6. WithinBucket'
  <2>1. ASSUME NEW k \in Keys, NEW s \in 0 .. ticks
        PROVE  granted'[k] - mark[k][s] + tokens'[k] <= Capacity + (ticks - s)
    <3>1. granted[k] - mark[k][s] + tokens[k] <= Capacity + (ticks - s)
      BY DEF LimiterInv, WithinBucket
    <3>2. /\ granted[k] \in Nat /\ tokens[k] \in Nat /\ mark[k][s] \in Nat
      BY LimiterNumbers
    <3>3. CASE k = key
      <4>1. granted'[k] = granted[k] + 1 /\ tokens'[k] = tokens[k] - 1
        BY <1>1, <1>2, <3>3 DEF LimiterInv, Known, TypeOK
      <4> QED BY <3>1, <3>2, <4>1
    <3>4. CASE k # key
      <4>1. granted'[k] = granted[k] /\ tokens'[k] = tokens[k]
        BY <1>1, <1>2, <3>4 DEF LimiterInv, Known, TypeOK
      <4> QED BY <3>1, <4>1
    <3> QED BY <3>3, <3>4
  <2>2. Keys' = Keys /\ Capacity' = Capacity
    BY DEF Keys, Passing, KeyOf
  <2> QED BY <2>1, <2>2 DEF WithinBucket
<1> QED BY <1>4, <1>5, <1>6 DEF LimiterInv, Keys, Passing, KeyOf

\* A tick is one of RateContract's.
LEMMA LimiterTicks ==
  ASSUME Known, LimiterInv, HistoriesFollow, Tick
  PROVE  SharedLimiter!Next /\ LimiterInv'
<1>1. /\ ticks' = ticks + 1 /\ ticks \in Nat /\ ticks < MaxTicks
      /\ UNCHANGED pc
  BY LimiterNumbers DEF Tick
<1>2. granted' = granted
  <2>1. \A k \in Keys : ~Grants(k)
    BY <1>1 DEF Grants
  <2> QED BY <2>1 DEF HistoriesFollow, LimiterInv
<1>3. mark' = [k \in Keys |-> [mark[k] EXCEPT ![ticks + 1] = granted[k]]]
  BY <1>1 DEF HistoriesFollow
<1>4. SharedLimiter!Next
  BY <1>1, <1>2, <1>3 DEF SharedLimiter!Next, SharedLimiter!Tick
<1>5. mark' \in [Keys -> [0 .. MaxTicks -> Nat]]
  BY <1>3 DEF LimiterInv
<1>6. ASSUME NEW k \in Keys, NEW s \in 0 .. ticks + 1
      PROVE  granted[k] - mark'[k][s] + tokens'[k] <= Capacity + (ticks + 1 - s)
  <2>1. /\ granted[k] \in Nat /\ tokens[k] \in Nat /\ tokens[k] <= Capacity
        /\ Capacity \in Nat
    BY LimiterNumbers
  <2>2. /\ tokens'[k] \in Nat /\ tokens'[k] <= tokens[k] + 1
        /\ tokens'[k] <= Capacity
    BY <2>1 DEF Tick
  <2>3. CASE s = ticks + 1
    <3>1. mark'[k][s] = granted[k]
      BY <1>1, <1>3, <2>3 DEF LimiterInv
    <3> QED BY <1>1, <2>1, <2>2, <2>3, <3>1
  <2>4. CASE s \in 0 .. ticks
    <3>1. mark'[k][s] = mark[k][s] /\ mark[k][s] \in Nat
      BY <1>1, <1>3, <2>4 DEF LimiterInv
    <3>2. granted[k] - mark[k][s] + tokens[k] <= Capacity + (ticks - s)
      BY <2>4 DEF LimiterInv, WithinBucket
    <3> QED BY <1>1, <2>1, <2>2, <2>4, <3>1, <3>2
  <2> QED BY <1>1, <2>3, <2>4
<1>7. WithinBucket'
  <2>1. Keys' = Keys
    BY DEF Keys, Passing, KeyOf
  <2> QED BY <1>1, <1>2, <1>6, <2>1 DEF WithinBucket
<1> QED BY <1>2, <1>4, <1>5, <1>7 DEF LimiterInv, Keys, Passing, KeyOf

\* Every step keeps the limiter's inequality and is one of RateContract's.
LEMMA LimiterSteps ==
  ASSUME Known, LimiterInv, [NextWithHistories]_<<vars, histories>>
  PROVE  [SharedLimiter!Next]_(SharedLimiter!vars) /\ LimiterInv'
<1>0. ASSUME UNCHANGED <<granted, mark, tokens, ticks>>
      PROVE  UNCHANGED SharedLimiter!vars /\ LimiterInv'
  BY <1>0 DEF SharedLimiter!vars, LimiterInv, WithinBucket, Keys, Passing,
              KeyOf
<1>1. CASE Tick /\ HistoriesFollow
  BY <1>1, LimiterTicks
<1>2. ASSUME NEW r \in Requests, Step(r), HistoriesFollow
      PROVE  [SharedLimiter!Next]_(SharedLimiter!vars) /\ LimiterInv'
  BY <1>0, <1>2, RequestGrants, GrantingGrants
<1>3. CASE UNCHANGED <<vars, histories>>
  BY <1>0, <1>3 DEF vars, histories
<1> QED BY <1>1, <1>2, <1>3 DEF NextWithHistories, Next

\* The limiter starts with full buckets and nothing granted.
LEMMA LimiterStarts ==
  InitWithHistories => SharedLimiter!Init /\ LimiterInv
<1> SUFFICES ASSUME InitWithHistories
             PROVE  SharedLimiter!Init /\ LimiterInv
  OBVIOUS
<1>1. SharedLimiter!Init
  BY DEF InitWithHistories, Init, SharedLimiter!Init
<1>2. granted \in [Keys -> Nat] /\ mark \in [Keys -> [0 .. MaxTicks -> Nat]]
  BY DEF InitWithHistories
<1>3. WithinBucket
  BY DEF InitWithHistories, Init, WithinBucket
<1> QED BY <1>1, <1>2, <1>3 DEF LimiterInv

(***************************************************************************)
(* The limiter that the instances share keeps RateContract for all doors   *)
(* together: a tenant gets no more from an engine in any interval than a   *)
(* full bucket and the refill of the interval, wherever it asks.           *)
(***************************************************************************)
THEOREM LimiterImplementation == SpecWithHistories => LimiterImplements
<1>1. Known /\ LimiterInv /\ [NextWithHistories]_<<vars, histories>>
        => [SharedLimiter!Next]_(SharedLimiter!vars) /\ LimiterInv'
  BY LimiterSteps
<1> QED
  BY <1>1, LimiterStarts, KnownHolds, PTL
     DEF SpecWithHistories, LimiterImplements, SharedLimiter!Spec

-----------------------------------------------------------------------------
(***************************************************************************)
(* The theorems about CircuitBreaker, said of the watched breaker.         *)
(***************************************************************************)
Proved ==
  INSTANCE CircuitBreakerProofs
    WITH Callers <- RequestsOf(Watched), call <- Calls,
         breaker <- breaker[Watched], engine <- "failing"

\* The callers are finitely many, as those theorems assume.
LEMMA FewCallers == Proved!IsFiniteSet(RequestsOf(Watched))
<1>1. IsFiniteSet(Requests)
  BY DEF Requests
<1>2. RequestsOf(Watched) \subseteq Requests
  BY DEF RequestsOf
<1>3. IsFiniteSet(RequestsOf(Watched))
  BY <1>1, <1>2, FS_Subset
<1> QED BY <1>3 DEF Proved!IsFiniteSet, IsFiniteSet

\* Proved and WatchedBreaker are the same instance of the same module.
USE DEF WatchedBreaker!Running, Proved!Running, WatchedBreaker!Opens,
        Proved!Opens, WatchedBreaker!Closed, Proved!Closed,
        WatchedBreaker!Open, Proved!Open, WatchedBreaker!HalfOpen,
        Proved!HalfOpen, WatchedBreaker!TimeoutElapsed,
        Proved!TimeoutElapsed, WatchedBreaker!Admits, Proved!Admits,
        WatchedBreaker!vars, Proved!vars

\* They have the same initial states.
LEMMA SameInit == WatchedBreaker!Init => Proved!Init
  BY DEF WatchedBreaker!Init, WatchedBreaker!NewCircuitBreaker,
         Proved!Init, Proved!NewCircuitBreaker

\* They have the same steps.
LEMMA SameNext ==
  [WatchedBreaker!Next]_(WatchedBreaker!vars) => [Proved!Next]_(Proved!vars)
<1>1. \A c : WatchedBreaker!Execute(c) => Proved!Execute(c)
  BY Zenon DEF WatchedBreaker!Execute, WatchedBreaker!Start,
               WatchedBreaker!Refuse, WatchedBreaker!AfterAllow,
               Proved!Execute, Proved!Start, Proved!Refuse,
               Proved!AfterAllow
<1>2. \A c : WatchedBreaker!Succeed(c) => Proved!Succeed(c)
  BY Zenon DEF WatchedBreaker!Succeed, WatchedBreaker!ProbesAfterReturn,
               WatchedBreaker!OpenTicksFollow, WatchedBreaker!AfterSuccess,
               Proved!Succeed, Proved!ProbesAfterReturn,
               Proved!OpenTicksFollow, Proved!AfterSuccess
<1>3. \A c : WatchedBreaker!Fail(c) => Proved!Fail(c)
  BY Zenon DEF WatchedBreaker!Fail, WatchedBreaker!ProbesAfterReturn,
               WatchedBreaker!OpenTicksFollow, WatchedBreaker!AfterFailure,
               Proved!Fail, Proved!ProbesAfterReturn,
               Proved!OpenTicksFollow, Proved!AfterFailure
<1>4. \A c : WatchedBreaker!Panic(c) => Proved!Panic(c)
  BY Zenon DEF WatchedBreaker!Panic, Proved!Panic
<1>5. /\ WatchedBreaker!Reset => Proved!Reset
      /\ WatchedBreaker!Tick => Proved!Tick
      /\ WatchedBreaker!EngineRecovers => Proved!EngineRecovers
  BY Zenon DEF WatchedBreaker!Reset, WatchedBreaker!AfterReset,
               WatchedBreaker!Tick, WatchedBreaker!Aged,
               WatchedBreaker!EngineRecovers,
               Proved!Reset, Proved!AfterReset, Proved!Tick, Proved!Aged,
               Proved!EngineRecovers
<1> QED
  BY <1>1, <1>2, <1>3, <1>4, <1>5, Zenon
     DEF WatchedBreaker!Next, WatchedBreaker!Return,
         Proved!Next, Proved!Return

\* They have the same invariants.
LEMMA SameInvariants ==
  /\ Proved!ProbeBound => WatchedBreaker!ProbeBound
  /\ Proved!NoWedge => WatchedBreaker!NoWedge
  /\ Proved!OpenNotExtended => WatchedBreaker!OpenNotExtended
<1>1. Proved!ProbeBound => WatchedBreaker!ProbeBound
  BY Zenon DEF WatchedBreaker!ProbeBound, WatchedBreaker!Cardinality,
               Proved!ProbeBound, Proved!Cardinality
<1>2. Proved!NoWedge => WatchedBreaker!NoWedge
  BY Zenon DEF WatchedBreaker!NoWedge, Proved!NoWedge
<1>3. Proved!OpenNotExtended => WatchedBreaker!OpenNotExtended
  BY Zenon DEF WatchedBreaker!OpenNotExtended, Proved!OpenNotExtended
<1> QED BY <1>1, <1>2, <1>3, Zenon

\* An open circuit at a door becomes half-open, and this not before Timeout.
OpenHeld ==
  StateBefore = Open /\ StateAfter # Open
    => StateAfter = HalfOpen /\ openTicks >= Timeout

\* Nothing at the doors closes an open circuit.
LEMMA OpenStays ==
  ASSUME Known, Next, StateBefore = Open
  PROVE  \/ StateAfter = Open
         \/ StateAfter = HalfOpen /\ Admits(breaker[Watched])
<1> DEFINE b == breaker[Watched]
<1>1. b \in Breaker /\ b.state = Open /\ breaker \in [Instances -> Breaker]
  BY DEF Known, TypeOK, StateBefore
<1>2. /\ Aged(b).state = Open /\ AfterSuccess(b).state = Open
      /\ Admits(b) => AfterAllow(b).state = HalfOpen
      /\ AfterFailure(b) = b
  <2>1. Admits(b) => AfterAllow(b).state = HalfOpen
    BY <1>1, Transitions, Zenon
  <2>2. Aged(b).state = Open /\ AfterSuccess(b).state = Open
    BY <1>1, Transitions, Zenon
  <2>3. AfterFailure(b) = b
    BY <1>1 DEF AfterFailure, Closed, Open, HalfOpen
  <2> QED BY <2>1, <2>2, <2>3
<1>3. CASE Tick
  <2>1. breaker'[Watched] = Aged(b)
    BY <1>3 DEF Tick
  <2> QED BY <1>2, <2>1 DEF StateAfter
<1>4. ASSUME NEW r \in Requests, Step(r)
      PROVE  \/ StateAfter = Open
             \/ StateAfter = HalfOpen /\ Admits(b)
  <2>1. Granting(r) \/ Entering(r) \/ Leaving(r) \/ Elsewhere(r)
    BY <1>4, StepKinds DEF Known
  <2>2. CASE InstanceOf(r) = Watched
    <3>1. \/ breaker'[Watched] = b
          \/ breaker'[Watched] = AfterAllow(b) /\ Admits(b)
          \/ breaker'[Watched] = AfterSuccess(b)
          \/ breaker'[Watched] = AfterFailure(b)
      BY <1>1, <2>1, <2>2
         DEF Granting, Entering, Leaving, Elsewhere, BreakerAt
    <3> QED BY <1>1, <1>2, <3>1 DEF StateAfter
  <2>3. CASE InstanceOf(r) # Watched
    <3>1. breaker'[Watched] = b
      BY <1>1, <2>1, <2>3
         DEF Granting, Entering, Leaving, Elsewhere, BreakerAt
    <3> QED BY <1>1, <3>1 DEF StateAfter
  <2> QED BY <2>2, <2>3
<1> QED BY <1>3, <1>4 DEF Next

\* A circuit that lets a request through while open is due for it.
LEMMA HeldByEveryStep ==
  ASSUME Known, Proved!IInv, [NextWithHistories]_<<vars, histories>>
  PROVE  [OpenHeld]_<<vars, histories>>
<1> SUFFICES ASSUME StateBefore = Open, StateAfter # Open, NextWithHistories
             PROVE  StateAfter = HalfOpen /\ openTicks >= Timeout
  BY DEF OpenHeld
<1>1. StateAfter = HalfOpen /\ Admits(breaker[Watched])
  BY OpenStays DEF NextWithHistories
<1>2. breaker[Watched].openAge >= Timeout
  BY <1>1 DEF Admits, TimeoutElapsed, StateBefore, Open, HalfOpen, Closed
<1>3. openTicks = breaker[Watched].openAge
  BY DEF Proved!IInv, Proved!OpenInv, StateBefore, Open
<1> QED BY <1>1, <1>2, <1>3

(***************************************************************************)
(* What the breaker promises, it promises at the doors: at either instance *)
(* and for any number of concurrent requests, a half-open circuit lets no  *)
(* more than MaxRequests + 1 requests of its period through to the engine; *)
(* it refuses all others only while one of them is still there or after    *)
(* one was lost to a panic; and an open circuit refuses all requests until *)
(* Timeout has passed and lets the next one through then, however many     *)
(* requests of before return late.                                         *)
(***************************************************************************)
THEOREM BreakerSafeAtDoors ==
  SpecWithHistories => /\ []WatchedBreaker!ProbeBound
                       /\ []WatchedBreaker!NoWedge
                       /\ []WatchedBreaker!OpenNotExtended
                       /\ [][OpenHeld]_<<vars, histories>>
<1>1. WatchedBreaker!Spec => Proved!Spec
  BY SameInit, SameNext, PTL DEF WatchedBreaker!Spec, Proved!Spec
<1>2. Proved!Spec => []Proved!ProbeBound
  BY BreakerAssumption, SlotsAssumption, FewCallers, Proved!ProbesBounded
<1>3. Proved!Spec => []Proved!NoWedge
  BY BreakerAssumption, SlotsAssumption, FewCallers, Proved!NeverWedged
<1>4. Proved!Spec => []Proved!OpenNotExtended
  BY BreakerAssumption, SlotsAssumption, FewCallers, Proved!OpenEnds
<1>5. Proved!Spec => []Proved!IInv
  BY BreakerAssumption, SlotsAssumption, FewCallers, Proved!IInvAlways
<1>6. Known /\ Proved!IInv /\ [NextWithHistories]_<<vars, histories>>
        => [OpenHeld]_<<vars, histories>>
  BY HeldByEveryStep
<1> QED
  BY <1>1, <1>2, <1>3, <1>4, <1>5, <1>6, SameInvariants, KnownHolds,
     BreakerImplementation, PTL DEF BreakerImplements, SpecWithHistories
=============================================================================
