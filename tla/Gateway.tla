------------------------------- MODULE Gateway -------------------------------
(***************************************************************************)
(* The three front doors of cmd/gateway as main wires them, and the        *)
(* requests that pass through their policy chains at the same time.        *)
(*                                                                         *)
(* The HTTP door is a gateway.Gateway, the gRPC door a grpcserver.Server,  *)
(* and the Connect door calls that same Server.  The two instances share   *)
(* the rate limiter (and what keeps no state: authenticator, authorizer,   *)
(* engine client); each has its own quota, circuit breaker and metrics.    *)
(*                                                                         *)
(* A request takes one step per lock it acquires.  What the chain does     *)
(* before the limiter touches no shared state (module Admission) and is    *)
(* one step.  The engine's endpoints may come and go (module Routing); the *)
(* limiter is seen through the whole tokens it has to give (module         *)
(* TokenBucket) and the breaker's methods are those of BreakerOps.         *)
(*                                                                         *)
(* A handler may panic (routing.go:351, client.go:81).  The servers of     *)
(* net/http, those of the HTTP and the Connect door, end such a request    *)
(* without an answer and go on; the gRPC server recovers nothing, and the  *)
(* process ends.                                                           *)
(***************************************************************************)
EXTENDS BreakerOps, Admission, FiniteSets

CONSTANTS
  HTTPRequests, GRPCRequests, ConnectRequests,   \* requests by front door
  CallOf,        \* the call each request makes
  Installed,     \* how both instances are configured
  QuotaLimit,    \* the tenants with a quota on "requests", and that quota
  Capacity,      \* capacity of the token bucket
  MaxTicks       \* bound on the clock

Requests == HTTPRequests \cup GRPCRequests \cup ConnectRequests

\* What the door of each request makes of it.
Door ==
  [r \in Requests |-> IF r \in HTTPRequests THEN HTTPDoor(Installed, CallOf[r])
                      ELSE RPCDoor(Installed, CallOf[r])]

Passing == {r \in Requests : Door[r].verdict = "passes"}

Keys == {Door[r].key : r \in Passing}

KeyOf(r) == Door[r].key

TenantOf(r) == KeyOf(r)[1]

ASSUME GatewayAssumption ==
  /\ IsFiniteSet(Requests)
  /\ CallOf \in [Requests -> Call]
  /\ Installed \in Setting
  /\ \A t \in DOMAIN QuotaLimit : t \in Tenants /\ QuotaLimit[t] \in Nat
  /\ Capacity \in Nat
  /\ MaxTicks \in Nat

Instances == {"http", "grpc"}

InstanceOf(r) == IF r \in HTTPRequests THEN "http" ELSE "grpc"

RequestsOf(i) == {r \in Requests : InstanceOf(r) = i}

VARIABLES
  pc,         \* where each request is in the chain
  answer,     \* what it is answered, once that is decided
  tokens,     \* per key, the whole tokens in the shared bucket
  usage,      \* per instance and tenant, Quota.usage
  breaker,    \* per instance, the circuit breaker
  metrics,    \* per instance, the Metrics counters
  crashed,    \* the process has ended
  ticks       \* the clock

vars == <<pc, answer, tokens, usage, breaker, metrics, crashed, ticks>>

Stages == {"new", "limit", "quota", "resolve", "allow", "forward", "record",
           "done"}

\* Answers decided after the limiter.  "engine status" is a response of the
\* engine with an error status; "engine error" is a call that failed;
\* "aborted" is no answer, after a panic.
LaterAnswers ==
  {"rate limited", "quota exceeded", "not found", "unavailable",
   "engine error", "engine status", "ok", "aborted"}

Answers == {"rejected"} \cup LaterAnswers

Counters == [RequestCount : Nat, SuccessCount : Nat, ErrorCount : Nat]

TypeOK ==
  /\ pc \in [Requests -> Stages]
  /\ answer \in [Requests -> Answers \cup {"none"}]
  /\ tokens \in [Keys -> 0 .. Capacity]
  /\ usage \in [Instances -> [DOMAIN QuotaLimit -> Nat]]
  /\ breaker \in [Instances -> Breaker]
  /\ metrics \in [Instances -> Counters]
  /\ crashed \in BOOLEAN
  /\ ticks \in 0 .. MaxTicks

Init ==
  /\ pc = [r \in Requests |-> "new"]
  /\ answer = [r \in Requests |-> "none"]
  /\ tokens = [k \in Keys |-> Capacity]
  /\ usage = [i \in Instances |-> [t \in DOMAIN QuotaLimit |-> 0]]
  /\ breaker = [i \in Instances |-> NewCircuitBreaker]
  /\ metrics = [i \in Instances |-> [RequestCount |-> 0, SuccessCount |-> 0,
                                     ErrorCount |-> 0]]
  /\ crashed = FALSE
  /\ ticks = 0
-----------------------------------------------------------------------------
At(r, stage) == pc[r] = stage

\* The request's goroutine is at this stage and can take its next step.
Reaches(r, stage) == ~crashed /\ At(r, stage)

Proceed(r, stage) ==
  /\ pc' = [pc EXCEPT ![r] = stage]
  /\ UNCHANGED answer

Respond(r, a) ==
  /\ pc' = [pc EXCEPT ![r] = "done"]
  /\ answer' = [answer EXCEPT ![r] = a]

\* The chain goes on to RecordRequest with the answer decided.
Decide(r, a) ==
  /\ pc' = [pc EXCEPT ![r] = "record"]
  /\ answer' = [answer EXCEPT ![r] = a]

\* Conversion, authentication, authorization and, at the HTTP door, tenant
\* resolution.  A request the door does not let pass is rejected, and any
\* other may be: by the authorizer, or for a body that cannot be read.
Admit(r) ==
  /\ Reaches(r, "new")
  /\ \/ r \in Passing /\ Proceed(r, "limit")
     \/ Respond(r, "rejected")
  /\ UNCHANGED <<tokens, usage, breaker, metrics, crashed, ticks>>

\* Mutant: a request is let through when there is no token left.
RateLimitOverdraws(r) ==
  /\ Reaches(r, "limit")
  /\ tokens' = [tokens EXCEPT ![KeyOf(r)] = @ - 1]
  /\ Proceed(r, "quota")
  /\ UNCHANGED <<usage, breaker, metrics, crashed, ticks>>

\* Mutant: a request that is let through takes no token.
RateLimitFree(r) ==
  /\ Reaches(r, "limit")
  /\ \/ tokens[KeyOf(r)] >= 1 /\ Proceed(r, "quota")
     \/ tokens[KeyOf(r)] < 1 /\ Respond(r, "rate limited")
  /\ UNCHANGED <<tokens, usage, breaker, metrics, crashed, ticks>>

\* limiter.Allow(tenant:engine).
RateLimit(r) ==
  /\ Reaches(r, "limit")
  /\ \/ /\ tokens[KeyOf(r)] >= 1
        /\ tokens' = [tokens EXCEPT ![KeyOf(r)] = @ - 1]
        /\ Proceed(r, "quota")
     \/ /\ tokens[KeyOf(r)] < 1
        /\ Respond(r, "rate limited")
        /\ UNCHANGED tokens
  /\ UNCHANGED <<usage, breaker, metrics, crashed, ticks>>

Limited(r) == TenantOf(r) \in DOMAIN QuotaLimit

Used(r) == usage[InstanceOf(r)][TenantOf(r)]

\* Mutant: a request is charged before it is compared with the limit.
checkQuotaChargesFirst(r) ==
  /\ Reaches(r, "quota")
  /\ \/ /\ ~Limited(r)
        /\ Proceed(r, "resolve")
        /\ UNCHANGED usage
     \/ /\ Limited(r)
        /\ usage' = [usage EXCEPT ![InstanceOf(r)][TenantOf(r)] = @ + 1]
        /\ IF Used(r) + 1 <= QuotaLimit[TenantOf(r)]
           THEN Proceed(r, "resolve") ELSE Respond(r, "quota exceeded")
  /\ UNCHANGED <<tokens, breaker, metrics, crashed, ticks>>

\* quota.Consume(tenant, "requests", 1), for a request with a tenant.  The
\* usage of a tenant without a limit is not recorded.
checkQuota(r) ==
  /\ Reaches(r, "quota")
  /\ \/ /\ ~Limited(r)
        /\ Proceed(r, "resolve")
        /\ UNCHANGED usage
     \/ /\ Limited(r) /\ Used(r) + 1 <= QuotaLimit[TenantOf(r)]
        /\ usage' = [usage EXCEPT ![InstanceOf(r)][TenantOf(r)] = @ + 1]
        /\ Proceed(r, "resolve")
     \/ /\ Limited(r) /\ Used(r) + 1 > QuotaLimit[TenantOf(r)]
        /\ Respond(r, "quota exceeded")
        /\ UNCHANGED usage
  /\ UNCHANGED <<tokens, breaker, metrics, crashed, ticks>>

\* resolveEndpoint.
ResolveEndpoint(r) ==
  /\ Reaches(r, "resolve")
  /\ Proceed(r, "allow") \/ Respond(r, "not found")
  /\ UNCHANGED <<tokens, usage, breaker, metrics, crashed, ticks>>

\* Mutant: a refusal by the breaker is answered without being recorded.
AllowUnrecorded(r) ==
  LET b == breaker[InstanceOf(r)]
  IN  /\ Reaches(r, "allow")
      /\ \/ /\ Admits(b)
            /\ breaker' = [breaker EXCEPT ![InstanceOf(r)] = AfterAllow(b)]
            /\ Proceed(r, "forward")
         \/ /\ ~Admits(b)
            /\ Respond(r, "unavailable")
            /\ UNCHANGED breaker
      /\ UNCHANGED <<tokens, usage, metrics, crashed, ticks>>

\* Mutant: a request that finds the circuit open waits for it to close.
AllowWaits(r) ==
  LET b == breaker[InstanceOf(r)]
  IN  /\ Reaches(r, "allow")
      /\ Admits(b)
      /\ breaker' = [breaker EXCEPT ![InstanceOf(r)] = AfterAllow(b)]
      /\ Proceed(r, "forward")
      /\ UNCHANGED <<tokens, usage, metrics, crashed, ticks>>

\* Mutant: Allow is asked once before Execute and again within it.
AllowTwice(r) ==
  LET b == breaker[InstanceOf(r)]
  IN  /\ Reaches(r, "allow")
      /\ \/ /\ Admits(b) /\ Admits(AfterAllow(b))
            /\ breaker' = [breaker EXCEPT ![InstanceOf(r)] =
                             AfterAllow(AfterAllow(b))]
            /\ Proceed(r, "forward")
         \/ /\ ~(Admits(b) /\ Admits(AfterAllow(b)))
            /\ Decide(r, "unavailable")
            /\ breaker' = [breaker EXCEPT ![InstanceOf(r)] = AfterAllow(b)]
      /\ UNCHANGED <<tokens, usage, metrics, crashed, ticks>>

\* circuitBreaker.Execute: Allow.
Allow(r) ==
  LET b == breaker[InstanceOf(r)]
  IN  /\ Reaches(r, "allow")
      /\ \/ /\ Admits(b)
            /\ breaker' = [breaker EXCEPT ![InstanceOf(r)] = AfterAllow(b)]
            /\ Proceed(r, "forward")
         \/ /\ ~Admits(b)
            /\ Decide(r, "unavailable")
            /\ UNCHANGED breaker
      /\ UNCHANGED <<tokens, usage, metrics, crashed, ticks>>

\* circuitBreaker.Execute: the engine answered, with whatever status.
ForwardReturns(r) ==
  /\ Reaches(r, "forward")
  /\ Decide(r, "ok") \/ Decide(r, "engine status")
  /\ breaker' = [breaker EXCEPT ![InstanceOf(r)] = AfterSuccess(@)]
  /\ UNCHANGED <<tokens, usage, metrics, crashed, ticks>>

\* circuitBreaker.Execute: the call failed, timed out or was cancelled.
ForwardFails(r) ==
  /\ Reaches(r, "forward")
  /\ Decide(r, "engine error")
  /\ breaker' = [breaker EXCEPT ![InstanceOf(r)] = AfterFailure(@)]
  /\ UNCHANGED <<tokens, usage, metrics, crashed, ticks>>

\* A panic ends the request before its outcome is recorded by the breaker or
\* the metrics, and the gRPC server with it.
Panic(r) ==
  /\ Respond(r, "aborted")
  /\ crashed' = (r \in GRPCRequests)
  /\ UNCHANGED <<tokens, usage, breaker, metrics, ticks>>

\* The shared balancer of the gRPC server indexes beyond the endpoints.
ResolvePanics(r) ==
  /\ Reaches(r, "resolve")
  /\ InstanceOf(r) = "grpc"
  /\ Panic(r)

\* Forward panics on an address of seven characters.
ForwardPanics(r) ==
  /\ Reaches(r, "forward")
  /\ Panic(r)

\* What the door passes to RecordRequest: the HTTP door counts every answer
\* of the engine as a success, the gRPC server only one below 400.
RecordedAsSuccess(r) ==
  \/ answer[r] = "ok"
  \/ answer[r] = "engine status" /\ InstanceOf(r) = "http"

RecordRequest(m, success) ==
  [m EXCEPT !.RequestCount = @ + 1,
            !.SuccessCount = IF success THEN @ + 1 ELSE @,
            !.ErrorCount = IF success THEN @ ELSE @ + 1]

\* metrics.RecordRequest, and the response.
Record(r) ==
  /\ Reaches(r, "record")
  /\ metrics' = [metrics EXCEPT ![InstanceOf(r)] =
                   RecordRequest(@, RecordedAsSuccess(r))]
  /\ pc' = [pc EXCEPT ![r] = "done"]
  /\ UNCHANGED <<answer, tokens, usage, breaker, crashed, ticks>>

\* The clock: buckets refill and open circuits age.
Tick ==
  /\ ~crashed
  /\ ticks < MaxTicks
  /\ ticks' = ticks + 1
  /\ tokens' = [k \in Keys |-> IF tokens[k] < Capacity THEN tokens[k] + 1
                                                       ELSE tokens[k]]
  /\ breaker' = [i \in Instances |-> Aged(breaker[i])]
  /\ UNCHANGED <<pc, answer, usage, metrics, crashed>>

Step(r) ==
  \/ Admit(r)
  \/ RateLimit(r)
  \/ checkQuota(r)
  \/ ResolveEndpoint(r)
  \/ Allow(r)
  \/ ForwardReturns(r)
  \/ ForwardFails(r)
  \/ ResolvePanics(r)
  \/ ForwardPanics(r)
  \/ Record(r)

Next == Tick \/ \E r \in Requests : Step(r)

Spec == Init /\ [][Next]_vars

(***************************************************************************)
(* Fairness: a goroutine serving a request keeps running, and the call to  *)
(* the engine returns, at the latest when its deadline expires.            *)
(***************************************************************************)
FairSpec == Spec /\ \A r \in Requests : WF_vars(Step(r))
-----------------------------------------------------------------------------
Count(S) == Cardinality(S)

\* Requests let through by the limiter, wherever they have got since.
PastLimiter ==
  {r \in Requests : \/ pc[r] \notin {"new", "limit", "done"}
                    \/ answer[r] \in LaterAnswers \ {"rate limited"}}

PastQuota ==
  {r \in PastLimiter : pc[r] # "quota" /\ answer[r] # "quota exceeded"}

(***************************************************************************)
(* The rate limit holds across the doors: the requests of a tenant that    *)
(* any of the three doors let through, and the tokens still in the bucket, *)
(* never exceed what the bucket held and was refilled with.                *)
(***************************************************************************)
RateLimitShared ==
  \A k \in Keys :
    Count({r \in PastLimiter : KeyOf(r) = k}) + tokens[k]
      <= Capacity + ticks

(***************************************************************************)
(* Each quota is charged once for every request that got past it, no       *)
(* matter how the request ended, never for one it refused, and never       *)
(* beyond the limit.                                                       *)
(***************************************************************************)
QuotaConserved ==
  \A i \in Instances : \A t \in DOMAIN QuotaLimit :
    /\ usage[i][t] = Count({r \in PastQuota : /\ InstanceOf(r) = i
                                              /\ TenantOf(r) = t})
    /\ usage[i][t] <= QuotaLimit[t]

(***************************************************************************)
(* The metrics of an instance account for exactly the requests that it     *)
(* answered from the circuit breaker on, each of them once, and as a       *)
(* success only if the engine answered; those a panic aborted are not      *)
(* counted.                                                                *)
(***************************************************************************)
MetricsAccount ==
  \A i \in Instances :
    LET answered(S) == {r \in RequestsOf(i) : At(r, "done") /\ answer[r] \in S}
        failed == IF i = "http" THEN {"unavailable", "engine error"}
                  ELSE {"unavailable", "engine error", "engine status"}
    IN  /\ metrics[i].ErrorCount = Count(answered(failed))
        /\ metrics[i].RequestCount =
             Count(answered({"unavailable", "engine error", "engine status",
                             "ok"}))
        /\ metrics[i].SuccessCount + metrics[i].ErrorCount
             = metrics[i].RequestCount

(***************************************************************************)
(* Every request that arrives comes to an end, whatever the other requests *)
(* and the engine do, unless a panic at the gRPC door ends the process.    *)
(***************************************************************************)
EveryRequestEnds ==
  \A r \in Requests : (pc[r] # "new") ~> (At(r, "done") \/ crashed)

(***************************************************************************)
(* The same policy at every door: what SamePolicy says of each call the    *)
(* clients may make and each way the instances may be configured.  Both    *)
(* instances are configured alike, as main configures them.                *)
(***************************************************************************)
DoorsAgree ==
  Init => \A setting \in Setting, call \in Call : SamePolicy(setting, call)
=============================================================================
