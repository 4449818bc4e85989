------------------------------ MODULE Admission ------------------------------
(***************************************************************************)
(* What the front doors make of a request before its first use of shared   *)
(* state: the engine and capability it names, the identity it              *)
(* authenticates as, the question put to the authorizer, and the tenant    *)
(* that the rate limiter and the quota charge.                             *)
(*                                                                         *)
(* A call is what a client means to send: the fields are the same for all  *)
(* doors, and each door reads them where its protocol puts them.  Only     *)
(* the RPC protocols have metadataTenant, and only HTTP has version, sub   *)
(* and host.  The empty string is Empty.                                   *)
(***************************************************************************)
EXTENDS Naturals, Sequences, FiniteSetsExt

CONSTANTS
  Empty,        \* the empty string
  Engines,      \* engine names
  Segments,     \* the other path segments (versions, capabilities)
  VSegments,    \* those that begin with the letter v
  Tenants,      \* tenant IDs
  Hosts,        \* host names, each the sequence of its labels
  Registered    \* the tenants in the TenantRegistry

ASSUME AdmissionAssumption ==
  /\ VSegments \subseteq Segments
  /\ Registered \subseteq Tenants
  /\ Empty \notin Engines \cup Segments \cup Tenants

(***************************************************************************)
(* The header Authorization is absent, "Bearer " with nothing after it, a  *)
(* token that validates, or one that does not; with or without the prefix  *)
(* "Bearer " makes no difference.                                          *)
(***************************************************************************)
Authorizations == {"absent", "bare", "valid", "invalid"}

APIKeys == {"absent", "known", "unknown"}

OptionalTenant == Tenants \cup {Empty}

Call ==
  [engine : Engines \cup {Empty}, version : VSegments \cup {Empty},
   capability : Segments \cup {Empty}, sub : Segments \cup {Empty},
   Authorization : Authorizations, APIKey : APIKeys,
   tenant : OptionalTenant, metadataTenant : OptionalTenant, host : Hosts]

(***************************************************************************)
(* How an instance is configured: whether it has an authenticator, the     *)
(* members of the chain it tries, and whether it has a tenant resolver     *)
(* (which no RPC server has).                                              *)
(***************************************************************************)
Setting ==
  [authenticator : BOOLEAN, tenantResolver : BOOLEAN,
   chain : UNION {[1 .. n -> {"jwt", "apikey"}] : n \in 0 .. 2}]

Nobody == "nobody"       \* the nil identity of an instance that asks nobody
Rejected == "rejected"   \* an authentication error
-----------------------------------------------------------------------------
\* JWTAuthenticator.Authenticate: a bearer token that validates.
JWTAuthenticate(credentials) ==
  IF credentials = <<"bearer", "valid">> THEN "subject" ELSE Rejected

\* APIKeyAuthenticator.Authenticate: a key that was added.
APIKeyAuthenticate(credentials) ==
  IF credentials = <<"api-key", "known">> THEN "key owner" ELSE Rejected

AuthenticateBy(member, credentials) ==
  IF member = "jwt" THEN JWTAuthenticate(credentials)
                    ELSE APIKeyAuthenticate(credentials)

\* ChainAuthenticator.Authenticate: the first member that accepts.
Authenticate(chain, credentials) ==
  LET accepting == {k \in DOMAIN chain :
                      AuthenticateBy(chain[k], credentials) # Rejected}
  IN  IF accepting = {} THEN Rejected
      ELSE AuthenticateBy(chain[Min(accepting)], credentials)

\* Without credentials there is nothing to ask the authenticator.
NoCredentials == <<"none", "none">>

APIKeyCredentials(call) ==
  IF call.APIKey = "absent" THEN NoCredentials
  ELSE <<"api-key", call.APIKey>>

\* The HTTP door looks at the token again once the prefix is gone.
HTTPCredentials(call) ==
  IF call.Authorization \in {"absent", "bare"} THEN APIKeyCredentials(call)
  ELSE <<"bearer", call.Authorization>>

\* Mutant: the API key is looked at first.
RPCCredentialsKeyFirst(call) ==
  IF call.APIKey # "absent" THEN APIKeyCredentials(call)
  ELSE IF call.Authorization = "absent" THEN NoCredentials
  ELSE <<"bearer", call.Authorization>>

\* The RPC doors do not; the Connect door only lowers the headers' case.
RPCCredentials(call) ==
  IF call.Authorization = "absent" THEN APIKeyCredentials(call)
  ELSE <<"bearer", call.Authorization>>

Identity(setting, credentials) ==
  IF ~setting.authenticator THEN Nobody
  ELSE IF credentials = NoCredentials THEN Rejected
  ELSE Authenticate(setting.chain, credentials)
-----------------------------------------------------------------------------
\* The path a client asks for: /v1/{engine}[/{version}]/{capability}[/{sub}].
\* An empty segment is not part of it.
Segment(s) == IF s = Empty THEN << >> ELSE <<s>>

Path(call) ==
  Segment(call.engine) \o Segment(call.version)
    \o Segment(call.capability) \o Segment(call.sub)

Invalid == <<"invalid">>

\* FromHTTP: engine and capability of a path, or Invalid.
FromHTTP(path) ==
  IF Len(path) < 2 THEN Invalid
  ELSE IF Len(path) >= 3 /\ path[2] \in VSegments THEN <<path[1], path[3]>>
  ELSE <<path[1], path[2]>>

FromRPC(call) ==
  IF Empty \in {call.engine, call.capability} THEN Invalid
  ELSE <<call.engine, call.capability>>

subdomainFromHost(host) == IF Len(host) >= 3 THEN host[1] ELSE Empty

\* ResolveTenant.Resolve, whose answer the HTTP door drops: only whether
\* there is one matters.  The hints TenantID and HeaderValue are both the
\* tenant header.
TenantResolves(call) ==
  IF call.tenant # Empty THEN call.tenant \in Registered
  ELSE subdomainFromHost(call.host) \in Registered

HTTPTenant(call) == call.tenant

\* The tenant of the context, or else that of the metadata.
RPCTenant(call) ==
  IF call.tenant # Empty THEN call.tenant ELSE call.metadataTenant

rateLimitKey(tenant, engine) == <<tenant, engine>>
-----------------------------------------------------------------------------
(***************************************************************************)
(* What a door does with a call: it turns it away as invalid or            *)
(* unauthenticated, or asks the authorizer, if it has one, and then, if    *)
(* its tenant resolves, charges a tenant.                                  *)
(***************************************************************************)
Outcome(target, identity, asked, resolves, tenant) ==
  IF target = Invalid THEN [verdict |-> "invalid"]
  ELSE IF identity = Rejected THEN [verdict |-> "unauthenticated"]
  ELSE [verdict |-> IF resolves THEN "passes" ELSE "no tenant",
        question |-> <<identity, target, asked>>,
        key |-> rateLimitKey(tenant, target[1])]

HTTPDoor(setting, call) ==
  Outcome(FromHTTP(Path(call)), Identity(setting, HTTPCredentials(call)),
          HTTPTenant(call), setting.tenantResolver => TenantResolves(call),
          HTTPTenant(call))

\* The authorizer is asked about the tenant of the context alone.
RPCDoor(setting, call) ==
  Outcome(FromRPC(call), Identity(setting, RPCCredentials(call)),
          call.tenant, TRUE, RPCTenant(call))
-----------------------------------------------------------------------------
(***************************************************************************)
(* The same policy at every door: a call that all the protocols can        *)
(* express is turned away at the HTTP door exactly when it is at the RPC   *)
(* doors, and otherwise puts the same question to the authorizer and is    *)
(* charged to the same bucket.  The exceptions are all there are: an empty *)
(* bearer token, a tenant named only in the request's metadata, a          *)
(* capability that begins with v and is followed by a sub-resource, and a  *)
(* tenant that does not resolve at an HTTP door that asks.                 *)
(***************************************************************************)
Expressible(call) ==
  /\ call.Authorization # "bare"
  /\ call.tenant = Empty => call.metadataTenant = Empty
  /\ ~(call.capability \in VSegments /\ call.sub # Empty /\ call.version = Empty)
  /\ call.engine # Empty
  /\ call.capability = Empty => call.version = Empty /\ call.sub = Empty

SamePolicy(setting, call) ==
  LET http == HTTPDoor(setting, call)
      rpc == RPCDoor(setting, call)
  IN  Expressible(call) =>
        \/ http = rpc
        \/ /\ setting.tenantResolver /\ ~TenantResolves(call)
           /\ http = [rpc EXCEPT !.verdict = "no tenant"]
=============================================================================
