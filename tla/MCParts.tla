------------------------------- MODULE MCParts -------------------------------
(***************************************************************************)
(* GatewayParts for TLC: one tenant, whose requests to the HTTP door are   *)
(* enough to open its breaker, to probe it twice and to have one of before *)
(* return late, and one to the gRPC door.                                  *)
(***************************************************************************)
EXTENDS GatewayParts, TLC

CONSTANTS t1

MCCallOf ==
  [r \in Requests |->
     [engine |-> "engine", version |-> Empty, capability |-> "run",
      sub |-> Empty, Authorization |-> "valid", APIKey |-> "absent",
      tenant |-> t1, metadataTenant |-> Empty, host |-> <<"gateway">>]]

MCInstalled ==
  [authenticator |-> TRUE, tenantResolver |-> FALSE,
   chain |-> <<"jwt", "apikey">>]

MCHosts == {<<"gateway">>}

MCQuotaLimit == << >>

MCSymmetry == Permutations(HTTPRequests)
=============================================================================
