------------------------------ MODULE MCGateway ------------------------------
(***************************************************************************)
(* Gateway for TLC: a tenant with a quota sends one request through each   *)
(* of the three doors, named once in the request's metadata alone, and one *)
(* request of the HTTP door has no tenant and an empty bearer token beside *)
(* its API key.                                                            *)
(***************************************************************************)
EXTENDS Gateway, TLC

CONSTANTS h1, h2, g1, c1, t1, t2

MCHosts == {<<"gateway">>} \cup {<<t, "domain", "com">> : t \in Tenants}

Plain ==
  [engine |-> "engine", version |-> Empty, capability |-> "run", sub |-> Empty,
   Authorization |-> "valid", APIKey |-> "absent", tenant |-> t1,
   metadataTenant |-> Empty, host |-> <<"gateway">>]

MCCallOf ==
  [r \in Requests |->
     CASE r \in {h1, g1} -> Plain
       [] r = c1 -> [Plain EXCEPT !.tenant = Empty, !.metadataTenant = t1]
       [] r = h2 -> [Plain EXCEPT !.tenant = Empty, !.Authorization = "bare",
                                  !.APIKey = "known"]]

MCInstalled ==
  [authenticator |-> TRUE, tenantResolver |-> FALSE,
   chain |-> <<"jwt", "apikey">>]

MCQuotaLimit == t1 :> 1
=============================================================================
