---------------------------- MODULE MCDeployment ----------------------------
(***************************************************************************)
(* Deployment for TLC: at each door a call with a deadline, at the gRPC    *)
(* and the Connect door an open-ended one too, and GATEWAY_ENGINES with up *)
(* to two of six entries.                                                  *)
(***************************************************************************)
EXTENDS Deployment

CONSTANTS h1, g1, g2, c1, c2

Entry(n, s, a) == [name |-> n, scheme |-> s, address |-> a]

Entries ==
  {Blank, NoTarget, Entry("pdf", NoScheme, "host"),
   Entry("pdf", "http", Empty), Entry(Empty, "http", "host"),
   Entry("ocr", Empty, "host")}

MCConfigs == {<<>>} \cup {<<e>> : e \in Entries} \cup (Entries \X Entries)
=============================================================================
