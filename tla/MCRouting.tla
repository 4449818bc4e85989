------------------------------ MODULE MCRouting ------------------------------
(***************************************************************************)
(* Routing for TLC: three instances of one engine, of two versions and     *)
(* three weights, one of them given as zero.                               *)
(***************************************************************************)
EXTENDS Routing, TLC

CONSTANTS a1, a2, a3, v1, v2, g1, g2, h1, w1, q1

MCVersionOf == a1 :> v1 @@ a2 :> v2 @@ a3 :> v1

MCWeightOf == a1 :> 2 @@ a2 :> 1 @@ a3 :> 0

MCHash == <<5, 7, 6>>

SharedSymmetry == Permutations(SharedCalls)

MCWanted == [c \in Routed |-> IF c = h1 THEN v2 ELSE NoVersion]
=============================================================================
