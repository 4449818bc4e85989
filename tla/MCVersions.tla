------------------------------ MODULE MCVersions ------------------------------
(***************************************************************************)
(* Versions whose order as strings is not their order as versions, a       *)
(* pre-release, a version of two parts and one with a "v".                 *)
(***************************************************************************)
EXTENDS Versions

ver(a, b, c) == <<a, ".", b, ".", c>>

MCVersionSet ==
  {ver("1", "2", "0"), ver("1", "10", "0"), ver("1", "2", "2"),
   ver("2", "0", "0"), <<"1", ".", "2", ".", "0", "-", "rc">>,
   <<"1", ".", "2">>, ver("v1", "2", "0")}

MCConstraints ==
  {<<"v1">>, <<"1", ".", "2">>, ver("v1", "2", "0"), <<"10">>}

MCNumber == [p \in {"0", "1", "2", "10"} |->
               CASE p = "0" -> 0 [] p = "1" -> 1
                 [] p = "2" -> 2 [] p = "10" -> 10]

MCTextOrder == <<"0", "1", "10", "2", "rc", "v1">>

MCUnprefixed == [p \in {"v1"} |-> "1"]

ASSUME MCNumbersTogether == NumbersTogether
=============================================================================
