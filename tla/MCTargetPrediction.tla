-------------------------- MODULE MCTargetPrediction --------------------------
(* Calls at 2, which may call itself, and 3, and one return.  On the alternate *)
(* path of the branch at 1 calls nest until both return stacks overflow.      *)
EXTENDS TargetPrediction

MCBranches == 1..4
MCTypeOf == <<"conditional", "indirect_call", "call", "return">>
MCTargetOf == <<3, 3, 4, 3>>
=============================================================================
