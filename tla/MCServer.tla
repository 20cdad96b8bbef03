------------------------------ MODULE MCServer ------------------------------
(* Instances of WrapperServer for TLC. *)
EXTENDS WrapperServer, TLC

CONSTANTS t1, t2, c1, c2, c3, b1, b2, FindClass, CallMethod

ThreeCalls == (c1 :> t1) @@ (c2 :> t2) @@ (c3 :> t1)
Symmetry == Permutations({b1, b2})
=============================================================================
