------------------------------ MODULE MCClient ------------------------------
(* Instances of BpWrapper for TLC. *)
EXTENDS BpWrapper, TLC

CONSTANTS t1, t2, c1, c2, b1, b2, FindClass, CallMethod

OneThread == (c1 :> t1) @@ (c2 :> t1)
TwoThreads == (c1 :> t1) @@ (c2 :> t2)
=============================================================================
