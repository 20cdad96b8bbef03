------------------------------ MODULE MCImport ------------------------------
(* Instances of Import for TLC. *)
EXTENDS Import

SomeNames == {[base |-> 8, dot |-> TRUE, ext |-> 3], [base |-> 3, dot |-> TRUE, ext |-> 4],
              [base |-> 13, dot |-> FALSE, ext |-> 0], [base |-> 33, dot |-> FALSE, ext |-> 0]}
=============================================================================
