------------------------------ MODULE LruPool ------------------------------
(***************************************************************************)
(* What a pool of descriptors promises: the files used last, up to the     *)
(* capacity of the pool, are open, and no other is.                        *)
(***************************************************************************)
EXTENDS Sequences, Integers

CONSTANTS Pooled,     \* the files
          Capacity

VARIABLES lru,        \* the files that are open, the one used last first
          used        \* the file used last

Init == lru = <<>> /\ used \notin Pooled

(* A file that is used goes to the front; those used since its last use make room, and if it was
   not open the one that was not used for longest is closed when there are too many. *)
Use(f) ==
    LET n == Len(lru)
        from == IF \E k \in 1 .. n : lru[k] = f THEN CHOOSE k \in 1 .. n : lru[k] = f
                ELSE IF n < Capacity THEN n + 1 ELSE Capacity
    IN /\ lru' = [i \in 1 .. (IF from > n THEN from ELSE n) |->
                    IF i = 1 THEN f ELSE IF i <= from THEN lru[i - 1] ELSE lru[i]]
       /\ used' = f

Spec == Init /\ [][\E f \in Pooled : Use(f)]_<<lru, used>>
=============================================================================
