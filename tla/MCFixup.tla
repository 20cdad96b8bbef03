------------------------------ MODULE MCFixup ------------------------------
(* A tree of three directories for Ext4Fixup: the directory below the root   *)
(* has two blocks, the root two or one, and the entry of the one below that  *)
(* has no type.                                                              *)
EXTENDS Ext4Fixup, TLC

SmallTree ==
    [root |-> << <<"r.", "r..", "sub">>, <<"f">> >>,
     sub |-> << <<"s.", "deep">>, <<"g">> >>,
     deep |-> << <<"d.", "h">> >>]
FlatTree == [SmallTree EXCEPT !.root = << <<"r.", "r..", "sub", "f">> >>]
Root0 == <<0, 1>>
Sub0 == <<1, 0>>
Deep0 == <<1, 2>>
SmallSlots ==
    ("r." :> Root0) @@ ("r.." :> Root0) @@ ("sub" :> Sub0) @@ ("f" :> <<0, 2>>)
    @@ ("s." :> Sub0) @@ ("deep" :> Deep0) @@ ("g" :> <<1, 1>>)
    @@ ("d." :> Deep0) @@ ("h" :> <<2, 0>>)
SmallTypes ==
    [e \in DOMAIN SmallSlots |->
        IF e \in {"f", "g", "h"} THEN "reg" ELSE IF e = "deep" THEN "unknown" ELSE "dir"]
SmallDots == {"r.", "r..", "s.", "d."}
SmallDirSlots == [root |-> Root0, sub |-> Sub0, deep |-> Deep0]
=============================================================================
