----------------------------- MODULE MCAllocator -----------------------------
(* Instance of Allocator for TLC: the lengths of the image sweep over all   *)
(* sizes of the last group.                                                 *)
EXTENDS Allocator

AllLastGroups == 28 .. 35
=============================================================================
