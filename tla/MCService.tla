----------------------------- MODULE MCService -----------------------------
(***************************************************************************)
(* Three libraries, one of which cannot be opened, and two deaths; three   *)
(* places for blocks, so that one is taken again.                          *)
(***************************************************************************)
EXTENDS Service
=============================================================================
