----------------------------- MODULE MCFatBlock -----------------------------
(***************************************************************************)
(* Three files, a pool of two descriptors.  The files "a" and "b" have a   *)
(* cluster each, "c" has two and is cut at UINT32_MAX.  Device: boot, info *)
(* and backup sectors 0-5, FAT 6-9, then the clusters from 10 on.          *)
(***************************************************************************)
EXTENDS FatBlock

MCOrder == <<"a", "b", "c">>
MCFileSize == [f \in Files |-> CASE f = "c" -> 7 [] OTHER -> 4]
MCReads == {<<4, 4>>, <<12, 4>>, <<22, 4>>, <<25, 2>>, <<29, 4>>}
=============================================================================
