------------------------------ MODULE MCLseMerge ------------------------------
(***************************************************************************)
(* LseMerge in all sixteen variants, with totals that give a core one row, *)
(* seven (and the other six cores none), a full tile, a short one, two     *)
(* tiles (400: 56 rows per core), and three (515: 72, the last core 11).   *)
(***************************************************************************)
EXTENDS LseMerge

MCVariants == [o1IsF32 : BOOLEAN, outIsF32 : BOOLEAN, strided1 : BOOLEAN, strided2 : BOOLEAN]
MCRowCounts == {1, 7, 250, 400, 515}
=============================================================================
