------------------------------ MODULE MCBwProbe ------------------------------
(***************************************************************************)
(* BwProbe, variant 6, on a core with two groups.                          *)
(***************************************************************************)
EXTENDS BwProbe

MCCalls == {[variant |-> 6, mRows |-> 16, kDim |-> 8, vectorCoreNum |-> 1]}
=============================================================================
