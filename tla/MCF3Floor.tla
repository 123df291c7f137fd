------------------------------ MODULE MCF3Floor ------------------------------
(***************************************************************************)
(* F3Floor with a flag depth of 2: five tiles on one core and on three, M  *)
(* of one tile and a half, of a tile and a few rows (so that sub-block 1   *)
(* has none), a single tile on two cores (the second has none); every mode *)
(* on a small call, the modes that differ in order on the long ones; D of  *)
(* its own and in the gate half of C.                                      *)
(***************************************************************************)
EXTENDS F3Floor

Call(m, nHalf, mode, inPlace, aiCoreNum) ==
    [m |-> m, nHalf |-> nHalf, mode |-> mode, inPlace |-> inPlace, aiCoreNum |-> aiCoreNum]

MCCalls ==
    {Call(33, 2, mode, mode = 0, 1) : mode \in {0, 2}}
    \cup {Call(19, 1, mode, inPlace, 1) : mode \in Modes, inPlace \in BOOLEAN}
    \cup {Call(25, 3, 4, TRUE, 2), Call(5, 1, 0, FALSE, 2)}
=============================================================================
