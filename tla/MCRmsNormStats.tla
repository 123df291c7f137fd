---------------------------- MODULE MCRmsNormStats ----------------------------
(***************************************************************************)
(* RmsNormStats on calls whose cores get less than a group (7 rows), a     *)
(* group and three rows, two groups, a group and two (26 on two cores), a  *)
(* group and three (27), two rows and none (34 on four: 16, 16, 2, 0), in  *)
(* every mode; mode 1 with and without beta.                               *)
(***************************************************************************)
EXTENDS RmsNormStats

Call(mode, hasBeta, mRows, vectorCoreNum) ==
    [mode |-> mode, hasBeta |-> hasBeta, mRows |-> mRows, vectorCoreNum |-> vectorCoreNum]

MCCalls ==
    {Call(m, m = 1 /\ rows[1] = 11, rows[1], rows[2]) :
        m \in 0..2, rows \in {<<7, 1>>, <<11, 1>>, <<26, 2>>, <<27, 2>>, <<34, 4>>}}
=============================================================================
