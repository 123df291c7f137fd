----------------------------- MODULE MCFaiTiling -----------------------------
(***************************************************************************)
(* FaiTiling on calls that sit on the boundaries of the tiling: decode and *)
(* prefill lengths, groups that a head tile does and does not divide, more *)
(* heads than a tile holds, a length past one 128-token block, mixed       *)
(* lengths, and fewer tasks than cores.                                    *)
(***************************************************************************)
EXTENDS FaiTiling

Call(q, hint, kvHeads, groupSize, coreNum) ==
    [qSeqlens |-> q, hint |-> hint, kvHeads |-> kvHeads,
     groupSize |-> groupSize, coreNum |-> coreNum]

MCInputs ==
    { Call(<<1, 1, 1>>, 1, 2, 5, 2),
      Call(<<130, 1>>, 0, 1, 3, 2),
      Call(<<40, 7>>, 0, 2, 3, 2),
      Call(<<1>>, 0, 1, 130, 2),
      Call(<<64, 64>>, 64, 1, 4, 2),
      Call(<<1>>, 1, 1, 1, 2),
      Call(<<257>>, 0, 1, 2, 2),
      Call(<<21, 63, 127>>, 0, 1, 5, 2),
      Call(<<2, 100, 3>>, 0, 2, 2, 1) }
=============================================================================
