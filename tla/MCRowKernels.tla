----------------------------- MODULE MCRowKernels -----------------------------
(***************************************************************************)
(* The two kernels that take rows through the queues of a vector core:     *)
(* add_rms_norm_stats (RmsNormStats) and the probe that is to reproduce    *)
(* its data flow (BwProbe), each on calls of its own.                      *)
(*                                                                         *)
(* The calls of add_rms_norm_stats are those of MCRmsNormStats; the probe  *)
(* in every variant, the tiled ones on two groups, one, and none (40 rows  *)
(* on four cores: 16, 16, 8, 0).                                           *)
(***************************************************************************)
EXTENDS MCRmsNormStats

CONSTANT ProbeCalls

Probe == INSTANCE BwProbe WITH Calls <- ProbeCalls

ASSUME ProbeCallsAssumption == Probe!CallsAccepted

ProbeCall(variant, mRows, kDim, vectorCoreNum) ==
    [variant |-> variant, mRows |-> mRows, kDim |-> kDim, vectorCoreNum |-> vectorCoreNum]

MCProbeCalls ==
    {ProbeCall(v, rows[1], 1, rows[2]) :
        v \in {0, 1}, rows \in {<<3, 1>>, <<34, 4>>}}
    \cup {ProbeCall(v, 11, 1, 1) : v \in 2..4} \cup {ProbeCall(2, 26, 1, 2)}
    \cup {ProbeCall(v, 40, 16, 4) : v \in {5, 6}}

IsRms == call \in Calls
IsProbe == call \in ProbeCalls

KernelsInit == Init \/ Probe!Init
KernelsNext == (IsRms /\ Next) \/ (IsProbe /\ Probe!Next)

(* Some unit goes on as long as one can: no step can be repeated for ever. *)
KernelsSpec == KernelsInit /\ [][KernelsNext]_vars /\ WF_vars(KernelsNext)

-----------------------------------------------------------------------------
(* The properties of RmsNormStats (see there), for its calls.              *)

(* Every transfer of add_rms_norm_stats finds its row                      *)
(* (kernel_add_rms_norm_stats.cpp:199-261, 309-322).                       *)
RmsTransfersIntact == IsRms => TransfersIntact

(* Its flush sends the rstd of its rows, each in its lane, and zero behind *)
(* (166-195, 300-307, 403-406).                                            *)
RmsStagedRight == IsRms => StagedRight

(* MTE3 finds them in the staging buffer where the rows order it (247,     *)
(* 403-414).                                                               *)
RmsStagingIntact == IsRms => StagingIntactBehindRows

(* And those of BwProbe, for its calls: every transfer of the probe finds  *)
(* its row or K tile (kernel_bw_probe.cpp:150-196, 388-443, 457-460).      *)
ProbeTransfersIntact == IsProbe => Probe!TransfersIntact

(* MTE3 finds the rstd it is to send where the rows order it, and for the  *)
(* last group of tiles (191-194, 234-238, 457-460).                        *)
ProbeRstdIntact == IsProbe => Probe!RstdIntactWhereOrdered

(* Both kernels write their own rows, the tiles all of them once           *)
(* (kernel_add_rms_norm_stats.cpp:81-97; kernel_bw_probe.cpp:83-94,        *)
(* 301-314, 349-376, 383, 393).                                            *)
WritesHitOwnRows == IF IsRms THEN FlushHitsOwnRows ELSE Probe!WritesHitOwnRows

(* The core gets through its rows, and leaves every tensor of every queue  *)
(* free: the pipes never wait for each other                               *)
(* (kernel_add_rms_norm_stats.cpp:149-196, 227-261;                        *)
(* kernel_bw_probe.cpp:118-140, 338-346).                                  *)
KernelsReturn == <>[](pc = "done" /\ Drained /\ NoneInUse)
=============================================================================
