-------------------------- MODULE MCFlowEstimation --------------------------
(***************************************************************************)
(* Instances of FlowEstimation for TLC.                                    *)
(***************************************************************************)
EXTENDS FlowEstimation

CONSTANTS f1, f2

\* The empty list, one flow, and both flows.
MCFlowLists == {<<>>, <<f1>>, <<f2, f1>>}
=============================================================================
