--------------------------- MODULE MCExportsTree ---------------------------
(***************************************************************************)
(* Instances of ExportsTree for TLC.                                       *)
(***************************************************************************)
EXTENDS ExportsTree

\* A shrinking table's line may end below zero.
MCPredictions == {-3, 0, 4}
=============================================================================
