--------------------------- MODULE MCDevicesTree ---------------------------
(***************************************************************************)
(* Instances of DevicesTree for TLC.                                       *)
(***************************************************************************)
EXTENDS DevicesTree

\* Sizes and requests that tell the devices apart.
MCSize == [d \in Ids |-> [average |-> 2 * d, predicted |-> d + 1]]
MCRequests == [d \in Ids |-> d]
=============================================================================
