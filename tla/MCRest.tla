------------------------------- MODULE MCRest -------------------------------
(***************************************************************************)
(* Instances of Rest for TLC.                                              *)
(***************************************************************************)
EXTENDS Rest

Tree(op, token, forUser, costType, skip, start, end) ==
  [op |-> op, token |-> token, forUser |-> forUser, costType |-> costType,
   skipEstimation |-> skip, start |-> start, end |-> end, ids |-> <<>>]

Estimate(op, token, ids) ==
  [op |-> op, token |-> token, forUser |-> None, costType |-> None,
   skipEstimation |-> FALSE, start |-> None, end |-> None, ids |-> ids]

\* Trees with and without a range, of zones that survive a query or do not,
\* for the caller and for others; lists of none and of two ids.
MCRequests ==
  { Tree("GetTree", "user", None, None, FALSE, None, None),
    Tree("GetTree", "user", "other", None, FALSE, None, None),
    Tree("GetTree", "admin", "other", None, TRUE, "west", "utc"),
    Tree("GetTree", "user", None, None, TRUE, "east", "east"),
    Tree("GetSubTree", "user", None, "process", TRUE, "utc", None),
    Tree("GetSubTree", "user", None, "process", FALSE, None, None),
    Tree("GetSubTree", "invalid", None, "devices", FALSE, None, None),
    Tree("GetSubTree", "user", None, "unknown", FALSE, None, None),
    Estimate("GetFlowEstimation", "user", <<"id">>),
    Estimate("GetFlowEstimation", "user", <<"unparsable">>),
    Estimate("GetFlowEstimations", "user", <<"id", "id">>),
    Estimate("GetFlowEstimations", "user", <<>>),
    Estimate("GetImportEstimation", "user", <<"id">>),
    Estimate("GetImportEstimations", "user", <<"id", "id">>) }
=============================================================================
