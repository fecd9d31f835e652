--------------------------- MODULE MCProcessTree ---------------------------
(***************************************************************************)
(* Instances of ProcessTree for TLC.                                       *)
(***************************************************************************)
EXTENDS ProcessTree

Pod(id, name, cost) == [id |-> id, name |-> name, cost |-> cost]

\* No pod, one, two of one worker, two of different workers.
MCPodSets ==
  { {},
    {Pod(1, "optimistic-worker", 2)},
    {Pod(1, "optimistic-worker", 2), Pod(2, "optimistic-worker", 4)},
    {Pod(1, "optimistic-worker", 2), Pod(2, "memcached", 5)} }

\* No definition, an uneven split, one definition of two active, none active.
MCIncreases ==
  { <<>>, [d1 |-> 1, d2 |-> 2], [d1 |-> 0, d2 |-> 3], [d1 |-> 0, d2 |-> 0] }
=============================================================================
