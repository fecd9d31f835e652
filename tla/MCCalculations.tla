--------------------------- MODULE MCCalculations ---------------------------
(***************************************************************************)
(* Instances of Calculations for TLC.                                      *)
(***************************************************************************)
EXTENDS Calculations

\* The zones at the ends of the range and those around UTC.
MCZones == {-12, -5, 0, 1, 14}

\* The grouping of GetAnalyticsTree.
MCLabels == <<"label_pipeline_id", "pod", "container">>

\* Statistics of containers and of pods' volumes, of two pipelines, or not
\* of a pipeline; two pods of one pipeline.
MCLabelSets ==
  [label_pipeline_id : {"p", "q"}, pod : {"a", "b"}, container : {"c"}]
    \cup [label_pipeline_id : {"p"}, pod : {"a", "b"}]
    \cup [pod : {"a"}, container : {"c"}]
    \cup [label_pipeline_id : {"p"}, container : {"c"}]

\* Costs whose sums tell all sets of statistics apart.
MCStatCosts == <<1, 2, 4, 8>>

\* A flow of two operators that ran and one that never did.
MCPipeline == [f \in {"f"} |-> <<"o1", "o2", "o3">>]

\* Containers of two operators, and one whose name has no "--".
MCContainers == {<<"pipeline", "o1">>, <<"pipeline", "o2">>, <<"sidecar">>}

\* The caller's client, a client of the user "ann_b", or of ann's client
\* "b_web", and a client of somebody else.
MCUsername == <<"ann">>
MCConsumers == {<<"ann", "web">>, <<"ann", "b", "web">>, <<"bob", "web">>}

\* A service, none, and one whose name begins like ann's clients'.
MCServices == {<<"devices">>, <<>>, <<"ann", "app">>}

\* Early in a month, and on its last day, when the end is after nextMonth.
\* Both denominators are odd: nothing is half way between two numbers.
MCMultipliers == {[num |-> 7, den |-> 5], [num |-> 2, den |-> 3]}
=============================================================================
