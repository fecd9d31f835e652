------------------------------ MODULE TreeBuild ------------------------------
(***************************************************************************)
(* buildTree: statistics grouped by one label after the other into a tree  *)
(* of costs, against what each node of that tree ought to cost.            *)
(*                                                                         *)
(* A statistic is the record of those of its labels that the tree may ask  *)
(* for, and a cost; the cost stands for every component of a               *)
(* CostWithEstimation, which are all added alike.  getStats reads them off *)
(* a map, so that they are a set of statistics with a key each.            *)
(***************************************************************************)
EXTENDS Integers, Sequences, FiniteSets, Functions

CONSTANTS
  Labels,      \* the labels to group by, in order
  LabelSets,   \* the labels a statistic may have, with their values
  StatCosts,   \* the costs of the statistics, as many as are found
  NoTree       \* buildTree has not been called

VARIABLES
  stats,   \* the statistics collected by getStats
  tree     \* what buildTree makes of them

vars == <<stats, tree>>

-----------------------------------------------------------------------------
(* The algorithm                                                           *)

CostOfAll(s) == SumFunction([x \in s |-> x.cost])

HasLabel(x, label) == label \in DOMAIN x.labels

Labelled(s, label) == {x \in s : HasLabel(x, label)}
Unlabelled(s, label) == {x \in s : ~HasLabel(x, label)}

LabelValues(s, label) == {x.labels[label] : x \in Labelled(s, label)}

\* The stats of the child for a value.
Group(s, label, value) == {x \in Labelled(s, label) : x.labels[label] = value}

\* A statistic with the label costs here as well as in the child; one
\* without it cannot be grouped further, and costs here only.
LevelCost(s, label) ==
  CostOfAll(Labelled(s, label)) + CostOfAll(Unlabelled(s, label))

\* Bug: a child is built of all the statistics that have the label.
ChildStatsUngrouped(s, label, value) == Labelled(s, label)

ChildStats(s, label, value) == Group(s, label, value)

\* build[n][t]: the statistics t, grouped by the last n labels.
BuildTree(s, labels) ==
  LET build[n \in 0..Len(labels)] ==
        [t \in SUBSET s |->
           IF n = 0
           THEN [cost |-> CostOfAll(t), children |-> <<>>]
           ELSE LET label == labels[Len(labels) - n + 1]
                IN [cost     |-> LevelCost(t, label),
                    children |-> [value \in LabelValues(t, label) |->
                                    build[n - 1][ChildStats(t, label, value)]]]]
  IN build[Len(labels)][s]

-----------------------------------------------------------------------------
(* The specification                                                       *)

Init ==
  /\ stats = {}
  /\ tree = NoTree

\* getStats finds one more statistic.
Collect ==
  /\ tree = NoTree
  /\ Cardinality(stats) < Len(StatCosts)
  /\ LET key == Cardinality(stats) + 1
     IN \E l \in LabelSets :
          stats' = stats \cup {[key |-> key, labels |-> l, cost |-> StatCosts[key]]}
  /\ UNCHANGED tree

Build ==
  /\ tree = NoTree
  /\ tree' = BuildTree(stats, Labels)
  /\ UNCHANGED stats

Next == Collect \/ Build

Spec == Init /\ [][Next]_vars

-----------------------------------------------------------------------------
(* Properties                                                              *)

\* The values of a statistic's labels, from the first one to any before the
\* first one it lacks.
PathsOf(x) ==
  {[i \in 1..n |-> x.labels[Labels[i]]] :
     n \in {n \in 0..Len(Labels) : \A i \in 1..n : HasLabel(x, Labels[i])}}

NodePaths == {<<>>} \cup UNION {PathsOf(x) : x \in stats}

\* The last values of the paths that go one value further.
Onward(path) ==
  {p[Len(p)] : p \in {p \in NodePaths :
                        Len(p) = Len(path) + 1 /\ Restrict(p, DOMAIN path) = path}}

NodeAt(node, path) ==
  LET at[n \in 0..Len(path)] ==
        IF n = 0 THEN node ELSE at[n - 1].children[path[n]]
  IN at[Len(path)]

\* The tree has a node for every beginning of a statistic's path and no
\* other, and a node costs what the statistics cost whose path begins with
\* its own: no cost is lost or counted twice on any level, whatever labels
\* the statistics lack.
NodesCostTheirStats ==
  tree # NoTree =>
    \A path \in NodePaths :
      LET node == NodeAt(tree, path)
      IN /\ DOMAIN node.children = Onward(path)
         /\ node.cost = CostOfAll({x \in stats : path \in PathsOf(x)})
=============================================================================
