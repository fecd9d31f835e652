--------------------------- MODULE EstimationMath ---------------------------
(***************************************************************************)
(* The arithmetic of estimations: GetFlowEstimations groups the statistics *)
(* of containers by operator, and those of volumes by flow, and adds up    *)
(* the figures of calcMinMaxMeanMedian; GetImportEstimation takes the      *)
(* figures of all the statistics it gets.                                  *)
(*                                                                         *)
(* A statistic's cost is the sum of its three components' estimations.     *)
(* Costs are multiples of two and of every number of statistics: means and *)
(* medians are then integers.                                              *)
(***************************************************************************)
EXTENDS Integers, Sequences, FiniteSets, Functions

CONSTANTS
  Operators,  \* ids of operators
  Flows,      \* ids of flows
  Pipeline,   \* the operators of each flow, some of which may never have run
  Containers, \* the names of containers, split at "--"
  Costs,      \* what a statistic may cost
  MaxStats,   \* bound on the number of statistics
  NoLabel,    \* a statistic lacks the label
  NoResult,   \* nothing has been computed
  Failed      \* the call returned an error

VARIABLES
  stats,      \* what getStats returned, in any order: it reads them off a map
  result      \* the estimation per flow, and that of an import type

vars == <<stats, result>>

Stat == [container : Containers \cup {NoLabel}, flow : Flows \cup {NoLabel},
         cost : Costs]

-----------------------------------------------------------------------------
(* The figures of a list of costs                                          *)

\* What comes before a place of the list when that is sorted.
Before(list, i) ==
  {j \in DOMAIN list : list[j] < list[i] \/ (list[j] = list[i] /\ j < i)}

\* slices.Sort: each cost goes behind those before it.
SortedCosts(list) ==
  [k \in DOMAIN list |->
     list[CHOOSE i \in DOMAIN list : Cardinality(Before(list, i)) = k - 1]]

\* Bug: the two elements in the middle of an even list are one off.
MedianOneOff(sorted) ==
  LET n == Len(sorted)
  IN IF n % 2 = 0 THEN (sorted[n \div 2] + sorted[n \div 2]) \div 2
                  ELSE sorted[n \div 2 + 1]

Median(sorted) ==
  LET n == Len(sorted)
  IN IF n % 2 = 0 THEN (sorted[n \div 2] + sorted[n \div 2 + 1]) \div 2
                  ELSE sorted[n \div 2 + 1]

Zero == [min |-> 0, max |-> 0, mean |-> 0, median |-> 0]

calcMinMaxMeanMedian(list) ==
  IF list = <<>> THEN Zero
  ELSE LET sorted == SortedCosts(list)
       IN [min    |-> sorted[1],
           max    |-> sorted[Len(sorted)],
           mean   |-> SumFunction(sorted) \div Len(sorted),
           median |-> Median(sorted)]

-----------------------------------------------------------------------------
(* Grouping                                                                *)

\* An operator's containers are named after its id, behind the "--".
NamesOperator(stat) == stat.container # NoLabel /\ Len(stat.container) = 2
NamesFlow(stat) == stat.container = NoLabel /\ stat.flow # NoLabel

\* The lists grouped so far, <<>> for those not in the map.
NoStats == [operator |-> [id \in Operators \cup Flows |-> <<>>],
            flow     |-> [id \in Flows |-> <<>>]]

\* Bug: an operator's list, like a flow's, is its last statistic alone.
GroupedAlone(lists, stat) ==
  IF NamesOperator(stat)
  THEN [lists EXCEPT !.operator[stat.container[2]] = <<stat.cost>>]
  ELSE [lists EXCEPT !.flow[stat.flow] = <<stat.cost>>]

\* The list a flow's statistic is appended to is read from operatorStats,
\* which has none for a flow: the flow's list becomes this statistic alone.
Grouped(lists, stat) ==
  IF NamesOperator(stat)
  THEN [lists EXCEPT !.operator[stat.container[2]] = Append(@, stat.cost)]
  ELSE [lists EXCEPT
          !.flow[stat.flow] = Append(lists.operator[stat.flow], stat.cost)]

Lists(s) ==
  LET lists[n \in 0..Len(s)] ==
        IF n = 0 THEN NoStats ELSE Grouped(lists[n - 1], s[n])
  IN lists[Len(s)]

\* The sums of the figures of every operator of the flow, and of its own.
FlowEstimation(s, flow) ==
  LET lists == Lists(s)
      ofOperators == [i \in DOMAIN Pipeline[flow] |->
                        calcMinMaxMeanMedian(lists.operator[Pipeline[flow][i]])]
      own == calcMinMaxMeanMedian(lists.flow[flow])
  IN [figure \in DOMAIN Zero |->
        SumFunction([i \in DOMAIN ofOperators |-> ofOperators[i][figure]]) + own[figure]]

Malformed(s) == \E i \in DOMAIN s : ~NamesOperator(s[i]) /\ ~NamesFlow(s[i])

FlowEstimations(s) ==
  IF Malformed(s) THEN Failed
  ELSE [flow \in Flows |-> FlowEstimation(s, flow)]

CostsOf(s) == [i \in DOMAIN s |-> s[i].cost]

ImportEstimation(s) == calcMinMaxMeanMedian(CostsOf(s))

-----------------------------------------------------------------------------
(* The specification                                                       *)

Init ==
  /\ stats = <<>>
  /\ result = NoResult

Collect ==
  /\ result = NoResult
  /\ Len(stats) < MaxStats
  /\ \E x \in Stat : stats' = Append(stats, x)
  /\ UNCHANGED result

Estimate ==
  /\ result = NoResult
  /\ result' = [flows |-> FlowEstimations(stats),
                import |-> ImportEstimation(stats)]
  /\ UNCHANGED stats

Next == Collect \/ Estimate

Spec == Init /\ [][Next]_vars

-----------------------------------------------------------------------------
(* Properties                                                              *)

Estimated == result # NoResult

\* The places of the statistics of an operator, and of the last one of a
\* flow's.
OperatorStats(s, id) ==
  {i \in DOMAIN s : NamesOperator(s[i]) /\ s[i].container[2] = id}

OwnStats(s, flow) == {i \in DOMAIN s : NamesFlow(s[i]) /\ s[i].flow = flow}

LastOwnStat(s, flow) ==
  {i \in OwnStats(s, flow) : \A j \in OwnStats(s, flow) : j <= i}

\* x is the k-th smallest cost of the statistics at these places, from 1.
IsRanked(x, k, s, places) ==
  /\ Cardinality({i \in places : s[i].cost < x}) < k
  /\ k <= Cardinality({i \in places : s[i].cost <= x})

Ranked(k, s, places) == CHOOSE x \in Costs : IsRanked(x, k, s, places)

\* What each figure of the statistics at these places ought to be.
Figure(figure, s, places) ==
  LET n == Cardinality(places)
  IN IF n = 0 THEN 0
     ELSE CASE figure = "min"    -> Ranked(1, s, places)
            [] figure = "max"    -> Ranked(n, s, places)
            [] figure = "mean"   -> SumFunction([i \in places |-> s[i].cost]) \div n
            [] figure = "median" ->
                 (Ranked((n + 1) \div 2, s, places) + Ranked(n \div 2 + 1, s, places)) \div 2

\* A flow's figures are the sums of those of each of its operators, over all
\* the statistics of the operator's containers, and of the last one of its
\* own statistics; the call fails exactly if a statistic names neither.  An
\* import's are those of all statistics.
FiguresAreExact ==
  Estimated =>
    /\ \A figure \in DOMAIN Zero :
         result.import[figure] = Figure(figure, stats, DOMAIN stats)
    /\ result.flows = Failed <=> Malformed(stats)
    /\ result.flows # Failed =>
         \A flow \in Flows : \A figure \in DOMAIN Zero :
           LET operators == Pipeline[flow]
           IN result.flows[flow][figure] =
                SumFunction([i \in DOMAIN operators |->
                               Figure(figure, stats, OperatorStats(stats, operators[i]))])
                  + Figure(figure, stats, LastOwnStat(stats, flow))

Swapped(s, i) == [s EXCEPT ![i] = s[i + 1], ![i + 1] = s[i]]

\* The order getStats reads its map in makes no difference to any estimation,
\* unless a flow has several statistics of its own: exchanging neighbours
\* changes a result only if both are of one flow.
OrderMattersForOwnStatsOnly ==
  Estimated =>
    \A i \in 1..Len(stats) - 1 :
      \/ /\ NamesFlow(stats[i])
         /\ NamesFlow(stats[i + 1])
         /\ stats[i].flow = stats[i + 1].flow
      \/ /\ FlowEstimations(Swapped(stats, i)) = result.flows
         /\ ImportEstimation(Swapped(stats, i)) = result.import
=============================================================================
