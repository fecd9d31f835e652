---------------------------- MODULE Calculations ----------------------------
(***************************************************************************)
(* What is calculated of the answers to a request's queries, once they are *)
(* there: the windows of time they are asked for, a sample's cost and its  *)
(* estimation, the trees that statistics and requests are grouped into,    *)
(* and the figures of an estimation.  Each calculation is a module with    *)
(* state of its own; here one of them is made, on inputs that grow sample  *)
(* by sample, and the others have nothing to do.                           *)
(***************************************************************************)
EXTENDS Integers, Sequences

CONSTANTS
  Kinds,          \* the calculations made
  \* MonthWindow
  Zones, LeapYears, FirstHour, LastHour,
  \* QueryCpuRam
  Words, MaxPredictions, Price, Average, Passed, Remaining, NoStat,
  \* TreeBuild
  Labels, LabelSets, StatCosts, NoTree,
  \* EstimationMath
  Operators, Flows, Pipeline, Containers, Costs, MaxEstimationStats,
  NoLabel, NoResult, Failed,
  \* ApiCallsTree
  Username, Consumers, Services, Values, Multipliers, MaxSamples

AllKinds == {"window", "cpuRam", "tree", "estimation", "apiCalls"}

ASSUME KindsAssumption == Kinds \subseteq AllKinds
ASSUME ZonesAssumption == Zones \subseteq -12..14
ASSUME HoursAssumption ==
  FirstHour \in Nat /\ LastHour \in Nat /\ FirstHour > 31 * 24
ASSUME LabelsAssumption == Labels \in Seq(STRING)
ASSUME WordsAssumption ==
  Words \in Nat \ {0} /\ Words % 2 = 0 /\ MaxPredictions < 12
ASSUME PricesAssumption == {Price, Average, Passed, Remaining} \subseteq Int
ASSUME NoStatAssumption == NoStat \notin [month : Int, estimation : Int]
ASSUME StatCostsAssumption == StatCosts \in Seq(Nat)
ASSUME EstimationStatsAssumption == MaxEstimationStats \in Nat
\* The unit is small enough for means and medians to be whole.
ASSUME CostsAssumption ==
  /\ Costs \subseteq Nat
  /\ \A cost \in Costs : \A n \in {2} \cup 1..MaxEstimationStats : cost % n = 0
ASSUME ValuesAssumption ==
  /\ Values \subseteq Nat
  /\ Multipliers \subseteq [num : Nat, den : Nat \ {0}]
ASSUME PipelineAssumption == Pipeline \in [Flows -> Seq(Operators)]
\* A container is named after an operator; ids of flows are not operators'.
ASSUME ContainersAssumption ==
  /\ \A c \in Containers : Len(c) = 2 => c[2] \in Operators
  /\ Operators \cap Flows = {}
ASSUME FailedAssumption ==
  Failed \notin [Flows -> [{"min", "max", "mean", "median"} -> Int]]

VARIABLES
  kind,                       \* the calculation made
  now, zone,                  \* MonthWindow
  predictions, sought, stat,  \* QueryCpuRam
  treeStats, tree,            \* TreeBuild
  stats, figures,             \* EstimationMath
  skipEstimation, multiplier, answer, requests  \* ApiCallsTree

Window == INSTANCE MonthWindow
CpuRam == INSTANCE QueryCpuRam
Tree == INSTANCE TreeBuild WITH stats <- treeStats
Estimation == INSTANCE EstimationMath WITH
  result <- figures, MaxStats <- MaxEstimationStats
ApiCalls == INSTANCE ApiCallsTree WITH tree <- requests

windowVars == <<now, zone>>
cpuRamVars == <<predictions, sought, stat>>
treeVars == <<treeStats, tree>>
estimationVars == <<stats, figures>>
apiCallsVars == <<skipEstimation, multiplier, answer, requests>>

calculationsVars == <<kind, windowVars, cpuRamVars, treeVars, estimationVars, apiCallsVars>>

CalculationsInit ==
  /\ kind \in Kinds
  /\ Window!Init
  /\ CpuRam!Init
  /\ Tree!Init
  /\ Estimation!Init
  /\ ApiCalls!Init
  \* The choices of calculations that are not made make no difference.
  /\ kind # "window" => zone = CHOOSE z \in Zones : TRUE
  /\ kind # "apiCalls" =>
       ~skipEstimation /\ multiplier = CHOOSE m \in Multipliers : TRUE

TimeGoesBy ==
  /\ kind = "window"
  /\ Window!Next
  /\ UNCHANGED <<kind, cpuRamVars, treeVars, estimationVars, apiCallsVars>>

CostOfSample ==
  /\ kind = "cpuRam"
  /\ CpuRam!Next
  /\ UNCHANGED <<kind, windowVars, treeVars, estimationVars, apiCallsVars>>

TreeOfStats ==
  /\ kind = "tree"
  /\ Tree!Next
  /\ UNCHANGED <<kind, windowVars, cpuRamVars, estimationVars, apiCallsVars>>

EstimationOfStats ==
  /\ kind = "estimation"
  /\ Estimation!Next
  /\ UNCHANGED <<kind, windowVars, cpuRamVars, treeVars, apiCallsVars>>

TreeOfRequests ==
  /\ kind = "apiCalls"
  /\ ApiCalls!Next
  /\ UNCHANGED <<kind, windowVars, cpuRamVars, treeVars, estimationVars>>

CalculationsNext ==
  \/ TimeGoesBy
  \/ CostOfSample
  \/ TreeOfStats
  \/ EstimationOfStats
  \/ TreeOfRequests

CalculationsSpec == CalculationsInit /\ [][CalculationsNext]_calculationsVars

-----------------------------------------------------------------------------
(* Properties, each stated where its calculation is                        *)

\* Windows are never empty and span the zone's month (defaultStartEnd).
WindowCoversMonth == Window!WindowCoversMonth

\* The time that remains is negative at the end of a month only
\* (endOfMonth of queryCpuRam, getStorageStats and the trees).
ShrinksAtMonthsEndOnly == Window!ShrinksAtMonthsEndOnly

\* No estimation is made with another series' prediction, however badly the
\* comparator orders them, but for colliding fingerprints (queryCpuRam).
NoOthersPrediction == CpuRam!NoOthersPrediction

\* A prediction is found if no differences overflow, or if there are three
\* at most and no two are half the range apart (queryCpuRam).
PredictionFound == CpuRam!PredictionFound

\* No cost of a statistic is lost or counted twice on any level of the tree
\* (buildTree).
NodesCostTheirStats == Tree!NodesCostTheirStats

\* An estimation is the sum of the figures of its operators' statistics and
\* of the last of the flow's own (GetFlowEstimations, GetImportEstimation).
FiguresAreExact == Estimation!FiguresAreExact

\* The random order of getStats' answer changes an estimation only if a flow
\* has several statistics of its own (GetFlowEstimations).
OrderMattersForOwnStatsOnly == Estimation!OrderMattersForOwnStatsOnly

\* Requests agree on each level of the tree; the root's estimation is the sum
\* of its samples', any other one is the last of them, and rounding each moves the
\* root's by at most half a request (GetApiCallsTree).
TreeMatchesAnswer == ApiCalls!TreeMatchesAnswer
=============================================================================
