----------------------------- MODULE ProcessTree -----------------------------
(***************************************************************************)
(* Controller.GetProcessTree: the cost of the process workers a user has   *)
(* caused, by worker and process definition, and its shares of marshalling *)
(* and process-io, computed from a series of queries any of which may      *)
(* fail.                                                                   *)
(*                                                                         *)
(* A cost is one natural number standing for cpu, ram and storage of the   *)
(* month and of its estimation, which are computed alike; a factor is a    *)
(* natural number.  Go ranges over its maps in any order.                  *)
(***************************************************************************)
EXTENDS Integers, FiniteSets, Functions

CONSTANTS
  WorkerSources,       \* the namespaces of config.ProcessCostSources
  MarshallingSources,  \* of config.MarshallingCostSources
  IoSources,           \* of config.ProcessIoCostSources
  PodSets,             \* what getStats may answer: sets of pods, each with an
                       \* id, the name of its worker and a cost
  Factors,             \* the values of the cost fraction queries
  Instances,           \* the workers with an instance id placeholder
  Increases            \* what the query for process definitions may answer:
                       \* functions from definitions to naturals

ASSUME FactorsAssumption == Factors \subseteq Nat
\* The pods and workers that config.json asks for are not named like the
\* children of the shares.
ASSUME InstancesAssumption ==
  {"marshalling", "process-io"} \cap Instances = {}
ASSUME PodsAssumption ==
  \A pods \in PodSets :
    /\ IsFiniteSet(pods)
    /\ \A p \in pods :
         p \in [id : {p.id}, name : STRING \ {"marshalling", "process-io"},
               cost : Nat]
ASSUME IncreasesAssumption ==
  \A increases \in Increases :
    /\ IsFiniteSet(DOMAIN increases)
    /\ increases \in [DOMAIN increases -> Nat]

VARIABLES
  start, end,      \* whether the argument is given; both, once defaulted
  skipEstimation,  \* the argument
  phase,           \* the statement that comes next
  factor,          \* the factors that queries have answered
  sources,         \* the namespaces its loop has left
  stats,           \* the pods the inner loop has left
  processCost,     \* the result: month, and children by name
  total,           \* marshallerCostTotal, then processIoCostTotal
  seen             \* history: the pods each phase has got

args == <<start, end, skipEstimation>>

vars == <<args, phase, factor, sources, stats, processCost, total,
          seen>>

FactorNames == {"userProcess", "userMarshaller", "processMarshaller", "userIo"}

Phases == {"call", "userProcessFactor", "workers", "pods", "marshalling",
           "userMarshallerFactor", "processMarshallerFactor",
           "userProcessIoFactor", "process-io", "done", "failed"}

TypeOK ==
  /\ start \in BOOLEAN /\ end \in BOOLEAN /\ skipEstimation \in BOOLEAN
  /\ phase \in Phases
  /\ factor \in [FactorNames -> Factors \cup {0}]
  /\ sources \subseteq WorkerSources \cup MarshallingSources \cup IoSources
  /\ processCost.month \in Nat
  /\ \A name \in DOMAIN processCost.children :
       processCost.children[name].month \in Nat
  /\ total \in Nat

Init ==
  /\ start \in BOOLEAN /\ end \in BOOLEAN /\ skipEstimation \in BOOLEAN
  /\ phase = "call"
  /\ factor = [n \in FactorNames |-> 0]
  /\ sources = {} /\ stats = {}
  /\ processCost = [month |-> 0, children |-> <<>>]
  /\ total = 0
  /\ seen = [workers |-> {}, marshalling |-> {}, io |-> {}]

Costs(pods) == SumFunction([p \in pods |-> p.cost])

\* The pods of namespace k.
In(k, pods) == {[p EXCEPT !.id = <<k, @>>] : p \in pods}

\* Put value v under key k.
With(map, k, v) ==
  [x \in DOMAIN map \cup {k} |-> IF x = k THEN v ELSE map[x]]

-----------------------------------------------------------------------------
(* The call and its first factor                                           *)

\* Only one of start and end, or a range together with an estimation.
BadRange == start # end \/ (start /\ ~skipEstimation)

Reject ==
  /\ phase = "call"
  /\ BadRange
  /\ phase' = "failed"
  /\ UNCHANGED <<args, factor, sources, stats, processCost, total, seen>>

\* defaultStartEnd if no range is given.
Accept ==
  /\ phase = "call"
  /\ ~BadRange
  /\ phase' = "userProcessFactor"
  /\ start' = TRUE /\ end' = TRUE
  /\ UNCHANGED <<skipEstimation, factor, sources, stats, processCost, total, seen>>

\* The statement that comes next queries Prometheus.
Querying ==
  \/ phase \in {"userProcessFactor", "userMarshallerFactor",
               "processMarshallerFactor", "userProcessIoFactor"}
  \/ phase \in {"workers", "marshalling", "process-io"} /\ sources # {}
  \/ phase = "pods" /\ \E p \in stats : p.name \in Instances

\* Every query may fail, and ends the call with its error.
Fail ==
  /\ Querying
  /\ phase' = "failed"
  /\ UNCHANGED <<args, factor, sources, stats, processCost, total, seen>>

UserProcessFactor ==
  /\ phase = "userProcessFactor"
  /\ \E f \in Factors :
       /\ factor' = [factor EXCEPT !["userProcess"] = f]
       /\ IF f > 0
          THEN phase' = "workers" /\ sources' = WorkerSources
          ELSE phase' = "marshalling" /\ sources' = MarshallingSources
  /\ UNCHANGED <<args, stats, processCost, total, seen>>

-----------------------------------------------------------------------------
(* The workers                                                             *)

\* getStats for one namespace; its filter has no range.
GetWorkerStats ==
  /\ phase = "workers"
  /\ \E k \in sources, pods \in PodSets :
       /\ sources' = sources \ {k}
       /\ stats' = In(k, pods)
       /\ seen' = [seen EXCEPT !.workers = @ \cup In(k, pods)]
  /\ phase' = "pods"
  /\ UNCHANGED <<args, factor, processCost, total>>

\* Bug: the increases are divided by their number, not by their sum.
SplitByNumber(cost, increases) ==
  [d \in {d \in DOMAIN increases : increases[d] # 0} |->
     [cost |-> cost * increases[d], by |-> Cardinality(DOMAIN increases)]]

\* The cost of each process definition: its increase's part, e / sum, as a
\* fraction, which is no number if the sum is zero.  An increase of zero is
\* left out, unless the sum is zero too.
Split(cost, increases) ==
  LET sum == SumFunction(increases)
  IN [d \in {d \in DOMAIN increases : sum = 0 \/ increases[d] # 0} |->
        [cost |-> cost * increases[d], by |-> sum]]

\* Bug: a second pod of a worker replaces the first.
AddChildReplacing(children, name, cost, grandchildren) ==
  With(children, name, [month |-> cost, children |-> grandchildren])

\* A further pod of a worker adds its cost to the existing child; the
\* definitions go to the new child, which only the first pod of a worker
\* stores.
AddChild(children, name, cost, grandchildren) ==
  IF name \in DOMAIN children
  THEN [children EXCEPT ![name].month = @ + cost]
  ELSE With(children, name, [month |-> cost, children |-> grandchildren])

\* One pod: its child, the root, and the query for its process definitions
\* if the worker has a placeholder.
AddPod ==
  /\ phase = "pods"
  /\ \E p \in stats :
       /\ stats' = stats \ {p}
       /\ \E increases \in IF p.name \in Instances THEN Increases ELSE {<<>>} :
            LET cost == p.cost * factor["userProcess"]
            IN processCost' =
                 [month    |-> processCost.month + cost,
                  children |-> AddChild(processCost.children, p.name, cost,
                                        Split(cost, increases))]
  /\ UNCHANGED <<args, phase, factor, sources, total, seen>>

NextWorkerSource ==
  /\ phase = "pods"
  /\ stats = {}
  /\ phase' = "workers"
  /\ UNCHANGED <<args, factor, sources, stats, processCost, total, seen>>

WorkersDone ==
  /\ phase = "workers"
  /\ sources = {}
  /\ phase' = "marshalling"
  /\ sources' = MarshallingSources
  /\ UNCHANGED <<args, factor, stats, processCost, total, seen>>

-----------------------------------------------------------------------------
(* Marshalling and process-io                                              *)

\* getStats and the sum of its answer, which is all that is left of a tree
\* grouped by namespace; the filter has no range.
GetMarshallingStats ==
  /\ phase = "marshalling"
  /\ \E k \in sources, pods \in PodSets :
       /\ sources' = sources \ {k}
       /\ total' = total + Costs(In(k, pods))
       /\ seen' = [seen EXCEPT !.marshalling = @ \cup In(k, pods)]
  /\ UNCHANGED <<args, phase, factor, stats, processCost>>

MarshallingSummed ==
  /\ phase = "marshalling"
  /\ sources = {}
  /\ phase' = "userMarshallerFactor"
  /\ UNCHANGED <<args, factor, sources, stats, processCost, total, seen>>

UserMarshallerFactor ==
  /\ phase = "userMarshallerFactor"
  /\ \E f \in Factors :
       /\ factor' = [factor EXCEPT !["userMarshaller"] = f]
       /\ phase' = IF f > 0 THEN "processMarshallerFactor"
                            ELSE "userProcessIoFactor"
  /\ UNCHANGED <<args, sources, stats, processCost, total, seen>>

\* The child is added, but not to the root's month.
ProcessMarshallerFactor ==
  /\ phase = "processMarshallerFactor"
  /\ \E f \in Factors :
       /\ factor' = [factor EXCEPT !["processMarshaller"] = f]
       /\ processCost' = [processCost EXCEPT !.children =
            With(@, "marshalling",
                 [month |-> total * f * factor["userMarshaller"], children |-> <<>>])]
  /\ phase' = "userProcessIoFactor"
  /\ UNCHANGED <<args, sources, stats, total, seen>>

\* Bug: one total is used for both shares.
UserProcessIoFactorKeepsTotal ==
  /\ phase = "userProcessIoFactor"
  /\ \E f \in Factors :
       /\ factor' = [factor EXCEPT !["userIo"] = f]
       /\ phase' = IF f # 0 THEN "process-io" ELSE "done"
       /\ sources' = IF f # 0 THEN IoSources ELSE {}
  /\ UNCHANGED <<args, stats, processCost, total, seen>>

\* Bug: the factor is added to that of marshalling.
UserProcessIoFactorAdded ==
  /\ phase = "userProcessIoFactor"
  /\ \E f \in Factors :
       /\ factor' = [factor EXCEPT !["userIo"] =
                      factor["userMarshaller"] + f]
       /\ phase' = IF f # 0 THEN "process-io" ELSE "done"
       /\ sources' = IF f # 0 THEN IoSources ELSE {}
  /\ total' = 0
  /\ UNCHANGED <<args, stats, processCost, seen>>

UserProcessIoFactor ==
  /\ phase = "userProcessIoFactor"
  /\ \E f \in Factors :
       /\ factor' = [factor EXCEPT !["userIo"] = f]
       /\ phase' = IF f # 0 THEN "process-io" ELSE "done"
       /\ sources' = IF f # 0 THEN IoSources ELSE {}
  /\ total' = 0
  /\ UNCHANGED <<args, stats, processCost, seen>>

\* The filter of process-io has the range.
GetIoStats ==
  /\ phase = "process-io"
  /\ \E k \in sources, pods \in PodSets :
       /\ sources' = sources \ {k}
       /\ total' = total + Costs(In(k, pods))
       /\ seen' = [seen EXCEPT !.io = @ \cup In(k, pods)]
  /\ UNCHANGED <<args, phase, factor, stats, processCost>>

AddIoAndReturn ==
  /\ phase = "process-io"
  /\ sources = {}
  /\ processCost' = [processCost EXCEPT !.children =
       With(@, "process-io", [month |-> total * factor["userIo"], children |-> <<>>])]
  /\ phase' = "done"
  /\ UNCHANGED <<args, factor, sources, stats, total, seen>>

Next ==
  \/ Reject
  \/ Accept
  \/ Fail
  \/ UserProcessFactor
  \/ GetWorkerStats
  \/ AddPod
  \/ NextWorkerSource
  \/ WorkersDone
  \/ GetMarshallingStats
  \/ MarshallingSummed
  \/ UserMarshallerFactor
  \/ ProcessMarshallerFactor
  \/ UserProcessIoFactor
  \/ GetIoStats
  \/ AddIoAndReturn

Spec == Init /\ [][Next]_vars

-----------------------------------------------------------------------------
(* Properties                                                              *)

Workers == DOMAIN processCost.children \ {"marshalling", "process-io"}

PodsOf(name) == {p \in seen.workers : p.name = name}

WorkerCosts == SumFunction([n \in Workers |-> processCost.children[n].month])

\* In whatever order namespaces and pods are visited, each worker's cost is
\* its share of all of its pods, of every namespace, and the root's month is
\* the sum of the workers' and of nothing else: marshalling and process-io
\* are children that the root does not count.
WorkersMatchStats ==
  phase \in {"marshalling", "userMarshallerFactor", "processMarshallerFactor",
             "userProcessIoFactor", "process-io", "done"} =>
    /\ Workers = {p.name : p \in seen.workers}
    /\ \A name \in Workers :
         processCost.children[name].month =
           Costs(PodsOf(name)) * factor["userProcess"]
    /\ processCost.month = WorkerCosts

GrandchildrenOf(name) == processCost.children[name].children

\* The process definitions of a worker split the cost of one of its pods
\* without rest, or there are none of them; they are not numbers when none
\* of the definitions had an increase.
DefinitionsSplitOnePod ==
  \A name \in Workers :
    LET g == GrandchildrenOf(name)
        sum == SumFunction([d \in DOMAIN g |-> g[d].cost])
    IN \/ \A d \in DOMAIN g : g[d].by = 0
       \/ \E p \in PodsOf(name) : \A d \in DOMAIN g :
            g[d].by > 0 /\ sum = p.cost * factor["userProcess"] * g[d].by

\* Each share is computed from the statistics of its own sources, all of
\* them and each once.
SharesMatchStats ==
  LET children == processCost.children
  IN phase = "done" =>
       /\ "marshalling" \in DOMAIN children =>
            children["marshalling"].month =
              Costs(seen.marshalling) * factor["processMarshaller"]
                                      * factor["userMarshaller"]
       /\ "process-io" \in DOMAIN children =>
            children["process-io"].month = Costs(seen.io) * factor["userIo"]
=============================================================================
