----------------------------- MODULE ExportsTree -----------------------------
(***************************************************************************)
(* Controller.GetExportsTree: list the user's export instances, query the  *)
(* average and then the predicted sizes of their tables, and sum up.       *)
(*                                                                         *)
(* Each export has one table, and each answer has a sample for some of the *)
(* tables, in any order.  A prediction is a line's value: it may be        *)
(* negative.  Prices and hours are small numbers.                          *)
(***************************************************************************)
EXTENDS Integers, FiniteSets, FiniteSetsExt

CONSTANTS
  Exports,     \* the instances there are
  Mine,        \* those of the user, kept in the configured database
  Averages,    \* the average sizes a table may have in this month
  Predictions, \* the sizes that may be predicted for the month's end
  Passed,      \* durationPassed in hours
  Remaining,   \* durationRemaining in hours
  NoPrediction \* no sample of the table was answered

ASSUME MineAssumption == Mine \subseteq Exports /\ IsFiniteSet(Exports)
ASSUME SizesAssumption == Averages \subseteq Nat /\ Predictions \subseteq Int
ASSUME NoPredictionAssumption == NoPrediction \notin Predictions
ASSUME HoursAssumption == Passed \in Nat /\ Remaining \in Int

VARIABLES
  args,        \* start # nil, end # nil, skipEstimation, admin
  phase,       \* the statement that comes next
  tables,      \* the exports whose tables are asked for
  pending,     \* the samples insertWithQuery has yet to insert
  tableSize,   \* tableSizeByteMap, zero where it has no key
  children,    \* result.Children
  root,        \* result's own costs
  prediction   \* history: the prediction inserted for each export

vars == <<args, phase, tables, pending, tableSize, children, root, prediction>>

NoCost == [month |-> 0, estimation |-> 0]

Cost == [month : Int, estimation : Int]

TypeOK ==
  /\ args \in [start : BOOLEAN, end : BOOLEAN, skipEstimation : BOOLEAN,
               admin : BOOLEAN]
  /\ phase \in {"call", "list", "queryMonth", "month", "queryEstimation",
                "estimation", "done", "failed"}
  /\ tables \subseteq Mine
  /\ \A s \in pending : s.export \in tables
  /\ tableSize \in [Exports -> Nat]
  /\ children \in [Exports -> Cost]
  /\ root \in Cost
  /\ prediction \in [Exports -> Predictions \cup {NoPrediction}]

Init ==
  /\ args \in [start : BOOLEAN, end : BOOLEAN, skipEstimation : BOOLEAN,
               admin : BOOLEAN]
  /\ phase = "call"
  /\ tables = {}
  /\ pending = {}
  /\ tableSize = [x \in Exports |-> 0]
  /\ children = [x \in Exports |-> NoCost]
  /\ root = NoCost
  /\ prediction = [x \in Exports |-> NoPrediction]

Goto(from, to) == phase = from /\ phase' = to

BadRange == args.start # args.end \/ (args.start /\ ~args.skipEstimation)

Reject ==
  /\ BadRange
  /\ Goto("call", "failed")
  /\ UNCHANGED <<args, tables, pending, tableSize, children, root, prediction>>

Accept ==
  /\ ~BadRange
  /\ Goto("call", "list")
  /\ UNCHANGED <<args, tables, pending, tableSize, children, root, prediction>>

\* A service fails or its answer is unexpected.
Fail ==
  /\ phase \notin {"call", "done", "failed"}
  /\ phase' = "failed"
  /\ UNCHANGED <<args, tables, pending, tableSize, children, root, prediction>>

\* What ListInstances answers to a user are the instances visible to him;
\* an admin is answered with all.
Visible(x) == args.admin \/ x \in Mine

\* Bug: an admin gets the tables of every user.
ListUnfiltered ==
  /\ Goto("list", "queryMonth")
  /\ tables' = {x \in Exports : Visible(x)}
  /\ UNCHANGED <<args, pending, tableSize, children, root, prediction>>

\* Only the user's exports in the configured database are kept.
List ==
  /\ Goto("list", "queryMonth")
  /\ tables' = {x \in Exports : Visible(x) /\ x \in Mine}
  /\ UNCHANGED <<args, pending, tableSize, children, root, prediction>>

\* The answer to a query: a sample for some of the tables.
Answers(sizes) ==
  UNION {{{[export |-> x, size |-> f[x]] : x \in some} : f \in [some -> sizes]}
           : some \in SUBSET tables}

QueryMonth ==
  /\ Goto("queryMonth", "month")
  /\ pending' \in Answers(Averages)
  /\ UNCHANGED <<args, tables, tableSize, children, root, prediction>>

QueryEstimation ==
  /\ Goto("queryEstimation", "estimation")
  /\ pending' \in Answers(Predictions)
  /\ UNCHANGED <<args, tables, tableSize, children, root, prediction>>

\* Bug: only the child's month is set, not the root's.
InsertMonthChildOnly ==
  /\ phase = "month"
  /\ \E s \in pending :
       /\ pending' = pending \ {s}
       /\ tableSize' = [tableSize EXCEPT ![s.export] = s.size]
       /\ children' = [children EXCEPT ![s.export].month = s.size * Passed]
  /\ UNCHANGED <<args, phase, tables, root, prediction>>

InsertMonth ==
  /\ phase = "month"
  /\ \E s \in pending :
       /\ pending' = pending \ {s}
       /\ tableSize' = [tableSize EXCEPT ![s.export] = s.size]
       /\ children' = [children EXCEPT ![s.export].month = s.size * Passed]
       /\ root' = [root EXCEPT !.month = @ + s.size * Passed]
  /\ UNCHANGED <<args, phase, tables, prediction>>

\* Half of the known and the predicted size, over the remaining hours.
Future(s) == ((s.size + tableSize[s.export]) * Remaining) \div 2

\* Bug: the estimation leaves out the month.
InsertEstimationFutureOnly ==
  /\ phase = "estimation"
  /\ \E s \in pending :
       /\ pending' = pending \ {s}
       /\ children' = [children EXCEPT ![s.export].estimation = Future(s)]
       /\ root' = [root EXCEPT !.estimation = @ + Future(s)]
       /\ prediction' = [prediction EXCEPT ![s.export] = s.size]
  /\ UNCHANGED <<args, phase, tables, tableSize>>

\* The estimation is the month and what is to come.
InsertEstimation ==
  /\ phase = "estimation"
  /\ \E s \in pending :
       LET estimation == children[s.export].month + Future(s)
       IN /\ pending' = pending \ {s}
          /\ children' = [children EXCEPT ![s.export].estimation = estimation]
          /\ root' = [root EXCEPT !.estimation = @ + estimation]
          /\ prediction' = [prediction EXCEPT ![s.export] = s.size]
  /\ UNCHANGED <<args, phase, tables, tableSize>>

MonthInserted ==
  /\ pending = {}
  /\ Goto("month", IF args.skipEstimation THEN "done" ELSE "queryEstimation")
  /\ UNCHANGED <<args, tables, pending, tableSize, children, root, prediction>>

EstimationInserted ==
  /\ pending = {}
  /\ Goto("estimation", "done")
  /\ UNCHANGED <<args, tables, pending, tableSize, children, root, prediction>>

Next ==
  \/ Reject
  \/ Accept
  \/ Fail
  \/ List
  \/ QueryMonth
  \/ QueryEstimation
  \/ InsertMonth
  \/ InsertEstimation
  \/ MonthInserted
  \/ EstimationInserted

Spec == Init /\ [][Next]_vars

-----------------------------------------------------------------------------
(* Properties                                                              *)

Sum(f) == SumFunction([x \in Exports |-> children[x][f]])

\* At any time the root's costs are the sums of the exports'.
RootMatchesExports ==
  root.month = Sum("month") /\ root.estimation = Sum("estimation")

\* No export of another user, or in another database, is ever given a cost,
\* even if an admin's list of instances has it.
OnlyMyExports == \A x \in Exports \ Mine : children[x] = NoCost

\* An export's estimation falls below its month only if its table had no
\* prediction, which makes the estimation zero, or a prediction so far below
\* zero that it outweighs the known size, or if the month's end has passed.
EstimationCoversMonth ==
  phase = "done" /\ ~args.skipEstimation => \A x \in tables :
    children[x].estimation < children[x].month =>
      \/ prediction[x] = NoPrediction /\ children[x].estimation = 0
      \/ prediction[x] # NoPrediction /\ prediction[x] + tableSize[x] < 0
      \/ Remaining < 0
=============================================================================
