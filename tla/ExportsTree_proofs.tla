-------------------------- MODULE ExportsTree_proofs --------------------------
(***************************************************************************)
(* Theorems of ExportsTree for any exports, sizes and hours.               *)
(***************************************************************************)
EXTENDS ExportsTree, Sums, TLAPS

-----------------------------------------------------------------------------
(* The inductive invariant: what the proofs need beyond the properties     *)

\* The samples to insert are of the query made last.
SamplesInv ==
  /\ phase \in {"call", "list"} => pending = {}
  /\ \A s \in pending :
       /\ phase = "month" => s.size \in Averages
       /\ phase = "estimation" => s.size \in Predictions

\* Predictions come after the months have been computed.
PhaseInv ==
  phase \in {"call", "list", "queryMonth", "month"} =>
    \A x \in Exports : prediction[x] = NoPrediction

\* An estimation is the month and what the prediction inserted adds to it.
EstimationInv ==
  \A x \in Exports : children[x].estimation =
    IF prediction[x] = NoPrediction THEN 0
    ELSE children[x].month
           + ((prediction[x] + tableSize[x]) * Remaining) \div 2

IInv ==
  /\ TypeOK
  /\ SamplesInv
  /\ PhaseInv
  /\ EstimationInv
  /\ OnlyMyExports

\* The samples to insert are of different tables.
OneSampleEach ==
  \A s, t \in pending : s.export = t.export => s = t

\* An export that has a sample to insert has no such cost yet: what the
\* insertion assigns to the child is what it adds to the root.
NoCostYet ==
  /\ phase \in {"call", "list", "queryMonth"} =>
       \A x \in Exports : children[x].month = 0
  /\ phase = "month" => \A s \in pending : children[s.export].month = 0
  /\ phase \in {"call", "list", "queryMonth", "month", "queryEstimation"} =>
       \A x \in Exports : children[x].estimation = 0
  /\ phase = "estimation" => \A s \in pending : children[s.export].estimation = 0

\* With IInv this is inductive.
CostInv ==
  /\ OneSampleEach
  /\ NoCostYet
  /\ RootMatchesExports

-----------------------------------------------------------------------------
(* The proofs                                                              *)

\* What the steps other than insertions leave alone, and where they go.
Moves ==
  /\ UNCHANGED <<args, tableSize, children, root, prediction>>
  /\ \/ phase' = "failed" /\ UNCHANGED <<tables, pending>>
     \/ phase = "call" /\ phase' = "list" /\ UNCHANGED <<tables, pending>>
     \/ phase = "list" /\ phase' = "queryMonth" /\ pending' = pending
          /\ tables' \subseteq Mine
     \/ phase = "queryMonth" /\ phase' = "month" /\ tables' = tables
          /\ pending' \in Answers(Averages)
     \/ phase = "queryEstimation" /\ phase' = "estimation" /\ tables' = tables
          /\ pending' \in Answers(Predictions)
     \/ pending = {} /\ pending' = {} /\ tables' = tables
          /\ (phase' = "done" \/ (phase = "month" /\ phase' = "queryEstimation"))

\* The answer to a query has samples of the tables asked for.
LEMMA AnswersType ==
  ASSUME NEW sizes, NEW answer \in Answers(sizes), NEW s \in answer
  PROVE  s.export \in tables /\ s.size \in sizes
BY DEF Answers

\* Nothing is asked for, and no cost is known, before the call.
LEMMA InitInv ==
  Init => IInv
BY MineAssumption DEF Init, IInv, TypeOK, SamplesInv, PhaseInv, EstimationInv,
                      OnlyMyExports, NoCost, Cost

\* Steps that insert no sample.
LEMMA MovesStep ==
  IInv /\ Moves => IInv'
<1> SUFFICES ASSUME IInv, Moves
             PROVE  IInv'
  OBVIOUS
<1> USE DEF IInv
<1>1. TypeOK'
  <2>1. \A s \in pending' : s.export \in tables'
    BY AnswersType DEF TypeOK, SamplesInv, Moves
  <2>2. tables' \subseteq Mine
    BY DEF TypeOK, Moves
  <2>3. QED  BY <2>1, <2>2 DEF TypeOK, Moves
<1>2. SamplesInv'
  BY AnswersType DEF SamplesInv, Moves
<1>3. PhaseInv'
  BY DEF PhaseInv, Moves
<1>4. EstimationInv'
  BY DEF EstimationInv, Moves
<1>5. OnlyMyExports'
  BY DEF OnlyMyExports, Moves
<1>6. QED  BY <1>1, <1>2, <1>3, <1>4, <1>5

\* A month is inserted while no prediction is known.
LEMMA InsertMonthStep ==
  IInv /\ InsertMonth => IInv'
<1> SUFFICES ASSUME IInv, InsertMonth
             PROVE  IInv'
  OBVIOUS
<1> USE DEF IInv
<1>1. PICK s \in pending :
        /\ pending' = pending \ {s}
        /\ tableSize' = [tableSize EXCEPT ![s.export] = s.size]
        /\ children' = [children EXCEPT ![s.export].month = s.size * Passed]
        /\ root' = [root EXCEPT !.month = @ + s.size * Passed]
  BY DEF InsertMonth
<1>2. phase = "month" /\ UNCHANGED <<args, phase, tables, prediction>>
  BY DEF InsertMonth
<1>3. s.export \in Mine /\ s.export \in Exports /\ s.size \in Nat
  BY <1>2, MineAssumption, SizesAssumption DEF TypeOK, SamplesInv
<1>4. s.size * Passed \in Int
  BY <1>3, HoursAssumption
<1>5. TypeOK'
  <2>1. tableSize' \in [Exports -> Nat]
    BY <1>1, <1>3 DEF TypeOK
  <2>2. children' \in [Exports -> Cost] /\ root' \in Cost
    <3> DEFINE month == s.size * Passed
    <3>1. month \in Int
      BY <1>4
    <3>2. /\ children' = [children EXCEPT ![s.export].month = month]
          /\ root' = [root EXCEPT !.month = @ + month]
      BY <1>1
    <3> HIDE DEF month
    <3>3. QED  BY <1>3, <3>1, <3>2 DEF TypeOK, Cost
  <2>3. QED  BY <1>1, <1>2, <2>1, <2>2 DEF TypeOK
<1>6. SamplesInv'
  BY <1>1, <1>2 DEF SamplesInv
<1>7. PhaseInv' /\ \A x \in Exports : prediction'[x] = NoPrediction
  BY <1>2 DEF PhaseInv
<1>8. \A x \in Exports : children'[x].estimation = children[x].estimation
  BY <1>1, <1>3 DEF TypeOK, Cost
<1>9. EstimationInv'
  BY <1>2, <1>7, <1>8 DEF EstimationInv
<1>10. OnlyMyExports'
  BY <1>1, <1>3 DEF OnlyMyExports, TypeOK
<1>11. QED  BY <1>5, <1>6, <1>7, <1>9, <1>10

\* A prediction's estimation is computed from the month inserted before.
LEMMA InsertEstimationStep ==
  IInv /\ InsertEstimation => IInv'
<1> SUFFICES ASSUME IInv, InsertEstimation
             PROVE  IInv'
  OBVIOUS
<1> USE DEF IInv
<1>1. PICK s \in pending :
        /\ pending' = pending \ {s}
        /\ children' = [children EXCEPT ![s.export].estimation =
                          children[s.export].month + Future(s)]
        /\ root' = [root EXCEPT !.estimation =
                      @ + (children[s.export].month + Future(s))]
        /\ prediction' = [prediction EXCEPT ![s.export] = s.size]
  BY DEF InsertEstimation
<1>2. phase = "estimation" /\ UNCHANGED <<args, phase, tables, tableSize>>
  BY DEF InsertEstimation
<1>3. s.export \in Mine /\ s.export \in Exports /\ s.size \in Predictions
  BY <1>2, MineAssumption DEF TypeOK, SamplesInv
<1> DEFINE x0 == s.export
           estimation == children[x0].month + Future(s)
<1>4. estimation \in Int
  <2>1. tableSize[x0] \in Int /\ children[x0].month \in Int
    BY <1>3 DEF TypeOK, Cost
  <2>2. s.size \in Int
    BY <1>3, SizesAssumption, Zenon
  <2>3. QED  BY <2>1, <2>2, HoursAssumption DEF Future
<1>5. /\ children' = [children EXCEPT ![x0].estimation = estimation]
      /\ root' = [root EXCEPT !.estimation = @ + estimation]
      /\ prediction' = [prediction EXCEPT ![x0] = s.size]
      /\ x0 \in Exports /\ x0 \in Mine
  BY <1>1, <1>3
<1>6. estimation = children[x0].month
                     + ((s.size + tableSize[x0]) * Remaining) \div 2
  BY DEF Future
<1>7. \A s1 \in pending' : s1 \in pending
  BY <1>1
<1> HIDE DEF x0, estimation
<1>8. TypeOK'
  <2>1. children' \in [Exports -> Cost] /\ root' \in Cost
    BY <1>4, <1>5 DEF TypeOK, Cost
  <2>2. prediction' \in [Exports -> Predictions \cup {NoPrediction}]
    BY <1>3, <1>5 DEF TypeOK
  <2>3. QED  BY <1>2, <1>7, <2>1, <2>2 DEF TypeOK
<1>9. SamplesInv'
  BY <1>2, <1>7 DEF SamplesInv
<1>10. PhaseInv'
  BY <1>2 DEF PhaseInv
<1>11. EstimationInv'
  <2> SUFFICES ASSUME NEW x \in Exports
               PROVE  children'[x].estimation =
                        IF prediction'[x] = NoPrediction THEN 0
                        ELSE children'[x].month
                          + ((prediction'[x] + tableSize'[x]) * Remaining) \div 2
    BY DEF EstimationInv
  <2>1. CASE x = x0
    <3>1. children'[x].estimation = estimation
      BY <1>5, <2>1 DEF TypeOK, Cost
    <3>2. children'[x].month = children[x0].month
      BY <1>5, <2>1 DEF TypeOK, Cost
    <3>3. prediction'[x] = s.size /\ prediction'[x] # NoPrediction
      BY <1>3, <1>5, <2>1, NoPredictionAssumption DEF TypeOK
    <3>4. tableSize'[x] = tableSize[x0]
      BY <1>2, <2>1
    <3>5. QED  BY <1>6, <3>1, <3>2, <3>3, <3>4
  <2>2. CASE x # x0
    <3>1. children'[x] = children[x] /\ prediction'[x] = prediction[x]
      BY <1>5, <2>2 DEF TypeOK
    <3>2. QED  BY <1>2, <3>1 DEF EstimationInv
  <2>3. QED  BY <2>1, <2>2
<1>12. OnlyMyExports'
  BY <1>5 DEF OnlyMyExports, TypeOK
<1>13. QED  BY <1>8, <1>9, <1>10, <1>11, <1>12

\* Every step keeps the invariant.
LEMMA NextInv ==
  IInv /\ [Next]_vars => IInv'
<1> SUFFICES ASSUME IInv, [Next]_vars
             PROVE  IInv'
  OBVIOUS
<1>1. CASE Reject \/ Accept \/ Fail
  BY <1>1, MovesStep DEF Reject, Accept, Fail, Goto, Moves
<1>2. CASE List
  BY <1>2, MovesStep DEF List, Goto, Moves
<1>3. CASE QueryMonth \/ QueryEstimation
  BY <1>3, MovesStep DEF QueryMonth, QueryEstimation, Goto, Moves
<1>4. CASE InsertMonth
  BY <1>4, InsertMonthStep
<1>5. CASE InsertEstimation
  BY <1>5, InsertEstimationStep
<1>6. CASE MonthInserted \/ EstimationInserted
  BY <1>6, MovesStep DEF MonthInserted, EstimationInserted, Goto, Moves
<1>7. CASE UNCHANGED vars
  BY <1>7 DEF vars, IInv, TypeOK, SamplesInv, PhaseInv, EstimationInv,
              OnlyMyExports
<1>8. QED
  BY <1>1, <1>2, <1>3, <1>4, <1>5, <1>6, <1>7 DEF Next

\* The inductive invariant: it holds in every reachable state.
THEOREM Invariant ==
  Spec => []IInv
BY InitInv, NextInv, PTL DEF Spec

\* Type correctness.
THEOREM TypeCorrect ==
  Spec => []TypeOK
<1>1. IInv => TypeOK
  BY DEF IInv
<1>2. QED  BY Invariant, <1>1, PTL

\* No export of another user, or in another database, is ever given a cost,
\* whatever instances the deployment service lists.
THEOREM OthersAreFree ==
  Spec => []OnlyMyExports
<1>1. IInv => OnlyMyExports
  BY DEF IInv
<1>2. QED  BY Invariant, <1>1, PTL

\* For any averages, predictions and hours, an estimation falls below its
\* month only for want of a prediction, by a prediction far below zero, or
\* after the month's end.
THEOREM EstimationsCover ==
  Spec => []EstimationCoversMonth
<1>1. ASSUME IInv, NEW x \in tables, children[x].estimation < children[x].month
      PROVE  \/ prediction[x] = NoPrediction /\ children[x].estimation = 0
             \/ prediction[x] # NoPrediction /\ prediction[x] + tableSize[x] < 0
             \/ Remaining < 0
  <2>1. x \in Exports
    BY <1>1, MineAssumption DEF IInv, TypeOK
  <2>2. CASE prediction[x] = NoPrediction
    BY <1>1, <2>1, <2>2 DEF IInv, EstimationInv
  <2>3. CASE prediction[x] # NoPrediction
    <3> DEFINE size == prediction[x] + tableSize[x]
               month == children[x].month
    <3>1. prediction[x] \in Predictions
      BY <1>1, <2>1, <2>3 DEF IInv, TypeOK
    <3>2. prediction[x] \in Int
      BY <3>1, SizesAssumption, Zenon
    <3>3. tableSize[x] \in Nat /\ month \in Int
      BY <1>1, <2>1 DEF IInv, TypeOK, Cost
    <3>4. children[x].estimation = month + (size * Remaining) \div 2
      BY <1>1, <2>1, <2>3 DEF IInv, EstimationInv
    <3>5. size \in Int /\ children[x].estimation < month
      BY <1>1, <3>2, <3>3
    <3> HIDE DEF size, month
    <3>6. ASSUME size \in Nat, Remaining \in Nat
          PROVE  FALSE
      <4>1. size * Remaining \in Nat
        BY <3>6
      <4>2. (size * Remaining) \div 2 \in Nat
        BY <4>1
      <4>3. QED  BY <3>3, <3>4, <3>5, <4>2
    <3>7. size < 0 \/ Remaining < 0
      BY <3>5, <3>6, HoursAssumption
    <3>8. QED  BY <2>3, <3>7 DEF size
  <2>4. QED  BY <2>2, <2>3
<1>2. IInv => EstimationCoversMonth
  BY <1>1 DEF EstimationCoversMonth
<1>3. QED  BY Invariant, <1>2, PTL

-----------------------------------------------------------------------------
(* The root                                                                *)

\* A cost that is set changes the sum by as much as the export's.
LEMMA CostSumChange ==
  ASSUME NEW old \in [Exports -> Cost], NEW new \in [Exports -> Cost],
         NEW f \in {"month", "estimation"}, NEW x \in Exports,
         \A y \in Exports \ {x} : new[y][f] = old[y][f]
  PROVE  /\ SumFunction([y \in Exports |-> old[y][f]]) \in Int
         /\ SumFunction([y \in Exports |-> new[y][f]]) =
              SumFunction([y \in Exports |-> old[y][f]]) + new[x][f] - old[x][f]
<1> DEFINE before == [y \in Exports |-> old[y][f]]
           behind == [y \in Exports |-> new[y][f]]
<1>1. \A y \in Exports : before[y] \in Int /\ behind[y] \in Int
  BY DEF Cost
<1>2. \A y \in Exports \ {x} : before[y] = behind[y]
  OBVIOUS
<1>3. before[x] = old[x][f] /\ behind[x] = new[x][f]
  OBVIOUS
<1>4. /\ SumFunction(before) = SumFunctionOnSet(before, Exports)
      /\ SumFunction(behind) = SumFunctionOnSet(behind, Exports)
  BY DEF SumFunction
<1> SUFFICES /\ SumFunction(before) \in Int
             /\ SumFunction(behind) =
                  SumFunction(before) + behind[x] - before[x]
  BY <1>3
<1> HIDE DEF before, behind
<1>5. SumFunctionOnSet(behind, Exports) =
        SumFunctionOnSet(before, Exports) + behind[x] - before[x]
  BY <1>1, <1>2, MineAssumption, SumChange
<1>6. SumFunctionOnSet(before, Exports) \in Int
  BY <1>1, MineAssumption, SumInt
<1>7. QED  BY <1>4, <1>5, <1>6

\* At first nothing has a cost.
LEMMA InitCostInv ==
  Init => CostInv
<1> SUFFICES ASSUME Init
             PROVE  CostInv
  OBVIOUS
<1>1. OneSampleEach /\ NoCostYet
  BY DEF Init, OneSampleEach, NoCostYet, NoCost
<1>2. ASSUME NEW f \in {"month", "estimation"}
      PROVE  Sum(f) = 0
  <2> DEFINE g == [x \in Exports |-> children[x][f]]
  <2>1. \A x \in Exports : g[x] = 0 /\ g[x] \in Int
    BY <1>2 DEF Init, NoCost
  <2>2. Sum(f) = SumFunctionOnSet(g, Exports)
    BY DEF Sum, SumFunction
  <2> HIDE DEF g
  <2>3. SumFunctionOnSet(g, Exports) = SumFunctionOnSet(g, {})
    <3>1. {} \in SUBSET Exports
      OBVIOUS
    <3>2. QED  BY <2>1, <3>1, MineAssumption, SumOfSome
  <2>4. QED  BY <2>2, <2>3, SumEmpty
<1>3. RootMatchesExports
  BY <1>2 DEF Init, NoCost, RootMatchesExports
<1>4. QED  BY <1>1, <1>3 DEF CostInv

\* The answer to a query has one sample of a table at most.
LEMMA AnswersOnce ==
  ASSUME NEW sizes, NEW answer \in Answers(sizes),
         NEW s \in answer, NEW t \in answer, s.export = t.export
  PROVE  s = t
BY DEF Answers

\* Steps that insert no sample.
LEMMA MovesCosts ==
  ASSUME IInv, CostInv, Moves
  PROVE  CostInv'
<1> USE DEF CostInv
<1>1. \A s, t \in pending' : s.export = t.export => s = t
  BY AnswersOnce DEF OneSampleEach, Moves
<1>2. OneSampleEach'
  BY <1>1 DEF OneSampleEach
<1>3. \A sizes : \A s \in pending' :
        pending' \in Answers(sizes) => s.export \in Exports
  BY AnswersType, MineAssumption DEF IInv, TypeOK
<1>4. NoCostYet'
  <2>1. CASE phase = "queryMonth" /\ phase' = "month" /\ pending' \in Answers(Averages)
    <3>1. \A s \in pending' : s.export \in Exports
      BY <1>3, <2>1
    <3>2. QED  BY <2>1, <3>1 DEF NoCostYet, Moves
  <2>2. CASE /\ phase = "queryEstimation" /\ phase' = "estimation"
             /\ pending' \in Answers(Predictions)
    <3>1. \A s \in pending' : s.export \in Exports
      BY <1>3, <2>2
    <3>2. QED  BY <2>2, <3>1 DEF NoCostYet, Moves
  <2>3. CASE phase' \in {"failed", "list", "queryMonth"}
    BY <2>3 DEF NoCostYet, Moves
  <2>4. CASE /\ pending' = {}
             /\ phase' = "done" \/ (phase = "month" /\ phase' = "queryEstimation")
    BY <2>4 DEF NoCostYet, Moves
  <2>5. QED  BY <2>1, <2>2, <2>3, <2>4 DEF Moves
<1>5. \A f : Sum(f)' = Sum(f)
  BY DEF Sum, Moves
<1>6. RootMatchesExports'
  BY <1>5 DEF RootMatchesExports, Moves
<1>7. QED  BY <1>2, <1>4, <1>6

\* A month is inserted once.
LEMMA InsertMonthCosts ==
  ASSUME IInv, IInv', CostInv, InsertMonth
  PROVE  CostInv'
<1>1. PICK s \in pending :
        /\ pending' = pending \ {s}
        /\ children' = [children EXCEPT ![s.export].month = s.size * Passed]
        /\ root' = [root EXCEPT !.month = @ + s.size * Passed]
  BY DEF InsertMonth
<1> DEFINE x0 == s.export
           month == s.size * Passed
<1>2. phase = "month" /\ phase' = phase
  BY DEF InsertMonth
<1>3. x0 \in Exports /\ s.size \in Nat
  BY <1>2, MineAssumption, SizesAssumption DEF IInv, TypeOK, SamplesInv
<1>4. month \in Int
  BY <1>3, HoursAssumption
<1>5. /\ children' = [children EXCEPT ![x0].month = month]
      /\ root' = [root EXCEPT !.month = @ + month]
  BY <1>1
<1>6. \A t \in pending' : t \in pending /\ t.export # x0 /\ t.export \in Exports
  BY <1>1, MineAssumption DEF CostInv, OneSampleEach, IInv, TypeOK
<1>7. children[x0].month = 0
  BY <1>2 DEF CostInv, NoCostYet
<1> HIDE DEF x0, month
<1>8. /\ children'[x0].month = month
      /\ \A y \in Exports \ {x0} : children'[y] = children[y]
      /\ \A y \in Exports : children'[y].estimation = children[y].estimation
  BY <1>3, <1>5 DEF IInv, TypeOK, Cost
<1>9. OneSampleEach'
  BY <1>6 DEF CostInv, OneSampleEach
<1>10. NoCostYet'
  BY <1>2, <1>6, <1>8 DEF CostInv, NoCostYet
<1>11. /\ Sum("month") \in Int /\ Sum("month")' = Sum("month") + month
  <2>1. /\ Sum("month") \in Int
        /\ Sum("month")' = Sum("month") + children'[x0].month - children[x0].month
    <3>1. \A y \in Exports \ {x0} : children'[y]["month"] = children[y]["month"]
      BY <1>8
    <3>2. children \in [Exports -> Cost] /\ children' \in [Exports -> Cost]
      BY DEF IInv, TypeOK
    <3>3. QED  BY <1>3, <3>1, <3>2, CostSumChange DEF Sum
  <2>2. QED  BY <1>4, <1>7, <1>8, <2>1
<1>12. Sum("estimation")' = Sum("estimation")
  BY <1>8 DEF Sum
<1>13. RootMatchesExports'
  <2>1. root'.month = root.month + month /\ root'.estimation = root.estimation
    BY <1>5 DEF IInv, TypeOK, Cost
  <2>2. QED  BY <1>11, <1>12, <2>1 DEF CostInv, RootMatchesExports
<1>14. QED  BY <1>9, <1>10, <1>13 DEF CostInv

\* An estimation is inserted once.
LEMMA InsertEstimationCosts ==
  ASSUME IInv, IInv', CostInv, InsertEstimation
  PROVE  CostInv'
<1>1. PICK s \in pending :
        /\ pending' = pending \ {s}
        /\ children' = [children EXCEPT ![s.export].estimation =
                          children[s.export].month + Future(s)]
        /\ root' = [root EXCEPT !.estimation =
                      @ + (children[s.export].month + Future(s))]
  BY DEF InsertEstimation
<1> DEFINE x0 == s.export
           estimation == children[x0].month + Future(s)
<1>2. phase = "estimation" /\ phase' = phase
  BY DEF InsertEstimation
<1>3. x0 \in Exports
  BY MineAssumption DEF IInv, TypeOK
<1>4. /\ children' = [children EXCEPT ![x0].estimation = estimation]
      /\ root' = [root EXCEPT !.estimation = @ + estimation]
  BY <1>1
<1>5. \A t \in pending' : t \in pending /\ t.export # x0 /\ t.export \in Exports
  BY <1>1, MineAssumption DEF CostInv, OneSampleEach, IInv, TypeOK
<1>6. children[x0].estimation = 0
  BY <1>2 DEF CostInv, NoCostYet
<1> HIDE DEF x0, estimation
<1>7. /\ children'[x0].estimation = estimation
      /\ \A y \in Exports \ {x0} : children'[y] = children[y]
      /\ \A y \in Exports : children'[y].month = children[y].month
  BY <1>3, <1>4 DEF IInv, TypeOK, Cost
<1>8. estimation \in Int
  BY <1>3, <1>7 DEF IInv, TypeOK, Cost
<1>9. OneSampleEach'
  BY <1>5 DEF CostInv, OneSampleEach
<1>10. NoCostYet'
  BY <1>2, <1>5, <1>7 DEF CostInv, NoCostYet
<1>11. /\ Sum("estimation") \in Int
       /\ Sum("estimation")' = Sum("estimation") + estimation
  <2>1. /\ Sum("estimation") \in Int
        /\ Sum("estimation")' = Sum("estimation") + children'[x0].estimation
                                                  - children[x0].estimation
    <3>1. \A y \in Exports \ {x0} : children'[y]["estimation"] = children[y]["estimation"]
      BY <1>7
    <3>2. children \in [Exports -> Cost] /\ children' \in [Exports -> Cost]
      BY DEF IInv, TypeOK
    <3>3. QED  BY <1>3, <3>1, <3>2, CostSumChange DEF Sum
  <2>2. QED  BY <1>6, <1>7, <1>8, <2>1
<1>12. Sum("month")' = Sum("month")
  BY <1>7 DEF Sum
<1>13. RootMatchesExports'
  <2>1. root'.estimation = root.estimation + estimation /\ root'.month = root.month
    BY <1>4 DEF IInv, TypeOK, Cost
  <2>2. QED  BY <1>11, <1>12, <2>1 DEF CostInv, RootMatchesExports
<1>14. QED  BY <1>9, <1>10, <1>13 DEF CostInv

\* Every step keeps the costs' invariant.
LEMMA NextCosts ==
  IInv /\ IInv' /\ CostInv /\ [Next]_vars => CostInv'
<1> SUFFICES ASSUME IInv, IInv', CostInv, [Next]_vars
             PROVE  CostInv'
  OBVIOUS
<1>1. CASE Reject \/ Accept \/ Fail \/ List
  BY <1>1, MovesCosts DEF Reject, Accept, Fail, List, Goto, Moves
<1>2. CASE QueryMonth \/ QueryEstimation
  BY <1>2, MovesCosts DEF QueryMonth, QueryEstimation, Goto, Moves
<1>3. CASE InsertMonth
  BY <1>3, InsertMonthCosts
<1>4. CASE InsertEstimation
  BY <1>4, InsertEstimationCosts
<1>5. CASE MonthInserted \/ EstimationInserted
  BY <1>5, MovesCosts DEF MonthInserted, EstimationInserted, Goto, Moves
<1>6. CASE UNCHANGED vars
  <2>1. \A f : Sum(f)' = Sum(f)
    BY <1>6 DEF vars, Sum
  <2>2. QED
    BY <1>6, <2>1 DEF vars, CostInv, OneSampleEach, NoCostYet, RootMatchesExports
<1>7. QED
  BY <1>1, <1>2, <1>3, <1>4, <1>5, <1>6 DEF Next

\* At any time the root's costs are the sums of the exports', for any
\* exports, sizes, hours and answers.
THEOREM RootMatches ==
  Spec => []RootMatchesExports
<1>1. CostInv => RootMatchesExports
  BY DEF CostInv
<1>2. QED
  BY <1>1, InitInv, NextInv, InitCostInv, NextCosts, PTL DEF Spec
=============================================================================
