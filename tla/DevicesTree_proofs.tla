------------------------- MODULE DevicesTree_proofs -------------------------
(***************************************************************************)
(* Theorems of DevicesTree for any devices, any page limit and any number  *)
(* of changes: the paging misses no device and lists none twice.           *)
(***************************************************************************)
EXTENDS DevicesTree, Sums, FiniteSetTheorems, WellFoundedInduction, TLAPS

-----------------------------------------------------------------------------
(* The inductive invariant: what the proofs need beyond the properties     *)

\* What the paging is about has the types it needs.
PagingTypes ==
  /\ owned \subseteq Ids /\ existed \subseteq owned
  /\ limit \in {0, PageLimit}
  /\ after \in Nat
  /\ listed \in [Ids -> 0..1]

\* A device was listed only if the next page comes after it, and each that
\* the next page comes after was, if it was there all along.
PagingInv ==
  /\ \A d \in Ids : listed[d] = 1 => after <= d
  /\ \A d \in existed : after <= d => listed[d] = 1

\* A page that is not full was the last one.
LastPageInv ==
  /\ phase = "call" => limit = 0
  /\ limit = 0 => found = 0 /\ phase \in {"call", "loop", "failed"}
  /\ limit = PageLimit /\ found # PageLimit
       /\ phase \in {"current", "predict", "requests", "loop"} =>
       \A d \in existed : listed[d] = 1
  /\ phase = "done" => \A d \in existed : listed[d] = 1

IInv ==
  /\ PagingTypes
  /\ PagingInv
  /\ LastPageInv

\* Costs are numbers, of the page's devices or of others.
CostTypes ==
  /\ page \subseteq Ids
  /\ children \in [Ids -> [DOMAIN NoCost -> Int]]
  /\ root \in [DOMAIN NoCost -> Int]

NoRequestsOf(d) ==
  children[d].requests = 0 /\ children[d].requestsEstimation = 0

\* The requests of a device are assigned to its child once, so that adding
\* them to the root comes to the same.
RequestsOnce ==
  /\ \A d \in Ids : listed[d] = 0 => NoRequestsOf(d)
  /\ phase \in {"current", "predict", "requests"} =>
       \A d \in page : NoRequestsOf(d) /\ listed[d] = 1

\* With IInv this is inductive.
CostInv ==
  /\ CostTypes
  /\ RequestsOnce
  /\ RootMatchesDevices

-----------------------------------------------------------------------------
(* Finite sets of numbers                                                  *)

\* A finite set of numbers has a greatest one.
LEMMA Greatest ==
  ASSUME NEW T, IsFiniteSet(T), T \subseteq Int, T # {}
  PROVE  \E m \in T : \A e \in T : e <= m
<1> DEFINE Above(d) == {e \in T : e > d}
           U == {Above(d) : d \in T}
<1>1. U \subseteq FiniteSubsetsOf(T) /\ U # {}
  <2>1. \A d \in T : Above(d) \in SUBSET T
    OBVIOUS
  <2>2. \A d \in T : IsFiniteSet(Above(d))
    BY <2>1, FS_Subset
  <2>3. QED  BY <2>1, <2>2 DEF FiniteSubsetsOf
<1>2. PICK s \in U : \A t \in U : <<t, s>> \notin StrictSubsetOrdering(T)
  <2>1. IsWellFoundedOn(StrictSubsetOrdering(T), FiniteSubsetsOf(T))
    BY FS_StrictSubsetOrderingWellFounded
  <2> HIDE DEF U
  <2>2. QED  BY <1>1, <2>1, WFMin
<1>3. PICK m \in T : s = Above(m)
  BY <1>2
<1>4. ASSUME NEW e \in T, e > m
      PROVE  FALSE
  <2> HIDE DEF U
  <2> e \in Int /\ m \in Int
    OBVIOUS
  <2>0. ~(e > e) /\ \A x \in T : x > e => x > m
    <3>1. ASSUME NEW x \in T, x > e
          PROVE  x > m
      <4>1. x \in Int
        OBVIOUS
      <4>2. QED  BY <1>4, <3>1, <4>1
    <3>2. QED  BY <3>1
  <2>1. Above(e) \subseteq Above(m) /\ e \in Above(m) /\ e \notin Above(e)
    BY <1>4, <2>0, Zenon
  <2> USE DEF U
  <2>2. Above(e) \in U /\ Above(e) \in SUBSET T /\ Above(m) \in SUBSET T
    BY <1>4
  <2> HIDE DEF U, Above
  <2>3. <<Above(e), Above(m)>> \in StrictSubsetOrdering(T)
    BY <2>1, <2>2, Smaller
  <2>4. QED  BY <1>2, <1>3, <2>2, <2>3
<1>5. QED  BY <1>4

\* And a least one.
LEMMA Least ==
  ASSUME NEW T, IsFiniteSet(T), T \subseteq Int, T # {}
  PROVE  \E m \in T : \A e \in T : m <= e
<1> DEFINE Under(d) == {e \in T : e < d}
           U == {Under(d) : d \in T}
<1>1. U \subseteq FiniteSubsetsOf(T) /\ U # {}
  <2>1. \A d \in T : Under(d) \in SUBSET T
    OBVIOUS
  <2>2. \A d \in T : IsFiniteSet(Under(d))
    BY <2>1, FS_Subset
  <2>3. QED  BY <2>1, <2>2 DEF FiniteSubsetsOf
<1>2. PICK s \in U : \A t \in U : <<t, s>> \notin StrictSubsetOrdering(T)
  <2>1. IsWellFoundedOn(StrictSubsetOrdering(T), FiniteSubsetsOf(T))
    BY FS_StrictSubsetOrderingWellFounded
  <2> HIDE DEF U
  <2>2. QED  BY <1>1, <2>1, WFMin
<1>3. PICK m \in T : s = Under(m)
  BY <1>2
<1>4. ASSUME NEW e \in T, e < m
      PROVE  FALSE
  <2> HIDE DEF U
  <2> e \in Int /\ m \in Int
    OBVIOUS
  <2>0. ~(e < e) /\ \A x \in T : x < e => x < m
    <3>1. ASSUME NEW x \in T, x < e
          PROVE  x < m
      <4>1. x \in Int
        OBVIOUS
      <4>2. QED  BY <1>4, <3>1, <4>1
    <3>2. QED  BY <3>1
  <2>1. Under(e) \subseteq Under(m) /\ e \in Under(m) /\ e \notin Under(e)
    BY <1>4, <2>0, Zenon
  <2> USE DEF U
  <2>2. Under(e) \in U /\ Under(e) \in SUBSET T /\ Under(m) \in SUBSET T
    BY <1>4
  <2> HIDE DEF U, Under
  <2>3. <<Under(e), Under(m)>> \in StrictSubsetOrdering(T)
    BY <2>1, <2>2, Smaller
  <2>4. QED  BY <1>2, <1>3, <2>2, <2>3
<1>5. QED  BY <1>4

LEMMA MinIsLeast ==
  ASSUME NEW T, IsFiniteSet(T), T \subseteq Int, T # {}
  PROVE  Min(T) \in T /\ \A e \in T : Min(T) <= e
BY Least DEF Min

\* Every id is below the one that the first page starts after.
LEMMA StartIsAbove ==
  Start \in Nat /\ \A d \in Ids : d < Start
<1>1. Ids \subseteq Int
  BY IdsAssumption
<1>2. \E m \in Ids : \A e \in Ids : m >= e
  BY <1>1, IdsAssumption, Greatest
<1>3. Max(Ids) \in Ids /\ \A e \in Ids : Max(Ids) >= e
  BY <1>2 DEF Max
<1> DEFINE m == Max(Ids)
<1>4. m \in Nat /\ Start = 1 + m /\ \A e \in Ids : m >= e
  BY <1>3, IdsAssumption DEF Start
<1> HIDE DEF m
<1>5. QED  BY <1>1, <1>4

-----------------------------------------------------------------------------
(* Pages                                                                   *)

\* What the next page is.
LEMMA NextPageType ==
  ASSUME owned \subseteq Ids
  PROVE  /\ NextPage \subseteq Below(after) /\ Below(after) \subseteq owned
         /\ IsFiniteSet(Below(after)) /\ IsFiniteSet(NextPage)
         /\ Below(after) \subseteq Int
         /\ \A d \in Ids : IsFiniteSet({e \in Below(after) : e > d})
<1>1. IsFiniteSet(owned)
  BY IdsAssumption, FS_Subset
<1>2. Below(after) \in SUBSET owned /\ NextPage \in SUBSET Below(after)
  BY DEF Below, NextPage
<1>3. IsFiniteSet(Below(after))
  BY <1>1, <1>2, FS_Subset
<1>4. \A d \in Ids : {e \in Below(after) : e > d} \in SUBSET Below(after)
  OBVIOUS
<1>5. \A d \in Ids : IsFiniteSet({e \in Below(after) : e > d})
  BY <1>3, <1>4, FS_Subset
<1>6. IsFiniteSet(NextPage)
  BY <1>2, <1>3, FS_Subset
<1>7. Below(after) \subseteq Int
  <2>1. Below(after) \subseteq Nat
    BY <1>2, IdsAssumption, Zenon
  <2>2. QED  BY <2>1
<1>8. QED  BY <1>2, <1>3, <1>5, <1>6, <1>7

\* A device above one of the page, and below the place reached, is in it.
LEMMA NextPageUpwards ==
  ASSUME owned \subseteq Ids, NEW m \in NextPage, NEW d \in Below(after), m <= d
  PROVE  d \in NextPage
<1> DEFINE Above(x) == {e \in Below(after) : e > x}
<1>1. m \in Ids /\ d \in Ids /\ Cardinality(Above(m)) < PageLimit
  BY NextPageType DEF NextPage
<1>2. Above(d) \in SUBSET Above(m)
  BY <1>1, NextPageType, IdsAssumption
<1>3. IsFiniteSet(Above(m)) /\ IsFiniteSet(Above(d))
  BY <1>1, NextPageType
<1>4. /\ Cardinality(Above(d)) <= Cardinality(Above(m))
      /\ Cardinality(Above(d)) \in Nat /\ Cardinality(Above(m)) \in Nat
  BY <1>2, <1>3, FS_Subset, FS_CardinalityType
<1>5. Cardinality(Above(d)) < PageLimit
  BY <1>1, <1>4, PageLimitAssumption
<1>6. QED  BY <1>5 DEF NextPage

\* A page has PageLimit devices at most.
LEMMA NextPageSize ==
  ASSUME owned \subseteq Ids
  PROVE  Cardinality(NextPage) \in 0..PageLimit
<1>1. CASE NextPage = {}
  BY <1>1, FS_EmptySet, PageLimitAssumption
<1>2. CASE NextPage # {}
  <2>1. PICK m \in NextPage : \A e \in NextPage : m <= e
    BY <1>2, NextPageType, Least
  <2> DEFINE Above == {e \in Below(after) : e > m}
  <2>2. IsFiniteSet(Above) /\ Cardinality(Above) < PageLimit
    BY NextPageType DEF NextPage
  <2>3. NextPage \in SUBSET (Above \cup {m})
    BY <2>1, NextPageType
  <2> HIDE DEF Above
  <2> Cardinality(Above) \in Nat
    BY <2>2, FS_CardinalityType
  <2>4. /\ IsFiniteSet(Above \cup {m})
        /\ Cardinality(Above \cup {m}) <= Cardinality(Above) + 1
    <3> HIDE DEF Above
    <3>1. Cardinality(Above \cup {m}) = IF m \in Above THEN Cardinality(Above)
                                        ELSE Cardinality(Above) + 1
      BY <2>2, FS_AddElement
    <3>2. QED  BY <2>2, <3>1, FS_AddElement
  <2>5. Cardinality(NextPage) <= Cardinality(Above \cup {m})
    BY <2>3, <2>4, FS_Subset
  <2>6. /\ Cardinality(NextPage) \in Nat /\ Cardinality(Above) \in Nat
        /\ Cardinality(Above \cup {m}) \in Nat
    BY <2>2, <2>4, NextPageType, FS_CardinalityType
  <2>7. QED  BY <2>2, <2>4, <2>5, <2>6, PageLimitAssumption
<1>3. QED  BY <1>1, <1>2

\* A page that is not full has all there are.
LEMMA NextPageLast ==
  ASSUME owned \subseteq Ids, Cardinality(NextPage) # PageLimit
  PROVE  NextPage = Below(after)
<1> SUFFICES ASSUME Below(after) \ NextPage # {}
             PROVE  FALSE
  BY NextPageType
<1> DEFINE Rest == Below(after) \ NextPage
<1>1. IsFiniteSet(Rest) /\ Rest \subseteq Int
  BY NextPageType, FS_Subset
<1>2. PICK d \in Rest : \A e \in Rest : e <= d
  BY <1>1, Greatest
<1> DEFINE Above == {e \in Below(after) : e > d}
<1>3. Above \in SUBSET NextPage
  BY <1>1, <1>2, NextPageType
<1>4. d \in Ids /\ IsFiniteSet(Above) /\ ~(Cardinality(Above) < PageLimit)
  BY <1>2, NextPageType DEF NextPage
<1> HIDE DEF Above
<1>5. Cardinality(Above) <= Cardinality(NextPage)
  BY <1>3, NextPageType, FS_Subset
<1>6. Cardinality(Above) \in Nat /\ Cardinality(NextPage) \in 0..PageLimit
  BY <1>4, FS_CardinalityType, NextPageSize
<1>7. QED  BY <1>4, <1>5, <1>6, PageLimitAssumption

-----------------------------------------------------------------------------
(* The paging                                                              *)

\* Before the first page nothing is listed, and all is to come.
LEMMA InitInv ==
  Init => IInv
<1> SUFFICES ASSUME Init
             PROVE  IInv
  OBVIOUS
<1>1. \A d \in Ids : d < Start /\ d \in Nat /\ ~(Start <= d)
  BY StartIsAbove, IdsAssumption
<1>2. PagingTypes
  BY StartIsAbove DEF Init, PagingTypes
<1>3. PagingInv
  BY <1>1 DEF Init, PagingInv
<1>4. LastPageInv
  BY PageLimitAssumption DEF Init, LastPageInv
<1>5. QED  BY <1>2, <1>3, <1>4 DEF IInv

\* Devices that come or go change only what is listed next.
LEMMA ChangeStep ==
  IInv /\ (CreateDevice \/ DeleteDevice) => IInv'
<1> SUFFICES ASSUME IInv, CreateDevice \/ DeleteDevice
             PROVE  IInv'
  OBVIOUS
<1>1. /\ UNCHANGED <<phase, limit, found, after, listed>>
      /\ existed' \subseteq existed
  BY DEF CreateDevice, DeleteDevice, Change
<1>2. owned' \subseteq Ids /\ existed' \subseteq owned'
  BY DEF IInv, PagingTypes, CreateDevice, DeleteDevice
<1>3. PagingTypes'
  BY <1>1, <1>2 DEF IInv, PagingTypes
<1>4. PagingInv'
  BY <1>1 DEF IInv, PagingInv
<1>5. LastPageInv'
  BY <1>1 DEF IInv, LastPageInv
<1>6. QED  BY <1>3, <1>4, <1>5 DEF IInv

\* Every step of the call but List lists nothing, and it goes from the last
\* page to the end.
LEMMA OtherStep ==
  ASSUME IInv, UNCHANGED <<owned, existed, after, listed>>,
         \/ phase = "call" /\ phase' \in {"failed", "loop"}
              /\ UNCHANGED <<limit, found>>
         \/ phase = "loop" /\ found = limit /\ phase' = "list"
              /\ limit' = PageLimit /\ found' = found
         \/ phase = "loop" /\ found # limit /\ phase' = "done"
              /\ UNCHANGED <<limit, found>>
         \/ phase = "list" /\ phase' = "partial" /\ UNCHANGED <<limit, found>>
         \/ phase' = "failed" /\ UNCHANGED <<limit, found>>
         \/ phase = "current" /\ phase' \in {"predict", "requests"}
              /\ UNCHANGED <<limit, found>>
         \/ phase = "predict" /\ phase' = "requests" /\ UNCHANGED <<limit, found>>
         \/ phase = "requests" /\ phase' = "loop" /\ UNCHANGED <<limit, found>>
  PROVE  IInv'
<1>1. PagingTypes'
  BY DEF IInv, PagingTypes
<1>2. PagingInv'
  BY DEF IInv, PagingInv
<1>3. LastPageInv'
  BY PageLimitAssumption DEF IInv, PagingTypes, LastPageInv
<1>4. QED  BY <1>1, <1>2, <1>3 DEF IInv

\* A page has devices not listed yet, and every one of those between the
\* place reached and the place that the next one starts from.
LEMMA ListStep ==
  IInv /\ List => IInv'
<1> SUFFICES ASSUME IInv, List
             PROVE  IInv'
  OBVIOUS
<1> USE DEF IInv
<1>1. /\ phase = "list" /\ phase' = "current" /\ limit' = limit
      /\ owned' = owned /\ existed' = existed
      /\ found' = Cardinality(NextPage)
      /\ after' = IF NextPage = {} THEN 0 ELSE Min(NextPage)
      /\ listed' = [d \in Ids |-> IF d \in NextPage /\ listed[d] < 2
                                  THEN listed[d] + 1 ELSE listed[d]]
  BY DEF List, Take, Goto, env
<1>2. /\ owned \subseteq Ids /\ existed \subseteq owned /\ after \in Nat
      /\ listed \in [Ids -> 0..1]
  BY DEF PagingTypes
<1>3. Below(after) = {d \in owned : d < after} /\ NextPage \subseteq Below(after)
  BY <1>2, NextPageType DEF Below
<1>4. \A d \in Ids : d \in Nat
  BY IdsAssumption
<1>5. \A d \in NextPage : d \in Ids /\ d < after /\ listed[d] = 0
  BY <1>2, <1>3, <1>4 DEF PagingInv
<1>6. \A d \in Ids : listed'[d] = IF d \in NextPage THEN 1 ELSE listed[d]
  <2> SUFFICES ASSUME NEW d \in Ids
               PROVE  listed'[d] = IF d \in NextPage THEN 1 ELSE listed[d]
    OBVIOUS
  <2>1. listed'[d] = IF d \in NextPage /\ listed[d] < 2
                     THEN listed[d] + 1 ELSE listed[d]
    BY <1>1
  <2>2. QED  BY <2>1, <1>5
<1>7. listed' \in [Ids -> 0..1]
  <2>1. listed' = [d \in Ids |-> listed'[d]]
    BY <1>1
  <2>2. \A d \in Ids : listed'[d] \in 0..1
    BY <1>2, <1>6
  <2>3. QED  BY <2>1, <2>2
<1>8. NextPage # {} => /\ Min(NextPage) \in NextPage
                       /\ \A e \in NextPage : Min(NextPage) <= e
  <2>1. NextPage \subseteq Int /\ IsFiniteSet(NextPage)
    BY <1>2, NextPageType
  <2>2. QED  BY <2>1, MinIsLeast
<1>9. after' \in Nat
  BY <1>1, <1>4, <1>5, <1>8
<1>10. PagingTypes'
  BY <1>1, <1>2, <1>7, <1>9 DEF PagingTypes
<1>11. ASSUME NextPage = Below(after), NEW d \in existed
       PROVE  listed'[d] = 1
  <2>1. d \in Ids /\ d \in owned /\ d \in Nat
    BY <1>2, <1>4
  <2>2. CASE d < after
    BY <1>3, <1>6, <1>11, <2>1, <2>2
  <2>3. CASE after <= d
    BY <1>6, <2>1, <2>3 DEF PagingInv
  <2>4. QED  BY <1>2, <2>1, <2>2, <2>3
<1>12. PagingInv'
  <2>1. CASE NextPage = {}
    <3>1. Cardinality(NextPage) # PageLimit
      BY <2>1, FS_EmptySet, PageLimitAssumption
    <3>2. NextPage = Below(after)
      BY <1>2, <3>1, NextPageLast
    <3>3. \A d \in existed : listed'[d] = 1
      BY <1>11, <3>2
    <3>4. \A d \in Ids : after' <= d
      BY <1>1, <1>4, <2>1
    <3>5. QED  BY <1>1, <3>3, <3>4 DEF PagingInv
  <2>2. CASE NextPage # {}
    <3> DEFINE m == Min(NextPage)
    <3>1. /\ m \in NextPage /\ m \in Ids /\ m \in Nat /\ m < after /\ after' = m
          /\ \A e \in NextPage : m <= e
      BY <1>1, <1>4, <1>5, <1>8, <2>2
    <3> HIDE DEF m
    <3>2. ASSUME NEW d \in Ids, listed'[d] = 1
          PROVE  m <= d
      <4>1. CASE d \in NextPage
        BY <3>1, <4>1
      <4>2. CASE d \notin NextPage
        <5>1. after <= d
          BY <1>6, <3>2, <4>2 DEF PagingInv
        <5>2. QED  BY <1>2, <1>4, <3>1, <5>1
      <4>3. QED  BY <4>1, <4>2
    <3>3. ASSUME NEW d \in existed, m <= d
          PROVE  listed'[d] = 1
      <4>1. d \in Ids /\ d \in owned /\ d \in Nat
        BY <1>2, <1>4
      <4>2. CASE after <= d
        BY <1>6, <4>1, <4>2 DEF PagingInv
      <4>3. CASE d < after
        <5>1. d \in Below(after)
          BY <1>3, <4>1, <4>3
        <5>2. d \in NextPage
          BY <1>2, <3>1, <3>3, <5>1, NextPageUpwards
        <5>3. QED  BY <1>6, <4>1, <5>2
      <4>4. QED  BY <1>2, <4>1, <4>2, <4>3
    <3>4. QED  BY <1>1, <3>1, <3>2, <3>3 DEF PagingInv
  <2>3. QED  BY <2>1, <2>2
<1>13. LastPageInv'
  <2>1. limit = PageLimit
    BY <1>1 DEF PagingTypes, LastPageInv
  <2>2. found' # PageLimit => NextPage = Below(after)
    BY <1>1, <1>2, NextPageLast
  <2>3. found' # PageLimit => \A d \in existed' : listed'[d] = 1
    BY <1>1, <1>11, <2>2
  <2>4. QED  BY <1>1, <2>1, <2>3, PageLimitAssumption DEF LastPageInv
<1>14. QED  BY <1>10, <1>12, <1>13

\* Every step keeps the paging's invariant.
LEMMA PagingStep ==
  IInv /\ [Next]_vars => IInv'
<1> SUFFICES ASSUME IInv, [Next]_vars
             PROVE  IInv'
  OBVIOUS
<1>1. CASE CreateDevice \/ DeleteDevice
  BY <1>1, ChangeStep
<1>2. CASE List
  BY <1>2, ListStep
<1>3. CASE Reject \/ Accept
  BY <1>3, OtherStep DEF Reject, Accept, Goto, env
<1>4. CASE Continue
  BY <1>4, OtherStep DEF Continue, Goto, env
<1>5. CASE Stop
  BY <1>5, OtherStep DEF Stop, Goto, env
<1>6. CASE ListNothing
  BY <1>6, OtherStep DEF ListNothing, Goto, env
<1>7. CASE Fail
  BY <1>7, OtherStep DEF Fail, env
<1>8. CASE QueryCurrent
  BY <1>8, OtherStep DEF QueryCurrent, Goto, env
<1>9. CASE QueryPrediction
  BY <1>9, OtherStep DEF QueryPrediction, Goto, env
<1>10. CASE QueryRequests
  BY <1>10, OtherStep DEF QueryRequests, Goto, env
<1>11. CASE UNCHANGED vars
  <2>1. UNCHANGED <<owned, existed, phase, limit, found, after, listed>>
    BY <1>11 DEF vars, env
  <2>2. QED
    BY <2>1 DEF IInv, PagingTypes, PagingInv, LastPageInv
<1>12. QED
  BY <1>1, <1>2, <1>3, <1>4, <1>5, <1>6, <1>7, <1>8, <1>9, <1>10, <1>11
  DEF Next, GetDevicesTree

\* Every device that the user owns all along is on exactly one page once the
\* call is through, and none is ever on two, for any devices, any page limit
\* and any number of devices created or deleted meanwhile.
THEOREM PagesOnce ==
  Spec => []EachDeviceOnce
<1>1. IInv => EachDeviceOnce
  <2> SUFFICES ASSUME IInv
               PROVE  EachDeviceOnce
    OBVIOUS
  <2>1. \A d \in Ids : listed[d] \in 0..1
    BY DEF IInv, PagingTypes
  <2>2. QED  BY <2>1 DEF IInv, LastPageInv, EachDeviceOnce
<1>2. QED  BY <1>1, InitInv, PagingStep, PTL DEF Spec

-----------------------------------------------------------------------------
(* The costs                                                               *)

\* What the answered devices add to the sum of a field over all of them.
LEMMA SumInserted ==
  ASSUME CostTypes, NEW answered \in SUBSET page,
         NEW childCost \in [page -> [DOMAIN NoCost -> Int]],
         NEW rootCost, Insert(answered, childCost, rootCost),
         NEW f \in DOMAIN NoCost
  PROVE  /\ Sum(f) \in Int
         /\ SumFunction([d \in answered |-> childCost[d][f]]) \in Int
         /\ Sum(f)' = Sum(f) + SumFunction([d \in answered |-> childCost[d][f]])
<1> DEFINE before == [d \in Ids |-> children[d][f]]
           behind == [d \in Ids |-> children'[d][f]]
           part   == [d \in answered |-> childCost[d][f]]
           more   == [d \in Ids |-> IF d \in answered THEN childCost[d][f] ELSE 0]
<1>1. IsFiniteSet(Ids) /\ answered \in SUBSET Ids /\ IsFiniteSet(answered)
  BY IdsAssumption, FS_Subset DEF CostTypes
<1>2. \A d \in answered : childCost[d][f] \in Int
  OBVIOUS
<1>3. \A d \in Ids : children[d][f] \in Int
  BY DEF CostTypes
<1>4. \A d \in Ids : children'[d][f] = children[d][f] + more[d]
  <2> SUFFICES ASSUME NEW d \in Ids
               PROVE  children'[d][f] = children[d][f] + more[d]
    OBVIOUS
  <2>1. CASE d \in answered
    BY <2>1 DEF Insert
  <2>2. CASE d \notin answered
    BY <1>3, <2>2 DEF Insert
  <2>3. QED  BY <2>1, <2>2
<1>5. \A d \in Ids : before[d] \in Int /\ more[d] \in Int
                  /\ behind[d] = before[d] + more[d]
  BY <1>2, <1>3, <1>4
<1>6. \A d \in Ids \ answered : more[d] = 0
  OBVIOUS
<1>7. \A d \in answered : more[d] = part[d] /\ part[d] \in Int
  BY <1>1, <1>2
<1>8. Sum(f) = SumFunctionOnSet(before, Ids) /\ Sum(f)' = SumFunctionOnSet(behind, Ids)
  BY DEF Sum, SumFunction
<1>9. SumFunction(part) = SumFunctionOnSet(part, answered)
  BY DEF SumFunction
<1> HIDE DEF before, behind, part, more
<1>10. SumFunctionOnSet(behind, Ids) =
         SumFunctionOnSet(before, Ids) + SumFunctionOnSet(more, Ids)
  BY <1>1, <1>5, SumPlus
<1>11. SumFunctionOnSet(more, Ids) = SumFunctionOnSet(more, answered)
  BY <1>1, <1>5, <1>6, SumOfSome
<1>12. SumFunctionOnSet(more, answered) = SumFunctionOnSet(part, answered)
  BY <1>1, <1>7, SumEqual
<1>13. SumFunctionOnSet(before, Ids) \in Int /\ SumFunctionOnSet(part, answered) \in Int
  BY <1>1, <1>5, <1>7, SumInt
<1>14. QED
  BY <1>8, <1>9, <1>10, <1>11, <1>12, <1>13 DEF part

\* insertWithQuery keeps the root in step with the devices if a child's cost
\* is the root's, save that its estimation also has the child's month.
LEMMA InsertStep ==
  ASSUME CostTypes, RootMatchesDevices, NEW answered \in SUBSET page,
         NEW childCost \in [page -> [DOMAIN NoCost -> Int]],
         NEW rootCost \in [page -> [DOMAIN NoCost -> Int]],
         Insert(answered, childCost, rootCost), page' = page,
         \A d \in page :
           /\ childCost[d].month = rootCost[d].month
           /\ childCost[d].estimation = rootCost[d].estimation + childCost[d].month,
         \A d \in answered :
           /\ childCost[d].requests = rootCost[d].requests
           /\ childCost[d].requestsEstimation = rootCost[d].requestsEstimation
  PROVE  CostTypes' /\ RootMatchesDevices'
<1> DEFINE Child(f) == SumFunction([d \in answered |-> childCost[d][f]])
           Root(f) == SumFunction([d \in answered |-> rootCost[d][f]])
           F == {"month", "estimation", "requests", "requestsEstimation"}
<1>1. DOMAIN NoCost = F
  BY DEF NoCost
<1>2. IsFiniteSet(answered)
  BY IdsAssumption, FS_Subset DEF CostTypes
<1>3. \A f \in F : /\ Sum(f) \in Int /\ Child(f) \in Int
                   /\ Sum(f)' = Sum(f) + Child(f)
  <2> SUFFICES ASSUME NEW f \in F
               PROVE  /\ Sum(f) \in Int /\ Child(f) \in Int
                      /\ Sum(f)' = Sum(f) + Child(f)
    OBVIOUS
  <2>1. f \in DOMAIN NoCost
    BY <1>1
  <2>2. QED  BY ONLY <2>1, SumInserted, CostTypes, answered \in SUBSET page,
               childCost \in [page -> [DOMAIN NoCost -> Int]],
               Insert(answered, childCost, rootCost) DEF Child
<1>4. \A f \in F : Root(f) \in Int
  <2> SUFFICES ASSUME NEW f \in F
               PROVE  Root(f) \in Int
    OBVIOUS
  <2> DEFINE g == [d \in answered |-> rootCost[d][f]]
  <2>1. \A d \in answered : g[d] \in Int
    BY <1>1
  <2>2. SumFunction(g) = SumFunctionOnSet(g, answered)
    BY DEF SumFunction
  <2> HIDE DEF g
  <2>3. SumFunction(g) \in Int
    BY <1>2, <2>1, <2>2, SumInt
  <2>4. QED  BY <2>3 DEF g
<1>5. ASSUME NEW f \in F \ {"estimation"}
      PROVE  Child(f) = Root(f)
  <2>1. \A d \in answered : childCost[d][f] = rootCost[d][f]
    OBVIOUS
  <2>2. [d \in answered |-> childCost[d][f]] = [d \in answered |-> rootCost[d][f]]
    BY <2>1
  <2>3. QED  BY <2>2
<1>6. Child("estimation") = Root("estimation") + Child("month")
  <2> DEFINE c == [d \in answered |-> childCost[d].estimation]
             r == [d \in answered |-> rootCost[d].estimation]
             m == [d \in answered |-> childCost[d].month]
  <2>1. \A d \in answered : r[d] \in Int /\ m[d] \in Int /\ c[d] = r[d] + m[d]
    BY <1>1
  <2>2. /\ SumFunction(c) = SumFunctionOnSet(c, answered)
        /\ SumFunction(r) = SumFunctionOnSet(r, answered)
        /\ SumFunction(m) = SumFunctionOnSet(m, answered)
    BY DEF SumFunction
  <2> HIDE DEF c, r, m
  <2>3. SumFunction(c) = SumFunction(r) + SumFunction(m)
    BY <1>2, <2>1, <2>2, SumPlus
  <2>4. QED  BY <2>3 DEF c, r, m
<1>7. \A f \in F : root'[f] = root[f] + Root(f) /\ root[f] \in Int
  BY <1>1 DEF Insert, CostTypes
<1>8. CostTypes'
  <2>1. \A d \in Ids : \A f \in F : children[d][f] \in Int
    BY <1>1 DEF CostTypes
  <2>2. \A d \in answered : \A f \in F : childCost[d][f] \in Int
    BY <1>1
  <2>3. children' \in [Ids -> [DOMAIN NoCost -> Int]]
    <3>1. ASSUME NEW d \in Ids
          PROVE  children'[d] \in [DOMAIN NoCost -> Int]
      <4>1. CASE d \in answered
        <5>1. children'[d] = [f \in DOMAIN NoCost |-> children[d][f] + childCost[d][f]]
          BY <4>1 DEF Insert
        <5>2. QED  BY <1>1, <2>1, <2>2, <4>1, <5>1
      <4>2. CASE d \notin answered
        BY <4>2 DEF Insert, CostTypes
      <4>3. QED  BY <4>1, <4>2
    <3>2. children' = [d \in Ids |-> children'[d]]
      BY DEF Insert
    <3>3. QED  BY <3>1, <3>2
  <2>4. root' \in [DOMAIN NoCost -> Int]
    <3>1. root' = [f \in DOMAIN NoCost |-> root'[f]]
      BY DEF Insert
    <3>2. \A f \in DOMAIN NoCost : root'[f] \in Int
      BY <1>1, <1>4, <1>7
    <3>3. QED  BY <3>1, <3>2
  <2>5. QED  BY <2>3, <2>4 DEF CostTypes
<1> HIDE DEF Child, Root
<1>9. RootMatchesDevices'
  <2>1. root'.month = Sum("month")'
    BY <1>3, <1>5, <1>7 DEF RootMatchesDevices
  <2>2. root'.requests = Sum("requests")'
    BY <1>3, <1>5, <1>7 DEF RootMatchesDevices
  <2>3. root'.requestsEstimation = Sum("requestsEstimation")'
    BY <1>3, <1>5, <1>7 DEF RootMatchesDevices
  <2>4. root'.estimation = Sum("estimation")' - Sum("month")'
    BY <1>3, <1>4, <1>6, <1>7 DEF RootMatchesDevices
  <2>5. QED  BY <2>1, <2>2, <2>3, <2>4 DEF RootMatchesDevices
<1>10. QED  BY <1>8, <1>9

\* At first nobody has costs.
LEMMA InitCostInv ==
  Init => CostInv
<1> SUFFICES ASSUME Init
             PROVE  CostInv
  OBVIOUS
<1>1. CostTypes
  BY DEF Init, CostTypes, NoCost
<1>2. RequestsOnce
  BY DEF Init, RequestsOnce, NoRequestsOf, NoCost
<1>3. ASSUME NEW f \in DOMAIN NoCost
      PROVE  Sum(f) = 0
  <2> DEFINE g == [d \in Ids |-> children[d][f]]
  <2>1. \A d \in Ids : g[d] = 0
    BY <1>3 DEF Init, NoCost
  <2>2. Sum(f) = SumFunctionOnSet(g, Ids)
    BY DEF Sum, SumFunction
  <2> HIDE DEF g
  <2>3. SumFunctionOnSet(g, Ids) = SumFunctionOnSet(g, {})
    <3>1. {} \in SUBSET Ids /\ \A d \in Ids : g[d] \in Int
      BY <2>1
    <3>2. QED  BY <2>1, <3>1, IdsAssumption, SumOfSome
  <2>4. QED  BY <2>2, <2>3, SumEmpty
<1>4. RootMatchesDevices
  BY <1>3 DEF Init, NoCost, RootMatchesDevices
<1>5. QED  BY <1>1, <1>2, <1>4 DEF CostInv

\* A step without costs keeps them, if its page is of devices that are
\* listed, and have no requests yet.
LEMMA NoCostsStep ==
  ASSUME CostInv, UNCHANGED <<children, root>>, page' \subseteq Ids,
         \A d \in Ids : listed'[d] = 0 => listed[d] = 0,
         phase' \in {"current", "predict", "requests"} =>
           \A d \in page' : NoRequestsOf(d) /\ listed'[d] = 1
  PROVE  CostInv'
<1>1. CostTypes'
  BY DEF CostInv, CostTypes
<1>2. RequestsOnce'
  BY DEF CostInv, RequestsOnce, NoRequestsOf
<1>3. \A f : Sum(f)' = Sum(f)
  BY DEF Sum
<1>4. RootMatchesDevices'
  BY <1>3 DEF CostInv, RootMatchesDevices
<1>5. QED  BY <1>1, <1>2, <1>4 DEF CostInv

\* The devices of a page were not listed before: they have no requests yet.
LEMMA ListCosts ==
  ASSUME IInv, CostInv, List
  PROVE  CostInv'
<1>1. owned \subseteq Ids /\ after \in Nat /\ listed \in [Ids -> 0..1]
  BY DEF IInv, PagingTypes
<1>2. \A d \in NextPage : d \in Ids /\ d < after
  BY <1>1, NextPageType DEF Below
<1>3. \A d \in NextPage : listed[d] = 0
  <2> SUFFICES ASSUME NEW d \in NextPage, listed[d] = 1
               PROVE  FALSE
    BY <1>1, <1>2
  <2>1. after <= d /\ d \in Nat
    BY <1>2, IdsAssumption DEF IInv, PagingInv
  <2>2. QED  BY <1>1, <1>2, <2>1
<1>4. page' = NextPage /\ UNCHANGED <<children, root>>
  BY DEF List, Take
<1>5. /\ \A d \in Ids : listed'[d] = 0 => listed[d] = 0
      /\ \A d \in NextPage : listed'[d] = 1
  BY <1>1, <1>2, <1>3 DEF List, Take
<1>6. QED
  BY <1>2, <1>3, <1>4, <1>5, NoCostsStep DEF CostInv, RequestsOnce

\* NoCost with two of its fields set.
LEMMA TwoFields ==
  ASSUME NEW a \in Int, NEW b \in Int
  PROVE  /\ [NoCost EXCEPT !.month = a, !.estimation = b] \in [DOMAIN NoCost -> Int]
         /\ [NoCost EXCEPT !.requests = a, !.requestsEstimation = b]
              \in [DOMAIN NoCost -> Int]
<1>1. NoCost \in [DOMAIN NoCost -> Int]
  BY DEF NoCost
<1>2. \A c \in [DOMAIN NoCost -> Int], f \in DOMAIN NoCost :
        [c EXCEPT ![f] = a] \in [DOMAIN NoCost -> Int]
      /\ [c EXCEPT ![f] = b] \in [DOMAIN NoCost -> Int]
  OBVIOUS
<1>3. {"month", "estimation", "requests", "requestsEstimation"} = DOMAIN NoCost
  BY DEF NoCost
<1>4. /\ [NoCost EXCEPT !.month = a] \in [DOMAIN NoCost -> Int]
      /\ [NoCost EXCEPT !.requests = a] \in [DOMAIN NoCost -> Int]
  BY <1>1, <1>2, <1>3
<1>5. /\ [[NoCost EXCEPT !.month = a] EXCEPT !.estimation = b] \in [DOMAIN NoCost -> Int]
      /\ [[NoCost EXCEPT !.requests = a] EXCEPT !.requestsEstimation = b]
           \in [DOMAIN NoCost -> Int]
  BY <1>2, <1>3, <1>4
<1>6. QED  BY <1>5

\* Costs of the sizes have no requests.
LEMMA QuerySizeStep ==
  ASSUME CostInv, QueryCurrent \/ QueryPrediction
  PROVE  CostInv'
<1>1. /\ page' = page /\ listed' = listed /\ page \subseteq Ids
      /\ phase \in {"current", "predict"} /\ phase' \in {"predict", "requests"}
  BY DEF QueryCurrent, QueryPrediction, Goto, CostInv, CostTypes
<1>2. \E answered \in SUBSET page,
         childCost \in [page -> [DOMAIN NoCost -> Int]],
         rootCost \in [page -> [DOMAIN NoCost -> Int]] :
        /\ Insert(answered, childCost, rootCost)
        /\ \A d \in page :
             /\ childCost[d].month = rootCost[d].month
             /\ childCost[d].estimation = rootCost[d].estimation + childCost[d].month
             /\ childCost[d].requests = 0 /\ rootCost[d].requests = 0
             /\ childCost[d].requestsEstimation = 0
             /\ rootCost[d].requestsEstimation = 0
  <2>1. CASE QueryCurrent
    <3> DEFINE future(d) == (Size[d].average \div 2) * Remaining
               cost == [d \in page |-> [NoCost EXCEPT !.estimation =
                         IF args.skipEstimation THEN 0 ELSE future(d)]]
    <3>1. \A d \in page : future(d) \in Int
      BY <1>1, SizeAssumption, DurationAssumption
    <3>2. cost \in [page -> [DOMAIN NoCost -> Int]]
      BY <3>1 DEF NoCost
    <3>3. \A d \in page :
             /\ cost[d].month = 0 /\ cost[d].estimation \in Int
             /\ cost[d].requests = 0 /\ cost[d].requestsEstimation = 0
      BY <3>1 DEF NoCost
    <3>4. PICK answered \in SUBSET page : Insert(answered, cost, cost)
      BY <2>1 DEF QueryCurrent
    <3> HIDE DEF cost
    <3>5. \A d \in page : cost[d].estimation = cost[d].estimation + cost[d].month
      BY <3>3
    <3>6. QED  BY <3>2, <3>3, <3>4, <3>5
  <2>2. CASE QueryPrediction
    <3> DEFINE past(d) == Size[d].predicted * Passed
               childCost == [d \in page |->
                 [NoCost EXCEPT !.month = past(d), !.estimation = past(d)]]
               rootCost == [d \in page |-> [NoCost EXCEPT !.month = past(d)]]
    <3>1. \A d \in page : past(d) \in Int
      BY <1>1, SizeAssumption, DurationAssumption
    <3> HIDE DEF past
    <3>2. /\ childCost \in [page -> [DOMAIN NoCost -> Int]]
          /\ rootCost \in [page -> [DOMAIN NoCost -> Int]]
      <4>1. childCost \in [page -> [DOMAIN NoCost -> Int]]
        BY <3>1, TwoFields
      <4>2. rootCost \in [page -> [DOMAIN NoCost -> Int]]
        BY <3>1 DEF NoCost
      <4>3. QED  BY <4>1, <4>2
    <3>3. \A d \in page :
            /\ childCost[d].month = past(d) /\ rootCost[d].month = past(d)
            /\ childCost[d].estimation = past(d) /\ rootCost[d].estimation = 0
            /\ childCost[d].requests = 0 /\ rootCost[d].requests = 0
            /\ childCost[d].requestsEstimation = 0
            /\ rootCost[d].requestsEstimation = 0
      BY DEF NoCost
    <3>4. PICK answered \in SUBSET page : Insert(answered, childCost, rootCost)
      BY <2>2 DEF QueryPrediction, past
    <3> HIDE DEF childCost, rootCost
    <3>5. \A d \in page :
            childCost[d].estimation = rootCost[d].estimation + childCost[d].month
      BY <3>1, <3>3
    <3>6. QED  BY <3>2, <3>3, <3>4, <3>5
  <2>3. QED  BY <2>1, <2>2
<1>3. PICK answered \in SUBSET page,
           childCost \in [page -> [DOMAIN NoCost -> Int]],
           rootCost \in [page -> [DOMAIN NoCost -> Int]] :
        /\ Insert(answered, childCost, rootCost)
        /\ \A d \in page :
             /\ childCost[d].month = rootCost[d].month
             /\ childCost[d].estimation = rootCost[d].estimation + childCost[d].month
             /\ childCost[d].requests = 0 /\ rootCost[d].requests = 0
             /\ childCost[d].requestsEstimation = 0
             /\ rootCost[d].requestsEstimation = 0
  BY <1>2
<1>4. CostTypes' /\ RootMatchesDevices'
  BY <1>1, <1>3, InsertStep DEF CostInv
<1>5. ASSUME NEW d \in Ids, NoRequestsOf(d)
      PROVE  NoRequestsOf(d)'
  BY <1>3, <1>5 DEF Insert, NoRequestsOf, NoCost
<1>6. RequestsOnce'
  BY <1>1, <1>5 DEF CostInv, RequestsOnce
<1>7. QED  BY <1>4, <1>6 DEF CostInv

\* The requests of the page's devices are told once.
LEMMA QueryRequestsStep ==
  ASSUME CostInv, QueryRequests
  PROVE  CostInv'
<1> DEFINE told(d) == Requests[d] - children[d].requests
           toldEstimation(d) ==
             IF args.skipEstimation THEN 0
             ELSE Requests[d] * Multiplier - children[d].requestsEstimation
           estimation(d) ==
             IF args.skipEstimation THEN 0 ELSE Requests[d] * Multiplier
           childCost == [d \in page |->
             [NoCost EXCEPT !.requests = told(d),
                            !.requestsEstimation = toldEstimation(d)]]
           rootCost == [d \in page |->
             [NoCost EXCEPT !.requests = Requests[d],
                            !.requestsEstimation = estimation(d)]]
<1>1. /\ page' = page /\ listed' = listed /\ page \subseteq Ids
      /\ phase = "requests" /\ phase' = "loop"
      /\ \A d \in page : listed[d] = 1
  BY DEF QueryRequests, Goto, CostInv, CostTypes, RequestsOnce
<1>2. PICK answered \in SUBSET page : Insert(answered, childCost, rootCost)
  BY DEF QueryRequests
<1>3. \A d \in page : /\ Requests[d] \in Int /\ told(d) = Requests[d]
                      /\ estimation(d) \in Int /\ toldEstimation(d) = estimation(d)
  <2> SUFFICES ASSUME NEW d \in page
               PROVE  /\ Requests[d] \in Int /\ told(d) = Requests[d]
                      /\ estimation(d) \in Int /\ toldEstimation(d) = estimation(d)
    OBVIOUS
  <2>1. children[d].requests = 0 /\ children[d].requestsEstimation = 0
    BY <1>1 DEF CostInv, RequestsOnce, NoRequestsOf
  <2>2. Requests[d] \in Int /\ Requests[d] * Multiplier \in Int
    BY <1>1, RequestsAssumption, DurationAssumption
  <2>3. QED  BY <2>1, <2>2
<1> HIDE DEF told, toldEstimation, estimation
<1>4. /\ childCost \in [page -> [DOMAIN NoCost -> Int]]
      /\ rootCost \in [page -> [DOMAIN NoCost -> Int]]
  BY <1>3, TwoFields
<1>5. \A d \in page :
        /\ childCost[d].month = 0 /\ rootCost[d].month = 0
        /\ childCost[d].estimation = 0 /\ rootCost[d].estimation = 0
        /\ childCost[d].requests = rootCost[d].requests
        /\ childCost[d].requestsEstimation = rootCost[d].requestsEstimation
  BY <1>3 DEF NoCost
<1> HIDE DEF childCost, rootCost
<1>6. ASSUME NEW d \in Ids, listed[d] = 0, NoRequestsOf(d)
      PROVE  NoRequestsOf(d)'
  <2>1. d \notin answered
    BY <1>1, <1>6
  <2>2. children'[d] = children[d]
    BY <1>2, <2>1 DEF Insert
  <2>3. QED  BY <1>6, <2>2 DEF NoRequestsOf
<1>7. CostTypes' /\ RootMatchesDevices'
  BY <1>1, <1>2, <1>4, <1>5, InsertStep DEF CostInv
<1>8. RequestsOnce'
  BY <1>1, <1>6 DEF CostInv, RequestsOnce
<1>9. QED  BY <1>7, <1>8 DEF CostInv

\* Every step keeps the costs' invariant.
LEMMA CostStep ==
  IInv /\ CostInv /\ [Next]_vars => CostInv'
<1> SUFFICES ASSUME IInv, CostInv, [Next]_vars
             PROVE  CostInv'
  OBVIOUS
<1> USE DEF Goto, env
<1>1. page \subseteq Ids
  BY DEF CostInv, CostTypes
<1>2. CASE CreateDevice \/ DeleteDevice
  BY <1>1, <1>2, NoCostsStep
  DEF CreateDevice, DeleteDevice, Change, CostInv, RequestsOnce
<1>3. CASE List
  BY <1>3, ListCosts
<1>4. CASE QueryCurrent \/ QueryPrediction
  BY <1>4, QuerySizeStep
<1>5. CASE QueryRequests
  BY <1>5, QueryRequestsStep
<1>6. CASE Reject \/ Accept \/ Continue \/ Stop \/ ListNothing \/ Fail
  <2>1. /\ UNCHANGED <<children, root, page, listed>>
        /\ phase' \in {"failed", "loop", "list", "done", "partial"}
    BY <1>6 DEF Reject, Accept, Continue, Stop, ListNothing, Fail
  <2>2. QED  BY <1>1, <2>1, NoCostsStep
<1>7. CASE UNCHANGED vars
  <2>1. UNCHANGED <<children, root, page, listed, phase>>
    BY <1>7 DEF vars
  <2>2. QED  BY <1>1, <2>1, NoCostsStep DEF CostInv, RequestsOnce
<1>8. QED
  BY <1>2, <1>3, <1>4, <1>5, <1>6, <1>7 DEF Next, GetDevicesTree

\* After every query the root's month and requests are the sums of the
\* devices', and its storage estimation lacks the devices' months, for any
\* devices, sizes, requests, hours and answers.
THEOREM RootMatches ==
  Spec => []RootMatchesDevices
<1>1. CostInv => RootMatchesDevices
  BY DEF CostInv
<1>2. QED
  BY <1>1, InitInv, InitCostInv, PagingStep, CostStep, PTL DEF Spec
=============================================================================
