----------------------------- MODULE DevicesTree -----------------------------
(***************************************************************************)
(* Controller.GetDevicesTree: page through the devices a user owns, and    *)
(* for each page query the sizes of their tables and their requests, while *)
(* devices come and go.                                                    *)
(*                                                                         *)
(* The permissions service answers with the PageLimit greatest ids below   *)
(* `after`, in descending order.  Each device has one table; any series    *)
(* may be missing from any answer.  Hours and prices are small naturals.   *)
(***************************************************************************)
EXTENDS Integers, FiniteSets, FiniteSetsExt

CONSTANTS
  Ids,         \* device ids, ordered
  PageLimit,   \* limit: 5000 in the code
  MaxChanges,  \* bound on the devices created or deleted during the call
  Size,        \* size of each device's table: average and prediction
  Requests,    \* requests of each device
  Passed,      \* durationPassed in hours
  Remaining,   \* durationRemaining in hours
  Multiplier   \* what extrapolates requests to the month

ASSUME IdsAssumption == Ids \subseteq Nat /\ IsFiniteSet(Ids) /\ Ids # {}
ASSUME PageLimitAssumption == PageLimit \in Nat \ {0}
ASSUME MaxChangesAssumption == MaxChanges \in Nat
ASSUME SizeAssumption ==
  Size \in [Ids -> [average : Nat, predicted : Nat]]
ASSUME RequestsAssumption == Requests \in [Ids -> Nat]
ASSUME DurationAssumption ==
  Passed \in Nat /\ Remaining \in Int /\ Multiplier \in Nat

VARIABLES
  owned,           \* the devices the service lists, and
  changes,         \* how often they have changed
  args,            \* start # nil, end # nil, skipEstimation
  phase,           \* the statement that comes next
  limit, found,    \* locals of the loop
  after,           \* the id the next page comes after
  page,            \* deviceIds: the devices of the page
  children,        \* result.Children, by device
  root,            \* result's own costs
  existed,         \* history: the devices owned all along since the call
  listed,          \* history: the pages each device was in, counted to two
  measured         \* history: the devices whose size in this month is known

env == <<owned, changes, existed>>

vars == <<env, args, phase, limit, found, after, page, children, root, listed,
          measured>>

NoCost == [month |-> 0, estimation |-> 0, requests |-> 0,
           requestsEstimation |-> 0]

Start == 1 + Max(Ids)

TypeOK ==
  /\ owned \subseteq Ids /\ existed \subseteq owned
  /\ changes \in 0..MaxChanges
  /\ phase \in {"call", "list", "current", "predict", "requests", "loop",
                "done", "partial", "failed"}
  /\ limit \in {0, PageLimit}
  /\ found \in 0..PageLimit /\ Cardinality(page) <= PageLimit
  /\ page \subseteq Ids
  /\ after \in Ids \cup {0, Start}
  /\ children \in [Ids -> [DOMAIN NoCost -> Int]]
  /\ root \in [DOMAIN NoCost -> Int]

Init ==
  /\ owned \in SUBSET Ids
  /\ existed = owned
  /\ changes = 0
  /\ args \in [start : BOOLEAN, end : BOOLEAN, skipEstimation : BOOLEAN]
  /\ phase = "call"
  /\ limit = 0 /\ found = 0
  /\ after = Start
  /\ page = {}
  /\ children = [d \in Ids |-> NoCost]
  /\ root = NoCost
  /\ listed = [d \in Ids |-> 0]
  /\ measured = {}

-----------------------------------------------------------------------------
(* Other users of the platform                                             *)

Change ==
  /\ changes < MaxChanges
  /\ changes' = changes + 1
  /\ UNCHANGED <<args, phase, limit, found, after, page, children, root,
                 listed, measured>>

CreateDevice ==
  /\ \E d \in Ids \ owned : owned' = owned \cup {d}
  /\ UNCHANGED existed
  /\ Change

DeleteDevice ==
  /\ \E d \in owned : owned' = owned \ {d} /\ existed' = existed \ {d}
  /\ Change

-----------------------------------------------------------------------------
(* The call                                                                *)

Goto(from, to) == phase = from /\ phase' = to

BadRange == args.start # args.end \/ (args.start /\ ~args.skipEstimation)

Reject ==
  /\ BadRange
  /\ Goto("call", "failed")
  /\ UNCHANGED <<env, args, limit, found, after, page, children, root, listed,
                 measured>>

Accept ==
  /\ ~BadRange
  /\ Goto("call", "loop")
  /\ UNCHANGED <<env, args, limit, found, after, page, children, root, listed,
                 measured>>

\* for found == limit; the query of the loop's body asks for PageLimit.
Continue ==
  /\ Goto("loop", "list")
  /\ found = limit
  /\ limit' = PageLimit
  /\ UNCHANGED <<env, args, found, after, page, children, root, listed,
                 measured>>

Stop ==
  /\ Goto("loop", "done")
  /\ found # limit
  /\ UNCHANGED <<env, args, limit, found, after, page, children, root, listed,
                 measured>>

Below(id) == {d \in owned : d < id}

\* The first PageLimit of the devices after `after`.
NextPage ==
  {d \in Below(after) : Cardinality({e \in Below(after) : e > d}) < PageLimit}

\* The body's locals for a page p.  The next page comes after its last id,
\* which is empty if the page is.
Take(p) ==
  /\ page' = p
  /\ found' = Cardinality(p)
  /\ listed' = [d \in Ids |-> IF d \in p /\ listed[d] < 2 THEN listed[d] + 1
                                                      ELSE listed[d]]
  /\ after' = IF p = {} THEN 0 ELSE Min(p)
  /\ UNCHANGED <<env, args, limit, children, root, measured>>

\* Bug: After is not set, so that every page is the first.
ListFromStart ==
  /\ Goto("list", "current")
  /\ Take({d \in owned : Cardinality({e \in owned : e > d}) < PageLimit})

\* Bug: pages are found by an offset.
ListByOffset ==
  LET offset == MapThenSumSet(LAMBDA d : listed[d], Ids)
      rank(d) == Cardinality({e \in owned : e > d})
  IN /\ Goto("list", "current")
     /\ Take({d \in owned : rank(d) \in offset..(offset + PageLimit - 1)})

List ==
  /\ Goto("list", "current")
  /\ Take(NextPage)

\* res == nil: the result so far is returned, without an error.
ListNothing ==
  /\ Goto("list", "partial")
  /\ UNCHANGED <<env, args, limit, found, after, page, children, root, listed,
                 measured>>

\* A query fails, or its answer has an unexpected form.
Fail ==
  /\ phase \in {"list", "current", "predict", "requests"}
  /\ phase' = "failed"
  /\ UNCHANGED <<env, args, limit, found, after, page, children, root, listed,
                 measured>>

\* insertWithQuery: costs of the answered devices are added to their
\* children, and to the root.
Insert(answered, childCost, rootCost) ==
  LET add(a, b) == [f \in DOMAIN NoCost |-> a[f] + b[f]]
      sum(f) == SumFunction([d \in answered |-> rootCost[d][f]])
  IN /\ children' = [d \in Ids |-> IF d \in answered
                                   THEN add(children[d], childCost[d])
                                   ELSE children[d]]
     /\ root' = [f \in DOMAIN NoCost |-> root[f] + sum(f)]

\* The block "Costs in current month" adds the cost of the days to come to
\* the estimation: half of the average size, since tableSizeByteMap is
\* still empty.
QueryCurrent ==
  LET future(d) == (Size[d].average \div 2) * Remaining
      cost == [d \in page |-> [NoCost EXCEPT !.estimation =
                IF args.skipEstimation THEN 0 ELSE future(d)]]
  IN /\ Goto("current", IF args.skipEstimation THEN "requests" ELSE "predict")
     /\ \E answered \in SUBSET page :
          /\ Insert(answered, cost, cost)
          /\ measured' = measured \cup answered
     /\ UNCHANGED <<env, args, limit, found, after, page, listed>>

\* Bug: the cost is added to the children only.
QueryPredictionChildOnly ==
  LET past(d) == Size[d].predicted * Passed
      cost == [d \in page |->
                [NoCost EXCEPT !.month = past(d), !.estimation = past(d)]]
  IN /\ Goto("predict", "requests")
     /\ \E answered \in SUBSET page :
          Insert(answered, cost, [d \in page |-> NoCost])
     /\ UNCHANGED <<env, args, limit, found, after, page, listed, measured>>

\* The block "Estimations" adds the predicted size's cost for the days
\* passed to the month, and to the estimation of the child only.
QueryPrediction ==
  LET past(d) == Size[d].predicted * Passed
      childCost == [d \in page |->
                     [NoCost EXCEPT !.month = past(d), !.estimation = past(d)]]
      rootCost == [d \in page |-> [NoCost EXCEPT !.month = past(d)]]
  IN /\ Goto("predict", "requests")
     /\ \E answered \in SUBSET page : Insert(answered, childCost, rootCost)
     /\ UNCHANGED <<env, args, limit, found, after, page, listed, measured>>

\* The child's requests are assigned and the root's added to; a device is
\* in one answer of this query at most, so that the two are the same.
QueryRequests ==
  LET cost == [d \in page |->
        [NoCost EXCEPT !.requests = Requests[d] - children[d].requests,
                       !.requestsEstimation =
           IF args.skipEstimation THEN 0
           ELSE Requests[d] * Multiplier - children[d].requestsEstimation]]
      rootCost == [d \in page |->
        [NoCost EXCEPT !.requests = Requests[d],
                       !.requestsEstimation =
           IF args.skipEstimation THEN 0 ELSE Requests[d] * Multiplier]]
  IN /\ Goto("requests", "loop")
     /\ \E answered \in SUBSET page : Insert(answered, cost, rootCost)
     /\ UNCHANGED <<env, args, limit, found, after, page, listed, measured>>

GetDevicesTree ==
  \/ Reject
  \/ Accept
  \/ Continue
  \/ Stop
  \/ List
  \/ ListNothing
  \/ Fail
  \/ QueryCurrent
  \/ QueryPrediction
  \/ QueryRequests

Next == GetDevicesTree \/ CreateDevice \/ DeleteDevice

Spec == Init /\ [][Next]_vars

\* The services answer or fail.
FairSpec == Spec /\ WF_vars(GetDevicesTree)

-----------------------------------------------------------------------------
(* Properties                                                              *)

\* Whatever devices are created or deleted while the pages are read, one
\* that the user owned all along is in exactly one page once the call is
\* through, and no device is ever in two: none is billed twice or not at all.
EachDeviceOnce ==
  /\ \A d \in Ids : listed[d] <= 1
  /\ phase = "done" => \A d \in existed : listed[d] = 1

Sum(f) == SumFunction([d \in Ids |-> children[d][f]])

\* After every query the root's month, requests and extrapolated requests
\* are the sums of the devices'.  Its storage estimation is not: it lacks
\* what the devices' estimations share with their months.
RootMatchesDevices ==
  /\ root.month = Sum("month")
  /\ root.requests = Sum("requests")
  /\ root.requestsEstimation = Sum("requestsEstimation")
  /\ root.estimation = Sum("estimation") - Sum("month")

\* The call comes to an end although devices are created and deleted.
Terminates == <>(phase \in {"done", "partial", "failed"})

\* "Costs in current month": a device whose size the query under that
\* comment has told has a cost in its month.
CurrentMonthHasCosts ==
  phase = "done" =>
    \A d \in measured : Size[d].average > 0 => children[d].month > 0
=============================================================================
