---------------------------- MODULE ApiCallsTree ----------------------------
(***************************************************************************)
(* Controller.GetApiCallsTree: the requests a user's clients sent to the   *)
(* services, summed per client and service, one sample after the other.    *)
(*                                                                         *)
(* Names are split at "_": a consumer is a user's name followed by the     *)
(* name of a client, and either may have "_" in it.                        *)
(***************************************************************************)
EXTENDS Integers, Sequences, SequencesExt

CONSTANTS
  Username,    \* parts of the caller's name
  Consumers,   \* the consumers of all users
  Services,    \* the services they call
  Values,      \* the requests of one of them to one service
  Multipliers, \* what a call may extrapolate with, as fractions
  MaxSamples   \* bound on the number of samples

VARIABLES
  skipEstimation,
  multiplier,  \* (nextMonth - start) / (end - start)
  answer,      \* the samples so far, each with the names read off its labels
  tree         \* result

vars == <<skipEstimation, multiplier, answer, tree>>

-----------------------------------------------------------------------------
(* The query and its samples                                               *)

\* The name begins with the caller's followed by "_".
HasPrefix(name) ==
  Len(name) > Len(Username) /\ IsPrefix(Username, name)

TrimPrefix(name) == SubSeq(name, Len(Username) + 1, Len(name))

\* consumer=~"clientPrefix.*": one sample for each of them that called a
\* service.
Series == [consumer : {c \in Consumers : HasPrefix(c)}, service : Services]

\* The labels are read in any order, whatever they are called: one that has
\* the prefix names the client, and any other one names the service.
LabelsRead(series) ==
  LET both == {series.consumer, series.service}
      clients == {name \in both : HasPrefix(name)}
  IN [client  : {TrimPrefix(name) : name \in clients},
      service : IF both \subseteq clients THEN {<<>>} ELSE both \ clients]

-----------------------------------------------------------------------------
(* The tree                                                                *)

Node == [month |-> 0, estimation |-> 0, children |-> <<>>]

Child(node, name) ==
  IF name \in DOMAIN node.children THEN node.children[name] ELSE Node

WithChild(node, name, child) ==
  [node EXCEPT !.children =
     [n \in DOMAIN @ \cup {name} |-> IF n = name THEN child ELSE @[n]]]

\* Bug: the fraction is cut off (int64), not rounded.
EstimateCutOff(value) ==
  IF skipEstimation THEN 0 ELSE (value * multiplier.num) \div multiplier.den

\* math.Round of num / den, which is not negative: halves are rounded up.
Round(num, den) == (2 * num + den) \div (2 * den)

Estimate(value) ==
  IF skipEstimation THEN 0 ELSE Round(value * multiplier.num, multiplier.den)

CountedAtRoot(root, value) ==
  [root EXCEPT !.month = @ + value, !.estimation = @ + Estimate(value)]

\* Month is added to; EstimationMonth is emptied before.
Counted(node, value) ==
  [node EXCEPT !.month = @ + value, !.estimation = Estimate(value)]

\* Bug: the service's entry is made anew for each sample.
AddedToNew(root, names, value) ==
  LET client == Counted(Child(root, names.client), value)
      service == Counted(Node, value)
  IN WithChild(CountedAtRoot(root, value), names.client,
               WithChild(client, names.service, service))

Added(root, names, value) ==
  LET client == Counted(Child(root, names.client), value)
      service == Counted(Child(client, names.service), value)
  IN WithChild(CountedAtRoot(root, value), names.client,
               WithChild(client, names.service, service))

-----------------------------------------------------------------------------
(* The specification                                                       *)

Init ==
  /\ skipEstimation \in BOOLEAN
  /\ multiplier \in Multipliers
  /\ answer = <<>>
  /\ tree = Node

\* The loop's body, for the next sample.
AddSample ==
  /\ Len(answer) < MaxSamples
  /\ \E series \in Series \ {s.series : s \in ToSet(answer)}, value \in Values :
       \E names \in LabelsRead(series) :
         /\ answer' = Append(answer,
              [series |-> series, names |-> names, value |-> value])
         /\ tree' = Added(tree, names, value)
  /\ UNCHANGED <<skipEstimation, multiplier>>

Next == AddSample

Spec == Init /\ [][Next]_vars

-----------------------------------------------------------------------------
(* Properties                                                              *)

\* The requests that the samples at these places of the answer count.
ValuesAt(places) == SumFunction([i \in places |-> answer[i].value])

\* Each sample's estimate is rounded before it is added.
EstimatesAt(places) == SumFunction([i \in places |-> Estimate(answer[i].value)])

LastEstimate(places) == Estimate(answer[Max(places)].value)

OfClient(client) == {i \in DOMAIN answer : answer[i].names.client = client}
OfService(client, service) ==
  {i \in OfClient(client) : answer[i].names.service = service}

\* Samples are rounded one by one, so that the user's estimation is not what
\* his month extrapolates to; it misses it by half a request for each sample
\* at most, on either side.
RoundingStaysSmall ==
  LET missed == tree.estimation * multiplier.den - tree.month * multiplier.num
      bound == Len(answer) * multiplier.den
  IN ~skipEstimation => -bound <= 2 * missed /\ 2 * missed <= bound

\* In whatever order samples and labels are read, the root, every client and
\* every service count the requests of exactly their samples, so that the
\* sums agree on each level.  Only the root adds estimates up: the estimation
\* of a client is the last of its samples', and may be below its own month.
\* RoundingStaysSmall tells how far the root is from extrapolating the sum.
TreeMatchesAnswer ==
  /\ tree.month = ValuesAt(DOMAIN answer)
  /\ tree.estimation = EstimatesAt(DOMAIN answer)
  /\ RoundingStaysSmall
  /\ DOMAIN tree.children = {answer[i].names.client : i \in DOMAIN answer}
  /\ \A client \in DOMAIN tree.children :
       LET node == tree.children[client]
           places == OfClient(client)
       IN /\ node.month = ValuesAt(places)
          /\ node.estimation = LastEstimate(places)
          /\ DOMAIN node.children = {answer[i].names.service : i \in places}
          /\ \A service \in DOMAIN node.children :
               LET own == OfService(client, service)
               IN /\ node.children[service].month = ValuesAt(own)
                  /\ node.children[service].estimation = LastEstimate(own)
=============================================================================
