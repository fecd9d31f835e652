----------------------------- MODULE QueryCpuRam -----------------------------
(***************************************************************************)
(* Controller.queryCpuRam: a month's cost, and the search for the sample's *)
(* prediction that its estimation is made with.                            *)
(*                                                                         *)
(* Predictions are sorted and searched by the fingerprints of their        *)
(* series, unsigned words (of 64 bits in the code), which may collide.     *)
(* The comparator returns the difference of two of them as a signed word,  *)
(* so that it is no order of all of them.                                  *)
(***************************************************************************)
EXTENDS Integers, Sequences, SequencesExt

CONSTANTS
  Words,           \* the number of unsigned words: 2^64 in the code
  MaxPredictions,  \* bound on the number of predictions; with less than
                   \* twelve, slices.SortFunc sorts by insertion
  Price,           \* pricingModel.CPU or .RAM
  Average,         \* the sample's average in the window
  Passed,          \* durationPassed.Hours()
  Remaining,       \* durationRemaining.Hours()
  NoStat           \* nothing is computed yet

VARIABLES
  predictions,  \* estimationValues as Prometheus sent them
  sought,       \* the sample whose prediction is searched for
  stat          \* what is made of it

vars == <<predictions, sought, stat>>

Fingerprints == 0..Words - 1

\* Every prediction is of a series of its own, which its value tells apart.
Prediction(series, fingerprint) ==
  [series |-> series, fingerprint |-> fingerprint, value |-> series]

-----------------------------------------------------------------------------
(* Sorting and searching                                                   *)

\* The difference of two unsigned words is one itself.
Minus(x, y) == IF x >= y THEN x - y ELSE x - y + Words

\* int(x) of an unsigned word
ToInt(x) == IF 2 * x < Words THEN x ELSE x - Words

Compare(a, b) == ToInt(Minus(a.fingerprint, b.fingerprint))

\* x moves to the left as long as it is less than its neighbour.
InsertSorted(sorted, x) ==
  LET place == CHOOSE n \in 0..Len(sorted) :
        /\ n = 0 \/ Compare(x, sorted[n]) >= 0
        /\ \A i \in n + 1..Len(sorted) : Compare(x, sorted[i]) < 0
  IN InsertAt(sorted, place + 1, x)

\* Bug: the predictions are searched as they came.
Unsorted(s) == s

Sorted(s) ==
  LET sorted[n \in 0..Len(s)] ==
        IF n = 0 THEN <<>> ELSE InsertSorted(sorted[n - 1], s[n])
  IN sorted[Len(s)]

\* The number of elements the search leaves to the left of its place.
SearchPlace(s, target) ==
  LET place[span \in (0..Len(s)) \X (0..Len(s))] ==
        LET i == span[1]
            j == span[2]
            half == (i + j) \div 2
        IN IF i >= j THEN i
           ELSE IF Compare(s[half + 1], target) < 0 THEN place[<<half + 1, j>>]
           ELSE place[<<i, half>>]
  IN place[<<0, Len(s)>>]

\* Bug: what is at the place is taken, whether or not it was found there.
BinarySearchUnchecked(s, target) ==
  LET place == SearchPlace(s, target)
  IN IF place < Len(s) THEN {s[place + 1]} ELSE {}

\* The elements found: none or one.
BinarySearch(s, target) ==
  LET place == SearchPlace(s, target)
  IN IF place < Len(s) /\ Compare(s[place + 1], target) = 0
     THEN {s[place + 1]} ELSE {}

-----------------------------------------------------------------------------
(* The statistic                                                           *)

Month == Price * Average * Passed

Estimation(found) ==
  IF found = {} THEN Month
  ELSE Month + Price * (CHOOSE p \in found : TRUE).value * Remaining

-----------------------------------------------------------------------------
(* The specification                                                       *)

Init ==
  /\ predictions = <<>>
  /\ sought = NoStat
  /\ stat = NoStat

\* One more prediction arrives.
Predict ==
  /\ stat = NoStat
  /\ Len(predictions) < MaxPredictions
  /\ \E f \in Fingerprints :
       predictions' = Append(predictions, Prediction(Len(predictions) + 1, f))
  /\ UNCHANGED <<sought, stat>>

\* The sample is of a series with a prediction, or of one without (whose
\* fingerprint may be that of another).
Samples == ToSet(predictions) \cup {Prediction(0, f) : f \in Fingerprints}

Estimate ==
  /\ stat = NoStat
  /\ \E sample \in Samples :
       LET found == BinarySearch(Sorted(predictions), sample)
       IN /\ sought' = sample
          /\ stat' = [month |-> Month, estimation |-> Estimation(found)]
  /\ UNCHANGED predictions

\* The caller wants no estimation, and no prediction is asked for.
NoEstimate ==
  /\ stat = NoStat
  /\ predictions = <<>>
  /\ stat' = [month |-> Month, estimation |-> 0]
  /\ UNCHANGED <<predictions, sought>>

Next == Predict \/ Estimate \/ NoEstimate

Spec == Init /\ [][Next]_vars

-----------------------------------------------------------------------------
(* Properties                                                              *)

Estimated == sought # NoStat

\* The predictions of the sought series and of those that collide with it.
Candidates ==
  {p \in ToSet(predictions) : p.fingerprint = sought.fingerprint}

EstimationBy(p) == Month + Price * p.value * Remaining

Distance(p, q) ==
  IF p.fingerprint < q.fingerprint THEN q.fingerprint - p.fingerprint
                                   ELSE p.fingerprint - q.fingerprint

\* However badly the comparator orders the predictions, no estimation is
\* made with the prediction of a series of another fingerprint: one that is
\* not found leaves the estimation at the month's cost.
NoOthersPrediction ==
  Estimated =>
    stat.estimation \in {Month} \cup {EstimationBy(p) : p \in Candidates}

\* A prediction is found if all the fingerprints lie within half the range
\* of words, where the differences do not overflow; and of up to three
\* predictions each is found anyway, unless two of them are exactly half the
\* range apart.  Of four, one may be missed.
PredictionFound ==
  Estimated /\ Candidates # {} =>
    LET all == ToSet(predictions)
    IN \/ \A p, q \in all : 2 * Distance(p, q) < Words
       \/ Len(predictions) <= 3 /\ \A p, q \in all : 2 * Distance(p, q) # Words
       => stat.estimation \in {EstimationBy(p) : p \in Candidates}
=============================================================================
