------------------------------ MODULE PodStats ------------------------------
(***************************************************************************)
(* Controller.getStats: one goroutine per kind of cost queries Prometheus  *)
(* and merges its samples into one map, keyed by the concatenation of the  *)
(* names of namespace, pod and container.  The map is guarded by mux; the  *)
(* shared error superErr is written inside and outside of it.              *)
(*                                                                         *)
(* All queries of a call ask for the same namespace, which is left out.  A *)
(* cost stands for a month's cost together with its estimation: the flags  *)
(* of upsertPodStats treat the two alike.  A name is a sequence of         *)
(* letters, as long as a collision of concatenations needs it.             *)
(***************************************************************************)
EXTENDS Integers, Sequences

CONSTANTS
  Wanted,         \* the kinds the caller asks for
  QueryOutcomes,  \* what the wanted queries may answer: functions from Wanted
                  \* to sequences of samples, or to QueryError
  QueryError,     \* the query failed or its answer is no vector
  NoOne,          \* mux is free
  Nil             \* a word of superErr that was never written

Kinds == {"cpu", "ram", "storage"}

ASSUME WantedAssumption == Wanted \subseteq Kinds
ASSUME NilAssumption == Nil \notin Wanted /\ NoOne \notin Wanted
ASSUME QueryOutcomesAssumption ==
  \A o \in QueryOutcomes : \A k \in Wanted : o[k] # QueryError =>
    Len(o[k]) \in Nat /\ \A i \in 1..Len(o[k]) : o[k][i].cost \in Nat

VARIABLES
  outcome,    \* what each query answers
  pc,         \* where each goroutine is
  next,       \* the sample it merges next
  entry,      \* its entry and ok, as m[key] gave them
  mux,        \* the goroutine that locked mux, or NoOne
  resultMap,
  superErr,   \* an interface value: its type word and its data word
  result      \* what getStats returned

vars == <<outcome, pc, next, entry, mux, resultMap, superErr, result>>

NoCost == [k \in Kinds |-> 0]

\* The map has no such key, or this entry.
NoEntry == [ok |-> FALSE]
Found(e) == [ok |-> TRUE, entry |-> e]

\* getStats has not returned, or it returned an error, or these entries.
NoResult == [kind |-> "none"]
Failed == [kind |-> "failed"]
Entries(map) == [kind |-> "entries", entries |-> map]

Control == {"query", "queryErrType", "queryErrData", "lock", "merge", "put",
            "mergeErrType", "mergeErrData", "unlock", "done"}

\* The samples goroutine k merges: none after a failed query.
Samples(k) == IF outcome[k] = QueryError THEN <<>> ELSE outcome[k]

TypeOK ==
  /\ outcome \in QueryOutcomes
  /\ pc \in [Wanted -> Control]
  /\ \A k \in Wanted : next[k] \in 1..Len(Samples(k)) + 1
  /\ \A k \in Wanted : entry[k].ok => entry[k].entry.month \in [Kinds -> Nat]
  /\ mux \in Wanted \cup {NoOne}
  /\ \A key \in DOMAIN resultMap : resultMap[key].month \in [Kinds -> Nat]
  /\ superErr \in [type : Wanted \cup {Nil}, data : Wanted \cup {Nil}]

Init ==
  /\ outcome \in QueryOutcomes
  /\ pc = [k \in Wanted |-> "query"]
  /\ next = [k \in Wanted |-> 1]
  /\ entry = [k \in Wanted |-> NoEntry]
  /\ mux = NoOne
  /\ resultMap = <<>>
  /\ superErr = [type |-> Nil, data |-> Nil]
  /\ result = NoResult

-----------------------------------------------------------------------------
(* Samples, keys and entries                                               *)

\* A sample has the labels of its series; the join with kube_pod_labels
\* normally provides "pod", and only containers' series have "container".  A
\* sample without "namespace" is refused as one without "pod".
HasPod(s) == "pod" \in DOMAIN s.labels

Container(s) == IF "container" \in DOMAIN s.labels
                THEN s.labels["container"] ELSE <<>>

Key(s) == s.labels["pod"] \o Container(s)

Sample(k) == Samples(k)[next[k]]

\* A Go map after each entry of another one was assigned to it.
Overwritten(map, entries) ==
  [key \in DOMAIN map \cup DOMAIN entries |->
     IF key \in DOMAIN entries THEN entries[key] ELSE map[key]]

\* Bug: a sample finding an entry leaves the labels alone.
MergedWithoutLabels(e, s, k) ==
  IF e.ok
  THEN [labels |-> e.entry.labels,
        month  |-> [e.entry.month EXCEPT ![k] = s.cost]]
  ELSE [labels |-> s.labels, month |-> [NoCost EXCEPT ![k] = s.cost]]

\* The first sample of a key makes the entry; a later one sets the cost of
\* its kind and adds its labels.
Merged(e, s, k) ==
  IF e.ok
  THEN [labels |-> Overwritten(e.entry.labels, s.labels),
        month  |-> [e.entry.month EXCEPT ![k] = s.cost]]
  ELSE [labels |-> s.labels, month |-> [NoCost EXCEPT ![k] = s.cost]]

-----------------------------------------------------------------------------
(* The goroutine of kind k                                                 *)

Goto(k, from, to) ==
  /\ pc[k] = from
  /\ pc' = [pc EXCEPT ![k] = to]

Query(k) ==
  /\ Goto(k, "query", IF outcome[k] = QueryError THEN "queryErrType"
                                                 ELSE "lock")
  /\ UNCHANGED <<outcome, next, entry, mux, resultMap, superErr, result>>

\* superErr = err after the query, without the mutex: two words are written.
QueryErrType(k) ==
  /\ Goto(k, "queryErrType", "queryErrData")
  /\ superErr' = [superErr EXCEPT !.type = k]
  /\ UNCHANGED <<outcome, next, entry, mux, resultMap, result>>

QueryErrData(k) ==
  /\ Goto(k, "queryErrData", "lock")
  /\ superErr' = [superErr EXCEPT !.data = k]
  /\ UNCHANGED <<outcome, next, entry, mux, resultMap, result>>

\* Bug: the map is merged into without the mutex.
LockUnguarded(k) ==
  /\ Goto(k, "lock", "merge")
  /\ mux' = k
  /\ UNCHANGED <<outcome, next, entry, resultMap, superErr, result>>

Lock(k) ==
  /\ Goto(k, "lock", "merge")
  /\ mux = NoOne
  /\ mux' = k
  /\ UNCHANGED <<outcome, next, entry, resultMap, superErr, result>>

\* entry, ok := m[key]
LookUp(k) ==
  /\ Goto(k, "merge", "put")
  /\ next[k] <= Len(Samples(k))
  /\ HasPod(Sample(k))
  /\ entry' = [entry EXCEPT ![k] =
       IF Key(Sample(k)) \in DOMAIN resultMap
       THEN Found(resultMap[Key(Sample(k))]) ELSE NoEntry]
  /\ UNCHANGED <<outcome, next, mux, resultMap, superErr, result>>

\* m[key] = entry
Put(k) ==
  /\ Goto(k, "put", "merge")
  /\ resultMap' = Overwritten(resultMap,
       [key \in {Key(Sample(k))} |-> Merged(entry[k], Sample(k), k)])
  /\ next' = [next EXCEPT ![k] = @ + 1]
  /\ UNCHANGED <<outcome, entry, mux, superErr, result>>

\* Bug: the error path forgets the deferred Unlock.
LabelMissingKeepsMutex(k) ==
  /\ Goto(k, "merge", "done")
  /\ next[k] <= Len(Samples(k))
  /\ ~HasPod(Sample(k))
  /\ superErr' = [type |-> k, data |-> k]
  /\ UNCHANGED <<outcome, next, entry, mux, resultMap, result>>

\* upsertPodStats returns an error for a sample without its pod's name.
LabelMissing(k) ==
  /\ Goto(k, "merge", "mergeErrType")
  /\ next[k] <= Len(Samples(k))
  /\ ~HasPod(Sample(k))
  /\ UNCHANGED <<outcome, next, entry, mux, resultMap, superErr, result>>

\* superErr = err after the merging, with the mutex.
MergeErrType(k) ==
  /\ Goto(k, "mergeErrType", "mergeErrData")
  /\ superErr' = [superErr EXCEPT !.type = k]
  /\ UNCHANGED <<outcome, next, entry, mux, resultMap, result>>

MergeErrData(k) ==
  /\ Goto(k, "mergeErrData", "unlock")
  /\ superErr' = [superErr EXCEPT !.data = k]
  /\ UNCHANGED <<outcome, next, entry, mux, resultMap, result>>

AllMerged(k) ==
  /\ Goto(k, "merge", "unlock")
  /\ next[k] > Len(Samples(k))
  /\ UNCHANGED <<outcome, next, entry, mux, resultMap, superErr, result>>

\* The deferred Unlock and Done.
Unlock(k) ==
  /\ Goto(k, "unlock", "done")
  /\ mux' = NoOne
  /\ UNCHANGED <<outcome, next, entry, resultMap, superErr, result>>

-----------------------------------------------------------------------------
(* The caller                                                              *)

Returned == IF superErr.type # Nil THEN Failed ELSE Entries(resultMap)

\* Bug: the caller waits for one goroutine only.
ReturnEarly ==
  /\ result = NoResult
  /\ \E k \in Wanted : pc[k] = "done"
  /\ result' = Returned
  /\ UNCHANGED <<outcome, pc, next, entry, mux, resultMap, superErr>>

\* wg.Wait, then nil and the error if its type word is set, or the entries.
Return ==
  /\ result = NoResult
  /\ \A k \in Wanted : pc[k] = "done"
  /\ result' = Returned
  /\ UNCHANGED <<outcome, pc, next, entry, mux, resultMap, superErr>>

Goroutine(k) ==
  \/ Query(k)
  \/ QueryErrType(k)
  \/ QueryErrData(k)
  \/ Lock(k)
  \/ LookUp(k)
  \/ Put(k)
  \/ LabelMissing(k)
  \/ MergeErrType(k)
  \/ MergeErrData(k)
  \/ AllMerged(k)
  \/ Unlock(k)

Next == Return \/ \E k \in Wanted : Goroutine(k)

Spec == Init /\ [][Next]_vars

\* Every goroutine runs as long as it can, and Prometheus answers or fails.
FairSpec == Spec /\ WF_vars(Return) /\ \A k \in Wanted : WF_vars(Goroutine(k))

-----------------------------------------------------------------------------
(* Properties                                                              *)

SamplesWithKey(k, key) ==
  {i \in 1..Len(Samples(k)) : Key(Samples(k)[i]) = key}

\* The cost of kind k for a key is that of the key's last sample.
CostOf(k, key) ==
  LET found == SamplesWithKey(k, key)
      last == CHOOSE i \in found : \A j \in found : j <= i
  IN IF found = {} THEN 0 ELSE Samples(k)[last].cost

Succeeded == result.kind = "entries"

\* Whatever order the queries come back in and the goroutines get the mutex
\* in, the answer has one entry for each key of a sample, whose cost of each
\* wanted kind is that of the key's last sample of this kind: no goroutine
\* undoes what another one merged.
CostsMatchQueries ==
  Succeeded =>
    /\ DOMAIN result.entries =
         UNION {{Key(Samples(k)[i]) : i \in 1..Len(Samples(k))} : k \in Wanted}
    /\ \A key \in DOMAIN result.entries : \A k \in Kinds :
         result.entries[key].month[k] = IF k \in Wanted THEN CostOf(k, key) ELSE 0

\* Every label that a sample has can be found in the entry its cost went to,
\* with the value of some sample of the key: the trees group by these labels.
LabelsOfEverySample ==
  Succeeded =>
    \A k \in Wanted : \A i \in 1..Len(Samples(k)) :
      LET s == Samples(k)[i]
      IN \A l \in DOMAIN s.labels :
           /\ l \in DOMAIN result.entries[Key(s)].labels
           /\ \E j \in Wanted : \E n \in SamplesWithKey(j, Key(s)) :
                LET t == Samples(j)[n].labels
                IN l \in DOMAIN t /\ t[l] = result.entries[Key(s)].labels[l]

GoroutineFails(k) ==
  \/ outcome[k] = QueryError
  \/ \E i \in 1..Len(Samples(k)) : ~HasPod(Samples(k)[i])

\* The call fails exactly when a goroutine failed, although superErr is
\* written by several goroutines at once, some without the mutex; and both
\* words of the error, which may be two goroutines', are of failed ones.
ErrorSurvivesRace ==
  /\ result # NoResult =>
       (result = Failed <=> \E k \in Wanted : GoroutineFails(k))
  /\ result = Failed => GoroutineFails(superErr.type)
                          /\ GoroutineFails(superErr.data)

(* What the call promises its caller                                       *)

TaskOf(k) ==
  IF pc[k] # "done" THEN "running"
  ELSE IF GoroutineFails(k) THEN "failed" ELSE "ok"

CallerOf ==
  IF result = NoResult THEN "waiting"
  ELSE IF result = Failed THEN "failed" ELSE "ok"

Kind == INSTANCE ForkJoin WITH
  Tasks <- Wanted, MayCrash <- FALSE,
  task <- [k \in Wanted |-> TaskOf(k)], caller <- CallerOf

\* getStats returns when the goroutines it started have finished, and with
\* an error exactly if one of them failed: no path leaves mux locked, and no
\* error is lost to the race for superErr.
ImplementsForkJoin == Kind!Promise
=============================================================================
