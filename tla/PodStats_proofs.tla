--------------------------- MODULE PodStats_proofs ---------------------------
(***************************************************************************)
(* Theorems of PodStats for any answers of the queries: IInv is inductive, *)
(* the safety properties follow from it, and so does each step's being one *)
(* of ForkJoin, or a stutter.                                              *)
(***************************************************************************)
EXTENDS PodStats, TLAPS

-----------------------------------------------------------------------------
(* The inductive invariant: what the proofs need beyond the properties     *)

\* mux is held by the goroutine that is between its Lock and its Unlock.
Critical == {"merge", "put", "mergeErrType", "mergeErrData", "unlock"}
MutexInv == \A k \in Wanted : pc[k] \in Critical => mux = k

\* How far a goroutine is tells how many of its samples are merged.
ProgressInv ==
  \A k \in Wanted :
    /\ pc[k] \in {"query", "queryErrType", "queryErrData", "lock"} => next[k] = 1
    /\ pc[k] = "put" => next[k] <= Len(Samples(k))
    /\ pc[k] \in {"unlock", "done"} /\ ~GoroutineFails(k) =>
         next[k] = Len(Samples(k)) + 1

\* What a goroutine looked up is still what the map has when it puts.
LookUpInv ==
  \A k \in Wanted : pc[k] = "put" =>
    /\ entry[k].ok <=> Key(Sample(k)) \in DOMAIN resultMap
    /\ entry[k].ok => entry[k].entry = resultMap[Key(Sample(k))]

\* The samples merged have a pod's name.
PodInv ==
  \A k \in Wanted :
    /\ \A i \in 1..next[k] - 1 : HasPod(Samples(k)[i])
    /\ pc[k] = "put" => HasPod(Sample(k))

\* The words of superErr are those of failed goroutines, and a goroutine that
\* failed has written them when it is done.
ErrorInv ==
  \A k \in Wanted :
    /\ superErr.type = k \/ superErr.data = k => GoroutineFails(k)
    /\ pc[k] \in {"queryErrType", "queryErrData", "mergeErrType", "mergeErrData"} =>
         GoroutineFails(k)
    /\ pc[k] \in {"queryErrData", "mergeErrData"} => superErr.type # Nil
    /\ outcome[k] = QueryError /\ pc[k] \in {"lock", "merge", "put", "unlock", "done"} =>
         superErr.type # Nil /\ superErr.data # Nil
    /\ GoroutineFails(k) /\ pc[k] \in {"unlock", "done"} =>
         superErr.type # Nil /\ superErr.data # Nil

\* c is what the first n of some samples leave as the cost of key.
CostIs(samples, key, n, c) ==
  \/ /\ \A i \in 1..n : Key(samples[i]) # key
     /\ c = 0
  \/ \E i \in 1..n :
       /\ Key(samples[i]) = key
       /\ c = samples[i].cost
       /\ \A j \in i + 1..n : Key(samples[j]) # key

\* The map has a key for the samples merged so far, and no other.
KeysInv ==
  /\ \A k \in Wanted : \A i \in 1..next[k] - 1 :
       Key(Samples(k)[i]) \in DOMAIN resultMap
  /\ \A key \in DOMAIN resultMap :
       \E k \in Wanted : \E i \in 1..next[k] - 1 : Key(Samples(k)[i]) = key

\* Its costs are those they leave.
MergedInv ==
  \A key \in DOMAIN resultMap :
    /\ \A k \in Wanted : CostIs(Samples(k), key, next[k] - 1, resultMap[key].month[k])
    /\ \A k \in Kinds \ Wanted : resultMap[key].month[k] = 0

\* The entry e has the label l as the sample s has it.
Agrees(s, e, l) ==
  /\ l \in DOMAIN s.labels
  /\ l \in DOMAIN e.labels
  /\ s.labels[l] = e.labels[l]

\* Its labels are those of the samples of the key.
LabelInv ==
  \A k \in Wanted : \A i \in 1..next[k] - 1 :
    \A l \in DOMAIN Samples(k)[i].labels :
      \E j \in Wanted : \E n \in 1..next[j] - 1 :
        /\ Key(Samples(j)[n]) = Key(Samples(k)[i])
        /\ Agrees(Samples(j)[n], resultMap[Key(Samples(k)[i])], l)

\* The caller returned what was there when every goroutine was done.
ResultInv ==
  \/ result = NoResult
  \/ (\A k \in Wanted : pc[k] = "done") /\ result = Returned

\* What TypeOK does not say: which variables are functions of the kinds.
Functional ==
  /\ next = [k \in Wanted |-> next[k]]
  /\ entry = [k \in Wanted |-> entry[k]]
  /\ \A k \in Wanted : entry[k].ok \in BOOLEAN

IInv ==
  /\ TypeOK
  /\ Functional
  /\ MutexInv
  /\ ProgressInv
  /\ LookUpInv
  /\ PodInv
  /\ ErrorInv
  /\ KeysInv
  /\ MergedInv
  /\ LabelInv
  /\ ResultInv

-----------------------------------------------------------------------------
(* The proofs                                                              *)

\* The samples of a kind are a finite sequence of natural costs.
LEMMA SamplesType ==
  ASSUME outcome \in QueryOutcomes, NEW k \in Wanted
  PROVE  /\ Len(Samples(k)) \in Nat
         /\ \A i \in 1..Len(Samples(k)) : Samples(k)[i].cost \in Nat
<1>1. CASE outcome[k] = QueryError
  <2>1. Samples(k) = <<>>  BY <1>1 DEF Samples
  <2>2. QED  BY <2>1
<1>2. CASE outcome[k] # QueryError
  BY <1>2, QueryOutcomesAssumption DEF Samples
<1>3. QED  BY <1>1, <1>2

\* What the queries answer does not change.
LEMMA Unchanged ==
  ASSUME [Next]_vars
  PROVE  /\ outcome' = outcome
         /\ \A k \in Wanted : /\ Samples(k)' = Samples(k)
                              /\ GoroutineFails(k)' <=> GoroutineFails(k)
<1>1. outcome' = outcome
  BY DEF Next, Goroutine, vars, Return, Query, QueryErrType, QueryErrData, Lock,
         LookUp, Put, LabelMissing, MergeErrType, MergeErrData, AllMerged, Unlock
<1>2. QED  BY <1>1 DEF Samples, GoroutineFails

\* What a goroutine's failure is.
LEMMA Failing ==
  ASSUME NEW k \in Wanted
  PROVE  /\ outcome[k] = QueryError => GoroutineFails(k)
         /\ \A i \in 1..Len(Samples(k)) : ~HasPod(Samples(k)[i]) => GoroutineFails(k)
         /\ GoroutineFails(k) /\ outcome[k] # QueryError =>
              \E i \in 1..Len(Samples(k)) : ~HasPod(Samples(k)[i])
BY DEF GoroutineFails

\* What Put makes of an entry: a record whose costs but that of its kind are
\* those it found, and whose labels are the sample's and those it found.
LEMMA MergedEntry ==
  ASSUME NEW e, NEW s, NEW k \in Kinds, s.cost \in Nat, e.ok \in BOOLEAN,
         e.ok => e.entry.month \in [Kinds -> Nat]
  PROVE  /\ Merged(e, s, k).month \in [Kinds -> Nat]
         /\ Merged(e, s, k).month[k] = s.cost
         /\ \A j \in Kinds \ {k} :
              Merged(e, s, k).month[j] = IF e.ok THEN e.entry.month[j] ELSE 0
         /\ \A l \in DOMAIN s.labels : /\ l \in DOMAIN Merged(e, s, k).labels
                                       /\ Merged(e, s, k).labels[l] = s.labels[l]
         /\ e.ok => \A l \in DOMAIN e.entry.labels \ DOMAIN s.labels :
              /\ l \in DOMAIN Merged(e, s, k).labels
              /\ Merged(e, s, k).labels[l] = e.entry.labels[l]
<1>1. CASE e.ok
  BY <1>1 DEF Merged, Overwritten
<1>2. CASE ~e.ok
  BY <1>2 DEF Merged, NoCost
<1>3. QED  BY <1>1, <1>2

\* What Put makes of the map.
LEMMA PutMap ==
  ASSUME NEW k \in Wanted, Put(k), NEW key, key = Key(Sample(k))
  PROVE  /\ DOMAIN resultMap' = DOMAIN resultMap \cup {key}
         /\ resultMap'[key] = Merged(entry[k], Sample(k), k)
         /\ \A other \in DOMAIN resultMap \ {key} : resultMap'[other] = resultMap[other]
BY DEF Put, Overwritten

\* Every step keeps the types.
LEMMA TypeStep ==
  ASSUME IInv, [Next]_vars
  PROVE  TypeOK'
<1> USE WantedAssumption, NilAssumption DEF IInv, TypeOK, Functional, Control
<1>0. \A k \in Wanted : Samples(k)' = Samples(k) /\ (GoroutineFails(k)' <=> GoroutineFails(k))
  BY Unchanged
<1>1. CASE Return  BY <1>0, <1>1 DEF Return
<1>2. CASE UNCHANGED vars  BY <1>0, <1>2 DEF vars
<1>3. ASSUME NEW k \in Wanted, Query(k)
      PROVE  TypeOK'
  BY <1>0, <1>3 DEF Query, Goto
<1>4. ASSUME NEW k \in Wanted, QueryErrType(k)
      PROVE  TypeOK'
  BY <1>0, <1>4 DEF QueryErrType, Goto
<1>5. ASSUME NEW k \in Wanted, QueryErrData(k)
      PROVE  TypeOK'
  BY <1>0, <1>5 DEF QueryErrData, Goto
<1>6. ASSUME NEW k \in Wanted, Lock(k)
      PROVE  TypeOK'
  BY <1>0, <1>6 DEF Lock, Goto
<1>7. ASSUME NEW k \in Wanted, LookUp(k)
      PROVE  TypeOK'
  <2>1. \A j \in Wanted : entry'[j].ok => entry'[j].entry.month \in [Kinds -> Nat]
    BY <1>7 DEF LookUp, Goto, NoEntry, Found
  <2>2. QED  BY <1>0, <1>7, <2>1 DEF LookUp, Goto
<1>8. ASSUME NEW k \in Wanted, Put(k)
      PROVE  TypeOK'
  <2>1. Len(Samples(k)) \in Nat /\ Sample(k).cost \in Nat /\ k \in Kinds
    BY <1>8, SamplesType DEF Put, Goto, ProgressInv, Sample
  <2>2. Merged(entry[k], Sample(k), k).month \in [Kinds -> Nat]
    BY <2>1, MergedEntry
  <2>3. \A key \in DOMAIN resultMap' : resultMap'[key].month \in [Kinds -> Nat]
    <3> DEFINE key == Key(Sample(k))
    <3>1. /\ DOMAIN resultMap' = DOMAIN resultMap \cup {key}
          /\ resultMap'[key] = Merged(entry[k], Sample(k), k)
          /\ \A other \in DOMAIN resultMap \ {key} : resultMap'[other] = resultMap[other]
      BY <1>8, PutMap
    <3> HIDE DEF key
    <3>2. QED  BY <2>2, <3>1
  <2>4. \A j \in Wanted : next'[j] \in 1..Len(Samples(j)) + 1
    BY <1>8, <2>1, SamplesType DEF Put, Goto, ProgressInv
  <2>5. QED  BY <1>0, <1>8, <2>3, <2>4 DEF Put, Goto
<1>9. ASSUME NEW k \in Wanted, LabelMissing(k)
      PROVE  TypeOK'
  BY <1>0, <1>9 DEF LabelMissing, Goto
<1>10. ASSUME NEW k \in Wanted, MergeErrType(k)
      PROVE  TypeOK'
  BY <1>0, <1>10 DEF MergeErrType, Goto
<1>11. ASSUME NEW k \in Wanted, MergeErrData(k)
      PROVE  TypeOK'
  BY <1>0, <1>11 DEF MergeErrData, Goto
<1>12. ASSUME NEW k \in Wanted, AllMerged(k)
      PROVE  TypeOK'
  BY <1>0, <1>12 DEF AllMerged, Goto
<1>13. ASSUME NEW k \in Wanted, Unlock(k)
      PROVE  TypeOK'
  BY <1>0, <1>13 DEF Unlock, Goto
<1>14. QED
  BY <1>1, <1>2, <1>3, <1>4, <1>5, <1>6, <1>7, <1>8, <1>9, <1>10, <1>11, <1>12, <1>13 DEF Next, Goroutine

\* Every step keeps the variables functions.
LEMMA FunctionalStep ==
  ASSUME IInv, [Next]_vars
  PROVE  Functional'
<1> USE WantedAssumption DEF IInv, TypeOK, Functional
<1>0. \A k \in Wanted : Samples(k)' = Samples(k) /\ (GoroutineFails(k)' <=> GoroutineFails(k))
  BY Unchanged
<1>1. CASE Return  BY <1>0, <1>1 DEF Return
<1>2. CASE UNCHANGED vars  BY <1>0, <1>2 DEF vars
<1>3. ASSUME NEW k \in Wanted, Query(k)
      PROVE  Functional'
  BY <1>0, <1>3 DEF Query, Goto
<1>4. ASSUME NEW k \in Wanted, QueryErrType(k)
      PROVE  Functional'
  BY <1>0, <1>4 DEF QueryErrType, Goto
<1>5. ASSUME NEW k \in Wanted, QueryErrData(k)
      PROVE  Functional'
  BY <1>0, <1>5 DEF QueryErrData, Goto
<1>6. ASSUME NEW k \in Wanted, Lock(k)
      PROVE  Functional'
  BY <1>0, <1>6 DEF Lock, Goto
<1>7. ASSUME NEW k \in Wanted, LookUp(k)
      PROVE  Functional'
  BY <1>0, <1>7 DEF LookUp, Goto, NoEntry, Found
<1>8. ASSUME NEW k \in Wanted, Put(k)
      PROVE  Functional'
  BY <1>0, <1>8 DEF Put, Goto
<1>9. ASSUME NEW k \in Wanted, LabelMissing(k)
      PROVE  Functional'
  BY <1>0, <1>9 DEF LabelMissing, Goto
<1>10. ASSUME NEW k \in Wanted, MergeErrType(k)
      PROVE  Functional'
  BY <1>0, <1>10 DEF MergeErrType, Goto
<1>11. ASSUME NEW k \in Wanted, MergeErrData(k)
      PROVE  Functional'
  BY <1>0, <1>11 DEF MergeErrData, Goto
<1>12. ASSUME NEW k \in Wanted, AllMerged(k)
      PROVE  Functional'
  BY <1>0, <1>12 DEF AllMerged, Goto
<1>13. ASSUME NEW k \in Wanted, Unlock(k)
      PROVE  Functional'
  BY <1>0, <1>13 DEF Unlock, Goto
<1>14. QED
  BY <1>1, <1>2, <1>3, <1>4, <1>5, <1>6, <1>7, <1>8, <1>9, <1>10, <1>11, <1>12, <1>13 DEF Next, Goroutine

\* Every step keeps the discipline of mux.
LEMMA MutexStep ==
  ASSUME IInv, [Next]_vars
  PROVE  MutexInv'
<1> USE NilAssumption DEF IInv, TypeOK, MutexInv, Critical, Control
<1>0. \A k \in Wanted : Samples(k)' = Samples(k) /\ (GoroutineFails(k)' <=> GoroutineFails(k))
  BY Unchanged
<1>1. CASE Return  BY <1>0, <1>1 DEF Return
<1>2. CASE UNCHANGED vars  BY <1>0, <1>2 DEF vars
<1>3. ASSUME NEW k \in Wanted, Query(k)
      PROVE  MutexInv'
  BY <1>0, <1>3 DEF Query, Goto
<1>4. ASSUME NEW k \in Wanted, QueryErrType(k)
      PROVE  MutexInv'
  BY <1>0, <1>4 DEF QueryErrType, Goto
<1>5. ASSUME NEW k \in Wanted, QueryErrData(k)
      PROVE  MutexInv'
  BY <1>0, <1>5 DEF QueryErrData, Goto
<1>6. ASSUME NEW k \in Wanted, Lock(k)
      PROVE  MutexInv'
  BY <1>0, <1>6 DEF Lock, Goto
<1>7. ASSUME NEW k \in Wanted, LookUp(k)
      PROVE  MutexInv'
  BY <1>0, <1>7 DEF LookUp, Goto
<1>8. ASSUME NEW k \in Wanted, Put(k)
      PROVE  MutexInv'
  BY <1>0, <1>8 DEF Put, Goto
<1>9. ASSUME NEW k \in Wanted, LabelMissing(k)
      PROVE  MutexInv'
  BY <1>0, <1>9 DEF LabelMissing, Goto
<1>10. ASSUME NEW k \in Wanted, MergeErrType(k)
      PROVE  MutexInv'
  BY <1>0, <1>10 DEF MergeErrType, Goto
<1>11. ASSUME NEW k \in Wanted, MergeErrData(k)
      PROVE  MutexInv'
  BY <1>0, <1>11 DEF MergeErrData, Goto
<1>12. ASSUME NEW k \in Wanted, AllMerged(k)
      PROVE  MutexInv'
  BY <1>0, <1>12 DEF AllMerged, Goto
<1>13. ASSUME NEW k \in Wanted, Unlock(k)
      PROVE  MutexInv'
  BY <1>0, <1>13 DEF Unlock, Goto
<1>14. QED
  BY <1>1, <1>2, <1>3, <1>4, <1>5, <1>6, <1>7, <1>8, <1>9, <1>10, <1>11, <1>12, <1>13 DEF Next, Goroutine

\* Every step keeps what the places of goroutines tell.
LEMMA ProgressStep ==
  ASSUME IInv, [Next]_vars
  PROVE  ProgressInv'
<1> USE SamplesType, NilAssumption DEF IInv, TypeOK, Functional, ProgressInv, Control
<1>0. \A k \in Wanted : Samples(k)' = Samples(k) /\ (GoroutineFails(k)' <=> GoroutineFails(k))
  BY Unchanged
<1>1. CASE Return  BY <1>0, <1>1 DEF Return
<1>2. CASE UNCHANGED vars  BY <1>0, <1>2 DEF vars
<1>3. ASSUME NEW k \in Wanted, Query(k)
      PROVE  ProgressInv'
  BY <1>0, <1>3 DEF Query, Goto
<1>4. ASSUME NEW k \in Wanted, QueryErrType(k)
      PROVE  ProgressInv'
  BY <1>0, <1>4 DEF QueryErrType, Goto
<1>5. ASSUME NEW k \in Wanted, QueryErrData(k)
      PROVE  ProgressInv'
  BY <1>0, <1>5 DEF QueryErrData, Goto
<1>6. ASSUME NEW k \in Wanted, Lock(k)
      PROVE  ProgressInv'
  BY <1>0, <1>6 DEF Lock, Goto
<1>7. ASSUME NEW k \in Wanted, LookUp(k)
      PROVE  ProgressInv'
  BY <1>0, <1>7 DEF LookUp, Goto
<1>8. ASSUME NEW k \in Wanted, Put(k)
      PROVE  ProgressInv'
  BY <1>0, <1>8 DEF Put, Goto
<1>9. ASSUME NEW k \in Wanted, LabelMissing(k)
      PROVE  ProgressInv'
  BY <1>0, <1>9 DEF LabelMissing, Goto
<1>10. ASSUME NEW k \in Wanted, MergeErrType(k)
      PROVE  ProgressInv'
  BY <1>0, <1>10 DEF MergeErrType, Goto
<1>11. ASSUME NEW k \in Wanted, MergeErrData(k)
      PROVE  ProgressInv'
  <2>1. GoroutineFails(k)
    BY <1>11 DEF MergeErrData, Goto, ErrorInv
  <2>2. QED  BY <1>0, <1>11, <2>1 DEF MergeErrData, Goto
<1>12. ASSUME NEW k \in Wanted, AllMerged(k)
      PROVE  ProgressInv'
  BY <1>0, <1>12 DEF AllMerged, Goto
<1>13. ASSUME NEW k \in Wanted, Unlock(k)
      PROVE  ProgressInv'
  BY <1>0, <1>13 DEF Unlock, Goto
<1>14. QED
  BY <1>1, <1>2, <1>3, <1>4, <1>5, <1>6, <1>7, <1>8, <1>9, <1>10, <1>11, <1>12, <1>13 DEF Next, Goroutine

\* Every step keeps what a goroutine looked up.
LEMMA LookUpStep ==
  ASSUME IInv, [Next]_vars
  PROVE  LookUpInv'
<1> USE NilAssumption DEF IInv, TypeOK, Functional, MutexInv, Critical, LookUpInv, Control, Sample
<1>0. \A k \in Wanted : Samples(k)' = Samples(k) /\ (GoroutineFails(k)' <=> GoroutineFails(k))
  BY Unchanged
<1>1. CASE Return  BY <1>0, <1>1 DEF Return
<1>2. CASE UNCHANGED vars  BY <1>0, <1>2 DEF vars
<1>3. ASSUME NEW k \in Wanted, Query(k)
      PROVE  LookUpInv'
  BY <1>0, <1>3 DEF Query, Goto
<1>4. ASSUME NEW k \in Wanted, QueryErrType(k)
      PROVE  LookUpInv'
  BY <1>0, <1>4 DEF QueryErrType, Goto
<1>5. ASSUME NEW k \in Wanted, QueryErrData(k)
      PROVE  LookUpInv'
  BY <1>0, <1>5 DEF QueryErrData, Goto
<1>6. ASSUME NEW k \in Wanted, Lock(k)
      PROVE  LookUpInv'
  BY <1>0, <1>6 DEF Lock, Goto
<1>7. ASSUME NEW k \in Wanted, LookUp(k)
      PROVE  LookUpInv'
  <2>1. Goto(k, "merge", "put") /\ next' = next /\ resultMap' = resultMap
    BY <1>7 DEF LookUp
  <2>2. /\ entry'[k].ok <=> Key(Sample(k)) \in DOMAIN resultMap
        /\ entry'[k].ok => entry'[k].entry = resultMap[Key(Sample(k))]
    BY <1>7 DEF LookUp, NoEntry, Found
  <2>3. \A j \in Wanted \ {k} : entry'[j] = entry[j]
    BY <1>7 DEF LookUp
  <2>4. QED  BY <1>0, <2>1, <2>2, <2>3 DEF Goto
<1>8. ASSUME NEW k \in Wanted, Put(k)
      PROVE  LookUpInv'
  <2>1. \A j \in Wanted : pc'[j] # "put"
    BY <1>8 DEF Put, Goto
  <2>2. QED  BY <2>1
<1>9. ASSUME NEW k \in Wanted, LabelMissing(k)
      PROVE  LookUpInv'
  BY <1>0, <1>9 DEF LabelMissing, Goto
<1>10. ASSUME NEW k \in Wanted, MergeErrType(k)
      PROVE  LookUpInv'
  BY <1>0, <1>10 DEF MergeErrType, Goto
<1>11. ASSUME NEW k \in Wanted, MergeErrData(k)
      PROVE  LookUpInv'
  BY <1>0, <1>11 DEF MergeErrData, Goto
<1>12. ASSUME NEW k \in Wanted, AllMerged(k)
      PROVE  LookUpInv'
  BY <1>0, <1>12 DEF AllMerged, Goto
<1>13. ASSUME NEW k \in Wanted, Unlock(k)
      PROVE  LookUpInv'
  BY <1>0, <1>13 DEF Unlock, Goto
<1>14. QED
  BY <1>1, <1>2, <1>3, <1>4, <1>5, <1>6, <1>7, <1>8, <1>9, <1>10, <1>11, <1>12, <1>13 DEF Next, Goroutine

\* Every step keeps the samples merged those of pods.
LEMMA PodStep ==
  ASSUME IInv, [Next]_vars
  PROVE  PodInv'
<1> USE SamplesType, NilAssumption DEF IInv, TypeOK, Functional, ProgressInv, PodInv, Control, Sample, HasPod
<1>0. \A k \in Wanted : Samples(k)' = Samples(k) /\ (GoroutineFails(k)' <=> GoroutineFails(k))
  BY Unchanged
<1>1. CASE Return  BY <1>0, <1>1 DEF Return
<1>2. CASE UNCHANGED vars  BY <1>0, <1>2 DEF vars
<1>3. ASSUME NEW k \in Wanted, Query(k)
      PROVE  PodInv'
  BY <1>0, <1>3 DEF Query, Goto
<1>4. ASSUME NEW k \in Wanted, QueryErrType(k)
      PROVE  PodInv'
  BY <1>0, <1>4 DEF QueryErrType, Goto
<1>5. ASSUME NEW k \in Wanted, QueryErrData(k)
      PROVE  PodInv'
  BY <1>0, <1>5 DEF QueryErrData, Goto
<1>6. ASSUME NEW k \in Wanted, Lock(k)
      PROVE  PodInv'
  BY <1>0, <1>6 DEF Lock, Goto
<1>7. ASSUME NEW k \in Wanted, LookUp(k)
      PROVE  PodInv'
  BY <1>0, <1>7 DEF LookUp, Goto
<1>8. ASSUME NEW k \in Wanted, Put(k)
      PROVE  PodInv'
  BY <1>0, <1>8 DEF Put, Goto
<1>9. ASSUME NEW k \in Wanted, LabelMissing(k)
      PROVE  PodInv'
  BY <1>0, <1>9 DEF LabelMissing, Goto
<1>10. ASSUME NEW k \in Wanted, MergeErrType(k)
      PROVE  PodInv'
  BY <1>0, <1>10 DEF MergeErrType, Goto
<1>11. ASSUME NEW k \in Wanted, MergeErrData(k)
      PROVE  PodInv'
  BY <1>0, <1>11 DEF MergeErrData, Goto
<1>12. ASSUME NEW k \in Wanted, AllMerged(k)
      PROVE  PodInv'
  BY <1>0, <1>12 DEF AllMerged, Goto
<1>13. ASSUME NEW k \in Wanted, Unlock(k)
      PROVE  PodInv'
  BY <1>0, <1>13 DEF Unlock, Goto
<1>14. QED
  BY <1>1, <1>2, <1>3, <1>4, <1>5, <1>6, <1>7, <1>8, <1>9, <1>10, <1>11, <1>12, <1>13 DEF Next, Goroutine

\* Every step keeps the words of superErr those of failed goroutines.
LEMMA ErrorStep ==
  ASSUME IInv, [Next]_vars
  PROVE  ErrorInv'
<1> USE NilAssumption DEF IInv, TypeOK, ErrorInv, Control
<1>0. \A k \in Wanted : Samples(k)' = Samples(k) /\ (GoroutineFails(k)' <=> GoroutineFails(k))
  BY Unchanged
<1>1. CASE Return  BY <1>0, <1>1 DEF Return
<1>2. CASE UNCHANGED vars  BY <1>0, <1>2 DEF vars
<1>3. ASSUME NEW k \in Wanted, Query(k)
      PROVE  ErrorInv'
  <2>1. outcome[k] = QueryError => GoroutineFails(k)
    BY Failing
  <2>2. QED  BY <1>0, <1>3, <2>1, Unchanged DEF Query, Goto
<1>4. ASSUME NEW k \in Wanted, QueryErrType(k)
      PROVE  ErrorInv'
  BY <1>0, <1>4, Unchanged DEF QueryErrType, Goto
<1>5. ASSUME NEW k \in Wanted, QueryErrData(k)
      PROVE  ErrorInv'
  BY <1>0, <1>5, Unchanged DEF QueryErrData, Goto
<1>6. ASSUME NEW k \in Wanted, Lock(k)
      PROVE  ErrorInv'
  BY <1>0, <1>6, Unchanged DEF Lock, Goto
<1>7. ASSUME NEW k \in Wanted, LookUp(k)
      PROVE  ErrorInv'
  BY <1>0, <1>7, Unchanged DEF LookUp, Goto
<1>8. ASSUME NEW k \in Wanted, Put(k)
      PROVE  ErrorInv'
  BY <1>0, <1>8, Unchanged DEF Put, Goto
<1>9. ASSUME NEW k \in Wanted, LabelMissing(k)
      PROVE  ErrorInv'
  <2>1. GoroutineFails(k)
    BY <1>9, Failing, SamplesType DEF LabelMissing, Sample
  <2>2. QED  BY <1>0, <1>9, <2>1, Unchanged DEF LabelMissing, Goto
<1>10. ASSUME NEW k \in Wanted, MergeErrType(k)
      PROVE  ErrorInv'
  BY <1>0, <1>10, Unchanged DEF MergeErrType, Goto
<1>11. ASSUME NEW k \in Wanted, MergeErrData(k)
      PROVE  ErrorInv'
  BY <1>0, <1>11, Unchanged DEF MergeErrData, Goto
<1>12. ASSUME NEW k \in Wanted, AllMerged(k)
      PROVE  ErrorInv'
  <2>1. GoroutineFails(k) => outcome[k] = QueryError
    BY <1>12, Failing, SamplesType DEF AllMerged, Goto, PodInv, Functional
  <2>2. GoroutineFails(k) => superErr.type # Nil /\ superErr.data # Nil
    BY <1>12, <2>1 DEF AllMerged, Goto
  <2>3. \A j \in Wanted \ {k} : pc'[j] = pc[j]
    BY <1>12 DEF AllMerged, Goto
  <2>4. pc[k] = "merge" /\ pc'[k] = "unlock" /\ superErr' = superErr
    BY <1>12 DEF AllMerged, Goto
  <2>5. QED  BY <1>0, <2>2, <2>3, <2>4, Unchanged
<1>13. ASSUME NEW k \in Wanted, Unlock(k)
      PROVE  ErrorInv'
  BY <1>0, <1>13, Unchanged DEF Unlock, Goto
<1>14. QED
  BY <1>1, <1>2, <1>3, <1>4, <1>5, <1>6, <1>7, <1>8, <1>9, <1>10, <1>11, <1>12, <1>13 DEF Next, Goroutine

\* What one more sample leaves as the cost of a key.
LEMMA CostOther ==
  ASSUME NEW samples, NEW key, NEW n \in Nat \ {0}, NEW c,
         Key(samples[n]) # key, CostIs(samples, key, n - 1, c)
  PROVE  CostIs(samples, key, n, c)
<1>1. \A i \in 1..n : i = n \/ i \in 1..n - 1
  OBVIOUS
<1>2. CASE /\ \A i \in 1..n - 1 : Key(samples[i]) # key
           /\ c = 0
  BY <1>1, <1>2 DEF CostIs
<1>3. ASSUME NEW i \in 1..n - 1, Key(samples[i]) = key, c = samples[i].cost,
             \A j \in i + 1..n - 1 : Key(samples[j]) # key
      PROVE  CostIs(samples, key, n, c)
  <2>1. \A j \in i + 1..n : Key(samples[j]) # key
    BY <1>3
  <2>2. QED  BY <1>3, <2>1 DEF CostIs
<1>4. QED  BY <1>2, <1>3 DEF CostIs

LEMMA CostNew ==
  ASSUME NEW samples, NEW n \in Nat \ {0}
  PROVE  CostIs(samples, Key(samples[n]), n, samples[n].cost)
BY DEF CostIs

\* Every step keeps the keys those of merged samples.
LEMMA KeysStep ==
  ASSUME IInv, [Next]_vars
  PROVE  KeysInv'
<1> USE DEF IInv, KeysInv
<1>0. \A k \in Wanted : Samples(k)' = Samples(k) /\ (GoroutineFails(k)' <=> GoroutineFails(k))
  BY Unchanged
<1>1. CASE Return  BY <1>0, <1>1 DEF Return
<1>2. CASE UNCHANGED vars  BY <1>0, <1>2 DEF vars
<1>3. ASSUME NEW k \in Wanted, Query(k)
      PROVE  KeysInv'
  BY <1>0, <1>3 DEF Query, Goto
<1>4. ASSUME NEW k \in Wanted, QueryErrType(k)
      PROVE  KeysInv'
  BY <1>0, <1>4 DEF QueryErrType, Goto
<1>5. ASSUME NEW k \in Wanted, QueryErrData(k)
      PROVE  KeysInv'
  BY <1>0, <1>5 DEF QueryErrData, Goto
<1>6. ASSUME NEW k \in Wanted, Lock(k)
      PROVE  KeysInv'
  BY <1>0, <1>6 DEF Lock, Goto
<1>7. ASSUME NEW k \in Wanted, LookUp(k)
      PROVE  KeysInv'
  BY <1>0, <1>7 DEF LookUp, Goto
<1>8. ASSUME NEW k \in Wanted, Put(k)
      PROVE  KeysInv'
  <2> DEFINE n == next[k]
             key == Key(Samples(k)[n])
  <2>1. /\ n \in Nat \ {0} /\ n <= Len(Samples(k)) /\ Sample(k) = Samples(k)[n]
    BY <1>8 DEF Put, Goto, ProgressInv, Sample, TypeOK, Functional
  <2>2. /\ next'[k] = n + 1 /\ next'[k] - 1 = n
        /\ \A j \in Wanted \ {k} : next'[j] = next[j]
        /\ \A j \in Wanted : next[j] \in Nat
    <3>1. \A j \in Wanted : next[j] \in Nat
      BY SamplesType DEF TypeOK
    <3>2. QED  BY <1>8, <2>1, <3>1 DEF Put, Functional
  <2>3. DOMAIN resultMap' = DOMAIN resultMap \cup {key}
    BY <1>8, <2>1, PutMap
  <2>4. \A j \in Wanted : \A i \in 1..next'[j] - 1 :
          i \in 1..next[j] - 1 \/ (j = k /\ i = n)
    <3>1. \A i \in 1..next'[k] - 1 : i \in 1..next[k] - 1 \/ i = n
      BY <2>1, <2>2
    <3>2. \A j \in Wanted \ {k} : 1..next'[j] - 1 = 1..next[j] - 1
      BY <2>2
    <3>3. ASSUME NEW j \in Wanted, NEW i \in 1..next'[j] - 1
          PROVE  i \in 1..next[j] - 1 \/ (j = k /\ i = n)
      <4>1. CASE j = k  BY <3>1, <3>3, <4>1
      <4>2. CASE j # k  BY <3>2, <3>3, <4>2
      <4>3. QED  BY <4>1, <4>2
    <3>4. QED  BY <3>3
  <2>5. \A j \in Wanted : \A i \in 1..next[j] - 1 : i \in 1..next'[j] - 1
    BY <2>1, <2>2
  <2>6. n \in 1..next'[k] - 1
    BY <2>1, <2>2
  <2>7. \A j \in Wanted : \A i \in 1..next'[j] - 1 :
          Key(Samples(j)[i]) \in DOMAIN resultMap'
    BY <2>3, <2>4
  <2>8. ASSUME NEW other \in DOMAIN resultMap'
        PROVE  \E j \in Wanted : \E i \in 1..next'[j] - 1 : Key(Samples(j)[i]) = other
    <3>1. CASE other = key  BY <2>6, <3>1
    <3>2. CASE other \in DOMAIN resultMap  BY <2>5, <3>2
    <3>3. QED  BY <2>3, <3>1, <3>2
  <2>9. QED  BY <1>0, <2>7, <2>8
<1>9. ASSUME NEW k \in Wanted, LabelMissing(k)
      PROVE  KeysInv'
  BY <1>0, <1>9 DEF LabelMissing, Goto
<1>10. ASSUME NEW k \in Wanted, MergeErrType(k)
      PROVE  KeysInv'
  BY <1>0, <1>10 DEF MergeErrType, Goto
<1>11. ASSUME NEW k \in Wanted, MergeErrData(k)
      PROVE  KeysInv'
  BY <1>0, <1>11 DEF MergeErrData, Goto
<1>12. ASSUME NEW k \in Wanted, AllMerged(k)
      PROVE  KeysInv'
  BY <1>0, <1>12 DEF AllMerged, Goto
<1>13. ASSUME NEW k \in Wanted, Unlock(k)
      PROVE  KeysInv'
  BY <1>0, <1>13 DEF Unlock, Goto
<1>14. QED
  BY <1>1, <1>2, <1>3, <1>4, <1>5, <1>6, <1>7, <1>8, <1>9, <1>10, <1>11, <1>12, <1>13 DEF Next, Goroutine

\* Every step keeps the map what the merged samples leave.
LEMMA MergedStep ==
  ASSUME IInv, [Next]_vars
  PROVE  MergedInv'
<1> USE WantedAssumption DEF IInv, TypeOK, Functional, MergedInv
<1>0. \A k \in Wanted : Samples(k)' = Samples(k) /\ (GoroutineFails(k)' <=> GoroutineFails(k))
  BY Unchanged
<1>1. CASE Return  BY <1>0, <1>1 DEF Return
<1>2. CASE UNCHANGED vars  BY <1>0, <1>2 DEF vars
<1>3. ASSUME NEW k \in Wanted, Query(k)
      PROVE  MergedInv'
  BY <1>0, <1>3 DEF Query, Goto
<1>4. ASSUME NEW k \in Wanted, QueryErrType(k)
      PROVE  MergedInv'
  BY <1>0, <1>4 DEF QueryErrType, Goto
<1>5. ASSUME NEW k \in Wanted, QueryErrData(k)
      PROVE  MergedInv'
  BY <1>0, <1>5 DEF QueryErrData, Goto
<1>6. ASSUME NEW k \in Wanted, Lock(k)
      PROVE  MergedInv'
  BY <1>0, <1>6 DEF Lock, Goto
<1>7. ASSUME NEW k \in Wanted, LookUp(k)
      PROVE  MergedInv'
  BY <1>0, <1>7 DEF LookUp, Goto
<1>8. ASSUME NEW k \in Wanted, Put(k)
      PROVE  MergedInv'
  <2> DEFINE n == next[k]
             s == Samples(k)[n]
             key == Key(s)
  <2>1. /\ n \in Nat \ {0} /\ n <= Len(Samples(k)) /\ k \in Kinds
        /\ s.cost \in Nat /\ Sample(k) = s
    BY <1>8, SamplesType DEF Put, Goto, ProgressInv, Sample
  <2>2. /\ next'[k] = n + 1 /\ next'[k] - 1 = n
        /\ \A j \in Wanted \ {k} : next'[j] = next[j]
        /\ \A j \in Wanted : next[j] \in Nat
    <3>1. \A j \in Wanted : next[j] \in Nat
      BY SamplesType DEF TypeOK
    <3>2. QED  BY <1>8, <2>1, <3>1 DEF Put, Functional
  <2>3. /\ DOMAIN resultMap' = DOMAIN resultMap \cup {key}
        /\ resultMap'[key] = Merged(entry[k], s, k)
        /\ \A other \in DOMAIN resultMap \ {key} : resultMap'[other] = resultMap[other]
    BY <1>8, <2>1, PutMap
  <2>4. /\ entry[k].ok <=> key \in DOMAIN resultMap
        /\ entry[k].ok => entry[k].entry = resultMap[key]
    BY <1>8, <2>1 DEF Put, Goto, LookUpInv
  <2>5. /\ resultMap'[key].month[k] = s.cost
        /\ \A j \in Kinds \ {k} : resultMap'[key].month[j] =
             IF key \in DOMAIN resultMap THEN resultMap[key].month[j] ELSE 0
    BY <2>1, <2>3, <2>4, MergedEntry DEF TypeOK, Functional
  <2>7. ASSUME NEW other \in DOMAIN resultMap', other # key, NEW j \in Wanted
        PROVE  CostIs(Samples(j), other, next'[j] - 1, resultMap'[other].month[j])
    <3>1. /\ other \in DOMAIN resultMap /\ resultMap'[other] = resultMap[other]
          /\ CostIs(Samples(j), other, next[j] - 1, resultMap[other].month[j])
      BY <2>3, <2>7
    <3>2. CASE j = k
      BY <2>1, <2>2, <2>7, <3>1, <3>2, CostOther
    <3>3. QED  BY <2>2, <3>1, <3>2
  <2>8. ASSUME NEW j \in Wanted
        PROVE  CostIs(Samples(j), key, next'[j] - 1, resultMap'[key].month[j])
    <3>1. CASE j = k
      BY <2>1, <2>2, <2>5, <3>1, CostNew
    <3>2. CASE j # k /\ key \in DOMAIN resultMap
      BY <2>2, <2>5, <3>2
    <3>3. CASE j # k /\ key \notin DOMAIN resultMap
      <4>1. \A i \in 1..next[j] - 1 : Key(Samples(j)[i]) # key
        BY <3>3 DEF KeysInv
      <4>2. resultMap'[key].month[j] = 0 /\ next'[j] = next[j]
        BY <2>2, <2>5, <3>3
      <4>3. QED  BY <4>1, <4>2 DEF CostIs
    <3>4. QED  BY <3>1, <3>2, <3>3
  <2>9. ASSUME NEW other \in DOMAIN resultMap', NEW j \in Kinds \ Wanted
        PROVE  resultMap'[other].month[j] = 0
    <3>1. CASE other = key  BY <2>5, <2>9, <3>1
    <3>2. CASE other # key  BY <2>3, <2>9, <3>2
    <3>3. QED  BY <3>1, <3>2
  <2>10. QED  BY <1>0, <2>7, <2>8, <2>9
<1>9. ASSUME NEW k \in Wanted, LabelMissing(k)
      PROVE  MergedInv'
  BY <1>0, <1>9 DEF LabelMissing, Goto
<1>10. ASSUME NEW k \in Wanted, MergeErrType(k)
      PROVE  MergedInv'
  BY <1>0, <1>10 DEF MergeErrType, Goto
<1>11. ASSUME NEW k \in Wanted, MergeErrData(k)
      PROVE  MergedInv'
  BY <1>0, <1>11 DEF MergeErrData, Goto
<1>12. ASSUME NEW k \in Wanted, AllMerged(k)
      PROVE  MergedInv'
  BY <1>0, <1>12 DEF AllMerged, Goto
<1>13. ASSUME NEW k \in Wanted, Unlock(k)
      PROVE  MergedInv'
  BY <1>0, <1>13 DEF Unlock, Goto
<1>14. QED
  BY <1>1, <1>2, <1>3, <1>4, <1>5, <1>6, <1>7, <1>8, <1>9, <1>10, <1>11, <1>12, <1>13 DEF Next, Goroutine

\* Every step keeps the labels of all samples merged.
LEMMA LabelStep ==
  ASSUME IInv, [Next]_vars
  PROVE  LabelInv'
<1> USE DEF IInv, LabelInv
<1>0. \A k \in Wanted : Samples(k)' = Samples(k) /\ (GoroutineFails(k)' <=> GoroutineFails(k))
  BY Unchanged
<1>1. CASE Return  BY <1>0, <1>1 DEF Return
<1>2. CASE UNCHANGED vars  BY <1>0, <1>2 DEF vars
<1>3. ASSUME NEW k \in Wanted, Query(k)
      PROVE  LabelInv'
  BY <1>0, <1>3 DEF Query, Goto
<1>4. ASSUME NEW k \in Wanted, QueryErrType(k)
      PROVE  LabelInv'
  BY <1>0, <1>4 DEF QueryErrType, Goto
<1>5. ASSUME NEW k \in Wanted, QueryErrData(k)
      PROVE  LabelInv'
  BY <1>0, <1>5 DEF QueryErrData, Goto
<1>6. ASSUME NEW k \in Wanted, Lock(k)
      PROVE  LabelInv'
  BY <1>0, <1>6 DEF Lock, Goto
<1>7. ASSUME NEW k \in Wanted, LookUp(k)
      PROVE  LabelInv'
  BY <1>0, <1>7 DEF LookUp, Goto
<1>8. ASSUME NEW k \in Wanted, Put(k)
      PROVE  LabelInv'
  <2> DEFINE n == next[k]
             s == Samples(k)[n]
             key == Key(s)
  <2>1. /\ n \in Nat \ {0} /\ n <= Len(Samples(k)) /\ k \in Kinds
        /\ s.cost \in Nat /\ Sample(k) = s
    BY <1>8, SamplesType, WantedAssumption DEF Put, Goto, ProgressInv, Sample, TypeOK, Functional
  <2>2. /\ next'[k] = n + 1 /\ next'[k] - 1 = n
        /\ \A j \in Wanted \ {k} : next'[j] = next[j]
        /\ \A j \in Wanted : next[j] \in Nat
    <3>1. \A j \in Wanted : next[j] \in Nat
      BY SamplesType DEF TypeOK
    <3>2. QED  BY <1>8, <2>1, <3>1 DEF Put, Functional
  <2>3. /\ resultMap'[key] = Merged(entry[k], s, k)
        /\ \A other \in DOMAIN resultMap \ {key} : resultMap'[other] = resultMap[other]
    BY <1>8, <2>1, PutMap
  <2>4. /\ entry[k].ok <=> key \in DOMAIN resultMap
        /\ entry[k].ok => entry[k].entry = resultMap[key]
    BY <1>8, <2>1 DEF Put, Goto, LookUpInv
  <2>5. /\ \A l \in DOMAIN s.labels : /\ l \in DOMAIN resultMap'[key].labels
                                      /\ resultMap'[key].labels[l] = s.labels[l]
        /\ key \in DOMAIN resultMap =>
             \A l \in DOMAIN resultMap[key].labels \ DOMAIN s.labels :
               /\ l \in DOMAIN resultMap'[key].labels
               /\ resultMap'[key].labels[l] = resultMap[key].labels[l]
    <3> DEFINE e == entry[k]
    <3>1. /\ e.ok \in BOOLEAN
          /\ e.ok => e.entry.month \in [Kinds -> Nat]
      BY DEF TypeOK, Functional
    <3> HIDE DEF s, key, e
    <3>2. /\ \A l \in DOMAIN s.labels : /\ l \in DOMAIN Merged(e, s, k).labels
                                        /\ Merged(e, s, k).labels[l] = s.labels[l]
          /\ e.ok => \A l \in DOMAIN e.entry.labels \ DOMAIN s.labels :
               /\ l \in DOMAIN Merged(e, s, k).labels
               /\ Merged(e, s, k).labels[l] = e.entry.labels[l]
      BY <2>1, <3>1, MergedEntry
    <3>3. resultMap'[key] = Merged(e, s, k)
      BY <2>3 DEF e
    <3>4. key \in DOMAIN resultMap => e.ok /\ e.entry = resultMap[key]
      BY <2>4 DEF e
    <3>5. QED  BY <3>2, <3>3, <3>4
  <2> HIDE DEF n, s, key
  <2>6. /\ n \in 1..next'[k] - 1
        /\ \A j \in Wanted : \A i \in 1..next[j] - 1 : i \in 1..next'[j] - 1
        /\ \A j \in Wanted : \A i \in 1..next'[j] - 1 :
             i \in 1..next[j] - 1 \/ (j = k /\ i = n)
    <3>1. n \in 1..next'[k] - 1
      BY <2>1, <2>2
    <3>2. /\ \A i \in 1..next[k] - 1 : i \in 1..next'[k] - 1
          /\ \A i \in 1..next'[k] - 1 : i \in 1..next[k] - 1 \/ i = n
      BY <2>1, <2>2 DEF n
    <3>3. \A j \in Wanted \ {k} : 1..next'[j] - 1 = 1..next[j] - 1
      BY <2>2
    <3>4. ASSUME NEW j \in Wanted, NEW i \in 1..next'[j] - 1
          PROVE  i \in 1..next[j] - 1 \/ (j = k /\ i = n)
      <4>1. CASE j = k  BY <3>2, <3>4, <4>1
      <4>2. CASE j # k  BY <3>3, <3>4, <4>2
      <4>3. QED  BY <4>1, <4>2
    <3>5. ASSUME NEW j \in Wanted, NEW i \in 1..next[j] - 1
          PROVE  i \in 1..next'[j] - 1
      <4>1. CASE j = k  BY <3>2, <3>5, <4>1
      <4>2. CASE j # k  BY <3>3, <3>5, <4>2
      <4>3. QED  BY <4>1, <4>2
    <3>6. QED  BY <3>1, <3>4, <3>5
  <2>7. ASSUME NEW j \in Wanted, NEW i \in 1..next'[j] - 1,
               NEW l \in DOMAIN Samples(j)[i].labels
        PROVE  \E h \in Wanted : \E m \in 1..next'[h] - 1 :
                 /\ Key(Samples(h)[m]) = Key(Samples(j)[i])
                 /\ Agrees(Samples(h)[m], resultMap'[Key(Samples(j)[i])], l)
    <3> DEFINE x == Key(Samples(j)[i])
    <3>1. CASE x = key /\ l \in DOMAIN s.labels
      <4>1. Agrees(s, resultMap'[x], l)
        BY <2>5, <3>1 DEF Agrees
      <4>2. Key(Samples(k)[n]) = x /\ Agrees(Samples(k)[n], resultMap'[x], l)
        BY <3>1, <4>1 DEF s, key
      <4>3. QED  BY <2>6, <4>2
    <3>2. CASE ~(x = key /\ l \in DOMAIN s.labels)
      <4>1. i \in 1..next[j] - 1
        BY <2>6, <3>2 DEF s, key
      <4>2. x \in DOMAIN resultMap
        BY <4>1 DEF KeysInv
      <4>3. PICK h \in Wanted : \E m \in 1..next[h] - 1 :
              Key(Samples(h)[m]) = x /\ Agrees(Samples(h)[m], resultMap[x], l)
        BY <2>7, <4>1
      <4>4. PICK m \in 1..next[h] - 1 :
              Key(Samples(h)[m]) = x /\ Agrees(Samples(h)[m], resultMap[x], l)
        BY <4>3
      <4>5. /\ l \in DOMAIN resultMap'[x].labels
            /\ resultMap'[x].labels[l] = resultMap[x].labels[l]
        BY <2>3, <2>5, <3>2, <4>2, <4>4 DEF Agrees
      <4>6. Agrees(Samples(h)[m], resultMap'[x], l)
        BY <4>4, <4>5 DEF Agrees
      <4>7. QED  BY <2>6, <4>4, <4>6
    <3>3. QED  BY <3>1, <3>2
  <2>8. QED  BY <1>0, <2>7
<1>9. ASSUME NEW k \in Wanted, LabelMissing(k)
      PROVE  LabelInv'
  BY <1>0, <1>9 DEF LabelMissing, Goto
<1>10. ASSUME NEW k \in Wanted, MergeErrType(k)
      PROVE  LabelInv'
  BY <1>0, <1>10 DEF MergeErrType, Goto
<1>11. ASSUME NEW k \in Wanted, MergeErrData(k)
      PROVE  LabelInv'
  BY <1>0, <1>11 DEF MergeErrData, Goto
<1>12. ASSUME NEW k \in Wanted, AllMerged(k)
      PROVE  LabelInv'
  BY <1>0, <1>12 DEF AllMerged, Goto
<1>13. ASSUME NEW k \in Wanted, Unlock(k)
      PROVE  LabelInv'
  BY <1>0, <1>13 DEF Unlock, Goto
<1>14. QED
  BY <1>1, <1>2, <1>3, <1>4, <1>5, <1>6, <1>7, <1>8, <1>9, <1>10, <1>11, <1>12, <1>13 DEF Next, Goroutine

\* No step changes what was returned.
LEMMA ResultStep ==
  ASSUME IInv, [Next]_vars
  PROVE  ResultInv'
<1> USE NilAssumption DEF IInv, TypeOK, ResultInv, Returned, NoResult, Failed, Entries
<1>0. \A k \in Wanted : Samples(k)' = Samples(k) /\ (GoroutineFails(k)' <=> GoroutineFails(k))
  BY Unchanged
<1>1. CASE Return  BY <1>0, <1>1 DEF Return
<1>2. CASE UNCHANGED vars  BY <1>0, <1>2 DEF vars
<1>3. ASSUME NEW k \in Wanted, Query(k)
      PROVE  ResultInv'
  BY <1>0, <1>3 DEF Query, Goto
<1>4. ASSUME NEW k \in Wanted, QueryErrType(k)
      PROVE  ResultInv'
  BY <1>0, <1>4 DEF QueryErrType, Goto
<1>5. ASSUME NEW k \in Wanted, QueryErrData(k)
      PROVE  ResultInv'
  BY <1>0, <1>5 DEF QueryErrData, Goto
<1>6. ASSUME NEW k \in Wanted, Lock(k)
      PROVE  ResultInv'
  BY <1>0, <1>6 DEF Lock, Goto
<1>7. ASSUME NEW k \in Wanted, LookUp(k)
      PROVE  ResultInv'
  BY <1>0, <1>7 DEF LookUp, Goto
<1>8. ASSUME NEW k \in Wanted, Put(k)
      PROVE  ResultInv'
  BY <1>0, <1>8 DEF Put, Goto
<1>9. ASSUME NEW k \in Wanted, LabelMissing(k)
      PROVE  ResultInv'
  BY <1>0, <1>9 DEF LabelMissing, Goto
<1>10. ASSUME NEW k \in Wanted, MergeErrType(k)
      PROVE  ResultInv'
  BY <1>0, <1>10 DEF MergeErrType, Goto
<1>11. ASSUME NEW k \in Wanted, MergeErrData(k)
      PROVE  ResultInv'
  BY <1>0, <1>11 DEF MergeErrData, Goto
<1>12. ASSUME NEW k \in Wanted, AllMerged(k)
      PROVE  ResultInv'
  BY <1>0, <1>12 DEF AllMerged, Goto
<1>13. ASSUME NEW k \in Wanted, Unlock(k)
      PROVE  ResultInv'
  BY <1>0, <1>13 DEF Unlock, Goto
<1>14. QED
  BY <1>1, <1>2, <1>3, <1>4, <1>5, <1>6, <1>7, <1>8, <1>9, <1>10, <1>11, <1>12, <1>13 DEF Next, Goroutine

\* The invariant holds initially and is kept by every step.
THEOREM Invariant == Spec => []IInv
<1>1. Init => IInv
  <2> SUFFICES ASSUME Init PROVE IInv
    OBVIOUS
  <2>1. TypeOK /\ Functional
    <3>0. \A k \in Wanted : Len(Samples(k)) \in Nat
      BY SamplesType DEF Init
    <3>1. \A k \in Wanted : /\ next[k] = 1 /\ 1 \in 1..Len(Samples(k)) + 1
                           /\ entry[k] = NoEntry /\ entry[k].ok = FALSE
      <4>1. \A k \in Wanted : next[k] = 1 /\ entry[k] = NoEntry
        BY DEF Init
      <4>2. NoEntry.ok = FALSE
        BY DEF NoEntry
      <4>3. \A k \in Wanted : 1 \in 1..Len(Samples(k)) + 1
        <5>1. \A n \in Nat : 1 \in 1..n + 1
          OBVIOUS
        <5>2. QED  BY <3>0, <5>1
      <4>4. \A k \in Wanted : entry[k].ok = FALSE
        BY <4>1, <4>2, Zenon
      <4>5. QED  BY <4>1, <4>3, <4>4
    <3>2. pc \in [Wanted -> Control] /\ DOMAIN resultMap = {}
      BY DEF Init, Control
    <3>3. superErr \in [type : Wanted \cup {Nil}, data : Wanted \cup {Nil}]
      BY DEF Init
    <3>4. TypeOK
      BY <3>1, <3>2, <3>3 DEF Init, TypeOK
    <3>5. Functional
      BY <3>1 DEF Init, Functional, NoEntry
    <3>6. QED  BY <3>4, <3>5
  <2>2. /\ MutexInv /\ ProgressInv /\ LookUpInv /\ PodInv /\ ErrorInv
        /\ KeysInv /\ MergedInv /\ LabelInv
    BY NilAssumption
    DEF Init, MutexInv, Critical, ProgressInv, LookUpInv, PodInv, ErrorInv,
        KeysInv, MergedInv, LabelInv
  <2>3. ResultInv
    BY DEF Init, ResultInv
  <2>4. QED  BY <2>1, <2>2, <2>3 DEF IInv
<1>2. IInv /\ [Next]_vars => IInv'
  BY TypeStep, FunctionalStep, MutexStep, ProgressStep, LookUpStep, PodStep,
     ErrorStep, KeysStep, MergedStep, LabelStep, ResultStep
  DEF IInv
<1>3. QED  BY <1>1, <1>2, PTL DEF Spec

\* The variables keep their types.
THEOREM TypeCorrect == Spec => []TypeOK
<1>1. IInv => TypeOK  BY DEF IInv
<1>2. QED  BY <1>1, Invariant, PTL

\* When every goroutine is done, the caller's answer is an error exactly if
\* one of them failed.
LEMMA AllDone ==
  ASSUME IInv, \A k \in Wanted : pc[k] = "done"
  PROVE  /\ superErr.type # Nil <=> \E k \in Wanted : GoroutineFails(k)
         /\ superErr.data # Nil <=> \E k \in Wanted : GoroutineFails(k)
         /\ superErr.type \in Wanted \cup {Nil}
         /\ superErr.data \in Wanted \cup {Nil}
<1>1. superErr \in [type : Wanted \cup {Nil}, data : Wanted \cup {Nil}]
  BY DEF IInv, TypeOK
<1>2. QED  BY <1>1 DEF IInv, ErrorInv

\* No error is lost to the race for superErr.
THEOREM ErrorReturned == Spec => []ErrorSurvivesRace
<1>1. IInv => ErrorSurvivesRace
  <2> SUFFICES ASSUME IInv, result # NoResult PROVE ErrorSurvivesRace
    BY DEF ErrorSurvivesRace, NoResult, Failed
  <2>1. (\A k \in Wanted : pc[k] = "done") /\ result = Returned
    BY DEF IInv, ResultInv
  <2>2. result = Failed <=> superErr.type # Nil
    BY <2>1 DEF Returned, Failed, Entries
  <2>3. /\ result = Failed <=> \E k \in Wanted : GoroutineFails(k)
        /\ result = Failed => superErr.type \in Wanted /\ superErr.data \in Wanted
    BY <2>1, <2>2, AllDone
  <2>4. \A k \in Wanted : superErr.type = k \/ superErr.data = k => GoroutineFails(k)
    BY DEF IInv, ErrorInv
  <2>5. QED  BY <2>3, <2>4 DEF ErrorSurvivesRace
<1>2. QED  BY <1>1, Invariant, PTL

\* What the entries of a successful call hold: the map, when every sample of
\* every kind was merged.
LEMMA AllMergedIn ==
  ASSUME IInv, Succeeded
  PROVE  /\ result.entries = resultMap
         /\ \A k \in Wanted : /\ next[k] = Len(Samples(k)) + 1
                              /\ Len(Samples(k)) \in Nat
                              /\ next[k] - 1 = Len(Samples(k))
<1>1. (\A k \in Wanted : pc[k] = "done") /\ result = Returned
  BY DEF IInv, ResultInv, Succeeded, NoResult
<1>2. result.entries = resultMap /\ superErr.type = Nil
  BY <1>1 DEF Returned, Failed, Entries, Succeeded
<1>3. \A k \in Wanted : ~GoroutineFails(k)
  BY <1>1, <1>2, AllDone
<1>4. \A k \in Wanted : next[k] = Len(Samples(k)) + 1
  BY <1>1, <1>3 DEF IInv, ProgressInv
<1>5. \A k \in Wanted : Len(Samples(k)) \in Nat
  BY SamplesType DEF IInv, TypeOK
<1>6. QED  BY <1>2, <1>4, <1>5

\* What CostIs says of all samples is what CostOf chooses.
LEMMA CostChosen ==
  ASSUME NEW k \in Wanted, Len(Samples(k)) \in Nat, NEW key, NEW c,
         CostIs(Samples(k), key, Len(Samples(k)), c)
  PROVE  c = CostOf(k, key)
<1> DEFINE found == SamplesWithKey(k, key)
<1>1. found \subseteq 1..Len(Samples(k))
  BY DEF SamplesWithKey
<1>2. CASE (\A i \in 1..Len(Samples(k)) : Key(Samples(k)[i]) # key) /\ c = 0
  <2>1. found = {}
    BY <1>2 DEF SamplesWithKey
  <2>2. QED  BY <1>2, <2>1 DEF CostOf
<1>3. ASSUME NEW i \in 1..Len(Samples(k)), Key(Samples(k)[i]) = key,
             c = Samples(k)[i].cost,
             \A j \in i + 1..Len(Samples(k)) : Key(Samples(k)[j]) # key
      PROVE  c = CostOf(k, key)
  <2> DEFINE Last(n) == \A j \in found : j <= n
  <2>1. i \in found /\ Last(i)
    BY <1>3 DEF SamplesWithKey
  <2>2. \A n \in found : Last(n) => n = i
    BY <1>1, <2>1
  <2>3. (CHOOSE n \in found : Last(n)) = i
    BY <2>1, <2>2
  <2>4. found # {}
    BY <2>1
  <2>5. QED  BY <1>3, <2>3, <2>4 DEF CostOf
<1>4. QED  BY <1>2, <1>3 DEF CostIs

\* The costs of the answer are those of the samples, whatever the order the
\* goroutines merged them in.
THEOREM CostsCorrect == Spec => []CostsMatchQueries
<1>1. IInv => CostsMatchQueries
  <2> SUFFICES ASSUME IInv, Succeeded PROVE CostsMatchQueries
    BY DEF CostsMatchQueries
  <2>1. /\ result.entries = resultMap
        /\ \A k \in Wanted : /\ Len(Samples(k)) \in Nat
                             /\ next[k] - 1 = Len(Samples(k))
    BY AllMergedIn
  <2>2. DOMAIN resultMap =
          UNION {{Key(Samples(k)[i]) : i \in 1..Len(Samples(k))} : k \in Wanted}
    <3>1. \A k \in Wanted : \A i \in 1..Len(Samples(k)) :
            Key(Samples(k)[i]) \in DOMAIN resultMap
      BY <2>1 DEF IInv, KeysInv
    <3>2. \A key \in DOMAIN resultMap :
            \E k \in Wanted : \E i \in 1..Len(Samples(k)) : Key(Samples(k)[i]) = key
      BY <2>1 DEF IInv, KeysInv
    <3> DEFINE Keys(k) == {Key(Samples(k)[i]) : i \in 1..Len(Samples(k))}
    <3>3. \A k \in Wanted : Keys(k) \subseteq DOMAIN resultMap
      BY <3>1
    <3>4. \A key \in DOMAIN resultMap : \E k \in Wanted : key \in Keys(k)
      BY <3>2
    <3> HIDE DEF Keys
    <3>5. DOMAIN resultMap = UNION {Keys(k) : k \in Wanted}
      BY <3>3, <3>4
    <3>6. QED  BY <3>5 DEF Keys
  <2>3. ASSUME NEW key \in DOMAIN resultMap, NEW k \in Kinds
        PROVE  resultMap[key].month[k] = IF k \in Wanted THEN CostOf(k, key) ELSE 0
    <3>1. CASE k \in Wanted
      <4>1. CostIs(Samples(k), key, Len(Samples(k)), resultMap[key].month[k])
        BY <2>1, <3>1 DEF IInv, MergedInv
      <4>2. QED  BY <2>1, <3>1, <4>1, CostChosen
    <3>2. CASE k \notin Wanted
      BY <3>2 DEF IInv, MergedInv
    <3>3. QED  BY <3>1, <3>2
  <2>4. QED  BY <2>1, <2>2, <2>3 DEF CostsMatchQueries
<1>2. QED  BY <1>1, Invariant, PTL

\* No label of a sample is missing from its entry.
THEOREM LabelsCorrect == Spec => []LabelsOfEverySample
<1>1. IInv => LabelsOfEverySample
  <2> SUFFICES ASSUME IInv, Succeeded,
                      NEW k \in Wanted, NEW i \in 1..Len(Samples(k)),
                      NEW l \in DOMAIN Samples(k)[i].labels
               PROVE  LET key == Key(Samples(k)[i])
                      IN /\ l \in DOMAIN result.entries[key].labels
                         /\ \E j \in Wanted : \E n \in SamplesWithKey(j, key) :
                              LET t == Samples(j)[n].labels
                              IN l \in DOMAIN t /\ t[l] = result.entries[key].labels[l]
    BY DEF LabelsOfEverySample
  <2> DEFINE key == Key(Samples(k)[i])
  <2>1. /\ result.entries = resultMap
        /\ \A j \in Wanted : next[j] - 1 = Len(Samples(j))
    BY AllMergedIn
  <2>2. PICK j \in Wanted : \E n \in 1..Len(Samples(j)) :
          Key(Samples(j)[n]) = key /\ Agrees(Samples(j)[n], resultMap[key], l)
    BY <2>1 DEF IInv, LabelInv
  <2>3. PICK n \in 1..Len(Samples(j)) :
          Key(Samples(j)[n]) = key /\ Agrees(Samples(j)[n], resultMap[key], l)
    BY <2>2
  <2>4. n \in SamplesWithKey(j, key)
    BY <2>3 DEF SamplesWithKey
  <2>5. QED  BY <2>1, <2>3, <2>4 DEF Agrees
<1>2. QED  BY <1>1, Invariant, PTL

-----------------------------------------------------------------------------
(* The refinement                                                          *)

\* A step that leaves each goroutine's task as it is, and the caller, is a
\* stutter of ForkJoin.
LEMMA Stutter ==
  ASSUME \A k \in Wanted : TaskOf(k)' = TaskOf(k), CallerOf' = CallerOf
  PROVE  [Kind!Next]_<<[k \in Wanted |-> TaskOf(k)], CallerOf>>
  OBVIOUS

\* A goroutine that finishes while the caller waits is a task that does.
LEMMA Finishes ==
  ASSUME NEW k \in Wanted, TaskOf(k) = "running", TaskOf(k)' \in {"ok", "failed"},
         \A j \in Wanted \ {k} : TaskOf(j)' = TaskOf(j),
         CallerOf = "waiting", CallerOf' = CallerOf
  PROVE  Kind!Next
<1> DEFINE task == [j \in Wanted |-> TaskOf(j)]
<1>1. task' = [task EXCEPT ![k] = TaskOf(k)']
  OBVIOUS
<1>2. Kind!Finish(k)
  BY <1>1 DEF Kind!Finish
<1>3. QED  BY <1>2 DEF Kind!Next

\* Every step is one of ForkJoin, or a stutter: goroutines finish once, and
\* the caller returns when all have, with an error exactly if one failed.
LEMMA StepSimulation ==
  ASSUME IInv, [Next]_vars
  PROVE  [Kind!Next]_<<[k \in Wanted |-> TaskOf(k)], CallerOf>>
<1>0. \A k \in Wanted : GoroutineFails(k)' <=> GoroutineFails(k)
  BY Unchanged
<1>1. CASE Return
  <2>1. /\ \A k \in Wanted : pc[k] = "done" /\ pc'[k] = "done"
        /\ result = NoResult /\ result' = Returned
    BY <1>1 DEF Return
  <2>2. CallerOf = "waiting"
    BY <2>1 DEF CallerOf
  <2>3. CallerOf' = IF \E k \in Wanted : GoroutineFails(k) THEN "failed" ELSE "ok"
    <3>1. superErr.type # Nil <=> \E k \in Wanted : GoroutineFails(k)
      BY <2>1, AllDone
    <3>2. CASE superErr.type # Nil
      BY <2>1, <3>1, <3>2 DEF CallerOf, Returned, Failed, NoResult
    <3>3. CASE superErr.type = Nil
      BY <2>1, <3>1, <3>3 DEF CallerOf, Returned, Failed, NoResult, Entries
    <3>4. QED  BY <3>2, <3>3
  <2>4. \A k \in Wanted :
          /\ TaskOf(k) = IF GoroutineFails(k) THEN "failed" ELSE "ok"
          /\ TaskOf(k)' = TaskOf(k)
    BY <1>0, <2>1 DEF TaskOf
  <2>5. Kind!Join
    BY <2>2, <2>3, <2>4 DEF Kind!Join
  <2>6. QED  BY <2>5 DEF Kind!Next
<1>2. CASE UNCHANGED vars
  <2>1. \A k \in Wanted : TaskOf(k)' = TaskOf(k)
    BY <1>0, <1>2 DEF vars, TaskOf
  <2>2. CallerOf' = CallerOf
    BY <1>2 DEF vars, CallerOf, NoResult, Failed
  <2>3. QED  BY <2>1, <2>2, Stutter
<1>3. ASSUME NEW k \in Wanted,
             \/ Query(k) \/ QueryErrType(k) \/ QueryErrData(k) \/ Lock(k)
             \/ LookUp(k) \/ Put(k) \/ LabelMissing(k) \/ MergeErrType(k)
             \/ MergeErrData(k) \/ AllMerged(k)
      PROVE  [Kind!Next]_<<[j \in Wanted |-> TaskOf(j)], CallerOf>>
  <2>1. /\ result' = result
        /\ pc[k] # "done" /\ pc'[k] # "done"
        /\ \A j \in Wanted \ {k} : pc'[j] = pc[j]
    BY <1>3
    DEF IInv, TypeOK, Control, Goto, Query, QueryErrType, QueryErrData, Lock, LookUp, Put,
        LabelMissing, MergeErrType, MergeErrData, AllMerged
  <2>2. \A j \in Wanted : TaskOf(j)' = TaskOf(j)
    BY <1>0, <2>1 DEF TaskOf
  <2>3. CallerOf' = CallerOf
    BY <2>1 DEF CallerOf, NoResult, Failed
  <2>4. QED  BY <2>2, <2>3, Stutter
<1>4. ASSUME NEW k \in Wanted, Unlock(k)
      PROVE  Kind!Next
  <2>1. /\ result' = result
        /\ pc[k] # "done" /\ pc'[k] = "done"
        /\ \A j \in Wanted \ {k} : pc'[j] = pc[j]
    BY <1>4 DEF IInv, TypeOK, Control, Goto, Unlock
  <2>2. /\ TaskOf(k) = "running" /\ TaskOf(k)' \in {"ok", "failed"}
        /\ \A j \in Wanted \ {k} : TaskOf(j)' = TaskOf(j)
    BY <1>0, <2>1 DEF TaskOf
  <2>3. result = NoResult
    BY <2>1 DEF IInv, ResultInv
  <2>4. CallerOf = "waiting" /\ CallerOf' = CallerOf
    BY <2>1, <2>3 DEF CallerOf
  <2>5. QED  BY <2>2, <2>4, Finishes
<1>5. QED
  BY <1>1, <1>2, <1>3, <1>4 DEF Next, Goroutine

\* getStats implements ForkJoin, but for its liveness.
THEOREM Refinement == Spec => Kind!Spec
<1>1. Init => Kind!Init
  BY DEF Init, Kind!Init, TaskOf, CallerOf
<1>2. QED
  BY <1>1, StepSimulation, Invariant, PTL DEF Spec, Kind!Spec
=============================================================================
