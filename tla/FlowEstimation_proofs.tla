----------------------- MODULE FlowEstimation_proofs -----------------------
(***************************************************************************)
(* Theorems of FlowEstimation for any number of requests, any flows, lists *)
(* of flows and validity, and any bound on the clock: IInv is inductive,   *)
(* and the safety properties follow from it.                               *)
(***************************************************************************)
EXTENDS FlowEstimation, TLAPS

-----------------------------------------------------------------------------
(* The inductive invariant: what the proofs need beyond the properties     *)

\* A handler inside a section holds the mutex, and the mutex is held by
\* nobody else but a handler whose access check failed.
MutexInv ==
  /\ \A r \in Requests : InCriticalSection(r) => flowCacheMux = r
  /\ LeakOnlyByAccessCheck

\* The pipelines got so far are those of the list's beginning, and all of
\* them once the access checks are over.
PipelinesInv ==
  \A r \in Requests :
    /\ Len(flows[r]) <= Len(flowIds[r])
    /\ \A i \in 1..Len(flows[r]) : flows[r][i] = flowIds[r][i]
    /\ pc[r] \in {"idle", "lock"} => flows[r] = <<>>
    /\ pc[r] \in {"stats", "store", "storing", "done"} =>
         Len(flows[r]) = Len(flowIds[r])

\* While allFlowsCached holds, the map has an entry for every flow checked,
\* and it is as fresh as the time the handler got the mutex asks for.
CachedInv ==
  /\ \A f \in Flows : flowCache[f] # NotCached => flowCache[f].flow = f
  /\ \A f \in Flows :
       flowCache[f] # NotCached => flowCache[f].enteredAt <= now
  /\ \A r \in Requests : lockedAt[r] <= now
  /\ \A r \in Requests : pc[r] = "pipelines" /\ allFlowsCached[r] =>
       \A i \in 1..Len(flows[r]) :
         /\ flowCache[flowIds[r][i]] # NotCached
         /\ flowCache[flowIds[r][i]].enteredAt + CacheValid >= lockedAt[r]

\* The answer under construction has one estimation per flow, in order,
\* each as fresh as the handler's lock.
EstimationsInv ==
  \A r \in Requests :
    /\ pc[r] \in {"idle", "lock", "pipelines", "stats"} =>
         estimations[r] = <<>>
    /\ Len(estimations[r]) <= Len(flowIds[r])
    /\ pc[r] = "storing" => Len(estimations[r]) < Len(flowIds[r])
    /\ pc[r] = "done" => Len(estimations[r]) = Len(flowIds[r])
    /\ \A i \in 1..Len(estimations[r]) :
         /\ estimations[r][i].flow = flowIds[r][i]
         /\ estimations[r][i].enteredAt + CacheValid >= lockedAt[r]

\* A handler that stores entries made them of statistics it queried after it
\* got the mutex for the access checks.
StatsInv ==
  \A r \in Requests : pc[r] \in {"store", "storing"} =>
    statsAt[r] \in lockedAt[r]..now

IInv ==
  /\ TypeOK
  /\ MutexInv
  /\ PipelinesInv
  /\ CachedInv
  /\ EstimationsInv

-----------------------------------------------------------------------------
(* The proofs                                                              *)

\* Every step keeps the types.
LEMMA TypeStep ==
  ASSUME IInv, [Next]_vars
  PROVE  TypeOK'
<1> USE FlowListsAssumption, MaxTimeAssumption, CacheValidAssumption,
        NoRequestAssumption
    DEF IInv, TypeOK, Control, CacheEntry, locals
<1>1. CASE Tick
  <2>1. now' \in Nat  BY <1>1 DEF Tick
  <2>2. UNCHANGED <<flowCacheMux, flowCache, pc, locals>>  BY <1>1 DEF Tick
  <2>3. QED  BY <2>1, <2>2
<1>2. CASE UNCHANGED vars  BY <1>2 DEF vars
<1>3. ASSUME NEW r \in Requests, Call(r)
      PROVE  TypeOK'
  BY <1>3 DEF Call, Goto
<1>4. ASSUME NEW r \in Requests, Lock(r)
      PROVE  TypeOK'
  BY <1>4 DEF Lock, Goto
<1>5. ASSUME NEW r \in Requests, GetPipeline(r)
      PROVE  TypeOK'
  <2>1. NextFlow(r) \in Flows
    BY <1>5 DEF GetPipeline, MorePipelines, NextFlow
  <2>2. (allFlowsCached[r] /\ Valid(NextFlow(r))) \in BOOLEAN
    OBVIOUS
  <2>3. flows' \in [Requests -> Seq(Flows)]
    BY <1>5, <2>1 DEF GetPipeline
  <2>4. allFlowsCached' \in [Requests -> BOOLEAN]
    BY <1>5, <2>2 DEF GetPipeline
  <2>5. QED  BY <1>5, <2>3, <2>4 DEF GetPipeline
<1>6. ASSUME NEW r \in Requests, GetPipelineFails(r)
      PROVE  TypeOK'
  BY <1>6 DEF GetPipelineFails, Goto
<1>7. ASSUME NEW r \in Requests, AnswerFromCache(r)
      PROVE  TypeOK'
  <2>1. \A i \in 1..Len(flowIds[r]) : flowCache[flowIds[r][i]] # NotCached
    BY <1>7 DEF AnswerFromCache, Goto, MorePipelines, CachedInv, PipelinesInv
  <2>2. CachedAnswer(r) \in Seq(CacheEntry)
    BY <2>1 DEF CachedAnswer
  <2>3. QED  BY <1>7, <2>2 DEF AnswerFromCache, Goto
<1>8. ASSUME NEW r \in Requests, ReleaseForStats(r)
      PROVE  TypeOK'
  BY <1>8 DEF ReleaseForStats, Goto
<1>9. ASSUME NEW r \in Requests, GetStats(r)
      PROVE  TypeOK'
  BY <1>9 DEF GetStats, Goto
<1>10. ASSUME NEW r \in Requests, GetStatsFails(r)
      PROVE  TypeOK'
  BY <1>10 DEF GetStatsFails, Goto
<1>11. ASSUME NEW r \in Requests, LockToStore(r)
      PROVE  TypeOK'
  BY <1>11 DEF LockToStore, Goto
<1>12. ASSUME NEW r \in Requests, StoreEntry(r)
      PROVE  TypeOK'
  <2> DEFINE f == flows[r][Stored(r) + 1]
             entry == [flow |-> f, enteredAt |-> now, statsAt |-> statsAt[r]]
  <2>1. f \in Flows
    BY <1>12 DEF StoreEntry, Goto, Stored, EstimationsInv, PipelinesInv
  <2>2. entry \in CacheEntry
    BY <2>1
  <2>3. /\ flowCache' = [flowCache EXCEPT ![f] = entry]
        /\ estimations' = [estimations EXCEPT ![r] = Append(@, entry)]
        /\ pc' = [pc EXCEPT ![r] = "store"]
        /\ flowCacheMux' = NoRequest
        /\ UNCHANGED <<now, flowIds, flows, allFlowsCached, statsAt, lockedAt>>
    BY <1>12 DEF StoreEntry, Goto
  <2> HIDE DEF entry, f
  <2>4. QED  BY <2>1, <2>2, <2>3
<1>13. ASSUME NEW r \in Requests, Return(r)
      PROVE  TypeOK'
  BY <1>13 DEF Return, Goto
<1>14. QED
  BY <1>1, <1>2, <1>3, <1>4, <1>5, <1>6, <1>7, <1>8, <1>9, <1>10, <1>11, <1>12, <1>13
  DEF Next, Step

\* Every step keeps the discipline of the mutex.
LEMMA MutexStep ==
  ASSUME IInv, [Next]_vars
  PROVE  MutexInv'
<1> USE FlowListsAssumption, MaxTimeAssumption, CacheValidAssumption,
        NoRequestAssumption
    DEF IInv, TypeOK, MutexInv, LeakOnlyByAccessCheck, InCriticalSection, MorePipelines, locals
<1>1. CASE Tick  BY <1>1 DEF Tick
<1>2. CASE UNCHANGED vars  BY <1>2 DEF vars
<1>3. ASSUME NEW r \in Requests, Call(r)
      PROVE  MutexInv'
  BY <1>3 DEF Call, Goto
<1>4. ASSUME NEW r \in Requests, Lock(r)
      PROVE  MutexInv'
  BY <1>4 DEF Lock, Goto
<1>5. ASSUME NEW r \in Requests, GetPipeline(r)
      PROVE  MutexInv'
  BY <1>5 DEF GetPipeline, Goto
<1>6. ASSUME NEW r \in Requests, GetPipelineFails(r)
      PROVE  MutexInv'
  BY <1>6 DEF GetPipelineFails, Goto
<1>7. ASSUME NEW r \in Requests, AnswerFromCache(r)
      PROVE  MutexInv'
  BY <1>7 DEF AnswerFromCache, Goto
<1>8. ASSUME NEW r \in Requests, ReleaseForStats(r)
      PROVE  MutexInv'
  BY <1>8 DEF ReleaseForStats, Goto
<1>9. ASSUME NEW r \in Requests, GetStats(r)
      PROVE  MutexInv'
  BY <1>9 DEF GetStats, Goto
<1>10. ASSUME NEW r \in Requests, GetStatsFails(r)
      PROVE  MutexInv'
  BY <1>10 DEF GetStatsFails, Goto
<1>11. ASSUME NEW r \in Requests, LockToStore(r)
      PROVE  MutexInv'
  BY <1>11 DEF LockToStore, Goto
<1>12. ASSUME NEW r \in Requests, StoreEntry(r)
      PROVE  MutexInv'
  BY <1>12 DEF StoreEntry, Goto
<1>13. ASSUME NEW r \in Requests, Return(r)
      PROVE  MutexInv'
  BY <1>13 DEF Return, Goto
<1>14. QED
  BY <1>1, <1>2, <1>3, <1>4, <1>5, <1>6, <1>7, <1>8, <1>9, <1>10, <1>11, <1>12, <1>13
  DEF Next, Step

\* Every step keeps the pipelines a beginning of the list.
LEMMA PipelinesStep ==
  ASSUME IInv, [Next]_vars
  PROVE  PipelinesInv'
<1> USE FlowListsAssumption, MaxTimeAssumption, CacheValidAssumption,
        NoRequestAssumption
    DEF IInv, TypeOK, PipelinesInv, MorePipelines, locals
<1>1. CASE Tick  BY <1>1 DEF Tick
<1>2. CASE UNCHANGED vars  BY <1>2 DEF vars
<1>3. ASSUME NEW r \in Requests, Call(r)
      PROVE  PipelinesInv'
  BY <1>3 DEF Call, Goto
<1>4. ASSUME NEW r \in Requests, Lock(r)
      PROVE  PipelinesInv'
  <2>1. flows' = flows /\ flowIds' = flowIds
    BY <1>4 DEF Lock
  <2>2. \A s \in Requests \ {r} : pc'[s] = pc[s]
    BY <1>4 DEF Lock, Goto
  <2>3. pc'[r] = "pipelines"
    BY <1>4 DEF Lock, Goto
  <2> HIDE DEF TypeOK
  <2>4. QED  BY <2>1, <2>2, <2>3
<1>5. ASSUME NEW r \in Requests, GetPipeline(r)
      PROVE  PipelinesInv'
  <2>1. /\ flowIds' = flowIds /\ pc' = pc /\ pc[r] = "pipelines"
        /\ Len(flows[r]) < Len(flowIds[r])
        /\ \A s \in Requests \ {r} : flows'[s] = flows[s]
        /\ flows'[r] = Append(flows[r], flowIds[r][Len(flows[r]) + 1])
    BY <1>5 DEF GetPipeline, NextFlow
  <2>2. flows[r] \in Seq(Flows) /\ flowIds[r][Len(flows[r]) + 1] \in Flows
    BY <2>1
  <2>3. /\ Len(flows'[r]) = Len(flows[r]) + 1
        /\ \A i \in 1..Len(flows'[r]) : flows'[r][i] = flowIds[r][i]
    BY <2>1, <2>2
  <2> HIDE DEF TypeOK
  <2>4. Len(flowIds[r]) \in Nat /\ Len(flows[r]) \in Nat
    BY DEF TypeOK
  <2>5. ASSUME NEW s \in Requests
        PROVE  /\ Len(flows'[s]) <= Len(flowIds[s])
               /\ \A i \in 1..Len(flows'[s]) : flows'[s][i] = flowIds[s][i]
               /\ pc[s] \in {"idle", "lock"} => flows'[s] = <<>>
               /\ pc[s] \in {"stats", "store", "storing", "done"} =>
                    Len(flows'[s]) = Len(flowIds[s])
    <3>1. CASE s = r  BY <2>1, <2>3, <2>4, <3>1
    <3>2. CASE s # r  BY <2>1, <2>5, <3>2
    <3>3. QED  BY <3>1, <3>2
  <2>6. QED  BY <2>1, <2>5
<1>6. ASSUME NEW r \in Requests, GetPipelineFails(r)
      PROVE  PipelinesInv'
  <2>1. flows' = flows /\ flowIds' = flowIds
    BY <1>6 DEF GetPipelineFails
  <2>2. \A s \in Requests \ {r} : pc'[s] = pc[s]
    BY <1>6 DEF GetPipelineFails, Goto
  <2>3. pc'[r] = "failed"
    BY <1>6 DEF GetPipelineFails, Goto
  <2> HIDE DEF TypeOK
  <2>4. QED  BY <2>1, <2>2, <2>3
<1>7. ASSUME NEW r \in Requests, AnswerFromCache(r)
      PROVE  PipelinesInv'
  BY <1>7 DEF AnswerFromCache, Goto
<1>8. ASSUME NEW r \in Requests, ReleaseForStats(r)
      PROVE  PipelinesInv'
  BY <1>8 DEF ReleaseForStats, Goto
<1>9. ASSUME NEW r \in Requests, GetStats(r)
      PROVE  PipelinesInv'
  BY <1>9 DEF GetStats, Goto
<1>10. ASSUME NEW r \in Requests, GetStatsFails(r)
      PROVE  PipelinesInv'
  BY <1>10 DEF GetStatsFails, Goto
<1>11. ASSUME NEW r \in Requests, LockToStore(r)
      PROVE  PipelinesInv'
  BY <1>11 DEF LockToStore, Goto, Stored
<1>12. ASSUME NEW r \in Requests, StoreEntry(r)
      PROVE  PipelinesInv'
  BY <1>12 DEF StoreEntry, Goto
<1>13. ASSUME NEW r \in Requests, Return(r)
      PROVE  PipelinesInv'
  BY <1>13 DEF Return, Goto
<1>14. QED
  BY <1>1, <1>2, <1>3, <1>4, <1>5, <1>6, <1>7, <1>8, <1>9, <1>10, <1>11, <1>12, <1>13
  DEF Next, Step

\* Every step keeps the entries of the checked flows fresh.
LEMMA CachedStep ==
  ASSUME IInv, [Next]_vars
  PROVE  CachedInv'
<1> USE DEF IInv
<1>1. CASE Tick
  <2>1. /\ flowCache' = flowCache /\ pc' = pc /\ flowIds' = flowIds
        /\ flows' = flows /\ allFlowsCached' = allFlowsCached
        /\ lockedAt' = lockedAt
    BY <1>1 DEF Tick, locals
  <2>2. now \in Nat /\ now' = now + 1
    BY <1>1 DEF Tick, TypeOK
  <2>3. \A f \in Flows :
          flowCache[f] # NotCached => flowCache[f].enteredAt \in Nat
    BY DEF TypeOK, CacheEntry
  <2>4. \A f \in Flows :
          flowCache[f] # NotCached => flowCache[f].enteredAt <= now'
    BY <2>2, <2>3 DEF CachedInv
  <2>5. \A r \in Requests : lockedAt[r] <= now'
    BY <2>2 DEF CachedInv, TypeOK
  <2>6. QED  BY <2>1, <2>4, <2>5 DEF CachedInv
<1>2. CASE UNCHANGED vars  BY <1>2 DEF vars, TypeOK, CachedInv, locals
<1>3. ASSUME NEW r \in Requests, Call(r)
      PROVE  CachedInv'
  <2>1. \A s \in Requests : pc'[s] = "pipelines" =>
          s # r /\ pc[s] = "pipelines" /\ flowIds'[s] = flowIds[s]
    BY <1>3 DEF Call, Goto, TypeOK, CachedInv
  <2>2. /\ now' = now /\ flowCache' = flowCache /\ flows' = flows
        /\ allFlowsCached' = allFlowsCached /\ lockedAt' = lockedAt
    BY <1>3 DEF Call, TypeOK, CachedInv
  <2>3. QED  BY <2>1, <2>2 DEF CachedInv
<1>4. ASSUME NEW r \in Requests, Lock(r)
      PROVE  CachedInv'
  <2>1. /\ now' = now /\ flowCache' = flowCache /\ flows' = flows
        /\ flowIds' = flowIds /\ allFlowsCached' = allFlowsCached
    BY <1>4 DEF Lock
  <2>2. \A s \in Requests \ {r} : pc'[s] = pc[s] /\ lockedAt'[s] = lockedAt[s]
    BY <1>4 DEF Lock, Goto, TypeOK
  <2>3. lockedAt'[r] = now /\ Len(flows[r]) = 0
    BY <1>4 DEF Lock, Goto, TypeOK, PipelinesInv
  <2>4. now <= now  BY DEF TypeOK
  <2>5. 1..Len(flows[r]) = {}  BY <2>3
  <2>6. QED  BY <2>1, <2>2, <2>3, <2>4, <2>5 DEF CachedInv
<1>5. ASSUME NEW r \in Requests, GetPipeline(r)
      PROVE  CachedInv'
  <2>1. /\ now' = now /\ flowCache' = flowCache /\ pc' = pc
        /\ flowIds' = flowIds /\ lockedAt' = lockedAt
    BY <1>5 DEF GetPipeline, TypeOK, CachedInv
  <2>2. \A s \in Requests \ {r} : /\ flows'[s] = flows[s]
                                /\ allFlowsCached'[s] = allFlowsCached[s]
    BY <1>5 DEF GetPipeline, TypeOK, CachedInv
  <2>3. Len(flows'[r]) = Len(flows[r]) + 1
    BY <1>5 DEF GetPipeline, TypeOK, CachedInv
  <2>4. allFlowsCached'[r] => /\ allFlowsCached[r]
                              /\ Valid(flowIds[r][Len(flows[r]) + 1])
    BY <1>5 DEF GetPipeline, NextFlow, TypeOK, CachedInv
  <2>5. pc[r] = "pipelines" /\ flowIds[r][Len(flows[r]) + 1] \in Flows
    BY <1>5 DEF GetPipeline, MorePipelines, TypeOK, CachedInv
  <2>6. ASSUME allFlowsCached'[r], NEW i \in 1..Len(flows'[r])
        PROVE  /\ flowCache[flowIds[r][i]] # NotCached
               /\ flowCache[flowIds[r][i]].enteredAt + CacheValid >= lockedAt[r]
    <3>1. CASE i \in 1..Len(flows[r])
      BY <3>1, <2>4, <2>5, <2>6 DEF CachedInv
    <3>2. CASE i = Len(flows[r]) + 1
      <4>1. /\ flowCache[flowIds[r][i]] # NotCached
            /\ flowCache[flowIds[r][i]].enteredAt + CacheValid >= now
        BY <3>2, <2>4, <2>6 DEF Valid
      <4>2. flowCache[flowIds[r][i]].enteredAt \in Nat
        BY <4>1, <3>2, <2>5 DEF TypeOK, CacheEntry
      <4>3. QED  BY <4>1, <4>2, CacheValidAssumption DEF CachedInv, TypeOK
    <3>3. Len(flows[r]) \in Nat  BY DEF TypeOK
    <3>4. QED  BY <3>1, <3>2, <3>3, <2>3, <2>6
  <2>7. QED  BY <2>1, <2>2, <2>6 DEF CachedInv
<1>6. ASSUME NEW r \in Requests, GetPipelineFails(r)
      PROVE  CachedInv'
  BY <1>6 DEF GetPipelineFails, Goto, TypeOK, CachedInv, locals
<1>7. ASSUME NEW r \in Requests, AnswerFromCache(r)
      PROVE  CachedInv'
  BY <1>7 DEF AnswerFromCache, Goto, TypeOK, CachedInv, locals
<1>8. ASSUME NEW r \in Requests, ReleaseForStats(r)
      PROVE  CachedInv'
  BY <1>8 DEF ReleaseForStats, Goto, TypeOK, CachedInv, locals
<1>9. ASSUME NEW r \in Requests, GetStats(r)
      PROVE  CachedInv'
  BY <1>9 DEF GetStats, Goto, TypeOK, CachedInv, locals
<1>10. ASSUME NEW r \in Requests, GetStatsFails(r)
      PROVE  CachedInv'
  BY <1>10 DEF GetStatsFails, Goto, TypeOK, CachedInv, locals
<1>11. ASSUME NEW r \in Requests, LockToStore(r)
      PROVE  CachedInv'
  BY <1>11 DEF LockToStore, Goto, TypeOK, CachedInv, locals
<1>12. ASSUME NEW r \in Requests, StoreEntry(r)
      PROVE  CachedInv'
  <2> DEFINE f == flows[r][Stored(r) + 1]
             entry == [flow |-> f, enteredAt |-> now, statsAt |-> statsAt[r]]
  <2>1. f \in Flows
    BY <1>12 DEF StoreEntry, Goto, Stored, EstimationsInv, PipelinesInv, TypeOK, CachedInv
  <2>2. /\ flowCache' = [flowCache EXCEPT ![f] = entry]
        /\ pc' = [pc EXCEPT ![r] = "store"]
        /\ now' = now /\ flowIds' = flowIds /\ flows' = flows
        /\ allFlowsCached' = allFlowsCached /\ lockedAt' = lockedAt
    BY <1>12 DEF StoreEntry, Goto, TypeOK, CachedInv
  <2>3. /\ entry.flow = f
        /\ entry.enteredAt = now
        /\ entry # NotCached
    BY <2>1, NotCachedAssumption DEF TypeOK
  <2> HIDE DEF entry, f
  <2>4. \A g \in Flows : flowCache'[g] = IF g = f THEN entry ELSE flowCache[g]
    BY <2>1, <2>2 DEF TypeOK
  <2>5. /\ \A g \in Flows : flowCache'[g] # NotCached => flowCache'[g].flow = g
        /\ \A g \in Flows :
             flowCache'[g] # NotCached => flowCache'[g].enteredAt <= now
    <3>1. now <= now  BY DEF TypeOK
    <3>2. QED  BY <2>3, <2>4, <3>1 DEF CachedInv
  <2>6. ASSUME NEW s \in Requests, pc'[s] = "pipelines", allFlowsCached'[s],
               NEW i \in 1..Len(flows'[s])
        PROVE  /\ flowCache'[flowIds[s][i]] # NotCached
               /\ flowCache'[flowIds[s][i]].enteredAt + CacheValid >= lockedAt[s]
    <3>1. pc[s] = "pipelines" /\ allFlowsCached[s] /\ i \in 1..Len(flows[s])
      BY <2>2, <2>6 DEF TypeOK
    <3>2. flowIds[s][i] \in Flows
      BY <3>1 DEF PipelinesInv, TypeOK
    <3>3. now + CacheValid >= lockedAt[s]
      BY CacheValidAssumption DEF CachedInv, TypeOK
    <3>4. CASE flowIds[s][i] = f
      BY <2>3, <2>4, <3>2, <3>3, <3>4
    <3>5. CASE flowIds[s][i] # f
      BY <2>4, <3>1, <3>2, <3>5 DEF CachedInv
    <3>6. QED  BY <3>4, <3>5
  <2>7. QED  BY <2>2, <2>5, <2>6 DEF CachedInv
<1>13. ASSUME NEW r \in Requests, Return(r)
      PROVE  CachedInv'
  BY <1>13 DEF Return, Goto, TypeOK, CachedInv, locals
<1>14. QED
  BY <1>1, <1>2, <1>3, <1>4, <1>5, <1>6, <1>7, <1>8, <1>9, <1>10, <1>11, <1>12, <1>13
  DEF Next, Step

\* Every step keeps the answers checked and fresh.
LEMMA EstimationsStep ==
  ASSUME IInv, [Next]_vars
  PROVE  EstimationsInv'
<1> USE DEF IInv
<1>1. CASE Tick  BY <1>1 DEF Tick, TypeOK, EstimationsInv, locals
<1>2. CASE UNCHANGED vars  BY <1>2 DEF vars, TypeOK, EstimationsInv, locals
<1>3. ASSUME NEW r \in Requests, Call(r)
      PROVE  EstimationsInv'
  <2>1. \A s \in Requests \ {r} : pc'[s] = pc[s] /\ flowIds'[s] = flowIds[s]
    BY <1>3 DEF Call, Goto, TypeOK, EstimationsInv
  <2>2. /\ pc'[r] = "lock"
        /\ estimations[r] = <<>>
        /\ Len(flowIds'[r]) \in Nat
    BY <1>3 DEF Call, Goto, TypeOK, EstimationsInv
  <2>3. estimations' = estimations /\ lockedAt' = lockedAt
    BY <1>3 DEF Call, TypeOK, EstimationsInv
  <2>4. QED  BY <2>1, <2>2, <2>3 DEF EstimationsInv
<1>4. ASSUME NEW r \in Requests, Lock(r)
      PROVE  EstimationsInv'
  <2>1. \A s \in Requests \ {r} : pc'[s] = pc[s] /\ lockedAt'[s] = lockedAt[s]
    BY <1>4 DEF Lock, Goto, TypeOK, EstimationsInv
  <2>2. pc'[r] = "pipelines" /\ estimations[r] = <<>>
    BY <1>4 DEF Lock, Goto, TypeOK, EstimationsInv
  <2>3. estimations' = estimations /\ flowIds' = flowIds
    BY <1>4 DEF Lock, TypeOK, EstimationsInv
  <2>4. QED  BY <2>1, <2>2, <2>3 DEF EstimationsInv
<1>5. ASSUME NEW r \in Requests, GetPipeline(r)
      PROVE  EstimationsInv'
  BY <1>5 DEF GetPipeline, Goto, TypeOK, EstimationsInv, locals
<1>6. ASSUME NEW r \in Requests, GetPipelineFails(r)
      PROVE  EstimationsInv'
  BY <1>6 DEF GetPipelineFails, Goto, TypeOK, EstimationsInv, locals
<1>7. ASSUME NEW r \in Requests, AnswerFromCache(r)
      PROVE  EstimationsInv'
  <2>1. \A s \in Requests \ {r} :
          pc'[s] = pc[s] /\ estimations'[s] = estimations[s]
    BY <1>7 DEF AnswerFromCache, Goto, TypeOK, EstimationsInv
  <2>2. pc'[r] = "done" /\ estimations'[r] = CachedAnswer(r)
    BY <1>7 DEF AnswerFromCache, Goto, TypeOK, EstimationsInv
  <2>3. flowIds' = flowIds /\ lockedAt' = lockedAt
    BY <1>7 DEF AnswerFromCache, TypeOK, EstimationsInv
  <2>4. \A i \in 1..Len(flowIds[r]) :
          /\ flowCache[flowIds[r][i]] # NotCached
          /\ flowCache[flowIds[r][i]].enteredAt + CacheValid >= lockedAt[r]
    BY <1>7 DEF AnswerFromCache, Goto, MorePipelines, CachedInv, PipelinesInv, TypeOK, EstimationsInv
  <2>5. \A i \in 1..Len(flowIds[r]) :
          flowCache[flowIds[r][i]].flow = flowIds[r][i]
    BY <2>4 DEF CachedInv, TypeOK
  <2>6. /\ Len(CachedAnswer(r)) = Len(flowIds[r])
        /\ \A i \in 1..Len(flowIds[r]) :
             CachedAnswer(r)[i] = flowCache[flowIds[r][i]]
    BY DEF CachedAnswer, TypeOK
  <2>7. /\ Len(estimations'[r]) = Len(flowIds[r])
        /\ \A i \in 1..Len(estimations'[r]) :
             /\ estimations'[r][i].flow = flowIds[r][i]
             /\ estimations'[r][i].enteredAt + CacheValid >= lockedAt[r]
    BY <2>2, <2>4, <2>5, <2>6
  <2>8. Len(flowIds[r]) \in Nat  BY DEF TypeOK
  <2>9. QED  BY <2>1, <2>2, <2>3, <2>7, <2>8 DEF EstimationsInv
<1>8. ASSUME NEW r \in Requests, ReleaseForStats(r)
      PROVE  EstimationsInv'
  BY <1>8 DEF ReleaseForStats, Goto, TypeOK, EstimationsInv, locals
<1>9. ASSUME NEW r \in Requests, GetStats(r)
      PROVE  EstimationsInv'
  BY <1>9 DEF GetStats, Goto, TypeOK, EstimationsInv, locals
<1>10. ASSUME NEW r \in Requests, GetStatsFails(r)
      PROVE  EstimationsInv'
  BY <1>10 DEF GetStatsFails, Goto, TypeOK, EstimationsInv, locals
<1>11. ASSUME NEW r \in Requests, LockToStore(r)
      PROVE  EstimationsInv'
  BY <1>11 DEF LockToStore, Goto, Stored, PipelinesInv, TypeOK, EstimationsInv, locals
<1>12. ASSUME NEW r \in Requests, StoreEntry(r)
      PROVE  EstimationsInv'
  <2> DEFINE f == flows[r][Stored(r) + 1]
             entry == [flow |-> f, enteredAt |-> now, statsAt |-> statsAt[r]]
  <2>1. \A s \in Requests \ {r} :
          pc'[s] = pc[s] /\ estimations'[s] = estimations[s]
    BY <1>12 DEF StoreEntry, Goto, TypeOK, EstimationsInv
  <2>2. pc'[r] = "store" /\ estimations'[r] = Append(estimations[r], entry)
    BY <1>12 DEF StoreEntry, Goto, TypeOK, EstimationsInv
  <2>3. flowIds' = flowIds /\ lockedAt' = lockedAt
    BY <1>12 DEF StoreEntry, TypeOK, EstimationsInv
  <2>4. /\ Len(estimations[r]) + 1 <= Len(flowIds[r])
        /\ f = flowIds[r][Len(estimations[r]) + 1]
    BY <1>12 DEF StoreEntry, Goto, Stored, PipelinesInv, TypeOK, EstimationsInv
  <2>5. entry.flow = f /\ entry.enteredAt + CacheValid >= lockedAt[r]
    BY CacheValidAssumption DEF CachedInv, TypeOK
  <2> entry \in CacheEntry
    BY <2>4, <1>12 DEF TypeOK, CacheEntry, StoreEntry, Goto, EstimationsInv
  <2> HIDE DEF entry, f
  <2>6. /\ Len(estimations'[r]) = Len(estimations[r]) + 1
        /\ estimations'[r][Len(estimations[r]) + 1] = entry
        /\ \A i \in 1..Len(estimations[r]) :
             estimations'[r][i] = estimations[r][i]
    BY <2>2 DEF TypeOK, EstimationsInv
  <2>7. \A i \in 1..Len(estimations'[r]) :
          /\ estimations'[r][i].flow = flowIds[r][i]
          /\ estimations'[r][i].enteredAt + CacheValid >= lockedAt[r]
    <3>1. Len(estimations[r]) \in Nat  BY DEF TypeOK
    <3> SUFFICES ASSUME NEW i \in 1..Len(estimations'[r])
                 PROVE  /\ estimations'[r][i].flow = flowIds[r][i]
                        /\ estimations'[r][i].enteredAt + CacheValid >= lockedAt[r]
      OBVIOUS
    <3>2. CASE i \in 1..Len(estimations[r])
      BY <2>6, <3>2 DEF EstimationsInv
    <3>3. CASE i = Len(estimations[r]) + 1
      BY <2>4, <2>5, <2>6, <3>3
    <3>4. QED  BY <2>6, <3>1, <3>2, <3>3
  <2>8. Len(estimations'[r]) <= Len(flowIds[r])  BY <2>4, <2>6
  <2>9. ASSUME NEW s \in Requests
        PROVE  /\ pc'[s] \in {"idle", "lock", "pipelines", "stats"} =>
                    estimations'[s] = <<>>
               /\ Len(estimations'[s]) <= Len(flowIds[s])
               /\ pc'[s] = "storing" => Len(estimations'[s]) < Len(flowIds[s])
               /\ pc'[s] = "done" => Len(estimations'[s]) = Len(flowIds[s])
               /\ \A i \in 1..Len(estimations'[s]) :
                    /\ estimations'[s][i].flow = flowIds[s][i]
                    /\ estimations'[s][i].enteredAt + CacheValid >= lockedAt[s]
    <3>1. CASE s = r  BY <3>1, <2>2, <2>7, <2>8
    <3>2. CASE s # r  BY <3>2, <2>1 DEF EstimationsInv
    <3>3. QED  BY <3>1, <3>2
  <2>10. QED  BY <2>3, <2>9 DEF EstimationsInv
<1>13. ASSUME NEW r \in Requests, Return(r)
      PROVE  EstimationsInv'
  BY <1>13 DEF Return, Goto, Stored, PipelinesInv, TypeOK, EstimationsInv, locals
<1>14. QED
  BY <1>1, <1>2, <1>3, <1>4, <1>5, <1>6, <1>7, <1>8, <1>9, <1>10, <1>11, <1>12, <1>13
  DEF Next, Step

\* The invariant holds initially and is kept by every step.
THEOREM Invariant == Spec => []IInv
<1>1. Init => IInv
  BY FlowListsAssumption, NoRequestAssumption
  DEF Init, IInv, TypeOK, Control, MutexInv, LeakOnlyByAccessCheck,
      InCriticalSection, PipelinesInv, CachedInv, EstimationsInv
<1>2. IInv /\ [Next]_vars => IInv'
  BY TypeStep, MutexStep, PipelinesStep, CachedStep, EstimationsStep DEF IInv
<1>3. QED  BY <1>1, <1>2, PTL DEF Spec

\* The variables keep their types.
THEOREM TypeCorrect == Spec => []TypeOK
<1>1. IInv => TypeOK  BY DEF IInv
<1>2. QED  BY <1>1, Invariant, PTL

\* The shared map is only ever read or written by one handler at a time.
THEOREM Exclusion == Spec => []MutualExclusion
<1>1. IInv => MutualExclusion
  BY NoRequestAssumption DEF IInv, MutexInv, MutualExclusion
<1>2. QED  BY <1>1, Invariant, PTL

\* No answer without the access check of every flow in it.
THEOREM Checked == Spec => []AnswerIsChecked
<1>1. IInv => AnswerIsChecked
  <2> SUFFICES ASSUME IInv, NEW r \in Requests, pc[r] = "done"
               PROVE  /\ flows[r] = flowIds[r]
                      /\ Len(estimations[r]) = Len(flowIds[r])
                      /\ \A i \in 1..Len(flowIds[r]) :
                           estimations[r][i].flow = flowIds[r][i]
    BY DEF AnswerIsChecked
  <2>1. /\ flows[r] \in Seq(Flows)
        /\ flowIds[r] \in Seq(Flows)
        /\ Len(flows[r]) = Len(flowIds[r])
        /\ \A i \in 1..Len(flows[r]) : flows[r][i] = flowIds[r][i]
    BY DEF IInv, TypeOK, PipelinesInv
  <2>2. flows[r] = flowIds[r]
    BY <2>1
  <2>3. QED  BY <2>2 DEF IInv, EstimationsInv
<1>2. QED  BY <1>1, Invariant, PTL

\* No answer made of an entry that had expired when the mutex was taken.
THEOREM Fresh == Spec => []AnswerIsFresh
<1>1. IInv => AnswerIsFresh  BY DEF IInv, EstimationsInv, AnswerIsFresh
<1>2. QED  BY <1>1, Invariant, PTL

\* Only a failed access check leaves the mutex locked for ever.
THEOREM LeakCause == Spec => []LeakOnlyByAccessCheck
<1>1. IInv => LeakOnlyByAccessCheck  BY DEF IInv, MutexInv
<1>2. QED  BY <1>1, Invariant, PTL

\* Entries are never dropped nor replaced by earlier ones.
THEOREM Renewed == Spec => CacheOnlyRenewed
<1> DEFINE Renewal == \A f \in Flows : flowCache[f] # NotCached =>
                        /\ flowCache'[f] # NotCached
                        /\ flowCache'[f].enteredAt >= flowCache[f].enteredAt
<1>1. IInv /\ [Next]_vars => Renewal
  <2> SUFFICES ASSUME IInv, [Next]_vars, NEW f \in Flows,
                      flowCache[f] # NotCached
               PROVE  /\ flowCache'[f] # NotCached
                      /\ flowCache'[f].enteredAt >= flowCache[f].enteredAt
    OBVIOUS
  <2>1. flowCache[f].enteredAt \in Nat /\ flowCache[f].enteredAt <= now
    BY DEF IInv, TypeOK, CacheEntry, CachedInv
  <2>2. CASE UNCHANGED flowCache
    BY <2>1, <2>2
  <2>3. ASSUME NEW r \in Requests, StoreEntry(r)
        PROVE  /\ flowCache'[f] # NotCached
               /\ flowCache'[f].enteredAt >= flowCache[f].enteredAt
    <3> DEFINE g == flows[r][Stored(r) + 1]
               entry == [flow |-> g, enteredAt |-> now, statsAt |-> statsAt[r]]
    <3>1. g \in Flows /\ now \in Nat /\ statsAt[r] \in Nat
      BY <2>3 DEF IInv, TypeOK, StoreEntry, Goto, Stored, EstimationsInv,
                  PipelinesInv
    <3>2. entry # NotCached /\ entry.enteredAt = now
      BY <3>1, NotCachedAssumption
    <3>3. flowCache' = [flowCache EXCEPT ![g] = entry]
      BY <2>3 DEF StoreEntry
    <3> HIDE DEF entry, g
    <3>4. flowCache'[f] = IF f = g THEN entry ELSE flowCache[f]
      BY <3>1, <3>3 DEF IInv, TypeOK
    <3>5. now >= flowCache[f].enteredAt
      BY <2>1, <3>1
    <3>6. QED  BY <2>1, <3>2, <3>4, <3>5
  <2>4. QED
    BY <2>2, <2>3 DEF Next, Step, vars, locals, Tick, Call, Lock, GetPipeline,
       GetPipelineFails, AnswerFromCache, ReleaseForStats, GetStats,
       GetStatsFails, LockToStore, Return
<1>2. QED  BY <1>1, Invariant, PTL DEF Spec, CacheOnlyRenewed
-----------------------------------------------------------------------------
(* The refinement                                                          *)

\* Every step keeps the statistics taken between the lock and now.
LEMMA StatsStep ==
  ASSUME IInv, StatsInv, [Next]_vars
  PROVE  StatsInv'
<1>0. \A r \in Requests : /\ lockedAt[r] \in Nat /\ lockedAt[r] <= now
                          /\ statsAt[r] \in Nat /\ now \in Nat
  BY DEF IInv, TypeOK, CachedInv
<1>1. CASE Tick
  <2>1. /\ pc' = pc /\ statsAt' = statsAt /\ lockedAt' = lockedAt
        /\ now' = now + 1
    BY <1>1 DEF Tick, locals
  <2>2. QED  BY <1>0, <2>1 DEF StatsInv
<1>2. ASSUME NEW r \in Requests, GetStats(r)
      PROVE  StatsInv'
  <2>1. /\ now' = now /\ lockedAt' = lockedAt
        /\ statsAt'[r] = now
        /\ \A q \in Requests \ {r} : pc'[q] = pc[q] /\ statsAt'[q] = statsAt[q]
    BY <1>2 DEF GetStats, Goto, IInv, TypeOK
  <2>2. now \in lockedAt[r]..now
    BY <1>0
  <2>3. QED  BY <2>1, <2>2 DEF StatsInv
<1>3. ASSUME NEW r \in Requests, Lock(r)
      PROVE  StatsInv'
  <2>1. /\ now' = now /\ statsAt' = statsAt /\ pc'[r] = "pipelines"
        /\ \A q \in Requests \ {r} : pc'[q] = pc[q] /\ lockedAt'[q] = lockedAt[q]
    BY <1>3 DEF Lock, Goto, IInv, TypeOK
  <2>2. QED  BY <2>1 DEF StatsInv
<1>4. ASSUME NEW r \in Requests,
             \/ Call(r) \/ GetPipelineFails(r) \/ AnswerFromCache(r)
             \/ ReleaseForStats(r) \/ GetStatsFails(r) \/ Return(r)
      PROVE  StatsInv'
  <2>1. /\ now' = now /\ statsAt' = statsAt /\ lockedAt' = lockedAt
        /\ pc'[r] \in {"lock", "failed", "done", "stats"}
        /\ \A q \in Requests \ {r} : pc'[q] = pc[q]
    BY <1>4 DEF Call, GetPipelineFails, AnswerFromCache, ReleaseForStats,
       GetStatsFails, Return, Goto, locals, IInv, TypeOK
  <2>2. QED  BY <2>1 DEF StatsInv
<1>5. ASSUME NEW r \in Requests, LockToStore(r) \/ StoreEntry(r)
      PROVE  StatsInv'
  <2>1. /\ now' = now /\ statsAt' = statsAt /\ lockedAt' = lockedAt
        /\ pc[r] \in {"store", "storing"}
        /\ \A q \in Requests \ {r} : pc'[q] = pc[q]
    BY <1>5 DEF LockToStore, StoreEntry, Goto, locals, IInv, TypeOK
  <2>2. QED  BY <2>1 DEF StatsInv
<1>6. ASSUME NEW r \in Requests, GetPipeline(r)
      PROVE  StatsInv'
  BY <1>6 DEF GetPipeline, StatsInv
<1>7. CASE UNCHANGED vars
  BY <1>7 DEF vars, StatsInv
<1>8. QED
  BY <1>1, <1>2, <1>3, <1>4, <1>5, <1>6, <1>7 DEF Next, Step

\* Entries are made of statistics that are no older than the call.
THEOREM StatsInvariant == Spec => []StatsInv
<1>1. Init => StatsInv
  BY DEF Init, StatsInv
<1>2. IInv /\ StatsInv /\ [Next]_vars => StatsInv'
  BY StatsStep
<1>3. QED  BY <1>1, <1>2, Invariant, PTL DEF Spec

\* What callers see of a handler's places.
LEMMA Statuses ==
  /\ Status("idle") = "idle" /\ Status("lock") = "asked"
  /\ Status("pipelines") = "served" /\ Status("stats") = "served"
  /\ Status("store") = "served" /\ Status("storing") = "served"
  /\ Status("done") = "answered" /\ Status("failed") = "failed"
BY DEF Status

\* A handler's going to another place is its call's becoming something else,
\* or nothing callers see.
LEMMA Becoming ==
  ASSUME pc \in [Requests -> Control], NEW r \in Requests, NEW from, NEW to, Goto(r, from, to)
  PROVE  /\ Status(from) # Status(to) => Cache!Becomes(r, Status(from), Status(to))
         /\ Status(from) = Status(to) =>
              [q \in Requests |-> Status(pc[q])]' = [q \in Requests |-> Status(pc[q])]
<1>1. /\ pc[r] = from /\ pc'[r] = to
      /\ \A q \in Requests \ {r} : pc'[q] = pc[q]
  BY DEF Goto
<1>2. \A q \in Requests : Status(pc'[q]) = IF q = r THEN Status(to) ELSE Status(pc[q])
  BY <1>1
<1>3. QED  BY <1>1, <1>2 DEF Cache!Becomes

\* A handler that queried statistics stores an entry.
LEMMA StoreEnters ==
  ASSUME IInv, StatsInv, NEW r \in Requests, StoreEntry(r)
  PROVE  Cache!Enter(r)
<1> DEFINE flow == flows[r][Stored(r) + 1]
           entry == [flow |-> flow, enteredAt |-> now, statsAt |-> statsAt[r]]
<1>1. /\ Goto(r, "storing", "store")
      /\ flowCache' = [flowCache EXCEPT ![flow] = entry]
      /\ estimations' = [estimations EXCEPT ![r] = Append(@, entry)]
      /\ UNCHANGED <<now, flowIds, flows, lockedAt>>
  BY DEF StoreEntry
<1>2. pc[r] = "storing" /\ pc \in [Requests -> Control]
  BY <1>1 DEF Goto, IInv, TypeOK
<1>3. /\ Len(flows[r]) = Len(flowIds[r])
      /\ Len(estimations[r]) < Len(flowIds[r])
  BY <1>2 DEF IInv, PipelinesInv, EstimationsInv
<1>4. flow = flowIds[r][Len(estimations[r]) + 1]
  BY <1>3 DEF Stored, IInv, TypeOK, PipelinesInv
<1>5. statsAt[r] \in lockedAt[r]..now
  BY <1>2 DEF StatsInv
<1>6. [q \in Requests |-> Status(pc[q])]' = [q \in Requests |-> Status(pc[q])]
  BY <1>1, <1>2, Becoming, Statuses
<1>7. [q \in Requests |-> Len(flows[q])]' = [q \in Requests |-> Len(flows[q])]
  BY <1>1
<1>8. Status(pc[r]) = "served"
  BY <1>2, Statuses
<1> HIDE DEF flow
<1>9. QED
  BY <1>1, <1>3, <1>4, <1>5, <1>6, <1>7, <1>8 DEF Cache!Enter, Cache!AllGranted

\* A handler that found all entries valid answers with them.
LEMMA CacheAnswers ==
  ASSUME IInv, NEW r \in Requests, AnswerFromCache(r)
  PROVE  Cache!AnswerFromCache(r)
<1>1. /\ Goto(r, "pipelines", "done")
      /\ Len(flows[r]) = Len(flowIds[r])
      /\ allFlowsCached[r]
      /\ estimations' = [estimations EXCEPT ![r] = CachedAnswer(r)]
      /\ UNCHANGED <<now, flowCache, flowIds, flows, lockedAt>>
  BY DEF AnswerFromCache, MorePipelines, IInv, TypeOK, PipelinesInv
<1>2. DOMAIN flowIds[r] = 1..Len(flowIds[r])
  BY DEF IInv, TypeOK
<1>3. \A i \in 1..Len(flowIds[r]) :
        Cache!ValidSince(flowCache[flowIds[r][i]], lockedAt[r])
  BY <1>1 DEF Goto, IInv, CachedInv, Cache!ValidSince
<1>4. Cache!Becomes(r, "served", "answered")
  BY <1>1, Becoming, Statuses DEF IInv, TypeOK
<1>5. CachedAnswer(r) = [i \in DOMAIN flowIds[r] |-> flowCache[flowIds[r][i]]]
  BY <1>2 DEF CachedAnswer
<1>6. [q \in Requests |-> Len(flows[q])]' = [q \in Requests |-> Len(flows[q])]
  BY <1>1
<1>7. QED
  BY <1>1, <1>2, <1>3, <1>4, <1>5, <1>6
  DEF Cache!AnswerFromCache, Cache!AllGranted

\* Every step is one of CheckedCache, or a stutter.
LEMMA StepSimulation ==
  ASSUME IInv, StatsInv, [Next]_vars
  PROVE  [Cache!Next]_<<now, flowCache, [r \in Requests |-> Status(pc[r])],
                        flowIds, lockedAt, [r \in Requests |-> Len(flows[r])],
                        estimations>>
<1> DEFINE status == [r \in Requests |-> Status(pc[r])]
           granted == [r \in Requests |-> Len(flows[r])]
<1>0. pc \in [Requests -> Control]
  BY DEF IInv, TypeOK
<1>1. CASE Tick
  <2>1. Cache!Tick
    BY <1>1 DEF Tick, locals, Cache!Tick
  <2>2. QED  BY <2>1 DEF Cache!Next
<1>2. CASE UNCHANGED vars
  BY <1>2 DEF vars
<1>3. ASSUME NEW r \in Requests, Call(r)
      PROVE  Cache!Next
  <2>1. Cache!Becomes(r, "idle", "asked")
    BY <1>0, <1>3, Becoming, Statuses DEF Call
  <2>2. Cache!Ask(r)
    BY <1>3, <2>1 DEF Call, Cache!Ask
  <2>3. QED  BY <2>2 DEF Cache!Next
<1>4. ASSUME NEW r \in Requests, Lock(r)
      PROVE  Cache!Next
  <2>1. Cache!Becomes(r, "asked", "served")
    BY <1>0, <1>4, Becoming, Statuses DEF Lock
  <2>2. Cache!Serve(r)
    BY <1>4, <2>1 DEF Lock, Cache!Serve
  <2>3. QED  BY <2>2 DEF Cache!Next
<1>5. ASSUME NEW r \in Requests, GetPipeline(r)
      PROVE  Cache!Next
  <2>1. /\ pc[r] = "pipelines" /\ Len(flows[r]) < Len(flowIds[r])
        /\ flows' = [flows EXCEPT ![r] = Append(@, NextFlow(r))]
        /\ UNCHANGED <<now, flowCache, pc, flowIds, estimations, lockedAt>>
    BY <1>5 DEF GetPipeline, MorePipelines
  <2>2. Status(pc[r]) = "served"
    BY <2>1, Statuses
  <2>3. NextFlow(r) \in Flows
    BY <2>1 DEF NextFlow, IInv, TypeOK
  <2>4. granted' = [granted EXCEPT ![r] = @ + 1]
    <3>1. \A q \in Requests : Len(flows'[q]) = IF q = r THEN Len(flows[q]) + 1 ELSE Len(flows[q])
      BY <2>1, <2>3 DEF IInv, TypeOK
    <3>2. QED  BY <3>1
  <2>5. ~Cache!AllGranted(r)
    BY <2>1 DEF Cache!AllGranted, IInv, TypeOK
  <2>6. Cache!Grant(r)
    BY <2>1, <2>2, <2>4, <2>5 DEF Cache!Grant
  <2>7. QED  BY <2>6 DEF Cache!Next
<1>6. ASSUME NEW r \in Requests, GetPipelineFails(r) \/ GetStatsFails(r)
      PROVE  Cache!Next
  <2>1. Cache!Becomes(r, "served", "failed")
    BY <1>0, <1>6, Becoming, Statuses DEF GetPipelineFails, GetStatsFails
  <2>2. Cache!Fail(r)
    BY <1>6, <2>1 DEF GetPipelineFails, GetStatsFails, locals, Cache!Fail
  <2>3. QED  BY <2>2 DEF Cache!Next
<1>7. ASSUME NEW r \in Requests, AnswerFromCache(r)
      PROVE  Cache!Next
  BY <1>7, CacheAnswers DEF Cache!Next
<1>8. ASSUME NEW r \in Requests, ReleaseForStats(r) \/ GetStats(r) \/ LockToStore(r)
      PROVE  UNCHANGED <<now, flowCache, status, flowIds, lockedAt, granted, estimations>>
  <2>1. status' = status
    BY <1>0, <1>8, Becoming, Statuses DEF ReleaseForStats, GetStats, LockToStore
  <2>2. QED
    BY <1>8, <2>1 DEF ReleaseForStats, GetStats, LockToStore, locals
<1>9. ASSUME NEW r \in Requests, StoreEntry(r)
      PROVE  Cache!Next
  BY <1>9, StoreEnters DEF Cache!Next
<1>10. ASSUME NEW r \in Requests, Return(r)
       PROVE  Cache!Next
  <2>1. Cache!Becomes(r, "served", "answered")
    BY <1>0, <1>10, Becoming, Statuses DEF Return
  <2>2. Len(flows[r]) = Len(flowIds[r]) /\ Len(estimations[r]) = Len(flowIds[r])
    BY <1>10 DEF Return, Stored, Goto, IInv, TypeOK, PipelinesInv, EstimationsInv
  <2>3. Cache!AnswerOwn(r)
    BY <1>10, <2>1, <2>2 DEF Return, locals, Cache!AnswerOwn, Cache!AllGranted
  <2>4. QED  BY <2>3 DEF Cache!Next
<1>11. QED
  BY <1>1, <1>2, <1>3, <1>4, <1>5, <1>6, <1>7, <1>8, <1>9, <1>10 DEF Next, Step

\* GetFlowEstimations implements the cache its callers are promised.
THEOREM Refinement == Spec => ImplementsCheckedCache
<1>1. Init => Cache!Init
  BY Statuses DEF Init, Cache!Init
<1>2. QED
  BY <1>1, StepSimulation, Invariant, StatsInvariant, PTL
  DEF Spec, ImplementsCheckedCache, Cache!Spec
=============================================================================
