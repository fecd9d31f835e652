--------------------------- MODULE FlowEstimation ---------------------------
(***************************************************************************)
(* Controller.GetFlowEstimations: concurrent HTTP handlers estimate the    *)
(* monthly cost of analytics flows.  A handler first asks the flow parser  *)
(* for every pipeline (which is also the access check), all the while      *)
(* holding flowCacheMux; it then answers from flowCache if every flow has  *)
(* a valid entry, and otherwise queries the pod statistics without the     *)
(* mutex and stores one entry per flow, taking the mutex for each.         *)
(*                                                                         *)
(* An estimation is abstracted to the flow it is for and to the time its   *)
(* statistics were queried: its numbers, sums of the month's costs of the  *)
(* flow's operators, have no part in what the handler does.  Time is a     *)
(* counter that may advance between any two steps.                         *)
(***************************************************************************)
EXTENDS Integers, Sequences

CONSTANTS
  Requests,     \* handler goroutines, one call of GetFlowEstimations each
  Flows,        \* flow ids
  FlowLists,    \* the lists of flow ids a caller may send
  CacheValid,   \* const cacheValid (one hour), in clock units
  MaxTime,      \* bound on the clock
  NoRequest,    \* the mutex is free
  NotCached     \* flowCache has no such key

ASSUME FlowListsAssumption == FlowLists \subseteq Seq(Flows)
ASSUME CacheValidAssumption == CacheValid \in Nat
ASSUME MaxTimeAssumption == MaxTime \in Nat
ASSUME NoRequestAssumption == NoRequest \notin Requests
ASSUME NotCachedAssumption ==
  NotCached \notin [flow : Flows, enteredAt : Nat, statsAt : Nat]

VARIABLES
  now,             \* time.Now()
  flowCacheMux,    \* the request that locked c.flowCacheMux, or NoRequest
  flowCache,       \* c.flowCache
  pc,              \* where each handler is
  flowIds,         \* its argument
  flows,           \* the pipelines it has got, by their FlowId
  allFlowsCached,  \* its local of that name
  statsAt,         \* when its getStats call queried the statistics
  estimations,     \* its result
  lockedAt         \* history: when it got the mutex for the access checks

vars == <<now, flowCacheMux, flowCache, pc, flowIds, flows, allFlowsCached,
          statsAt, estimations, lockedAt>>

locals == <<flowIds, flows, allFlowsCached, statsAt, estimations, lockedAt>>

CacheEntry == [flow : Flows, enteredAt : Nat, statsAt : Nat]

Control == {"idle", "lock", "pipelines", "stats", "store", "storing",
            "done", "failed"}

TypeOK ==
  /\ now \in Nat
  /\ flowCacheMux \in Requests \cup {NoRequest}
  /\ flowCache \in [Flows -> CacheEntry \cup {NotCached}]
  /\ pc \in [Requests -> Control]
  /\ flowIds \in [Requests -> Seq(Flows)]
  /\ flows \in [Requests -> Seq(Flows)]
  /\ allFlowsCached \in [Requests -> BOOLEAN]
  /\ statsAt \in [Requests -> Nat]
  /\ estimations \in [Requests -> Seq(CacheEntry)]
  /\ lockedAt \in [Requests -> Nat]

Init ==
  /\ now = 0
  /\ flowCacheMux = NoRequest
  /\ flowCache = [f \in Flows |-> NotCached]
  /\ pc = [r \in Requests |-> "idle"]
  /\ flowIds = [r \in Requests |-> <<>>]
  /\ flows = [r \in Requests |-> <<>>]
  /\ allFlowsCached = [r \in Requests |-> TRUE]
  /\ statsAt = [r \in Requests |-> 0]
  /\ estimations = [r \in Requests |-> <<>>]
  /\ lockedAt = [r \in Requests |-> 0]

-----------------------------------------------------------------------------
(* Helpers                                                                 *)

Goto(r, from, to) ==
  /\ pc[r] = from
  /\ pc' = [pc EXCEPT ![r] = to]

\* Bug: the expiry test is the wrong way round.
ValidExpiryInverted(f) ==
  /\ flowCache[f] # NotCached
  /\ flowCache[f].enteredAt + CacheValid <= now

\* The entry of f exists and enteredAt + cacheValid is not before now.
Valid(f) ==
  /\ flowCache[f] # NotCached
  /\ flowCache[f].enteredAt + CacheValid >= now

-----------------------------------------------------------------------------
(* Actions                                                                 *)

Tick ==
  /\ now < MaxTime
  /\ now' = now + 1
  /\ UNCHANGED <<flowCacheMux, flowCache, pc, locals>>

\* The endpoint decoded the request and calls GetFlowEstimations.
Call(r) ==
  /\ Goto(r, "idle", "lock")
  /\ \E ids \in FlowLists : flowIds' = [flowIds EXCEPT ![r] = ids]
  /\ UNCHANGED <<now, flowCacheMux, flowCache, flows, allFlowsCached, statsAt,
                 estimations, lockedAt>>

\* Bug: the access checks run without waiting for the mutex.
LockUnguarded(r) ==
  /\ Goto(r, "lock", "pipelines")
  /\ flowCacheMux' = r
  /\ lockedAt' = [lockedAt EXCEPT ![r] = now]
  /\ UNCHANGED <<now, flowCache, flowIds, flows, allFlowsCached, statsAt,
                 estimations>>

Lock(r) ==
  /\ Goto(r, "lock", "pipelines")
  /\ flowCacheMux = NoRequest
  /\ flowCacheMux' = r
  /\ lockedAt' = [lockedAt EXCEPT ![r] = now]
  /\ UNCHANGED <<now, flowCache, flowIds, flows, allFlowsCached, statsAt,
                 estimations>>

NextFlow(r) == flowIds[r][Len(flows[r]) + 1]

MorePipelines(r) == Len(flows[r]) < Len(flowIds[r])

\* Bug: only the last flow of the list decides whether all are cached.
GetPipelineForgetful(r) ==
  /\ pc[r] = "pipelines"
  /\ MorePipelines(r)
  /\ flows' = [flows EXCEPT ![r] = Append(@, NextFlow(r))]
  /\ allFlowsCached' = [allFlowsCached EXCEPT ![r] = Valid(NextFlow(r))]
  /\ UNCHANGED <<now, flowCacheMux, flowCache, pc, flowIds, statsAt,
                 estimations, lockedAt>>

\* The parser grants the next flow, and answers with the id it was asked
\* for: StoreEntry stores by the one, Valid reads by the other.  Its cache entry
\* is looked at only as long as every flow before it was cached.
GetPipeline(r) ==
  /\ pc[r] = "pipelines"
  /\ MorePipelines(r)
  /\ flows' = [flows EXCEPT ![r] = Append(@, NextFlow(r))]
  /\ allFlowsCached' =
       [allFlowsCached EXCEPT ![r] = @ /\ Valid(NextFlow(r))]
  /\ UNCHANGED <<now, flowCacheMux, flowCache, pc, flowIds, statsAt,
                 estimations, lockedAt>>

\* The parser denies the flow or cannot be reached: the handler returns,
\* and the mutex stays locked.
GetPipelineFails(r) ==
  /\ MorePipelines(r)
  /\ Goto(r, "pipelines", "failed")
  /\ UNCHANGED <<now, flowCacheMux, flowCache, locals>>

CachedAnswer(r) == [i \in 1..Len(flowIds[r]) |-> flowCache[flowIds[r][i]]]

\* Bug: a cached flow is answered without asking the parser.
AnswerAnyCachedFlow(r) ==
  /\ Goto(r, "pipelines", "done")
  /\ \A i \in 1..Len(flowIds[r]) : Valid(flowIds[r][i])
  /\ estimations' = [estimations EXCEPT ![r] = CachedAnswer(r)]
  /\ flowCacheMux' = NoRequest
  /\ UNCHANGED <<now, flowCache, flowIds, flows, allFlowsCached, statsAt,
                 lockedAt>>

\* Every entry was valid when its flow was checked: answer with the entries
\* the map has now, and unlock.
AnswerFromCache(r) ==
  /\ Goto(r, "pipelines", "done")
  /\ ~MorePipelines(r)
  /\ allFlowsCached[r]
  /\ estimations' = [estimations EXCEPT ![r] = CachedAnswer(r)]
  /\ flowCacheMux' = NoRequest
  /\ UNCHANGED <<now, flowCache, flowIds, flows, allFlowsCached, statsAt,
                 lockedAt>>

\* Bug: the mutex is kept while the statistics are queried.
KeepMutexForStats(r) ==
  /\ Goto(r, "pipelines", "stats")
  /\ ~MorePipelines(r)
  /\ ~allFlowsCached[r]
  /\ UNCHANGED <<now, flowCache, flowCacheMux, locals>>

ReleaseForStats(r) ==
  /\ Goto(r, "pipelines", "stats")
  /\ ~MorePipelines(r)
  /\ ~allFlowsCached[r]
  /\ flowCacheMux' = NoRequest
  /\ UNCHANGED <<now, flowCache, locals>>

GetStats(r) ==
  /\ Goto(r, "stats", "store")
  /\ statsAt' = [statsAt EXCEPT ![r] = now]
  /\ UNCHANGED <<now, flowCacheMux, flowCache, flowIds, flows, allFlowsCached,
                 estimations, lockedAt>>

\* getStats fails, or a statistic lacks the labels that name its operator.
GetStatsFails(r) ==
  /\ Goto(r, "stats", "failed")
  /\ UNCHANGED <<now, flowCacheMux, flowCache, locals>>

Stored(r) == Len(estimations[r])

LockToStore(r) ==
  /\ Goto(r, "store", "storing")
  /\ Stored(r) < Len(flows[r])
  /\ flowCacheMux = NoRequest
  /\ flowCacheMux' = r
  /\ UNCHANGED <<now, flowCache, locals>>

\* Bug: an entry is dated by its statistics, not by its storing.
StoreBackdated(r) ==
  LET f == flows[r][Stored(r) + 1]
      entry == [flow |-> f, enteredAt |-> statsAt[r], statsAt |-> statsAt[r]]
  IN /\ Goto(r, "storing", "store")
     /\ flowCache' = [flowCache EXCEPT ![f] = entry]
     /\ estimations' = [estimations EXCEPT ![r] = Append(@, entry)]
     /\ flowCacheMux' = NoRequest
     /\ UNCHANGED <<now, flowIds, flows, allFlowsCached, statsAt, lockedAt>>

\* Bug: an entry another handler has stored meanwhile is left alone.
StoreUnlessValid(r) ==
  LET f == flows[r][Stored(r) + 1]
      entry == [flow |-> f, enteredAt |-> now, statsAt |-> statsAt[r]]
  IN /\ Goto(r, "storing", "store")
     /\ flowCache' = IF Valid(f) THEN flowCache
                     ELSE [flowCache EXCEPT ![f] = entry]
     /\ estimations' = [estimations EXCEPT ![r] = Append(@, entry)]
     /\ flowCacheMux' = NoRequest
     /\ UNCHANGED <<now, flowIds, flows, allFlowsCached, statsAt, lockedAt>>

\* c.flowCache[flow.FlowId] = ... and the Unlock; the estimation joins the
\* answer.
StoreEntry(r) ==
  LET f == flows[r][Stored(r) + 1]
      entry == [flow |-> f, enteredAt |-> now, statsAt |-> statsAt[r]]
  IN /\ Goto(r, "storing", "store")
     /\ flowCache' = [flowCache EXCEPT ![f] = entry]
     /\ estimations' = [estimations EXCEPT ![r] = Append(@, entry)]
     /\ flowCacheMux' = NoRequest
     /\ UNCHANGED <<now, flowIds, flows, allFlowsCached, statsAt, lockedAt>>

Return(r) ==
  /\ Goto(r, "store", "done")
  /\ Stored(r) = Len(flows[r])
  /\ UNCHANGED <<now, flowCacheMux, flowCache, locals>>

-----------------------------------------------------------------------------
(* Specification                                                           *)

\* What the handler does by itself once it was called.
Step(r) ==
  \/ Lock(r)
  \/ GetPipeline(r)
  \/ GetPipelineFails(r)
  \/ AnswerFromCache(r)
  \/ ReleaseForStats(r)
  \/ GetStats(r)
  \/ GetStatsFails(r)
  \/ LockToStore(r)
  \/ StoreEntry(r)
  \/ Return(r)

Next ==
  \/ Tick
  \/ \E r \in Requests : Call(r) \/ Step(r)

Spec == Init /\ [][Next]_vars

\* The scheduler runs every runnable goroutine and the remote services
\* answer or fail; nobody has to call, and time need not pass.
FairSpec == Spec /\ \A r \in Requests : WF_vars(Step(r))

-----------------------------------------------------------------------------
(* Properties                                                              *)

InCriticalSection(r) == pc[r] \in {"pipelines", "storing"}

\* flowCache is a plain Go map: two handlers inside the sections that read
\* or write it at once would crash the process.
MutualExclusion ==
  \A r, s \in Requests :
    InCriticalSection(r) /\ InCriticalSection(s) => r = s

\* Whoever is answered had every flow of the list granted by the parser in
\* this very call, whether or not the answer came from the shared cache,
\* and gets one estimation per flow, in the order of the list.
AnswerIsChecked ==
  \A r \in Requests : pc[r] = "done" =>
    /\ flows[r] = flowIds[r]
    /\ Len(estimations[r]) = Len(flowIds[r])
    /\ \A i \in 1..Len(flowIds[r]) : estimations[r][i].flow = flowIds[r][i]

\* No answer is made of an entry that had expired when the handler got the
\* mutex, although other handlers may store entries, and time passes, between
\* the validity check of a flow and the answer.
AnswerIsFresh ==
  \A r \in Requests : pc[r] = "done" =>
    \A i \in 1..Len(estimations[r]) :
      estimations[r][i].enteredAt + CacheValid >= lockedAt[r]

Leaked(r) == flowCacheMux = r /\ pc[r] = "failed"

\* The mutex is held by a handler that can go on, or it was leaked by a
\* handler whose access check failed: an error of the statistics, or a
\* normal return, never leaks it.
LeakOnlyByAccessCheck ==
  \A r \in Requests : flowCacheMux = r =>
    \/ InCriticalSection(r)
    \/ pc[r] = "failed" /\ MorePipelines(r)

\* A stored entry is never dropped, nor replaced by one entered earlier,
\* in whatever order concurrent computations finish.
CacheOnlyRenewed ==
  [][\A f \in Flows : flowCache[f] # NotCached =>
       /\ flowCache'[f] # NotCached
       /\ flowCache'[f].enteredAt >= flowCache[f].enteredAt]_vars

\* Every call comes back unless a failed access check leaked the mutex.
ReturnsUnlessLeaked ==
  \A r \in Requests :
    pc[r] = "lock" ~>
      pc[r] \in {"done", "failed"} \/ \E s \in Requests : Leaked(s)

\* "This is also an access check, don't cache across different users": the
\* outcome of one handler's access check is its own, so every call comes
\* back whatever the parser answers to others.
DenialStaysWithItsCall ==
  \A r \in Requests : pc[r] = "lock" ~> pc[r] \in {"done", "failed"}
-----------------------------------------------------------------------------
(* What callers are promised of the cache                                  *)

Status(place) ==
  CASE place = "idle" -> "idle"
    [] place = "lock" -> "asked"
    [] place \in {"pipelines", "stats", "store", "storing"} -> "served"
    [] place = "done" -> "answered"
    [] place = "failed" -> "failed"

Cache == INSTANCE CheckedCache WITH
  cache <- flowCache,
  status <- [r \in Requests |-> Status(pc[r])],
  asked <- flowIds,
  since <- lockedAt,
  granted <- [r \in Requests |-> Len(flows[r])],
  answer <- estimations

\* Handlers that check access and answer with the mutex, and query and store
\* in between without it, do what calls would do that are served one by one:
\* a cached answer is what the cache had at one moment, of entries valid
\* when the handler got the mutex, and a computed one is made of statistics
\* queried after that, of which every entry went into the cache.
ImplementsCheckedCache == Cache!Spec
=============================================================================
