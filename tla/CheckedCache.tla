---------------------------- MODULE CheckedCache ----------------------------
(***************************************************************************)
(* What callers of GetFlowEstimations are promised of the cache they       *)
(* share, without its mutex and without the order in which a handler goes  *)
(* about its work.  A call is granted its flows one by one, and may fail   *)
(* as long as it is not answered.  Once all are granted it is answered     *)
(* either with what the cache has for them at one moment, entries that     *)
(* were valid when the call was begun; or with entries of its own, made of *)
(* statistics taken since, each of which it put into the cache.            *)
(*                                                                         *)
(* FlowEstimation is shown to implement it.                                *)
(***************************************************************************)
EXTENDS Integers, Sequences

CONSTANTS Requests, Flows, FlowLists, CacheValid, NotCached

VARIABLES
  now,      \* the time
  cache,    \* an entry per flow, or NotCached
  status,   \* of each call: "idle", "asked", "served", "answered", "failed"
  asked,    \* the flows it asks for
  since,    \* when serving it began
  granted,  \* how many of its flows it was granted
  answer    \* the entries of its answer

Init ==
  /\ now = 0
  /\ cache = [f \in Flows |-> NotCached]
  /\ status = [r \in Requests |-> "idle"]
  /\ asked = [r \in Requests |-> <<>>]
  /\ since = [r \in Requests |-> 0]
  /\ granted = [r \in Requests |-> 0]
  /\ answer = [r \in Requests |-> <<>>]

Becomes(r, from, to) == status[r] = from /\ status' = [status EXCEPT ![r] = to]

AllGranted(r) == granted[r] = Len(asked[r])

Tick ==
  /\ now' = now + 1
  /\ UNCHANGED <<cache, status, asked, since, granted, answer>>

Ask(r) ==
  /\ Becomes(r, "idle", "asked")
  /\ \E list \in FlowLists : asked' = [asked EXCEPT ![r] = list]
  /\ UNCHANGED <<now, cache, since, granted, answer>>

Serve(r) ==
  /\ Becomes(r, "asked", "served")
  /\ since' = [since EXCEPT ![r] = now]
  /\ UNCHANGED <<now, cache, asked, granted, answer>>

Grant(r) ==
  /\ status[r] = "served"
  /\ ~AllGranted(r)
  /\ granted' = [granted EXCEPT ![r] = @ + 1]
  /\ UNCHANGED <<now, cache, status, asked, since, answer>>

Fail(r) ==
  /\ Becomes(r, "served", "failed")
  /\ UNCHANGED <<now, cache, asked, since, granted, answer>>

ValidSince(entry, time) == entry # NotCached /\ entry.enteredAt + CacheValid >= time

AnswerFromCache(r) ==
  /\ Becomes(r, "served", "answered")
  /\ AllGranted(r)
  /\ \A i \in DOMAIN asked[r] : ValidSince(cache[asked[r][i]], since[r])
  /\ answer' = [answer EXCEPT ![r] = [i \in DOMAIN asked[r] |-> cache[asked[r][i]]]]
  /\ UNCHANGED <<now, cache, asked, since, granted>>

\* The next of its flows gets an entry of its own.
Enter(r) ==
  /\ status[r] = "served"
  /\ AllGranted(r)
  /\ Len(answer[r]) < Len(asked[r])
  /\ \E time \in since[r]..now :
       LET flow == asked[r][Len(answer[r]) + 1]
           entry == [flow |-> flow, enteredAt |-> now, statsAt |-> time]
       IN /\ cache' = [cache EXCEPT ![flow] = entry]
          /\ answer' = [answer EXCEPT ![r] = Append(@, entry)]
  /\ UNCHANGED <<now, status, asked, since, granted>>

AnswerOwn(r) ==
  /\ Becomes(r, "served", "answered")
  /\ AllGranted(r)
  /\ Len(answer[r]) = Len(asked[r])
  /\ UNCHANGED <<now, cache, asked, since, granted, answer>>

Next ==
  \/ Tick
  \/ \E r \in Requests :
       \/ Ask(r)
       \/ Serve(r)
       \/ Grant(r)
       \/ Fail(r)
       \/ AnswerFromCache(r)
       \/ Enter(r)
       \/ AnswerOwn(r)

Spec ==
  Init /\ [][Next]_<<now, cache, status, asked, since, granted, answer>>
=============================================================================
