------------------------------ MODULE CostTree ------------------------------
(***************************************************************************)
(* Controller.GetCostTree: one goroutine per branch of the cost tree fills *)
(* a shared map, three of them with mux locked and three without it.       *)
(*                                                                         *)
(* A tree is abstracted to whether its month is zero.  An assignment to a  *)
(* Go map has a beginning and an end; when two overlap, the runtime may    *)
(* notice and kill the process, and otherwise any of their entries may be  *)
(* missing afterwards.                                                     *)
(***************************************************************************)
EXTENDS Naturals, FiniteSets

CONSTANTS
  Branches,  \* the branches computed: all six, in the code
  NoOne,     \* mux is free
  Nil        \* a word of superErr that was never written

AllBranches ==
  {"analytics", "imports", "process", "API Calls", "Devices", "Exports"}

\* The branches that lock mux around their assignment.
Locking == {"process", "Devices", "Exports"}

ASSUME BranchesAssumption == Branches \subseteq AllBranches
ASSUME NoOneAssumption == NoOne \notin AllBranches /\ Nil \notin AllBranches

VARIABLES
  pc,        \* where each goroutine is
  fetched,   \* what its tree turned out to be
  mux,       \* the goroutine that locked mux, or NoOne
  overlap,   \* the assignments each one's has overlapped
  res,       \* the keys of res
  superErr,  \* an interface value: its type word and its data word
  caller     \* "waiting", "returned" or "crashed", the process with it

vars == <<pc, fetched, mux, overlap, res, superErr, caller>>

Outcomes == {"pending", "tree", "zero", "nouser", "error"}

Control == {"fetch", "errType", "errData", "lock", "assign", "assigning",
            "unlock", "done"}

TypeOK ==
  /\ pc \in [Branches -> Control]
  /\ fetched \in [Branches -> Outcomes]
  /\ mux \in Branches \cup {NoOne}
  /\ overlap \in [Branches -> SUBSET Branches]
  /\ res \subseteq Branches
  /\ superErr \in [type : Branches \cup {Nil}, data : Branches \cup {Nil}]
  /\ caller \in {"waiting", "returned", "crashed"}

Init ==
  /\ pc = [b \in Branches |-> "fetch"]
  /\ fetched = [b \in Branches |-> "pending"]
  /\ mux = NoOne
  /\ overlap = [b \in Branches |-> {}]
  /\ res = {}
  /\ superErr = [type |-> Nil, data |-> Nil]
  /\ caller = "waiting"

-----------------------------------------------------------------------------
(* The goroutine of branch b                                               *)

Goto(b, from, to) ==
  /\ caller # "crashed"
  /\ pc[b] = from
  /\ pc' = [pc EXCEPT ![b] = to]

Fetched(b, outcome) == fetched' = [fetched EXCEPT ![b] = outcome]

FetchTree(b) ==
  /\ Goto(b, "fetch", IF b \in Locking THEN "lock" ELSE "assign")
  /\ Fetched(b, "tree")
  /\ UNCHANGED <<mux, overlap, res, superErr, caller>>

\* The month is zero in every cost the branch looks at.
FetchZero(b) ==
  /\ Goto(b, "fetch", "done")
  /\ Fetched(b, "zero")
  /\ UNCHANGED <<mux, overlap, res, superErr, caller>>

\* Without a user name the API calls are left out, and no error is kept.
FetchNoUser(b) ==
  /\ b = "API Calls"
  /\ Goto(b, "fetch", "done")
  /\ Fetched(b, "nouser")
  /\ UNCHANGED <<mux, overlap, res, superErr, caller>>

\* Bug: an error only ends the goroutine.
FetchErrorIgnored(b) ==
  /\ Goto(b, "fetch", "done")
  /\ Fetched(b, "error")
  /\ UNCHANGED <<mux, overlap, res, superErr, caller>>

FetchError(b) ==
  /\ Goto(b, "fetch", "errType")
  /\ Fetched(b, "error")
  /\ UNCHANGED <<mux, overlap, res, superErr, caller>>

\* A pod's name has too few parts to cut its suffix off: the goroutine
\* panics, and nothing recovers.
FetchPanics(b) ==
  /\ b = "process"
  /\ Goto(b, "fetch", "done")
  /\ caller' = "crashed"
  /\ UNCHANGED <<fetched, mux, overlap, res, superErr>>

\* superErr = err: two words are written, without the mutex.
ErrType(b) ==
  /\ Goto(b, "errType", "errData")
  /\ superErr' = [superErr EXCEPT !.type = b]
  /\ UNCHANGED <<fetched, mux, overlap, res, caller>>

ErrData(b) ==
  /\ Goto(b, "errData", "done")
  /\ superErr' = [superErr EXCEPT !.data = b]
  /\ UNCHANGED <<fetched, mux, overlap, res, caller>>

\* Bug: the mutex is not waited for.
LockUnguarded(b) ==
  /\ Goto(b, "lock", "assign")
  /\ mux' = b
  /\ UNCHANGED <<fetched, overlap, res, superErr, caller>>

Lock(b) ==
  /\ Goto(b, "lock", "assign")
  /\ mux = NoOne
  /\ mux' = b
  /\ UNCHANGED <<fetched, overlap, res, superErr, caller>>

\* The goroutines inside an assignment to res.
Writers == {b \in Branches : pc[b] = "assigning"}

\* The assignment begins; it overlaps those that have begun.
BeginAssign(b) ==
  /\ Goto(b, "assign", "assigning")
  /\ overlap' = [c \in Branches |->
       IF c = b THEN Writers
       ELSE IF c \in Writers THEN overlap[c] \cup {b} ELSE overlap[c]]
  /\ UNCHANGED <<fetched, mux, res, superErr, caller>>

Assigned(b) == IF b \in Locking THEN "unlock" ELSE "done"

\* The assignment ends: one that overlapped others may have lost its entry
\* or theirs.
EndAssign(b) ==
  /\ Goto(b, "assigning", Assigned(b))
  /\ \E lost \in SUBSET (IF overlap[b] = {} THEN {} ELSE overlap[b] \cup {b}) :
       res' = (res \cup {b}) \ lost
  /\ UNCHANGED <<fetched, mux, overlap, superErr, caller>>

\* The runtime notices the overlap: "fatal error: concurrent map writes".
ConcurrentMapWrites(b) ==
  /\ pc[b] = "assigning"
  /\ overlap[b] # {}
  /\ caller # "crashed"
  /\ caller' = "crashed"
  /\ UNCHANGED <<pc, fetched, mux, overlap, res, superErr>>

\* Bug: a locking branch finishes without unlocking.
UnlockForgotten(b) ==
  /\ Goto(b, "unlock", "done")
  /\ UNCHANGED <<fetched, mux, overlap, res, superErr, caller>>

Unlock(b) ==
  /\ Goto(b, "unlock", "done")
  /\ mux' = NoOne
  /\ UNCHANGED <<fetched, overlap, res, superErr, caller>>

-----------------------------------------------------------------------------
(* The caller                                                              *)

\* Bug: the last branch was not added to the wait group.
ReturnEarly ==
  /\ caller = "waiting"
  /\ \E last \in Branches : \A b \in Branches \ {last} : pc[b] = "done"
  /\ caller' = "returned"
  /\ UNCHANGED <<pc, fetched, mux, overlap, res, superErr>>

\* wg.Wait, then res and superErr are returned, whatever they are.
Return ==
  /\ caller = "waiting"
  /\ \A b \in Branches : pc[b] = "done"
  /\ caller' = "returned"
  /\ UNCHANGED <<pc, fetched, mux, overlap, res, superErr>>

Goroutine(b) ==
  \/ FetchTree(b)
  \/ FetchZero(b)
  \/ FetchNoUser(b)
  \/ FetchError(b)
  \/ FetchPanics(b)
  \/ ErrType(b)
  \/ ErrData(b)
  \/ Lock(b)
  \/ BeginAssign(b)
  \/ EndAssign(b)
  \/ ConcurrentMapWrites(b)
  \/ Unlock(b)

Next == Return \/ \E b \in Branches : Goroutine(b)

Spec == Init /\ [][Next]_vars

\* Every goroutine runs as long as it can, and the services it asks answer
\* or fail.
FairSpec ==
  Spec /\ WF_vars(Return) /\ \A b \in Branches : WF_vars(Goroutine(b))

-----------------------------------------------------------------------------
(* Properties                                                              *)

\* The process survives as long as no two assignments overlap and the pods'
\* names can be cut.
CrashHasCause ==
  caller = "crashed" =>
    \/ \E b \in Branches : overlap[b] \ Locking # {}
    \/ "process" \in Branches /\ fetched["process"] = "pending"

\* An error of any branch reaches the caller, although superErr is written by
\* many goroutines without a lock; only a user name that cannot be had
\* leaves no error.
ErrorSurvivesRace ==
  caller = "returned" =>
    /\ superErr.type # Nil <=> \E b \in Branches : fetched[b] = "error"
    /\ superErr.type # Nil => fetched[superErr.type] = "error"
                                /\ fetched[superErr.data] = "error"

\* If no two assignments overlapped, the answer has every branch with a cost
\* and no other.
CompleteUnlessRaced ==
  caller = "returned" /\ (\A b \in Branches : overlap[b] = {}) =>
    res = {b \in Branches : fetched[b] = "tree"}

(* What the call promises its caller                                       *)

\* A goroutine that panicked has not finished.
TaskOf(b) ==
  IF pc[b] # "done" \/ fetched[b] = "pending" THEN "running"
  ELSE IF fetched[b] = "error" THEN "failed" ELSE "ok"

CallerOf ==
  IF caller # "returned" THEN caller
  ELSE IF superErr.type = Nil THEN "ok" ELSE "failed"

Branch == INSTANCE ForkJoin WITH
  Tasks <- Branches, MayCrash <- TRUE,
  task <- [b \in Branches |-> TaskOf(b)], caller <- CallerOf

\* GetCostTree returns when its six goroutines have finished, and with an
\* error exactly if one of them failed, unless the process has crashed
\* under it; it is never left waiting.
ImplementsForkJoin == Branch!Promise

\* The assignments to res that lock mux do so because a Go map must not be
\* assigned to by two goroutines at once: no two assignments overlap.
NoConcurrentMapWrites == Cardinality(Writers) <= 1
=============================================================================
