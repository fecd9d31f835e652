------------------------------ MODULE ForkJoin ------------------------------
(***************************************************************************)
(* What a caller is promised that starts one goroutine per task and waits  *)
(* for all of them: it comes back when every task has finished and not     *)
(* before, with an error if and only if a task failed.  Where an           *)
(* unrecovered panic or the runtime may end the process, it may instead    *)
(* end while tasks are running, and then nothing happens any more.         *)
(*                                                                         *)
(* Controller.getStats (PodStats) and Controller.GetCostTree (CostTree)    *)
(* are shown to implement it, each with its own mutex and shared error.    *)
(***************************************************************************)

CONSTANTS
  Tasks,     \* one goroutine each
  MayCrash   \* whether the process may end while they run

VARIABLES
  task,      \* whether each is "running", or how it finished
  caller     \* "waiting", or how the call ended

Init ==
  /\ task = [t \in Tasks |-> "running"]
  /\ caller = "waiting"

\* A task finishes once and for all.
Finish(t) ==
  /\ caller = "waiting"
  /\ task[t] = "running"
  /\ \E outcome \in {"ok", "failed"} : task' = [task EXCEPT ![t] = outcome]
  /\ UNCHANGED caller

Join ==
  /\ caller = "waiting"
  /\ \A t \in Tasks : task[t] # "running"
  /\ caller' = IF \E t \in Tasks : task[t] = "failed" THEN "failed" ELSE "ok"
  /\ UNCHANGED task

Crash ==
  /\ MayCrash
  /\ caller = "waiting"
  /\ \E t \in Tasks : task[t] = "running"
  /\ caller' = "crashed"
  /\ UNCHANGED task

Next == Join \/ Crash \/ \E t \in Tasks : Finish(t)

Spec == Init /\ [][Next]_<<task, caller>>

\* The caller is not left waiting.
Returns == <>(caller # "waiting")

Promise == Spec /\ Returns
=============================================================================
