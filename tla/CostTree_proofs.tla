-------------------------- MODULE CostTree_proofs --------------------------
(***************************************************************************)
(* Theorems of CostTree for any set of branches: IInv is inductive, the    *)
(* safety properties follow from it, and so does each step's being one of  *)
(* ForkJoin, or a stutter.                                                 *)
(***************************************************************************)
EXTENDS CostTree, TLAPS

-----------------------------------------------------------------------------
(* The inductive invariant: what the proofs need beyond the properties     *)

\* A locking branch holds mux from its lock to its unlock; the others are
\* never at either.
MutexInv ==
  \A b \in Branches :
    /\ pc[b] \in {"assign", "assigning", "unlock"} /\ b \in Locking => mux = b
    /\ pc[b] \in {"lock", "unlock"} => b \in Locking

\* Where a goroutine is tells what it has fetched; nothing but a crash ends
\* one that fetches, and the caller waits for all.
FetchedInv ==
  /\ \A b \in Branches :
       /\ pc[b] = "fetch" => fetched[b] = "pending"
       /\ pc[b] \in {"lock", "assign", "assigning", "unlock"} => fetched[b] = "tree"
       /\ pc[b] \in {"errType", "errData"} => fetched[b] = "error"
       /\ pc[b] = "done" /\ fetched[b] = "pending" =>
            caller = "crashed" /\ b = "process"
  /\ caller = "returned" => \A b \in Branches : pc[b] = "done"

\* A word of superErr is a failed branch's, and is written once one has
\* got past writing it.
ErrorInv ==
  /\ superErr.type # Nil => fetched[superErr.type] = "error"
  /\ superErr.data # Nil => fetched[superErr.data] = "error"
  /\ \A b \in Branches : pc[b] \in {"errData", "done"} /\ fetched[b] = "error" =>
       /\ superErr.type # Nil
       /\ pc[b] = "done" => superErr.data # Nil

\* Overlaps are mutual, of two branches that do not both lock, and none is
\* of an assignment that has not begun.
OverlapInv ==
  \A b, c \in Branches : c \in overlap[b] =>
    /\ b \in overlap[c]
    /\ b \notin Locking \/ c \notin Locking
    /\ fetched[b] = "tree" /\ pc[b] \in {"assigning", "unlock", "done"}

\* Without an overlap the map has what was assigned to it.
ResInv ==
  (\A b \in Branches : overlap[b] = {}) =>
    res = {b \in Branches : fetched[b] = "tree" /\ pc[b] \in {"unlock", "done"}}

IInv ==
  /\ TypeOK
  /\ MutexInv
  /\ FetchedInv
  /\ ErrorInv
  /\ OverlapInv
  /\ ResInv
  /\ CrashHasCause

-----------------------------------------------------------------------------
(* The proofs                                                              *)

\* Every step keeps the types.
LEMMA TypeStep ==
  ASSUME IInv, [Next]_vars
  PROVE  TypeOK'
<1> USE BranchesAssumption, NoOneAssumption DEF IInv, TypeOK, Control, Outcomes
<1>1. CASE Return  BY <1>1 DEF Return
<1>2. CASE UNCHANGED vars  BY <1>2 DEF vars
<1>3. ASSUME NEW b \in Branches, FetchTree(b)
      PROVE  TypeOK'
  BY <1>3 DEF FetchTree, Goto, Fetched
<1>4. ASSUME NEW b \in Branches, FetchZero(b)
      PROVE  TypeOK'
  BY <1>4 DEF FetchZero, Goto, Fetched
<1>5. ASSUME NEW b \in Branches, FetchNoUser(b)
      PROVE  TypeOK'
  BY <1>5 DEF FetchNoUser, Goto, Fetched
<1>6. ASSUME NEW b \in Branches, FetchError(b)
      PROVE  TypeOK'
  BY <1>6 DEF FetchError, Goto, Fetched
<1>7. ASSUME NEW b \in Branches, FetchPanics(b)
      PROVE  TypeOK'
  BY <1>7 DEF FetchPanics, Goto
<1>8. ASSUME NEW b \in Branches, ErrType(b)
      PROVE  TypeOK'
  BY <1>8 DEF ErrType, Goto
<1>9. ASSUME NEW b \in Branches, ErrData(b)
      PROVE  TypeOK'
  BY <1>9 DEF ErrData, Goto
<1>10. ASSUME NEW b \in Branches, Lock(b)
      PROVE  TypeOK'
  BY <1>10 DEF Lock, Goto
<1>11. ASSUME NEW b \in Branches, BeginAssign(b)
      PROVE  TypeOK'
  <2>1. overlap' \in [Branches -> SUBSET Branches]
    BY <1>11 DEF BeginAssign, Writers
  <2>2. QED  BY <1>11, <2>1 DEF BeginAssign, Goto
<1>12. ASSUME NEW b \in Branches, EndAssign(b)
      PROVE  TypeOK'
  BY <1>12 DEF EndAssign, Goto, Assigned
<1>13. ASSUME NEW b \in Branches, ConcurrentMapWrites(b)
      PROVE  TypeOK'
  BY <1>13 DEF ConcurrentMapWrites, Goto
<1>14. ASSUME NEW b \in Branches, Unlock(b)
      PROVE  TypeOK'
  BY <1>14 DEF Unlock, Goto
<1>15. QED
  BY <1>1, <1>2, <1>3, <1>4, <1>5, <1>6, <1>7, <1>8, <1>9, <1>10, <1>11,
     <1>12, <1>13, <1>14
  DEF Next, Goroutine

\* Every step keeps the discipline of mux.
LEMMA MutexStep ==
  ASSUME IInv, [Next]_vars
  PROVE  MutexInv'
<1> USE BranchesAssumption, NoOneAssumption DEF IInv, TypeOK, MutexInv, Control, Locking, AllBranches
<1>1. CASE Return  BY <1>1 DEF Return
<1>2. CASE UNCHANGED vars  BY <1>2 DEF vars
<1>3. ASSUME NEW b \in Branches, FetchTree(b)
      PROVE  MutexInv'
  BY <1>3 DEF FetchTree, Goto, Fetched
<1>4. ASSUME NEW b \in Branches, FetchZero(b)
      PROVE  MutexInv'
  BY <1>4 DEF FetchZero, Goto, Fetched
<1>5. ASSUME NEW b \in Branches, FetchNoUser(b)
      PROVE  MutexInv'
  BY <1>5 DEF FetchNoUser, Goto, Fetched
<1>6. ASSUME NEW b \in Branches, FetchError(b)
      PROVE  MutexInv'
  BY <1>6 DEF FetchError, Goto, Fetched
<1>7. ASSUME NEW b \in Branches, FetchPanics(b)
      PROVE  MutexInv'
  BY <1>7 DEF FetchPanics, Goto
<1>8. ASSUME NEW b \in Branches, ErrType(b)
      PROVE  MutexInv'
  BY <1>8 DEF ErrType, Goto
<1>9. ASSUME NEW b \in Branches, ErrData(b)
      PROVE  MutexInv'
  BY <1>9 DEF ErrData, Goto
<1>10. ASSUME NEW b \in Branches, Lock(b)
      PROVE  MutexInv'
  BY <1>10 DEF Lock, Goto
<1>11. ASSUME NEW b \in Branches, BeginAssign(b)
      PROVE  MutexInv'
  BY <1>11 DEF BeginAssign, Goto
<1>12. ASSUME NEW b \in Branches, EndAssign(b)
      PROVE  MutexInv'
  BY <1>12 DEF EndAssign, Goto, Assigned
<1>13. ASSUME NEW b \in Branches, ConcurrentMapWrites(b)
      PROVE  MutexInv'
  BY <1>13 DEF ConcurrentMapWrites, Goto
<1>14. ASSUME NEW b \in Branches, Unlock(b)
      PROVE  MutexInv'
  BY <1>14 DEF Unlock, Goto
<1>15. QED
  BY <1>1, <1>2, <1>3, <1>4, <1>5, <1>6, <1>7, <1>8, <1>9, <1>10, <1>11,
     <1>12, <1>13, <1>14
  DEF Next, Goroutine

\* Every step keeps what the places of goroutines tell of their trees.
LEMMA FetchedStep ==
  ASSUME IInv, [Next]_vars
  PROVE  FetchedInv'
<1> USE BranchesAssumption, NoOneAssumption DEF IInv, TypeOK, FetchedInv, Control, Outcomes
<1>1. CASE Return  BY <1>1 DEF Return
<1>2. CASE UNCHANGED vars  BY <1>2 DEF vars
<1>3. ASSUME NEW b \in Branches, FetchTree(b)
      PROVE  FetchedInv'
  BY <1>3 DEF FetchTree, Goto, Fetched
<1>4. ASSUME NEW b \in Branches, FetchZero(b)
      PROVE  FetchedInv'
  BY <1>4 DEF FetchZero, Goto, Fetched
<1>5. ASSUME NEW b \in Branches, FetchNoUser(b)
      PROVE  FetchedInv'
  BY <1>5 DEF FetchNoUser, Goto, Fetched
<1>6. ASSUME NEW b \in Branches, FetchError(b)
      PROVE  FetchedInv'
  BY <1>6 DEF FetchError, Goto, Fetched
<1>7. ASSUME NEW b \in Branches, FetchPanics(b)
      PROVE  FetchedInv'
  BY <1>7 DEF FetchPanics, Goto
<1>8. ASSUME NEW b \in Branches, ErrType(b)
      PROVE  FetchedInv'
  BY <1>8 DEF ErrType, Goto
<1>9. ASSUME NEW b \in Branches, ErrData(b)
      PROVE  FetchedInv'
  BY <1>9 DEF ErrData, Goto
<1>10. ASSUME NEW b \in Branches, Lock(b)
      PROVE  FetchedInv'
  BY <1>10 DEF Lock, Goto
<1>11. ASSUME NEW b \in Branches, BeginAssign(b)
      PROVE  FetchedInv'
  BY <1>11 DEF BeginAssign, Goto
<1>12. ASSUME NEW b \in Branches, EndAssign(b)
      PROVE  FetchedInv'
  BY <1>12 DEF EndAssign, Goto, Assigned
<1>13. ASSUME NEW b \in Branches, ConcurrentMapWrites(b)
      PROVE  FetchedInv'
  BY <1>13 DEF ConcurrentMapWrites, Goto
<1>14. ASSUME NEW b \in Branches, Unlock(b)
      PROVE  FetchedInv'
  BY <1>14 DEF Unlock, Goto
<1>15. QED
  BY <1>1, <1>2, <1>3, <1>4, <1>5, <1>6, <1>7, <1>8, <1>9, <1>10, <1>11,
     <1>12, <1>13, <1>14
  DEF Next, Goroutine

\* Every step keeps the words of superErr those of failed branches.
LEMMA ErrorStep ==
  ASSUME IInv, [Next]_vars
  PROVE  ErrorInv'
<1> USE BranchesAssumption, NoOneAssumption DEF IInv, TypeOK, FetchedInv, ErrorInv, Control, Outcomes, AllBranches
<1>1. CASE Return  BY <1>1 DEF Return
<1>2. CASE UNCHANGED vars  BY <1>2 DEF vars
<1>3. ASSUME NEW b \in Branches, FetchTree(b)
      PROVE  ErrorInv'
  BY <1>3 DEF FetchTree, Goto, Fetched
<1>4. ASSUME NEW b \in Branches, FetchZero(b)
      PROVE  ErrorInv'
  BY <1>4 DEF FetchZero, Goto, Fetched
<1>5. ASSUME NEW b \in Branches, FetchNoUser(b)
      PROVE  ErrorInv'
  BY <1>5 DEF FetchNoUser, Goto, Fetched
<1>6. ASSUME NEW b \in Branches, FetchError(b)
      PROVE  ErrorInv'
  BY <1>6 DEF FetchError, Goto, Fetched
<1>7. ASSUME NEW b \in Branches, FetchPanics(b)
      PROVE  ErrorInv'
  BY <1>7 DEF FetchPanics, Goto
<1>8. ASSUME NEW b \in Branches, ErrType(b)
      PROVE  ErrorInv'
  BY <1>8 DEF ErrType, Goto
<1>9. ASSUME NEW b \in Branches, ErrData(b)
      PROVE  ErrorInv'
  BY <1>9 DEF ErrData, Goto
<1>10. ASSUME NEW b \in Branches, Lock(b)
      PROVE  ErrorInv'
  BY <1>10 DEF Lock, Goto
<1>11. ASSUME NEW b \in Branches, BeginAssign(b)
      PROVE  ErrorInv'
  BY <1>11 DEF BeginAssign, Goto
<1>12. ASSUME NEW b \in Branches, EndAssign(b)
      PROVE  ErrorInv'
  BY <1>12 DEF EndAssign, Goto, Assigned
<1>13. ASSUME NEW b \in Branches, ConcurrentMapWrites(b)
      PROVE  ErrorInv'
  BY <1>13 DEF ConcurrentMapWrites, Goto
<1>14. ASSUME NEW b \in Branches, Unlock(b)
      PROVE  ErrorInv'
  BY <1>14 DEF Unlock, Goto
<1>15. QED
  BY <1>1, <1>2, <1>3, <1>4, <1>5, <1>6, <1>7, <1>8, <1>9, <1>10, <1>11,
     <1>12, <1>13, <1>14
  DEF Next, Goroutine

\* Every step keeps overlaps mutual and explained.
LEMMA OverlapStep ==
  ASSUME IInv, [Next]_vars
  PROVE  OverlapInv'
<1> USE BranchesAssumption, NoOneAssumption DEF IInv, TypeOK, MutexInv, FetchedInv, OverlapInv, Control, Writers, Assigned
<1>1. CASE Return  BY <1>1 DEF Return
<1>2. CASE UNCHANGED vars  BY <1>2 DEF vars
<1>3. ASSUME NEW b \in Branches, FetchTree(b)
      PROVE  OverlapInv'
  BY <1>3 DEF FetchTree, Goto, Fetched
<1>4. ASSUME NEW b \in Branches, FetchZero(b)
      PROVE  OverlapInv'
  BY <1>4 DEF FetchZero, Goto, Fetched
<1>5. ASSUME NEW b \in Branches, FetchNoUser(b)
      PROVE  OverlapInv'
  <2>1. \A c \in Branches : b \notin overlap[c] /\ overlap[b] = {}
    BY <1>5 DEF FetchNoUser, Goto
  <2>2. /\ pc'[b] = "done" /\ overlap' = overlap /\ res' = res
        /\ \A c \in Branches \ {b} : pc'[c] = pc[c] /\ fetched'[c] = fetched[c]
    <3> HIDE DEF MutexInv, FetchedInv, OverlapInv
    <3>1. QED  BY <1>5 DEF FetchNoUser, Goto, Fetched
  <2> HIDE DEF TypeOK, MutexInv, FetchedInv, Control
  <2>3. QED  BY <2>1, <2>2
<1>6. ASSUME NEW b \in Branches, FetchError(b)
      PROVE  OverlapInv'
  BY <1>6 DEF FetchError, Goto, Fetched
<1>7. ASSUME NEW b \in Branches, FetchPanics(b)
      PROVE  OverlapInv'
  BY <1>7 DEF FetchPanics, Goto
<1>8. ASSUME NEW b \in Branches, ErrType(b)
      PROVE  OverlapInv'
  BY <1>8 DEF ErrType, Goto
<1>9. ASSUME NEW b \in Branches, ErrData(b)
      PROVE  OverlapInv'
  BY <1>9 DEF ErrData, Goto
<1>10. ASSUME NEW b \in Branches, Lock(b)
      PROVE  OverlapInv'
  BY <1>10 DEF Lock, Goto
<1>11. ASSUME NEW b \in Branches, BeginAssign(b)
      PROVE  OverlapInv'
  BY <1>11 DEF BeginAssign, Goto
<1>12. ASSUME NEW b \in Branches, EndAssign(b)
      PROVE  OverlapInv'
  BY <1>12 DEF EndAssign, Goto
<1>13. ASSUME NEW b \in Branches, ConcurrentMapWrites(b)
      PROVE  OverlapInv'
  BY <1>13 DEF ConcurrentMapWrites, Goto
<1>14. ASSUME NEW b \in Branches, Unlock(b)
      PROVE  OverlapInv'
  BY <1>14 DEF Unlock, Goto
<1>15. QED
  BY <1>1, <1>2, <1>3, <1>4, <1>5, <1>6, <1>7, <1>8, <1>9, <1>10, <1>11,
     <1>12, <1>13, <1>14
  DEF Next, Goroutine

\* Every step keeps the map complete as far as no assignments overlap.
LEMMA ResStep ==
  ASSUME IInv, [Next]_vars
  PROVE  ResInv'
<1> USE BranchesAssumption, NoOneAssumption DEF IInv, TypeOK, FetchedInv, OverlapInv, ResInv, Control, Writers, Assigned
<1>1. CASE Return  BY <1>1 DEF Return
<1>2. CASE UNCHANGED vars  BY <1>2 DEF vars
<1>3. ASSUME NEW b \in Branches, FetchTree(b)
      PROVE  ResInv'
  BY <1>3 DEF FetchTree, Goto, Fetched
<1>4. ASSUME NEW b \in Branches, FetchZero(b)
      PROVE  ResInv'
  BY <1>4 DEF FetchZero, Goto, Fetched
<1>5. ASSUME NEW b \in Branches, FetchNoUser(b)
      PROVE  ResInv'
  BY <1>5 DEF FetchNoUser, Goto, Fetched
<1>6. ASSUME NEW b \in Branches, FetchError(b)
      PROVE  ResInv'
  BY <1>6 DEF FetchError, Goto, Fetched
<1>7. ASSUME NEW b \in Branches, FetchPanics(b)
      PROVE  ResInv'
  BY <1>7 DEF FetchPanics, Goto
<1>8. ASSUME NEW b \in Branches, ErrType(b)
      PROVE  ResInv'
  BY <1>8 DEF ErrType, Goto
<1>9. ASSUME NEW b \in Branches, ErrData(b)
      PROVE  ResInv'
  BY <1>9 DEF ErrData, Goto
<1>10. ASSUME NEW b \in Branches, Lock(b)
      PROVE  ResInv'
  BY <1>10 DEF Lock, Goto
<1>11. ASSUME NEW b \in Branches, BeginAssign(b)
      PROVE  ResInv'
  BY <1>11 DEF BeginAssign, Goto
<1>12. ASSUME NEW b \in Branches, EndAssign(b)
      PROVE  ResInv'
  BY <1>12 DEF EndAssign, Goto
<1>13. ASSUME NEW b \in Branches, ConcurrentMapWrites(b)
      PROVE  ResInv'
  BY <1>13 DEF ConcurrentMapWrites, Goto
<1>14. ASSUME NEW b \in Branches, Unlock(b)
      PROVE  ResInv'
  BY <1>14 DEF Unlock, Goto
<1>15. QED
  BY <1>1, <1>2, <1>3, <1>4, <1>5, <1>6, <1>7, <1>8, <1>9, <1>10, <1>11,
     <1>12, <1>13, <1>14
  DEF Next, Goroutine

\* Every step keeps crashes explained.
LEMMA CrashStep ==
  ASSUME IInv, [Next]_vars
  PROVE  CrashHasCause'
<1> USE BranchesAssumption, NoOneAssumption DEF IInv, TypeOK, FetchedInv, OverlapInv, CrashHasCause, Control, Writers, Assigned
<1>1. CASE Return  BY <1>1 DEF Return
<1>2. CASE UNCHANGED vars  BY <1>2 DEF vars
<1>3. ASSUME NEW b \in Branches, FetchTree(b)
      PROVE  CrashHasCause'
  BY <1>3 DEF FetchTree, Goto, Fetched
<1>4. ASSUME NEW b \in Branches, FetchZero(b)
      PROVE  CrashHasCause'
  BY <1>4 DEF FetchZero, Goto, Fetched
<1>5. ASSUME NEW b \in Branches, FetchNoUser(b)
      PROVE  CrashHasCause'
  BY <1>5 DEF FetchNoUser, Goto, Fetched
<1>6. ASSUME NEW b \in Branches, FetchError(b)
      PROVE  CrashHasCause'
  BY <1>6 DEF FetchError, Goto, Fetched
<1>7. ASSUME NEW b \in Branches, FetchPanics(b)
      PROVE  CrashHasCause'
  BY <1>7 DEF FetchPanics, Goto
<1>8. ASSUME NEW b \in Branches, ErrType(b)
      PROVE  CrashHasCause'
  BY <1>8 DEF ErrType, Goto
<1>9. ASSUME NEW b \in Branches, ErrData(b)
      PROVE  CrashHasCause'
  BY <1>9 DEF ErrData, Goto
<1>10. ASSUME NEW b \in Branches, Lock(b)
      PROVE  CrashHasCause'
  BY <1>10 DEF Lock, Goto
<1>11. ASSUME NEW b \in Branches, BeginAssign(b)
      PROVE  CrashHasCause'
  BY <1>11 DEF BeginAssign, Goto
<1>12. ASSUME NEW b \in Branches, EndAssign(b)
      PROVE  CrashHasCause'
  BY <1>12 DEF EndAssign, Goto
<1>13. ASSUME NEW b \in Branches, ConcurrentMapWrites(b)
      PROVE  CrashHasCause'
  BY <1>13 DEF ConcurrentMapWrites, Goto
<1>14. ASSUME NEW b \in Branches, Unlock(b)
      PROVE  CrashHasCause'
  BY <1>14 DEF Unlock, Goto
<1>15. QED
  BY <1>1, <1>2, <1>3, <1>4, <1>5, <1>6, <1>7, <1>8, <1>9, <1>10, <1>11,
     <1>12, <1>13, <1>14
  DEF Next, Goroutine

\* The invariant holds initially and is kept by every step.
THEOREM Invariant == Spec => []IInv
<1>1. Init => IInv
  BY BranchesAssumption, NoOneAssumption
  DEF Init, IInv, TypeOK, Control, Outcomes, MutexInv, FetchedInv, ErrorInv,
      OverlapInv, ResInv, CrashHasCause
<1>2. IInv /\ [Next]_vars => IInv'
  BY TypeStep, MutexStep, FetchedStep, ErrorStep, OverlapStep, ResStep,
     CrashStep
  DEF IInv
<1>3. QED  BY <1>1, <1>2, PTL DEF Spec

\* The variables keep their types.
THEOREM TypeCorrect == Spec => []TypeOK
<1>1. IInv => TypeOK  BY DEF IInv
<1>2. QED  BY <1>1, Invariant, PTL

\* Only an overlap with a branch that does not lock, or a pod's name, ends the
\* process.
THEOREM CrashCause == Spec => []CrashHasCause
<1>1. IInv => CrashHasCause  BY DEF IInv
<1>2. QED  BY <1>1, Invariant, PTL

\* No error is lost to the race for superErr.
THEOREM ErrorReturned == Spec => []ErrorSurvivesRace
<1>1. IInv => ErrorSurvivesRace
  BY BranchesAssumption, NoOneAssumption
  DEF IInv, TypeOK, FetchedInv, ErrorInv, ErrorSurvivesRace, AllBranches
<1>2. QED  BY <1>1, Invariant, PTL

\* Without an overlap no branch is missing from the answer.
THEOREM Complete == Spec => []CompleteUnlessRaced
<1>1. IInv => CompleteUnlessRaced
  BY DEF IInv, FetchedInv, ResInv, CompleteUnlessRaced
<1>2. QED  BY <1>1, Invariant, PTL

-----------------------------------------------------------------------------
(* The refinement                                                          *)

\* A step that leaves each goroutine's task as it is, and the caller, is a
\* stutter of ForkJoin.
LEMMA Stutter ==
  ASSUME \A b \in Branches : TaskOf(b)' = TaskOf(b), CallerOf' = CallerOf
  PROVE  [Branch!Next]_<<[b \in Branches |-> TaskOf(b)], CallerOf>>
  OBVIOUS

\* A goroutine that finishes while the caller waits is a task that does.
LEMMA Finishes ==
  ASSUME NEW b \in Branches, TaskOf(b) = "running", TaskOf(b)' \in {"ok", "failed"},
         \A c \in Branches \ {b} : TaskOf(c)' = TaskOf(c),
         CallerOf = "waiting", CallerOf' = CallerOf
  PROVE  Branch!Next
<1> DEFINE task == [c \in Branches |-> TaskOf(c)]
<1>1. task' = [task EXCEPT ![b] = TaskOf(b)']
  OBVIOUS
<1>2. Branch!Finish(b)
  BY <1>1 DEF Branch!Finish
<1>3. QED  BY <1>2 DEF Branch!Next

\* Every step is one of ForkJoin, or a stutter: finished goroutines are not
\* run again, and the caller returns when all have finished, with an error
\* exactly if one failed.
LEMMA StepSimulation ==
  ASSUME IInv, [Next]_vars
  PROVE  [Branch!Next]_<<[b \in Branches |-> TaskOf(b)], CallerOf>>
<1> USE DEF IInv, TypeOK, FetchedInv, Control, Outcomes, TaskOf, CallerOf
<1>1. CASE Return
  <2>1. \A b \in Branches : TaskOf(b) = IF fetched[b] = "error" THEN "failed" ELSE "ok"
    BY <1>1 DEF Return
  <2>2. superErr.type # Nil <=> \E b \in Branches : fetched[b] = "error"
    BY <1>1, BranchesAssumption, NoOneAssumption DEF Return, ErrorInv, AllBranches
  <2>3. Branch!Join
    BY <1>1, <2>1, <2>2 DEF Return, Branch!Join
  <2>4. QED  BY <2>3 DEF Branch!Next
<1>2. CASE UNCHANGED vars
  BY <1>2, Stutter DEF vars
<1>3. ASSUME NEW b \in Branches,
             FetchTree(b) \/ FetchError(b) \/ ErrType(b) \/ Lock(b) \/ BeginAssign(b)
      PROVE  [Branch!Next]_<<[c \in Branches |-> TaskOf(c)], CallerOf>>
  <2>1. /\ caller' = caller /\ caller # "crashed" /\ caller # "returned"
        /\ pc[b] # "done" /\ pc'[b] # "done"
        /\ \A c \in Branches \ {b} : pc'[c] = pc[c] /\ fetched'[c] = fetched[c]
    BY <1>3 DEF FetchTree, FetchError, ErrType, Lock, BeginAssign, Goto, Fetched
  <2>2. QED  BY <2>1, Stutter
<1>4. ASSUME NEW b \in Branches,
             FetchZero(b) \/ FetchNoUser(b) \/ ErrData(b) \/ Unlock(b)
      PROVE  Branch!Next
  <2>1. /\ caller' = caller /\ caller = "waiting"
        /\ pc[b] # "done" /\ pc'[b] = "done" /\ fetched'[b] # "pending"
        /\ \A c \in Branches \ {b} : pc'[c] = pc[c] /\ fetched'[c] = fetched[c]
    BY <1>4 DEF FetchZero, FetchNoUser, ErrData, Unlock, Goto, Fetched
  <2>2. QED  BY <2>1, Finishes
<1>5. ASSUME NEW b \in Branches, EndAssign(b)
      PROVE  [Branch!Next]_<<[c \in Branches |-> TaskOf(c)], CallerOf>>
  <2>1. /\ caller' = caller /\ caller = "waiting" /\ pc[b] # "done"
        /\ fetched' = fetched /\ fetched[b] = "tree"
        /\ \A c \in Branches \ {b} : pc'[c] = pc[c]
    BY <1>5 DEF EndAssign, Goto
  <2>2. CASE b \in Locking
    <3>1. pc'[b] = "unlock"  BY <1>5, <2>2 DEF EndAssign, Goto, Assigned
    <3>2. QED  BY <2>1, <3>1, Stutter
  <2>3. CASE b \notin Locking
    <3>1. pc'[b] = "done"  BY <1>5, <2>3 DEF EndAssign, Goto, Assigned
    <3>2. QED  BY <2>1, <3>1, Finishes
  <2>4. QED  BY <2>2, <2>3
<1>6. ASSUME NEW b \in Branches, FetchPanics(b) \/ ConcurrentMapWrites(b)
      PROVE  Branch!Next
  <2>1. /\ caller = "waiting" /\ caller' = "crashed" /\ pc[b] # "done"
        /\ fetched' = fetched
        /\ \A c \in Branches \ {b} : pc'[c] = pc[c]
        /\ pc'[b] # "done" \/ fetched[b] = "pending"
    BY <1>6 DEF FetchPanics, ConcurrentMapWrites, Goto
  <2>2. \A c \in Branches : TaskOf(c)' = TaskOf(c)
    BY <2>1
  <2>3. Branch!Crash
    BY <2>1, <2>2 DEF Branch!Crash
  <2>4. QED  BY <2>3 DEF Branch!Next
<1>7. QED
  BY <1>1, <1>2, <1>3, <1>4, <1>5, <1>6 DEF Next, Goroutine

\* GetCostTree implements ForkJoin, but for its liveness.
THEOREM Refinement == Spec => Branch!Spec
<1>1. Init => Branch!Init
  BY DEF Init, Branch!Init, TaskOf, CallerOf
<1>2. QED
  BY <1>1, StepSimulation, Invariant, PTL DEF Spec, Branch!Spec
=============================================================================
