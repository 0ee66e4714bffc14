---------------------------- MODULE WalkUserProofs ----------------------------
(***************************************************************************)
(* Proofs about WalkUser, for any number of tasks that share the address   *)
(* space and of kernel threads.  The point is the hand-over of the mm: it  *)
(* is a task's under task_lock(), so it has a user when mmget() adds one.  *)
(***************************************************************************)
EXTENDS WalkUser, TLAPS

(* Which tasks use the address space; and when it is torn down none does.  *)
Space ==
  /\ \A u \in UserTask : u \in mm <=> life[u] \in {"alive", "dying"}
  /\ \A u \in UserTask : u \in users <=> life[u] \in {"alive", "dying", "exit_mm"}
  /\ tables = "torn" => \A u \in UserTask : u \notin users

(* What walk_user() holds at each of its program points. *)
Held ==
  /\ UsesTask => task \in Task
  /\ task_refs = IF UsesTask THEN {task} ELSE {}
  /\ locked <=> pc \in {"read_mm", "read_active_mm", "mmget", "unlock", "unlock_err"}
  /\ Walker \in users <=> UsesMm
  /\ pid_current => pid_refs = {}
  /\ ~pid_current /\ pc # "init" /\ task # NoTask => pid_refs = {Walker}
  /\ own /\ pc = "mmget" => task \in mm
  /\ pc = "read_active_mm" => ~own

IInv == TypeOK /\ Space /\ Held /\ OwnTablesPinned
-------------------------------------------------------------------------------
(* The invariant holds before insmod starts. *)
LEMMA InitIInv == Init => IInv
BY WalkUserAssumption
DEF Init, IInv, TypeOK, Space, Held, OwnTablesPinned, UsesTask, UsesMm, Task

(* The steps of walk_user() preserve it. *)
LEMMA WalkerIInv ==
  ASSUME IInv, walk_user
  PROVE  IInv'
<1> USE WalkUserAssumption
    DEF IInv, TypeOK, Space, Held, OwnTablesPinned, UsesTask, UsesMm, space, Task
<1>1. CASE get_user_pid_task
  BY <1>1 DEF get_user_pid_task
<1>2. CASE task_lock
  BY <1>2 DEF task_lock
<1>3. CASE ReadMm
  BY <1>3 DEF ReadMm
<1>4. CASE ReadActiveMm
  BY <1>4 DEF ReadActiveMm
<1>5. CASE mmget
  BY <1>5 DEF mmget
<1>6. CASE task_unlock
  BY <1>6 DEF task_unlock
<1>7. CASE put_task_struct
  BY <1>7 DEF put_task_struct
<1>8. CASE WalkReturns
  BY <1>8 DEF WalkReturns
<1>9. CASE walk_mmput
  BY <1>9 DEF walk_mmput, mmput
<1> QED BY <1>1, <1>2, <1>3, <1>4, <1>5, <1>6, <1>7, <1>8, <1>9 DEF walk_user

(* An exiting task and the context switches preserve it. *)
LEMMA KernelIInv ==
  ASSUME IInv,
         \/ \E u \in UserTask : do_exit(u) \/ exiting(u) \/ release_task(u)
         \/ \E k \in Kthread : switch_kthread(k)
  PROVE  IInv'
<1> USE WalkUserAssumption
    DEF IInv, TypeOK, Space, Held, OwnTablesPinned, UsesTask, UsesMm, walker, Task
<1>1. ASSUME NEW u \in UserTask, do_exit(u) PROVE IInv'
  BY <1>1 DEF do_exit
<1>2. ASSUME NEW u \in UserTask, exit_mm(u) PROVE IInv'
  BY <1>2 DEF exit_mm, LockFree
<1>3. ASSUME NEW u \in UserTask, exit_mmput(u) PROVE IInv'
  BY <1>3 DEF exit_mmput, mmput
<1>4. ASSUME NEW u \in UserTask, schedule_away(u) PROVE IInv'
  BY <1>4 DEF schedule_away
<1>5. ASSUME NEW u \in UserTask, release_task(u) PROVE IInv'
  BY <1>5 DEF release_task
<1>6. ASSUME NEW k \in Kthread, switch_kthread(k) PROVE IInv'
  BY <1>6 DEF switch_kthread
<1> QED BY <1>1, <1>2, <1>3, <1>4, <1>5, <1>6 DEF exiting
-------------------------------------------------------------------------------
(* The strengthened invariant holds for every interleaving of walk_user()  *)
(* with the exits of the tasks.                                            *)
THEOREM WalkUserInvariant == Spec => []IInv
<1>1. IInv /\ [Next]_vars => IInv'
  <2>1. IInv /\ Next => IInv'
    BY WalkerIInv, KernelIInv DEF Next
  <2>2. IInv /\ UNCHANGED vars => IInv'
    BY DEF vars, IInv, TypeOK, Space, Held, OwnTablesPinned, UsesTask, UsesMm
  <2> QED BY <2>1, <2>2
<1> QED BY InitIInv, <1>1, PTL DEF Spec

(* Every variable keeps its type. *)
THEOREM WalkUserTypeOK == Spec => []TypeOK
<1>1. IInv => TypeOK
  BY DEF IInv
<1> QED BY <1>1, WalkUserInvariant, PTL

(* Page tables reached through task->mm stay until walk_user() calls       *)
(* mmput(), whoever exits meanwhile.                                       *)
THEOREM WalkUserPinsTables == Spec => []OwnTablesPinned
<1>1. IInv => OwnTablesPinned
  BY DEF IInv
<1> QED BY <1>1, WalkUserInvariant, PTL

(* walk_user() uses its task_struct only while it holds a reference.       *)
THEOREM WalkUserPinsTask == Spec => []TaskPinned
<1>1. IInv => TaskPinned
  BY DEF IInv, Held, TaskPinned, TaskFreed
<1> QED BY <1>1, WalkUserInvariant, PTL

(* walk_user() returns with the lock and every reference given back but    *)
(* that to the struct pid, which it keeps whenever it found a task by its  *)
(* number.                                                                 *)
THEOREM WalkUserKeepsPidOnly == Spec => []OnlyPidKept
<1>1. IInv => OnlyPidKept
  BY DEF IInv, Held, OnlyPidKept, Returned, UsesTask, UsesMm
<1> QED BY <1>1, WalkUserInvariant, PTL
===============================================================================
