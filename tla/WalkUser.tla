------------------------------- MODULE WalkUser -------------------------------
(***************************************************************************)
(* walk_user() of modules/page_table_walk.c: how it gets hold of the mm of *)
(* a task that may be exiting meanwhile.  There is one address space, the  *)
(* user tasks that share it, and kernel threads that borrow it lazily.     *)
(* What the rest of the kernel does to it (do_exit(), context switches) is *)
(* external.  Counters are sets of holders: a holder counts once.          *)
(***************************************************************************)
CONSTANTS
  UserTask,  \* the tasks that start with the address space as their own
  Kthread,   \* tasks without one
  Walker,    \* insmod, as a holder of references
  Current,   \* the task that runs insmod when pid=-1
  NoTask     \* a NULL task pointer

Task == UserTask \cup Kthread

ASSUME WalkUserAssumption ==
  /\ Current \in UserTask
  /\ Walker \notin Task
  /\ NoTask \notin Task
  /\ UserTask \cap Kthread = {}

VARIABLES
  pid_current,  \* user_pid == -1
  pc,           \* where walk_user() is
  task,         \* its local task
  own,          \* the mm it read is task->mm rather than task->active_mm
  locked,       \* walk_user() holds task_lock(task)
  task_refs,    \* its references to task_structs
  pid_refs,     \* the holders of the struct pid that user_pid names: it, or nobody
  life,         \* how far each task has exited
  mm,           \* the tasks whose ->mm is the address space
  active_mm,    \* the tasks whose ->active_mm is
  users,        \* the holders of mm_users
  tables        \* its page tables: "mapped", or "torn" down by the last mmput()

vars == <<pid_current, pc, task, own, locked, task_refs, pid_refs, life, mm,
          active_mm, users, tables>>
walker == <<pid_current, pc, task, own, locked, task_refs, pid_refs>>
space == <<life, mm, active_mm, users, tables>>

Init ==
  /\ pid_current \in BOOLEAN
  /\ pc = "init"
  /\ task = NoTask
  /\ own = FALSE
  /\ locked = FALSE
  /\ task_refs = {}
  /\ pid_refs = {}
  /\ life = [t \in Task |-> "alive"]
  /\ mm = UserTask
  /\ active_mm = UserTask
  /\ users = UserTask
  /\ tables = "mapped"

(* The last mmput() tears the page tables down. *)
mmput(h) ==
  /\ users' = users \ {h}
  /\ tables' = IF users' = {} THEN "torn" ELSE tables

Returned == pc \in {"done", "esrch"}

(* task_lock(t) can be taken by somebody other than walk_user(). *)
LockFree(t) == ~(locked /\ task = t)

(* A task_struct lives until it is reaped and nobody refers to it. *)
TaskFreed(t) == life[t] = "gone" /\ t \notin task_refs
-------------------------------------------------------------------------------
get_user_pid_task_NoReference ==
  /\ pc = "init"
  /\ task' \in IF pid_current THEN {Current}
               ELSE {t \in Task : life[t] # "gone"} \cup {NoTask}
  /\ pid_refs' = IF task' = NoTask \/ pid_current THEN pid_refs ELSE pid_refs \cup {Walker}
  /\ pc' = IF task' = NoTask THEN "esrch" ELSE "lock"
  /\ UNCHANGED <<pid_current, own, locked, task_refs, space>>

(* pid=-1, or whatever task the PID names at this moment.  find_get_pid()  *)
(* takes a reference to the struct pid, also when that is the number of a  *)
(* group or session whose leader is gone, and nothing puts it.             *)
get_user_pid_task ==
  /\ pc = "init"
  /\ \/ pid_current /\ task' = Current /\ UNCHANGED pid_refs
     \/ /\ ~pid_current
        /\ task' \in {t \in Task : life[t] # "gone"} \cup {NoTask}
        /\ pid_refs' = pid_refs \cup {Walker}
     \/ ~pid_current /\ task' = NoTask /\ UNCHANGED pid_refs
  /\ IF task' = NoTask
     THEN pc' = "esrch" /\ UNCHANGED task_refs
     ELSE pc' = "lock" /\ task_refs' = task_refs \cup {task'}
  /\ UNCHANGED <<pid_current, own, locked, space>>

task_lock ==
  /\ pc = "lock"
  /\ locked' = TRUE
  /\ pc' = "read_mm"
  /\ UNCHANGED <<pid_current, task, own, task_refs, pid_refs, space>>

ReadMm ==
  /\ pc = "read_mm"
  /\ \/ task \in mm /\ own' = TRUE /\ pc' = "mmget"
     \/ task \notin mm /\ own' = FALSE /\ pc' = "read_active_mm"
  /\ UNCHANGED <<pid_current, task, locked, task_refs, pid_refs, space>>

ReadActiveMm ==
  /\ pc = "read_active_mm"
  /\ pc' = IF task \in active_mm THEN "mmget" ELSE "unlock_err"
  /\ UNCHANGED <<pid_current, task, own, locked, task_refs, pid_refs, space>>

mmget_Omitted ==
  /\ pc = "mmget"
  /\ pc' = "unlock"
  /\ UNCHANGED <<pid_current, task, own, locked, task_refs, pid_refs, space>>

(* mmget() does not look whether there still is a user. *)
mmget ==
  /\ pc = "mmget"
  /\ users' = users \cup {Walker}
  /\ pc' = "unlock"
  /\ UNCHANGED <<pid_current, task, own, locked, task_refs, pid_refs, life, mm,
                 active_mm, tables>>

task_unlock_ErrorPathOnly ==
  /\ \/ pc = "unlock" /\ pc' = "put" /\ UNCHANGED locked
     \/ pc = "unlock_err" /\ pc' = "put_err" /\ locked' = FALSE
  /\ UNCHANGED <<pid_current, task, own, task_refs, pid_refs, space>>

task_unlock ==
  /\ \/ pc = "unlock" /\ pc' = "put"
     \/ pc = "unlock_err" /\ pc' = "put_err"
  /\ locked' = FALSE
  /\ UNCHANGED <<pid_current, task, own, task_refs, pid_refs, space>>

put_task_struct_ErrorPathOmitted ==
  /\ \/ pc = "put" /\ pc' = "walk" /\ task_refs' = task_refs \ {task}
     \/ pc = "put_err" /\ pc' = "esrch" /\ UNCHANGED task_refs
  /\ UNCHANGED <<pid_current, task, own, locked, pid_refs, space>>

put_task_struct ==
  /\ \/ pc = "put" /\ pc' = "walk"
     \/ pc = "put_err" /\ pc' = "esrch"
  /\ task_refs' = task_refs \ {task}
  /\ UNCHANGED <<pid_current, task, own, locked, pid_refs, space>>

(* walk() returns 0 or the error of rdmsrl_safe(); mmput() comes either way. *)
WalkReturns ==
  /\ pc = "walk"
  /\ pc' = "mmput"
  /\ UNCHANGED <<pid_current, task, own, locked, task_refs, pid_refs, space>>

walk_mmput_Omitted ==
  /\ pc = "mmput"
  /\ pc' = "done"
  /\ UNCHANGED <<pid_current, task, own, locked, task_refs, pid_refs, space>>

walk_mmput ==
  /\ pc = "mmput"
  /\ mmput(Walker)
  /\ pc' = "done"
  /\ UNCHANGED <<pid_current, task, own, locked, task_refs, pid_refs, life, mm, active_mm>>

walk_user ==
  \/ get_user_pid_task \/ task_lock \/ ReadMm \/ ReadActiveMm \/ mmget
  \/ task_unlock \/ put_task_struct \/ WalkReturns \/ walk_mmput
-------------------------------------------------------------------------------
(* The kernel.  A user task is killed or calls exit(2); insmod cannot be   *)
(* exiting while it runs walk_user().                                      *)
do_exit(u) ==
  /\ life[u] = "alive"
  /\ pid_current /\ u = Current => Returned
  /\ life' = [life EXCEPT ![u] = "dying"]
  /\ UNCHANGED <<walker, mm, active_mm, users, tables>>

(* exit_mm() clears ->mm under task_lock() and keeps ->active_mm, lazily. *)
exit_mm(u) ==
  /\ life[u] = "dying"
  /\ LockFree(u)
  /\ mm' = mm \ {u}
  /\ life' = [life EXCEPT ![u] = "exit_mm"]
  /\ UNCHANGED <<walker, active_mm, users, tables>>

exit_mmput(u) ==
  /\ life[u] = "exit_mm"
  /\ mmput(u)
  /\ life' = [life EXCEPT ![u] = "schedule"]
  /\ UNCHANGED <<walker, mm, active_mm>>

(* The last context switch drops ->active_mm, or hands it to a kthread.    *)
(* It does not take task_lock().                                           *)
schedule_away(u) ==
  /\ life[u] = "schedule"
  /\ \/ active_mm' = active_mm \ {u}
     \/ \E k \in Kthread \ active_mm : active_mm' = (active_mm \ {u}) \cup {k}
  /\ life' = [life EXCEPT ![u] = "zombie"]
  /\ UNCHANGED <<walker, mm, users, tables>>

release_task(u) ==
  /\ life[u] = "zombie"
  /\ life' = [life EXCEPT ![u] = "gone"]
  /\ UNCHANGED <<walker, mm, active_mm, users, tables>>

(* A kthread that runs after a user task borrows its mm, and gives it back *)
(* when it stops running.                                                  *)
switch_kthread(k) ==
  /\ \/ k \in active_mm /\ active_mm' = active_mm \ {k}
     \/ k \notin active_mm /\ mm # {} /\ active_mm' = active_mm \cup {k}
  /\ UNCHANGED <<walker, life, mm, users, tables>>

exiting(u) == exit_mm(u) \/ exit_mmput(u) \/ schedule_away(u)

Next ==
  \/ walk_user
  \/ \E u \in UserTask : do_exit(u) \/ exiting(u) \/ release_task(u)
  \/ \E k \in Kthread : switch_kthread(k)

Spec == Init /\ [][Next]_vars

(* insmod runs to its end, and so does an exit that has begun. *)
FairSpec ==
  /\ Spec
  /\ WF_vars(walk_user)
  /\ \A u \in UserTask : WF_vars(exiting(u))
-------------------------------------------------------------------------------
(* Type invariant. *)
TypeOK ==
  /\ pid_current \in BOOLEAN
  /\ pc \in {"init", "lock", "read_mm", "read_active_mm", "mmget", "unlock", "put",
             "walk", "mmput", "unlock_err", "put_err", "done", "esrch"}
  /\ task \in Task \cup {NoTask}
  /\ own \in BOOLEAN
  /\ locked \in BOOLEAN
  /\ task_refs \subseteq Task
  /\ pid_refs \subseteq {Walker}
  /\ life \in [Task -> {"alive", "dying", "exit_mm", "schedule", "zombie", "gone"}]
  /\ mm \subseteq UserTask
  /\ active_mm \subseteq Task
  /\ users \subseteq UserTask \cup {Walker}
  /\ tables \in {"mapped", "torn"}

(* The program points of walk_user() at which it uses its local task, and  *)
(* those between mmget() and mmput().                                      *)
UsesTask == pc \in {"lock", "read_mm", "read_active_mm", "mmget", "unlock", "put",
                    "unlock_err", "put_err"}
UsesMm == pc \in {"unlock", "put", "walk", "mmput"}

(* While walk() reads page tables got through task->mm they are not torn   *)
(* down, although the task was unlocked and put before and may be gone.    *)
OwnTablesPinned == own /\ UsesMm => tables = "mapped"

(* walk_user() never touches a task_struct that has been freed.            *)
TaskPinned == UsesTask => ~TaskFreed(task)

(* On every path walk_user() returns without the lock, without references  *)
(* to tasks and without a use of the address space.  The one thing that it *)
(* does keep is the struct pid: for every task that it found by number.    *)
OnlyPidKept ==
  Returned =>
    /\ ~locked /\ task_refs = {} /\ Walker \notin users
    /\ pid_current => pid_refs = {}
    /\ ~pid_current /\ task # NoTask => pid_refs = {Walker}

(* Nobody's exit is held up for ever: walk_user() gives task_lock() back.  *)
ExitCompletes == \A u \in UserTask : life[u] = "dying" ~> life[u] \in {"zombie", "gone"}

(* When all of its tasks exit, the address space is torn down: walk_user() *)
(* may delay that but not prevent it.                                      *)
TablesReclaimed == (\A u \in UserTask : life[u] # "alive") ~> tables = "torn"

(* "Appropriately use mm{get,put}() and task_[un]lock() to get ahold of    *)
(* task->mm or task->active_mm": mmget() is for an mm that has a user, so  *)
(* that it cannot be torn down, or be torn down already.                   *)
MmgetHasUser == pc = "mmget" => users # {}
===============================================================================
