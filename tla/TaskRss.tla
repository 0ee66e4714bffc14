-------------------------------- MODULE TaskRss --------------------------------
(***************************************************************************)
(* modules/task_rss.c: prints the resident memory of every process.  The   *)
(* list of processes is walked without RCU, so that only a reference keeps *)
(* a task, and each is put before the walk reads its next pointer.  The    *)
(* list, exit and the release of tasks and their memory are external.      *)
(***************************************************************************)
EXTENDS Naturals, Sequences, Functions, SequencesExt

CONSTANT Proc  \* processes and kernel threads; "init_task" is the list's head

VARIABLES
  life,     \* each process: "unborn", "alive", "exited" (no mm), "unhashed", "freed"
  procs,    \* the list: the processes in order
  kept,     \* the next pointer of a process that was taken off the list
  step,     \* "next", "get", "mm", "put", "done", "bad"
  tsk,
  task_ref, mm_ref,  \* the processes whose task, whose mm the module holds
  rss,      \* the processes printed with their memory
  shown,    \* all processes printed, in order
  calm      \* history: no process has exited or been released

vars == <<life, procs, kept, step, tsk, task_ref, mm_ref, rss, shown, calm>>
system == <<life, procs, kept, calm>>

Init ==
  /\ \E n \in DOMAIN SetToSeq(Proc) : procs = SubSeq(SetToSeq(Proc), 1, n)
  /\ life = [p \in Proc |-> IF p \in Range(procs) THEN "alive" ELSE "unborn"]
  /\ kept = [p \in Proc |-> "init_task"]
  /\ step = "next" /\ tsk = "init_task"
  /\ task_ref = {} /\ mm_ref = {} /\ rss = {} /\ shown = <<>> /\ calm = TRUE

place(p) == IF p = "init_task" THEN 0 ELSE CHOOSE k \in DOMAIN procs : procs[k] = p
next(p) ==
  IF p # "init_task" /\ p \notin Range(procs) THEN kept[p]
  ELSE IF place(p) = Len(procs) THEN "init_task" ELSE procs[place(p) + 1]
-------------------------------------------------------------------------------
fork(p) ==
  /\ life[p] = "unborn"
  /\ life' = [life EXCEPT ![p] = "alive"] /\ procs' = Append(procs, p)
  /\ UNCHANGED <<kept, calm, step, tsk, task_ref, mm_ref, rss, shown>>

(* exit_mm(), then release_task(), then the last reference. *)
exit(p) ==
  /\ \/ life[p] = "alive" /\ life' = [life EXCEPT ![p] = "exited"] /\ UNCHANGED <<procs, kept>>
     \/ /\ life[p] = "exited" /\ life' = [life EXCEPT ![p] = "unhashed"]
        /\ kept' = [kept EXCEPT ![p] = next(p)]
        /\ procs' = SelectSeq(procs, LAMBDA q : q # p)
     \/ /\ life[p] = "unhashed" /\ p \notin task_ref
        /\ life' = [life EXCEPT ![p] = "freed"] /\ UNCHANGED <<procs, kept>>
  /\ calm' = FALSE
  /\ UNCHANGED <<step, tsk, task_ref, mm_ref, rss, shown>>
-------------------------------------------------------------------------------
Freed(p) == p # "init_task" /\ life[p] = "freed"

for_each_process ==
  /\ step = "next"
  /\ IF Freed(tsk) THEN step' = "bad" /\ UNCHANGED tsk
     ELSE /\ tsk' = next(tsk)
          /\ step' = IF next(tsk) = "init_task" THEN "done" ELSE "get"
  /\ UNCHANGED <<system, task_ref, mm_ref, rss, shown>>

get_task_struct ==
  /\ step = "get"
  /\ IF Freed(tsk) THEN step' = "bad" /\ UNCHANGED task_ref
                   ELSE step' = "mm" /\ task_ref' = task_ref \cup {tsk}
  /\ UNCHANGED <<system, tsk, mm_ref, rss, shown>>

(* get_task_mm() has no mm to give of one that exits, or a kernel thread. *)
get_task_mm ==
  /\ step = "mm"
  /\ \/ life[tsk] = "alive" /\ mm_ref' = mm_ref \cup {tsk}
     \/ UNCHANGED mm_ref
  /\ step' = "put"
  /\ UNCHANGED <<system, tsk, task_ref, rss, shown>>

put_task_struct_MmKept ==
  /\ step = "put" /\ step' = "next"
  /\ rss' = rss \cup mm_ref
  /\ task_ref' = task_ref \ {tsk} /\ shown' = Append(shown, tsk)
  /\ UNCHANGED <<system, tsk, mm_ref>>
put_task_struct ==
  /\ step = "put" /\ step' = "next"
  /\ rss' = rss \cup mm_ref /\ mm_ref' = {}
  /\ task_ref' = task_ref \ {tsk} /\ shown' = Append(shown, tsk)
  /\ UNCHANGED <<system, tsk>>

Next ==
  /\ step \notin {"done", "bad"}
  /\ \/ for_each_process \/ get_task_struct \/ get_task_mm \/ put_task_struct
     \/ \E p \in Proc : fork(p) \/ exit(p)

Spec == Init /\ [][Next]_vars
-------------------------------------------------------------------------------
(* Nothing is held when the module returns, even if the walk met processes *)
(* that were exiting.                                                      *)
NothingHeld == step = "done" => task_ref = {} /\ mm_ref = {}

(* As long as nobody exits the walk is safe, prints everybody once and     *)
(* nobody twice.                                                           *)
ForksDoNoHarm ==
  /\ calm => step # "bad" /\ IsInjective(shown)
  /\ calm /\ step = "done" => Range(shown) = Range(procs)
===============================================================================
