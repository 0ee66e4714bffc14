----------------------------- MODULE TaskTreeRace -----------------------------
(***************************************************************************)
(* dump_children_tree() of modules/task_bfs_dfs.c in a live system.  The   *)
(* walk follows task->children and task->sibling with neither the          *)
(* tasklist_lock nor RCU, so tasks fork, exit, are reparented, released    *)
(* and freed between any two of its reads.  TaskTreeWalk has the queue and *)
(* its memory on a frozen tree; here the pointers into the lists matter.   *)
(* fork, exit and the release of tasks are external.                       *)
(***************************************************************************)
EXTENDS Naturals, Sequences, Functions, SequencesExt

CONSTANTS
  Task,
  init,      \* the task that orphans go to, which never exits
  root,      \* the task whose tree is printed
  MaxQueue   \* bound on the length of the queue

VARIABLES
  use_bfs,      \* module parameter
  state,        \* each task: "unborn", "alive", "zombie", "released", "freed"
  children,     \* the list task->children of each task
  real_parent,  \* which a released task keeps
  pc,           \* "take", "child", "advance", "done", "nomem", "bad"
  queue,        \* the tasks in the queue
  task,         \* the task being processed
  list,         \* the list node the cursor is at: a task's sibling or children
  refs,         \* references that the module holds to each task
  printed,
  below,        \* history: the tree when the walk began
  quiet         \* history: no task has exited or was released since

vars == <<use_bfs, state, children, real_parent, pc, queue, task, list, refs, printed,
          below, quiet>>
kernel == <<use_bfs, state, children, real_parent, below, quiet>>
walk == <<use_bfs, pc, queue, task, list, refs, printed, below>>

sibling(t) == [of |-> t, field |-> "sibling"]
head(t) == [of |-> t, field |-> "children"]

Place(l, t) == CHOOSE k \in DOMAIN l : l[k] = t

(* node->next.  list_del_init() leaves a node that points to itself. *)
next(n) ==
  IF n.field = "children"
  THEN IF children[n.of] = <<>> THEN n ELSE sibling(Head(children[n.of]))
  ELSE IF state[n.of] = "released" THEN n
  ELSE LET l == children[real_parent[n.of]]
           k == Place(l, n.of)
       IN  IF k = Len(l) THEN head(real_parent[n.of]) ELSE sibling(l[k + 1])

(* The task and its descendants, in trees of depth up to three. *)
Below(t) ==
  LET Down(S) == S \cup UNION {Range(children[u]) : u \in S}
  IN  Down(Down(Down({t})))

(* init has root as a child, and root has n - k of the others, the first   *)
(* of which has k.                                                         *)
Others == SetToSeq(Task \ {init, root})
Init ==
  /\ use_bfs \in BOOLEAN
  /\ \E n \in DOMAIN Others : \E k \in 0..(n - 1) :
       /\ state = [t \in Task |-> IF t \in {init, root} \cup Range(SubSeq(Others, 1, n))
                                  THEN "alive" ELSE "unborn"]
       /\ children = [t \in Task |-> CASE t = init -> <<root>>
                                       [] t = root -> SubSeq(Others, 1, n - k)
                                       [] t = Others[1] -> SubSeq(Others, n - k + 1, n)
                                       [] OTHER -> <<>>]
  /\ real_parent = [t \in Task |->
       IF t \in {init, root} THEN init
       ELSE IF \E p \in Task : t \in Range(children[p])
       THEN CHOOSE p \in Task : t \in Range(children[p]) ELSE init]
  /\ pc = "take"
  /\ queue = <<root>>
  /\ task = root
  /\ list = head(root)
  /\ refs = [t \in Task |-> IF t = root THEN 1 ELSE 0]
  /\ printed = <<>>
  /\ below = Below(root)
  /\ quiet = TRUE
-------------------------------------------------------------------------------
fork(p) ==
  /\ state[p] = "alive" /\ \E c \in Task : state[c] = "unborn"
  /\ LET c == CHOOSE c \in Task : state[c] = "unborn" IN
       /\ state' = [state EXCEPT ![c] = "alive"]
       /\ children' = [children EXCEPT ![p] = Append(@, c)]
       /\ real_parent' = [real_parent EXCEPT ![c] = p]
  /\ UNCHANGED <<walk, quiet>>

(* exit_notify(): the children are spliced to the tail of init's list. *)
do_exit(t) ==
  /\ t # init /\ state[t] = "alive"
  /\ state' = [state EXCEPT ![t] = "zombie"]
  /\ children' = [children EXCEPT ![t] = <<>>, ![init] = @ \o children[t]]
  /\ real_parent' = [u \in Task |-> IF u \in Range(children[t]) THEN init ELSE real_parent[u]]
  /\ quiet' = FALSE
  /\ UNCHANGED walk

release_task(t) ==
  /\ state[t] = "zombie"
  /\ state' = [state EXCEPT ![t] = "released"]
  /\ children' = [children EXCEPT ![real_parent[t]] = RemoveAt(@, Place(@, t))]
  /\ quiet' = FALSE
  /\ UNCHANGED <<walk, real_parent>>

(* After the grace period, which this walk does not prolong. *)
free_task(t) ==
  /\ state[t] = "released" /\ refs[t] = 0
  /\ state' = [state EXCEPT ![t] = "freed"]
  /\ UNCHANGED <<walk, children, real_parent, quiet>>
-------------------------------------------------------------------------------
(* Prints a task, which reads its real_parent, and starts on its children. *)
TakeTask ==
  /\ pc = "take" /\ queue # <<>>
  /\ state[real_parent[Head(queue)]] # "freed"
  /\ task' = Head(queue)
  /\ queue' = Tail(queue)
  /\ printed' = Append(printed, Head(queue))
  /\ list' = next(head(Head(queue)))
  /\ pc' = "child"
  /\ UNCHANGED <<kernel, refs>>

get_task_struct_Dropped(t) == UNCHANGED refs
get_task_struct(t) == refs' = [refs EXCEPT ![t] = @ + 1]

(* list_entry() is right about a sibling node only. *)
QueueChild ==
  /\ pc = "child"
  /\ list.field = "sibling" /\ state[list.of] # "freed"
  /\ get_task_struct(list.of)
  /\ \/ /\ Len(queue) < MaxQueue
        /\ queue' = IF use_bfs THEN Append(queue, list.of) ELSE <<list.of>> \o queue
        /\ pc' = "advance"
     \/ /\ queue' = <<>>
        /\ pc' = "nomem"
  /\ UNCHANGED <<kernel, task, list, printed>>

Advance_ChildrenOf ==
  /\ pc = "advance"
  /\ list' = next(head(list.of))
  /\ pc' = "child"
  /\ UNCHANGED <<kernel, queue, task, refs, printed>>
Advance ==
  /\ pc = "advance"
  /\ list' = next(list)
  /\ pc' = "child"
  /\ UNCHANGED <<kernel, queue, task, refs, printed>>

FinishTask ==
  /\ pc = "child" /\ list = head(task)
  /\ refs' = [refs EXCEPT ![task] = @ - 1]
  /\ pc' = "take"
  /\ UNCHANGED <<kernel, queue, task, list, printed>>

WalkDone ==
  /\ pc = "take" /\ queue = <<>>
  /\ pc' = "done"
  /\ UNCHANGED <<kernel, queue, task, list, refs, printed>>

(* Freed memory, or the head of another task's list taken for a task. *)
BadAccess ==
  /\ \/ pc = "take" /\ queue # <<>> /\ state[real_parent[Head(queue)]] = "freed"
     \/ pc = "child" /\ list.field = "sibling" /\ state[list.of] = "freed"
     \/ pc = "child" /\ list.field = "children" /\ list # head(task)
  /\ pc' = "bad"
  /\ UNCHANGED <<kernel, queue, task, list, refs, printed>>

Walk == TakeTask \/ QueueChild \/ Advance \/ FinishTask \/ WalkDone \/ BadAccess

Next ==
  /\ pc \notin {"done", "nomem", "bad"}
  /\ \/ Walk
     \/ \E t \in Task : fork(t) \/ do_exit(t) \/ release_task(t) \/ free_task(t)

Spec == Init /\ [][Next]_vars
-------------------------------------------------------------------------------
(* Every task in the queue, and the one being processed, is kept by a      *)
(* reference of its own, whatever the system does: only the cursor and     *)
(* real_parent can lead the walk to freed memory.                          *)
QueuedTasksKept ==
  pc \in {"take", "child", "advance"} =>
    \A t \in Task :
      /\ refs[t] = Cardinality({k \in DOMAIN queue : queue[k] = t})
                   + (IF pc # "take" /\ task = t THEN 1 ELSE 0)
      /\ refs[t] > 0 => state[t] # "freed"

(* Forks alone do no harm: as long as nobody exits the walk touches tasks  *)
(* only, prints nobody twice, and ends with everybody printed who was      *)
(* there when it began.                                                    *)
ForksDoNoHarm ==
  quiet => /\ pc # "bad"
           /\ IsInjective(printed)
           /\ pc = "done" => below \subseteq Range(printed)
===============================================================================
