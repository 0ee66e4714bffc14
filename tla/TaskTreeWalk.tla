----------------------------- MODULE TaskTreeWalk -----------------------------
(***************************************************************************)
(* modules/task_bfs_dfs.c: one insmod of the module, which looks a task up *)
(* by PID, walks the tree of its descendants breadth or depth first with a *)
(* queue of kmalloc'ed nodes, dumps every task, and counts its references. *)
(* The task tree is frozen while the walk runs.  The queue is a sequence   *)
(* here; TaskQueueHeap has its nodes and pointers.                         *)
(***************************************************************************)
EXTENDS Integers, Sequences, FiniteSets, Functions

CONSTANTS
  Task,      \* the tasks, numbered so that a parent comes before its children
  TaskTrees  \* the families of ->children lists the walk may be started on

NULL == 0

(* A family of children lists as the kernel keeps them: a task is linked   *)
(* through its one sibling node, so it occurs once and on one list only,   *)
(* and nobody is its own ancestor, so that a numbering as above exists.    *)
IsTaskTree(ch) ==
  /\ ch \in [Task -> Seq(Task)]
  /\ \A p, r \in Task : \A j \in 1..Len(ch[p]), k \in 1..Len(ch[r]) :
       ch[p][j] = ch[r][k] => p = r /\ j = k
  /\ \A p \in Task : \A j \in 1..Len(ch[p]) : p < ch[p][j]

ASSUME TaskAssumption ==
  /\ Task \subseteq Nat \ {NULL}
  /\ \A ch \in TaskTrees : IsTaskTree(ch)

VARIABLES
  use_bfs,   \* the module parameter bfs
  children,  \* task->children of every task
  pc,        \* where modinit() or dump_children_tree() is
  root,      \* tsk of modinit()
  task,      \* the task being processed
  list,      \* position of list_for_each() in the children of task
  q,         \* the queue, head first
  refs,      \* the references to each task_struct that the module holds
  pid_refs,  \* its references to the struct pid of user_pid
  dumped     \* the tasks printed so far, in order

vars == <<use_bfs, children, pc, root, task, list, q, refs, pid_refs, dumped>>
params == <<use_bfs, children>>

Init ==
  /\ use_bfs \in BOOLEAN
  /\ children \in TaskTrees
  /\ pc = "modinit"
  /\ root = NULL
  /\ task = NULL
  /\ list = 1
  /\ q = <<>>
  /\ refs = [t \in Task |-> 0]
  /\ pid_refs = 0
  /\ dumped = <<>>
-------------------------------------------------------------------------------
get_task_struct_Dropped(t) == UNCHANGED refs
get_task_struct(t) == refs' = [refs EXCEPT ![t] = @ + 1]

put_task_struct_Dropped(t) == UNCHANGED refs
put_task_struct(t) == refs' = [refs EXCEPT ![t] = @ - 1]

(* The ends at which the two modes add a node. *)
Enqueue_Swapped(t) == q' = IF use_bfs THEN <<t>> \o q ELSE Append(q, t)
Enqueue(t) == q' = IF use_bfs THEN Append(q, t) ELSE <<t>> \o q

(* get_user_pid_task(): whichever task user_pid names, with a reference,   *)
(* and a reference to the struct pid from find_get_pid().                  *)
get_user_pid_task ==
  /\ pc = "modinit"
  /\ \E tsk \in Task : /\ root' = tsk
                       /\ task' = tsk
                       /\ get_task_struct(tsk)
  /\ pid_refs' = pid_refs + 1
  /\ pc' = "alloc"
  /\ UNCHANGED <<params, list, q, dumped>>

(* user_pid names no task: modinit() returns -ESRCH.  A struct pid may     *)
(* still be there, as the id of a process group or a session.              *)
NoSuchTask ==
  /\ pc = "modinit"
  /\ pc' = "esrch"
  /\ pid_refs' \in {pid_refs, pid_refs + 1}
  /\ UNCHANGED <<params, root, task, list, q, refs, dumped>>

(* kmalloc() of the first node; when it fails q is NULL at out_nomem. *)
AllocFirst ==
  /\ pc = "alloc"
  /\ \/ q' = <<task>> /\ pc' = "loop"
     \/ q' = q /\ pc' = "out_nomem"
  /\ UNCHANGED <<params, root, task, list, refs, pid_refs, dumped>>

(* while (q): in DFS mode the node is taken off and freed at once, in BFS  *)
(* mode it stays at the head until its children are queued.                *)
TakeTask ==
  /\ pc = "loop"
  /\ q # <<>>
  /\ task' = Head(q)
  /\ q' = IF use_bfs THEN q ELSE Tail(q)
  /\ pc' = "dump"
  /\ UNCHANGED <<params, root, list, refs, pid_refs, dumped>>

(* for_each_thread() puts every reference it gets before it goes on to the *)
(* next thread.                                                            *)
dump_task_threads == UNCHANGED refs

(* Print the task and, if asked to, its threads. *)
DumpTask ==
  /\ pc = "dump"
  /\ dumped' = Append(dumped, task)
  /\ dump_task_threads
  /\ list' = 1
  /\ pc' = "children"
  /\ UNCHANGED <<params, root, task, q, pid_refs>>

(* One turn of list_for_each(): the child's reference is taken before the  *)
(* kmalloc() that may fail.                                                *)
QueueChild ==
  /\ pc = "children"
  /\ list <= Len(children[task])
  /\ LET child == children[task][list]
     IN  /\ get_task_struct(child)
         /\ \/ /\ Enqueue(child)
               /\ list' = list + 1
               /\ UNCHANGED pc
            \/ /\ pc' = "out_nomem"
               /\ UNCHANGED <<q, list>>
  /\ UNCHANGED <<params, root, task, pid_refs, dumped>>

FinishTask_NotDequeued ==
  /\ pc = "children"
  /\ list > Len(children[task])
  /\ put_task_struct(task)
  /\ q' = q
  /\ pc' = "loop"
  /\ UNCHANGED <<params, root, task, list, pid_refs, dumped>>

FinishTask_LastChildSkipped ==
  /\ pc = "children"
  /\ list >= Len(children[task])
  /\ put_task_struct(task)
  /\ q' = IF use_bfs THEN Tail(q) ELSE q
  /\ pc' = "loop"
  /\ UNCHANGED <<params, root, task, list, pid_refs, dumped>>

(* The end of the children: drop the task and, in BFS mode, its node. *)
FinishTask ==
  /\ pc = "children"
  /\ list > Len(children[task])
  /\ put_task_struct(task)
  /\ q' = IF use_bfs THEN Tail(q) ELSE q
  /\ pc' = "loop"
  /\ UNCHANGED <<params, root, task, list, pid_refs, dumped>>

(* The queue is empty: modinit() returns -ECANCELED. *)
WalkDone ==
  /\ pc = "loop"
  /\ q = <<>>
  /\ pc' = "done"
  /\ UNCHANGED <<params, root, task, list, q, refs, pid_refs, dumped>>

(* out_nomem frees the nodes, and only the nodes. *)
FreeQueue_Stuck ==
  /\ pc = "out_nomem"
  /\ q = <<>>
  /\ pc' = "gave_up"
  /\ UNCHANGED <<params, root, task, list, q, refs, pid_refs, dumped>>

FreeQueue ==
  /\ pc = "out_nomem"
  /\ \/ q # <<>> /\ q' = Tail(q) /\ UNCHANGED pc
     \/ q = <<>> /\ pc' = "gave_up" /\ UNCHANGED q
  /\ UNCHANGED <<params, root, task, list, refs, pid_refs, dumped>>

Next ==
  \/ get_user_pid_task \/ NoSuchTask \/ AllocFirst
  \/ TakeTask \/ DumpTask \/ QueueChild \/ FinishTask \/ WalkDone
  \/ FreeQueue

Spec == Init /\ [][Next]_vars

(* insmod runs modinit() to its end: nothing else has to happen for it. *)
FairSpec == Spec /\ WF_vars(Next)
-------------------------------------------------------------------------------
PcStates == {"modinit", "alloc", "loop", "dump", "children",
             "out_nomem", "done", "gave_up", "esrch"}

(* Type invariant: in particular no reference count ever goes negative.    *)
TypeOK ==
  /\ use_bfs \in BOOLEAN
  /\ children \in TaskTrees
  /\ pc \in PcStates
  /\ root \in Task \cup {NULL}
  /\ task \in Task \cup {NULL}
  /\ list \in Nat \ {0}
  /\ q \in Seq(Task)
  /\ refs \in [Task -> Nat]
  /\ pid_refs \in Nat
  /\ dumped \in Seq(Task)

(* The tasks the walk still has to do something about: queued, or taken    *)
(* from the queue and not finished.                                        *)
Pending(t) == t \in Range(q) \/ (t = task /\ pc \in {"alloc", "dump", "children"})

(* As long as memory lasts the module holds exactly one reference to every *)
(* pending task and none to any other: a queued task_struct cannot be      *)
(* freed under the walk, and when the walk is over nothing is held.        *)
PendingTasksHeld ==
  pc \notin {"out_nomem", "gave_up"} =>
    \A t \in Task : refs[t] = IF Pending(t) THEN 1 ELSE 0

(* No task is printed twice, whatever the shape of the tree, the mode, or  *)
(* the point at which memory runs out.                                     *)
DumpedOnce == IsInjective(dumped)

(* Only the tree is printed, parents first: a printed task is the root or  *)
(* a child of a task printed before it.                                    *)
ParentDumpedFirst ==
  \A k \in 1..Len(dumped) :
    \/ dumped[k] = root
    \/ \E j \in 1..(k - 1) : dumped[k] \in Range(children[dumped[j]])

(* When the queue runs empty the whole tree has been printed: the root,    *)
(* and with every printed task all of its children.                        *)
WholeTreeDumped ==
  pc = "done" =>
    /\ root \in Range(dumped)
    /\ \A t \in Range(dumped) : Range(children[t]) \subseteq Range(dumped)

(* t and all of its ancestors: the tasks in every set that has t and, with *)
(* a task, its parent.                                                     *)
HasParents(S) == \A p \in Task : Range(children[p]) \cap S # {} => p \in S
Line(t) == {a \in Task : \A S \in SUBSET Task : t \in S /\ HasParents(S) => a \in S}

(* With bfs=1 the tree comes out level by level: no task is printed after  *)
(* one that lies deeper.                                                   *)
BfsLevelOrder ==
  use_bfs => \A k \in 2..Len(dumped) :
               Cardinality(Line(dumped[k - 1])) <= Cardinality(Line(dumped[k]))

(* Without it every subtree comes out in one piece: between a task and one *)
(* of its descendants only descendants of that task are printed.           *)
DfsSubtreesContiguous ==
  ~use_bfs => \A i, j, k \in 1..Len(dumped) :
                i < j /\ j < k /\ dumped[i] \in Line(dumped[k])
                  => dumped[i] \in Line(dumped[j])

(* modinit() returns, on every path: the walk ends although it queues new  *)
(* work at every step.                                                     *)
WalkReturns == <>(pc \in {"done", "gave_up", "esrch"})

(* "NOTE: caller must put_task_struct() when done": the comment on         *)
(* get_user_pid_task() asks that nothing is held once modinit() returns,   *)
(* also when it returns through out_nomem.                                 *)
CallerPutsTask ==
  pc \in {"done", "gave_up", "esrch"} => \A t \in Task : refs[t] = 0
===============================================================================
