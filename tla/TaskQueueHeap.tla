----------------------------- MODULE TaskQueueHeap -----------------------------
(***************************************************************************)
(* dump_children_tree() of modules/task_bfs_dfs.c with its queue as it is  *)
(* in memory: kmalloc'ed nodes linked by ->next, the head pointer q and,   *)
(* in BFS mode, tail, the address of the next field to be filled in.  The  *)
(* module implements TaskTreeWalk, in which the queue is a sequence.       *)
(***************************************************************************)
EXTENDS Integers, Sequences, FiniteSets, Functions

CONSTANTS
  Task, TaskTrees,  \* as in TaskTreeWalk
  Node              \* the addresses that kmalloc() may return

NULL == 0
Garbage == -1       \* what an uninitialised pointer holds

ASSUME NodeAssumption == NULL \notin Node /\ Garbage \notin Node

VARIABLES
  use_bfs, children, pc, root, task, list, refs, pid_refs, dumped,
  q,     \* head of the queue
  tail,  \* the node whose next field tail points to
  heap   \* the nodes that are allocated, with their contents

vars == <<use_bfs, children, pc, root, task, list, refs, pid_refs, dumped,
          q, tail, heap>>
params == <<use_bfs, children>>
queue == <<q, tail, heap>>

Init ==
  /\ use_bfs \in BOOLEAN
  /\ children \in TaskTrees
  /\ pc = "modinit"
  /\ root = NULL
  /\ task = NULL
  /\ list = 1
  /\ refs = [t \in Task |-> 0]
  /\ pid_refs = 0
  /\ dumped = <<>>
  /\ q = Garbage
  /\ tail = Garbage
  /\ heap = <<>>
-------------------------------------------------------------------------------
(* The heap with one node less, and with a fresh node n. *)
kfree_Leaks(n) == heap
kfree(n) == [m \in DOMAIN heap \ {n} |-> heap[m]]

kmalloc(n, t, nxt) ==
  [m \in DOMAIN heap \cup {n} |-> IF m = n THEN [task |-> t, next |-> nxt] ELSE heap[m]]

get_user_pid_task ==
  /\ pc = "modinit"
  /\ \E tsk \in Task : /\ root' = tsk
                       /\ task' = tsk
                       /\ refs' = [refs EXCEPT ![tsk] = @ + 1]
  /\ pid_refs' = pid_refs + 1
  /\ pc' = "alloc"
  /\ UNCHANGED <<params, list, dumped, queue>>

NoSuchTask ==
  /\ pc = "modinit"
  /\ pc' = "esrch"
  /\ pid_refs' \in {pid_refs, pid_refs + 1}
  /\ UNCHANGED <<params, root, task, list, refs, dumped, queue>>

(* The first node; tail is set in BFS mode only. *)
AllocFirst ==
  /\ pc = "alloc"
  /\ \/ \E n \in Node \ DOMAIN heap :
          /\ q' = n
          /\ heap' = kmalloc(n, task, NULL)
          /\ tail' = IF use_bfs THEN n ELSE tail
          /\ pc' = "loop"
     \/ /\ q' = NULL
        /\ pc' = "out_nomem"
        /\ UNCHANGED <<tail, heap>>
  /\ UNCHANGED <<params, root, task, list, refs, pid_refs, dumped>>

(* q = q->next followed by kfree() of the old head. *)
PopHead ==
  /\ q' = heap[q].next
  /\ heap' = kfree(q)

TakeTask ==
  /\ pc = "loop"
  /\ q # NULL
  /\ task' = heap[q].task
  /\ IF use_bfs THEN UNCHANGED <<q, heap>> ELSE PopHead
  /\ pc' = "dump"
  /\ UNCHANGED <<params, root, list, refs, pid_refs, dumped, tail>>

DumpTask ==
  /\ pc = "dump"
  /\ dumped' = Append(dumped, task)
  /\ list' = 1
  /\ pc' = "children"
  /\ UNCHANGED <<params, root, task, refs, pid_refs, queue>>

(* *tail = tmp; tail = &tmp->next -- the store goes through tail wherever  *)
(* it points, so tail must be a live node.                                 *)
AppendNode_TailNotMoved(n, t) ==
  /\ heap' = [kmalloc(n, t, NULL) EXCEPT ![tail].next = n]
  /\ UNCHANGED <<q, tail>>

AppendNode(n, t) ==
  /\ heap' = [kmalloc(n, t, NULL) EXCEPT ![tail].next = n]
  /\ tail' = n
  /\ UNCHANGED q

PushNode(n, t) ==
  /\ heap' = kmalloc(n, t, q)
  /\ q' = n
  /\ UNCHANGED tail

QueueChild ==
  /\ pc = "children"
  /\ list <= Len(children[task])
  /\ LET child == children[task][list]
     IN  /\ refs' = [refs EXCEPT ![child] = @ + 1]
         /\ \/ /\ \E n \in Node \ DOMAIN heap :
                    IF use_bfs THEN AppendNode(n, child) ELSE PushNode(n, child)
               /\ list' = list + 1
               /\ UNCHANGED pc
            \/ /\ pc' = "out_nomem"
               /\ UNCHANGED <<list, queue>>
  /\ UNCHANGED <<params, root, task, pid_refs, dumped>>

(* In BFS mode the node goes with its task, although tail may still point  *)
(* to it: then the queue is empty and tail is never used again.            *)
FinishTask_ChildrenSkipped ==
  /\ pc = "children"
  /\ IF use_bfs THEN PopHead ELSE UNCHANGED <<q, heap>>
  /\ refs' = [refs EXCEPT ![task] = @ - 1]
  /\ pc' = "loop"
  /\ UNCHANGED <<params, root, task, list, pid_refs, dumped, tail>>

FinishTask ==
  /\ pc = "children"
  /\ list > Len(children[task])
  /\ refs' = [refs EXCEPT ![task] = @ - 1]
  /\ IF use_bfs THEN PopHead ELSE UNCHANGED <<q, heap>>
  /\ pc' = "loop"
  /\ UNCHANGED <<params, root, task, list, pid_refs, dumped, tail>>

WalkDone ==
  /\ pc = "loop"
  /\ q = NULL
  /\ pc' = "done"
  /\ UNCHANGED <<params, root, task, list, refs, pid_refs, dumped, queue>>

FreeQueue ==
  /\ pc = "out_nomem"
  /\ \/ q # NULL /\ PopHead /\ UNCHANGED pc
     \/ q = NULL /\ pc' = "gave_up" /\ UNCHANGED <<q, heap>>
  /\ UNCHANGED <<params, root, task, list, refs, pid_refs, dumped, tail>>

Next ==
  \/ get_user_pid_task \/ NoSuchTask \/ AllocFirst
  \/ TakeTask \/ DumpTask \/ QueueChild \/ FinishTask \/ WalkDone
  \/ FreeQueue

Spec == Init /\ [][Next]_vars
-------------------------------------------------------------------------------
(* The allocated nodes in some order, and whether that is the order in     *)
(* which the pointers link them, from q on to a next field that is NULL.   *)
Orders == {s \in [1..Cardinality(DOMAIN heap) -> DOMAIN heap] : IsInjective(s)}
Linked(s) ==
  \A k \in 1..Len(s) :
    /\ k = 1 => q = s[k]
    /\ heap[s[k]].next = IF k = Len(s) THEN NULL ELSE s[k + 1]

(* The list is well formed while it is used: every allocated node is on it *)
(* exactly once and the last one ends it, so that no loop of the function  *)
(* dereferences freed memory or runs in a circle, and nothing leaks; and   *)
(* whenever *tail may be stored through, it is the next field of the last  *)
(* node, even though the head may have been freed since.  When modinit()   *)
(* returns, on whatever path, every node has been freed.                   *)
ListWellFormed ==
  /\ pc \in {"loop", "dump", "children", "out_nomem"} =>
       \E s \in Orders :
         /\ Linked(s)
         /\ s = <<>> => q = NULL
         /\ use_bfs /\ pc # "out_nomem" /\ s # <<>> => tail = s[Len(s)]
  /\ pc \in {"done", "gave_up", "esrch"} => DOMAIN heap = {}

(* The queue that the nodes hold. *)
Chain == CHOOSE s \in Orders : Linked(s)
Queued == [k \in 1..Len(Chain) |-> heap[Chain[k]].task]

Walk == INSTANCE TaskTreeWalk WITH q <- Queued

(* The trees are those of TaskTreeWalk. *)
ASSUME TreeAssumption ==
  Task \subseteq Nat \ {NULL} /\ \A ch \in TaskTrees : Walk!IsTaskTree(ch)

(* The linked list implements the sequence of TaskTreeWalk, for every      *)
(* order in which kmalloc() hands out the addresses again.                 *)
ImplementsWalk == Walk!Spec
===============================================================================
