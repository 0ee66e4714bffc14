-------------------------- MODULE TaskTreeWalkProofs --------------------------
(***************************************************************************)
(* Proofs about TaskTreeWalk for every set of tasks and every task tree.   *)
(* The inductive invariant IInv says where every task of the tree is: seen *)
(* tasks hang off printed ones, and a printed task's children are seen, up *)
(* to the position of list_for_each() in the task being processed.         *)
(***************************************************************************)
EXTENDS TaskTreeWalk, FiniteSetTheorems, TLAPS

-------------------------------------------------------------------------------
(* Facts about the three ways in which the queue changes. *)

(* The empty queue. *)
LEMMA EmptyFacts ==
  /\ Range(<<>>) = {}
  /\ IsInjective(<<>>)
BY DEF Range, IsInjective

(* A queue of one node. *)
LEMMA SingleFacts ==
  ASSUME NEW S, NEW x \in S
  PROVE  /\ <<x>> \in Seq(S)
         /\ Range(<<x>>) = {x}
         /\ IsInjective(<<x>>)
BY DEF Range, IsInjective

(* A node added at the tail, as in BFS mode. *)
LEMMA AppendFacts ==
  ASSUME NEW S, NEW s \in Seq(S), NEW x \in S
  PROVE  /\ Append(s, x) \in Seq(S)
         /\ Range(Append(s, x)) = Range(s) \cup {x}
         /\ IsInjective(s) /\ x \notin Range(s) => IsInjective(Append(s, x))
<1> DEFINE r == Append(s, x)
<1>1. /\ r \in Seq(S)
      /\ Len(r) = Len(s) + 1
      /\ \A k \in 1..Len(s) : r[k] = s[k]
      /\ r[Len(s) + 1] = x
      /\ Len(s) \in Nat
  OBVIOUS
<1>2. DOMAIN r = 1..(Len(s) + 1) /\ DOMAIN s = 1..Len(s)
  BY <1>1
<1> HIDE DEF r
<1>3. Range(r) = Range(s) \cup {x}
  BY <1>1, <1>2 DEF Range
<1>4. IsInjective(s) /\ x \notin Range(s) => IsInjective(r)
  BY <1>1, <1>2 DEF Range, IsInjective
<1> QED BY <1>1, <1>3, <1>4 DEF r

(* A node added at the head, as in DFS mode. *)
LEMMA ConsFacts ==
  ASSUME NEW S, NEW s \in Seq(S), NEW x \in S
  PROVE  /\ <<x>> \o s \in Seq(S)
         /\ Range(<<x>> \o s) = Range(s) \cup {x}
         /\ IsInjective(s) /\ x \notin Range(s) => IsInjective(<<x>> \o s)
<1> DEFINE r == <<x>> \o s
<1>1. /\ r \in Seq(S)
      /\ Len(r) = Len(s) + 1
      /\ \A k \in 1..Len(s) : r[k + 1] = s[k]
      /\ r[1] = x
      /\ Len(s) \in Nat
  OBVIOUS
<1>2. DOMAIN r = 1..(Len(s) + 1) /\ DOMAIN s = 1..Len(s)
  BY <1>1
<1> HIDE DEF r
<1>3. /\ 1 \in DOMAIN r
      /\ \A k \in DOMAIN s : k + 1 \in DOMAIN r /\ r[k + 1] = s[k]
      /\ \A k \in DOMAIN r : k = 1 \/ (k - 1 \in DOMAIN s /\ r[k] = s[k - 1])
  BY <1>1, <1>2
<1>4. Range(r) = Range(s) \cup {x}
  <2>1. ASSUME NEW y \in Range(r) PROVE y \in Range(s) \cup {x}
    BY <1>1, <1>3 DEF Range
  <2>2. ASSUME NEW y \in Range(s) PROVE y \in Range(r)
    BY <1>3 DEF Range
  <2>3. x \in Range(r)
    BY <1>1, <1>3 DEF Range
  <2> QED BY <2>1, <2>2, <2>3
<1>5. IsInjective(s) /\ x \notin Range(s) => IsInjective(r)
  BY <1>1, <1>2, <1>3 DEF Range, IsInjective
<1> QED BY <1>1, <1>4, <1>5 DEF r

(* The head taken off. *)
LEMMA TailFacts ==
  ASSUME NEW S, NEW s \in Seq(S), s # <<>>
  PROVE  /\ Tail(s) \in Seq(S)
         /\ Head(s) \in S
         /\ Range(s) = Range(Tail(s)) \cup {Head(s)}
         /\ IsInjective(s) =>
              IsInjective(Tail(s)) /\ Head(s) \notin Range(Tail(s))
<1> DEFINE r == Tail(s)
           h == Head(s)
<1>1. /\ r \in Seq(S)
      /\ Len(s) = Len(r) + 1
      /\ \A k \in 1..Len(r) : r[k] = s[k + 1]
      /\ h = s[1]
      /\ h \in S
      /\ Len(r) \in Nat
  OBVIOUS
<1>2. DOMAIN r = 1..Len(r) /\ DOMAIN s = 1..(Len(r) + 1)
  BY <1>1
<1> HIDE DEF r, h
<1>3. /\ 1 \in DOMAIN s
      /\ \A k \in DOMAIN r : k + 1 \in DOMAIN s /\ s[k + 1] = r[k]
      /\ \A k \in DOMAIN s : k = 1 \/ (k - 1 \in DOMAIN r /\ s[k] = r[k - 1])
  BY <1>1, <1>2
<1>4. Range(s) = Range(r) \cup {h}
  <2>1. ASSUME NEW y \in Range(s) PROVE y \in Range(r) \cup {h}
    BY <1>1, <1>3 DEF Range
  <2>2. ASSUME NEW y \in Range(r) PROVE y \in Range(s)
    BY <1>3 DEF Range
  <2>3. h \in Range(s)
    BY <1>1, <1>3 DEF Range
  <2> QED BY <2>1, <2>2, <2>3
<1>5. ASSUME IsInjective(s) PROVE IsInjective(r) /\ h \notin Range(r)
  <2>1. ASSUME NEW k \in DOMAIN r PROVE k \in Nat /\ k >= 1
    BY <1>1, <1>2
  <2>2. IsInjective(r)
    BY <1>3, <1>5, <2>1 DEF IsInjective
  <2>3. ASSUME NEW k \in DOMAIN r PROVE r[k] # h
    <3>1. k + 1 \in DOMAIN s /\ 1 \in DOMAIN s /\ k + 1 # 1
      BY <1>3, <2>1
    <3>2. s[k + 1] # s[1]
      BY <1>5, <3>1 DEF IsInjective
    <3> QED BY <1>1, <1>3, <3>2
  <2> QED BY <2>2, <2>3 DEF Range
<1> QED BY <1>1, <1>4, <1>5 DEF r, h
-------------------------------------------------------------------------------
(* The inductive invariant. *)

Processing == pc \in {"alloc", "dump", "children"}
Walking == pc \in {"alloc", "loop", "dump", "children", "done"}

Seen == Range(q) \cup Range(dumped) \cup (IF Processing THEN {task} ELSE {})

(* What is fixed before the walk starts, and what is known of the task.    *)
Control ==
  /\ Walking \/ pc = "out_nomem" => root \in Task
  /\ Processing => task \in Task
  /\ pc \in {"modinit", "esrch", "alloc"} => q = <<>> /\ dumped = <<>>
  /\ pc \in {"modinit", "esrch"} => root = NULL
  /\ pc = "alloc" => task = root
  /\ pc = "done" => q = <<>>

(* Where the task being processed is: in BFS mode still at the head. *)
Current ==
  /\ pc \in {"dump", "children"} =>
       IF use_bfs THEN q # <<>> /\ Head(q) = task ELSE task \notin Range(q)
  /\ pc = "dump" => task \notin Range(dumped)
  /\ pc = "children" => task \in Range(dumped)

(* Nothing is queued twice, or queued again once it was printed. *)
Fresh ==
  Walking =>
    /\ IsInjective(q)
    /\ \A t \in Range(q) :
         t \in Range(dumped) => pc = "children" /\ t = task

(* Every seen task but the root is a child, already passed by              *)
(* list_for_each(), of a printed task, and not above the root.             *)
Rooted ==
  Walking =>
    \A t \in Seen :
      /\ t >= root
      /\ t # root =>
           \E p \in Range(dumped) : \E j \in 1..Len(children[p]) :
             children[p][j] = t /\ (pc = "children" /\ p = task => j < list)

(* The children of the printed tasks are seen, except those that           *)
(* list_for_each() still has before it.                                    *)
Closed ==
  Walking =>
    /\ root \in Seen
    /\ \A p \in Range(dumped) : \A j \in 1..Len(children[p]) :
         \/ children[p][j] \in Seen
         \/ pc = "children" /\ p = task /\ j >= list

IInv ==
  /\ TypeOK
  /\ Control
  /\ Current
  /\ Fresh
  /\ Rooted
  /\ Closed
  /\ PendingTasksHeld
  /\ DumpedOnce
  /\ ParentDumpedFirst
-------------------------------------------------------------------------------
(* A task is on one children list only, once, and after its parent. *)
LEMMA TreeFacts ==
  ASSUME TypeOK
  PROVE  /\ children \in [Task -> Seq(Task)]
         /\ \A p \in Task : Len(children[p]) \in Nat
         /\ \A p \in Task : \A j \in 1..Len(children[p]) :
              children[p][j] \in Task /\ p < children[p][j]
         /\ \A p, r \in Task :
              \A j \in 1..Len(children[p]), k \in 1..Len(children[r]) :
                children[p][j] = children[r][k] => p = r /\ j = k
BY TaskAssumption DEF TypeOK, IsTaskTree

(* Only tasks are queued and printed. *)
LEMMA RangeFacts ==
  ASSUME TypeOK
  PROVE  Range(q) \subseteq Task /\ Range(dumped) \subseteq Task
BY DEF TypeOK, Range

(* The invariant holds when modinit() starts. *)
LEMMA InitIInv == Init => IInv
<1> SUFFICES ASSUME Init PROVE IInv
  OBVIOUS
<1>1. TypeOK
  BY TaskAssumption DEF Init, TypeOK, PcStates, NULL
<1>2. Control /\ Current /\ Fresh /\ Rooted /\ Closed
  BY DEF Init, Control, Current, Fresh, Rooted, Closed, Walking, Processing
<1>3. PendingTasksHeld
  BY EmptyFacts DEF Init, PendingTasksHeld, Pending
<1>4. DumpedOnce /\ ParentDumpedFirst
  BY EmptyFacts DEF Init, DumpedOnce, ParentDumpedFirst
<1> QED BY <1>1, <1>2, <1>3, <1>4 DEF IInv

(* get_user_pid_task() found the root. *)
LEMMA LookupIInv == IInv /\ get_user_pid_task => IInv'
<1> SUFFICES ASSUME IInv, get_user_pid_task PROVE IInv'
  OBVIOUS
<1> USE DEF IInv, get_user_pid_task, get_task_struct, params
<1>0. PICK tsk \in Task : root' = tsk /\ task' = tsk /\ refs' = [refs EXCEPT ![tsk] = @ + 1]
  OBVIOUS
<1>1. TypeOK'
  BY <1>0 DEF TypeOK, PcStates
<1>2. Control' /\ Current'
  BY <1>0 DEF Control, Current, Walking, Processing
<1>3. q' = <<>> /\ dumped' = <<>>
  BY DEF Control
<1>4. Range(q') = {} /\ Range(dumped') = {} /\ IsInjective(q')
  BY <1>3, EmptyFacts
<1>5. Fresh' /\ Closed'
  BY <1>0, <1>4 DEF Fresh, Closed, Seen, Walking, Processing
<1>6. Rooted'
  BY <1>0, <1>4, TaskAssumption DEF Rooted, Seen, Walking, Processing
<1>7. PendingTasksHeld'
  <2>1. \A t \in Task : refs[t] = 0
    <3>1. \A t \in Task : ~Pending(t)
      BY EmptyFacts DEF Control, Pending
    <3> QED BY <3>1 DEF PendingTasksHeld
  <2>2. \A t \in Task : Pending(t)' <=> t = tsk
    BY <1>0, <1>4 DEF Pending
  <2> QED BY <1>0, <2>1, <2>2 DEF PendingTasksHeld, TypeOK
<1>8. DumpedOnce' /\ ParentDumpedFirst'
  BY <1>3, EmptyFacts DEF DumpedOnce, ParentDumpedFirst
<1> QED BY <1>1, <1>2, <1>5, <1>6, <1>7, <1>8

(* It found nothing, and the walk never starts. *)
LEMMA NoSuchTaskIInv == IInv /\ NoSuchTask => IInv'
<1> SUFFICES ASSUME IInv, NoSuchTask PROVE IInv'
  OBVIOUS
<1> USE DEF IInv, NoSuchTask, params
<1>1. TypeOK'
  BY DEF TypeOK, PcStates
<1>2. Control' /\ Current' /\ Fresh' /\ Rooted' /\ Closed'
  BY DEF Control, Current, Fresh, Rooted, Closed, Walking, Processing
<1>3. PendingTasksHeld'
  BY DEF PendingTasksHeld, Pending
<1>4. DumpedOnce' /\ ParentDumpedFirst'
  BY DEF DumpedOnce, ParentDumpedFirst
<1> QED BY <1>1, <1>2, <1>3, <1>4

(* The root is queued, or memory runs out at once. *)
LEMMA AllocFirstIInv == IInv /\ AllocFirst => IInv'
<1> SUFFICES ASSUME IInv, AllocFirst PROVE IInv'
  OBVIOUS
<1> USE DEF IInv, AllocFirst, params
<1>0. /\ task = root /\ task \in Task /\ q = <<>> /\ dumped = <<>>
      /\ <<task>> \in Seq(Task) /\ Range(<<task>>) = {task} /\ IsInjective(<<task>>)
      /\ Range(q) = {} /\ Range(dumped) = {}
  BY SingleFacts, EmptyFacts DEF Control, Processing
<1>1. TypeOK'
  BY <1>0 DEF TypeOK, PcStates
<1>2. Control' /\ Current'
  BY <1>0 DEF Control, Current, Walking, Processing
<1>3. Fresh'
  BY <1>0 DEF Fresh, Walking
<1>4. Rooted' /\ Closed'
  BY <1>0 DEF Rooted, Closed, Seen, Walking, Processing
<1>5. PendingTasksHeld'
  BY <1>0 DEF PendingTasksHeld, Pending
<1>6. DumpedOnce' /\ ParentDumpedFirst'
  BY DEF DumpedOnce, ParentDumpedFirst
<1> QED BY <1>1, <1>2, <1>3, <1>4, <1>5, <1>6

(* The next task comes off the queue, in DFS mode together with its node. *)
LEMMA TakeTaskIInv == IInv /\ TakeTask => IInv'
<1> SUFFICES ASSUME IInv, TakeTask PROVE IInv'
  OBVIOUS
<1> USE DEF IInv, TakeTask, params
<1>0. /\ q \in Seq(Task) /\ q # <<>> /\ IsInjective(q)
      /\ Tail(q) \in Seq(Task) /\ Head(q) \in Task
      /\ Range(q) = Range(Tail(q)) \cup {Head(q)}
      /\ IsInjective(Tail(q)) /\ Head(q) \notin Range(Tail(q))
  BY TailFacts DEF TypeOK, Fresh, Walking
<1>1. TypeOK'
  BY <1>0 DEF TypeOK, PcStates
<1>2. Range(q') \cup {task'} = Range(q) /\ dumped' = dumped
  BY <1>0
<1>3. Control'
  BY <1>0 DEF Control, Walking, Processing
<1>4. Head(q) \notin Range(dumped)
  BY <1>0 DEF Fresh, Walking
<1>5. Current'
  BY <1>0, <1>4 DEF Current
<1>6. Fresh'
  BY <1>0 DEF Fresh, Walking
<1>7. Seen' = Seen
  BY <1>2 DEF Seen, Processing
<1>8. Rooted' /\ Closed'
  BY <1>7 DEF Rooted, Closed, Walking
<1>9. PendingTasksHeld'
  <2>1. \A t \in Task : Pending(t)' <=> Pending(t)
    BY <1>2 DEF Pending
  <2> QED BY <2>1 DEF PendingTasksHeld
<1>10. DumpedOnce' /\ ParentDumpedFirst'
  BY DEF DumpedOnce, ParentDumpedFirst
<1> QED BY <1>1, <1>3, <1>5, <1>6, <1>8, <1>9, <1>10

(* A task is printed: it hangs off the root or off one printed before. *)
LEMMA DumpTaskIInv == IInv /\ DumpTask => IInv'
<1> SUFFICES ASSUME IInv, DumpTask PROVE IInv'
  OBVIOUS
<1> USE DEF IInv, DumpTask, dump_task_threads, params
<1>0. /\ task \in Task /\ task \notin Range(dumped)
      /\ dumped \in Seq(Task) /\ dumped' \in Seq(Task)
      /\ Range(dumped') = Range(dumped) \cup {task}
      /\ IsInjective(dumped')
  BY AppendFacts DEF TypeOK, Control, Current, Processing, DumpedOnce
<1>1. TypeOK'
  BY <1>0 DEF TypeOK, PcStates
<1>2. Control' /\ Current'
  BY <1>0 DEF Control, Current, Walking, Processing
<1>3. Fresh'
  BY <1>0 DEF Fresh, Walking
<1>4. Seen' = Seen
  BY <1>0 DEF Seen, Processing
<1>5. Rooted'
  <2> SUFFICES ASSUME NEW t \in Seen
      PROVE  /\ t >= root
             /\ t # root =>
                  \E p \in Range(dumped') : \E j \in 1..Len(children[p]) :
                    children[p][j] = t /\ (p = task => j < 1)
    BY <1>4 DEF Rooted
  <2>1. t >= root
    BY DEF Rooted, Walking
  <2>2. ASSUME t # root
        PROVE  \E p \in Range(dumped) : \E j \in 1..Len(children[p]) :
                 children[p][j] = t
    BY <2>2 DEF Rooted, Walking
  <2> QED BY <1>0, <2>1, <2>2
<1>6. Closed'
  <2>1. root \in Seen
    BY DEF Closed, Walking
  <2>2. ASSUME NEW p \in Range(dumped'), NEW j \in 1..Len(children[p])
        PROVE  children[p][j] \in Seen \/ (p = task /\ j >= 1)
    <3>1. CASE p = task
      BY <1>0, <3>1, TreeFacts
    <3>2. CASE p # task
      BY <1>0, <3>2 DEF Closed, Walking
    <3> QED BY <3>1, <3>2
  <2> QED BY <1>4, <2>1, <2>2 DEF Closed
<1>7. PendingTasksHeld'
  <2>1. \A t \in Task : Pending(t)' <=> Pending(t)
    BY DEF Pending
  <2> QED BY <2>1 DEF PendingTasksHeld
<1>8. DumpedOnce'
  BY <1>0 DEF DumpedOnce
<1>9. ParentDumpedFirst'
  <2>1. /\ Len(dumped) \in Nat /\ Len(dumped') = Len(dumped) + 1
        /\ \A k \in 1..Len(dumped) : dumped'[k] = dumped[k]
        /\ dumped'[Len(dumped) + 1] = task
    BY <1>0
  <2>2. task = root \/ \E k \in 1..Len(dumped) : task \in Range(children[dumped[k]])
    <3>1. task \in Seen
      BY DEF Seen, Processing
    <3>2. ASSUME task # root
          PROVE  \E p \in Range(dumped) : \E j \in 1..Len(children[p]) :
                   children[p][j] = task
      BY <3>1, <3>2 DEF Rooted, Walking
    <3>3. ASSUME NEW p \in Range(dumped), NEW j \in 1..Len(children[p])
          PROVE  children[p][j] \in Range(children[p])
      BY <1>0, TreeFacts, RangeFacts DEF Range
    <3>4. ASSUME NEW p \in Range(dumped)
          PROVE  \E k \in 1..Len(dumped) : dumped[k] = p
      BY <1>0 DEF Range
    <3> QED BY <3>2, <3>3, <3>4
  <2>3. \A k \in 1..Len(dumped) :
          \/ dumped[k] = root
          \/ \E j \in 1..(k - 1) : dumped[k] \in Range(children[dumped[j]])
    BY DEF ParentDumpedFirst
  <2>4. ASSUME NEW k \in 1..Len(dumped')
        PROVE  \/ dumped'[k] = root
               \/ \E j \in 1..(k - 1) : dumped'[k] \in Range(children[dumped'[j]])
    <3>1. CASE k = Len(dumped) + 1
      BY <2>1, <2>2, <3>1
    <3>2. CASE k # Len(dumped) + 1
      <4>1. k \in 1..Len(dumped) /\ dumped'[k] = dumped[k]
        BY <2>1, <3>2
      <4>2. \A j \in 1..(k - 1) : dumped'[j] = dumped[j]
        BY <2>1, <4>1
      <4> QED BY <2>3, <4>1, <4>2
    <3> QED BY <3>1, <3>2
  <2> QED BY <2>4 DEF ParentDumpedFirst
<1> QED BY <1>1, <1>2, <1>3, <1>5, <1>6, <1>7, <1>8, <1>9

(* A child is queued, or memory runs out. *)
LEMMA QueueChildIInv == IInv /\ QueueChild => IInv'
<1> SUFFICES ASSUME IInv, QueueChild PROVE IInv'
  OBVIOUS
<1> DEFINE child == children[task][list]
<1> USE DEF IInv, params
<1>0. /\ pc = "children" /\ task \in Task /\ task \in Range(dumped) /\ task \in Seen
      /\ root \in Task /\ list \in 1..Len(children[task])
      /\ child \in Task /\ task < child
      /\ q \in Seq(Task) /\ Range(q) \subseteq Task /\ Range(dumped) \subseteq Task
  BY TreeFacts, RangeFacts
  DEF QueueChild, TypeOK, Control, Current, Processing, Walking, Seen
<1>a. /\ refs' = [refs EXCEPT ![child] = @ + 1]
      /\ \/ Enqueue(child) /\ list' = list + 1 /\ pc' = pc
         \/ pc' = "out_nomem" /\ q' = q /\ list' = list
      /\ UNCHANGED <<use_bfs, children, root, task, pid_refs, dumped>>
  BY DEF QueueChild, get_task_struct
<1> HIDE DEF child
(* The heart of the proof: list_for_each() only meets tasks that are new. *)
<1>1. child \notin Seen
  <2>1. child # root
    BY <1>0, TaskAssumption DEF Rooted, Walking
  <2>2. ASSUME NEW p \in Range(dumped), NEW j \in 1..Len(children[p]),
               children[p][j] = child, p = task => j < list
        PROVE  FALSE
    <3>1. p = task /\ j = list
      BY <1>0, <2>2, TreeFacts DEF child
    <3> QED BY <1>0, <2>2, <3>1
  <2> QED BY <1>0, <2>1, <2>2 DEF Rooted, Walking
<1>2. child \notin Range(q) /\ child \notin Range(dumped) /\ child # task
  BY <1>0, <1>1 DEF Seen, Processing
<1>3. refs[child] = 0
  BY <1>0, <1>2 DEF PendingTasksHeld, Pending
<1>4. CASE pc' = "out_nomem" /\ q' = q /\ list' = list
  <2>1. TypeOK'
    BY <1>0, <1>a, <1>4 DEF TypeOK, PcStates
  <2>2. Control' /\ Current' /\ Fresh' /\ Rooted' /\ Closed' /\ PendingTasksHeld'
    BY <1>0, <1>a, <1>4
    DEF Control, Current, Fresh, Rooted, Closed, PendingTasksHeld, Walking, Processing
  <2>3. DumpedOnce' /\ ParentDumpedFirst'
    BY <1>a DEF DumpedOnce, ParentDumpedFirst
  <2> QED BY <2>1, <2>2, <2>3
<1>5. CASE Enqueue(child) /\ list' = list + 1 /\ pc' = pc
  <2>0. /\ q' \in Seq(Task) /\ Range(q') = Range(q) \cup {child}
        /\ IsInjective(q')
    BY <1>0, <1>2, <1>5, AppendFacts, ConsFacts DEF Enqueue, Fresh, Walking
  <2>1. TypeOK'
    BY <1>0, <1>a, <1>5, <2>0 DEF TypeOK
  <2>2. Control'
    BY <1>0, <1>a, <1>5 DEF Control, Walking, Processing
  <2>3. Current'
    <3>1. CASE use_bfs
      <4>1. q # <<>> /\ Head(q) = task /\ q' = Append(q, child)
        BY <1>0, <1>5, <3>1 DEF Current, Enqueue
      <4>2. q' # <<>> /\ Head(q') = task
        BY <1>0, <4>1
      <4> QED BY <1>0, <1>a, <1>5, <3>1, <4>2 DEF Current
    <3>2. CASE ~use_bfs
      BY <1>0, <1>a, <1>2, <1>5, <2>0, <3>2 DEF Current
    <3> QED BY <3>1, <3>2
  <2>4. Fresh'
    BY <1>0, <1>a, <1>2, <1>5, <2>0 DEF Fresh, Walking
  <2>5. Seen' = Seen \cup {child}
    BY <1>0, <1>a, <1>5, <2>0 DEF Seen, Processing
  <2>6. Rooted'
    <3> SUFFICES ASSUME NEW t \in Seen \cup {child}
        PROVE  /\ t >= root
               /\ t # root =>
                    \E p \in Range(dumped) : \E j \in 1..Len(children[p]) :
                      children[p][j] = t /\ (p = task => j < list + 1)
      BY <1>0, <1>a, <1>5, <2>5 DEF Rooted
    <3>1. CASE t = child
      <4>1. task >= root
        BY <1>0 DEF Rooted, Walking
      <4>2. t >= root
        BY <1>0, <3>1, <4>1, TaskAssumption
      <4>3. children[task][list] = t /\ list < list + 1
        BY <1>0, <3>1, TreeFacts DEF child
      <4> QED BY <1>0, <4>2, <4>3
    <3>2. CASE t \in Seen
      <4>1. t >= root
        BY <1>0, <3>2 DEF Rooted, Walking
      <4>2. ASSUME t # root
            PROVE  \E p \in Range(dumped) : \E j \in 1..Len(children[p]) :
                     children[p][j] = t /\ (p = task => j < list)
        BY <1>0, <3>2, <4>2 DEF Rooted, Walking
      <4>3. ASSUME NEW p \in Range(dumped), NEW j \in 1..Len(children[p])
            PROVE  j < list => j < list + 1
        BY <1>0, TreeFacts
      <4> QED BY <4>1, <4>2, <4>3
    <3> QED BY <3>1, <3>2
  <2>7. Closed'
    <3>1. root \in Seen
      BY <1>0 DEF Closed, Walking
    <3>2. ASSUME NEW p \in Range(dumped), NEW j \in 1..Len(children[p])
          PROVE  children[p][j] \in Seen \cup {child} \/ (p = task /\ j >= list + 1)
      <4>1. children[p][j] \in Seen \/ (p = task /\ j >= list)
        BY <1>0 DEF Closed, Walking
      <4>2. ASSUME p = task, j >= list PROVE children[p][j] = child \/ j >= list + 1
        BY <1>0, <4>2, TreeFacts DEF child
      <4> QED BY <4>1, <4>2
    <3> QED BY <1>0, <1>a, <1>5, <2>5, <3>1, <3>2 DEF Closed
  <2>8. PendingTasksHeld'
    <3>1. \A t \in Task : Pending(t)' <=> Pending(t) \/ t = child
      BY <1>0, <1>a, <1>5, <2>0 DEF Pending
    <3>2. ~Pending(child)
      BY <1>2 DEF Pending
    <3>3. \A t \in Task : refs[t] = IF Pending(t) THEN 1 ELSE 0
      BY <1>0 DEF PendingTasksHeld
    <3>4. \A t \in Task : refs'[t] = IF t = child THEN 1 ELSE refs[t]
      BY <1>0, <1>a, <1>3 DEF TypeOK
    <3> QED BY <3>1, <3>2, <3>3, <3>4 DEF PendingTasksHeld
  <2>9. DumpedOnce' /\ ParentDumpedFirst'
    BY <1>a DEF DumpedOnce, ParentDumpedFirst
  <2> QED BY <2>1, <2>2, <2>3, <2>4, <2>6, <2>7, <2>8, <2>9
<1> QED BY <1>a, <1>4, <1>5

(* All children of the task are queued; it is put. *)
LEMMA FinishTaskIInv == IInv /\ FinishTask => IInv'
<1> SUFFICES ASSUME IInv, FinishTask PROVE IInv'
  OBVIOUS
<1> USE DEF IInv, FinishTask, put_task_struct, params
<1>0. /\ task \in Task /\ task \in Range(dumped) /\ list > Len(children[task])
      /\ q \in Seq(Task) /\ IsInjective(q) /\ root \in Task
  BY DEF TypeOK, Control, Current, Fresh, Processing, Walking
<1>1. /\ q' \in Seq(Task) /\ IsInjective(q') /\ task \notin Range(q')
      /\ Range(q') \cup {task} = Range(q) \cup {task}
  <2>1. CASE use_bfs
    <3>1. q # <<>> /\ Head(q) = task /\ q' = Tail(q)
      BY <2>1 DEF Current
    <3> QED BY <1>0, <3>1, TailFacts
  <2>2. CASE ~use_bfs
    BY <1>0, <2>2 DEF Current
  <2> QED BY <2>1, <2>2
<1>2. refs[task] = 1
  BY <1>0 DEF PendingTasksHeld, Pending
<1>3. TypeOK'
  BY <1>0, <1>1, <1>2 DEF TypeOK, PcStates
<1>4. Control' /\ Current'
  BY <1>0 DEF Control, Current, Walking, Processing
<1>5. Fresh'
  BY <1>0, <1>1 DEF Fresh, Walking
<1>6. Seen' = Seen
  BY <1>0, <1>1 DEF Seen, Processing
<1>7. Rooted'
  BY <1>6 DEF Rooted, Walking
<1>8. Closed'
  <2>1. ASSUME NEW p \in Range(dumped), NEW j \in 1..Len(children[p])
        PROVE  children[p][j] \in Seen
    <3>1. children[p][j] \in Seen \/ (p = task /\ j >= list)
      BY DEF Closed, Walking
    <3>2. ~(p = task /\ j >= list)
      BY <1>0, TreeFacts DEF TypeOK
    <3> QED BY <3>1, <3>2
  <2>2. root \in Seen
    BY DEF Closed, Walking
  <2> QED BY <1>6, <2>1, <2>2 DEF Closed
<1>9. PendingTasksHeld'
  <2>1. \A t \in Task : Pending(t)' <=> Pending(t) /\ t # task
    BY <1>1 DEF Pending
  <2>2. \A t \in Task : refs[t] = IF Pending(t) THEN 1 ELSE 0
    BY DEF PendingTasksHeld
  <2>3. \A t \in Task : refs'[t] = IF t = task THEN 0 ELSE refs[t]
    BY <1>0, <1>2 DEF TypeOK
  <2> QED BY <2>1, <2>2, <2>3 DEF PendingTasksHeld
<1>10. DumpedOnce' /\ ParentDumpedFirst'
  BY DEF DumpedOnce, ParentDumpedFirst
<1> QED BY <1>3, <1>4, <1>5, <1>7, <1>8, <1>9, <1>10

(* Closed, once the queue is empty, is what the walk is for. *)
LEMMA WalkDoneIInv == IInv /\ WalkDone => IInv'
<1> SUFFICES ASSUME IInv, WalkDone PROVE IInv'
  OBVIOUS
<1> USE DEF IInv, WalkDone, params
<1>1. TypeOK' /\ Control' /\ Current' /\ Fresh'
  BY DEF TypeOK, PcStates, Control, Current, Fresh, Walking, Processing
<1>2. Seen' = Seen
  BY DEF Seen, Processing
<1>3. Rooted'
  BY <1>2 DEF Rooted, Walking
<1>4. Closed'
  BY <1>2 DEF Closed, Walking
<1>5. PendingTasksHeld' /\ DumpedOnce' /\ ParentDumpedFirst'
  BY DEF PendingTasksHeld, Pending, DumpedOnce, ParentDumpedFirst
<1> QED BY <1>1, <1>3, <1>4, <1>5

(* Nothing but the nodes changes at out_nomem. *)
LEMMA FreeQueueIInv == IInv /\ FreeQueue => IInv'
<1> SUFFICES ASSUME IInv, FreeQueue PROVE IInv'
  OBVIOUS
<1> USE DEF IInv, FreeQueue, params
<1>0. pc = "out_nomem" /\ pc' \in {"out_nomem", "gave_up"}
  OBVIOUS
<1>1. q' \in Seq(Task)
  <2>1. q \in Seq(Task)
    BY DEF TypeOK
  <2>2. q # <<>> => Tail(q) \in Seq(Task)
    BY <2>1, TailFacts
  <2> QED BY <2>1, <2>2
<1>2. TypeOK'
  BY <1>0, <1>1 DEF TypeOK, PcStates
<1>3. Control' /\ Current' /\ Fresh' /\ Rooted' /\ Closed' /\ PendingTasksHeld'
  BY <1>0 DEF Control, Current, Fresh, Rooted, Closed, PendingTasksHeld,
              Walking, Processing
<1>4. DumpedOnce' /\ ParentDumpedFirst'
  BY DEF DumpedOnce, ParentDumpedFirst
<1> QED BY <1>2, <1>3, <1>4

(* Steps of the rest of the system. *)
LEMMA StutterIInv == IInv /\ UNCHANGED vars => IInv'
BY DEF IInv, vars, TypeOK, PcStates, Control, Current, Fresh, Rooted, Closed,
       PendingTasksHeld, Pending, DumpedOnce, ParentDumpedFirst, Seen, Walking,
       Processing
-------------------------------------------------------------------------------
(* IInv holds throughout every run of modinit(), whatever the task tree,   *)
(* the mode and the kmalloc() that fails.                                  *)
THEOREM WalkInvariant == Spec => []IInv
<1>1. Init => IInv
  BY InitIInv
<1>2. IInv /\ [Next]_vars => IInv'
  BY LookupIInv, NoSuchTaskIInv, AllocFirstIInv, TakeTaskIInv, DumpTaskIInv,
     QueueChildIInv, FinishTaskIInv, WalkDoneIInv, FreeQueueIInv, StutterIInv
  DEF Next
<1> QED BY <1>1, <1>2, PTL DEF Spec

(* Every variable keeps its type; no reference count ever goes negative.   *)
THEOREM WalkTypeOK == Spec => []TypeOK
<1>1. IInv => TypeOK
  BY DEF IInv
<1> QED BY <1>1, WalkInvariant, PTL

(* While memory lasts, dump_children_tree() holds one reference to every   *)
(* task it still has to process and none to any other.                     *)
THEOREM WalkHoldsPending == Spec => []PendingTasksHeld
<1>1. IInv => PendingTasksHeld
  BY DEF IInv
<1> QED BY <1>1, WalkInvariant, PTL

(* dump_children_tree() prints no task twice. *)
THEOREM WalkDumpsOnce == Spec => []DumpedOnce
<1>1. IInv => DumpedOnce
  BY DEF IInv
<1> QED BY <1>1, WalkInvariant, PTL

(* dump_children_tree() prints only the tree, each parent before its       *)
(* children.                                                               *)
THEOREM WalkDumpsParentsFirst == Spec => []ParentDumpedFirst
<1>1. IInv => ParentDumpedFirst
  BY DEF IInv
<1> QED BY <1>1, WalkInvariant, PTL

(* When while (q) ends, the tree below the root has been printed entirely. *)
THEOREM WalkDumpsWholeTree == Spec => []WholeTreeDumped
<1>1. IInv => WholeTreeDumped
  <2> SUFFICES ASSUME IInv, pc = "done" PROVE WholeTreeDumped
    BY DEF WholeTreeDumped
  <2>1. Seen = Range(dumped)
    BY EmptyFacts DEF IInv, Control, Seen, Processing
  <2>2. root \in Range(dumped)
    BY <2>1 DEF IInv, Closed, Walking
  <2>3. ASSUME NEW p \in Range(dumped), NEW c \in Range(children[p])
        PROVE  c \in Range(dumped)
    <3>1. p \in Task /\ children[p] \in Seq(Task)
      BY RangeFacts, TreeFacts DEF IInv, TypeOK
    <3>2. PICK j \in 1..Len(children[p]) : children[p][j] = c
      BY <3>1 DEF Range
    <3> QED BY <2>1, <3>2 DEF IInv, Closed, Walking
  <2> QED BY <2>2, <2>3 DEF WholeTreeDumped
<1> QED BY <1>1, WalkInvariant, PTL
-------------------------------------------------------------------------------
(* The order in which the tree is printed. *)

(* How deep a task lies. *)
Depth(t) == Cardinality(Line(t))

(* The order of bfs=1, inductively: the queue spans at most two levels,  *)
(* the upper one first, and begins where the printed tasks end.          *)
ByLevel ==
  use_bfs =>
    /\ BfsLevelOrder
    /\ Walking =>
         /\ \A j, k \in 1..Len(q) : j <= k => /\ Depth(q[j]) <= Depth(q[k])
                                              /\ Depth(q[k]) <= Depth(q[j]) + 1
         /\ q # <<>> /\ dumped # <<>> => Depth(dumped[Len(dumped)]) <= Depth(q[1])

(* The order of bfs=0, inductively: printed tasks, the one in hand and   *)
(* the queue, read in this order, are contiguous with respect to every   *)
(* printed task.                                                         *)
BySubtree ==
  ~use_bfs =>
    /\ DfsSubtreesContiguous
    /\ Walking =>
         /\ \A i, j \in 1..Len(dumped) : \A y \in Range(q) :
              i < j /\ dumped[i] \in Line(y) => dumped[i] \in Line(dumped[j])
         /\ \A i \in 1..Len(dumped) : \A a, b \in 1..Len(q) :
              a < b /\ dumped[i] \in Line(q[b]) => dumped[i] \in Line(q[a])
         /\ pc = "dump" =>
              /\ \A i, j \in 1..Len(dumped) :
                   i < j /\ dumped[i] \in Line(task) => dumped[i] \in Line(dumped[j])
              /\ \A i \in 1..Len(dumped) : \A y \in Range(q) :
                   dumped[i] \in Line(y) => dumped[i] \in Line(task)
         /\ pc = "children" => dumped # <<>> /\ task = dumped[Len(dumped)]

(* The ancestors do not change, as the tree is frozen. *)
LEMMA SameLine ==
  ASSUME UNCHANGED children
  PROVE  \A t : Line(t)' = Line(t)
BY DEF Line, HasParents, Range

(* The line of a task has that task and, with every task, its parent. *)
LEMMA LineHasParents ==
  ASSUME TypeOK, NEW t \in Task
  PROVE  t \in Line(t) /\ Line(t) \in SUBSET Task /\ HasParents(Line(t))
<1>1. t \in Line(t) /\ Line(t) \in SUBSET Task
  BY DEF Line
<1>2. ASSUME NEW p \in Task, NEW x \in Range(children[p]) \cap Line(t) PROVE p \in Line(t)
  <2> SUFFICES ASSUME NEW S \in SUBSET Task, t \in S, HasParents(S) PROVE p \in S
    BY DEF Line
  <2>1. x \in S
    BY DEF Line
  <2> QED BY <2>1 DEF HasParents
<1>3. HasParents(Line(t))
  BY <1>2 DEF HasParents
<1> QED BY <1>1, <1>3

(* It is the smallest such set. *)
LEMMA LineWithin ==
  ASSUME NEW t, NEW S \in SUBSET Task, t \in S, HasParents(S)
  PROVE  Line(t) \subseteq S
BY DEF Line

(* A child has a place on the list of its parent. *)
LEMMA ChildAt ==
  ASSUME TypeOK, NEW p \in Task, NEW c \in Range(children[p])
  PROVE  \E j \in 1..Len(children[p]) : children[p][j] = c
<1>1. children[p] \in Seq(Task)
  BY TreeFacts
<1> QED BY <1>1 DEF Range

(* A child has one parent, which comes before it. *)
LEMMA OneParent ==
  ASSUME TypeOK, NEW p \in Task, NEW c \in Range(children[p])
  PROVE  c \in Task /\ p < c /\ \A r \in Task : c \in Range(children[r]) => r = p
<1>1. PICK j \in 1..Len(children[p]) : children[p][j] = c
  BY ChildAt
<1>2. c \in Task /\ p < c
  BY <1>1, TreeFacts
<1>3. ASSUME NEW r \in Task, c \in Range(children[r]) PROVE r = p
  <2>1. PICK k \in 1..Len(children[r]) : children[r][k] = c
    BY <1>3, ChildAt
  <2> QED BY <1>1, <2>1, TreeFacts
<1> QED BY <1>2, <1>3

(* The line of a child is that of its parent, and itself. *)
LEMMA LineOfChild ==
  ASSUME TypeOK, NEW p \in Task, NEW c \in Range(children[p])
  PROVE  Line(c) = {c} \cup Line(p)
<1>1. c \in Task
  BY OneParent
<1>2. Line(c) \subseteq {c} \cup Line(p)
  <2> DEFINE S == {c} \cup Line(p)
  <2>1. S \in SUBSET Task /\ c \in S
    BY <1>1, LineHasParents
  <2>2. ASSUME NEW r \in Task, NEW x \in Range(children[r]) \cap S PROVE r \in S
    <3>1. CASE x = c
      BY <2>2, <3>1, OneParent, LineHasParents
    <3>2. CASE x \in Line(p)
      BY <2>2, <3>2, LineHasParents DEF HasParents
    <3> QED BY <3>1, <3>2
  <2>3. HasParents(S)
    BY <2>2 DEF HasParents
  <2> HIDE DEF S
  <2>4. Line(c) \subseteq S
    BY <2>1, <2>3, LineWithin
  <2> QED BY <2>4 DEF S
<1>3. p \in Line(c)
  BY <1>1, LineHasParents DEF HasParents
<1>4. Line(p) \subseteq Line(c)
  BY <1>1, <1>3, LineHasParents, LineWithin
<1> QED BY <1>1, <1>2, <1>4, LineHasParents

(* An ancestor comes before its descendants. *)
LEMMA LineIsAbove ==
  ASSUME TypeOK, NEW t \in Task
  PROVE  \A a \in Line(t) : a \in Task /\ a <= t
<1> DEFINE S == {x \in Task : x <= t}
<1>1. S \in SUBSET Task /\ t \in S
  BY TaskAssumption
<1>2. ASSUME NEW r \in Task, NEW x \in Range(children[r]) \cap S PROVE r \in S
  <2>1. r < x /\ x <= t /\ r \in Nat /\ x \in Nat /\ t \in Nat
    BY <1>2, OneParent, TaskAssumption
  <2> QED BY <2>1
<1>3. HasParents(S)
  BY <1>2 DEF HasParents
<1>4. Line(t) \subseteq S
  BY <1>1, <1>3, LineWithin
<1> QED BY <1>4

(* The line of a task is finite. *)
LEMMA DepthIsNat ==
  ASSUME TypeOK, NEW t \in Task
  PROVE  IsFiniteSet(Line(t)) /\ Depth(t) \in Nat
<1>0. t \in Nat
  BY TaskAssumption
<1>1. t \in Nat /\ IsFiniteSet(1..t)
  BY <1>0, FS_Interval
<1>2. Line(t) \in SUBSET (1..t)
  <2>1. ASSUME NEW a \in Line(t) PROVE a \in 1..t
    <3>1. a \in Task /\ a <= t
      BY LineIsAbove
    <3>2. a \in Nat /\ a # 0
      BY <3>1, TaskAssumption DEF NULL
    <3> QED BY <1>1, <3>1, <3>2
  <2> QED BY <2>1
<1>3. IsFiniteSet(Line(t))
  BY <1>1, <1>2, FS_Subset
<1> QED BY <1>3, FS_CardinalityType DEF Depth

(* A child lies one level below its parent. *)
LEMMA ChildIsDeeper ==
  ASSUME TypeOK, NEW p \in Task, NEW c \in Range(children[p])
  PROVE  Depth(c) = Depth(p) + 1
<1>1. c \in Task /\ p < c /\ p \in Nat /\ c \in Nat
  BY OneParent, TaskAssumption
<1>2. c \notin Line(p)
  BY <1>1, LineIsAbove
<1>3. Line(c) = Line(p) \cup {c}
  BY LineOfChild
<1>4. IsFiniteSet(Line(p))
  BY DepthIsNat
<1>5. Cardinality(Line(p) \cup {c}) = Cardinality(Line(p)) + 1
  BY <1>2, <1>4, FS_AddElement
<1> QED BY <1>3, <1>5 DEF Depth

(* Every step keeps ByLevel: a child is added behind everything that is  *)
(* at most as deep.                                                      *)
LEMMA LevelStep == IInv /\ ByLevel /\ [Next]_vars => ByLevel'
<1> SUFFICES ASSUME IInv, ByLevel, [Next]_vars, use_bfs' PROVE ByLevel'
  BY DEF ByLevel
<1>1. UNCHANGED <<use_bfs, children>>
  BY DEF Next, vars, params, get_user_pid_task, NoSuchTask, AllocFirst, TakeTask, DumpTask,
         QueueChild, FinishTask, WalkDone, FreeQueue
<1>2. TypeOK /\ use_bfs
  BY <1>1 DEF IInv
<1>3. q \in Seq(Task) /\ dumped \in Seq(Task) /\ Len(q) \in Nat /\ Len(dumped) \in Nat
  BY <1>2 DEF TypeOK
<1>4. \A t : Depth(t)' = Depth(t)
  BY <1>1, SameLine DEF Depth
<1>5. \A t \in Task : Depth(t) \in Nat
  BY <1>2, DepthIsNat
<1>6. BfsLevelOrder <=> \A k \in 2..Len(dumped) : Depth(dumped[k - 1]) <= Depth(dumped[k])
  BY <1>2 DEF BfsLevelOrder, Depth
<1>7. BfsLevelOrder' <=> \A k \in 2..Len(dumped') : Depth(dumped'[k - 1]) <= Depth(dumped'[k])
  BY <1>1, <1>2, SameLine DEF BfsLevelOrder, Depth
<1>8. UNCHANGED dumped => BfsLevelOrder'
  BY <1>2, <1>6, <1>7 DEF ByLevel
<1> DEFINE Even(s) == \A j, k \in 1..Len(s) : j <= k => /\ Depth(s[j]) <= Depth(s[k])
                                                        /\ Depth(s[k]) <= Depth(s[j]) + 1
           After(d, s) == s # <<>> /\ d # <<>> => Depth(d[Len(d)]) <= Depth(s[1])
<1>9. Walking => Even(q) /\ After(dumped, q)
  BY <1>2 DEF ByLevel
<1>10. BfsLevelOrder' /\ (Walking' => Even(q') /\ After(dumped', q')) => ByLevel'
  BY <1>4 DEF ByLevel
<1>11. CASE get_user_pid_task \/ NoSuchTask
  <2>1. q' = <<>> /\ UNCHANGED dumped
    BY <1>11 DEF get_user_pid_task, NoSuchTask, IInv, Control
  <2> QED BY <1>8, <1>10, <2>1
<1>12. CASE AllocFirst
  <2>1. dumped = <<>> /\ UNCHANGED dumped
    BY <1>12 DEF AllocFirst, IInv, Control
  <2>2. (q' = <<task>> /\ task \in Task) \/ ~Walking'
    BY <1>12 DEF AllocFirst, IInv, Control, Walking, Processing
  <2>3. ASSUME q' = <<task>>, task \in Task PROVE Even(q')
    <3>1. Len(q') = 1 /\ q'[1] = task
      BY <2>3
    <3> QED BY <1>5, <2>3, <3>1
  <2> QED BY <1>8, <1>10, <2>1, <2>2, <2>3
<1>13. CASE TakeTask \/ WalkDone \/ UNCHANGED vars
  <2>1. UNCHANGED <<q, dumped>> /\ (Walking' => Walking)
    BY <1>2, <1>13 DEF TakeTask, WalkDone, vars, Walking
  <2> QED BY <1>8, <1>9, <1>10, <2>1
<1>14. CASE DumpTask
  <2>1. dumped' = Append(dumped, task) /\ UNCHANGED q /\ pc = "dump"
    BY <1>14 DEF DumpTask
  <2>2. Walking /\ q # <<>> /\ task = q[1] /\ task \in Task
    BY <1>2, <1>3, <2>1 DEF IInv, Current, Control, Walking, Processing
  <2>3. /\ Len(dumped') = Len(dumped) + 1 /\ dumped'[Len(dumped) + 1] = task
        /\ \A k \in 1..Len(dumped) : dumped'[k] = dumped[k]
    BY <1>3, <2>1, <2>2
  <2>4. BfsLevelOrder'
    <3>1. ASSUME NEW k \in 2..Len(dumped') PROVE Depth(dumped'[k - 1]) <= Depth(dumped'[k])
      <4>1. CASE k <= Len(dumped)
        BY <1>2, <1>3, <1>6, <2>3, <4>1 DEF ByLevel
      <4>2. CASE k = Len(dumped) + 1
        <5>1. Len(dumped) \in 1..Len(dumped) /\ dumped # <<>>
          BY <1>3, <3>1, <4>2
        <5>2. Depth(dumped[Len(dumped)]) <= Depth(q[1])
          BY <1>9, <2>2, <5>1
        <5> QED BY <1>3, <2>2, <2>3, <4>2, <5>1, <5>2
      <4> QED BY <1>3, <2>3, <3>1, <4>1, <4>2
    <3> QED BY <1>7, <3>1
  <2>5. After(dumped', q')
    BY <1>5, <2>1, <2>2, <2>3
  <2> QED BY <1>9, <1>10, <2>1, <2>2, <2>4, <2>5
<1>15. CASE QueueChild
  <2>1. UNCHANGED dumped /\ pc = "children" /\ list \in 1..Len(children[task])
    BY <1>2, <1>15 DEF QueueChild, TypeOK
  <2>2. Walking /\ q # <<>> /\ task = q[1] /\ task \in Task
    BY <1>2, <1>3, <2>1 DEF IInv, Current, Control, Walking, Processing
  <2> DEFINE c == children[task][list]
  <2>3. c \in Range(children[task])
    <3>1. children[task] \in Seq(Task)
      BY <1>2, <2>2, TreeFacts
    <3> QED BY <2>1, <3>1 DEF Range
  <2>4. q' = Append(q, c) \/ ~Walking'
    BY <1>1, <1>2, <1>15 DEF QueueChild, Enqueue, Walking
  <2> HIDE DEF c
  <2>5. c \in Task /\ Depth(c) = Depth(q[1]) + 1
    BY <1>2, <2>2, <2>3, OneParent, ChildIsDeeper
  <2>6. ASSUME q' = Append(q, c) PROVE Even(q') /\ After(dumped', q')
    <3> DEFINE r == Append(q, c)
    <3>1. /\ Len(r) = Len(q) + 1 /\ r[Len(q) + 1] = c /\ r \in Seq(Task)
          /\ \A k \in 1..Len(q) : r[k] = q[k]
      BY <1>3, <2>5
    <3> HIDE DEF r
    <3>2. 1 \in 1..Len(q)
      BY <1>3, <2>2
    <3>3. ASSUME NEW j \in 1..Len(r), NEW k \in 1..Len(r), j <= k
          PROVE  Depth(r[j]) <= Depth(r[k]) /\ Depth(r[k]) <= Depth(r[j]) + 1
      <4>1. CASE k \in 1..Len(q)
        <5>1. j \in 1..Len(q)
          BY <3>3, <4>1
        <5> QED BY <1>9, <2>2, <3>1, <3>3, <4>1, <5>1
      <4>2. CASE k = Len(q) + 1 /\ j \in 1..Len(q)
        <5>1. Depth(q[1]) <= Depth(q[j]) /\ Depth(q[j]) <= Depth(q[1]) + 1
          BY <1>9, <2>2, <3>2, <4>2
        <5>2. Depth(q[1]) \in Nat /\ Depth(q[j]) \in Nat
          BY <1>3, <1>5, <3>2, <4>2
        <5> QED BY <2>5, <3>1, <4>2, <5>1, <5>2
      <4>3. CASE k = Len(q) + 1 /\ j = Len(q) + 1
        BY <1>5, <2>5, <3>1, <4>3
      <4> QED BY <1>3, <3>1, <3>3, <4>1, <4>2, <4>3
    <3>4. After(dumped', r)
      BY <1>9, <2>1, <2>2, <3>1, <3>2
    <3> QED BY <2>6, <3>3, <3>4 DEF r
  <2> QED BY <1>8, <1>10, <2>1, <2>4, <2>6
<1>16. CASE FinishTask
  <2>1. UNCHANGED dumped /\ pc = "children" /\ q' = Tail(q)
    BY <1>2, <1>16 DEF FinishTask
  <2>2. Walking /\ q # <<>>
    BY <1>2, <2>1 DEF IInv, Current, Walking
  <2> DEFINE r == Tail(q)
  <2>3. Len(q) = Len(r) + 1 /\ r \in Seq(Task) /\ \A k \in 1..Len(r) : r[k] = q[k + 1]
    BY <1>3, <2>2
  <2> HIDE DEF r
  <2>4. Even(r)
    <3>1. ASSUME NEW j \in 1..Len(r), NEW k \in 1..Len(r), j <= k
          PROVE  Depth(r[j]) <= Depth(r[k]) /\ Depth(r[k]) <= Depth(r[j]) + 1
      <4>1. j + 1 \in 1..Len(q) /\ k + 1 \in 1..Len(q) /\ j + 1 <= k + 1
        BY <2>3, <3>1
      <4>2. Depth(q[j + 1]) <= Depth(q[k + 1]) /\ Depth(q[k + 1]) <= Depth(q[j + 1]) + 1
        BY <1>9, <2>2, <4>1
      <4> QED BY <2>3, <4>2
    <3> QED BY <3>1
  <2>5. After(dumped, r)
    <3> SUFFICES ASSUME r # <<>>, dumped # <<>>
                 PROVE  Depth(dumped[Len(dumped)]) <= Depth(r[1])
      OBVIOUS
    <3>1. 1 \in 1..Len(r) /\ 1 \in 1..Len(q) /\ 2 \in 1..Len(q) /\ Len(dumped) \in 1..Len(dumped)
      BY <1>3, <2>3
    <3>2. Depth(dumped[Len(dumped)]) <= Depth(q[1]) /\ Depth(q[1]) <= Depth(q[2])
      BY <1>9, <2>2, <3>1
    <3>3. /\ Depth(dumped[Len(dumped)]) \in Nat
          /\ Depth(q[1]) \in Nat /\ Depth(q[2]) \in Nat /\ r[1] = q[2]
      BY <1>3, <1>5, <2>3, <3>1
    <3> QED BY <3>2, <3>3
  <2> QED BY <1>8, <1>10, <2>1, <2>4, <2>5 DEF r
<1>17. CASE FreeQueue
  <2>1. UNCHANGED dumped /\ ~Walking'
    BY <1>17 DEF FreeQueue, Walking
  <2> QED BY <1>8, <1>10, <2>1
<1> QED BY <1>11, <1>12, <1>13, <1>14, <1>15, <1>16, <1>17 DEF Next

(* In DFS mode no queued task is a descendant of the one about to be     *)
(* printed: all ancestors of a queued task, from the root down, are      *)
(* printed.                                                              *)
LEMMA NotBelowTask ==
  ASSUME IInv, ~use_bfs, pc = "dump", NEW y \in Range(q)
  PROVE  task \notin Line(y)
<1> SUFFICES ASSUME task \in Line(y) PROVE FALSE
  OBVIOUS
<1>1. /\ TypeOK /\ task \in Task /\ y \in Task /\ task # y /\ root \in Task
      /\ task \notin Range(dumped) /\ Range(dumped) \subseteq Task
  BY RangeFacts DEF IInv, Current, Control, Processing, Walking
<1>2. task \in Nat /\ y \in Nat /\ root \in Nat
  BY <1>1, TaskAssumption
<1>3. y \in Seen /\ task \in Seen /\ Range(dumped) \subseteq Seen
  BY DEF Seen, Processing
<1>4. \A t \in Seen : t >= root /\ (t # root => \E p \in Range(dumped) : t \in Range(children[p]))
  <2>1. ASSUME NEW t \in Seen PROVE t >= root
    BY DEF IInv, Rooted, Walking
  <2>2. ASSUME NEW t \in Seen, t # root
        PROVE  \E p \in Range(dumped) : t \in Range(children[p])
    <3>1. PICK p \in Range(dumped) : \E j \in 1..Len(children[p]) : children[p][j] = t
      BY <2>2 DEF IInv, Rooted, Walking
    <3>2. children[p] \in Seq(Task)
      BY <1>1, TreeFacts
    <3> QED BY <3>1, <3>2 DEF Range
  <2> QED BY <2>1, <2>2
<1>5. CASE y = root
  <2>1. task <= y
    BY <1>1, LineIsAbove
  <2> QED BY <1>1, <1>2, <1>3, <1>4, <1>5, <2>1
<1>6. CASE y # root
  <2>1. PICK p \in Range(dumped) : y \in Range(children[p])
    BY <1>3, <1>4, <1>6
  <2>2. p \in Task /\ task \in Line(p)
    BY <1>1, <2>1, LineOfChild
  <2> DEFINE S == {x \in Task : x <= root} \cup Range(dumped)
  <2>3. S \in SUBSET Task /\ p \in S
    BY <1>1, <2>1
  <2>4. ASSUME NEW r \in Task, NEW x \in Range(children[r]) \cap S PROVE r \in S
    <3>1. r < x /\ r \in Nat /\ x \in Nat
      BY <1>1, <2>4, OneParent, TaskAssumption
    <3>2. CASE x <= root
      BY <1>2, <3>1, <3>2
    <3>3. CASE ~(x <= root)
      <4>1. x \in Range(dumped) /\ x # root
        BY <1>2, <2>4, <3>1, <3>3
      <4>2. PICK z \in Range(dumped) : x \in Range(children[z])
        BY <1>3, <1>4, <4>1
      <4>3. r = z
        BY <1>1, <2>4, <4>2, OneParent
      <4> QED BY <4>2, <4>3
    <3> QED BY <3>2, <3>3
  <2>5. HasParents(S)
    BY <2>4 DEF HasParents
  <2> HIDE DEF S
  <2>6. task \in S
    BY <2>2, <2>3, <2>5, LineWithin
  <2>7. task = root
    BY <1>1, <1>2, <1>3, <1>4, <2>6 DEF S
  <2>8. dumped \in Seq(Task)
    BY <1>1 DEF TypeOK
  <2>9. 1 \in 1..Len(dumped) /\ 1 \in DOMAIN dumped
    BY <2>1, <2>8 DEF Range
  <2>10. dumped[1] = root
    BY <2>9 DEF IInv, ParentDumpedFirst
  <2> QED BY <1>1, <2>7, <2>9, <2>10 DEF Range
<1> QED BY <1>5, <1>6

(* The child at the position of list_for_each() was not printed. *)
LEMMA ChildIsNew ==
  ASSUME IInv, pc = "children", list \in 1..Len(children[task])
  PROVE  children[task][list] \notin Range(dumped)
<1> DEFINE c == children[task][list]
<1> SUFFICES ASSUME c \in Range(dumped) PROVE FALSE
  OBVIOUS
<1>1. TypeOK /\ task \in Task /\ root \in Task /\ task \in Seen /\ c \in Seen
  BY DEF IInv, Control, Processing, Walking, Seen
<1>2. c \in Task /\ task < c /\ task >= root /\ task \in Nat /\ c \in Nat /\ root \in Nat
  BY <1>1, TreeFacts, TaskAssumption DEF IInv, Rooted, Walking
<1>3. c # root
  BY <1>2
<1>4. PICK p \in Range(dumped) : \E j \in 1..Len(children[p]) :
        children[p][j] = c /\ (p = task => j < list)
  BY <1>1, <1>3 DEF IInv, Rooted, Walking
<1>5. PICK j \in 1..Len(children[p]) : children[p][j] = c /\ (p = task => j < list)
  BY <1>4
<1>6. p \in Task
  BY <1>1, RangeFacts
<1>7. p = task /\ j = list
  BY <1>1, <1>5, <1>6, TreeFacts
<1> QED BY <1>1, <1>5, <1>7 DEF TypeOK

(* Every step keeps BySubtree: a child goes in front of everything that  *)
(* is not below its parent.                                              *)
LEMMA SubtreeStep == IInv /\ BySubtree /\ [Next]_vars => BySubtree'
<1> SUFFICES ASSUME IInv, BySubtree, [Next]_vars, ~use_bfs' PROVE BySubtree'
  BY DEF BySubtree
<1>1. UNCHANGED <<use_bfs, children>>
  BY DEF Next, vars, params, get_user_pid_task, NoSuchTask, AllocFirst, TakeTask, DumpTask,
         QueueChild, FinishTask, WalkDone, FreeQueue
<1>2. TypeOK /\ ~use_bfs
  BY <1>1 DEF IInv
<1>3. q \in Seq(Task) /\ dumped \in Seq(Task) /\ Len(q) \in Nat /\ Len(dumped) \in Nat
  BY <1>2 DEF TypeOK
<1>4. \A t : Line(t)' = Line(t)
  BY <1>1, SameLine
<1> DEFINE
      Dd(d) == \A i, j, k \in 1..Len(d) :
                 i < j /\ j < k /\ d[i] \in Line(d[k]) => d[i] \in Line(d[j])
      Dq(d, Y) == \A i, j \in 1..Len(d) : \A y \in Y :
                    i < j /\ d[i] \in Line(y) => d[i] \in Line(d[j])
      Qq(d, s) == \A i \in 1..Len(d) : \A a, b \in 1..Len(s) :
                    a < b /\ d[i] \in Line(s[b]) => d[i] \in Line(s[a])
      Tq(d, t, Y) == \A i \in 1..Len(d) : \A y \in Y : d[i] \in Line(y) => d[i] \in Line(t)
<1>5. Dd(dumped)
  BY <1>2 DEF BySubtree, DfsSubtreesContiguous
<1>6. Walking => /\ Dq(dumped, Range(q)) /\ Qq(dumped, q)
                 /\ pc = "dump" => Dq(dumped, {task}) /\ Tq(dumped, task, Range(q))
                 /\ pc = "children" => dumped # <<>> /\ task = dumped[Len(dumped)]
  BY <1>2 DEF BySubtree
<1>7. ASSUME Dd(dumped'),
             Walking' => /\ Dq(dumped', Range(q')) /\ Qq(dumped', q')
                         /\ pc' = "dump" => Dq(dumped', {task'}) /\ Tq(dumped', task', Range(q'))
                         /\ pc' = "children" => dumped' # <<>> /\ task' = dumped'[Len(dumped')]
      PROVE  BySubtree'
  <2>1. DfsSubtreesContiguous'
    BY <1>4, <1>7 DEF DfsSubtreesContiguous
  <2>2. Range(q)' = Range(q')
    BY DEF Range
  <2>3. (\A i, j \in 1..Len(dumped) : \A y \in Range(q) :
              i < j /\ dumped[i] \in Line(y) => dumped[i] \in Line(dumped[j]))'
          <=> Dq(dumped', Range(q'))
    BY <1>4, <2>2
  <2>4. (\A i \in 1..Len(dumped) : \A a, b \in 1..Len(q) :
              a < b /\ dumped[i] \in Line(q[b]) => dumped[i] \in Line(q[a]))'
          <=> Qq(dumped', q')
    BY <1>4
  <2>5. (\A i, j \in 1..Len(dumped) :
              i < j /\ dumped[i] \in Line(task) => dumped[i] \in Line(dumped[j]))'
          <=> Dq(dumped', {task'})
    BY <1>4
  <2>6. (\A i \in 1..Len(dumped) : \A y \in Range(q) :
              dumped[i] \in Line(y) => dumped[i] \in Line(task))'
          <=> Tq(dumped', task', Range(q'))
    BY <1>4, <2>2
  <2> HIDE DEF Dd, Dq, Qq, Tq
  <2> QED BY <1>7, <2>1, <2>3, <2>4, <2>5, <2>6 DEF BySubtree
<1>8. ASSUME UNCHANGED <<q, dumped>>, Walking' => Walking, pc' # "dump", pc' # "children"
      PROVE  BySubtree'
  <2> HIDE DEF Dd, Dq, Qq, Tq
  <2> QED BY <1>5, <1>6, <1>7, <1>8
<1>9. CASE get_user_pid_task \/ NoSuchTask \/ AllocFirst
  <2>1. dumped' = <<>> /\ pc' \notin {"dump", "children"}
    BY <1>9 DEF get_user_pid_task, NoSuchTask, AllocFirst, IInv, Control
  <2> QED BY <1>7, <2>1
<1>10. CASE TakeTask
  <2>1. /\ UNCHANGED dumped /\ pc = "loop" /\ pc' = "dump" /\ q # <<>>
        /\ task' = Head(q) /\ q' = Tail(q)
    BY <1>2, <1>10 DEF TakeTask
  <2> DEFINE r == Tail(q)
             t == Head(q)
  <2>2. /\ Len(q) = Len(r) + 1 /\ r \in Seq(Task) /\ t = q[1]
        /\ \A k \in 1..Len(r) : r[k] = q[k + 1]
    BY <1>3, <2>1
  <2>3. Range(q) = Range(r) \cup {t}
    BY <1>3, <2>1, TailFacts
  <2> HIDE DEF r, t
  <2>4. Walking
    BY <2>1 DEF Walking
  <2>5. Dq(dumped, Range(q)) /\ Qq(dumped, q)
    BY <1>6, <2>4
  <2>6. Dq(dumped, Range(r)) /\ Dq(dumped, {t})
    BY <2>3, <2>5
  <2>7. Qq(dumped, r)
    <3>1. ASSUME NEW i \in 1..Len(dumped), NEW a \in 1..Len(r), NEW b \in 1..Len(r),
                 a < b, dumped[i] \in Line(r[b])
          PROVE  dumped[i] \in Line(r[a])
      <4>1. a + 1 \in 1..Len(q) /\ b + 1 \in 1..Len(q) /\ a + 1 < b + 1
        BY <2>2, <3>1
      <4>2. r[a] = q[a + 1] /\ r[b] = q[b + 1]
        BY <2>2
      <4> QED BY <2>5, <3>1, <4>1, <4>2
    <3> QED BY <3>1
  <2>8. Tq(dumped, t, Range(r))
    <3>1. ASSUME NEW i \in 1..Len(dumped), NEW y \in Range(r), dumped[i] \in Line(y)
          PROVE  dumped[i] \in Line(t)
      <4>1. PICK k \in 1..Len(r) : y = r[k]
        BY <2>2 DEF Range
      <4>2. k + 1 \in 1..Len(q) /\ 1 \in 1..Len(q) /\ 1 < k + 1 /\ y = q[k + 1]
        BY <2>2, <4>1
      <4> QED BY <2>2, <2>5, <3>1, <4>2
    <3> QED BY <3>1
  <2>9. q' = r /\ task' = t /\ dumped' = dumped
    BY <2>1 DEF r, t
  <2> HIDE DEF Dd, Dq, Qq, Tq
  <2> QED BY <1>5, <1>7, <2>1, <2>6, <2>7, <2>8, <2>9
<1>11. CASE DumpTask
  <2>1. dumped' = Append(dumped, task) /\ UNCHANGED <<q, task>> /\ pc = "dump" /\ pc' = "children"
    BY <1>11 DEF DumpTask
  <2>2. Walking /\ task \in Task
    BY <2>1 DEF IInv, Control, Walking, Processing
  <2> DEFINE d == Append(dumped, task)
             n == Len(dumped)
  <2>3. /\ Len(d) = n + 1 /\ d[n + 1] = task /\ n \in Nat /\ d # <<>>
        /\ \A k \in 1..n : d[k] = dumped[k]
    BY <1>3, <2>2
  <2>4. \A k \in 1..Len(d) : k \in 1..n \/ k = n + 1
    BY <2>3
  <2>5. /\ Dq(dumped, Range(q)) /\ Qq(dumped, q)
        /\ Dq(dumped, {task}) /\ Tq(dumped, task, Range(q))
    BY <1>6, <2>1, <2>2
  <2> HIDE DEF d, n
  <2>6. Dd(d)
    <3>1. ASSUME NEW i \in 1..Len(d), NEW j \in 1..Len(d), NEW k \in 1..Len(d),
                 i < j, j < k, d[i] \in Line(d[k])
          PROVE  d[i] \in Line(d[j])
      <4>1. i \in 1..n /\ j \in 1..n
        BY <2>3, <3>1
      <4>2. CASE k \in 1..n
        BY <1>5, <2>3, <3>1, <4>1, <4>2 DEF n
      <4>3. CASE k = n + 1
        BY <2>3, <2>5, <3>1, <4>1, <4>3 DEF n
      <4> QED BY <2>4, <4>2, <4>3
    <3> QED BY <3>1
  <2>7. Dq(d, Range(q))
    <3>1. ASSUME NEW i \in 1..Len(d), NEW j \in 1..Len(d), NEW y \in Range(q),
                 i < j, d[i] \in Line(y)
          PROVE  d[i] \in Line(d[j])
      <4>1. i \in 1..n
        BY <2>3, <3>1
      <4>2. CASE j \in 1..n
        BY <2>3, <2>5, <3>1, <4>1, <4>2 DEF n
      <4>3. CASE j = n + 1
        BY <2>3, <2>5, <3>1, <4>1, <4>3 DEF n
      <4> QED BY <2>4, <4>2, <4>3
    <3> QED BY <3>1
  <2>8. Qq(d, q)
    <3>1. ASSUME NEW i \in 1..Len(d), NEW a \in 1..Len(q), NEW b \in 1..Len(q),
                 a < b, d[i] \in Line(q[b])
          PROVE  d[i] \in Line(q[a])
      <4>1. CASE i \in 1..n
        BY <2>3, <2>5, <3>1, <4>1 DEF n
      <4>2. CASE i = n + 1
        <5>1. q[b] \in Range(q)
          BY <1>3 DEF Range
        <5>2. task \notin Line(q[b])
          BY <1>2, <2>1, <5>1, NotBelowTask
        <5> QED BY <2>3, <3>1, <4>2, <5>2
      <4> QED BY <2>4, <4>1, <4>2
    <3> QED BY <3>1
  <2>9. dumped' = d /\ q' = q /\ task' = d[Len(d)] /\ d # <<>>
    BY <2>1, <2>3 DEF d
  <2> HIDE DEF Dd, Dq, Qq, Tq
  <2> QED BY <1>7, <2>1, <2>6, <2>7, <2>8, <2>9
<1>12. CASE QueueChild
  <2>1. /\ UNCHANGED <<dumped, task>> /\ pc = "children" /\ pc' # "dump"
        /\ list \in 1..Len(children[task])
    BY <1>2, <1>12 DEF QueueChild, TypeOK
  <2> DEFINE c == children[task][list]
             r == <<c>> \o q
             n == Len(dumped)
  <2>2. Walking /\ task \in Task
    BY <2>1 DEF IInv, Control, Walking, Processing
  <2>3. q' = r \/ ~Walking'
    BY <1>1, <1>2, <1>12 DEF QueueChild, Enqueue, Walking
  <2>4. c \in Range(children[task])
    <3>1. children[task] \in Seq(Task)
      BY <1>2, <2>2, TreeFacts
    <3> QED BY <2>1, <3>1 DEF Range
  <2>5. c \notin Range(dumped)
    BY <2>1, ChildIsNew
  <2> HIDE DEF c
  <2>6. c \in Task /\ Line(c) = {c} \cup Line(task) /\ task \in Line(task)
    BY <1>2, <2>2, <2>4, OneParent, LineOfChild, LineHasParents
  <2>7. /\ Len(r) = Len(q) + 1 /\ r[1] = c /\ \A k \in 1..Len(q) : r[k + 1] = q[k]
    BY <1>3, <2>6
  <2>8. Range(r) = Range(q) \cup {c}
    BY <1>3, <2>6, ConsFacts
  <2> HIDE DEF r
  <2>9. /\ Dq(dumped, Range(q)) /\ Qq(dumped, q) /\ dumped # <<>>
        /\ task = dumped[n] /\ n \in 1..n /\ n \in Nat
    BY <1>3, <1>6, <2>1, <2>2
  <2>10. \A i \in 1..n : dumped[i] # c
    BY <1>3, <2>5 DEF Range
  <2> HIDE DEF n
  <2>11. Dq(dumped, Range(r))
    <3>1. ASSUME NEW i \in 1..n, NEW j \in 1..n, NEW y \in Range(r),
                 i < j, dumped[i] \in Line(y)
          PROVE  dumped[i] \in Line(dumped[j])
      <4>1. CASE y \in Range(q)
        BY <2>9, <3>1, <4>1 DEF n
      <4>2. CASE y = c
        <5>1. dumped[i] \in Line(dumped[n])
          BY <2>6, <2>9, <2>10, <3>1, <4>2
        <5>2. j = n \/ j < n
          BY <2>9, <3>1
        <5> QED BY <1>5, <2>9, <3>1, <5>1, <5>2 DEF n
      <4> QED BY <2>8, <4>1, <4>2
    <3> QED BY <3>1 DEF n
  <2>12. Qq(dumped, r)
    <3>1. ASSUME NEW i \in 1..n, NEW a \in 1..Len(r), NEW b \in 1..Len(r),
                 a < b, dumped[i] \in Line(r[b])
          PROVE  dumped[i] \in Line(r[a])
      <4>1. b - 1 \in 1..Len(q) /\ r[b] = q[b - 1] /\ q[b - 1] \in Range(q)
        <5>1. b - 1 \in 1..Len(q) /\ (b - 1) + 1 = b
          BY <1>3, <2>7, <3>1
        <5> QED BY <1>3, <2>7, <5>1 DEF Range
      <4>2. CASE a = 1
        <5>1. i = n \/ i < n
          BY <2>9, <3>1
        <5>2. dumped[i] \in Line(task)
          BY <2>6, <2>9, <3>1, <4>1, <5>1 DEF n
        <5> QED BY <2>6, <2>7, <4>2, <5>2
      <4>3. CASE a # 1
        <5>1. a - 1 \in 1..Len(q) /\ a - 1 < b - 1 /\ (a - 1) + 1 = a
          BY <1>3, <2>7, <3>1, <4>3
        <5>2. r[a] = q[a - 1]
          BY <2>7, <5>1
        <5> QED BY <2>9, <3>1, <4>1, <5>1, <5>2 DEF n
      <4> QED BY <4>2, <4>3
    <3> QED BY <3>1 DEF n
  <2>13. dumped' = dumped /\ task' = dumped[Len(dumped)] /\ dumped # <<>>
    BY <2>1, <2>9 DEF n
  <2> HIDE DEF Dd, Dq, Qq, Tq
  <2> QED BY <1>5, <1>7, <2>1, <2>3, <2>11, <2>12, <2>13
<1>13. CASE FinishTask \/ WalkDone
  <2>1. UNCHANGED <<q, dumped>> /\ Walking /\ pc' \notin {"dump", "children"}
    BY <1>2, <1>13 DEF FinishTask, WalkDone, Walking
  <2> QED BY <1>8, <2>1
<1>14. CASE FreeQueue
  <2>1. UNCHANGED dumped /\ ~Walking'
    BY <1>14 DEF FreeQueue, Walking
  <2> HIDE DEF Dd, Dq, Qq, Tq
  <2> QED BY <1>5, <1>7, <2>1
<1>15. CASE UNCHANGED vars
  <2>1. UNCHANGED <<q, dumped, pc, task>> /\ (Walking' <=> Walking)
    BY <1>15 DEF vars, Walking
  <2> HIDE DEF Dd, Dq, Qq, Tq
  <2> QED BY <1>5, <1>6, <1>7, <2>1
<1> QED BY <1>9, <1>10, <1>11, <1>12, <1>13, <1>14, <1>15 DEF Next

(* Both hold when modinit() starts. *)
LEMMA OrderInit == Init => ByLevel /\ BySubtree
BY DEF Init, ByLevel, BySubtree, BfsLevelOrder, DfsSubtreesContiguous, Walking

(* With bfs=1 dump_children_tree() prints level by level, for every task *)
(* tree and wherever memory runs out.                                    *)
THEOREM WalkPrintsByLevel == Spec => []BfsLevelOrder
<1>1. Init => ByLevel
  BY OrderInit
<1>2. ByLevel => BfsLevelOrder
  BY DEF ByLevel, BfsLevelOrder
<1> QED BY <1>1, <1>2, LevelStep, WalkInvariant, PTL DEF Spec

(* With bfs=0 dump_children_tree() prints every subtree in one piece,    *)
(* for every task tree and wherever memory runs out.                     *)
THEOREM WalkPrintsBySubtree == Spec => []DfsSubtreesContiguous
<1>1. Init => BySubtree
  BY OrderInit
<1>2. BySubtree => DfsSubtreesContiguous
  BY DEF BySubtree, DfsSubtreesContiguous
<1> QED BY <1>1, <1>2, SubtreeStep, WalkInvariant, PTL DEF Spec
===============================================================================
