---------------------------- MODULE TaskListProofs ----------------------------
(***************************************************************************)
(* Proofs about lists of tasks, and with them about the three modules that *)
(* walk the kernel's: TaskTreeRace, the walk of task_bfs_dfs over a tree   *)
(* that changes under it, EnumPids, whose reader is kept from freed tasks  *)
(* by RCU, and TaskRss, whose reader is not and is safe only as long as    *)
(* nobody exits. All of it is stated in the names of KernelModules, the    *)
(* module that the run checks. TtInv counts the references that the walk   *)
(* holds against the entries of its queue and, as long as nobody exits,    *)
(* says which children the walk has still to see; EpInv says that whatever *)
(* a reader can still come to is alive or kept by the grace period; TrInv  *)
(* that what is printed is the first part of the list.                     *)
(***************************************************************************)
EXTENDS KernelModules, Integers, SequencesExt, SequenceTheorems, FiniteSetTheorems, TLAPS

(* The modules see the library's operators under the names of their      *)
(* instances: the range of a list is the same for all of them.           *)
LEMMA SameRange ==
  ASSUME NEW s
  PROVE  R!Range(s) = Range(s) /\ T!Range(s) = Range(s) /\ E!Range(s) = Range(s)
BY DEF R!Range, T!Range, E!Range, Range

(* So is that a list has nobody twice. *)
LEMMA SameIsInjective ==
  ASSUME NEW s
  PROVE  R!IsInjective(s) = IsInjective(s) /\ T!IsInjective(s) = IsInjective(s)
BY DEF R!IsInjective, T!IsInjective, IsInjective

(* So is the cardinality of a set. *)
LEMMA SameCardinality ==
  ASSUME NEW A
  PROVE  /\ R!Cardinality(A) = Cardinality(A)
         /\ T!Cardinality(A) = Cardinality(A)
         /\ E!Cardinality(A) = Cardinality(A)
BY DEF R!Cardinality, T!Cardinality, E!Cardinality, Cardinality

(* So is the list made of a set. *)
LEMMA SameSetToSeq ==
  ASSUME NEW A
  PROVE  /\ R!SetToSeq(A) = SetToSeq(A)
         /\ T!SetToSeq(A) = SetToSeq(A)
         /\ E!SetToSeq(A) = SetToSeq(A)
<1>1. R!SetToSeq(A) = SetToSeq(A)
  BY SameCardinality DEF R!SetToSeq, SetToSeq, R!IsInjective, IsInjective
<1>2. T!SetToSeq(A) = SetToSeq(A)
  BY SameCardinality DEF T!SetToSeq, SetToSeq, T!IsInjective, IsInjective
<1>3. E!SetToSeq(A) = SetToSeq(A)
  BY SameCardinality DEF E!SetToSeq, SetToSeq, E!IsInjective, IsInjective
<1> QED BY <1>1, <1>2, <1>3

(* The list made of a finite set has every element of it, and once. *)
LEMMA SetToSeqIsEnumeration ==
  ASSUME NEW A, IsFiniteSet(A)
  PROVE  /\ SetToSeq(A) \in Seq(A)
         /\ Len(SetToSeq(A)) = Cardinality(A)
         /\ IsInjective(SetToSeq(A))
         /\ Range(SetToSeq(A)) = A
<1> DEFINE n == Cardinality(A)
<1>1. n \in Nat /\ ExistsBijection(1..n, A)
  BY FS_CardinalityType
<1>2. PICK f \in [1..n -> A] : IsInjective(f)
  BY <1>1 DEF ExistsBijection, Bijection, Injection, IsInjective
<1>3. SetToSeq(A) \in [1..n -> A] /\ IsInjective(SetToSeq(A))
  BY <1>2 DEF SetToSeq
<1> DEFINE s == SetToSeq(A)
<1> HIDE DEF s
<1>4. s \in Seq(A) /\ Len(s) = n
  BY <1>1, <1>3 DEF s
<1>5. IsFiniteSet(1..n) /\ Cardinality(1..n) = n
  BY <1>1, FS_Interval
<1>6. s \in Injection(1..n, A)
  BY <1>3 DEF Injection, IsInjective, s
<1>7. s \in Surjection(1..n, A)
  BY <1>5, <1>6, FS_Injection
<1>8. Range(s) = A
  BY <1>3, <1>7 DEF Surjection, Range, s
<1> QED BY <1>3, <1>4, <1>8 DEF s

(* Who is on a list, and that nobody is on it twice, by places. *)
LEMMA ListElements ==
  ASSUME NEW A, NEW s \in Seq(A)
  PROVE  /\ Range(s) \subseteq A
         /\ \A x : x \in Range(s) <=> \E k \in 1..Len(s) : s[k] = x
         /\ IsInjective(s) <=> \A j, k \in 1..Len(s) : s[j] = s[k] => j = k
BY DEF Range, IsInjective

(* list_add_tail(): the list has one element more. *)
LEMMA AppendToList ==
  ASSUME NEW A, NEW s \in Seq(A), NEW e \in A
  PROVE  /\ Append(s, e) \in Seq(A)
         /\ Range(Append(s, e)) = Range(s) \cup {e}
         /\ IsInjective(s) /\ e \notin Range(s) => IsInjective(Append(s, e))
<1> DEFINE t == Append(s, e)
<1>1. /\ t \in Seq(A) /\ Len(t) = Len(s) + 1 /\ t[Len(s) + 1] = e
      /\ \A k \in 1..Len(s) : t[k] = s[k]
  BY AppendProperties
<1> HIDE DEF t
<1>2. Range(t) = Range(s) \cup {e}
  BY <1>1, ListElements
<1>3. IsInjective(s) /\ e \notin Range(s) => IsInjective(t)
  BY <1>1, ListElements
<1> QED BY <1>1, <1>2, <1>3 DEF t

(* Two lists that share nobody make one that has nobody twice. *)
LEMMA ConcatLists ==
  ASSUME NEW A, NEW s \in Seq(A), NEW t \in Seq(A)
  PROVE  /\ s \o t \in Seq(A)
         /\ Range(s \o t) = Range(s) \cup Range(t)
         /\ IsInjective(s) /\ IsInjective(t) /\ Range(s) \cap Range(t) = {}
              => IsInjective(s \o t)
<1> DEFINE u == s \o t
<1>1. /\ u \in Seq(A) /\ Len(u) = Len(s) + Len(t)
      /\ \A k \in 1..Len(s) : u[k] = s[k]
      /\ \A k \in 1..Len(t) : u[Len(s) + k] = t[k]
      /\ \A k \in 1..Len(u) : k \in 1..Len(s) \/ k - Len(s) \in 1..Len(t)
      /\ \A k \in 1..Len(u) : k \notin 1..Len(s) => u[k] = t[k - Len(s)]
  BY ConcatProperties
<1> HIDE DEF u
<1>2. Range(u) = Range(s) \cup Range(t)
  <2>1. ASSUME NEW x \in Range(u) PROVE x \in Range(s) \cup Range(t)
    <3>1. PICK k \in 1..Len(u) : u[k] = x
      BY <1>1, <2>1, ListElements
    <3>2. CASE k \in 1..Len(s)
      <4>1. s[k] = x
        BY <1>1, <3>1, <3>2
      <4> QED BY <3>2, <4>1, ListElements
    <3>3. CASE k \notin 1..Len(s)
      <4>1. k - Len(s) \in 1..Len(t) /\ t[k - Len(s)] = x
        BY <1>1, <3>1, <3>3
      <4> QED BY <4>1, ListElements
    <3> QED BY <3>2, <3>3
  <2>2. ASSUME NEW x \in Range(s) PROVE x \in Range(u)
    <3>1. PICK k \in 1..Len(s) : s[k] = x
      BY <2>2, ListElements
    <3>2. k \in 1..Len(u) /\ u[k] = x
      BY <1>1, <3>1
    <3> QED BY <1>1, <3>2, ListElements
  <2>3. ASSUME NEW x \in Range(t) PROVE x \in Range(u)
    <3>1. PICK k \in 1..Len(t) : t[k] = x
      BY <2>3, ListElements
    <3>2. Len(s) + k \in 1..Len(u) /\ u[Len(s) + k] = x
      BY <1>1, <3>1
    <3> QED BY <1>1, <3>2, ListElements
  <2> QED BY <2>1, <2>2, <2>3
<1>3. ASSUME IsInjective(s), IsInjective(t), Range(s) \cap Range(t) = {},
             NEW j \in 1..Len(u), NEW k \in 1..Len(u), u[j] = u[k]
      PROVE  j = k
  <2>1. \A m \in 1..Len(s) : s[m] \in Range(s)
    BY ListElements
  <2>2. \A m \in 1..Len(t) : t[m] \in Range(t)
    BY ListElements
  <2>3. CASE j \in 1..Len(s) /\ k \in 1..Len(s)
    BY <1>1, <1>3, <2>3, ListElements
  <2>4. CASE j \notin 1..Len(s) /\ k \notin 1..Len(s)
    <3>1. j - Len(s) \in 1..Len(t) /\ k - Len(s) \in 1..Len(t) /\ t[j - Len(s)] = t[k - Len(s)]
      BY <1>1, <1>3, <2>4
    <3>2. j - Len(s) = k - Len(s)
      BY <1>3, <3>1, ListElements
    <3> QED BY <3>2
  <2>5. CASE j \in 1..Len(s) /\ k \notin 1..Len(s)
    BY <1>1, <1>3, <2>1, <2>2, <2>5
  <2>6. CASE j \notin 1..Len(s) /\ k \in 1..Len(s)
    BY <1>1, <1>3, <2>1, <2>2, <2>6
  <2> QED BY <2>3, <2>4, <2>5, <2>6
<1>4. IsInjective(s) /\ IsInjective(t) /\ Range(s) \cap Range(t) = {} => IsInjective(u)
  BY <1>1, <1>3, ListElements
<1> QED BY <1>1, <1>2, <1>4 DEF u

(* list_del(): a list from which the element at one place is taken has   *)
(* the others, in order.                                                 *)
LEMMA RemoveFromList ==
  ASSUME NEW A, NEW s \in Seq(A), NEW m \in 1..Len(s)
  PROVE  /\ RemoveAt(s, m) \in Seq(A)
         /\ Range(RemoveAt(s, m)) \subseteq Range(s)
         /\ Range(s) \subseteq Range(RemoveAt(s, m)) \cup {s[m]}
         /\ IsInjective(s) => /\ IsInjective(RemoveAt(s, m))
                              /\ Range(RemoveAt(s, m)) = Range(s) \ {s[m]}
<1> DEFINE a == SubSeq(s, 1, m - 1)
           b == SubSeq(s, m + 1, Len(s))
<1>1. /\ a \in Seq(A) /\ Len(a) = m - 1
      /\ \A k \in 1..Len(a) : a[k] = s[k]
  OBVIOUS
<1>2. /\ b \in Seq(A) /\ Len(b) = Len(s) - m
      /\ \A k \in 1..Len(b) : b[k] = s[m + k]
  OBVIOUS
<1>3. RemoveAt(s, m) = a \o b
  BY DEF RemoveAt
<1> HIDE DEF a, b
<1>4. Range(a) \subseteq Range(s)
  BY <1>1, ListElements
<1>5. Range(b) \subseteq Range(s)
  <2> SUFFICES ASSUME NEW x \in Range(b) PROVE x \in Range(s)
    OBVIOUS
  <2>1. PICK k \in 1..Len(b) : b[k] = x
    BY <1>2, ListElements
  <2>2. m + k \in 1..Len(s) /\ s[m + k] = x
    BY <1>2, <2>1
  <2> QED BY <2>2, ListElements
<1>6. Range(s) \subseteq Range(a) \cup Range(b) \cup {s[m]}
  <2> SUFFICES ASSUME NEW x \in Range(s) PROVE x \in Range(a) \cup Range(b) \cup {s[m]}
    OBVIOUS
  <2>1. PICK k \in 1..Len(s) : s[k] = x
    BY ListElements
  <2>2. CASE k < m
    BY <1>1, <2>1, <2>2, ListElements
  <2>3. CASE k > m
    <3>1. k - m \in 1..Len(b) /\ b[k - m] = s[m + (k - m)] /\ m + (k - m) = k
      BY <1>2, <2>3
    <3> QED BY <1>2, <2>1, <3>1, ListElements
  <2> QED BY <2>1, <2>2, <2>3
<1>7. ASSUME IsInjective(s)
      PROVE  /\ IsInjective(a) /\ IsInjective(b)
             /\ Range(a) \cap Range(b) = {} /\ s[m] \notin Range(a) \cup Range(b)
  <2>1. \A j, k \in 1..Len(s) : s[j] = s[k] => j = k
    BY <1>7, ListElements
  <2>2. IsInjective(a) /\ s[m] \notin Range(a)
    BY <1>1, <2>1, ListElements
  <2>3. ASSUME NEW j \in 1..Len(b) PROVE m + j \in 1..Len(s) /\ m + j # m
    BY <1>2
  <2>4. ASSUME NEW j \in 1..Len(b), NEW k \in 1..Len(b), b[j] = b[k] PROVE j = k
    <3>1. m + j = m + k
      BY <1>2, <2>1, <2>3, <2>4
    <3> QED BY <3>1
  <2>5. ASSUME NEW x \in Range(b) PROVE x # s[m] /\ x \notin Range(a)
    <3>1. PICK j \in 1..Len(b) : b[j] = x
      BY <1>2, <2>5, ListElements
    <3>2. m + j \in 1..Len(s) /\ s[m + j] = x
      BY <1>2, <3>1
    <3>3. ASSUME NEW k \in 1..Len(a) PROVE a[k] # x
      <4>1. k \in 1..Len(s) /\ k # m + j /\ a[k] = s[k]
        BY <1>1, <2>3
      <4> QED BY <2>1, <3>2, <4>1
    <3>4. x # s[m]
      BY <2>1, <2>3, <3>2
    <3>5. x \notin Range(a)
      BY <1>1, <3>3, ListElements
    <3> QED BY <3>4, <3>5
  <2>6. IsInjective(b)
    BY <1>2, <2>4, ListElements
  <2> QED BY <2>2, <2>5, <2>6
<1> QED BY <1>1, <1>2, <1>3, <1>4, <1>5, <1>6, <1>7, ConcatLists
-------------------------------------------------------------------------------
(* The places of a list at which an element is. *)
Slots(s, x) == {k \in DOMAIN s : s[k] = x}

(* An element added at the tail is on the queue once more, and nobody    *)
(* else is.                                                              *)
LEMMA CountAppend ==
  ASSUME NEW A, NEW s \in Seq(A), NEW e \in A, NEW x
  PROVE  /\ IsFiniteSet(Slots(s, x)) /\ Cardinality(Slots(s, x)) \in Nat
         /\ Cardinality(Slots(Append(s, e), x)) =
              Cardinality(Slots(s, x)) + (IF e = x THEN 1 ELSE 0)
<1>1. IsFiniteSet(Slots(s, x)) /\ Cardinality(Slots(s, x)) \in Nat
  <2>1. Slots(s, x) \in SUBSET (1..Len(s))
    BY DEF Slots
  <2>2. IsFiniteSet(1..Len(s))
    BY FS_Interval
  <2> QED BY <2>1, <2>2, FS_Subset, FS_CardinalityType
<1>2. Slots(Append(s, e), x) = Slots(s, x) \cup (IF e = x THEN {Len(s) + 1} ELSE {})
  BY DEF Slots
<1>3. Len(s) + 1 \notin Slots(s, x)
  BY DEF Slots
<1>4. CASE e = x
  BY <1>1, <1>2, <1>3, <1>4, FS_AddElement
<1>5. CASE e # x
  BY <1>1, <1>2, <1>5
<1> QED BY <1>1, <1>4, <1>5

(* So is an element added at the head, as in DFS mode. *)
LEMMA CountCons ==
  ASSUME NEW A, NEW s \in Seq(A), NEW e \in A, NEW x
  PROVE  Cardinality(Slots(<<e>> \o s, x)) =
           Cardinality(Slots(s, x)) + (IF e = x THEN 1 ELSE 0)
<1> DEFINE t == <<e>> \o s
           old == Slots(s, x)
           f == [k \in old |-> k + 1]
           new == {k \in 2..(Len(s) + 1) : s[k - 1] = x}
<1>1. IsFiniteSet(old) /\ Cardinality(old) \in Nat
  BY CountAppend
<1>2. f \in Bijection(old, new)
  <2>1. f \in [old -> new]
    BY DEF Slots
  <2>2. \A j, k \in old : f[j] = f[k] => j = k
    BY DEF Slots
  <2>3. ASSUME NEW k \in new PROVE \E j \in old : f[j] = k
    <3>1. k - 1 \in old /\ f[k - 1] = k
      BY DEF Slots
    <3> QED BY <3>1
  <2> QED BY <2>1, <2>2, <2>3 DEF Bijection, Injection, Surjection, IsInjective
<1>3. IsFiniteSet(new) /\ Cardinality(new) = Cardinality(old)
  BY <1>1, <1>2, FS_Bijection DEF ExistsBijection
<1>4. /\ t \in Seq(A) /\ Len(t) = Len(s) + 1 /\ t[1] = e
      /\ \A k \in 2..(Len(s) + 1) : t[k] = s[k - 1]
  OBVIOUS
<1> HIDE DEF t
<1>5. Slots(t, x) = new \cup (IF e = x THEN {1} ELSE {})
  BY <1>4 DEF Slots
<1>6. 1 \notin new
  OBVIOUS
<1> HIDE DEF old, new, f
<1>7. e = x => Cardinality(Slots(t, x)) = Cardinality(old) + 1
  BY <1>1, <1>3, <1>5, <1>6, FS_AddElement
<1>8. e # x => Cardinality(Slots(t, x)) = Cardinality(old)
  BY <1>1, <1>3, <1>5
<1> QED BY <1>1, <1>7, <1>8 DEF t, old
-------------------------------------------------------------------------------
(* Who is on a list of children has a place there. *)
LEMMA PlaceInList ==
  ASSUME NEW A, NEW l \in Seq(A), NEW t \in Range(l)
  PROVE  T!Place(l, t) \in 1..Len(l) /\ l[T!Place(l, t)] = t
<1>1. DOMAIN l = 1..Len(l)
  OBVIOUS
<1>2. \E k \in 1..Len(l) : l[k] = t
  BY ListElements
<1> QED BY <1>1, <1>2 DEF T!Place

(* The states of a task and the nodes that a cursor of the walk can be   *)
(* at: the head of a list of children, or the sibling entry of a task.   *)
TaskStates == {"unborn", "alive", "zombie", "released", "freed"}
Nodes == [of : Task, field : {"sibling", "children"}]
Walking == tt_pc \in {"take", "child", "advance"}

(* The process tree as the rest of the system keeps it: whoever is not   *)
(* released is on the list of its parent, and nobody unborn is on a      *)
(* list.                                                                 *)
TtTree ==
  /\ tt_state \in [Task -> TaskStates]
  /\ children \in [Task -> Seq(Task)]
  /\ real_parent \in [Task -> Task]
  /\ tt_state[init] = "alive"
  /\ \A p \in Task : \A c \in Range(children[p]) : c # init /\ tt_state[c] # "unborn"
  /\ \A t \in Task \ {init} :
       tt_state[t] \in {"alive", "zombie"} => t \in Range(children[real_parent[t]])

(* A node that the cursor may be at: only a task that has been born, and *)
(* that is not init, is an entry of a list.                              *)
OnList(n) == n.field = "sibling" => n.of # init /\ tt_state[n.of] # "unborn"

(* The references that the walk holds: of every task as many as there    *)
(* are entries for it on the queue, and one for the task whose children  *)
(* it goes through. A task that is referred to is not freed, and the     *)
(* cursor only moves on from one.                                        *)
TtWalk ==
  /\ tt_pc \in {"take", "child", "advance", "done", "nomem", "bad"}
  /\ queue \in Seq(Task)
  /\ task \in Task
  /\ list \in Nodes /\ OnList(list)
  /\ refs \in [Task -> Int]
  /\ \A t \in Task : refs[t] > 0 => tt_state[t] # "freed"
  /\ tt_pc = "advance" => list.field = "sibling" /\ refs[list.of] > 0
  /\ Walking => \A t \in Task :
       refs[t] = Cardinality(Slots(queue, t)) + (IF tt_pc # "take" /\ task = t THEN 1 ELSE 0)

(* From a node of the tree that is not freed, list->next leads to        *)
(* another.                                                              *)
LEMMA NextNode ==
  ASSUME TtTree, NEW n \in Nodes, OnList(n),
         n.field = "sibling" => tt_state[n.of] # "freed"
  PROVE  T!next(n) \in Nodes /\ OnList(T!next(n))
<1>1. ASSUME NEW p \in Task, NEW k \in 1..Len(children[p])
      PROVE  /\ T!sibling(children[p][k]) \in Nodes
             /\ OnList(T!sibling(children[p][k]))
  <2>1. children[p] \in Seq(Task)
    BY DEF TtTree
  <2>2. children[p][k] \in Task /\ children[p][k] \in Range(children[p])
    BY <2>1, ListElements
  <2> QED BY <2>2 DEF TtTree, T!sibling, Nodes, OnList
<1>2. CASE n.field = "children"
  <2>1. n.of \in Task /\ children[n.of] \in Seq(Task)
    BY DEF Nodes, TtTree
  <2>2. CASE children[n.of] = <<>>
    BY <1>2, <2>2 DEF T!next
  <2>3. CASE children[n.of] # <<>>
    <3>1. 1 \in 1..Len(children[n.of]) /\ Head(children[n.of]) = children[n.of][1]
      BY <2>1, <2>3
    <3>2. T!next(n) = T!sibling(children[n.of][1])
      BY <1>2, <2>3, <3>1 DEF T!next
    <3> QED BY <1>1, <2>1, <3>1, <3>2
  <2> QED BY <2>2, <2>3
<1>3. CASE n.field = "sibling" /\ tt_state[n.of] = "released"
  BY <1>3 DEF T!next
<1>4. CASE n.field = "sibling" /\ tt_state[n.of] # "released"
  <2> DEFINE p == real_parent[n.of]
             l == children[p]
             k == T!Place(l, n.of)
  <2>1. n.of \in Task /\ p \in Task /\ l \in Seq(Task)
    BY DEF Nodes, TtTree
  <2>2. n.of \in Range(l)
    BY <1>4, <2>1 DEF TtTree, OnList, TaskStates
  <2>3. k \in 1..Len(l)
    BY <2>1, <2>2, PlaceInList
  <2>4. T!next(n) = IF k = Len(l) THEN T!head(p) ELSE T!sibling(l[k + 1])
    BY <1>4 DEF T!next
  <2>5. CASE k = Len(l)
    BY <2>1, <2>4, <2>5 DEF T!head, Nodes, OnList
  <2>6. CASE k # Len(l)
    <3>1. k + 1 \in 1..Len(l)
      BY <2>1, <2>3, <2>6
    <3> QED BY <1>1, <2>1, <2>4, <2>6, <3>1
  <2> QED BY <2>5, <2>6
<1> QED BY <1>2, <1>3, <1>4 DEF Nodes

(* fork() keeps the tree, and puts a task that was on no list at the end *)
(* of its parent's.                                                      *)
LEMMA TtFork ==
  ASSUME TtTree, NEW p \in Task, T!fork(p)
  PROVE  \E c \in Task :
           /\ tt_state[c] = "unborn" /\ tt_state[p] = "alive"
           /\ tt_state' = [tt_state EXCEPT ![c] = "alive"]
           /\ children' = [children EXCEPT ![p] = Append(children[p], c)]
           /\ real_parent' = [real_parent EXCEPT ![c] = p]
           /\ Range(children'[p]) = Range(children[p]) \cup {c}
           /\ TtTree'
<1> DEFINE c == CHOOSE c \in Task : tt_state[c] = "unborn"
<1>1. c \in Task /\ tt_state[c] = "unborn" /\ tt_state[p] = "alive"
  BY DEF T!fork
<1>2. /\ tt_state' = [tt_state EXCEPT ![c] = "alive"]
      /\ children' = [children EXCEPT ![p] = Append(children[p], c)]
      /\ real_parent' = [real_parent EXCEPT ![c] = p]
  BY DEF T!fork
<1> HIDE DEF c
<1>3. children[p] \in Seq(Task)
  BY DEF TtTree
<1>4. children'[p] \in Seq(Task) /\ Range(children'[p]) = Range(children[p]) \cup {c}
  BY <1>1, <1>2, <1>3, AppendToList DEF TtTree
<1>5. /\ \A q \in Task : q # p => children'[q] = children[q]
      /\ \A t \in Task : t # c => real_parent'[t] = real_parent[t] /\ tt_state'[t] = tt_state[t]
      /\ real_parent'[c] = p /\ tt_state'[c] = "alive" /\ c # init
  BY <1>1, <1>2 DEF TtTree
<1>6. children' \in [Task -> Seq(Task)] /\ real_parent' \in [Task -> Task]
      /\ tt_state' \in [Task -> TaskStates] /\ tt_state'[init] = "alive"
  BY <1>1, <1>2, <1>4, <1>5, TreeAssumption DEF TtTree, TaskStates
<1>7. ASSUME NEW q \in Task, NEW d \in Range(children'[q])
      PROVE  d # init /\ tt_state'[d] # "unborn"
  <2>1. d = c \/ d \in Range(children[q])
    BY <1>4, <1>5
  <2>2. children'[q] \in Seq(Task)
    BY <1>6
  <2>3. d \in Task
    BY <2>2, ListElements
  <2> QED BY <1>5, <2>1, <2>3 DEF TtTree
<1>8. ASSUME NEW t \in Task \ {init}, tt_state'[t] \in {"alive", "zombie"}
      PROVE  t \in Range(children'[real_parent'[t]])
  <2>1. CASE t = c
    BY <1>4, <1>5, <2>1
  <2>2. CASE t # c
    <3>1. t \in Range(children[real_parent[t]]) /\ real_parent[t] \in Task
      BY <1>5, <1>8, <2>2 DEF TtTree
    <3> QED BY <1>4, <1>5, <2>2, <3>1
  <2> QED BY <2>1, <2>2
<1>9. TtTree'
  BY <1>6, <1>7, <1>8 DEF TtTree
<1> QED BY <1>1, <1>2, <1>4, <1>9

(* So do exit, which gives the children to init, and release and         *)
(* freeing: they change the tree but not that it is one.                 *)
LEMMA TtExit ==
  ASSUME TtTree, NEW t \in Task, T!do_exit(t) \/ T!release_task(t) \/ T!free_task(t)
  PROVE  TtTree'
<1>1. CASE T!do_exit(t)
  <2> DEFINE orphans == Range(children[t])
  <2>1. /\ t # init /\ tt_state[t] = "alive" /\ tt_state' = [tt_state EXCEPT ![t] = "zombie"]
        /\ children' = [children EXCEPT ![t] = <<>>, ![init] = children[init] \o children[t]]
        /\ real_parent' = [u \in Task |-> IF u \in orphans THEN init ELSE real_parent[u]]
    BY <1>1, SameRange DEF T!do_exit
  <2>2. children[t] \in Seq(Task) /\ children[init] \in Seq(Task) /\ init \in Task
    BY TreeAssumption DEF TtTree
  <2>3. /\ children[init] \o children[t] \in Seq(Task)
        /\ Range(children[init] \o children[t]) = Range(children[init]) \cup orphans
    BY <2>2, ConcatLists
  <2>4. /\ children'[t] = <<>> /\ children'[init] = children[init] \o children[t]
        /\ \A q \in Task \ {t, init} : children'[q] = children[q]
    BY <2>1, <2>2 DEF TtTree
  <2>5. /\ tt_state' \in [Task -> TaskStates] /\ real_parent' \in [Task -> Task]
        /\ tt_state'[init] = "alive"
    BY <2>1, <2>2 DEF TtTree, TaskStates
  <2>6. children' \in [Task -> Seq(Task)]
    <3>1. children' = [q \in Task |-> children'[q]]
      BY <2>1 DEF TtTree
    <3>2. <<>> \in Seq(Task)
      OBVIOUS
    <3>3. ASSUME NEW q \in Task PROVE children'[q] \in Seq(Task)
      BY <2>3, <2>4, <3>2 DEF TtTree
    <3> QED BY <3>1, <3>3
  <2>7. Range(children'[t]) = {}
    BY <2>4 DEF Range
  <2>8. ASSUME NEW q \in Task, NEW d \in Range(children'[q])
        PROVE  d # init /\ tt_state'[d] # "unborn"
    <3>1. children'[q] \in Seq(Task)
      BY <2>6
    <3>2. d \in Task
      BY <3>1, ListElements
    <3>3. \E r \in Task : d \in Range(children[r])
      BY <2>2, <2>3, <2>4, <2>7
    <3> QED BY <2>1, <3>2, <3>3 DEF TtTree
  <2>9. ASSUME NEW u \in Task \ {init}, tt_state'[u] \in {"alive", "zombie"}
        PROVE  u \in Range(children'[real_parent'[u]])
    <3>1. u \in Range(children[real_parent[u]]) /\ real_parent[u] \in Task
      BY <2>1, <2>9 DEF TtTree
    <3>2. CASE u \in orphans
      BY <2>1, <2>3, <2>4, <3>2
    <3>3. CASE u \notin orphans
      <4>1. real_parent'[u] = real_parent[u] /\ real_parent[u] # t
        BY <2>1, <3>1, <3>3
      <4> QED BY <2>3, <2>4, <3>1, <4>1
    <3> QED BY <3>2, <3>3
  <2> QED BY <2>5, <2>6, <2>8, <2>9 DEF TtTree
<1>2. CASE T!release_task(t)
  <2> DEFINE p == real_parent[t]
             k == T!Place(children[p], t)
             rest == RemoveAt(children[p], k)
  <2>1. /\ tt_state[t] = "zombie" /\ tt_state' = [tt_state EXCEPT ![t] = "released"]
        /\ children' = [children EXCEPT ![p] = rest]
        /\ real_parent' = real_parent
    BY <1>2 DEF T!release_task, T!RemoveAt, RemoveAt
  <2>2. p \in Task /\ children[p] \in Seq(Task) /\ t \in Range(children[p])
    BY <2>1, TreeAssumption DEF TtTree
  <2>3. k \in 1..Len(children[p]) /\ children[p][k] = t
    BY <2>2, PlaceInList
  <2> HIDE DEF k
  <2>4. /\ rest \in Seq(Task) /\ Range(rest) \subseteq Range(children[p])
        /\ Range(children[p]) \subseteq Range(rest) \cup {t}
    BY <2>2, <2>3, RemoveFromList
  <2> HIDE DEF rest
  <2>5. children'[p] = rest /\ \A q \in Task \ {p} : children'[q] = children[q]
    BY <2>1, <2>2 DEF TtTree
  <2>6. /\ tt_state' \in [Task -> TaskStates] /\ children' \in [Task -> Seq(Task)]
        /\ tt_state'[init] = "alive"
    BY <2>1, <2>4, TreeAssumption DEF TtTree, TaskStates
  <2>7. ASSUME NEW q \in Task, NEW d \in Range(children'[q])
        PROVE  d # init /\ tt_state'[d] # "unborn"
    <3>1. d \in Range(children[q])
      BY <2>4, <2>5
    <3>2. children[q] \in Seq(Task)
      BY DEF TtTree
    <3>3. d \in Task
      BY <3>1, <3>2, ListElements
    <3> QED BY <2>1, <3>1, <3>3 DEF TtTree
  <2>8. ASSUME NEW u \in Task \ {init}, tt_state'[u] \in {"alive", "zombie"}
        PROVE  u \in Range(children'[real_parent'[u]])
    <3>1. u # t /\ real_parent[u] \in Task /\ u \in Range(children[real_parent[u]])
      BY <2>1, <2>8 DEF TtTree
    <3> QED BY <2>1, <2>4, <2>5, <3>1
  <2> QED BY <2>1, <2>6, <2>7, <2>8 DEF TtTree
<1>3. CASE T!free_task(t)
  <2>1. /\ tt_state[t] = "released" /\ tt_state' = [tt_state EXCEPT ![t] = "freed"]
        /\ UNCHANGED <<children, real_parent>>
    BY <1>3 DEF T!free_task
  <2>2. ASSUME NEW q \in Task, NEW d \in Range(children[q]) PROVE d \in Task
    <3>1. children[q] \in Seq(Task)
      BY DEF TtTree
    <3> QED BY <2>2, <3>1, ListElements
  <2> QED BY <2>1, <2>2, TreeAssumption DEF TtTree, TaskStates
<1> QED BY <1>1, <1>2, <1>3

(* Nothing that the rest of the system does frees a task that the walk   *)
(* refers to, or takes away the ground for its cursor.                   *)
LEMMA TtWalkKept ==
  ASSUME TtTree, TtWalk, NEW t \in Task,
         T!fork(t) \/ T!do_exit(t) \/ T!release_task(t) \/ T!free_task(t)
  PROVE  TtWalk'
<1>1. UNCHANGED <<tt_pc, queue, task, list, refs>>
  BY DEF T!fork, T!do_exit, T!release_task, T!free_task, T!walk
<1>2. ASSUME NEW u \in Task
      PROVE  /\ tt_state[u] # "unborn" => tt_state'[u] # "unborn"
             /\ tt_state'[u] = "freed" => tt_state[u] = "freed" \/ refs[u] = 0
  <2>1. CASE T!fork(t)
    <3>1. PICK c \in Task : tt_state[c] = "unborn" /\ tt_state' = [tt_state EXCEPT ![c] = "alive"]
      BY <2>1, TtFork
    <3> QED BY <3>1 DEF TtTree
  <2>2. CASE T!do_exit(t)
    BY <2>2 DEF T!do_exit, TtTree
  <2>3. CASE T!release_task(t)
    BY <2>3 DEF T!release_task, TtTree
  <2>4. CASE T!free_task(t)
    BY <2>4 DEF T!free_task, TtTree
  <2> QED BY <2>1, <2>2, <2>3, <2>4
<1>3. list.of \in Task
  BY DEF TtWalk, Nodes
<1> QED BY <1>1, <1>2, <1>3 DEF TtWalk, OnList, Walking

(* Each step of bfs_dfs() keeps the references in step with the queue:   *)
(* queueing a child takes one, and being done with a task puts one.      *)
LEMMA TtWalkStep == ASSUME TtTree, TtWalk, T!Walk PROVE TtWalk'
<1>1. /\ queue \in Seq(Task) /\ list \in Nodes /\ list.of \in Task /\ task \in Task
      /\ refs \in [Task -> Int]
  BY DEF TtWalk, Nodes
<1>2. UNCHANGED <<tt_state, children, real_parent>>
  BY DEF T!Walk, T!TakeTask, T!QueueChild, T!Advance, T!FinishTask, T!WalkDone, T!BadAccess,
         T!kernel
<1>3. \A t \in Task : Cardinality(Slots(queue, t)) \in Nat
  BY <1>1, CountAppend
<1>4. CASE T!TakeTask
  <2> DEFINE h == Head(queue)
             rest == Tail(queue)
  <2>1. /\ h \in Task /\ rest \in Seq(Task) /\ queue = <<h>> \o rest
    BY <1>1, <1>4 DEF T!TakeTask
  <2>2. /\ tt_pc = "take" /\ tt_pc' = "child" /\ task' = h /\ queue' = rest /\ refs' = refs
        /\ list' = T!next(T!head(h))
    BY <1>4 DEF T!TakeTask
  <2> HIDE DEF h, rest
  <2>3. list' \in Nodes /\ OnList(list')
    BY <2>1, <2>2, NextNode DEF T!head, Nodes, OnList
  <2>4. ASSUME NEW t \in Task
        PROVE  refs[t] = Cardinality(Slots(rest, t)) + (IF h = t THEN 1 ELSE 0)
    <3>1. refs[t] = Cardinality(Slots(queue, t)) + 0
      BY <2>2 DEF TtWalk, Walking
    <3>2. Cardinality(Slots(queue, t)) = Cardinality(Slots(rest, t)) + (IF h = t THEN 1 ELSE 0)
      BY <2>1, CountCons
    <3> QED BY <1>3, <3>1, <3>2
  <2> QED BY <1>2, <2>1, <2>2, <2>3, <2>4 DEF TtWalk, Walking, OnList
<1>5. CASE T!QueueChild
  <2> DEFINE x == list.of
  <2>1. /\ tt_pc = "child" /\ list.field = "sibling" /\ tt_state[x] # "freed"
        /\ refs' = [refs EXCEPT ![x] = refs[x] + 1]
        /\ UNCHANGED <<task, list>>
    BY <1>5 DEF T!QueueChild, T!get_task_struct
  <2>2. \A t \in Task : refs[t] \in Nat
    <3> SUFFICES ASSUME NEW t \in Task PROVE refs[t] \in Nat
      OBVIOUS
    <3>1. refs[t] = Cardinality(Slots(queue, t)) + (IF task = t THEN 1 ELSE 0)
      BY <2>1 DEF TtWalk, Walking
    <3> QED BY <1>3, <3>1
  <2>3. /\ refs' \in [Task -> Int] /\ refs'[x] > 0
        /\ \A t \in Task : refs'[t] > 0 => tt_state[t] # "freed"
    BY <1>1, <2>1, <2>2 DEF TtWalk
  <2>4. CASE tt_pc' = "nomem" /\ queue' = <<>>
    BY <1>1, <1>2, <2>1, <2>3, <2>4 DEF TtWalk, Walking, OnList
  <2>5. CASE tt_pc' = "advance" /\ queue' = Append(queue, x)
    <3>1. queue' \in Seq(Task)
      BY <1>1, <2>5, AppendToList
    <3>2. ASSUME NEW t \in Task
          PROVE  Cardinality(Slots(queue', t)) =
                   Cardinality(Slots(queue, t)) + (IF x = t THEN 1 ELSE 0)
      BY <1>1, <2>5, CountAppend
    <3>3. ASSUME NEW t \in Task
          PROVE  refs'[t] = Cardinality(Slots(queue', t)) + (IF task = t THEN 1 ELSE 0)
      BY <1>1, <1>3, <2>1, <2>2, <3>2 DEF TtWalk, Walking
    <3> QED BY <1>1, <1>2, <2>1, <2>3, <2>5, <3>1, <3>3 DEF TtWalk, Walking, OnList
  <2>6. CASE tt_pc' = "advance" /\ queue' = <<x>> \o queue
    <3>1. queue' \in Seq(Task)
      BY <1>1, <2>6
    <3>2. ASSUME NEW t \in Task
          PROVE  Cardinality(Slots(queue', t)) =
                   Cardinality(Slots(queue, t)) + (IF x = t THEN 1 ELSE 0)
      BY <1>1, <2>6, CountCons
    <3>3. ASSUME NEW t \in Task
          PROVE  refs'[t] = Cardinality(Slots(queue', t)) + (IF task = t THEN 1 ELSE 0)
      BY <1>1, <1>3, <2>1, <2>2, <3>2 DEF TtWalk, Walking
    <3> QED BY <1>1, <1>2, <2>1, <2>3, <2>6, <3>1, <3>3 DEF TtWalk, Walking, OnList
  <2> QED BY <1>5, <2>4, <2>5, <2>6 DEF T!QueueChild
<1>6. CASE T!Advance
  <2>1. /\ tt_pc = "advance" /\ tt_pc' = "child" /\ list' = T!next(list)
        /\ UNCHANGED <<queue, task, refs>>
    BY <1>6 DEF T!Advance
  <2>2. tt_state[list.of] # "freed" /\ OnList(list)
    BY <1>1, <2>1 DEF TtWalk
  <2>3. T!next(list) \in Nodes /\ OnList(T!next(list))
    BY <1>1, <2>2, NextNode
  <2>4. list' \in Nodes /\ OnList(list)'
    BY <1>2, <2>1, <2>3 DEF OnList
  <2> QED BY <1>2, <2>1, <2>4 DEF TtWalk, Walking
<1>7. CASE T!FinishTask
  <2>1. /\ tt_pc = "child" /\ tt_pc' = "take"
        /\ refs' = [refs EXCEPT ![task] = refs[task] - 1]
        /\ UNCHANGED <<queue, task, list>>
    BY <1>7 DEF T!FinishTask
  <2>2. ASSUME NEW t \in Task
        PROVE  refs'[t] = Cardinality(Slots(queue, t)) /\ refs'[t] <= refs[t]
    BY <1>1, <1>3, <2>1 DEF TtWalk, Walking
  <2>3. refs' \in [Task -> Int]
    BY <1>1, <2>1
  <2> QED BY <1>1, <1>2, <1>3, <2>1, <2>2, <2>3 DEF TtWalk, Walking, OnList
<1>8. CASE T!WalkDone \/ T!BadAccess
  <2>1. tt_pc' \in {"done", "bad"} /\ UNCHANGED <<queue, task, list, refs>>
    BY <1>8 DEF T!WalkDone, T!BadAccess
  <2> QED BY <1>1, <1>2, <2>1 DEF TtWalk, Walking, OnList
<1> QED BY <1>4, <1>5, <1>6, <1>7, <1>8 DEF T!Walk

(* On a list that has nobody twice, the place of an element is where it  *)
(* is.                                                                   *)
LEMMA PlaceInInjective ==
  ASSUME NEW A, NEW l \in Seq(A), IsInjective(l)
  PROVE  \A k \in 1..Len(l) : T!Place(l, l[k]) = k
<1> SUFFICES ASSUME NEW k \in 1..Len(l) PROVE T!Place(l, l[k]) = k
  OBVIOUS
<1>1. l[k] \in Range(l)
  BY ListElements
<1>2. T!Place(l, l[k]) \in 1..Len(l) /\ l[T!Place(l, l[k])] = l[k]
  BY <1>1, PlaceInList
<1> QED BY <1>2, ListElements

(* What the tree is as long as nobody exits: each list has nobody twice, *)
(* a task is on the list of its parent only, and each has its place.     *)
TtForest ==
  /\ \A t \in Task : tt_state[t] \in {"unborn", "alive"}
  /\ \A p \in Task : /\ IsInjective(children[p])
                     /\ \A c \in Range(children[p]) : real_parent[c] = p
  /\ tt_state[root] = "alive" /\ real_parent[root] = init
  /\ root \in below
  /\ \A c \in below \ {root} :
       /\ c \in Task \ {init} /\ tt_state[c] = "alive"
       /\ real_parent[c] \in below
       /\ real_parent[c] = root \/ real_parent[real_parent[c]] = root

(* A part of a list that has nobody twice has nobody twice. *)
LEMMA SliceOfList ==
  ASSUME NEW A, NEW s \in Seq(A), IsInjective(s), NEW m \in 1..(Len(s) + 1), NEW n \in 0..Len(s),
         m <= n + 1
  PROVE  /\ SubSeq(s, m, n) \in Seq(A) /\ IsInjective(SubSeq(s, m, n))
         /\ Range(SubSeq(s, m, n)) = {s[j] : j \in m..n}
<1> DEFINE t == SubSeq(s, m, n)
<1>1. t \in Seq(A) /\ Len(t) = n - m + 1 /\ \A j \in 1..(n - m + 1) : t[j] = s[m + j - 1]
  BY SubSeqProperties
<1> HIDE DEF t
<1>2. ASSUME NEW x \in Range(t) PROVE x \in {s[j] : j \in m..n}
  <2>1. PICK j \in 1..(n - m + 1) : t[j] = x
    BY <1>1, <1>2, ListElements
  <2>2. m + j - 1 \in m..n /\ s[m + j - 1] = x
    BY <1>1, <2>1
  <2> QED BY <2>2
<1>3. ASSUME NEW j \in m..n PROVE s[j] \in Range(t)
  <2>1. j - m + 1 \in 1..(n - m + 1) /\ m + (j - m + 1) - 1 = j
    OBVIOUS
  <2>2. t[j - m + 1] = s[j]
    BY <1>1, <2>1
  <2> QED BY <1>1, <2>1, <2>2, ListElements
<1>4. ASSUME NEW j \in 1..Len(t), NEW k \in 1..Len(t), t[j] = t[k] PROVE j = k
  <2>1. m + j - 1 \in 1..Len(s) /\ m + k - 1 \in 1..Len(s) /\ s[m + j - 1] = s[m + k - 1]
    BY <1>1, <1>4
  <2>2. m + j - 1 = m + k - 1
    BY <2>1, ListElements
  <2> QED BY <1>1, <2>2
<1>5. IsInjective(t)
  BY <1>1, <1>4, ListElements
<1> QED BY <1>1, <1>2, <1>3, <1>5 DEF t

(* The trees that the walk may meet are trees. *)
LEMMA TtTreeInit == ASSUME T!Init PROVE TtTree /\ TtForest
<1> DEFINE Rest == Task \ {init, root}
           s == SetToSeq(Rest)
<1>1. s \in Seq(Rest) /\ IsInjective(s) /\ T!Others = s
  <2>1. IsFiniteSet(Rest)
    BY TreeAssumption, FS_Difference
  <2> QED BY <2>1, SetToSeqIsEnumeration, SameSetToSeq DEF T!Others
<1> HIDE DEF s
<1>2. PICK n \in DOMAIN s : \E k \in 0..(n - 1) :
       /\ tt_state = [t \in Task |-> IF t \in {init, root} \cup T!Range(SubSeq(s, 1, n))
                                     THEN "alive" ELSE "unborn"]
       /\ children = [t \in Task |-> CASE t = init -> <<root>>
                                       [] t = root -> SubSeq(s, 1, n - k)
                                       [] t = s[1] -> SubSeq(s, n - k + 1, n)
                                       [] OTHER -> <<>>]
  BY <1>1 DEF T!Init
<1>3. PICK k \in 0..(n - 1) :
       /\ tt_state = [t \in Task |-> IF t \in {init, root} \cup T!Range(SubSeq(s, 1, n))
                                     THEN "alive" ELSE "unborn"]
       /\ children = [t \in Task |-> CASE t = init -> <<root>>
                                       [] t = root -> SubSeq(s, 1, n - k)
                                       [] t = s[1] -> SubSeq(s, n - k + 1, n)
                                       [] OTHER -> <<>>]
  BY <1>2
<1> DEFINE first == s[1]
           b == SubSeq(s, 1, n - k)
           c == SubSeq(s, n - k + 1, n)
           B == {s[j] : j \in 1..(n - k)}
           D == {s[j] : j \in (n - k + 1)..n}
<1>4. /\ n \in 1..Len(s) /\ n - k \in 1..n /\ n - k + 1 \in 1..(Len(s) + 1) /\ Len(s) \in Nat
      /\ \A j \in 1..Len(s) : s[j] \in Rest
      /\ \A j1, j2 \in 1..Len(s) : s[j1] = s[j2] => j1 = j2
  BY <1>1, <1>2, <1>3, ListElements
<1>5. /\ B \cup D = {s[j] : j \in 1..n} /\ B \cap D = {} /\ first \in B
      /\ B \subseteq Rest /\ D \subseteq Rest
  <2>1. \A j \in 1..n : j \in 1..(n - k) \/ j \in (n - k + 1)..n
    BY <1>4
  <2>2. /\ 1..(n - k) \subseteq 1..n /\ (n - k + 1)..n \subseteq 1..n /\ 1..n \subseteq 1..Len(s)
        /\ 1 \in 1..(n - k)
    BY <1>4
  <2>3. \A i1 \in 1..(n - k), i2 \in (n - k + 1)..n : i1 # i2
    BY <1>4
  <2>4. B \cup D = {s[j] : j \in 1..n}
    BY <2>1, <2>2
  <2>5. B \cap D = {}
    <3> SUFFICES ASSUME NEW i1 \in 1..(n - k), NEW i2 \in (n - k + 1)..n, s[i1] = s[i2]
                 PROVE  FALSE
      OBVIOUS
    <3>1. i1 \in 1..Len(s) /\ i2 \in 1..Len(s) /\ i1 # i2
      BY <2>2, <2>3
    <3> QED BY <1>4, <3>1
  <2>6. first \in B /\ B \subseteq Rest /\ D \subseteq Rest
    BY <1>4, <2>2
  <2> QED BY <2>4, <2>5, <2>6
<1>6. /\ b \in Seq(Task) /\ Range(b) = B /\ IsInjective(b)
      /\ c \in Seq(Task) /\ Range(c) = D /\ IsInjective(c)
      /\ Range(SubSeq(s, 1, n)) = B \cup D
  <2>1. s \in Seq(Task) /\ IsInjective(s)
    BY <1>1
  <2>2. ASSUME NEW m \in 1..(Len(s) + 1), NEW l \in 0..Len(s), m <= l + 1
        PROVE  /\ SubSeq(s, m, l) \in Seq(Task) /\ IsInjective(SubSeq(s, m, l))
               /\ Range(SubSeq(s, m, l)) = {s[j] : j \in m..l}
    BY <2>1, <2>2, SliceOfList
  <2>3. b \in Seq(Task) /\ Range(b) = B /\ IsInjective(b)
    <3>1. 1 \in 1..(Len(s) + 1) /\ n - k \in 0..Len(s) /\ 1 <= n - k + 1
      BY <1>4
    <3> QED BY <2>2, <3>1
  <2>4. c \in Seq(Task) /\ Range(c) = D /\ IsInjective(c)
    <3>1. n - k + 1 \in 1..(Len(s) + 1) /\ n \in 0..Len(s) /\ n - k + 1 <= n + 1
      BY <1>4
    <3> QED BY <2>2, <3>1
  <2>5. Range(SubSeq(s, 1, n)) = {s[j] : j \in 1..n}
    <3>1. 1 \in 1..(Len(s) + 1) /\ n \in 0..Len(s) /\ 1 <= n + 1
      BY <1>4
    <3> QED BY <2>2, <3>1
  <2> QED BY <1>5, <2>3, <2>4, <2>5
<1>7. init \in Task /\ root \in Task /\ init # root /\ first \in Rest
  BY <1>5, TreeAssumption
<1>8. /\ children = [t \in Task |-> CASE t = init -> <<root>> [] t = root -> b
                                      [] t = first -> c [] OTHER -> <<>>]
      /\ tt_state = [t \in Task |-> IF t \in {init, root} \cup B \cup D
                                    THEN "alive" ELSE "unborn"]
  <2>1. T!Range(SubSeq(s, 1, n)) = B \cup D
    BY <1>6, SameRange
  <2> QED BY <1>3, <2>1
<1> HIDE DEF b, c, B, D, first
<1>9. /\ children[init] = <<root>> /\ children[root] = b /\ children[first] = c
      /\ \A t \in Task \ {init, root, first} : children[t] = <<>>
  BY <1>7, <1>8
<1>10. /\ Range(children[init]) = {root} /\ Range(children[root]) = B
       /\ Range(children[first]) = D
       /\ \A t \in Task \ {init, root, first} : Range(children[t]) = {}
  <2>1. Range(<<root>>) = {root} /\ Range(<<>>) = {}
    BY DEF Range
  <2> QED BY <1>6, <1>9, <2>1
<1>11. \A t \in Task : children[t] \in Seq(Task) /\ IsInjective(children[t])
  <2>1. IsInjective(<<root>>) /\ IsInjective(<<>>) /\ <<root>> \in Seq(Task) /\ <<>> \in Seq(Task)
    BY <1>7 DEF IsInjective
  <2> QED BY <1>6, <1>9, <2>1
<1>12. ASSUME NEW p \in Task, NEW x \in Range(children[p])
       PROVE  /\ (x = root /\ p = init) \/ (x \in B /\ p = root) \/ (x \in D /\ p = first)
              /\ x \in Task /\ x # init /\ tt_state[x] = "alive"
  <2>1. (x = root /\ p = init) \/ (x \in B /\ p = root) \/ (x \in D /\ p = first)
    BY <1>10, <1>12
  <2> QED BY <1>5, <1>7, <1>8, <2>1
<1>13. /\ real_parent = [t \in Task |-> real_parent[t]]
       /\ real_parent[init] = init /\ real_parent[root] = init
       /\ \A t \in Rest : real_parent[t] =
            IF \E p \in Task : t \in Range(children[p])
            THEN CHOOSE p \in Task : t \in Range(children[p]) ELSE init
  BY <1>7 DEF T!Init, T!Range, Range
<1>14. ASSUME NEW p \in Task, NEW x \in Range(children[p])
       PROVE  real_parent[x] = p
  <2>1. CASE x = root
    BY <1>5, <1>7, <1>12, <1>13, <2>1
  <2>2. CASE x # root
    <3>1. x \in Rest
      BY <1>12, <2>2
    <3>2. real_parent[x] = CHOOSE q \in Task : x \in Range(children[q])
      BY <1>13, <1>14, <3>1
    <3>3. real_parent[x] \in Task /\ x \in Range(children[real_parent[x]])
      BY <1>14, <3>2
    <3>4. \/ x = root /\ real_parent[x] = init
          \/ x \in B /\ real_parent[x] = root
          \/ x \in D /\ real_parent[x] = first
      BY <1>12, <3>3
    <3> QED BY <1>5, <1>12, <2>2, <3>4
  <2> QED BY <2>1, <2>2
<1>15. /\ real_parent[root] = init /\ root \in Range(children[init])
       /\ \A t \in B : t \in Range(children[root]) /\ real_parent[t] = root
       /\ \A t \in D : t \in Range(children[first]) /\ real_parent[t] = first
  BY <1>7, <1>10, <1>14
<1>16. TtTree
  <2>1. tt_state \in [Task -> TaskStates] /\ tt_state[init] = "alive"
    BY <1>7, <1>8 DEF TaskStates
  <2>2. children \in [Task -> Seq(Task)]
    BY <1>8, <1>11
  <2>3. real_parent \in [Task -> Task]
    <3>1. ASSUME NEW t \in Task PROVE real_parent[t] \in Task
      BY <1>7, <1>13
    <3> QED BY <1>13, <3>1
  <2>4. ASSUME NEW t \in Task \ {init}, tt_state[t] \in {"alive", "zombie"}
        PROVE  t \in Range(children[real_parent[t]])
    BY <1>8, <1>15, <2>4
  <2> QED BY <1>12, <2>1, <2>2, <2>3, <2>4 DEF TtTree
<1>17. below = {root} \cup B \cup D
  <2> DEFINE Down(M) == M \cup UNION {Range(children[u]) : u \in M}
             all == {root} \cup B \cup D
  <2>1. below = Down(Down(Down({root})))
    BY DEF T!Init, T!Below, T!Range, Range
  <2>2. Down({root}) = {root} \cup B
    BY <1>10
  <2>3. ASSUME NEW M \in SUBSET all, first \in M, root \in M PROVE Down(M) = all
    <3>1. all \subseteq Down(M)
      BY <1>10, <2>3
    <3>2. ASSUME NEW x \in Down(M) PROVE x \in all
      <4>1. CASE x \in M
        BY <4>1
      <4>2. ASSUME NEW u \in M, x \in Range(children[u]) PROVE x \in all
        <5>1. u \in Task /\ u # init
          BY <1>5, <1>7
        <5>2. x \in B \/ x \in D
          BY <1>12, <4>2, <5>1
        <5> QED BY <5>2
      <4> QED BY <4>1, <4>2
    <3> QED BY <3>1, <3>2
  <2>4. Down(Down({root})) = all
    BY <1>5, <2>2, <2>3
  <2>5. Down(all) = all
    BY <1>5, <2>3
  <2> QED BY <2>1, <2>4, <2>5
<1>18. TtForest
  <2>1. ASSUME NEW x \in below \ {root}
        PROVE  /\ x \in Task \ {init} /\ tt_state[x] = "alive"
               /\ real_parent[x] \in below
               /\ real_parent[x] = root \/ real_parent[real_parent[x]] = root
    BY <1>5, <1>8, <1>15, <1>17
  <2> QED BY <1>7, <1>8, <1>11, <1>14, <1>15, <1>17, <2>1 DEF TtForest
<1> QED BY <1>16, <1>18
-------------------------------------------------------------------------------
(* Taking the head off the queue leaves the others. *)
LEMMA TailOfList ==
  ASSUME NEW A, NEW s \in Seq(A), s # <<>>, IsInjective(s)
  PROVE  /\ Tail(s) \in Seq(A) /\ IsInjective(Tail(s))
         /\ Head(s) \in A /\ Head(s) \notin Range(Tail(s))
         /\ Range(s) = {Head(s)} \cup Range(Tail(s))
<1>1. /\ Len(s) \in 0..Len(s) /\ 2 \in 1..(Len(s) + 1) /\ 2 <= Len(s) + 1 /\ 1 \in 1..Len(s)
      /\ Head(s) = s[1]
  OBVIOUS
<1>2. Tail(s) = SubSeq(s, 2, Len(s))
  BY TailIsSubSeq
<1>3. /\ Tail(s) \in Seq(A) /\ IsInjective(Tail(s))
      /\ Range(Tail(s)) = {s[j] : j \in 2..Len(s)}
  <2> DEFINE n == Len(s)
  <2>1. n \in 0..Len(s) /\ 2 <= n + 1
    BY <1>1
  <2> HIDE DEF n
  <2>2. /\ SubSeq(s, 2, n) \in Seq(A) /\ IsInjective(SubSeq(s, 2, n))
        /\ Range(SubSeq(s, 2, n)) = {s[j] : j \in 2..n}
    BY <1>1, <2>1, SliceOfList
  <2> QED BY <1>2, <2>2 DEF n
<1>4. /\ Range(s) = {s[j] : j \in 1..Len(s)}
      /\ \A j, k \in 1..Len(s) : s[j] = s[k] => j = k
  BY DEF Range, IsInjective
<1>5. \A j \in 1..Len(s) : j = 1 \/ j \in 2..Len(s)
  OBVIOUS
<1>6. 2..Len(s) \subseteq 1..Len(s) /\ \A j \in 2..Len(s) : j # 1
  OBVIOUS
<1>7. Head(s) \in A
  OBVIOUS
<1> QED BY <1>1, <1>3, <1>4, <1>5, <1>6, <1>7

(* A child added at the tail of a list leaves the places of the others. *)
LEMMA PlaceAfterAppend ==
  ASSUME NEW A, NEW l \in Seq(A), IsInjective(l), NEW e \in A, e \notin Range(l),
         NEW t \in Range(l)
  PROVE  T!Place(Append(l, e), t) = T!Place(l, t)
<1> DEFINE k == T!Place(l, t)
           m == Append(l, e)
<1>1. k \in 1..Len(l) /\ l[k] = t
  BY PlaceInList
<1>2. m \in Seq(A) /\ IsInjective(m) /\ Len(m) = Len(l) + 1 /\ m[k] = l[k]
  BY <1>1, AppendToList, AppendProperties
<1> HIDE DEF k, m
<1>3. k \in 1..Len(m)
  BY <1>1, <1>2
<1>4. T!Place(m, m[k]) = k
  BY <1>2, <1>3, PlaceInInjective
<1> QED BY <1>1, <1>2, <1>4 DEF k, m

(* The tasks that are on the queue or are printed already. *)
Seen == Range(queue) \cup Range(tt_printed)

(* The walk goes through the children of a task. *)
AtChildren == tt_pc \in {"child", "advance"}

(* The cursor has still to get to child c of the task. *)
Ahead(c) ==
  /\ list.field = "sibling"
  /\ IF tt_pc = "child" THEN T!Place(children[task], list.of) <= T!Place(children[task], c)
                        ELSE T!Place(children[task], list.of) < T!Place(children[task], c)

(* As long as nobody exits, the cursor is on the list of the task whose  *)
(* children are gone through, the children it has still to come to are   *)
(* unseen, and those of the first tree are seen or ahead of it.          *)
TtCursor ==
  /\ task \in Range(tt_printed)
  /\ list.field = "children" => list.of = task
  /\ list.field = "sibling" => list.of \in Range(children[task])
  /\ \A c \in Range(children[task]) : /\ c \in Seen => ~Ahead(c)
                                      /\ c \in below => c \in Seen \/ Ahead(c)

(* As long as nobody exits, nobody is queued twice or again after being  *)
(* printed; whoever is seen hangs off a printed task; and of those who   *)
(* were there when the walk began the children of every printed task are *)
(* seen, but for those of the current one.                               *)
TtSeen ==
  /\ IsInjective(queue) /\ Range(queue) \cap Range(tt_printed) = {}
  /\ root \in Seen /\ init \notin Seen
  /\ \A t \in Seen : tt_state[t] = "alive"
  /\ \A c \in Seen \ {root} : real_parent[c] \in Range(tt_printed)
  /\ AtChildren => TtCursor
  /\ \A c \in below \ {root} : real_parent[c] \in Range(tt_printed) =>
       c \in Seen \/ (AtChildren /\ real_parent[c] = task)
  /\ tt_pc = "done" => queue = <<>>

(* All that holds as long as nobody exits. *)
TtQuiet ==
  /\ TtForest
  /\ tt_pc # "bad"
  /\ tt_printed \in Seq(Task) /\ IsInjective(tt_printed)
  /\ tt_pc # "nomem" => TtSeen

(* The inductive invariant of the walk of the living tree. *)
TtInv == TtTree /\ TtWalk /\ (quiet => TtQuiet)

(* fork() does the walk no harm: the child is added at the end of a      *)
(* list, ahead of the cursor if it is the list that the cursor is on,    *)
(* and moves nobody else.                                                *)
LEMMA TtQuietFork ==
  ASSUME TtTree, TtWalk, TtQuiet, NEW p \in Task, T!fork(p)
  PROVE  TtQuiet'
<1>1. PICK c \in Task :
        /\ tt_state[c] = "unborn" /\ tt_state[p] = "alive"
        /\ tt_state' = [tt_state EXCEPT ![c] = "alive"]
        /\ children' = [children EXCEPT ![p] = Append(children[p], c)]
        /\ real_parent' = [real_parent EXCEPT ![c] = p]
        /\ Range(children'[p]) = Range(children[p]) \cup {c}
        /\ TtTree'
  BY TtFork
<1>2. UNCHANGED <<tt_pc, queue, task, list, tt_printed, below>>
  BY DEF T!fork, T!walk
<1>3. /\ children \in [Task -> Seq(Task)] /\ real_parent \in [Task -> Task]
      /\ tt_state \in [Task -> TaskStates]
  BY DEF TtTree
<1>4. /\ \A q \in Task \ {p} : children'[q] = children[q]
      /\ children'[p] = Append(children[p], c) /\ children[p] \in Seq(Task)
      /\ \A t \in Task \ {c} : real_parent'[t] = real_parent[t] /\ tt_state'[t] = tt_state[t]
      /\ real_parent'[c] = p /\ tt_state'[c] = "alive"
  BY <1>1, <1>3
<1>5. \A q \in Task : c \notin Range(children[q]) /\ Range(children[q]) \subseteq Task
  <2> SUFFICES ASSUME NEW q \in Task
               PROVE  c \notin Range(children[q]) /\ Range(children[q]) \subseteq Task
    OBVIOUS
  <2>1. children[q] \in Seq(Task)
    BY <1>3
  <2> QED BY <1>1, <2>1, ListElements DEF TtTree
<1>6. c \notin below /\ c # root
  BY <1>1 DEF TtQuiet, TtForest
<1>7. IsInjective(children'[p])
  <2>1. IsInjective(children[p])
    BY DEF TtQuiet, TtForest
  <2> QED BY <1>4, <1>5, <2>1, AppendToList
<1>8. TtForest'
  <2>1. \A t \in Task : tt_state'[t] \in {"unborn", "alive"}
    BY <1>4 DEF TtQuiet, TtForest
  <2>2. ASSUME NEW q \in Task
        PROVE  /\ IsInjective(children'[q])
               /\ \A d \in Range(children'[q]) : real_parent'[d] = q
    <3>1. CASE q = p
      BY <1>1, <1>4, <1>5, <1>7, <3>1 DEF TtQuiet, TtForest
    <3>2. CASE q # p
      BY <1>4, <1>5, <3>2 DEF TtQuiet, TtForest
    <3> QED BY <3>1, <3>2
  <2>3. root \in Task /\ tt_state'[root] = "alive" /\ real_parent'[root] = init
    BY <1>4, <1>6, TreeAssumption DEF TtQuiet, TtForest
  <2>4. ASSUME NEW d \in below \ {root}
        PROVE  /\ d \in Task \ {init} /\ tt_state'[d] = "alive"
               /\ real_parent'[d] \in below
               /\ real_parent'[d] = root \/ real_parent'[real_parent'[d]] = root
    <3>1. /\ d \in Task \ {init} /\ d # c /\ tt_state[d] = "alive" /\ real_parent[d] \in below
          /\ real_parent[d] = root \/ real_parent[real_parent[d]] = root
      BY <1>6 DEF TtQuiet, TtForest
    <3>2. real_parent'[d] = real_parent[d] /\ tt_state'[d] = "alive"
      BY <1>4, <3>1
    <3>3. real_parent[d] \in Task /\ real_parent[d] # c
      BY <1>3, <1>6, <3>1
    <3> QED BY <1>4, <3>1, <3>2, <3>3
  <2> QED BY <1>2, <2>1, <2>2, <2>3, <2>4 DEF TtQuiet, TtForest
<1>9. ASSUME tt_pc # "nomem" PROVE TtSeen'
  <2>1. TtSeen
    BY <1>9 DEF TtQuiet
  <2>2. c \notin Seen /\ Seen' = Seen
    BY <1>1, <1>2, <2>1 DEF TtSeen, Seen
  <2>3. Seen \subseteq Task
    BY ListElements DEF Seen, TtWalk, TtQuiet
  <2>4. /\ \A t \in Seen : tt_state'[t] = "alive"
        /\ \A d \in Seen \ {root} : real_parent'[d] \in Range(tt_printed)
    BY <1>4, <2>1, <2>2, <2>3 DEF TtSeen
  <2>5. \A d \in below \ {root} : real_parent'[d] \in Range(tt_printed) =>
          d \in Seen \/ (AtChildren /\ real_parent'[d] = task)
    BY <1>4, <1>6, <2>1 DEF TtSeen, TtQuiet, TtForest
  <2>6. ASSUME AtChildren PROVE TtCursor'
    <3>1. TtCursor /\ task \in Task
      BY <2>1, <2>6 DEF TtSeen, TtWalk
    <3>2. CASE task # p
      <4>1. children'[task] = children[task]
        BY <1>4, <3>1, <3>2
      <4> QED BY <1>2, <2>2, <3>1, <4>1 DEF TtCursor, Ahead
    <3>3. CASE task = p
      <4>1. IsInjective(children[p])
        BY DEF TtQuiet, TtForest
      <4>2. \A t \in Range(children[p]) : T!Place(children'[p], t) = T!Place(children[p], t)
        BY <1>1, <1>4, <1>5, <4>1, PlaceAfterAppend
      <4>3. ASSUME NEW d \in Range(children[p]) PROVE Ahead(d)' <=> Ahead(d)
        BY <1>2, <3>1, <3>3, <4>2 DEF Ahead, TtCursor
      <4> QED BY <1>1, <1>2, <1>6, <2>2, <3>1, <3>3, <4>3 DEF TtCursor
    <3> QED BY <3>2, <3>3
  <2> QED BY <1>2, <2>1, <2>2, <2>4, <2>5, <2>6 DEF TtSeen, AtChildren
<1> QED BY <1>2, <1>8, <1>9 DEF TtQuiet

(* Taking the next task off the queue prints it, and starts with all its *)
(* children ahead.                                                       *)
LEMMA TtQuietTake == ASSUME TtTree, TtWalk, TtQuiet, T!TakeTask PROVE TtQuiet'
<1> DEFINE h == Head(queue)
           rest == Tail(queue)
<1>1. /\ tt_pc = "take" /\ tt_pc' = "child" /\ queue # <<>>
      /\ task' = h /\ queue' = rest /\ tt_printed' = Append(tt_printed, h)
      /\ list' = T!next(T!head(h))
      /\ UNCHANGED <<tt_state, children, real_parent, below>>
  BY DEF T!TakeTask, T!kernel
<1>2. TtSeen /\ TtForest /\ tt_printed \in Seq(Task) /\ IsInjective(tt_printed)
  BY <1>1 DEF TtQuiet
<1>3. /\ h \in Task /\ rest \in Seq(Task) /\ IsInjective(rest) /\ h \notin Range(rest)
      /\ Range(queue) = {h} \cup Range(rest)
  BY <1>1, <1>2, TailOfList DEF TtWalk, TtSeen
<1> HIDE DEF h, rest
<1>4. h \notin Range(tt_printed) /\ h \in Seen
  BY <1>2, <1>3 DEF TtSeen, Seen
<1>5. /\ tt_printed' \in Seq(Task) /\ IsInjective(tt_printed')
      /\ Range(tt_printed') = Range(tt_printed) \cup {h}
  BY <1>1, <1>2, <1>3, <1>4, AppendToList
<1>6. Seen' = Seen
  BY <1>1, <1>3, <1>5 DEF Seen
<1>7. ASSUME NEW c \in Range(children[h]) PROVE c \notin Seen
  <2>1. real_parent[c] = h
    BY <1>2, <1>3 DEF TtForest
  <2> QED BY <1>2, <1>4, <2>1 DEF TtSeen, TtForest
<1>8. TtCursor'
  <2> DEFINE l == children[h]
  <2>1. l \in Seq(Task) /\ IsInjective(l)
    BY <1>2, <1>3 DEF TtTree, TtForest
  <2>2. CASE l = <<>>
    <3>1. list' = T!head(h) /\ Range(l) = {}
      BY <1>1, <2>2 DEF T!next, T!head, Range
    <3>2. list'.field = "children" /\ list'.of = h
      BY <3>1 DEF T!head
    <3> QED BY <1>1, <1>5, <3>1, <3>2 DEF TtCursor
  <2>3. CASE l # <<>>
    <3>1. 1 \in 1..Len(l) /\ Head(l) = l[1] /\ l[1] \in Range(l)
      BY <2>1, <2>3, ListElements
    <3>2. list' = T!sibling(l[1])
      BY <1>1, <2>3, <3>1 DEF T!next, T!head
    <3>3. list'.field = "sibling" /\ list'.of = l[1]
      BY <3>2 DEF T!sibling
    <3>4. T!Place(l, l[1]) = 1
      BY <2>1, <3>1, PlaceInInjective
    <3>5. ASSUME NEW c \in Range(l) PROVE Ahead(c)'
      <4>1. T!Place(l, c) \in 1..Len(l)
        BY <2>1, PlaceInList
      <4>2. 1 <= T!Place(l, c)
        BY <2>1, <4>1
      <4> QED BY <1>1, <3>3, <3>4, <4>2 DEF Ahead
    <3> QED BY <1>1, <1>5, <1>6, <1>7, <3>1, <3>3, <3>5 DEF TtCursor
  <2> QED BY <2>2, <2>3
<1>9. TtSeen'
  <2>1. /\ IsInjective(queue') /\ Range(queue') \cap Range(tt_printed') = {}
    BY <1>1, <1>2, <1>3, <1>5 DEF TtSeen
  <2>2. \A c \in Seen \ {root} : real_parent[c] \in Range(tt_printed')
    BY <1>2, <1>5 DEF TtSeen
  <2>3. \A c \in below \ {root} :
          real_parent[c] \in Range(tt_printed') => c \in Seen \/ real_parent[c] = h
    BY <1>1, <1>2, <1>5 DEF TtSeen, AtChildren
  <2> QED BY <1>1, <1>2, <1>6, <1>8, <2>1, <2>2, <2>3 DEF TtSeen, AtChildren
<1> QED BY <1>1, <1>2, <1>5, <1>9 DEF TtQuiet, TtForest

(* Queueing the child at the cursor, in BFS and in DFS mode. *)
LEMMA TtQuietQueue == ASSUME TtTree, TtWalk, TtQuiet, T!QueueChild PROVE TtQuiet'
<1> DEFINE x == list.of
           l == children[task]
<1>1. /\ tt_pc = "child" /\ list.field = "sibling" /\ tt_pc' \in {"advance", "nomem"}
      /\ tt_pc' = "advance" => queue' = Append(queue, x) \/ queue' = <<x>> \o queue
      /\ UNCHANGED <<tt_state, children, real_parent, below, task, list, tt_printed>>
  BY DEF T!QueueChild, T!kernel
<1>2. /\ TtSeen /\ TtForest /\ tt_printed \in Seq(Task) /\ IsInjective(tt_printed) /\ TtCursor
      /\ task \in Task /\ x \in Task /\ queue \in Seq(Task)
  BY <1>1 DEF TtQuiet, TtSeen, AtChildren, TtWalk, Nodes
<1>3. l \in Seq(Task) /\ IsInjective(l) /\ x \in Range(l) /\ real_parent[x] = task
  BY <1>1, <1>2 DEF TtTree, TtForest, TtCursor
<1> HIDE DEF x, l
<1>4. \A c \in Range(l) : T!Place(l, c) \in 1..Len(l) /\ l[T!Place(l, c)] = c
  BY <1>3, PlaceInList
<1>5. \A c \in Range(l) : Ahead(c) <=> T!Place(l, x) <= T!Place(l, c)
  BY <1>1 DEF Ahead, x, l
<1>6. x \notin Seen
  <2>1. T!Place(l, x) \in Int
    BY <1>3, <1>4
  <2>2. Ahead(x)
    BY <1>3, <1>5, <2>1
  <2> QED BY <1>2, <1>3, <2>2 DEF TtCursor, l
<1>7. ASSUME tt_pc' = "advance" PROVE TtSeen'
  <2>1. IsInjective(queue') /\ Range(queue') = Range(queue) \cup {x}
    <3>1. IsInjective(queue) /\ x \notin Range(queue)
      BY <1>2, <1>6 DEF TtSeen, Seen
    <3>2. CASE queue' = Append(queue, x)
      BY <1>2, <3>1, <3>2, AppendToList
    <3>3. CASE queue' = <<x>> \o queue
      <4>1. <<x>> \in Seq(Task) /\ IsInjective(<<x>>) /\ Range(<<x>>) = {x}
        BY <1>2 DEF IsInjective, Range
      <4> DEFINE one == <<x>>
      <4> HIDE DEF one
      <4>2. one \in Seq(Task) /\ IsInjective(one) /\ Range(one) \cap Range(queue) = {}
        BY <3>1, <4>1 DEF one
      <4>3. Range(one \o queue) = Range(one) \cup Range(queue) /\ IsInjective(one \o queue)
        BY <1>2, <3>1, <4>2, ConcatLists
      <4> QED BY <3>3, <4>1, <4>3 DEF one
    <3> QED BY <1>1, <1>7, <3>2, <3>3
  <2>2. Seen' = Seen \cup {x}
    BY <1>1, <2>1 DEF Seen
  <2>3. x # init /\ tt_state[x] = "alive"
    BY <1>1, <1>2 DEF TtWalk, OnList, TtForest, x
  <2>4. ASSUME NEW c \in Range(l)
        PROVE  /\ c \in Seen' => ~Ahead(c)'
               /\ c \in below => c \in Seen' \/ Ahead(c)'
    <3>1. Ahead(c)' <=> T!Place(l, x) < T!Place(l, c)
      BY <1>1, <1>7 DEF Ahead, x, l
    <3>2. T!Place(l, x) \in Int /\ T!Place(l, c) \in Int
      BY <1>3, <1>4
    <3>3. T!Place(l, x) = T!Place(l, c) => x = c
      BY <1>3, <1>4
    <3>4. (c \in Seen => ~Ahead(c)) /\ (c \in below => c \in Seen \/ Ahead(c))
      BY <1>2 DEF TtCursor, l
    <3> QED BY <1>5, <2>2, <3>1, <3>2, <3>3, <3>4
  <2>5. TtCursor'
    BY <1>1, <1>2, <2>4 DEF TtCursor, l
  <2>6. Range(queue') \cap Range(tt_printed') = {}
    BY <1>1, <1>2, <1>6, <2>1 DEF TtSeen, Seen
  <2>7. task \in Range(tt_printed)
    BY <1>2 DEF TtCursor
  <2>8. /\ \A t \in Seen' : tt_state[t] = "alive"
        /\ \A c \in Seen' \ {root} : real_parent[c] \in Range(tt_printed)
    BY <1>2, <1>3, <2>2, <2>3, <2>7 DEF TtSeen
  <2>9. \A c \in below \ {root} : real_parent[c] \in Range(tt_printed) =>
          c \in Seen' \/ real_parent[c] = task
    BY <1>2, <2>2 DEF TtSeen
  <2> QED BY <1>1, <1>2, <1>7, <2>1, <2>2, <2>3, <2>5, <2>6, <2>8, <2>9 DEF TtSeen, AtChildren
<1> QED BY <1>1, <1>2, <1>7 DEF TtQuiet, TtForest

(* Moving the cursor on to the next child, or to the end of the list. *)
LEMMA TtQuietAdvance == ASSUME TtTree, TtWalk, TtQuiet, T!Advance PROVE TtQuiet'
<1> DEFINE x == list.of
           l == children[task]
           k == T!Place(l, x)
<1>1. /\ tt_pc = "advance" /\ tt_pc' = "child" /\ list' = T!next(list)
      /\ UNCHANGED <<tt_state, children, real_parent, below, task, queue, tt_printed>>
  BY DEF T!Advance, T!kernel
<1>2. /\ TtSeen /\ TtForest /\ tt_printed \in Seq(Task) /\ IsInjective(tt_printed) /\ TtCursor
      /\ task \in Task /\ x \in Task /\ list.field = "sibling"
  BY <1>1 DEF TtQuiet, TtSeen, AtChildren, TtWalk, Nodes
<1>3. l \in Seq(Task) /\ IsInjective(l) /\ x \in Range(l) /\ real_parent[x] = task
  BY <1>1, <1>2 DEF TtTree, TtForest, TtCursor
<1>4. list' = IF k = Len(l) THEN T!head(task) ELSE T!sibling(l[k + 1])
  <2>1. tt_state[x] # "released"
    BY <1>2 DEF TtForest
  <2> QED BY <1>1, <1>2, <1>3, <2>1 DEF T!next
<1>5. \A c \in Range(l) : Ahead(c) <=> k < T!Place(l, c)
  BY <1>1, <1>2 DEF Ahead
<1> HIDE DEF x, k
<1>6. \A c \in Range(l) : T!Place(l, c) \in 1..Len(l)
  BY <1>3, PlaceInList
<1>7. k \in 1..Len(l) /\ Len(l) \in Nat
  BY <1>3, <1>6 DEF k
<1>8. Seen' = Seen
  BY <1>1 DEF Seen
<1>9. TtCursor'
  <2>1. CASE k = Len(l)
    <3>1. list'.field = "children" /\ list'.of = task
      BY <1>4, <2>1 DEF T!head
    <3>2. \A c \in Range(l) : ~Ahead(c)
      BY <1>5, <1>6, <1>7, <2>1
    <3> QED BY <1>1, <1>2, <1>8, <3>1, <3>2 DEF TtCursor, Ahead
  <2>2. CASE k # Len(l)
    <3>1. k + 1 \in 1..Len(l)
      BY <1>7, <2>2
    <3>2. l[k + 1] \in Range(l) /\ T!Place(l, l[k + 1]) = k + 1
      BY <1>3, <3>1, ListElements, PlaceInInjective
    <3>3. list'.field = "sibling" /\ list'.of = l[k + 1]
      BY <1>4, <2>2 DEF T!sibling
    <3>4. ASSUME NEW c \in Range(l) PROVE Ahead(c)' <=> Ahead(c)
      <4>1. Ahead(c)' <=> k + 1 <= T!Place(l, c)
        BY <1>1, <3>2, <3>3 DEF Ahead
      <4>2. T!Place(l, c) \in Int /\ k \in Int
        BY <1>6, <1>7
      <4> QED BY <1>5, <4>1, <4>2
    <3> QED BY <1>1, <1>2, <1>8, <3>2, <3>3, <3>4 DEF TtCursor
  <2> QED BY <2>1, <2>2
<1>10. TtSeen'
  BY <1>1, <1>2, <1>8, <1>9 DEF TtSeen, AtChildren
<1> QED BY <1>1, <1>2, <1>10 DEF TtQuiet, TtForest

(* The other steps of the walk: the end of a list and the end of the     *)
(* queue; and a bad access, which is out of the question.                *)
LEMMA TtQuietRest ==
  ASSUME TtTree, TtWalk, TtQuiet, T!FinishTask \/ T!WalkDone \/ T!BadAccess
  PROVE  TtQuiet'
<1>1. /\ UNCHANGED <<tt_state, children, real_parent, below, task, queue, list, tt_printed>>
      /\ tt_pc # "nomem"
  BY DEF T!FinishTask, T!WalkDone, T!BadAccess, T!kernel
<1>2. TtSeen /\ TtForest /\ tt_printed \in Seq(Task) /\ IsInjective(tt_printed) /\ task \in Task
  BY <1>1 DEF TtQuiet, TtWalk
<1>3. Seen' = Seen
  BY <1>1 DEF Seen
<1>4. CASE T!FinishTask
  <2>1. tt_pc = "child" /\ tt_pc' = "take" /\ list = T!head(task)
    BY <1>4 DEF T!FinishTask
  <2>2. TtCursor /\ list.field = "children"
    BY <1>2, <2>1 DEF TtSeen, AtChildren, T!head
  <2>3. ASSUME NEW c \in below \ {root}, real_parent[c] = task PROVE c \in Seen
    <3>1. c \in Range(children[task])
      BY <1>2, <2>3 DEF TtTree, TtForest
    <3> QED BY <2>2, <3>1 DEF TtCursor, Ahead
  <2>4. TtSeen'
    BY <1>1, <1>2, <1>3, <2>1, <2>3 DEF TtSeen, AtChildren
  <2> QED BY <1>1, <1>2, <2>1, <2>4 DEF TtQuiet, TtForest
<1>5. CASE T!WalkDone
  <2>1. tt_pc = "take" /\ tt_pc' = "done" /\ queue = <<>>
    BY <1>5 DEF T!WalkDone
  <2>2. TtSeen'
    BY <1>1, <1>2, <1>3, <2>1 DEF TtSeen, AtChildren
  <2> QED BY <1>1, <1>2, <2>1, <2>2 DEF TtQuiet, TtForest
<1>6. CASE T!BadAccess
  <2>1. list \in Nodes /\ list.of \in Task /\ queue \in Seq(Task)
    BY DEF TtWalk, Nodes
  <2>2. \A t \in Task : tt_state[t] # "freed"
    BY <1>2 DEF TtForest
  <2>3. ~(tt_pc = "take" /\ queue # <<>> /\ tt_state[real_parent[Head(queue)]] = "freed")
    <3>1. queue # <<>> => real_parent[Head(queue)] \in Task
      BY <2>1 DEF TtTree
    <3> QED BY <2>2, <3>1
  <2>4. ~(tt_pc = "child" /\ list.field = "sibling" /\ tt_state[list.of] = "freed")
    BY <2>1, <2>2
  <2>5. ~(tt_pc = "child" /\ list.field = "children" /\ list # T!head(task))
    <3> SUFFICES ASSUME tt_pc = "child", list.field = "children" PROVE list = T!head(task)
      OBVIOUS
    <3>1. list.of = task
      BY <1>2 DEF TtSeen, AtChildren, TtCursor
    <3> QED BY <2>1, <3>1 DEF Nodes, T!head
  <2> QED BY <1>6, <2>3, <2>4, <2>5 DEF T!BadAccess
<1> QED BY <1>4, <1>5, <1>6

(* The invariant holds when the walk starts. *)
LEMMA TtInit == T!Init => TtInv
<1> SUFFICES ASSUME T!Init PROVE TtInv
  OBVIOUS
<1>1. TtTree /\ TtForest
  BY TtTreeInit
<1>2. /\ tt_pc = "take" /\ queue = <<root>> /\ task = root /\ list = T!head(root)
      /\ refs = [t \in Task |-> IF t = root THEN 1 ELSE 0] /\ tt_printed = <<>>
  BY DEF T!Init
<1>3. root \in Task /\ init # root
  BY TreeAssumption
<1>4. TtWalk
  <2>1. ASSUME NEW t \in Task
        PROVE  Cardinality(Slots(queue, t)) = IF t = root THEN 1 ELSE 0
    <3>1. DOMAIN queue = {1} /\ queue[1] = root
      BY <1>2
    <3>2. Slots(queue, t) = IF t = root THEN {1} ELSE {}
      BY <3>1 DEF Slots
    <3> QED BY <3>2, FS_Singleton, FS_EmptySet
  <2>2. queue \in Seq(Task) /\ list \in Nodes /\ OnList(list) /\ refs \in [Task -> Int]
    BY <1>2, <1>3 DEF Nodes, OnList, T!head
  <2>3. \A t \in Task : refs[t] > 0 => tt_state[t] # "freed"
    BY <1>1, <1>2 DEF TtForest
  <2>4. \A t \in Task : refs[t] = Cardinality(Slots(queue, t)) + 0
    BY <1>2, <2>1
  <2> QED BY <1>2, <1>3, <2>2, <2>3, <2>4 DEF TtWalk, Walking
<1>5. TtQuiet
  <2>1. Range(queue) = {root} /\ Range(tt_printed) = {} /\ IsInjective(queue)
        /\ IsInjective(tt_printed) /\ tt_printed \in Seq(Task)
    BY <1>2 DEF Range, IsInjective
  <2>2. TtSeen
    BY <1>1, <1>2, <1>3, <2>1 DEF TtSeen, Seen, AtChildren, TtForest
  <2> QED BY <1>1, <1>2, <2>1, <2>2 DEF TtQuiet
<1> QED BY <1>1, <1>4, <1>5 DEF TtInv

(* Every step of the walk and of the system around it keeps the          *)
(* invariant.                                                            *)
LEMMA TtStep == ASSUME TtInv, [T!Next]_tt PROVE TtInv'
<1> USE DEF TtInv
<1>1. CASE T!Walk
  <2>1. UNCHANGED <<tt_state, children, real_parent, quiet>>
    BY <1>1 DEF T!Walk, T!TakeTask, T!QueueChild, T!Advance, T!FinishTask, T!WalkDone,
                T!BadAccess, T!kernel
  <2>2. TtTree'
    BY <2>1 DEF TtTree
  <2>3. TtWalk'
    BY <1>1, TtWalkStep
  <2>4. quiet => TtQuiet'
    BY <1>1, TtQuietTake, TtQuietQueue, TtQuietAdvance, TtQuietRest DEF T!Walk
  <2> QED BY <2>1, <2>2, <2>3, <2>4
<1>2. ASSUME NEW t \in Task, T!fork(t) PROVE TtInv'
  <2>1. TtTree' /\ TtWalk' /\ quiet' = quiet
    BY <1>2, TtFork, TtWalkKept DEF T!fork
  <2>2. quiet => TtQuiet'
    BY <1>2, TtQuietFork
  <2> QED BY <2>1, <2>2
<1>3. ASSUME NEW t \in Task, T!do_exit(t) \/ T!release_task(t) PROVE TtInv'
  BY <1>3, TtExit, TtWalkKept DEF T!do_exit, T!release_task
<1>4. ASSUME NEW t \in Task, T!free_task(t) PROVE TtInv'
  <2>1. TtTree' /\ TtWalk' /\ quiet' = quiet
    BY <1>4, TtExit, TtWalkKept DEF T!free_task
  <2>2. ~quiet
    BY <1>4 DEF T!free_task, TtQuiet, TtForest
  <2> QED BY <2>1, <2>2
<1>5. CASE UNCHANGED tt
  <2>1. TtTree' /\ TtWalk'
    BY <1>5 DEF tt, TtTree, TtWalk, OnList, Walking
  <2>2. TtForest' = TtForest /\ TtSeen' = TtSeen
    BY <1>5 DEF tt, TtForest, TtSeen, Seen, AtChildren, TtCursor, Ahead
  <2> QED BY <1>5, <2>1, <2>2 DEF tt, TtQuiet
<1> QED BY <1>1, <1>2, <1>3, <1>4, <1>5 DEF T!Next

(* The invariant gives what is asked of task_bfs_dfs: queued tasks are   *)
(* kept, and forks do no harm.                                           *)
LEMMA TtSafe == ASSUME TtInv PROVE T!QueuedTasksKept /\ T!ForksDoNoHarm
<1>1. T!QueuedTasksKept
  BY SameCardinality DEF TtInv, TtWalk, Walking, Slots, T!QueuedTasksKept
<1>2. ASSUME quiet PROVE tt_pc # "bad" /\ IsInjective(tt_printed)
  BY <1>2 DEF TtInv, TtQuiet
<1>3. ASSUME quiet, tt_pc = "done" PROVE below \subseteq Range(tt_printed)
  <2>1. TtSeen /\ TtForest
    BY <1>3 DEF TtInv, TtQuiet
  <2>2. Seen = Range(tt_printed)
    BY <1>3, <2>1 DEF TtSeen, Seen, Range
  <2>3. /\ root \in Range(tt_printed)
        /\ \A c \in below \ {root} :
             real_parent[c] \in Range(tt_printed) => c \in Range(tt_printed)
    BY <1>3, <2>1, <2>2 DEF TtSeen, AtChildren
  <2> QED BY <2>1, <2>3 DEF TtForest
<1> QED BY <1>1, <1>2, <1>3, SameRange, SameIsInjective DEF T!ForksDoNoHarm
-------------------------------------------------------------------------------
(* hlist_add_head_rcu(): the list has one element more, in front. *)
LEMMA PrependToList ==
  ASSUME NEW A, NEW s \in Seq(A), NEW e \in A
  PROVE  /\ <<e>> \o s \in Seq(A)
         /\ Range(<<e>> \o s) = Range(s) \cup {e}
         /\ IsInjective(s) /\ e \notin Range(s) => IsInjective(<<e>> \o s)
<1> DEFINE one == <<e>>
<1>1. one \in Seq(A) /\ IsInjective(one) /\ Range(one) = {e}
  BY DEF IsInjective, Range
<1> HIDE DEF one
<1>2. /\ one \o s \in Seq(A) /\ Range(one \o s) = {e} \cup Range(s)
      /\ IsInjective(s) /\ {e} \cap Range(s) = {} => IsInjective(one \o s)
  BY <1>1, ConcatLists
<1> QED BY <1>2 DEF one

(* hlist_del_rcu(): the list has one element less, if it had it. *)
LEMMA WithoutOne ==
  ASSUME NEW A, NEW s \in Seq(A), IsInjective(s), NEW t
  PROVE  /\ E!Without(s, t) \in Seq(A) /\ IsInjective(E!Without(s, t))
         /\ Range(E!Without(s, t)) = Range(s) \ {t}
<1>1. CASE t \in Range(s)
  <2> DEFINE k == CHOOSE k \in DOMAIN s : s[k] = t
  <2>1. k \in 1..Len(s) /\ s[k] = t
    BY <1>1 DEF Range
  <2> HIDE DEF k
  <2>2. /\ RemoveAt(s, k) \in Seq(A) /\ IsInjective(RemoveAt(s, k))
        /\ Range(RemoveAt(s, k)) = Range(s) \ {t}
    BY <2>1, RemoveFromList
  <2>3. E!Without(s, t) = RemoveAt(s, k)
    BY <1>1, SameRange DEF E!Without, E!RemoveAt, RemoveAt, k
  <2> QED BY <2>2, <2>3
<1>2. CASE t \notin Range(s)
  BY <1>2, SameRange DEF E!Without
<1> QED BY <1>1, <1>2

(* The next pointer of an element leads to one on the same list, or      *)
(* nowhere.                                                              *)
LEMMA AfterInList ==
  ASSUME NEW A, NEW s \in Seq(A), NEW t \in Range(s)
  PROVE  E!After(s, t) \in Range(s) \cup {"NULL"}
<1> DEFINE k == CHOOSE k \in DOMAIN s : s[k] = t
<1>1. k \in 1..Len(s) /\ s[k] = t
  BY DEF Range
<1>2. E!After(s, t) = IF k = Len(s) THEN "NULL" ELSE s[k + 1]
  BY DEF E!After, E!NULL
<1> HIDE DEF k
<1>3. k # Len(s) => k + 1 \in 1..Len(s)
  BY <1>1
<1>4. k # Len(s) => s[k + 1] \in Range(s)
  BY <1>3 DEF Range
<1> QED BY <1>2, <1>4

(* The first pointer of a list leads to an element of it, or nowhere. *)
LEMMA FirstInList ==
  ASSUME NEW A, NEW s \in Seq(A)
  PROVE  E!First(s) \in Range(s) \cup {"NULL"} /\ (s = <<>> => E!First(s) = "NULL")
<1>1. CASE s = <<>>
  BY <1>1 DEF E!First, E!NULL
<1>2. CASE s # <<>>
  <2>1. 1 \in 1..Len(s) /\ Head(s) = s[1]
    BY <1>2
  <2> QED BY <1>2, <2>1, ListElements DEF E!First
<1> QED BY <1>1, <1>2

(* The types of lists of a struct pid, those and the threads for which a *)
(* removed task keeps a next pointer, and that a list has tasks only     *)
(* that are alive.                                                       *)
PidTypes == {"PID", "TGID", "PGID", "SID"}
StaleTypes == PidTypes \cup {"thread"}
AllAlive(s) == \A t \in Range(s) : state[t] = "alive"

(* The kernel's lists: nobody is twice on one, whoever is on one is      *)
(* alive, and the TGID lists are of leaders.                             *)
EpLists ==
  /\ state \in [PidTask -> {"unborn", "alive", "unhashed", "freed"}]
  /\ tasks \in [PidTypes -> [PidTask -> Seq(PidTask)]]
  /\ \A ty \in PidTypes, p \in PidTask : IsInjective(tasks[ty][p]) /\ AllAlive(tasks[ty][p])
  /\ \A p \in PidTask : Range(tasks["TGID"][p]) \subseteq Leader
  /\ threads \in [Leader -> Seq(PidTask)]
  /\ \A l \in Leader : IsInjective(threads[l]) /\ AllAlive(threads[l])

(* Exactly the processes that are alive have a list of threads, with the *)
(* leader on it, and every thread is on one.                             *)
EpThreads ==
  /\ \A l \in Leader : state[l] # "alive" => threads[l] = <<>>
  /\ \A l \in Leader : state[l] = "alive" => l \in Range(threads[l])
  /\ \A t \in PidTask \ Leader :
       state[t] = "alive" => \E l \in Leader : t \in Range(threads[l])

(* What a reader may come to: somebody alive, or somebody unhashed whom  *)
(* the grace period keeps.                                               *)
Readable(x) == x = "NULL" \/ (x \in PidTask /\ (state[x] = "alive" \/ x \in grace))

(* The next pointers of those who were taken off in the read-side        *)
(* section lead to what may be read. Outside of it nobody is kept.       *)
EpStale ==
  /\ stale \in [StaleTypes -> [PidTask -> PidTask \cup {"NULL"}]]
  /\ grace \subseteq {t \in PidTask : state[t] = "unhashed"}
  /\ ~E!Reading => grace = {}
  /\ \A ty \in StaleTypes, t \in PidTask :
       /\ state[t] \in {"unborn", "alive"} => stale[ty][t] = "NULL"
       /\ t \in grace => Readable(stale[ty][t])
  /\ \A t \in PidTask : stale["TGID"][t] \in Leader \cup {"NULL"}

(* The cursors of the reader are at what may be read; for the type TGID  *)
(* the outer one is at a leader.                                         *)
EpReader ==
  /\ type \in 1..4
  /\ E!Reading => Readable(cur) /\ (type = 2 => cur \in Leader \cup {"NULL"})
  /\ pc = "thread" => Readable(thr) /\ type = 2 /\ cur # "NULL"

(* The inductive invariant of enum_pids. *)
EpInv == EpLists /\ EpThreads /\ EpStale /\ EpReader

(* The pid types, one by one. *)
LEMMA SameTypes ==
  /\ E!Types = PidTypes /\ Len(E!types) = 4
  /\ E!types[1] = "PID" /\ E!types[2] = "TGID" /\ E!types[3] = "PGID" /\ E!types[4] = "SID"
<1>1. E!types = <<"PID", "TGID", "PGID", "SID">>
  BY DEF E!types
<1>2. /\ Len(E!types) = 4 /\ DOMAIN E!types = {1, 2, 3, 4}
      /\ E!types[1] = "PID" /\ E!types[2] = "TGID" /\ E!types[3] = "PGID" /\ E!types[4] = "SID"
  BY <1>1
<1>3. E!Types = {E!types[k] : k \in {1, 2, 3, 4}}
  BY <1>2 DEF E!Types, E!Range
<1> QED BY <1>2, <1>3 DEF PidTypes

(* The invariant holds when the module is loaded. *)
LEMMA EpInit == E!Init => EpInv
<1> SUFFICES ASSUME E!Init PROVE EpInv
  OBVIOUS
<1>1. PICK B \in SUBSET Leader, D \in SUBSET (PidTask \ Leader), s \in Leader :
       /\ {s, pid} \cap Leader \subseteq B
       /\ state = [t \in PidTask |-> IF t \in B \cup D THEN "alive" ELSE "unborn"]
       /\ tasks = [ty \in E!Types |-> [p \in PidTask |->
            CASE ty = "PID"  -> IF p \in B \cup D THEN <<p>> ELSE <<>>
              [] ty = "TGID" -> IF p \in B THEN <<p>> ELSE <<>>
              [] OTHER       -> IF p = s THEN E!SetToSeq(B) ELSE <<>>]]
       /\ threads = [l \in Leader |->
            IF l \notin B THEN <<>>
            ELSE IF l = s THEN <<l>> \o E!SetToSeq(D) ELSE <<l>>]
  BY DEF E!Init
<1> DEFINE b == SetToSeq(B)
           d == SetToSeq(D)
<1>2. IsFiniteSet(B) /\ IsFiniteSet(D) /\ B \subseteq PidTask /\ D \subseteq PidTask
      /\ Leader \subseteq PidTask /\ B \cap D = {} /\ s \in B
  BY <1>1, PidAssumption, FS_Subset
<1>3. b \in Seq(B) /\ IsInjective(b) /\ Range(b) = B /\ E!SetToSeq(B) = b
  BY <1>2, SetToSeqIsEnumeration, SameSetToSeq
<1>4. d \in Seq(D) /\ IsInjective(d) /\ Range(d) = D /\ E!SetToSeq(D) = d
  BY <1>2, SetToSeqIsEnumeration, SameSetToSeq
<1> HIDE DEF b, d
<1>5. b \in Seq(PidTask) /\ d \in Seq(PidTask)
  BY <1>2, <1>3, <1>4
<1>6. /\ <<s>> \o d \in Seq(PidTask) /\ Range(<<s>> \o d) = D \cup {s}
      /\ IsInjective(<<s>> \o d)
  BY <1>2, <1>4, <1>5, PrependToList
<1>7. ASSUME NEW t \in PidTask
      PROVE  <<t>> \in Seq(PidTask) /\ Range(<<t>>) = {t} /\ IsInjective(<<t>>)
  BY DEF Range, IsInjective
<1>8. <<>> \in Seq(PidTask) /\ Range(<<>>) = {} /\ IsInjective(<<>>)
  BY DEF Range, IsInjective
<1>9. /\ tasks = [ty \in PidTypes |-> [p \in PidTask |-> tasks[ty][p]]]
      /\ \A p \in PidTask :
           /\ tasks["PID"][p] = IF p \in B \cup D THEN <<p>> ELSE <<>>
           /\ tasks["TGID"][p] = IF p \in B THEN <<p>> ELSE <<>>
           /\ tasks["PGID"][p] = IF p = s THEN b ELSE <<>>
           /\ tasks["SID"][p] = IF p = s THEN b ELSE <<>>
  BY <1>1, <1>3, SameTypes DEF PidTypes
<1>10. threads = [l \in Leader |-> threads[l]] /\ \A l \in Leader :
         threads[l] = IF l \notin B THEN <<>> ELSE IF l = s THEN <<s>> \o d ELSE <<l>>
  BY <1>1, <1>4
<1>11. ASSUME NEW ty \in PidTypes, NEW p \in PidTask
       PROVE  /\ tasks[ty][p] \in Seq(PidTask) /\ IsInjective(tasks[ty][p])
              /\ Range(tasks[ty][p]) \subseteq B \cup D
              /\ ty = "TGID" => Range(tasks[ty][p]) \subseteq Leader
  <2>1. CASE ty = "PID"
    BY <1>7, <1>8, <1>9, <2>1
  <2>2. CASE ty = "TGID"
    BY <1>7, <1>8, <1>9, <2>2
  <2>3. CASE ty \in {"PGID", "SID"}
    BY <1>3, <1>5, <1>8, <1>9, <2>3
  <2> QED BY <2>1, <2>2, <2>3 DEF PidTypes
<1>12. ASSUME NEW l \in Leader
       PROVE  /\ threads[l] \in Seq(PidTask) /\ IsInjective(threads[l])
              /\ Range(threads[l]) \subseteq B \cup D
              /\ l \notin B => threads[l] = <<>>
              /\ l \in B => l \in Range(threads[l])
  <2>1. CASE l \notin B
    BY <1>8, <1>10, <2>1
  <2>2. CASE l = s
    BY <1>2, <1>6, <1>10, <2>2
  <2>3. CASE l \in B /\ l # s
    <3>1. l \in PidTask /\ threads[l] = <<l>>
      BY <1>2, <1>10, <2>3
    <3>2. <<l>> \in Seq(PidTask) /\ Range(<<l>>) = {l} /\ IsInjective(<<l>>)
      BY <1>7, <3>1
    <3> QED BY <2>3, <3>1, <3>2
  <2> QED BY <2>1, <2>2, <2>3
<1>13. D \subseteq Range(threads[s])
  BY <1>2, <1>6, <1>10
<1>14. EpLists
  <2>1. \A t \in B \cup D : state[t] = "alive"
    BY <1>1, <1>2
  <2>2. state \in [PidTask -> {"unborn", "alive", "unhashed", "freed"}]
    BY <1>1
  <2>3. tasks \in [PidTypes -> [PidTask -> Seq(PidTask)]]
    <3>1. ASSUME NEW ty \in PidTypes PROVE tasks[ty] \in [PidTask -> Seq(PidTask)]
      <4>1. tasks[ty] = [p \in PidTask |-> tasks[ty][p]]
        BY <1>9
      <4> QED BY <1>11, <4>1
    <3> QED BY <1>9, <3>1
  <2>4. threads \in [Leader -> Seq(PidTask)]
    BY <1>10, <1>12
  <2>5. \A p \in PidTask : Range(tasks["TGID"][p]) \subseteq Leader
    BY <1>11 DEF PidTypes
  <2>6. \A ty \in PidTypes, p \in PidTask : IsInjective(tasks[ty][p]) /\ AllAlive(tasks[ty][p])
    BY <1>11, <2>1 DEF AllAlive
  <2>7. \A l \in Leader : IsInjective(threads[l]) /\ AllAlive(threads[l])
    BY <1>12, <2>1 DEF AllAlive
  <2> QED BY <2>2, <2>3, <2>4, <2>5, <2>6, <2>7 DEF EpLists
<1>15. EpThreads
  BY <1>1, <1>2, <1>12, <1>13 DEF EpThreads
<1>16. EpStale /\ EpReader
  <2>1. /\ stale = [ty \in StaleTypes |-> [t \in PidTask |-> "NULL"]] /\ grace = {}
        /\ pc = "find" /\ type = 1
    BY SameTypes DEF E!Init, E!NULL, StaleTypes
  <2>2. ~E!Reading
    BY <2>1 DEF E!Reading
  <2>3. EpStale
    <3>1. stale \in [StaleTypes -> [PidTask -> PidTask \cup {"NULL"}]]
      BY <2>1
    <3>2. \A ty \in StaleTypes, t \in PidTask : stale[ty][t] = "NULL"
      BY <2>1
    <3>3. "TGID" \in StaleTypes
      BY DEF StaleTypes, PidTypes
    <3> HIDE DEF StaleTypes
    <3> QED BY <2>1, <2>2, <3>1, <3>2, <3>3 DEF EpStale
  <2>4. EpReader
    BY <2>1, <2>2 DEF EpReader
  <2> QED BY <2>3, <2>4
<1> QED BY <1>14, <1>15, <1>16 DEF EpInv

(* The head of a list leads the reader to what it may read. *)
LEMMA FirstReadable ==
  ASSUME EpInv, NEW ty \in PidTypes, NEW p \in PidTask
  PROVE  /\ Readable(E!First(tasks[ty][p]))
         /\ ty = "TGID" => E!First(tasks[ty][p]) \in Leader \cup {"NULL"}
<1> DEFINE s == tasks[ty][p]
<1>1. s \in Seq(PidTask) /\ AllAlive(s) /\ (ty = "TGID" => Range(s) \subseteq Leader)
  BY DEF EpInv, EpLists
<1> HIDE DEF s
<1>2. E!First(s) \in Range(s) \cup {"NULL"} /\ Range(s) \subseteq PidTask
  BY <1>1, FirstInList, ListElements
<1>3. Readable(E!First(s)) /\ (ty = "TGID" => E!First(s) \in Leader \cup {"NULL"})
  BY <1>1, <1>2 DEF AllAlive, Readable
<1> QED BY <1>3 DEF s

(* So does the next pointer of an entry that it may read, be it on a     *)
(* list or taken off one meanwhile.                                      *)
LEMMA NextReadable ==
  ASSUME EpInv, NEW ty \in PidTypes, NEW t \in PidTask, Readable(t)
  PROVE  /\ Readable(E!NextOf(ty, t))
         /\ ty = "TGID" => E!NextOf(ty, t) \in Leader \cup {"NULL"}
<1> DEFINE on == {p \in PidTask : t \in Range(tasks[ty][p])}
           p == CHOOSE p \in on : TRUE
           s == tasks[ty][p]
<1>1. E!NextOf(ty, t) = IF on = {} THEN stale[ty][t] ELSE E!After(s, t)
  BY DEF E!NextOf, E!Range, Range
<1>2. CASE on = {}
  <2>1. ty \in StaleTypes /\ t # "NULL"
    BY PidAssumption DEF StaleTypes
  <2>2. Readable(stale[ty][t])
    BY <2>1 DEF EpInv, EpStale, Readable
  <2>3. ty = "TGID" => stale[ty][t] \in Leader \cup {"NULL"}
    BY DEF EpInv, EpStale
  <2> QED BY <1>1, <1>2, <2>2, <2>3
<1>3. CASE on # {}
  <2>1. p \in on
    BY <1>3
  <2>2. p \in PidTask /\ t \in Range(s)
    BY <2>1
  <2> HIDE DEF p
  <2>3. s \in Seq(PidTask) /\ AllAlive(s) /\ (ty = "TGID" => Range(s) \subseteq Leader)
    BY <2>2 DEF EpInv, EpLists
  <2> HIDE DEF on, s
  <2>4. E!After(s, t) \in Range(s) \cup {"NULL"} /\ Range(s) \subseteq PidTask
    BY <2>2, <2>3, AfterInList, ListElements
  <2>5. Readable(E!After(s, t)) /\ (ty = "TGID" => E!After(s, t) \in Leader \cup {"NULL"})
    BY <2>3, <2>4 DEF AllAlive, Readable
  <2> QED BY <1>1, <1>3, <2>5
<1> QED BY <1>2, <1>3

(* Somebody alive is on the list of threads of its leader, and the next  *)
(* on that list is alive.                                                *)
LEMMA ThreadList ==
  ASSUME EpInv, NEW t \in PidTask, state[t] = "alive"
  PROVE  /\ E!LeaderOf(t) \in Leader /\ t \in Range(threads[E!LeaderOf(t)])
         /\ E!After(threads[E!LeaderOf(t)], t) \in
              {u \in PidTask : state[u] = "alive"} \cup {"NULL"}
<1> DEFINE l == E!LeaderOf(t)
<1>1. l \in Leader /\ t \in Range(threads[l])
  <2>1. CASE t \in Leader
    BY <2>1 DEF EpInv, EpThreads, E!LeaderOf
  <2>2. CASE t \notin Leader
    <3>1. \E m \in Leader : t \in Range(threads[m])
      BY <2>2 DEF EpInv, EpThreads
    <3>2. l = CHOOSE m \in Leader : t \in Range(threads[m])
      BY <2>2, SameRange DEF E!LeaderOf
    <3> QED BY <3>1, <3>2
  <2> QED BY <2>1, <2>2
<1> HIDE DEF l
<1> DEFINE s == threads[l]
<1>2. s \in Seq(PidTask) /\ AllAlive(s) /\ t \in Range(s)
  BY <1>1 DEF EpInv, EpLists
<1> HIDE DEF s
<1>3. E!After(s, t) \in Range(s) \cup {"NULL"} /\ Range(s) \subseteq PidTask
  BY <1>2, AfterInList, ListElements
<1>4. E!After(s, t) \in {u \in PidTask : state[u] = "alive"} \cup {"NULL"}
  BY <1>2, <1>3 DEF AllAlive
<1> QED BY <1>1, <1>4 DEF l, s

(* The next pointer of a thread leads the reader to what it may read. *)
LEMMA NextThreadReadable ==
  ASSUME EpInv, NEW t \in PidTask, Readable(t)
  PROVE  Readable(E!NextThread(t))
<1>1. CASE state[t] = "alive"
  BY <1>1, ThreadList DEF E!NextThread, Readable
<1>2. CASE state[t] # "alive"
  <2>1. t \in grace /\ "thread" \in StaleTypes
    BY <1>2, PidAssumption DEF Readable, StaleTypes
  <2> QED BY <1>2, <2>1 DEF EpInv, EpStale, E!NextThread
<1> QED BY <1>1, <1>2

(* The steps of the module keep the invariant. *)
LEMMA EpReads ==
  ASSUME EpInv, E!modinit
  PROVE  EpInv'
<1> USE DEF E!kernel
<1>1. ASSUME UNCHANGED <<state, tasks, threads>> PROVE (EpLists /\ EpThreads)'
  BY <1>1 DEF EpInv, EpLists, EpThreads, AllAlive
<1>2. ASSUME UNCHANGED <<state, stale, grace>>, E!Reading => E!Reading'
      PROVE  EpStale'
  BY <1>2 DEF EpInv, EpStale, Readable
<1>3. ASSUME UNCHANGED <<state, grace>>, NEW x, Readable(x) PROVE Readable(x)'
  BY <1>3 DEF Readable
<1>4. type \in 1..4 /\ E!types[type] \in PidTypes /\ (E!types[type] = "TGID" <=> type = 2)
  BY SameTypes DEF EpInv, EpReader, PidTypes
<1>5. CASE E!find_get_pid
  <2>1. /\ UNCHANGED <<state, tasks, threads, stale, grace, type>>
        /\ ~E!Reading /\ pc' \in {"lock", "done"}
    BY <1>5 DEF E!find_get_pid, E!Reading
  <2>2. EpReader'
    BY <2>1 DEF EpInv, EpReader, E!Reading
  <2> QED BY <1>1, <1>2, <2>1, <2>2 DEF EpInv
<1>6. CASE E!rcu_read_lock
  <2>1. /\ UNCHANGED <<state, tasks, threads, stale, grace, type>> /\ pc' = "walk"
        /\ ~E!Reading /\ cur' = E!First(tasks[E!types[type]][pid])
    BY <1>6 DEF E!rcu_read_lock, E!Reading
  <2>2. Readable(cur') /\ (type = 2 => cur' \in Leader \cup {"NULL"})
    BY <1>4, <2>1, FirstReadable, PidAssumption
  <2>3. Readable(cur)'
    BY <2>1, <2>2 DEF Readable
  <2>4. EpReader'
    BY <1>4, <2>1, <2>2, <2>3 DEF EpReader
  <2> QED BY <1>1, <1>2, <2>1, <2>4 DEF EpInv
<1>7. CASE E!hlist_for_each_entry_rcu
  <2>1. /\ UNCHANGED <<state, tasks, threads, stale, grace, type>> /\ pc = "walk"
        /\ E!Reading /\ cur # "NULL"
    BY <1>7 DEF E!hlist_for_each_entry_rcu, E!Reading, E!NULL
  <2>2. Readable(cur) /\ cur \in PidTask /\ (type = 2 => cur \in Leader)
    BY <2>1 DEF EpInv, EpReader, Readable
  <2>3. CASE type = 2
    <3>1. pc' = "thread" /\ thr' = E!First(threads[cur]) /\ cur' = cur
      BY <1>4, <1>7, <2>3 DEF E!hlist_for_each_entry_rcu
    <3>2. threads[cur] \in Seq(PidTask) /\ AllAlive(threads[cur])
      BY <2>2, <2>3 DEF EpInv, EpLists
    <3>3. E!First(threads[cur]) \in Range(threads[cur]) \cup {"NULL"}
      BY <3>2, FirstInList
    <3>4. Readable(thr')
      BY <3>1, <3>2, <3>3, ListElements DEF AllAlive, Readable
    <3>5. Readable(thr)' /\ Readable(cur)'
      BY <2>1, <2>2, <3>1, <3>4 DEF Readable
    <3>6. EpReader' /\ E!Reading'
      BY <1>4, <2>1, <2>2, <2>3, <3>1, <3>5 DEF EpReader, E!Reading
    <3> QED BY <1>1, <1>2, <2>1, <3>6 DEF EpInv
  <2>4. CASE type # 2
    <3>1. pc' = "walk" /\ cur' = E!NextOf(E!types[type], cur)
      BY <1>4, <1>7, <2>1, <2>4 DEF E!hlist_for_each_entry_rcu
    <3>2. Readable(cur')
      BY <1>4, <2>2, <3>1, NextReadable
    <3>3. Readable(cur)'
      BY <2>1, <3>2 DEF Readable
    <3>4. EpReader' /\ E!Reading'
      BY <1>4, <2>1, <2>4, <3>1, <3>3 DEF EpReader, E!Reading
    <3> QED BY <1>1, <1>2, <2>1, <3>4 DEF EpInv
  <2> QED BY <2>3, <2>4
<1>8. CASE E!print_all_threads
  <2>1. /\ UNCHANGED <<state, tasks, threads, stale, grace, type>> /\ pc = "thread"
        /\ E!Reading
    BY <1>8 DEF E!print_all_threads, E!Reading
  <2>2. /\ type = 2 /\ Readable(cur) /\ cur \in Leader /\ cur \in PidTask
        /\ Readable(thr) /\ cur # "NULL"
    BY <2>1, PidAssumption DEF EpInv, EpReader
  <2>3. CASE thr # "NULL"
    <3>1. pc' = "thread" /\ cur' = cur /\ thr' = E!NextThread(thr)
      BY <1>8, <2>1, <2>3 DEF E!print_all_threads, E!NULL
    <3>2. Readable(thr')
      BY <2>2, <2>3, <3>1, NextThreadReadable DEF Readable
    <3>3. Readable(thr)' /\ Readable(cur)'
      BY <2>1, <2>2, <3>1, <3>2 DEF Readable
    <3>4. EpReader' /\ E!Reading'
      BY <2>1, <2>2, <3>1, <3>3 DEF EpReader, E!Reading
    <3> QED BY <1>1, <1>2, <2>1, <3>4 DEF EpInv
  <2>4. CASE thr = "NULL"
    <3>1. pc' = "walk" /\ cur' = E!NextOf("TGID", cur)
      BY <1>8, <2>4 DEF E!print_all_threads, E!NULL
    <3>2. Readable(cur') /\ cur' \in Leader \cup {"NULL"}
      BY <2>2, <3>1, NextReadable DEF PidTypes
    <3>3. Readable(cur)'
      BY <2>1, <3>2 DEF Readable
    <3>4. EpReader' /\ E!Reading'
      BY <2>1, <2>2, <3>1, <3>2, <3>3 DEF EpReader, E!Reading
    <3> QED BY <1>1, <1>2, <2>1, <3>4 DEF EpInv
  <2> QED BY <2>3, <2>4
<1>9. CASE E!NextType
  <2>1. UNCHANGED <<state, tasks, threads, stale>> /\ pc = "walk" /\ E!Reading
    BY <1>9 DEF E!NextType, E!Reading
  <2>2. CASE type < 4
    <3>1. /\ type' = type + 1 /\ cur' = E!First(tasks[E!types[type + 1]][pid])
          /\ UNCHANGED <<pc, grace>>
      BY <1>9, <2>2, SameTypes DEF E!NextType
    <3>2. type' \in 1..4 /\ E!types[type'] \in PidTypes /\ (E!types[type'] = "TGID" <=> type' = 2)
      BY <1>4, <2>2, <3>1, SameTypes DEF PidTypes
    <3>3. Readable(cur') /\ (type' = 2 => cur' \in Leader \cup {"NULL"})
      BY <3>1, <3>2, FirstReadable, PidAssumption
    <3>4. Readable(cur)'
      BY <2>1, <3>1, <3>3 DEF Readable
    <3>5. EpReader' /\ E!Reading'
      BY <2>1, <3>1, <3>2, <3>3, <3>4 DEF EpReader, E!Reading
    <3> QED BY <1>1, <1>2, <2>1, <3>1, <3>5 DEF EpInv
  <2>3. CASE ~(type < 4)
    <3>1. pc' = "put" /\ grace' = {} /\ type' = type
      BY <1>9, <2>3, SameTypes DEF E!NextType
    <3>2. EpStale'
      BY <2>1, <3>1 DEF EpInv, EpStale, E!Reading
    <3>3. EpReader'
      BY <1>4, <3>1 DEF EpReader, E!Reading
    <3> QED BY <1>1, <2>1, <3>2, <3>3 DEF EpInv
  <2> QED BY <2>2, <2>3
<1>10. CASE E!put_pid
  <2>1. UNCHANGED <<state, tasks, threads, stale, grace, type>> /\ ~E!Reading /\ pc' = "done"
    BY <1>10 DEF E!put_pid, E!Reading
  <2>2. EpReader'
    BY <2>1 DEF EpInv, EpReader, E!Reading
  <2> QED BY <1>1, <1>2, <2>1, <2>2 DEF EpInv
<1> QED BY <1>5, <1>6, <1>7, <1>8, <1>9, <1>10 DEF E!modinit

(* A reader stays safe if what it may read stays readable. *)
LEMMA EpReaderKept ==
  ASSUME EpInv, UNCHANGED <<pc, type, cur, thr>>,
         E!Reading => \A x \in PidTask : Readable(x) => Readable(x)'
  PROVE  EpReader' /\ (E!Reading' <=> E!Reading)
<1>1. E!Reading' <=> E!Reading
  BY DEF E!Reading
<1>2. ASSUME E!Reading, NEW x, Readable(x) PROVE Readable(x)'
  BY <1>2 DEF Readable
<1>3. E!Reading => Readable(cur)'
  <2>1. E!Reading => Readable(cur') /\ cur' = cur
    BY DEF EpInv, EpReader
  <2>2. ASSUME E!Reading PROVE Readable(cur)'
    <3>1. cur = "NULL" \/ cur \in PidTask
      BY <2>1, <2>2 DEF Readable
    <3> QED BY <2>1, <2>2, <3>1 DEF Readable
  <2> QED BY <2>2
<1>4. pc = "thread" => Readable(thr)'
  <2>1. ASSUME pc = "thread" PROVE Readable(thr)'
    <3>1. Readable(thr) /\ E!Reading /\ thr' = thr
      BY <2>1 DEF EpInv, EpReader, E!Reading
    <3>2. thr = "NULL" \/ thr \in PidTask
      BY <3>1 DEF Readable
    <3> QED BY <3>1, <3>2 DEF Readable
  <2> QED BY <2>1
<1> QED BY <1>1, <1>3, <1>4 DEF EpInv, EpReader

(* Nobody who is not alive is on a list. *)
LEMMA OnNoList ==
  ASSUME EpInv, NEW t \in PidTask, state[t] # "alive"
  PROVE  /\ \A ty \in PidTypes, p \in PidTask : t \notin Range(tasks[ty][p])
         /\ \A l \in Leader : t \notin Range(threads[l])
BY DEF EpInv, EpLists, AllAlive

(* A new task is no danger to a reader. *)
LEMMA EpBirth ==
  ASSUME EpInv, NEW c \in PidTask, state[c] = "unborn",
         state' = [state EXCEPT ![c] = "alive"],
         UNCHANGED <<stale, grace, pc, type, cur, thr>>
  PROVE  EpStale' /\ EpReader'
<1>1. /\ \A x \in PidTask \ {c} : state'[x] = state[x]
      /\ state'[c] = "alive" /\ c \notin grace
  BY DEF EpInv, EpLists, EpStale
<1>2. \A x \in PidTask \cup {"NULL"} : Readable(x) => Readable(x)'
  BY <1>1 DEF Readable
<1>3. EpReader' /\ (E!Reading' <=> E!Reading)
  BY <1>2, EpReaderKept
<1>4. EpStale'
  <2>1. stale \in [StaleTypes -> [PidTask -> PidTask \cup {"NULL"}]]
    BY DEF EpInv, EpStale
  <2>2. ASSUME NEW ty \in StaleTypes, NEW t \in PidTask
        PROVE  /\ state'[t] \in {"unborn", "alive"} => stale'[ty][t] = "NULL"
               /\ t \in grace' => Readable(stale[ty][t])'
    <3>1. stale[ty][t] \in PidTask \cup {"NULL"} /\ stale' = stale /\ grace' = grace
      BY <2>1
    <3>2. t \in grace => Readable(stale[ty][t])
      BY DEF EpInv, EpStale
    <3>3. t \in grace' => Readable(stale[ty][t])'
      BY <1>2, <3>1, <3>2 DEF Readable
    <3>4. state'[t] \in {"unborn", "alive"} => state[t] \in {"unborn", "alive"}
      BY <1>1
    <3>5. state'[t] \in {"unborn", "alive"} => stale'[ty][t] = "NULL"
      BY <3>1, <3>4 DEF EpInv, EpStale
    <3> QED BY <3>3, <3>5
  <2>3. grace' \subseteq {t \in PidTask : state'[t] = "unhashed"}
    BY <1>1 DEF EpInv, EpStale
  <2>4. /\ ~E!Reading' => grace' = {}
        /\ \A t \in PidTask : stale'["TGID"][t] \in Leader \cup {"NULL"}
    BY <1>3 DEF EpInv, EpStale
  <2> QED BY <2>1, <2>2, <2>3, <2>4 DEF EpStale
<1> QED BY <1>3, <1>4

(* fork() keeps the invariant, whichever group and session the parent is *)
(* in.                                                                   *)
LEMMA EpFork ==
  ASSUME EpInv, NEW p \in PidTask, NEW c \in PidTask, E!fork(p, c)
  PROVE  EpInv'
<1>1. /\ c \in Leader /\ state[c] = "unborn" /\ state' = [state EXCEPT ![c] = "alive"]
      /\ UNCHANGED <<stale, grace, pc, type, cur, thr>>
      /\ threads' = [threads EXCEPT ![c] = <<c>>]
  BY DEF E!fork, E!reader
<1>2. EpStale' /\ EpReader'
  BY <1>1, EpBirth
<1> DEFINE of(ty) == IF ty \in {"PID", "TGID"} THEN c ELSE E!In(ty, p)
<1>3. tasks' = [ty \in PidTypes |-> [tasks[ty] EXCEPT ![of(ty)] = <<c>> \o @]]
  BY SameTypes DEF E!fork
<1> HIDE DEF of
<1>4. state' \in [PidTask -> {"unborn", "alive", "unhashed", "freed"}]
  BY <1>1 DEF EpInv, EpLists
<1>5. state'[c] = "alive" /\ \A x \in PidTask \ {c} : state'[x] = state[x]
  BY <1>1 DEF EpInv, EpLists
<1>6. ASSUME NEW ty \in PidTypes, NEW q \in PidTask
      PROVE  /\ tasks'[ty][q] \in Seq(PidTask) /\ IsInjective(tasks'[ty][q])
             /\ Range(tasks'[ty][q]) \subseteq Range(tasks[ty][q]) \cup {c}
             /\ \A x \in Range(tasks'[ty][q]) : state'[x] = "alive"
  <2> DEFINE s == tasks[ty][q]
  <2>1. /\ s \in Seq(PidTask) /\ IsInjective(s) /\ AllAlive(s)
        /\ tasks[ty] \in [PidTask -> Seq(PidTask)]
    BY DEF EpInv, EpLists
  <2>2. c \notin Range(s)
    BY <1>1, OnNoList
  <2>3. tasks'[ty][q] = IF q = of(ty) THEN <<c>> \o s ELSE s
    BY <1>3, <2>1
  <2> HIDE DEF s
  <2>4. /\ <<c>> \o s \in Seq(PidTask) /\ Range(<<c>> \o s) = Range(s) \cup {c}
        /\ IsInjective(<<c>> \o s)
    BY <2>1, <2>2, PrependToList
  <2>5. Range(s) \subseteq PidTask
    BY <2>1, ListElements
  <2>6. \A x \in Range(s) \cup {c} : state'[x] = "alive"
    BY <1>5, <2>1, <2>5 DEF AllAlive
  <2>7. CASE q = of(ty)
    <3>1. tasks'[ty][q] = <<c>> \o s
      BY <2>3, <2>7
    <3> QED BY <2>4, <2>6, <3>1 DEF s
  <2>8. CASE q # of(ty)
    <3>1. tasks'[ty][q] = s
      BY <2>3, <2>8
    <3> QED BY <2>1, <2>6, <3>1 DEF s
  <2> QED BY <2>7, <2>8
<1>7. tasks' \in [PidTypes -> [PidTask -> Seq(PidTask)]]
  <2>1. ASSUME NEW ty \in PidTypes PROVE tasks'[ty] = [q \in PidTask |-> tasks'[ty][q]]
    <3>1. tasks[ty] \in [PidTask -> Seq(PidTask)]
      BY DEF EpInv, EpLists
    <3> QED BY <1>3, <3>1
  <2>2. ASSUME NEW ty \in PidTypes PROVE tasks'[ty] \in [PidTask -> Seq(PidTask)]
    BY <1>6, <2>1
  <2> QED BY <1>3, <2>2
<1>8. \A q \in PidTask : Range(tasks'["TGID"][q]) \subseteq Leader
  BY <1>1, <1>6 DEF EpInv, EpLists, PidTypes
<1>9. /\ <<c>> \in Seq(PidTask) /\ IsInjective(<<c>>) /\ Range(<<c>>) = {c}
  BY DEF Range, IsInjective
<1>10. ASSUME NEW l \in Leader
       PROVE  /\ threads'[l] \in Seq(PidTask) /\ IsInjective(threads'[l])
              /\ \A x \in Range(threads'[l]) : state'[x] = "alive"
              /\ state'[l] = "alive" => l \in Range(threads'[l])
              /\ state'[l] # "alive" => threads'[l] = <<>>
              /\ Range(threads[l]) \subseteq Range(threads'[l])
  <2>1. threads \in [Leader -> Seq(PidTask)] /\ l \in PidTask
    BY PidAssumption DEF EpInv, EpLists
  <2>2. CASE l = c
    <3>1. threads'[l] = <<c>> /\ threads[l] = <<>>
      BY <1>1, <2>1, <2>2 DEF EpInv, EpThreads
    <3>2. Range(threads[l]) = {}
      BY <3>1 DEF Range
    <3> QED BY <1>5, <1>9, <2>2, <3>1, <3>2
  <2>3. CASE l # c
    <3>1. threads'[l] = threads[l] /\ state'[l] = state[l]
      BY <1>1, <1>5, <2>1, <2>3
    <3>2. /\ IsInjective(threads[l])
          /\ \A x \in Range(threads[l]) : x \in PidTask /\ x # c /\ state[x] = "alive"
      BY <1>1, <2>1, ListElements DEF EpInv, EpLists, AllAlive
    <3>3. \A x \in Range(threads[l]) : state'[x] = "alive"
      BY <1>5, <3>2
    <3> QED BY <2>1, <3>1, <3>2, <3>3 DEF EpInv, EpThreads
  <2> QED BY <2>2, <2>3
<1>11. threads' \in [Leader -> Seq(PidTask)]
  BY <1>1, <1>10 DEF EpInv, EpLists
<1>12. EpLists'
  <2>1. \A ty \in PidTypes, q \in PidTask : IsInjective(tasks'[ty][q]) /\ AllAlive(tasks[ty][q])'
    BY <1>6 DEF AllAlive
  <2>2. \A l \in Leader : IsInjective(threads'[l]) /\ AllAlive(threads[l])'
    BY <1>10 DEF AllAlive
  <2> QED BY <1>4, <1>7, <1>8, <1>11, <2>1, <2>2 DEF EpLists
<1>13. EpThreads'
  <2>1. ASSUME NEW t \in PidTask \ Leader, state'[t] = "alive"
        PROVE  \E l \in Leader : t \in Range(threads'[l])
    <3>1. state[t] = "alive"
      BY <1>1, <1>5, <2>1
    <3>2. PICK l \in Leader : t \in Range(threads[l])
      BY <3>1 DEF EpInv, EpThreads
    <3> QED BY <1>10, <3>2
  <2> QED BY <1>10, <2>1 DEF EpThreads
<1> QED BY <1>2, <1>12, <1>13 DEF EpInv

(* The lists after a step, put together one by one. *)
LEMMA EpListsAgain ==
  ASSUME state' \in [PidTask -> {"unborn", "alive", "unhashed", "freed"}],
         tasks' = [ty \in PidTypes |-> tasks'[ty]],
         \A ty \in PidTypes : tasks'[ty] = [q \in PidTask |-> tasks'[ty][q]],
         threads' = [l \in Leader |-> threads'[l]],
         \A ty \in PidTypes, q \in PidTask :
           /\ tasks'[ty][q] \in Seq(PidTask) /\ IsInjective(tasks'[ty][q])
           /\ \A x \in Range(tasks'[ty][q]) : state'[x] = "alive",
         \A q \in PidTask : Range(tasks'["TGID"][q]) \subseteq Leader,
         \A l \in Leader :
           /\ threads'[l] \in Seq(PidTask) /\ IsInjective(threads'[l])
           /\ \A x \in Range(threads'[l]) : state'[x] = "alive"
  PROVE  EpLists'
<1>1. tasks' \in [PidTypes -> [PidTask -> Seq(PidTask)]]
  <2>1. ASSUME NEW ty \in PidTypes PROVE tasks'[ty] \in [PidTask -> Seq(PidTask)]
    OBVIOUS
  <2> QED BY <2>1
<1>2. threads' \in [Leader -> Seq(PidTask)]
  OBVIOUS
<1>3. \A ty \in PidTypes, q \in PidTask : IsInjective(tasks'[ty][q]) /\ AllAlive(tasks[ty][q])'
  BY DEF AllAlive
<1>4. \A l \in Leader : IsInjective(threads'[l]) /\ AllAlive(threads[l])'
  BY DEF AllAlive
<1> QED BY <1>1, <1>2, <1>3, <1>4 DEF EpLists

(* clone() keeps the invariant. *)
LEMMA EpClone ==
  ASSUME EpInv, NEW l \in PidTask, NEW t \in PidTask, E!clone(l, t)
  PROVE  EpInv'
<1>1. /\ l \in Leader /\ t \notin Leader /\ state[l] = "alive" /\ state[t] = "unborn"
      /\ state' = [state EXCEPT ![t] = "alive"]
      /\ UNCHANGED <<stale, grace, pc, type, cur, thr>>
      /\ tasks' = [tasks EXCEPT !["PID"][t] = <<t>>]
      /\ threads' = [threads EXCEPT ![l] = Append(@, t)]
  BY DEF E!clone, E!reader
<1>2. EpStale' /\ EpReader'
  BY <1>1, EpBirth
<1>3. state' \in [PidTask -> {"unborn", "alive", "unhashed", "freed"}]
  BY <1>1 DEF EpInv, EpLists
<1>4. state'[t] = "alive" /\ \A x \in PidTask \ {t} : state'[x] = state[x]
  BY <1>1 DEF EpInv, EpLists
<1>5. tasks \in [PidTypes -> [PidTask -> Seq(PidTask)]] /\ threads \in [Leader -> Seq(PidTask)]
  BY DEF EpInv, EpLists
<1>6. /\ tasks' = [ty \in PidTypes |-> tasks'[ty]]
      /\ \A ty \in PidTypes : tasks'[ty] = [q \in PidTask |-> tasks'[ty][q]]
      /\ threads' = [m \in Leader |-> threads'[m]]
  BY <1>1, <1>5
<1>7. ASSUME NEW ty \in PidTypes, NEW q \in PidTask
      PROVE  /\ tasks'[ty][q] \in Seq(PidTask) /\ IsInjective(tasks'[ty][q])
             /\ \A x \in Range(tasks'[ty][q]) : state'[x] = "alive"
  <2>1. CASE ty = "PID" /\ q = t
    <3>1. tasks'[ty][q] = <<t>>
      BY <1>1, <1>5, <2>1
    <3>2. <<t>> \in Seq(PidTask) /\ IsInjective(<<t>>) /\ Range(<<t>>) = {t}
      BY DEF Range, IsInjective
    <3> QED BY <1>4, <3>1, <3>2
  <2>2. CASE ~(ty = "PID" /\ q = t)
    <3>1. tasks'[ty][q] = tasks[ty][q]
      BY <1>1, <1>5, <2>2
    <3>2. /\ IsInjective(tasks[ty][q])
          /\ \A x \in Range(tasks[ty][q]) : state[x] = "alive" /\ x \in PidTask /\ x # t
      BY <1>1, <1>5, ListElements DEF EpInv, EpLists, AllAlive
    <3>3. \A x \in Range(tasks[ty][q]) : state'[x] = "alive"
      BY <1>4, <3>2
    <3> QED BY <1>5, <3>1, <3>2, <3>3
  <2> QED BY <2>1, <2>2
<1>8. \A q \in PidTask : Range(tasks'["TGID"][q]) \subseteq Leader
  <2>1. "TGID" \in PidTypes
    BY DEF PidTypes
  <2>2. \A q \in PidTask : tasks'["TGID"][q] = tasks["TGID"][q]
    BY <1>1, <1>5, <2>1
  <2> QED BY <2>2 DEF EpInv, EpLists
<1>9. ASSUME NEW m \in Leader
      PROVE  /\ threads'[m] \in Seq(PidTask) /\ IsInjective(threads'[m])
             /\ \A x \in Range(threads'[m]) : state'[x] = "alive"
             /\ Range(threads'[m]) = Range(threads[m]) \cup (IF m = l THEN {t} ELSE {})
             /\ state'[m] = state[m] /\ (m # l => threads'[m] = threads[m])
  <2> DEFINE s == threads[m]
  <2>1. s \in Seq(PidTask) /\ IsInjective(s) /\ AllAlive(s) /\ m \in PidTask
    BY PidAssumption DEF EpInv, EpLists
  <2>2. t \notin Range(s)
    BY <1>1, OnNoList
  <2>3. threads'[m] = IF m = l THEN Append(s, t) ELSE s
    BY <1>1, <1>5
  <2> HIDE DEF s
  <2>4. /\ Append(s, t) \in Seq(PidTask) /\ Range(Append(s, t)) = Range(s) \cup {t}
        /\ IsInjective(Append(s, t))
    BY <2>1, <2>2, AppendToList
  <2>5. Range(s) \subseteq PidTask
    BY <2>1, ListElements
  <2>6. \A x \in Range(s) \cup {t} : state'[x] = "alive"
    BY <1>4, <2>1, <2>5 DEF AllAlive
  <2>7. state'[m] = state[m]
    BY <1>1, <1>4, <2>1
  <2>8. CASE m = l
    <3>1. threads'[m] = Append(s, t)
      BY <2>3, <2>8
    <3> QED BY <2>4, <2>6, <2>7, <2>8, <3>1 DEF s
  <2>9. CASE m # l
    <3>1. threads'[m] = s
      BY <2>3, <2>9
    <3> QED BY <2>1, <2>6, <2>7, <2>9, <3>1 DEF s
  <2> QED BY <2>8, <2>9
<1>10. EpLists'
  BY <1>3, <1>6, <1>7, <1>8, <1>9, EpListsAgain
<1>11. EpThreads'
  <2>1. ASSUME NEW u \in PidTask \ Leader, state'[u] = "alive"
        PROVE  \E m \in Leader : u \in Range(threads'[m])
    <3>1. CASE u = t
      BY <1>1, <1>9, <3>1
    <3>2. CASE u # t
      <4>1. PICK m \in Leader : u \in Range(threads[m])
        BY <1>4, <2>1, <3>2 DEF EpInv, EpThreads
      <4> QED BY <1>9, <4>1
    <3> QED BY <3>1, <3>2
  <2>2. ASSUME NEW m \in Leader
        PROVE  /\ state'[m] = "alive" => m \in Range(threads'[m])
               /\ state'[m] # "alive" => threads'[m] = <<>>
    BY <1>1, <1>9 DEF EpInv, EpThreads
  <2> QED BY <2>1, <2>2 DEF EpThreads
<1> QED BY <1>2, <1>10, <1>11 DEF EpInv

(* So does freeing a task, which waits for the readers that may be at    *)
(* it.                                                                   *)
LEMMA EpFree ==
  ASSUME EpInv, NEW t \in PidTask, E!free_task(t)
  PROVE  EpInv'
<1>1. /\ state[t] = "unhashed" /\ t \notin grace /\ state' = [state EXCEPT ![t] = "freed"]
      /\ UNCHANGED <<tasks, threads, stale, grace, pc, type, cur, thr>>
  BY DEF E!free_task, E!reader
<1>2. state' \in [PidTask -> {"unborn", "alive", "unhashed", "freed"}]
  BY <1>1 DEF EpInv, EpLists
<1>3. state'[t] = "freed" /\ \A x \in PidTask \ {t} : state'[x] = state[x]
  BY <1>1 DEF EpInv, EpLists
<1>4. \A x \in PidTask \cup {"NULL"} : Readable(x) => Readable(x)'
  BY <1>1, <1>3 DEF Readable
<1>5. EpReader' /\ (E!Reading' <=> E!Reading)
  BY <1>1, <1>4, EpReaderKept
<1>6. EpLists'
  <2>1. ASSUME NEW s \in Seq(PidTask), AllAlive(s)
        PROVE  \A x \in Range(s) : state'[x] = "alive"
    <3>1. Range(s) \subseteq PidTask \ {t}
      BY <1>1, <2>1, ListElements DEF AllAlive
    <3> QED BY <1>3, <2>1, <3>1 DEF AllAlive
  <2>2. tasks \in [PidTypes -> [PidTask -> Seq(PidTask)]] /\ threads \in [Leader -> Seq(PidTask)]
    BY DEF EpInv, EpLists
  <2>3. \A ty \in PidTypes, q \in PidTask :
           /\ tasks[ty][q] \in Seq(PidTask) /\ IsInjective(tasks[ty][q])
           /\ \A x \in Range(tasks[ty][q]) : state'[x] = "alive"
    BY <2>1, <2>2 DEF EpInv, EpLists
  <2>4. \A l \in Leader :
           /\ threads[l] \in Seq(PidTask) /\ IsInjective(threads[l])
           /\ \A x \in Range(threads[l]) : state'[x] = "alive"
    BY <2>1, <2>2 DEF EpInv, EpLists
  <2>5. \A q \in PidTask : Range(tasks["TGID"][q]) \subseteq Leader
    BY DEF EpInv, EpLists
  <2> QED BY <1>1, <1>2, <2>2, <2>3, <2>4, <2>5, EpListsAgain
<1>7. EpThreads'
  <2>1. \A x \in PidTask : state'[x] = "alive" <=> state[x] = "alive"
    BY <1>1, <1>3
  <2> QED BY <1>1, <2>1, PidAssumption DEF EpInv, EpThreads
<1>8. EpStale'
  <2>1. stale \in [StaleTypes -> [PidTask -> PidTask \cup {"NULL"}]]
    BY DEF EpInv, EpStale
  <2>2. ASSUME NEW ty \in StaleTypes, NEW u \in PidTask
        PROVE  /\ state'[u] \in {"unborn", "alive"} => stale'[ty][u] = "NULL"
               /\ u \in grace' => Readable(stale[ty][u])'
    <3>1. stale[ty][u] \in PidTask \cup {"NULL"} /\ stale' = stale /\ grace' = grace
      BY <1>1, <2>1
    <3>2. u \in grace => Readable(stale[ty][u])
      BY DEF EpInv, EpStale
    <3>3. u \in grace' => Readable(stale[ty][u])'
      BY <1>4, <3>1, <3>2 DEF Readable
    <3>4. state'[u] \in {"unborn", "alive"} => state[u] \in {"unborn", "alive"}
      BY <1>3
    <3>5. state'[u] \in {"unborn", "alive"} => stale'[ty][u] = "NULL"
      BY <3>1, <3>4 DEF EpInv, EpStale
    <3> QED BY <3>3, <3>5
  <2>3. grace' \subseteq {u \in PidTask : state'[u] = "unhashed"}
    BY <1>1, <1>3 DEF EpInv, EpStale
  <2>4. /\ ~E!Reading' => grace' = {}
        /\ \A u \in PidTask : stale'["TGID"][u] \in Leader \cup {"NULL"}
    BY <1>1, <1>5 DEF EpInv, EpStale
  <2> QED BY <1>1, <2>1, <2>2, <2>3, <2>4 DEF EpStale
<1> QED BY <1>5, <1>6, <1>7, <1>8 DEF EpInv

(* change_pid(): the lists of a type after a process was taken off one   *)
(* and put in front of another.                                          *)
LEMMA MovedList ==
  ASSUME EpInv, NEW ty \in PidTypes, NEW l \in PidTask, state[l] = "alive",
         NEW p \in PidTask, NEW q \in PidTask
  PROVE  /\ E!Moved(ty, l, p)[q] \in Seq(PidTask) /\ IsInjective(E!Moved(ty, l, p)[q])
         /\ \A x \in Range(E!Moved(ty, l, p)[q]) : state[x] = "alive"
<1> DEFINE s == tasks[ty][q]
           w == E!Without(s, l)
<1>1. s \in Seq(PidTask) /\ IsInjective(s) /\ AllAlive(s)
  BY DEF EpInv, EpLists
<1>2. E!Moved(ty, l, p)[q] = IF q = p THEN <<l>> \o w ELSE w
  BY DEF E!Moved
<1> HIDE DEF s
<1>3. w \in Seq(PidTask) /\ IsInjective(w) /\ Range(w) = Range(s) \ {l}
  BY <1>1, WithoutOne
<1> HIDE DEF w
<1>4. /\ <<l>> \o w \in Seq(PidTask) /\ IsInjective(<<l>> \o w)
      /\ Range(<<l>> \o w) = Range(w) \cup {l}
  BY <1>3, PrependToList
<1>5. \A x \in Range(w) \cup {l} : state[x] = "alive"
  BY <1>1, <1>3 DEF AllAlive
<1>6. CASE q = p
  <2>1. E!Moved(ty, l, p)[q] = <<l>> \o w
    BY <1>2, <1>6
  <2> QED BY <1>4, <1>5, <2>1
<1>7. CASE q # p
  <2>1. E!Moved(ty, l, p)[q] = w
    BY <1>2, <1>7
  <2> QED BY <1>3, <1>5, <2>1
<1> QED BY <1>6, <1>7

(* setpgid() and setsid() keep the invariant: the lists of groups and    *)
(* sessions change, and all that is on them stays alive.                 *)
LEMMA EpMove ==
  ASSUME EpInv, NEW l \in PidTask, NEW p \in PidTask, state[l] = "alive",
         NEW D \in SUBSET {"PGID", "SID"},
         tasks' = [ty \in PidTypes |-> tasks'[ty]],
         \A ty \in PidTypes : tasks'[ty] = IF ty \in D THEN E!Moved(ty, l, p) ELSE tasks[ty],
         UNCHANGED <<state, threads, stale, grace, pc, type, cur, thr>>
  PROVE  EpInv'
<1>1. EpThreads' /\ EpStale' /\ EpReader'
  BY DEF EpInv, EpThreads, EpStale, EpReader, Readable, E!Reading
<1>2. tasks \in [PidTypes -> [PidTask -> Seq(PidTask)]] /\ threads \in [Leader -> Seq(PidTask)]
  BY DEF EpInv, EpLists
<1>3. ASSUME NEW ty \in PidTypes PROVE tasks'[ty] = [q \in PidTask |-> tasks'[ty][q]]
  <2>1. CASE ty \in D
    BY <2>1 DEF E!Moved
  <2>2. CASE ty \notin D
    BY <1>2, <2>2
  <2> QED BY <2>1, <2>2
<1>4. ASSUME NEW ty \in PidTypes, NEW q \in PidTask
      PROVE  /\ tasks'[ty][q] \in Seq(PidTask) /\ IsInjective(tasks'[ty][q])
             /\ \A x \in Range(tasks'[ty][q]) : state'[x] = "alive"
  <2>1. CASE ty \in D
    <3>1. tasks'[ty][q] = E!Moved(ty, l, p)[q]
      BY <2>1
    <3> QED BY <3>1, MovedList
  <2>2. CASE ty \notin D
    <3>1. tasks'[ty][q] = tasks[ty][q]
      BY <2>2
    <3> QED BY <3>1 DEF EpInv, EpLists, AllAlive
  <2> QED BY <2>1, <2>2
<1>5. \A q \in PidTask : Range(tasks'["TGID"][q]) \subseteq Leader
  <2>1. \A q \in PidTask : tasks'["TGID"][q] = tasks["TGID"][q]
    BY DEF PidTypes
  <2> QED BY <2>1 DEF EpInv, EpLists
<1>6. \A m \in Leader :
        /\ threads'[m] \in Seq(PidTask) /\ IsInjective(threads'[m])
        /\ \A x \in Range(threads'[m]) : state'[x] = "alive"
  BY <1>2 DEF EpInv, EpLists, AllAlive
<1>7. /\ state' \in [PidTask -> {"unborn", "alive", "unhashed", "freed"}]
      /\ threads' = [m \in Leader |-> threads'[m]]
      /\ tasks' = [ty \in PidTypes |-> tasks'[ty]]
  BY <1>2 DEF EpInv, EpLists
<1>8. EpLists'
  BY <1>3, <1>4, <1>5, <1>6, <1>7, EpListsAgain
<1> QED BY <1>1, <1>8 DEF EpInv

(* unhash_process() keeps the invariant: who is taken off keeps its next *)
(* pointer, which leads to somebody alive, and the grace period keeps    *)
(* both for a reader.                                                    *)
LEMMA EpUnhash ==
  ASSUME EpInv, NEW t \in PidTask, E!unhash_process(t)
  PROVE  EpInv'
<1> DEFINE on(ty) == {p \in PidTask : t \in Range(tasks[ty][p])}
           nxt(ty) == IF ty = "thread" THEN E!After(threads[E!LeaderOf(t)], t)
                      ELSE IF on(ty) = {} THEN stale[ty][t]
                      ELSE E!After(tasks[ty][CHOOSE p \in on(ty) : TRUE], t)
           Alive == {u \in PidTask : state[u] = "alive"}
<1>1. /\ state[t] = "alive" /\ (t \in Leader => threads[t] = <<t>>)
      /\ state' = [state EXCEPT ![t] = "unhashed"]
      /\ grace' = (IF E!Reading THEN grace \cup {t} ELSE grace)
      /\ threads' = [l \in Leader |-> E!Without(threads[l], t)]
      /\ UNCHANGED <<pc, type, cur, thr>>
  BY DEF E!unhash_process, E!reader
<1>2. tasks' = [ty \in PidTypes |-> [p \in PidTask |-> E!Without(tasks[ty][p], t)]]
  BY SameTypes DEF E!unhash_process
<1>3. stale' = [ty \in StaleTypes |-> [stale[ty] EXCEPT ![t] = nxt(ty)]]
  BY SameTypes DEF E!unhash_process, StaleTypes, E!Range, Range
<1>4. ASSUME NEW ty \in StaleTypes
      PROVE  nxt(ty) \in Alive \cup {"NULL"} /\ (ty = "TGID" => nxt(ty) \in Leader \cup {"NULL"})
  <2>1. CASE ty = "thread"
    <3>1. nxt(ty) = E!After(threads[E!LeaderOf(t)], t)
      BY <2>1
    <3> QED BY <1>1, <2>1, <3>1, ThreadList
  <2>2. CASE ty # "thread" /\ on(ty) = {}
    <3>1. nxt(ty) = stale[ty][t]
      BY <2>2
    <3>2. stale[ty][t] = "NULL"
      BY <1>1 DEF EpInv, EpStale
    <3> QED BY <3>1, <3>2
  <2>3. CASE ty # "thread" /\ on(ty) # {}
    <3> DEFINE p == CHOOSE p \in on(ty) : TRUE
               s == tasks[ty][p]
    <3>1. nxt(ty) = E!After(s, t) /\ ty \in PidTypes
      BY <2>3 DEF StaleTypes
    <3>2. p \in on(ty)
      BY <2>3
    <3>3. p \in PidTask /\ t \in Range(s)
      BY <3>2
    <3> HIDE DEF p, on, nxt
    <3>4. s \in Seq(PidTask) /\ AllAlive(s) /\ (ty = "TGID" => Range(s) \subseteq Leader)
      BY <3>1, <3>3 DEF EpInv, EpLists
    <3> HIDE DEF s
    <3>5. E!After(s, t) \in Range(s) \cup {"NULL"} /\ Range(s) \subseteq PidTask
      BY <3>3, <3>4, AfterInList, ListElements
    <3> QED BY <3>1, <3>4, <3>5 DEF AllAlive
  <2> QED BY <2>1, <2>2, <2>3
<1> HIDE DEF on, nxt
<1>5. state' \in [PidTask -> {"unborn", "alive", "unhashed", "freed"}]
  BY <1>1 DEF EpInv, EpLists
<1>6. state'[t] = "unhashed" /\ \A x \in PidTask \ {t} : state'[x] = state[x]
  BY <1>1 DEF EpInv, EpLists
<1>7. ASSUME E!Reading, NEW x \in PidTask \cup {"NULL"}, Readable(x) PROVE Readable(x)'
  BY <1>1, <1>6, <1>7 DEF Readable
<1>8. EpReader' /\ (E!Reading' <=> E!Reading)
  BY <1>1, <1>7, EpReaderKept
<1>9. ASSUME NEW s \in Seq(PidTask), IsInjective(s), AllAlive(s)
      PROVE  /\ E!Without(s, t) \in Seq(PidTask) /\ IsInjective(E!Without(s, t))
             /\ Range(E!Without(s, t)) = Range(s) \ {t}
             /\ \A x \in Range(E!Without(s, t)) : state'[x] = "alive"
  <2>1. /\ E!Without(s, t) \in Seq(PidTask) /\ IsInjective(E!Without(s, t))
        /\ Range(E!Without(s, t)) = Range(s) \ {t}
    BY <1>9, WithoutOne
  <2>2. Range(s) \subseteq PidTask
    BY ListElements
  <2> QED BY <1>6, <1>9, <2>1, <2>2 DEF AllAlive
<1>10. EpLists'
  <2>1. ASSUME NEW ty \in PidTypes, NEW q \in PidTask
        PROVE  /\ tasks'[ty][q] \in Seq(PidTask) /\ IsInjective(tasks'[ty][q])
               /\ Range(tasks'[ty][q]) \subseteq Range(tasks[ty][q])
               /\ \A x \in Range(tasks'[ty][q]) : state'[x] = "alive"
    <3>1. tasks'[ty][q] = E!Without(tasks[ty][q], t)
      BY <1>2
    <3>2. tasks[ty][q] \in Seq(PidTask) /\ IsInjective(tasks[ty][q]) /\ AllAlive(tasks[ty][q])
      BY DEF EpInv, EpLists
    <3> QED BY <1>9, <3>1, <3>2
  <2>2. ASSUME NEW l \in Leader
        PROVE  /\ threads'[l] \in Seq(PidTask) /\ IsInjective(threads'[l])
               /\ \A x \in Range(threads'[l]) : state'[x] = "alive"
    <3>1. threads'[l] = E!Without(threads[l], t)
      BY <1>1
    <3>2. threads[l] \in Seq(PidTask) /\ IsInjective(threads[l]) /\ AllAlive(threads[l])
      BY DEF EpInv, EpLists
    <3> QED BY <1>9, <3>1, <3>2
  <2>3. \A q \in PidTask : Range(tasks'["TGID"][q]) \subseteq Leader
    BY <2>1 DEF EpInv, EpLists, PidTypes
  <2>4. /\ threads' = [l \in Leader |-> threads'[l]]
        /\ tasks' = [ty \in PidTypes |-> tasks'[ty]]
        /\ \A ty \in PidTypes : tasks'[ty] = [q \in PidTask |-> tasks'[ty][q]]
    BY <1>1, <1>2
  <2> QED BY <1>5, <2>1, <2>2, <2>3, <2>4, EpListsAgain
<1>11. EpThreads'
  <2>1. ASSUME NEW l \in Leader
        PROVE  threads'[l] \in Seq(PidTask) /\ Range(threads'[l]) = Range(threads[l]) \ {t}
    <3>1. threads'[l] = E!Without(threads[l], t)
      BY <1>1
    <3>2. threads[l] \in Seq(PidTask) /\ IsInjective(threads[l]) /\ AllAlive(threads[l])
      BY DEF EpInv, EpLists
    <3> QED BY <1>9, <3>1, <3>2
  <2>2. ASSUME NEW l \in Leader, state'[l] = "alive" PROVE l \in Range(threads'[l])
    <3>1. l # t /\ state[l] = "alive"
      BY <1>6, <2>2, PidAssumption
    <3> QED BY <2>1, <3>1 DEF EpInv, EpThreads
  <2>3. ASSUME NEW l \in Leader, state'[l] # "alive" PROVE threads'[l] = <<>>
    <3>1. Range(threads[l]) \subseteq {t}
      <4>1. CASE l = t
        BY <1>1, <4>1 DEF Range
      <4>2. CASE l # t
        <5>1. threads[l] = <<>>
          BY <1>6, <2>3, <4>2, PidAssumption DEF EpInv, EpThreads
        <5> QED BY <5>1 DEF Range
      <4> QED BY <4>1, <4>2
    <3>2. Range(threads'[l]) = {} /\ threads'[l] \in Seq(PidTask)
      BY <2>1, <3>1
    <3>3. Len(threads'[l]) = 0
      <4> DEFINE s == threads'[l]
      <4>1. s \in Seq(PidTask) /\ Range(s) = {}
        BY <3>2
      <4> HIDE DEF s
      <4>2. \A k \in 1..Len(s) : FALSE
        BY <4>1, ListElements
      <4>3. Len(s) = 0
        BY <4>1, <4>2
      <4> QED BY <4>3 DEF s
    <3> QED BY <3>2, <3>3
  <2>4. ASSUME NEW u \in PidTask \ Leader, state'[u] = "alive"
        PROVE  \E l \in Leader : u \in Range(threads'[l])
    <3>1. u # t /\ state[u] = "alive"
      BY <1>6, <2>4
    <3>2. PICK l \in Leader : u \in Range(threads[l])
      BY <3>1 DEF EpInv, EpThreads
    <3> QED BY <2>1, <3>1, <3>2
  <2> QED BY <2>2, <2>3, <2>4 DEF EpThreads
<1>12. EpStale'
  <2>1. stale \in [StaleTypes -> [PidTask -> PidTask \cup {"NULL"}]]
    BY DEF EpInv, EpStale
  <2>2. stale' \in [StaleTypes -> [PidTask -> PidTask \cup {"NULL"}]]
    <3>1. ASSUME NEW ty \in StaleTypes
          PROVE  [stale[ty] EXCEPT ![t] = nxt(ty)] \in [PidTask -> PidTask \cup {"NULL"}]
      BY <1>4, <2>1
    <3> QED BY <1>3, <3>1
  <2>3. \A ty \in StaleTypes, u \in PidTask :
          stale'[ty][u] = IF u = t THEN nxt(ty) ELSE stale[ty][u]
    BY <1>3, <2>1
  <2>4. ASSUME NEW ty \in StaleTypes, NEW u \in PidTask
        PROVE  /\ state'[u] \in {"unborn", "alive"} => stale'[ty][u] = "NULL"
               /\ u \in grace' => Readable(stale[ty][u])'
    <3>1. ASSUME state'[u] \in {"unborn", "alive"} PROVE stale'[ty][u] = "NULL"
      BY <1>6, <2>3, <3>1 DEF EpInv, EpStale
    <3>2. ASSUME u \in grace' PROVE Readable(stale[ty][u])'
      <4>1. E!Reading
        BY <1>1, <3>2 DEF EpInv, EpStale
      <4>2. Readable(stale'[ty][u]) /\ stale'[ty][u] \in PidTask \cup {"NULL"}
        <5>1. CASE u = t
          BY <1>4, <2>3, <5>1 DEF Readable
        <5>2. CASE u # t
          BY <1>1, <2>1, <2>3, <3>2, <5>2 DEF EpInv, EpStale
        <5> QED BY <5>1, <5>2
      <4> QED BY <1>1, <1>6, <4>1, <4>2 DEF Readable
    <3> QED BY <3>1, <3>2
  <2>5. grace' \subseteq {u \in PidTask : state'[u] = "unhashed"}
    BY <1>1, <1>6 DEF EpInv, EpStale
  <2>6. ~E!Reading' => grace' = {}
    BY <1>1, <1>8 DEF EpInv, EpStale
  <2>7. \A u \in PidTask : stale'["TGID"][u] \in Leader \cup {"NULL"}
    BY <1>4, <2>3 DEF EpInv, EpStale, StaleTypes, PidTypes
  <2> QED BY <2>2, <2>4, <2>5, <2>6, <2>7 DEF EpStale
<1> QED BY <1>8, <1>10, <1>11, <1>12 DEF EpInv

(* Every step of the module and of the system around it keeps the        *)
(* invariant.                                                            *)
LEMMA EpStep == EpInv /\ [E!Next]_ep => EpInv'
<1> SUFFICES ASSUME EpInv, [E!Next]_ep PROVE EpInv'
  OBVIOUS
<1>1. CASE E!modinit
  BY <1>1, EpReads
<1>2. ASSUME NEW t \in PidTask, E!unhash_process(t) PROVE EpInv'
  BY <1>2, EpUnhash
<1>3. ASSUME NEW t \in PidTask, E!free_task(t) PROVE EpInv'
  BY <1>3, EpFree
<1>4. tasks \in [PidTypes -> [PidTask -> Seq(PidTask)]]
  BY DEF EpInv, EpLists
<1>5. ASSUME NEW t \in PidTask, E!setsid(t) PROVE EpInv'
  <2>1. /\ state[t] = "alive" /\ UNCHANGED <<state, threads, stale, grace, pc, type, cur, thr>>
        /\ tasks' = [tasks EXCEPT !["PGID"] = E!Moved("PGID", t, t),
                                  !["SID"] = E!Moved("SID", t, t)]
    BY <1>5 DEF E!setsid, E!reader
  <2> DEFINE D == {"PGID", "SID"}
  <2>2. /\ tasks' = [ty \in PidTypes |-> tasks'[ty]]
        /\ \A ty \in PidTypes : tasks'[ty] = IF ty \in D THEN E!Moved(ty, t, t) ELSE tasks[ty]
    BY <1>4, <2>1
  <2>3. D \in SUBSET {"PGID", "SID"}
    OBVIOUS
  <2> HIDE DEF D
  <2> QED BY <2>1, <2>2, <2>3, EpMove
<1>6. ASSUME NEW t \in PidTask, NEW u \in PidTask, E!fork(t, u) PROVE EpInv'
  BY <1>6, EpFork
<1>7. ASSUME NEW t \in PidTask, NEW u \in PidTask, E!clone(t, u) PROVE EpInv'
  BY <1>7, EpClone
<1>8. ASSUME NEW t \in PidTask, NEW u \in PidTask, E!setpgid(t, u) PROVE EpInv'
  <2>1. /\ state[t] = "alive" /\ UNCHANGED <<state, threads, stale, grace, pc, type, cur, thr>>
        /\ tasks' = [tasks EXCEPT !["PGID"] = E!Moved("PGID", t, u)]
    BY <1>8 DEF E!setpgid, E!reader
  <2> DEFINE D == {"PGID"}
  <2>2. /\ tasks' = [ty \in PidTypes |-> tasks'[ty]]
        /\ \A ty \in PidTypes : tasks'[ty] = IF ty \in D THEN E!Moved(ty, t, u) ELSE tasks[ty]
    BY <1>4, <2>1
  <2>3. D \in SUBSET {"PGID", "SID"}
    OBVIOUS
  <2> HIDE DEF D
  <2> QED BY <2>1, <2>2, <2>3, EpMove
<1>9. CASE UNCHANGED ep
  BY <1>9 DEF ep, EpInv, EpLists, EpThreads, EpStale, EpReader, Readable, AllAlive, E!Reading
<1> QED BY <1>1, <1>2, <1>3, <1>5, <1>6, <1>7, <1>8, <1>9 DEF E!Next

(* The invariant keeps the reader away from freed tasks. *)
LEMMA EpSafe == EpInv => E!NoFreedTaskRead
<1> SUFFICES ASSUME EpInv PROVE E!NoFreedTaskRead
  OBVIOUS
<1>1. ASSUME NEW x, Readable(x), x # "NULL" PROVE state[x] # "freed"
  BY <1>1 DEF Readable, EpInv, EpStale
<1>2. E!Reading => Readable(cur)
  BY DEF EpInv, EpReader
<1>3. pc = "thread" => Readable(thr)
  BY DEF EpInv, EpReader
<1> QED BY <1>1, <1>2, <1>3 DEF E!NoFreedTaskRead, E!NULL
-------------------------------------------------------------------------------
(* task_rss: the references held at each point of the loop, whatever the *)
(* system does.                                                          *)
TrHeld ==
  /\ step \in {"next", "get", "mm", "put", "done", "bad"}
  /\ step \in {"next", "get", "done"} => task_ref = {} /\ mm_ref = {}
  /\ step \in {"mm", "put"} => task_ref = {tsk} /\ mm_ref \subseteq {tsk}

(* As long as nobody exits, what is printed is the first part of the     *)
(* list of processes, and the cursor is at the end of it.                *)
TrCalm ==
  /\ procs \in Seq(Leader)
  /\ IsInjective(procs)
  /\ life = [p \in Leader |-> IF p \in Range(procs) THEN "alive" ELSE "unborn"]
  /\ shown \in Seq(Leader)
  /\ Len(shown) <= Len(procs)
  /\ \A k \in 1..Len(shown) : shown[k] = procs[k]
  /\ step = "next" => tsk = IF shown = <<>> THEN "init_task" ELSE procs[Len(shown)]
  /\ step \in {"get", "mm", "put"} => Len(shown) < Len(procs) /\ tsk = procs[Len(shown) + 1]
  /\ step = "done" => Len(shown) = Len(procs)
  /\ step # "bad"

(* The inductive invariant of task_rss. *)
TrInv == TrHeld /\ (calm => TrCalm)

(* The invariant holds when the module is loaded. *)
LEMMA TrInit == R!Init => TrInv
<1> SUFFICES ASSUME R!Init PROVE TrInv
  OBVIOUS
<1> DEFINE all == SetToSeq(Leader)
<1>1. all \in Seq(Leader) /\ IsInjective(all)
  <2>1. IsFiniteSet(Leader)
    BY PidAssumption, FS_Subset
  <2> QED BY <2>1, SetToSeqIsEnumeration
<1>2. PICK n \in DOMAIN all : procs = SubSeq(all, 1, n)
  BY SameSetToSeq DEF R!Init
<1> HIDE DEF all
<1>3. procs \in Seq(Leader) /\ IsInjective(procs)
  BY <1>1, <1>2 DEF IsInjective
<1>4. TrCalm
  BY <1>3 DEF R!Init, TrCalm, R!Range, Range
<1> QED BY <1>4 DEF R!Init, TrInv, TrHeld

(* As long as nobody exits, next_task() leads to the first process that  *)
(* is not printed.                                                       *)
LEMMA NextIsNext ==
  ASSUME TrCalm, step = "next"
  PROVE  R!next(tsk) = IF Len(shown) = Len(procs) THEN "init_task" ELSE procs[Len(shown) + 1]
<1>1. CASE shown = <<>>
  <2>1. tsk = "init_task" /\ Len(shown) = 0
    BY <1>1 DEF TrCalm
  <2>2. R!place(tsk) = 0
    BY <2>1 DEF R!place
  <2> QED BY <2>1, <2>2 DEF TrCalm, R!next, R!Range
<1>2. CASE shown # <<>>
  <2>1. /\ Len(shown) \in 1..Len(procs) /\ tsk = procs[Len(shown)]
        /\ tsk \in Leader /\ tsk # "init_task"
    BY <1>2, PidAssumption DEF TrCalm
  <2>2. tsk \in Range(procs)
    BY <2>1 DEF TrCalm, Range
  <2>3. R!place(tsk) = Len(shown)
    BY <2>1 DEF TrCalm, IsInjective, R!place
  <2> QED BY <2>1, <2>2, <2>3, SameRange DEF R!next
<1> QED BY <1>1, <1>2

(* Every step of the module and of the system around it keeps the        *)
(* invariant.                                                            *)
LEMMA TrStep == ASSUME TrInv, [R!Next]_tr PROVE TrInv'
<1> USE DEF TrInv
<1>1. ASSUME NEW p \in Leader, step \notin {"done", "bad"}, R!fork(p) PROVE TrInv'
  <2>1. TrHeld' /\ calm' = calm
    BY <1>1 DEF R!fork, TrHeld
  <2>2. ASSUME calm PROVE TrCalm'
    <3>1. procs' \in Seq(Leader) /\ Len(procs') = Len(procs) + 1
          /\ (\A k \in 1..Len(procs) : procs'[k] = procs[k]) /\ procs'[Len(procs) + 1] = p
      BY <1>1, <2>2, AppendProperties DEF R!fork, TrCalm
    <3>2. p \notin Range(procs)
      BY <1>1, <2>2 DEF R!fork, TrCalm
    <3>3. Range(procs)' = Range(procs) \cup {p}
      BY <1>1, <2>2, AppendToList DEF TrCalm, R!fork
    <3>4. IsInjective(procs)'
      BY <2>2, <3>1, <3>2 DEF TrCalm, Range, IsInjective
    <3>5. life' = [q \in Leader |-> IF q \in Range(procs)' THEN "alive" ELSE "unborn"]
      BY <1>1, <2>2, <3>3 DEF R!fork, TrCalm
    <3>6. /\ UNCHANGED <<step, tsk, shown>>
          /\ shown \in Seq(Leader) /\ Len(shown) <= Len(procs) /\ Len(procs) \in Nat
          /\ step \notin {"done", "bad"}
      BY <1>1, <2>2 DEF R!fork, TrCalm
    <3>7. \A k \in 1..Len(shown) : shown'[k] = procs'[k]
      BY <2>2, <3>1, <3>6 DEF TrCalm
    <3>8. step' = "next" => tsk' = IF shown' = <<>> THEN "init_task" ELSE procs'[Len(shown')]
      BY <2>2, <3>1, <3>6 DEF TrCalm
    <3>9. step' \in {"get", "mm", "put"} =>
            Len(shown') < Len(procs') /\ tsk' = procs'[Len(shown') + 1]
      BY <2>2, <3>1, <3>6 DEF TrCalm
    <3> QED BY <3>1, <3>4, <3>5, <3>6, <3>7, <3>8, <3>9 DEF TrCalm
  <2> QED BY <2>1, <2>2
<1>2. ASSUME NEW p \in Leader, R!exit(p) PROVE TrInv'
  BY <1>2 DEF R!exit, TrHeld
<1>3. CASE R!for_each_process
  <2>1. TrHeld' /\ calm' = calm
    BY <1>3 DEF R!for_each_process, R!system, TrHeld
  <2>2. ASSUME calm PROVE TrCalm'
    <3>1. ~R!Freed(tsk)
      <4>1. tsk = "init_task" \/ tsk \in Leader
        BY <1>3, <2>2 DEF R!for_each_process, TrCalm
      <4> QED BY <2>2, <4>1 DEF TrCalm, R!Freed
    <3>2. /\ tsk' = R!next(tsk)
          /\ step' = IF R!next(tsk) = "init_task" THEN "done" ELSE "get"
          /\ UNCHANGED <<life, procs, shown>> /\ step = "next"
      BY <1>3, <3>1 DEF R!for_each_process, R!system
    <3>3. Len(shown) < Len(procs) => procs[Len(shown) + 1] # "init_task"
      BY <2>2, PidAssumption DEF TrCalm
    <3> QED BY <2>2, <3>2, <3>3, NextIsNext DEF TrCalm
  <2> QED BY <2>1, <2>2
<1>4. CASE R!get_task_struct
  <2>1. TrHeld' /\ calm' = calm
    BY <1>4 DEF R!get_task_struct, R!system, TrHeld
  <2>2. ASSUME calm PROVE TrCalm'
    <3>1. ~R!Freed(tsk)
      BY <1>4, <2>2 DEF R!get_task_struct, TrCalm, R!Freed
    <3> QED BY <1>4, <2>2, <3>1 DEF R!get_task_struct, R!system, TrCalm
  <2> QED BY <2>1, <2>2
<1>5. CASE R!get_task_mm
  <2>1. TrHeld' /\ calm' = calm
    BY <1>5 DEF R!get_task_mm, R!system, TrHeld
  <2>2. ASSUME calm PROVE TrCalm'
    BY <1>5, <2>2 DEF R!get_task_mm, R!system, TrCalm
  <2> QED BY <2>1, <2>2
<1>6. CASE R!put_task_struct
  <2>1. TrHeld' /\ calm' = calm
    BY <1>6 DEF R!put_task_struct, R!system, TrHeld
  <2>2. ASSUME calm PROVE TrCalm'
    <3>1. tsk \in Leader
      BY <1>6, <2>2 DEF R!put_task_struct, TrCalm
    <3>2. /\ shown' = Append(shown, tsk) /\ step' = "next" /\ step = "put"
          /\ UNCHANGED <<life, procs, tsk>>
      BY <1>6 DEF R!put_task_struct, R!system
    <3>3. /\ shown' \in Seq(Leader) /\ Len(shown') = Len(shown) + 1 /\ shown' # <<>>
          /\ \A k \in 1..Len(shown) : shown'[k] = shown[k]
          /\ shown'[Len(shown) + 1] = tsk
      BY <2>2, <3>1, <3>2, AppendProperties DEF TrCalm
    <3> QED BY <2>2, <3>2, <3>3 DEF TrCalm
  <2> QED BY <2>1, <2>2
<1>7. CASE UNCHANGED tr
  BY <1>7 DEF tr, TrHeld, TrCalm
<1> QED BY <1>1, <1>2, <1>3, <1>4, <1>5, <1>6, <1>7 DEF R!Next

(* The invariant gives what is asked of task_rss: nothing is held at the *)
(* end, and forks do no harm.                                            *)
LEMMA TrSafe == ASSUME TrInv PROVE R!NothingHeld /\ R!ForksDoNoHarm
<1>1. R!NothingHeld
  BY DEF TrInv, TrHeld, R!NothingHeld
<1>2. ASSUME calm PROVE step # "bad" /\ IsInjective(shown)
  BY <1>2 DEF TrInv, TrCalm, IsInjective
<1>3. ASSUME calm, step = "done" PROVE Range(shown) = Range(procs)
  BY <1>3 DEF TrInv, TrCalm, Range
<1> QED BY <1>1, <1>2, <1>3, SameRange, SameIsInjective DEF R!ForksDoNoHarm
===============================================================================
