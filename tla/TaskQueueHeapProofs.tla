-------------------------- MODULE TaskQueueHeapProofs --------------------------
(***************************************************************************)
(* Proofs about TaskQueueHeap for every set of tasks, every task tree and  *)
(* every set of addresses: the list of nodes stays well formed, and the    *)
(* module implements TaskTreeWalk, whose theorems then hold of the linked  *)
(* list as well.                                                           *)
(***************************************************************************)
EXTENDS TaskQueueHeap, FiniteSetTheorems, TLAPS

-------------------------------------------------------------------------------
(* Every set of natural numbers that is not empty has a least element. *)
LEMMA LeastNatural ==
  ASSUME NEW T \in SUBSET Nat, T # {}
  PROVE  \E n \in T : \A m \in T : n <= m
<1> DEFINE R == {p \in Nat \X Nat : p[1] < p[2]}
<1>1. IsWellFoundedOn(R, Nat)
  BY NatLessThanWellFounded, Zenon DEF OpToRel
<1>2. PICK n \in T : \A m \in T : ~ (<<m, n>> \in R)
  <2> HIDE DEF R
  <2> QED BY <1>1, WFMin
<1>3. ASSUME NEW m \in T PROVE n <= m
  <2>1. m \in Nat /\ n \in Nat
    OBVIOUS
  <2>2. m < n => <<m, n>> \in R
    BY <2>1
  <2> QED BY <1>2, <2>1, <2>2
<1> QED BY <1>3

(* The nodes can be linked in one order only: where two orders differ      *)
(* first, the pointer before would lead to two nodes.                      *)
LEMMA LinkedOnce ==
  ASSUME IsFiniteSet(DOMAIN heap), NEW s \in Orders, NEW t \in Orders, Linked(s), Linked(t)
  PROVE  s = t
<1> DEFINE n == Cardinality(DOMAIN heap)
           D == {k \in 1..n : s[k] # t[k]}
<1>1. n \in Nat
  BY FS_CardinalityType
<1>2. s \in [1..n -> DOMAIN heap] /\ t \in [1..n -> DOMAIN heap]
  BY DEF Orders
<1>3. Len(s) = n /\ Len(t) = n
  BY <1>1, <1>2
<1>4. CASE D = {}
  <2>1. \A k \in 1..n : s[k] = t[k]
    BY <1>4
  <2>2. s = [k \in 1..n |-> s[k]] /\ t = [k \in 1..n |-> t[k]]
    BY <1>2
  <2> HIDE DEF n
  <2> QED BY <2>1, <2>2, Zenon
<1>5. CASE D # {}
  <2>1. D \in SUBSET Nat
    BY <1>1
  <2>2. PICK k \in D : \A m \in D : k <= m
    <3> HIDE DEF D
    <3> QED BY <1>5, <2>1, LeastNatural
  <2>3. k # 1
    BY <1>1, <1>3, <2>2 DEF Linked
  <2>4. k - 1 \in 1..n /\ k - 1 \notin D /\ k - 1 # n /\ (k - 1) + 1 = k
    BY <1>1, <2>2, <2>3
  <2>5. s[k - 1] = t[k - 1]
    BY <2>4
  <2>6. heap[s[k - 1]].next = s[k] /\ heap[t[k - 1]].next = t[k]
    BY <1>3, <2>4 DEF Linked
  <2> QED BY <2>2, <2>5, <2>6
<1> QED BY <1>4, <1>5

(* s is the list: all nodes, once, in the order in which they are linked. *)
Listed(s) ==
  /\ s \in Seq(DOMAIN heap) /\ IsInjective(s) /\ Range(s) = DOMAIN heap
  /\ Linked(s)
  /\ s = <<>> => q = NULL

(* The list is among the orders of the nodes, and it is the Chain. *)
ChainIsList == \A s : Listed(s) => s \in Orders /\ Chain = s

LEMMA ListedIsChain == ChainIsList
<1> SUFFICES ASSUME NEW s, Listed(s) PROVE s \in Orders /\ Chain = s
  BY DEF ChainIsList
<1> DEFINE H == DOMAIN heap
           n == Len(s)
<1>1. n \in Nat /\ s \in [1..n -> H] /\ DOMAIN s = 1..n
  BY DEF Listed
<1>2. s \in Bijection(1..n, H)
  BY <1>1 DEF Listed, Bijection, Injection, Surjection, IsInjective, Range
<1>3. IsFiniteSet(1..n) /\ Cardinality(1..n) = n
  BY <1>1, FS_Interval
<1>4. IsFiniteSet(H) /\ Cardinality(H) = n
  <2>1. ExistsBijection(1..n, H)
    BY <1>2 DEF ExistsBijection
  <2> HIDE DEF n, H
  <2> QED BY <1>1, <1>3, <2>1, FS_Bijection, FS_CountingElements
<1>5. s \in Orders
  BY <1>1, <1>4 DEF Orders, Listed
<1>6. Linked(s)
  BY DEF Listed
<1>7. Chain \in Orders /\ Linked(Chain)
  BY <1>5, <1>6 DEF Chain
<1> QED BY <1>4, <1>5, <1>6, <1>7, LinkedOnce

(* The tasks that the nodes of a list hold. *)
TasksOf(s) == [k \in 1..Len(s) |-> heap[s[k]].task]

(* A sequence is the function of its places. *)
LEMMA SeqIsFunction ==
  ASSUME NEW A, NEW s \in Seq(A)
  PROVE  s = [k \in 1..Len(s) |-> s[k]]
OBVIOUS

(* The nodes hold tasks, and point to nodes or nowhere. *)
HeapOK ==
  /\ DOMAIN heap \subseteq Node
  /\ heap = [n \in DOMAIN heap |-> heap[n]]
  /\ \A n \in DOMAIN heap : heap[n] \in [task : Task, next : Node \cup {NULL}]

(* What a list that is not empty begins with. *)
LEMMA ListedFacts ==
  ASSUME HeapOK, NEW s, Listed(s)
  PROVE  /\ Len(s) \in Nat /\ s \in Seq(Node) /\ s \in Seq(DOMAIN heap)
         /\ \A k \in 1..Len(s) : s[k] \in DOMAIN heap
         /\ \A x \in DOMAIN heap : \E k \in 1..Len(s) : s[k] = x
         /\ \A j, k \in 1..Len(s) : s[j] = s[k] => j = k
         /\ Len(s) = 0 <=> s = <<>>
         /\ s # <<>> <=> q # NULL
         /\ s # <<>> => q = s[1] /\ 1 \in 1..Len(s)
         /\ TasksOf(s) \in Seq(Task) /\ Len(TasksOf(s)) = Len(s)
         /\ TasksOf(s) = <<>> <=> s = <<>>
         /\ \A k \in 1..Len(s) : TasksOf(s)[k] = heap[s[k]].task
         /\ Queued = TasksOf(s)
<1>1. /\ Len(s) \in Nat /\ s \in Seq(DOMAIN heap) /\ DOMAIN s = 1..Len(s)
      /\ \A k \in 1..Len(s) : s[k] \in DOMAIN heap
  BY DEF Listed
<1>2. s \in Seq(Node)
  BY <1>1 DEF HeapOK
<1>3. \A x \in DOMAIN heap : \E k \in 1..Len(s) : s[k] = x
  BY <1>1 DEF Listed, Range
<1>4. \A j, k \in 1..Len(s) : s[j] = s[k] => j = k
  BY <1>1 DEF Listed, IsInjective
<1>5. Len(s) = 0 <=> s = <<>>
  BY <1>1
<1>6. s # <<>> => q = s[1] /\ 1 \in 1..Len(s)
  <2>1. s # <<>> => 1 \in 1..Len(s)
    BY <1>1, <1>5
  <2> QED BY <2>1 DEF Listed, Linked
<1>7. s # <<>> <=> q # NULL
  BY <1>1, <1>6, NodeAssumption DEF Listed, HeapOK
<1>8. \A k \in 1..Len(s) : heap[s[k]].task \in Task
  BY <1>1 DEF HeapOK
<1>9. /\ TasksOf(s) \in Seq(Task) /\ Len(TasksOf(s)) = Len(s)
      /\ \A k \in 1..Len(s) : TasksOf(s)[k] = heap[s[k]].task
  BY <1>1, <1>8 DEF TasksOf
<1>10. TasksOf(s) = <<>> <=> s = <<>>
  BY <1>5, <1>9
<1>11. Queued = TasksOf(s)
  BY ListedIsChain DEF ChainIsList, Queued, TasksOf
<1> QED BY <1>1, <1>2, <1>3, <1>4, <1>5, <1>6, <1>7, <1>9, <1>10, <1>11

(* An empty heap is an empty queue. *)
LEMMA NothingQueued ==
  ASSUME DOMAIN heap = {}
  PROVE  Queued = <<>>
<1>1. Cardinality(DOMAIN heap) = 0
  BY FS_EmptySet
<1>2. <<>> \in Orders /\ Linked(<<>>)
  BY <1>1 DEF Orders, Linked, IsInjective
<1>3. Chain \in Orders
  BY <1>2 DEF Chain
<1>4. Len(Chain) = 0
  BY <1>1, <1>3 DEF Orders
<1> QED BY <1>4 DEF Queued

(* A list that is not touched. *)
LEMMA ListKept ==
  ASSUME UNCHANGED <<q, heap>>
  PROVE  /\ Queued' = Queued
         /\ \A s : Listed(s) => Listed(s)'
         /\ HeapOK => HeapOK'
BY DEF Queued, Chain, Orders, Linked, Listed, HeapOK

(* What the next state queues is what its list holds. *)
LEMMA NextQueued ==
  ASSUME NEW s, Listed(s)'
  PROVE  Queued' = [k \in 1..Len(s) |-> heap'[s[k]].task]
<1>1. ChainIsList'
  BY ListedIsChain, PTL
<1>2. Chain' = s
  BY <1>1 DEF ChainIsList
<1> QED BY <1>2 DEF Queued

(* q = q->next; kfree() takes the first node off, whatever comes after it; *)
(* the last node stays the last one.                                       *)
LEMMA PopStep ==
  ASSUME HeapOK, NEW s, Listed(s), s # <<>>, PopHead
  PROVE  /\ Listed(Tail(s))' /\ HeapOK'
         /\ Queued' = Tail(Queued)
         /\ Tail(s) # <<>> => Tail(s)[Len(Tail(s))] = s[Len(s)]
<1> DEFINE r == Tail(s)
           H == DOMAIN heap
<1>1. /\ Len(s) \in Nat /\ s \in Seq(Node) /\ s \in Seq(H)
      /\ \A k \in 1..Len(s) : s[k] \in H
      /\ \A x \in H : \E k \in 1..Len(s) : s[k] = x
      /\ \A j, k \in 1..Len(s) : s[j] = s[k] => j = k
      /\ q = s[1] /\ 1 \in 1..Len(s)
      /\ TasksOf(s) \in Seq(Task) /\ Len(TasksOf(s)) = Len(s) /\ TasksOf(s) # <<>>
      /\ \A k \in 1..Len(s) : TasksOf(s)[k] = heap[s[k]].task
      /\ Queued = TasksOf(s)
  BY ListedFacts
<1>2. /\ r \in Seq(H) /\ Len(r) = Len(s) - 1 /\ Len(r) \in Nat /\ DOMAIN r = 1..Len(r)
      /\ \A k \in 1..Len(r) : k + 1 \in 1..Len(s) /\ r[k] = s[k + 1]
  BY <1>1
<1>3. DOMAIN heap' = H \ {q} /\ \A n \in H \ {q} : heap'[n] = heap[n]
  BY DEF PopHead, kfree
<1>4. HeapOK'
  BY <1>3 DEF PopHead, kfree, HeapOK
<1> HIDE DEF r
<1>5. \A k \in 1..Len(r) : r[k] \in H \ {q}
  BY <1>1, <1>2
<1>6. r \in Seq(H \ {q})
  BY <1>2, <1>5
<1>7. IsInjective(r)
  <2>1. ASSUME NEW a \in DOMAIN r, NEW b \in DOMAIN r, r[a] = r[b] PROVE a = b
    <3>1. a + 1 \in 1..Len(s) /\ b + 1 \in 1..Len(s) /\ s[a + 1] = s[b + 1]
      BY <1>2, <2>1
    <3>2. a + 1 = b + 1
      BY <1>1, <3>1
    <3> QED BY <1>2, <3>2
  <2> QED BY <2>1 DEF IsInjective
<1>8. \A x \in H \ {q} : \E k \in 1..Len(r) : r[k] = x
  <2> SUFFICES ASSUME NEW x \in H \ {q} PROVE \E k \in 1..Len(r) : r[k] = x
    OBVIOUS
  <2>1. PICK k \in 1..Len(s) : s[k] = x
    BY <1>1
  <2>2. k - 1 \in 1..Len(r) /\ (k - 1) + 1 = k
    BY <1>1, <1>2, <2>1
  <2> QED BY <1>2, <2>1, <2>2
<1>9. Range(r) = H \ {q}
  <2>1. Range(r) = {r[k] : k \in 1..Len(r)}
    BY <1>2 DEF Range
  <2> QED BY <1>5, <1>8, <2>1
<1>10. q' = heap[s[1]].next
  BY <1>1 DEF PopHead
<1>11. \A k \in 1..Len(s) : heap[s[k]].next = IF k = Len(s) THEN NULL ELSE s[k + 1]
  BY DEF Listed, Linked
<1>12. Linked(r)'
  <2>1. ASSUME NEW k \in 1..Len(r) PROVE heap'[r[k]].next = IF k = Len(r) THEN NULL ELSE r[k + 1]
    <3>1. heap'[r[k]] = heap[s[k + 1]] /\ k + 1 \in 1..Len(s)
      BY <1>2, <1>3, <1>5
    <3>2. heap'[r[k]].next = IF k + 1 = Len(s) THEN NULL ELSE s[(k + 1) + 1]
      BY <1>11, <3>1
    <3>3. k + 1 = Len(s) <=> k = Len(r)
      BY <1>1, <1>2
    <3>4. k # Len(r) => r[k + 1] = s[(k + 1) + 1]
      BY <1>2
    <3> QED BY <3>2, <3>3, <3>4
  <2>2. ASSUME 1 \in 1..Len(r) PROVE q' = r[1]
    BY <1>1, <1>2, <1>10, <1>11, <2>2
  <2> QED BY <2>1, <2>2 DEF Linked
<1>13. r = <<>> => q' = NULL
  BY <1>1, <1>2, <1>10, <1>11
<1>14. Listed(r)'
  BY <1>3, <1>6, <1>7, <1>9, <1>12, <1>13 DEF Listed
<1>15. Queued' = Tail(Queued)
  <2> DEFINE t == TasksOf(s)
  <2>1. Queued' = [k \in 1..Len(r) |-> heap'[r[k]].task]
    BY <1>14, NextQueued
  <2>2. \A k \in 1..Len(r) : heap'[r[k]].task = heap[s[k + 1]].task
    BY <1>2, <1>3, <1>5
  <2> HIDE DEF t
  <2>3. /\ Tail(t) \in Seq(Task) /\ Len(Tail(t)) = Len(r)
        /\ \A k \in 1..Len(r) : Tail(t)[k] = t[k + 1]
    BY <1>1, <1>2 DEF t
  <2>4. \A k \in 1..Len(r) : Tail(t)[k] = heap'[r[k]].task
    BY <1>1, <1>2, <2>2, <2>3 DEF t
  <2>5. Tail(t) = [k \in 1..Len(r) |-> Tail(t)[k]]
    BY <2>3, SeqIsFunction
  <2>6. Tail(t) = [k \in 1..Len(r) |-> heap'[r[k]].task]
    BY <2>4, <2>5, Zenon
  <2> QED BY <1>1, <2>1, <2>6 DEF t
<1>16. r # <<>> => r[Len(r)] = s[Len(s)]
  BY <1>1, <1>2
<1> QED BY <1>4, <1>14, <1>15, <1>16 DEF r

(* A list with one node more at its end, by places. *)
LEMMA OneMoreLast ==
  ASSUME NEW A, NEW s \in Seq(A), NEW n, n \notin A, IsInjective(s), Range(s) = A,
         NEW r, r = Append(s, n)
  PROVE  /\ r \in Seq(A \cup {n}) /\ IsInjective(r)
         /\ Len(r) = Len(s) + 1 /\ r[Len(s) + 1] = n /\ \A k \in 1..Len(s) : r[k] = s[k]
<1> DEFINE B == A \cup {n}
<1>0. s \in Seq(B) /\ n \in B
  OBVIOUS
<1> HIDE DEF B
<1>1. /\ r \in Seq(B) /\ Len(r) = Len(s) + 1 /\ Len(s) \in Nat
      /\ \A k \in 1..Len(s) : r[k] = s[k]
      /\ r[Len(s) + 1] = n
  BY <1>0
<1>2. /\ DOMAIN s = 1..Len(s) /\ DOMAIN r = 1..(Len(s) + 1)
      /\ \A k \in 1..Len(s) : s[k] \in A
  BY <1>1
<1>3. \A x \in A : \E k \in 1..Len(s) : s[k] = x
  BY <1>2 DEF Range
<1>4. IsInjective(r)
  BY <1>1, <1>2 DEF IsInjective
<1> QED BY <1>1, <1>4 DEF B

(* The same with the node at the front. *)
LEMMA OneMoreFirst ==
  ASSUME NEW A, NEW s \in Seq(A), NEW n, n \notin A, IsInjective(s), Range(s) = A,
         NEW r, r = <<n>> \o s
  PROVE  /\ r \in Seq(A \cup {n}) /\ IsInjective(r)
         /\ Len(r) = Len(s) + 1 /\ r[1] = n /\ \A k \in 1..Len(s) : r[k + 1] = s[k]
<1> DEFINE B == A \cup {n}
<1>0. s \in Seq(B) /\ n \in B
  OBVIOUS
<1> HIDE DEF B
<1>1. /\ r \in Seq(B) /\ Len(r) = Len(s) + 1 /\ Len(s) \in Nat
      /\ \A k \in 1..Len(s) : r[k + 1] = s[k]
      /\ r[1] = n
  BY <1>0
<1>2. /\ DOMAIN s = 1..Len(s) /\ DOMAIN r = 1..(Len(s) + 1)
      /\ \A k \in 1..Len(s) : s[k] \in A
  BY <1>1
<1>3. \A x \in A : \E k \in 1..Len(s) : s[k] = x
  BY <1>2 DEF Range
<1>4. \A j, k \in 1..Len(s) : s[j] = s[k] => j = k
  BY <1>2 DEF IsInjective
<1>5. IsInjective(r)
  <2>1. ASSUME NEW k \in 1..(Len(s) + 1), k # 1
        PROVE  k - 1 \in 1..Len(s) /\ r[k] = s[k - 1] /\ r[k] # n
    <3>1. k - 1 \in 1..Len(s) /\ (k - 1) + 1 = k
      BY <1>1, <2>1
    <3> QED BY <1>1, <1>2, <3>1
  <2>2. ASSUME NEW j \in DOMAIN r, NEW k \in DOMAIN r, r[j] = r[k] PROVE j = k
    <3>1. CASE j = 1 \/ k = 1
      BY <1>1, <1>2, <2>1, <2>2, <3>1
    <3>2. CASE j # 1 /\ k # 1
      <4>1. j - 1 = k - 1
        BY <1>2, <1>4, <2>1, <2>2, <3>2
      <4> QED BY <1>1, <1>2, <4>1
    <3> QED BY <3>1, <3>2
  <2> QED BY <2>2 DEF IsInjective
<1> QED BY <1>1, <1>5 DEF B

(* tmp->next = NULL; *tail = tmp; tail = &tmp->next, when tail is in the   *)
(* last node: the new node is the last one.                                *)
LEMMA AppendStep ==
  ASSUME HeapOK, NEW s, Listed(s), s # <<>>, tail = s[Len(s)],
         NEW n \in Node \ DOMAIN heap, NEW t \in Task, AppendNode(n, t)
  PROVE  /\ Listed(Append(s, n))' /\ HeapOK'
         /\ Queued' = Append(Queued, t)
         /\ tail' = Append(s, n)[Len(Append(s, n))]
<1> DEFINE r == Append(s, n)
           H == DOMAIN heap
           L == Len(s)
<1>1. /\ L \in Nat /\ s \in Seq(H) /\ IsInjective(s) /\ Range(s) = H
      /\ \A k \in 1..L : s[k] \in H
      /\ \A j, k \in 1..L : s[j] = s[k] => j = k
      /\ q = s[1] /\ 1 \in 1..L
      /\ TasksOf(s) \in Seq(Task) /\ Len(TasksOf(s)) = L
      /\ \A k \in 1..L : TasksOf(s)[k] = heap[s[k]].task
      /\ Queued = TasksOf(s)
  BY ListedFacts DEF Listed
<1>2. /\ r \in Seq(H \cup {n}) /\ IsInjective(r) /\ Range(r) = H \cup {n}
      /\ Len(r) = L + 1 /\ r[L + 1] = n
      /\ \A k \in 1..L : r[k] = s[k]
  <2>1. n \notin H
    OBVIOUS
  <2>2. s \in Seq(H) /\ IsInjective(s) /\ Range(s) = H
    BY <1>1
  <2>3. r = Append(s, n)
    OBVIOUS
  <2> HIDE DEF H, r
  <2>4. r \in Seq(H \cup {n})
    BY <2>1, <2>2, <2>3, OneMoreLast
  <2>5. IsInjective(r)
    BY <2>1, <2>2, <2>3, OneMoreLast
  <2>6. Len(r) = Len(s) + 1 /\ r[Len(s) + 1] = n /\ \A k \in 1..Len(s) : r[k] = s[k]
    BY <2>1, <2>2, <2>3, OneMoreLast
  <2>7. Range(r) = {r[k] : k \in 1..(L + 1)}
    BY <2>4, <2>6 DEF Range
  <2>8. \A k \in 1..(L + 1) : r[k] \in H \cup {n}
    BY <2>4, <2>6
  <2>9. ASSUME NEW x \in H PROVE \E k \in 1..(L + 1) : r[k] = x
    <3>1. PICK k \in 1..L : s[k] = x
      BY <2>2 DEF Range
    <3>2. r[k] = x /\ k \in 1..(L + 1)
      BY <1>1, <2>6, <3>1
    <3> QED BY <3>2
  <2>10. \E k \in 1..(L + 1) : r[k] = n
    BY <1>1, <2>6
  <2>11. Range(r) = H \cup {n}
    BY <2>7, <2>8, <2>9, <2>10
  <2> QED BY <2>4, <2>5, <2>6, <2>11
<1>3. tail \in H /\ L \in 1..L
  BY <1>1
<1>4. /\ DOMAIN heap' = H \cup {n}
      /\ heap'[n] = [task |-> t, next |-> NULL]
      /\ heap'[tail] = [heap[tail] EXCEPT !.next = n]
      /\ \A m \in H \ {tail} : heap'[m] = heap[m]
      /\ heap' = [m \in H \cup {n} |-> heap'[m]]
      /\ q' = q /\ tail' = n
  BY <1>3 DEF AppendNode, kmalloc
<1>5. \A m \in H : heap[m] \in [task : Task, next : Node \cup {NULL}]
  BY DEF HeapOK
<1>6. /\ heap'[tail].next = n
      /\ \A m \in H : heap'[m].task = heap[m].task
      /\ \A m \in H \ {tail} : heap'[m].next = heap[m].next
      /\ heap'[n].next = NULL /\ heap'[n].task = t
  BY <1>3, <1>4, <1>5
<1>7. HeapOK'
  <2>1. \A m \in H \cup {n} : heap'[m] \in [task : Task, next : Node \cup {NULL}]
    BY <1>3, <1>4, <1>5
  <2> QED BY <1>4, <2>1 DEF HeapOK
<1> HIDE DEF r
<1>8. \A k \in 1..L : heap[s[k]].next = IF k = L THEN NULL ELSE s[k + 1]
  BY DEF Listed, Linked
<1>9. Linked(r)'
  <2>1. ASSUME NEW k \in 1..Len(r)
        PROVE  heap'[r[k]].next = IF k = Len(r) THEN NULL ELSE r[k + 1]
    <3>1. CASE k = L + 1
      BY <1>2, <1>6, <3>1
    <3>2. CASE k = L
      BY <1>1, <1>2, <1>6, <3>2
    <3>3. CASE k \in 1..L /\ k # L
      <4>1. s[k] # tail /\ s[k] \in H /\ k + 1 \in 1..L
        BY <1>1, <1>3, <3>3
      <4>2. heap'[s[k]].next = s[k + 1]
        BY <1>6, <1>8, <3>3, <4>1
      <4> QED BY <1>1, <1>2, <3>3, <4>1, <4>2
    <3> QED BY <1>1, <1>2, <3>1, <3>2, <3>3
  <2>2. q' = r[1]
    BY <1>1, <1>2, <1>4
  <2> QED BY <2>1, <2>2 DEF Linked
<1>10. r # <<>>
  BY <1>1, <1>2
<1>11. Listed(r)'
  BY <1>2, <1>4, <1>9, <1>10 DEF Listed
<1>12. Queued' = Append(Queued, t)
  <2> DEFINE u == TasksOf(s)
             v == Append(u, t)
  <2>1. Queued' = [k \in 1..Len(r) |-> heap'[r[k]].task]
    BY <1>11, NextQueued
  <2>2. u \in Seq(Task) /\ Len(u) = L /\ \A k \in 1..L : u[k] = heap[s[k]].task
    BY <1>1
  <2> HIDE DEF u
  <2>3. /\ v \in Seq(Task) /\ Len(v) = L + 1 /\ v[L + 1] = t
        /\ \A k \in 1..L : v[k] = u[k]
    BY <1>1, <2>2
  <2> HIDE DEF v
  <2>4. \A k \in 1..Len(r) : v[k] = heap'[r[k]].task
    BY <1>1, <1>2, <1>6, <2>2, <2>3
  <2>5. v = [k \in 1..Len(r) |-> v[k]]
    BY <1>2, <2>3, SeqIsFunction
  <2>6. v = [k \in 1..Len(r) |-> heap'[r[k]].task]
    BY <2>4, <2>5, Zenon
  <2> QED BY <1>1, <2>1, <2>6 DEF u, v
<1> QED BY <1>2, <1>4, <1>7, <1>11, <1>12 DEF r

(* tmp->next = q; q = tmp: the new node is the first one. *)
LEMMA PushStep ==
  ASSUME HeapOK, NEW s, Listed(s),
         NEW n \in Node \ DOMAIN heap, NEW t \in Task, PushNode(n, t)
  PROVE  /\ Listed(<<n>> \o s)' /\ HeapOK'
         /\ Queued' = <<t>> \o Queued
<1> DEFINE r == <<n>> \o s
           H == DOMAIN heap
           L == Len(s)
<1>1. /\ L \in Nat /\ s \in Seq(H) /\ IsInjective(s) /\ Range(s) = H
      /\ \A k \in 1..L : s[k] \in H
      /\ L = 0 => q = NULL
      /\ L # 0 => q = s[1] /\ 1 \in 1..L
      /\ q \in Node \cup {NULL}
      /\ TasksOf(s) \in Seq(Task) /\ Len(TasksOf(s)) = L
      /\ \A k \in 1..L : TasksOf(s)[k] = heap[s[k]].task
      /\ Queued = TasksOf(s)
  <2>1. L # 0 => q \in H
    BY ListedFacts DEF Listed
  <2> QED BY <2>1, ListedFacts DEF Listed, HeapOK
<1>2. /\ r \in Seq(H \cup {n}) /\ IsInjective(r) /\ Range(r) = H \cup {n}
      /\ Len(r) = L + 1 /\ r[1] = n
      /\ \A k \in 1..L : r[k + 1] = s[k]
  <2>1. n \notin H
    OBVIOUS
  <2>2. s \in Seq(H) /\ IsInjective(s) /\ Range(s) = H
    BY <1>1
  <2>3. r = <<n>> \o s
    OBVIOUS
  <2> HIDE DEF H, r
  <2>4. r \in Seq(H \cup {n})
    BY <2>1, <2>2, <2>3, OneMoreFirst
  <2>5. IsInjective(r)
    BY <2>1, <2>2, <2>3, OneMoreFirst
  <2>6. Len(r) = Len(s) + 1 /\ r[1] = n /\ \A k \in 1..Len(s) : r[k + 1] = s[k]
    BY <2>1, <2>2, <2>3, OneMoreFirst
  <2>7. Range(r) = {r[k] : k \in 1..(L + 1)}
    BY <2>4, <2>6 DEF Range
  <2>8. \A k \in 1..(L + 1) : r[k] \in H \cup {n}
    BY <2>4, <2>6
  <2>9. ASSUME NEW x \in H PROVE \E k \in 1..(L + 1) : r[k] = x
    <3>1. PICK k \in 1..L : s[k] = x
      BY <2>2 DEF Range
    <3>2. r[k + 1] = x /\ k + 1 \in 1..(L + 1)
      BY <1>1, <2>6, <3>1
    <3> QED BY <3>2
  <2>10. \E k \in 1..(L + 1) : r[k] = n
    BY <1>1, <2>6
  <2>11. Range(r) = H \cup {n}
    BY <2>7, <2>8, <2>9, <2>10
  <2> QED BY <2>4, <2>5, <2>6, <2>11
<1>3. /\ DOMAIN heap' = H \cup {n}
      /\ heap'[n] = [task |-> t, next |-> q]
      /\ \A m \in H : heap'[m] = heap[m]
      /\ heap' = [m \in H \cup {n} |-> heap'[m]]
      /\ q' = n
  BY DEF PushNode, kmalloc
<1>4. \A m \in H : heap[m] \in [task : Task, next : Node \cup {NULL}]
  BY DEF HeapOK
<1>5. heap'[n].next = q /\ heap'[n].task = t
  BY <1>3
<1>6. HeapOK'
  <2>1. \A m \in H \cup {n} : heap'[m] \in [task : Task, next : Node \cup {NULL}]
    BY <1>1, <1>3, <1>4
  <2> QED BY <1>3, <2>1 DEF HeapOK
<1> HIDE DEF r
<1>7. \A k \in 1..L : heap[s[k]].next = IF k = L THEN NULL ELSE s[k + 1]
  BY DEF Listed, Linked
<1>8. \A k \in 1..Len(r) : k = 1 \/ (k - 1 \in 1..L /\ r[k] = s[k - 1])
  <2>1. ASSUME NEW k \in 1..Len(r), k # 1 PROVE k - 1 \in 1..L /\ (k - 1) + 1 = k
    BY <1>1, <1>2, <2>1
  <2> QED BY <1>2, <2>1
<1>9. Linked(r)'
  <2>1. ASSUME NEW k \in 1..Len(r)
        PROVE  heap'[r[k]].next = IF k = Len(r) THEN NULL ELSE r[k + 1]
    <3>1. CASE k = 1
      <4>1. L # 0 => r[k + 1] = s[1]
        BY <1>1, <1>2, <3>1
      <4> QED BY <1>1, <1>2, <1>5, <3>1, <4>1
    <3>2. CASE k # 1
      <4>1. k - 1 \in 1..L /\ r[k] = s[k - 1] /\ s[k - 1] \in H /\ (k - 1) + 1 = k
        BY <1>1, <1>8, <3>2
      <4>2. heap'[r[k]].next = IF k - 1 = L THEN NULL ELSE s[k]
        BY <1>3, <1>7, <4>1
      <4>3. k - 1 # L => r[k + 1] = s[k]
        BY <1>1, <1>2, <4>1
      <4> QED BY <1>1, <1>2, <4>1, <4>2, <4>3
    <3> QED BY <3>1, <3>2
  <2>2. q' = r[1]
    BY <1>2, <1>3
  <2> QED BY <2>1, <2>2 DEF Linked
<1>10. r # <<>>
  BY <1>1, <1>2
<1>11. Listed(r)'
  BY <1>2, <1>3, <1>9, <1>10 DEF Listed
<1>12. Queued' = <<t>> \o Queued
  <2> DEFINE u == TasksOf(s)
             v == <<t>> \o u
  <2>1. Queued' = [k \in 1..Len(r) |-> heap'[r[k]].task]
    BY <1>11, NextQueued
  <2>2. u \in Seq(Task) /\ Len(u) = L /\ \A k \in 1..L : u[k] = heap[s[k]].task
    BY <1>1
  <2> HIDE DEF u
  <2>3. /\ v \in Seq(Task) /\ Len(v) = L + 1 /\ v[1] = t
        /\ \A k \in 1..L : v[k + 1] = u[k]
    BY <1>1, <2>2
  <2> HIDE DEF v
  <2>4. ASSUME NEW k \in 1..Len(r) PROVE v[k] = heap'[r[k]].task
    <3>1. CASE k = 1
      BY <1>2, <1>5, <2>3, <3>1
    <3>2. CASE k # 1
      <4>1. k - 1 \in 1..L /\ r[k] = s[k - 1] /\ s[k - 1] \in H /\ (k - 1) + 1 = k
        BY <1>1, <1>8, <3>2
      <4> QED BY <1>3, <2>2, <2>3, <4>1
    <3> QED BY <3>1, <3>2
  <2>5. v = [k \in 1..Len(r) |-> v[k]]
    BY <1>2, <2>3, SeqIsFunction
  <2>6. v = [k \in 1..Len(r) |-> heap'[r[k]].task]
    BY <2>4, <2>5, Zenon
  <2> QED BY <1>1, <2>1, <2>6 DEF u, v
<1> QED BY <1>6, <1>11, <1>12 DEF r

(* The first node of all. *)
LEMMA FirstNode ==
  ASSUME DOMAIN heap = {}, NEW n \in Node, NEW t \in Task,
         heap' = kmalloc(n, t, NULL), q' = n
  PROVE  Listed(<<n>>)' /\ HeapOK' /\ Queued' = <<t>>
<1> DEFINE r == <<n>>
<1>1. /\ DOMAIN heap' = {n} /\ heap'[n] = [task |-> t, next |-> NULL]
      /\ heap' = [m \in {n} |-> heap'[m]]
  BY DEF kmalloc
<1>2. heap'[n].next = NULL /\ heap'[n].task = t
  BY <1>1
<1>3. HeapOK'
  BY <1>1 DEF HeapOK
<1>4. /\ r \in Seq({n}) /\ Len(r) = 1 /\ r[1] = n /\ r # <<>> /\ DOMAIN r = {1}
      /\ \A k \in 1..Len(r) : k = 1
  OBVIOUS
<1> HIDE DEF r
<1>5. IsInjective(r) /\ Range(r) = {n}
  BY <1>4 DEF IsInjective, Range
<1>6. Linked(r)'
  BY <1>2, <1>4 DEF Linked
<1>7. Listed(r)'
  BY <1>1, <1>4, <1>5, <1>6 DEF Listed
<1>8. Queued' = [k \in 1..Len(r) |-> heap'[r[k]].task]
  BY <1>7, NextQueued
<1>9. [k \in 1..Len(r) |-> heap'[r[k]].task] = <<t>>
  BY <1>2, <1>4
<1> QED BY <1>3, <1>7, <1>8, <1>9 DEF r
-------------------------------------------------------------------------------
(* The invariant: while the list is used it holds all nodes, tail is in    *)
(* its last one, and in BFS mode the node of the task being processed is   *)
(* still on it; before and after there are no nodes.                       *)
Used == {"loop", "dump", "children", "out_nomem"}

TypeInv ==
  /\ use_bfs \in BOOLEAN /\ children \in TaskTrees
  /\ pc \in Used \cup {"modinit", "alloc", "done", "gave_up", "esrch"}
  /\ pc \notin {"modinit", "esrch"} => task \in Task
  /\ list \in Nat \ {0}
  /\ HeapOK

GoodList(s) ==
  /\ Listed(s)
  /\ use_bfs /\ pc # "out_nomem" /\ s # <<>> => tail = s[Len(s)]
  /\ use_bfs /\ pc \in {"dump", "children"} => s # <<>>

HInv ==
  /\ TypeInv
  /\ pc \in Used => \E s : GoodList(s)
  /\ pc \notin Used => DOMAIN heap = {}

(* The children of a task are tasks. *)
LEMMA ChildIsTask ==
  ASSUME TypeInv, task \in Task, list <= Len(children[task])
  PROVE  children[task][list] \in Task
<1>1. children[task] \in Seq(Task)
  BY TreeAssumption DEF TypeInv, Walk!IsTaskTree
<1> QED BY <1>1 DEF TypeInv

LEMMA InitHInv == Init => HInv /\ Walk!Init
<1> SUFFICES ASSUME Init PROVE HInv /\ Walk!Init
  OBVIOUS
<1>1. DOMAIN heap = {} /\ heap = [n \in {} |-> heap[n]]
  BY DEF Init
<1>2. HInv
  BY <1>1 DEF Init, HInv, TypeInv, HeapOK, Used
<1>3. Queued = <<>>
  BY <1>1, NothingQueued
<1> QED BY <1>2, <1>3 DEF Init, Walk!Init, NULL, Walk!NULL

LEMMA LookupStep == HInv /\ get_user_pid_task => HInv' /\ Walk!get_user_pid_task
<1> SUFFICES ASSUME HInv, get_user_pid_task PROVE HInv' /\ Walk!get_user_pid_task
  OBVIOUS
<1>1. UNCHANGED <<q, heap>>
  BY DEF get_user_pid_task, queue
<1>2. Queued' = Queued /\ HeapOK'
  BY <1>1, ListKept DEF HInv, TypeInv
<1>3. HInv'
  BY <1>1, <1>2 DEF get_user_pid_task, params, HInv, TypeInv, Used
<1>4. Walk!get_user_pid_task
  BY <1>2 DEF get_user_pid_task, params, Walk!get_user_pid_task, Walk!params, Walk!get_task_struct
<1> QED BY <1>3, <1>4

LEMMA NoSuchTaskStep == HInv /\ NoSuchTask => HInv' /\ Walk!NoSuchTask
<1> SUFFICES ASSUME HInv, NoSuchTask PROVE HInv' /\ Walk!NoSuchTask
  OBVIOUS
<1>1. UNCHANGED <<q, heap>>
  BY DEF NoSuchTask, queue
<1>2. Queued' = Queued /\ HeapOK'
  BY <1>1, ListKept DEF HInv, TypeInv
<1>3. HInv'
  BY <1>1, <1>2 DEF NoSuchTask, params, HInv, TypeInv, Used
<1>4. Walk!NoSuchTask
  BY <1>2 DEF NoSuchTask, params, Walk!NoSuchTask, Walk!params
<1> QED BY <1>3, <1>4

LEMMA AllocFirstStep == HInv /\ AllocFirst => HInv' /\ Walk!AllocFirst
<1> SUFFICES ASSUME HInv, AllocFirst PROVE HInv' /\ Walk!AllocFirst
  OBVIOUS
<1>1. DOMAIN heap = {} /\ task \in Task /\ HeapOK /\ TypeInv
  BY DEF HInv, TypeInv, AllocFirst, Used
<1>2. CASE \E n \in Node \ DOMAIN heap :
             /\ q' = n
             /\ heap' = kmalloc(n, task, NULL)
             /\ tail' = IF use_bfs THEN n ELSE tail
             /\ pc' = "loop"
  <2>1. PICK n \in Node \ DOMAIN heap :
          /\ q' = n
          /\ heap' = kmalloc(n, task, NULL)
          /\ tail' = IF use_bfs THEN n ELSE tail
          /\ pc' = "loop"
    BY <1>2
  <2>2. Listed(<<n>>)' /\ HeapOK' /\ Queued' = <<task>>
    BY <1>1, <2>1, FirstNode
  <2>3. GoodList(<<n>>)'
    <3>1. Len(<<n>>) = 1 /\ <<n>>[1] = n
      OBVIOUS
    <3> QED BY <2>1, <2>2, <3>1 DEF GoodList, AllocFirst, params
  <2>4. HInv'
    BY <1>1, <2>1, <2>2, <2>3 DEF HInv, TypeInv, Used, AllocFirst, params
  <2>5. Walk!AllocFirst
    BY <2>1, <2>2 DEF AllocFirst, params, Walk!AllocFirst, Walk!params
  <2> QED BY <2>4, <2>5
<1>3. CASE q' = NULL /\ pc' = "out_nomem" /\ UNCHANGED <<tail, heap>>
  <2>1. HeapOK'
    BY <1>1, <1>3 DEF HeapOK
  <2>2. Queued = <<>>
    BY <1>1, NothingQueued
  <2>3. GoodList(<<>>)'
    <3>1. Len(<<>>) = 0 /\ <<>> \in Seq({}) /\ DOMAIN <<>> = {}
      OBVIOUS
    <3>2. Listed(<<>>)'
      BY <1>1, <1>3, <3>1 DEF Listed, Linked, IsInjective, Range
    <3> QED BY <1>3, <3>2 DEF GoodList
  <2>4. HInv'
    BY <1>1, <1>3, <2>1, <2>3 DEF HInv, TypeInv, Used, AllocFirst, params
  <2>5. Queued' = <<>>
    <3>1. Listed(<<>>)'
      BY <2>3 DEF GoodList
    <3>2. Queued' = [k \in 1..Len(<<>>) |-> heap'[<<>>[k]].task]
      BY <3>1, NextQueued
    <3> QED BY <3>2
  <2>6. Walk!AllocFirst
    BY <1>3, <2>2, <2>5 DEF AllocFirst, params, Walk!AllocFirst, Walk!params
  <2> QED BY <2>4, <2>6
<1> QED BY <1>2, <1>3 DEF AllocFirst

LEMMA TakeTaskStep == HInv /\ TakeTask => HInv' /\ Walk!TakeTask
<1> SUFFICES ASSUME HInv, TakeTask PROVE HInv' /\ Walk!TakeTask
  OBVIOUS
<1>1. HeapOK /\ TypeInv /\ q # NULL
  BY DEF HInv, TypeInv, TakeTask
<1>2. PICK s : GoodList(s)
  BY DEF HInv, TakeTask, Used
<1>3. Listed(s)
  BY <1>2 DEF GoodList
<1>4. /\ s # <<>> /\ q = s[1] /\ 1 \in 1..Len(s) /\ s[1] \in DOMAIN heap
      /\ Queued \in Seq(Task) /\ Queued # <<>> /\ Queued[1] = heap[q].task
  BY <1>1, <1>3, ListedFacts
<1>5. task' = Head(Queued) /\ task' \in Task
  BY <1>4 DEF TakeTask
<1>6. ASSUME NEW r, Listed(r)', HeapOK', use_bfs => r = s,
             r # <<>> => r[Len(r)] = s[Len(s)]
      PROVE  HInv'
  <2>1. GoodList(r)'
    BY <1>2, <1>4, <1>6 DEF GoodList, TakeTask, params
  <2> QED BY <1>1, <1>5, <1>6, <2>1 DEF HInv, TypeInv, Used, TakeTask, params
<1>7. CASE use_bfs
  <2>1. UNCHANGED <<q, heap>>
    BY <1>7 DEF TakeTask
  <2>2. Listed(s)' /\ HeapOK' /\ Queued' = Queued
    BY <1>1, <1>3, <2>1, ListKept
  <2>3. HInv'
    BY <1>6, <2>2
  <2> QED BY <1>4, <1>5, <1>7, <2>2, <2>3 DEF TakeTask, params, Walk!TakeTask, Walk!params
<1>8. CASE ~ use_bfs
  <2>1. PopHead
    BY <1>8 DEF TakeTask
  <2>2. /\ Listed(Tail(s))' /\ HeapOK' /\ Queued' = Tail(Queued)
        /\ Tail(s) # <<>> => Tail(s)[Len(Tail(s))] = s[Len(s)]
    BY <1>1, <1>3, <1>4, <2>1, PopStep
  <2>3. HInv'
    BY <1>6, <1>8, <2>2
  <2> QED BY <1>4, <1>5, <1>8, <2>2, <2>3 DEF TakeTask, params, Walk!TakeTask, Walk!params
<1> QED BY <1>7, <1>8

LEMMA DumpTaskStep == HInv /\ DumpTask => HInv' /\ Walk!DumpTask
<1> SUFFICES ASSUME HInv, DumpTask PROVE HInv' /\ Walk!DumpTask
  OBVIOUS
<1>1. UNCHANGED <<q, heap>> /\ HeapOK
  BY DEF HInv, TypeInv, DumpTask, queue
<1>2. PICK s : GoodList(s)
  BY DEF HInv, DumpTask, Used
<1>3. Queued' = Queued /\ HeapOK' /\ Listed(s)'
  BY <1>1, <1>2, ListKept DEF GoodList
<1>4. GoodList(s)'
  BY <1>2, <1>3 DEF GoodList, DumpTask, params, queue
<1>5. HInv'
  BY <1>3, <1>4 DEF HInv, TypeInv, Used, DumpTask, params
<1> QED BY <1>3, <1>5
        DEF DumpTask, params, Walk!DumpTask, Walk!params, Walk!dump_task_threads

LEMMA QueueChildStep == HInv /\ QueueChild => HInv' /\ Walk!QueueChild
<1> SUFFICES ASSUME HInv, QueueChild PROVE HInv' /\ Walk!QueueChild
  OBVIOUS
<1> DEFINE child == children[task][list]
<1>1. HeapOK /\ TypeInv /\ task \in Task /\ pc = "children" /\ list <= Len(children[task])
  BY DEF HInv, TypeInv, QueueChild
<1>2. child \in Task
  BY <1>1, ChildIsTask
<1>3. PICK s : GoodList(s)
  BY <1>1 DEF HInv, Used
<1>4. Listed(s)
  BY <1>3 DEF GoodList
<1>5. /\ refs' = [refs EXCEPT ![child] = @ + 1]
      /\ UNCHANGED <<params, root, task, pid_refs, dumped>>
  BY DEF QueueChild
<1> HIDE DEF child
<1>6. CASE /\ \E n \in Node \ DOMAIN heap :
                IF use_bfs THEN AppendNode(n, child) ELSE PushNode(n, child)
           /\ list' = list + 1
           /\ UNCHANGED pc
  <2>1. PICK n \in Node \ DOMAIN heap :
          IF use_bfs THEN AppendNode(n, child) ELSE PushNode(n, child)
    BY <1>6
  <2>2. ASSUME NEW r, Listed(r)', HeapOK', use_bfs => tail' = r[Len(r)], r # <<>>
        PROVE  HInv'
    <3>1. GoodList(r)'
      BY <1>5, <2>2 DEF GoodList, params
    <3> QED BY <1>1, <1>5, <1>6, <2>2, <3>1 DEF HInv, TypeInv, Used, params
  <2>3. CASE use_bfs
    <3>1. s # <<>> /\ tail = s[Len(s)]
      BY <1>1, <1>3, <2>3 DEF GoodList
    <3>2. /\ Listed(Append(s, n))' /\ HeapOK' /\ Queued' = Append(Queued, child)
          /\ tail' = Append(s, n)[Len(Append(s, n))]
      BY <1>1, <1>2, <1>4, <2>1, <2>3, <3>1, AppendStep
    <3>3. Append(s, n) # <<>>
      <4>1. s \in Seq(Node) /\ n \in Node
        BY <1>1, <1>4, ListedFacts
      <4> QED BY <4>1
    <3>4. HInv'
      BY <2>2, <3>2, <3>3
    <3> QED BY <1>1, <1>5, <1>6, <2>3, <3>2, <3>4
            DEF child, params, Walk!QueueChild, Walk!Enqueue, Walk!params, Walk!get_task_struct
  <2>4. CASE ~ use_bfs
    <3>1. Listed(<<n>> \o s)' /\ HeapOK' /\ Queued' = <<child>> \o Queued
      BY <1>1, <1>2, <1>4, <2>1, <2>4, PushStep
    <3>2. <<n>> \o s # <<>>
      BY <1>1, <1>4, ListedFacts
    <3>3. HInv'
      BY <2>2, <2>4, <3>1, <3>2
    <3> QED BY <1>1, <1>5, <1>6, <2>4, <3>1, <3>3
            DEF child, params, Walk!QueueChild, Walk!Enqueue, Walk!params, Walk!get_task_struct
  <2> QED BY <2>3, <2>4
<1>7. CASE pc' = "out_nomem" /\ UNCHANGED <<list, queue>>
  <2>1. UNCHANGED <<q, heap>>
    BY <1>7 DEF queue
  <2>2. Queued' = Queued /\ HeapOK' /\ Listed(s)'
    BY <1>1, <1>4, <2>1, ListKept
  <2>3. GoodList(s)'
    BY <1>7, <2>2 DEF GoodList
  <2>4. HInv'
    BY <1>1, <1>5, <1>7, <2>2, <2>3 DEF HInv, TypeInv, Used, params
  <2> QED BY <1>1, <1>5, <1>7, <2>2, <2>4
          DEF child, params, Walk!QueueChild, Walk!params, Walk!get_task_struct
<1> QED BY <1>6, <1>7 DEF QueueChild, child

LEMMA FinishTaskStep == HInv /\ FinishTask => HInv' /\ Walk!FinishTask
<1> SUFFICES ASSUME HInv, FinishTask PROVE HInv' /\ Walk!FinishTask
  OBVIOUS
<1>1. HeapOK /\ TypeInv /\ task \in Task /\ pc = "children"
  BY DEF HInv, TypeInv, FinishTask
<1>2. PICK s : GoodList(s)
  BY <1>1 DEF HInv, Used
<1>3. Listed(s)
  BY <1>2 DEF GoodList
<1>4. ASSUME NEW r, Listed(r)', HeapOK', use_bfs /\ r # <<>> => tail = r[Len(r)]
      PROVE  HInv'
  <2>1. GoodList(r)'
    BY <1>4 DEF GoodList, FinishTask, params
  <2> QED BY <1>1, <1>4, <2>1 DEF HInv, TypeInv, Used, FinishTask, params
<1>5. CASE use_bfs
  <2>1. PopHead /\ s # <<>> /\ tail = s[Len(s)]
    BY <1>1, <1>2, <1>5 DEF FinishTask, GoodList
  <2>2. /\ Listed(Tail(s))' /\ HeapOK' /\ Queued' = Tail(Queued)
        /\ Tail(s) # <<>> => Tail(s)[Len(Tail(s))] = s[Len(s)]
    BY <1>1, <1>3, <2>1, PopStep
  <2>3. HInv'
    BY <1>4, <2>1, <2>2
  <2> QED BY <1>5, <2>2, <2>3
          DEF FinishTask, params, Walk!FinishTask, Walk!params, Walk!put_task_struct
<1>6. CASE ~ use_bfs
  <2>1. UNCHANGED <<q, heap>>
    BY <1>6 DEF FinishTask
  <2>2. Queued' = Queued /\ HeapOK' /\ Listed(s)'
    BY <1>1, <1>3, <2>1, ListKept
  <2>3. HInv'
    BY <1>4, <1>6, <2>2
  <2> QED BY <1>6, <2>2, <2>3
          DEF FinishTask, params, Walk!FinishTask, Walk!params, Walk!put_task_struct
<1> QED BY <1>5, <1>6

(* A list that q says is empty has no node, so that nothing is left. *)
LEMMA EmptyList ==
  ASSUME HeapOK, NEW s, Listed(s), q = NULL
  PROVE  DOMAIN heap = {}
<1>1. s = <<>> /\ Len(s) = 0
  BY ListedFacts
<1>2. \A x \in DOMAIN heap : \E k \in 1..Len(s) : s[k] = x
  BY ListedFacts
<1> QED BY <1>1, <1>2

LEMMA WalkDoneStep == HInv /\ WalkDone => HInv' /\ Walk!WalkDone
<1> SUFFICES ASSUME HInv, WalkDone PROVE HInv' /\ Walk!WalkDone
  OBVIOUS
<1>1. HeapOK /\ TypeInv /\ UNCHANGED <<q, heap>> /\ q = NULL
  BY DEF HInv, TypeInv, WalkDone, queue
<1>2. PICK s : GoodList(s)
  BY DEF HInv, Used, WalkDone
<1>3. DOMAIN heap = {}
  BY <1>1, <1>2, EmptyList DEF GoodList
<1>4. Queued' = Queued /\ HeapOK' /\ Queued = <<>>
  BY <1>1, <1>3, ListKept, NothingQueued
<1>5. HInv'
  BY <1>1, <1>3, <1>4 DEF HInv, TypeInv, Used, WalkDone, params
<1> QED BY <1>4, <1>5 DEF WalkDone, params, Walk!WalkDone, Walk!params

LEMMA FreeQueueStep == HInv /\ FreeQueue => HInv' /\ Walk!FreeQueue
<1> SUFFICES ASSUME HInv, FreeQueue PROVE HInv' /\ Walk!FreeQueue
  OBVIOUS
<1>1. HeapOK /\ TypeInv /\ task \in Task /\ pc = "out_nomem"
  BY DEF HInv, TypeInv, FreeQueue
<1>2. PICK s : GoodList(s)
  BY <1>1 DEF HInv, Used
<1>3. Listed(s)
  BY <1>2 DEF GoodList
<1>4. CASE q # NULL /\ PopHead /\ UNCHANGED pc
  <2>1. s # <<>> /\ Queued # <<>>
    BY <1>1, <1>3, <1>4, ListedFacts
  <2>2. Listed(Tail(s))' /\ HeapOK' /\ Queued' = Tail(Queued)
    BY <1>1, <1>3, <1>4, <2>1, PopStep
  <2>3. GoodList(Tail(s))'
    BY <1>1, <1>4, <2>2 DEF GoodList
  <2>4. HInv'
    BY <1>1, <1>4, <2>2, <2>3 DEF HInv, TypeInv, Used, FreeQueue, params
  <2> QED BY <1>1, <1>4, <2>1, <2>2, <2>4 DEF FreeQueue, params, Walk!FreeQueue, Walk!params
<1>5. CASE q = NULL /\ pc' = "gave_up" /\ UNCHANGED <<q, heap>>
  <2>1. DOMAIN heap = {}
    BY <1>1, <1>3, <1>5, EmptyList
  <2>2. Queued' = Queued /\ HeapOK' /\ Queued = <<>>
    BY <1>1, <1>5, <2>1, ListKept, NothingQueued
  <2>3. HInv'
    BY <1>1, <1>5, <2>1, <2>2 DEF HInv, TypeInv, Used, FreeQueue, params
  <2> QED BY <1>1, <1>5, <2>2, <2>3 DEF FreeQueue, params, Walk!FreeQueue, Walk!params
<1> QED BY <1>4, <1>5 DEF FreeQueue

(* Nothing happens: nothing is taken from the list either. *)
LEMMA StutterStep == HInv /\ UNCHANGED vars => HInv' /\ UNCHANGED Walk!vars
<1> SUFFICES ASSUME HInv, UNCHANGED vars PROVE HInv' /\ UNCHANGED Walk!vars
  OBVIOUS
<1>1. UNCHANGED <<q, heap>>
  BY DEF vars
<1>2. Queued' = Queued /\ HeapOK' /\ \A s : Listed(s) => Listed(s)'
  BY <1>1, ListKept DEF HInv, TypeInv
<1>3. \A s : GoodList(s) => GoodList(s)'
  BY <1>2 DEF GoodList, vars
<1>4. HInv'
  BY <1>1, <1>2, <1>3 DEF HInv, TypeInv, vars
<1> QED BY <1>2, <1>4 DEF vars, Walk!vars

(* Every step of the function keeps the invariant and is a step of         *)
(* TaskTreeWalk on the queue that the nodes hold.                          *)
LEMMA HeapStep == HInv /\ [Next]_vars => HInv' /\ [Walk!Next]_(Walk!vars)
BY LookupStep, NoSuchTaskStep, AllocFirstStep, TakeTaskStep, DumpTaskStep, QueueChildStep,
   FinishTaskStep, WalkDoneStep, FreeQueueStep, StutterStep DEF Next, Walk!Next
-------------------------------------------------------------------------------
(* The list of dump_children_tree() is intact in every state, for every    *)
(* tree, mode and order in which addresses are handed out again.           *)
THEOREM HeapInvariant == Spec => []HInv
BY InitHInv, HeapStep, PTL DEF Spec

(* ListWellFormed: every allocated node is on the list once, the list      *)
(* ends, *tail is the next field of its last node whenever it may be       *)
(* stored through, and nothing is allocated when modinit() returns.        *)
THEOREM HeapListWellFormed == Spec => []ListWellFormed
<1>1. HInv => ListWellFormed
  <2> SUFFICES ASSUME HInv PROVE ListWellFormed
    OBVIOUS
  <2>1. ASSUME pc \in Used
        PROVE  \E s \in Orders :
                 /\ Linked(s)
                 /\ s = <<>> => q = NULL
                 /\ use_bfs /\ pc # "out_nomem" /\ s # <<>> => tail = s[Len(s)]
    <3>1. PICK s : GoodList(s)
      BY <2>1 DEF HInv
    <3>2. s \in Orders
      BY <3>1, ListedIsChain DEF ChainIsList, GoodList
    <3> QED BY <3>1, <3>2 DEF GoodList, Listed
  <2>2. pc \in {"done", "gave_up", "esrch"} => DOMAIN heap = {}
    BY DEF HInv, Used
  <2> QED BY <2>1, <2>2 DEF ListWellFormed, Used
<1> QED BY <1>1, HeapInvariant, PTL

(* The linked list implements the sequence of TaskTreeWalk. *)
THEOREM HeapImplementsWalk == Spec => ImplementsWalk
BY InitHInv, HeapStep, HeapInvariant, PTL DEF Spec, ImplementsWalk, Walk!Spec

(* The theorems about TaskTreeWalk, of the queue that the nodes hold. *)
P == INSTANCE TaskTreeWalkProofs WITH q <- Queued

LEMMA SameWalk == Walk!Spec => P!Spec
<1>1. Walk!Init <=> P!Init
  BY DEF Walk!Init, P!Init, Walk!NULL, P!NULL
<1>2. Walk!Next <=> P!Next
  BY DEF Walk!Next, P!Next, Walk!get_user_pid_task, P!get_user_pid_task, Walk!NoSuchTask,
         P!NoSuchTask, Walk!AllocFirst, P!AllocFirst, Walk!TakeTask, P!TakeTask, Walk!DumpTask,
         P!DumpTask, Walk!QueueChild, P!QueueChild, Walk!FinishTask, P!FinishTask, Walk!WalkDone,
         P!WalkDone, Walk!FreeQueue, P!FreeQueue, Walk!params, P!params, Walk!get_task_struct,
         P!get_task_struct, Walk!put_task_struct, P!put_task_struct, Walk!Enqueue, P!Enqueue,
         Walk!dump_task_threads, P!dump_task_threads
<1>3. [Walk!Next]_(Walk!vars) <=> [P!Next]_(P!vars)
  BY <1>2 DEF Walk!vars, P!vars
<1> QED BY <1>1, <1>3, PTL DEF Walk!Spec, P!Spec

(* What is proved of the walk over a sequence therefore holds of the walk  *)
(* over the linked list, for every order in which addresses are reused:    *)
(* tasks on the list are held, every task is printed once and after its    *)
(* parent, the whole tree is, level by level with bfs=1 and subtree by     *)
(* subtree without it.                                                     *)
THEOREM HeapWalksTree ==
  Spec => [](/\ P!PendingTasksHeld /\ P!DumpedOnce /\ P!ParentDumpedFirst
             /\ P!WholeTreeDumped /\ P!BfsLevelOrder /\ P!DfsSubtreesContiguous)
<1>1. Spec => P!Spec
  BY HeapImplementsWalk, SameWalk DEF ImplementsWalk
<1>2. P!Spec => []P!PendingTasksHeld
  BY P!WalkHoldsPending, TreeAssumption DEF P!NULL, P!IsTaskTree, NULL, Walk!IsTaskTree
<1>3. P!Spec => []P!DumpedOnce
  BY P!WalkDumpsOnce, TreeAssumption DEF P!NULL, P!IsTaskTree, NULL, Walk!IsTaskTree
<1>4. P!Spec => []P!ParentDumpedFirst
  BY P!WalkDumpsParentsFirst, TreeAssumption DEF P!NULL, P!IsTaskTree, NULL, Walk!IsTaskTree
<1>5. P!Spec => []P!WholeTreeDumped
  BY P!WalkDumpsWholeTree, TreeAssumption DEF P!NULL, P!IsTaskTree, NULL, Walk!IsTaskTree
<1>6. P!Spec => []P!BfsLevelOrder
  BY P!WalkPrintsByLevel, TreeAssumption DEF P!NULL, P!IsTaskTree, NULL, Walk!IsTaskTree
<1>7. P!Spec => []P!DfsSubtreesContiguous
  BY P!WalkPrintsBySubtree, TreeAssumption DEF P!NULL, P!IsTaskTree, NULL, Walk!IsTaskTree
<1> QED BY <1>1, <1>2, <1>3, <1>4, <1>5, <1>6, <1>7, PTL
===============================================================================
