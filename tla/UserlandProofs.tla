---------------------------- MODULE UserlandProofs ----------------------------
(***************************************************************************)
(* Proofs about Userland, the programs of the repository. Each program has *)
(* an inductive invariant of its own, over the points of its main() and    *)
(* over what the kernel, the children or earlier runs may do meanwhile;    *)
(* Inv is their conjunction.                                               *)
(***************************************************************************)
EXTENDS Userland, FiniteSetTheorems, TLAPS

(* A power of 2 is positive: the number of subsets of a set. *)
LEMMA PowerPositive == ASSUME NEW n \in Nat PROVE 2^n \in Nat \ {0}
<1>1. IsFiniteSet(1..n) /\ Cardinality(1..n) = n
  BY FS_Interval
<1>2. IsFiniteSet(SUBSET (1..n)) /\ Cardinality(SUBSET (1..n)) = 2^n
  BY <1>1, FS_SUBSET
<1>3. SUBSET (1..n) # {}
  OBVIOUS
<1>4. Cardinality(SUBSET (1..n)) \in Nat /\ Cardinality(SUBSET (1..n)) # 0
  BY <1>2, <1>3, FS_CardinalityType, FS_EmptySet
<1> QED BY <1>2, <1>4

(* pagemap packs the type of a swap slot below its offset: masking and   *)
(* shifting get both back.                                               *)
LEMMA SplitSwapEntry ==
  ASSUME NEW W \in Nat \ {0}, NEW ty \in 0..(W - 1), NEW o \in Nat
  PROVE  (ty + o * W) % W = ty /\ (ty + o * W) \div W = o
OBVIOUS

(* The forms of the arguments that usage_exit() prints. *)
Numbers == {"pid", "addr"}
VirtualForm == {"pid", "self"} \X Numbers
PhysicalForm == {<<a>> : a \in Numbers}
PlainForm == VirtualForm \cup PhysicalForm
HackForm == {Append(a, "hack") : a \in PlainForm}

(* What Append() makes, by places. *)
LEMMA Appended ==
  ASSUME NEW S, NEW s \in Seq(S), NEW e \in S, NEW r, r = Append(s, e)
  PROVE  /\ r \in Seq(S) /\ Len(r) = Len(s) + 1
         /\ \A k \in 1..Len(s) : r[k] = s[k]
         /\ r[Len(s) + 1] = e
OBVIOUS

(* Append() on the arguments of one and of two. *)
LEMMA AppendedTuple ==
  ASSUME NEW x, NEW y, NEW z
  PROVE  Append(<<x>>, z) = <<x, z>> /\ Append(<<x, y>>, z) = <<x, y, z>>
<1> DEFINE A == {x, y, z}
           one == <<x>>
           two == <<x, y>>
           r == Append(one, z)
           q == Append(two, z)
<1>1. one \in Seq(A) /\ Len(one) = 1 /\ one[1] = x
  OBVIOUS
<1>2. two \in Seq(A) /\ Len(two) = 2 /\ two[1] = x /\ two[2] = y
  OBVIOUS
<1>3. z \in A
  OBVIOUS
<1> HIDE DEF A, one, two, r, q
<1>4. r \in Seq(A) /\ Len(r) = 2 /\ r[1] = x /\ r[2] = z
  <2>0. r = Append(one, z)
    BY DEF r
  <2>1. /\ r \in Seq(A)
        /\ Len(r) = Len(one) + 1
        /\ \A k \in 1..Len(one) : r[k] = one[k]
        /\ r[Len(one) + 1] = z
    BY <1>1, <1>3, <2>0, Appended
  <2>2. 1 \in 1..Len(one) /\ Len(one) + 1 = 2
    BY <1>1
  <2> QED BY <2>1, <2>2, <1>1
<1>5. q \in Seq(A) /\ Len(q) = 3 /\ q[1] = x /\ q[2] = y /\ q[3] = z
  <2>0. q = Append(two, z)
    BY DEF q
  <2>1. /\ q \in Seq(A)
        /\ Len(q) = Len(two) + 1
        /\ \A k \in 1..Len(two) : q[k] = two[k]
        /\ q[Len(two) + 1] = z
    BY <1>2, <1>3, <2>0, Appended
  <2>2. 1 \in 1..Len(two) /\ 2 \in 1..Len(two) /\ Len(two) + 1 = 3
    BY <1>2
  <2> QED BY <2>1, <2>2, <1>2
<1>6. r = <<x, z>>
  BY <1>4
<1>7. q = <<x, y, z>>
  BY <1>5
<1> QED BY <1>6, <1>7 DEF one, two, r, q

(* Each form, by the number of the arguments and what each of them is. *)
LEMMA Forms ==
  ASSUME argv \in Arguments
  PROVE  /\ Len(argv) \in 0..4 /\ \A k \in 1..Len(argv) : argv[k] \in Token
         /\ argv \in VirtualForm <=>
              Len(argv) = 2 /\ argv[1] \in {"pid", "self"} /\ argv[2] \in Numbers
         /\ argv \in PhysicalForm <=> Len(argv) = 1 /\ argv[1] \in Numbers
         /\ (\E a \in VirtualForm : argv = Append(a, "hack")) <=>
              /\ Len(argv) = 3 /\ argv[3] = "hack"
              /\ argv[1] \in {"pid", "self"} /\ argv[2] \in Numbers
         /\ (\E a \in PhysicalForm : argv = Append(a, "hack")) <=>
              Len(argv) = 2 /\ argv[2] = "hack" /\ argv[1] \in Numbers
<1>1. PICK n \in 0..4 : argv \in [1..n -> Token]
  BY DEF Arguments
<1>2. argv \in Seq(Token) /\ Len(argv) = n /\ DOMAIN argv = 1..n
  BY <1>1
<1>3. argv \in VirtualForm <=>
        Len(argv) = 2 /\ argv[1] \in {"pid", "self"} /\ argv[2] \in Numbers
  <2>1. ASSUME argv \in VirtualForm
        PROVE  Len(argv) = 2 /\ argv[1] \in {"pid", "self"} /\ argv[2] \in Numbers
    BY <2>1 DEF VirtualForm
  <2>2. ASSUME Len(argv) = 2, argv[1] \in {"pid", "self"}, argv[2] \in Numbers
        PROVE  argv \in VirtualForm
    <3>1. argv = <<argv[1], argv[2]>>
      BY <1>2, <2>2
    <3> QED BY <2>2, <3>1 DEF VirtualForm
  <2> QED BY <2>1, <2>2
<1>4. argv \in PhysicalForm <=> Len(argv) = 1 /\ argv[1] \in Numbers
  <2>1. ASSUME argv \in PhysicalForm PROVE Len(argv) = 1 /\ argv[1] \in Numbers
    BY <2>1 DEF PhysicalForm
  <2>2. ASSUME Len(argv) = 1, argv[1] \in Numbers PROVE argv \in PhysicalForm
    <3>1. argv = <<argv[1]>>
      BY <1>2, <2>2
    <3> QED BY <2>2, <3>1 DEF PhysicalForm
  <2> QED BY <2>1, <2>2
<1>5. (\E a \in VirtualForm : argv = Append(a, "hack")) <=>
        /\ Len(argv) = 3 /\ argv[3] = "hack"
        /\ argv[1] \in {"pid", "self"} /\ argv[2] \in Numbers
  <2>1. ASSUME NEW a \in VirtualForm, argv = Append(a, "hack")
        PROVE  /\ Len(argv) = 3 /\ argv[3] = "hack"
               /\ argv[1] \in {"pid", "self"} /\ argv[2] \in Numbers
    <3>1. PICK x \in {"pid", "self"}, y \in Numbers : a = <<x, y>>
      BY <2>1 DEF VirtualForm
    <3>2. argv = <<x, y, "hack">>
      BY <2>1, <3>1, AppendedTuple
    <3> QED BY <3>1, <3>2
  <2>2. ASSUME Len(argv) = 3, argv[3] = "hack", argv[1] \in {"pid", "self"}, argv[2] \in Numbers
        PROVE  \E a \in VirtualForm : argv = Append(a, "hack")
    <3> DEFINE a == <<argv[1], argv[2]>>
    <3>1. a \in VirtualForm
      BY <2>2 DEF VirtualForm
    <3>2. argv = Append(a, "hack")
      <4>1. Append(a, "hack") = <<argv[1], argv[2], "hack">>
        BY AppendedTuple
      <4>2. argv = <<argv[1], argv[2], "hack">>
        BY <1>2, <2>2
      <4> QED BY <4>1, <4>2
    <3> QED BY <3>1, <3>2
  <2> QED BY <2>1, <2>2
<1>6. (\E a \in PhysicalForm : argv = Append(a, "hack")) <=>
        Len(argv) = 2 /\ argv[2] = "hack" /\ argv[1] \in Numbers
  <2>1. ASSUME NEW a \in PhysicalForm, argv = Append(a, "hack")
        PROVE  Len(argv) = 2 /\ argv[2] = "hack" /\ argv[1] \in Numbers
    <3>1. PICK x \in Numbers : a = <<x>>
      BY <2>1 DEF PhysicalForm
    <3>2. argv = <<x, "hack">>
      BY <2>1, <3>1, AppendedTuple
    <3> QED BY <3>1, <3>2
  <2>2. ASSUME Len(argv) = 2, argv[2] = "hack", argv[1] \in Numbers
        PROVE  \E a \in PhysicalForm : argv = Append(a, "hack")
    <3> DEFINE a == <<argv[1]>>
    <3>1. a \in PhysicalForm
      BY <2>2 DEF PhysicalForm
    <3>2. argv = Append(a, "hack")
      <4>1. Append(a, "hack") = <<argv[1], "hack">>
        BY AppendedTuple
      <4>2. argv = <<argv[1], "hack">>
        BY <1>2, <2>2
      <4> QED BY <4>1, <4>2
    <3> QED BY <3>1, <3>2
  <2> QED BY <2>1, <2>2
<1> QED BY <1>1, <1>2, <1>3, <1>4, <1>5, <1>6

(* Counting from the end, main() accepts the forms that it prints and no *)
(* others, and tells them apart.                                         *)
LEMMA UsageIsAccepted ==
  ASSUME argv \in Arguments
  PROVE  /\ Accepted <=> argv \in PlainForm \cup HackForm
         /\ Accepted => /\ HackGiven <=> argv \in HackForm
                        /\ argc = 2 <=> \E a \in VirtualForm : argv \in {a, Append(a, "hack")}
<1> DEFINE n == Len(argv)
           vh == \E a \in VirtualForm : argv = Append(a, "hack")
           ph == \E a \in PhysicalForm : argv = Append(a, "hack")
<1>1. argv \in HackForm <=> vh \/ ph
  BY DEF HackForm, PlainForm
<1>2. argv \in PlainForm <=> argv \in VirtualForm \/ argv \in PhysicalForm
  BY DEF PlainForm
<1>3. (\E a \in VirtualForm : argv \in {a, Append(a, "hack")}) <=> argv \in VirtualForm \/ vh
  OBVIOUS
<1>4. n \in {0, 1, 2, 3, 4} /\ \A k \in 1..n : argv[k] \in Token
  BY Forms
<1>5. argv \in VirtualForm <=> n = 2 /\ argv[1] \in {"pid", "self"} /\ argv[2] \in Numbers
  BY Forms
<1>6. argv \in PhysicalForm <=> n = 1 /\ argv[1] \in Numbers
  BY Forms
<1>7. vh <=> /\ n = 3 /\ argv[3] = "hack"
             /\ argv[1] \in {"pid", "self"} /\ argv[2] \in Numbers
  BY Forms
<1>8. ph <=> n = 2 /\ argv[2] = "hack" /\ argv[1] \in Numbers
  BY Forms
<1> HIDE DEF vh, ph
<1> USE DEF Accepted, UsageError, BadArgument, argc, HackGiven, IsPid, IsAddr, Numbers, Token
<1>9. Accepted <=> argv \in VirtualForm \/ argv \in PhysicalForm \/ vh \/ ph
  <2>1. CASE n = 0
    BY <1>5, <1>6, <1>7, <1>8, <2>1
  <2>2. CASE n = 1
    BY <1>5, <1>6, <1>7, <1>8, <2>2
  <2>3. CASE n = 2
    BY <1>5, <1>6, <1>7, <1>8, <2>3
  <2>4. CASE n = 3
    BY <1>5, <1>6, <1>7, <1>8, <2>4
  <2>5. CASE n = 4
    BY <1>5, <1>6, <1>7, <1>8, <2>5
  <2> QED BY <1>4, <2>1, <2>2, <2>3, <2>4, <2>5
<1>10. Accepted => (HackGiven <=> vh \/ ph) /\ (argc = 2 <=> argv \in VirtualForm \/ vh)
  BY <1>5, <1>6, <1>7, <1>8, <1>9
<1> QED BY <1>1, <1>2, <1>3, <1>9, <1>10

(* Where a page can be. *)
Placed(p) == p = None \/ p \in Swap \/ \E f \in Frame : p = Present(f)

(* The line for a page that is present in frame f. *)
Paddr(f) == [kind |-> "paddr", pfn |-> f,
             paddr |-> f * 2^PAGE_SHIFT + (addr % 2^PAGE_SHIFT)]

(* What main() has made of the arguments. *)
PiArgs ==
  /\ argv \in Arguments
  /\ pc = "rejected" => ~Accepted
  /\ pc \notin {"main", "rejected"} => /\ Accepted
                                       /\ hack <=> HackGiven
                                       /\ virt <=> argc = 2

(* The frame that holds the page is not used for anything else, and      *)
(* frame 0 for nothing.                                                  *)
PiKernel ==
  /\ Placed(page)
  /\ use = [f \in Frame |-> use[f]]
  /\ \A f \in Frame : page = Present(f) => use[f] = "mapped"
  /\ use[0] = "reserved"

(* What pagemap shows of a place. *)
Told(p) == IF sys_admin THEN p.pfn ELSE 0
ToldSlot(p) == IF sys_admin THEN p ELSE [kind |-> "swap", type |-> 0, offset |-> 0]

(* What is known of the line printed for pagemap from then on: it says   *)
(* what pagemap showed, and the frame that is looked up is the same.     *)
Reported ==
  /\ pc # "exit0" => seen.kind = "present"
  /\ seen.kind = "present" => pfn = Told(seen) /\ line = Paddr(Told(seen))
  /\ seen.kind = "swap" => line = ToldSlot(seen)
  /\ seen.kind = "none" => line = None

(* If nothing has moved, the page is where pagemap said, and the two     *)
(* other files were read about that frame.                               *)
StillThere ==
  quiet /\ seen.kind = "present" =>
    /\ page = seen
    /\ pc = "kpagecount" => IF sys_admin THEN "MMAP" \in kpf ELSE kpf = {"RESERVED"}
    /\ pc = "exit0" => IF sys_admin THEN "MMAP" \in shown /\ count = 1
                                    ELSE shown \subseteq {"RESERVED"} /\ count = 0

(* The inductive invariant of pageinfo. *)
PiInv ==
  /\ PiArgs /\ PiKernel /\ Placed(seen)
  /\ pc \in {"kpageflags", "kpagecount", "exit0"} /\ virt => Reported /\ StillThere

(* It holds when the program starts. *)
LEMMA PiInit == Init => PiInv
<1> SUFFICES ASSUME Init PROVE PiInv
  OBVIOUS
<1> USE DEF Init
<1>1. PiArgs
  BY DEF PiArgs
<1>2. PiKernel
  <2>1. 0 \in Frame
    BY PageInfoAssumption DEF Frame
  <2> QED BY <2>1 DEF PiKernel, Placed, None, Present
<1>3. Placed(seen)
  BY DEF Placed
<1> QED BY <1>1, <1>2, <1>3 DEF PiInv

(* The kind of a place tells which place it is. *)
LEMMA KindTells ==
  ASSUME NEW p, Placed(p)
  PROVE  /\ p.kind = "none" => p = None
         /\ p.kind = "present" => p.pfn \in Frame /\ p = Present(p.pfn)
         /\ p.kind = "swap" => p \in Swap
         /\ p.kind \in {"none", "present", "swap"}
<1>1. CASE p = None
  BY <1>1 DEF None
<1>2. CASE p \in Swap
  BY <1>2 DEF Swap
<1>3. CASE \E f \in Frame : p = Present(f)
  BY <1>3 DEF Present
<1> QED BY <1>1, <1>2, <1>3 DEF Placed

(* dump_pagemap() decodes the entry of a page, wherever that is. *)
LEMMA Pagemap ==
  ASSUME NEW p, Placed(p), NEW dirty \in BOOLEAN
  PROVE  /\ Entry(p, dirty).PRESENT <=> p.kind = "present"
         /\ p.kind = "present" => /\ LookedUp(Entry(p, dirty)) = Told(p)
                                  /\ Location(Entry(p, dirty)) = Paddr(Told(p))
         /\ p.kind = "swap" => Location(Entry(p, dirty)) = ToldSlot(p)
         /\ p.kind = "none" => Location(Entry(p, dirty)) = None
<1> DEFINE pm == Entry(p, dirty)
<1>1. /\ pm.PRESENT <=> p.kind = "present"
      /\ pm.SWAP <=> p.kind = "swap"
      /\ p.kind = "present" => pm.low = Told(p)
      /\ p.kind = "swap" =>
           pm.low = IF sys_admin THEN p.type + p.offset * 2^TypeBits ELSE 0
  <2>1. (pm.PRESENT <=> p.kind = "present") /\ (pm.SWAP <=> p.kind = "swap")
    BY DEF Entry
  <2>2. CASE sys_admin
    BY <2>1, <2>2 DEF Entry, Told
  <2>3. CASE ~sys_admin
    BY <2>1, <2>3 DEF Entry, Told
  <2> QED BY <2>1, <2>2, <2>3
<1> HIDE DEF pm
<1>2. ASSUME p.kind = "present"
      PROVE  LookedUp(pm) = Told(p) /\ Location(pm) = Paddr(Told(p))
  BY <1>1, <1>2 DEF LookedUp, Location, Paddr
<1>3. ASSUME p.kind = "swap" PROVE Location(pm) = ToldSlot(p)
  <2> DEFINE W == 2^TypeBits
             low == p.type + p.offset * W
  <2>1. W \in Nat \ {0} /\ 2^OffsetBits \in Nat \ {0}
    BY PowerPositive, PageInfoAssumption
  <2>2. p \in Swap
    BY <1>3, KindTells
  <2>3. p.type \in 0..(W - 1) /\ p.offset \in Nat
    BY <2>1, <2>2 DEF Swap
  <2>4. Location(pm) = [kind |-> "swap", type |-> pm.low % W, offset |-> pm.low \div W]
    BY <1>1, <1>3 DEF Location
  <2>5. pm.low = IF sys_admin THEN low ELSE 0
    BY <1>1, <1>3
  <2> HIDE DEF W
  <2>6. low % W = p.type /\ low \div W = p.offset
    BY <2>1, <2>3, SplitSwapEntry
  <2>8. 0 % W = 0 /\ 0 \div W = 0
    BY <2>1
  <2> HIDE DEF low
  <2>7. p = [kind |-> "swap", type |-> p.type, offset |-> p.offset]
    BY <2>2 DEF Swap
  <2> QED BY <2>4, <2>5, <2>6, <2>7, <2>8 DEF ToldSlot
<1>4. ASSUME p.kind = "none" PROVE Location(pm) = None
  BY <1>1, <1>4 DEF Location
<1> QED BY <1>1, <1>2, <1>3, <1>4 DEF pm

(* What main() thinks of the arguments depends on nothing else. *)
LEMMA SameArguments ==
  ASSUME UNCHANGED argv
  PROVE  (Accepted' <=> Accepted) /\ (HackGiven' <=> HackGiven) /\ argc' = argc
BY DEF Accepted, UsageError, BadArgument, HackGiven, argc

(* Every step of the program, and of the kernel under it, keeps it. *)
LEMMA PiStep == PiInv /\ [Next]_vars => PiInv'
<1> SUFFICES ASSUME PiInv, [Next]_vars PROVE PiInv'
  OBVIOUS
<1> USE DEF PiInv
<1>1. PiArgs'
  <2> USE DEF PiArgs
  <2>1. CASE main_Rejects
    BY <2>1, SameArguments DEF main_Rejects, exit, args
  <2>2. CASE main
    <3>1. UNCHANGED argv /\ (hack' <=> HackGiven) /\ (virt' <=> argc = 2) /\ Accepted
      BY <2>2 DEF main
    <3>2. pc' \in {"pagemap", "kpageflags"}
      BY <2>2 DEF main
    <3> QED BY <3>1, <3>2, SameArguments
  <2>3. ASSUME UNCHANGED <<argv, hack, virt>>,
               pc' = pc \/ (pc \notin {"main", "rejected"} /\ pc' \notin {"main", "rejected"})
        PROVE  PiArgs'
    BY <2>3, SameArguments
  <2>4. CASE dump_pagemap
    <3>1. pc = "pagemap" /\ pc' \in {"kpageflags", "exit0", "exit1"}
      BY <2>4 DEF dump_pagemap
    <3> QED BY <2>3, <2>4, <3>1 DEF dump_pagemap, args
  <2>5. CASE read_pagemap_Fails
    BY <2>3, <2>5 DEF read_pagemap_Fails, exit, args
  <2>6. CASE dump_kpageflags
    BY <2>3, <2>6 DEF dump_kpageflags, args
  <2>7. CASE dump_kpagecount
    BY <2>3, <2>7 DEF dump_kpagecount, args
  <2>8. CASE read_kpage_Fails
    BY <2>3, <2>8 DEF read_kpage_Fails, exit, args
  <2>9. CASE MovePage
    BY <2>3, <2>9 DEF MovePage, args
  <2>10. ASSUME NEW f \in Frame, ReuseFrame(f) PROVE PiArgs'
    BY <2>3, <2>10 DEF ReuseFrame, args
  <2>11. CASE UNCHANGED vars
    BY <2>3, <2>11 DEF vars
  <2> QED BY <2>1, <2>2, <2>4, <2>5, <2>6, <2>7, <2>8, <2>9, <2>10, <2>11 DEF Next
<1>2. ASSUME UNCHANGED kernel PROVE PiKernel'
  BY <1>2 DEF PiKernel, kernel, Placed, Present
<1>3. CASE MovePage
  <2>1. PICK p \in {None} \cup Swap \cup {Present(f) : f \in {g \in Frame : use[g] = "buddy"}} :
          /\ page' = p
          /\ use' = [f \in Frame |-> CASE p = Present(f) -> "mapped"
                                       [] page = Present(f) -> "buddy"
                                       [] OTHER -> use[f]]
    BY <1>3 DEF MovePage
  <2>2. Placed(page)'
    BY <2>1 DEF Placed
  <2>3. PiKernel'
    <3>1. use' = [f \in Frame |-> use'[f]]
      <4> DEFINE h(f) == CASE p = Present(f) -> "mapped"
                           [] page = Present(f) -> "buddy"
                           [] OTHER -> use[f]
      <4>1. use' = [f \in Frame |-> h(f)]
        BY <2>1
      <4> HIDE DEF h
      <4> QED BY <4>1
    <3>2. ASSUME NEW f \in Frame, page' = Present(f) PROVE use'[f] = "mapped"
      <4>1. p = Present(f) /\ use[f] = "buddy"
        <5>1. p = Present(f)
          BY <2>1, <3>2 DEF Present
        <5>2. p.kind = "present" /\ p.pfn = f
          BY <5>1 DEF Present
        <5>3. p # None /\ p \notin Swap
          BY <5>2 DEF None, Swap
        <5>4. PICK g \in Frame : use[g] = "buddy" /\ p = Present(g)
          BY <2>1, <5>3
        <5>5. p.pfn = g
          BY <5>4 DEF Present
        <5> QED BY <5>1, <5>2, <5>4, <5>5
      <4>2. page # Present(f)
        BY <4>1 DEF PiKernel
      <4> QED BY <2>1, <4>1, <4>2
    <3>3. \A f : Present(f)' = Present(f)
      BY DEF Present
    <3>4. use'[0] = "reserved"
      <4>1. 0 \in Frame /\ use[0] = "reserved"
        BY PageInfoAssumption DEF Frame, PiKernel
      <4>2. page # Present(0)
        BY <4>1 DEF PiKernel
      <4>3. p # Present(0)
        <5>1. ASSUME NEW g \in Frame, p = Present(g), use[g] = "buddy" PROVE p # Present(0)
          BY <4>1, <5>1 DEF Present
        <5>2. p = None \/ p \in Swap => p # Present(0)
          BY DEF None, Swap, Present
        <5> QED BY <2>1, <5>1, <5>2
      <4> QED BY <2>1, <4>1, <4>2, <4>3
    <3> QED BY <2>2, <3>1, <3>2, <3>3, <3>4 DEF PiKernel
  <2>4. Placed(seen)' /\ ~quiet'
    BY <1>3 DEF MovePage, Placed
  <2>5. UNCHANGED <<pc, virt, seen, sys_admin, pfn, line, addr>>
    BY <1>3 DEF MovePage, args
  <2>6. pc \in {"kpageflags", "kpagecount", "exit0"} /\ virt => Reported'
    BY <2>5 DEF Reported, Paddr, Told, ToldSlot
  <2> QED BY <1>1, <2>3, <2>4, <2>5, <2>6 DEF StillThere
<1>4. ASSUME NEW f \in Frame, ReuseFrame(f) PROVE PiInv'
  <2>1. /\ use' = [use EXCEPT ![f] = IF @ = "buddy" THEN "pgtable" ELSE "buddy"]
        /\ use[f] # "mapped" /\ UNCHANGED page
    BY <1>4 DEF ReuseFrame
  <2>2. PiKernel'
    <3>1. Placed(page)'
      BY <2>1 DEF PiKernel, Placed
    <3>2. use' = [g \in Frame |-> use'[g]]
      BY <2>1 DEF PiKernel
    <3>3. ASSUME NEW g \in Frame, page' = Present(g) PROVE use'[g] = "mapped"
      BY <2>1, <3>3 DEF PiKernel
    <3>4. use'[0] = "reserved"
      BY <1>4 DEF ReuseFrame, PiKernel
    <3> QED BY <3>1, <3>2, <3>3, <3>4 DEF PiKernel, Present
  <2>4. Placed(seen)' /\ ~quiet'
    BY <1>4 DEF ReuseFrame, Placed
  <2>5. UNCHANGED <<pc, virt, seen, sys_admin, pfn, line, addr>>
    BY <1>4 DEF ReuseFrame, args
  <2>6. pc \in {"kpageflags", "kpagecount", "exit0"} /\ virt => Reported'
    BY <2>5 DEF Reported, Paddr, Told, ToldSlot
  <2> QED BY <1>1, <2>2, <2>4, <2>5, <2>6 DEF StillThere
<1>5. CASE main_Rejects \/ main \/ read_pagemap_Fails \/ read_kpage_Fails
  <2>1. UNCHANGED kernel /\ UNCHANGED seen
    BY <1>5 DEF main_Rejects, main, read_pagemap_Fails, read_kpage_Fails, exit
  <2>2. ~(pc' \in {"kpageflags", "kpagecount", "exit0"} /\ virt')
    BY <1>5 DEF main_Rejects, main, read_pagemap_Fails, read_kpage_Fails, exit
  <2> QED BY <1>1, <1>2, <2>1, <2>2 DEF Placed
<1>6. CASE dump_pagemap
  <2>1. PICK dirty \in BOOLEAN :
          LET s == IF addr \div 2^PAGE_SHIFT = VPage THEN page ELSE None
              pm == Entry(s, dirty)
          IN  /\ seen' = s
              /\ line' = Location(pm)
              /\ pfn' = LookedUp(pm)
              /\ pc' = CASE pm.PRESENT -> "kpageflags"
                         [] ~pm.PRESENT /\ (pm.SWAP \/ pm.SOFT_DIRTY) -> "exit0"
                         [] OTHER -> "exit1"
    BY <1>6 DEF dump_pagemap
  <2> DEFINE s == IF addr \div 2^PAGE_SHIFT = VPage THEN page ELSE None
  <2>2. Placed(s)
    BY DEF PiKernel, Placed
  <2>3. UNCHANGED <<kernel, sys_admin, addr, virt>>
    BY <1>6 DEF dump_pagemap, args
  <2>4. s = page \/ s = None
    OBVIOUS
  <2>5. /\ seen' = s /\ line' = Location(Entry(s, dirty)) /\ pfn' = LookedUp(Entry(s, dirty))
        /\ pc' = CASE Entry(s, dirty).PRESENT -> "kpageflags"
                   [] /\ ~Entry(s, dirty).PRESENT
                      /\ Entry(s, dirty).SWAP \/ Entry(s, dirty).SOFT_DIRTY -> "exit0"
                   [] OTHER -> "exit1"
    BY <2>1
  <2> HIDE DEF s
  <2>6. /\ pc' \in {"kpageflags", "exit0", "exit1"}
        /\ s.kind = "present" <=> pc' = "kpageflags"
    BY <2>2, <2>5, Pagemap
  <2>7. Reported' \/ pc' = "exit1"
    <3>1. /\ s.kind = "present" => pfn' = Told(s) /\ line' = Paddr(Told(s))
          /\ s.kind = "swap" => line' = ToldSlot(s)
          /\ s.kind = "none" => line' = None
      BY <2>2, <2>5, Pagemap
    <3>2. Told(seen)' = Told(s) /\ ToldSlot(seen)' = ToldSlot(s)
      BY <2>3, <2>5 DEF Told, ToldSlot
    <3>3. Paddr(Told(seen))' = Paddr(Told(s))
      BY <2>3, <3>2 DEF Paddr
    <3> QED BY <2>3, <2>5, <2>6, <3>1, <3>2, <3>3 DEF Reported
  <2>8. StillThere' \/ pc' = "exit1"
    BY <2>3, <2>4, <2>5, <2>6 DEF StillThere, None, kernel
  <2>9. Placed(seen)'
    BY <2>2, <2>5 DEF Placed
  <2> QED BY <1>1, <1>2, <2>3, <2>6, <2>7, <2>8, <2>9
<1>7. CASE dump_kpageflags
  <2>1. UNCHANGED <<kernel, seen, sys_admin, addr, virt, line, pfn>> /\ pc = "kpageflags"
    BY <1>7 DEF dump_kpageflags, args
  <2>2. pc' = "kpagecount" /\ kpf' = Flags(pfn) /\ (quiet' <=> quiet \/ ~virt)
    BY <1>7 DEF dump_kpageflags
  <2>3. virt => Reported'
    BY <2>1, <2>2 DEF Reported, Paddr, Told, ToldSlot
  <2>4. ASSUME virt, quiet, seen.kind = "present"
        PROVE  page = seen /\ IF sys_admin THEN "MMAP" \in kpf' ELSE kpf' = {"RESERVED"}
    <3>1. page = seen /\ pfn = Told(seen)
      BY <2>1, <2>4 DEF StillThere, Reported
    <3>2. use[pfn] = IF sys_admin THEN "mapped" ELSE "reserved"
      BY <2>4, <3>1, KindTells DEF PiKernel, Told
    <3> QED BY <2>2, <3>1, <3>2 DEF Flags
  <2>5. virt => StillThere'
    BY <2>1, <2>2, <2>4 DEF StillThere, kernel
  <2> QED BY <1>1, <1>2, <2>1, <2>3, <2>5 DEF Placed
<1>8. CASE dump_kpagecount
  <2>1. UNCHANGED <<kernel, seen, sys_admin, addr, virt, line, pfn, quiet>> /\ pc = "kpagecount"
    BY <1>8 DEF dump_kpagecount, args
  <2>2. /\ pc' = "exit0" /\ count' = MapCount(pfn)
        /\ shown' = (kpf \cap Named) \cup (IF hack THEN kpf \cap HackNamed ELSE {})
    BY <1>8 DEF dump_kpagecount
  <2>3. virt => Reported'
    BY <2>1, <2>2 DEF Reported, Paddr, Told, ToldSlot
  <2>4. ASSUME virt, quiet, seen.kind = "present"
        PROVE  /\ page = seen
               /\ IF sys_admin THEN "MMAP" \in shown' /\ count' = 1
                               ELSE shown' \subseteq {"RESERVED"} /\ count' = 0
    <3>1. page = seen /\ IF sys_admin THEN "MMAP" \in kpf ELSE kpf = {"RESERVED"}
      BY <2>1, <2>4 DEF StillThere
    <3>2. pfn = Told(seen)
      BY <2>1, <2>4 DEF Reported
    <3>3. use[pfn] = IF sys_admin THEN "mapped" ELSE "reserved"
      BY <2>4, <3>1, <3>2, KindTells DEF PiKernel, Told
    <3> QED BY <2>2, <3>1, <3>3 DEF MapCount, Named, HackNamed
  <2>5. virt => StillThere'
    BY <2>1, <2>2, <2>4 DEF StillThere, kernel
  <2> QED BY <1>1, <1>2, <2>1, <2>3, <2>5 DEF Placed
<1>9. CASE UNCHANGED vars
  BY <1>1, <1>2, <1>9 DEF vars, kernel, Placed, Reported, StillThere, Paddr, Told, ToldSlot
<1> QED BY <1>3, <1>4, <1>5, <1>6, <1>7, <1>8, <1>9 DEF Next

(* It gives what is asked of pageinfo. *)
LEMMA PiSafe == PiInv => UsageHonoured /\ PlaceReported /\ QuietReportMatches
<1> SUFFICES ASSUME PiInv PROVE UsageHonoured /\ PlaceReported /\ QuietReportMatches
  OBVIOUS
<1>1. UsageHonoured
  <2>1. argv \in Arguments
    BY DEF PiInv, PiArgs
  <2>2. pc = "rejected" => argv \notin PlainForm \cup HackForm
    BY <2>1, UsageIsAccepted DEF PiInv, PiArgs
  <2>3. pc \notin {"main", "rejected"} =>
           /\ argv \in PlainForm \cup HackForm
           /\ hack <=> argv \in HackForm
           /\ virt <=> \E a \in VirtualForm : argv \in {a, Append(a, "hack")}
    BY <2>1, UsageIsAccepted DEF PiInv, PiArgs
  <2> QED BY <2>2, <2>3
          DEF UsageHonoured, PlainForm, HackForm, VirtualForm, PhysicalForm, Numbers
<1>2. PlaceReported
  BY DEF PlaceReported, PiInv, Reported, Paddr, Told, ToldSlot
<1>3. QuietReportMatches
  BY DEF QuietReportMatches, PiInv, StillThere
<1> QED BY <1>1, <1>2, <1>3
-------------------------------------------------------------------------------

(* init: the loop over the mounts was left early only where "sys" is     *)
(* missing in front of "debug".                                          *)
MiMounts ==
  /\ i \in 1..4
  /\ init_pc # "do_mounts" /\ rw /\ i <= 3 => i = 3 /\ "sys" \notin mounted

(* Where the shell and its jobs are at each point of main(); who is down *)
(* has reaped a child or has none.                                       *)
MiShell ==
  /\ init_pc \in {"do_mounts", "open_console", "vfork"} => shell = "none"
  /\ shell = "vforked" => init_pc = "vforked"
  /\ init_pc = "vforked" => shell = "vforked"
  /\ job = [j \in Job |-> job[j]]
  /\ init_pc \in {"shutdown", "off", "exited"} =>
       shell \in {"none", "reaped"} \/ \E j \in Job : job[j] = "reaped"

(* The inductive invariant of init. *)
MiInv == MiMounts /\ MiShell

(* It holds when the kernel starts PID 1. *)
LEMMA MiInit == M!Init => MiInv
BY DEF M!Init, MiInv, MiMounts, MiShell

(* The table of mounts, by places. *)
LEMMA SameMounts ==
  /\ Len(M!mounts) = 3
  /\ M!mounts[1] = "proc" /\ M!mounts[2] = "sys" /\ M!mounts[3] = "debug"
BY DEF M!mounts

(* Every step of PID 1 and of its children keeps it. *)
LEMMA MiStep == ASSUME MiInv, [M!Next]_mi PROVE MiInv'
<1> USE DEF MiInv
<1>1. CASE M!do_mounts
  <2>1. /\ init_pc = "do_mounts" /\ i \in 1..3 /\ UNCHANGED <<initrd, rw, shell, job>>
        /\ \/ i' = i + 1 /\ UNCHANGED init_pc
           \/ ~M!mkdir(M!mounts[i]) /\ init_pc' = "open_console" /\ UNCHANGED <<mounted, i>>
    BY <1>1, SameMounts DEF M!do_mounts, MiMounts
  <2>2. ~M!mkdir(M!mounts[i]) /\ rw => i = 3 /\ "sys" \notin mounted
    <3>1. CASE i = 1
      BY <3>1, SameMounts DEF M!mkdir
    <3>2. CASE i = 2
      BY <3>2, SameMounts DEF M!mkdir
    <3>3. CASE i = 3
      BY <3>3, SameMounts DEF M!mkdir
    <3> QED BY <2>1, <3>1, <3>2, <3>3
  <2>3. MiMounts'
    BY <2>1, <2>2 DEF MiMounts
  <2>4. MiShell'
    BY <2>1 DEF MiShell
  <2> QED BY <2>3, <2>4
<1>2. CASE M!do_mounts_end
  BY <1>2, SameMounts DEF M!do_mounts_end, MiMounts, MiShell
<1>3. CASE M!open_console
  BY <1>3 DEF M!open_console, MiMounts, MiShell
<1>4. CASE M!vfork
  BY <1>4 DEF M!vfork, MiMounts, MiShell
<1>5. CASE M!execl
  BY <1>5 DEF M!execl, MiMounts, MiShell
<1>6. CASE M!wait
  BY <1>6 DEF M!wait, MiMounts, MiShell
<1>7. CASE M!shutdown
  BY <1>7 DEF M!shutdown, MiMounts, MiShell
<1>8. CASE M!userland
  <2>1. UNCHANGED <<i, rw, mounted, init_pc>>
    BY <1>8 DEF M!userland, M!ShellExits, M!ShellForks, M!JobDaemonises, M!JobExits
  <2>2. CASE M!ShellExits
    BY <2>1, <2>2 DEF M!ShellExits, MiMounts, MiShell
  <2>3. ASSUME NEW j \in Job, M!ShellForks(j) \/ M!JobDaemonises(j) \/ M!JobExits(j)
        PROVE  MiInv'
    BY <2>1, <2>3 DEF M!ShellForks, M!JobDaemonises, M!JobExits, MiMounts, MiShell
  <2> QED BY <1>8, <2>2, <2>3 DEF M!userland
<1>9. CASE UNCHANGED mi
  BY <1>9 DEF mi, MiMounts, MiShell
<1> QED BY <1>1, <1>2, <1>3, <1>4, <1>5, <1>6, <1>7, <1>8, <1>9 DEF M!Next, M!main

(* It gives what is asked of init. *)
LEMMA MiSafe == ASSUME MiInv PROVE M!StopsEarlyForDebugfsOnly /\ M!UpWhileChildrenRun
<1>1. M!StopsEarlyForDebugfsOnly
  <2> SUFFICES ASSUME rw, init_pc # "do_mounts", i <= 3
               PROVE  /\ M!mounts[i] = "debug"
                      /\ \E k \in 1..(i - 1) : M!mounts[k] = "sys" /\ "sys" \notin mounted
    BY SameMounts DEF M!StopsEarlyForDebugfsOnly
  <2>1. i = 3 /\ "sys" \notin mounted
    BY DEF MiInv, MiMounts
  <2>2. 2 \in 1..(i - 1)
    BY <2>1
  <2> QED BY <2>1, <2>2, SameMounts
<1>2. M!UpWhileChildrenRun
  BY DEF MiInv, MiShell, M!UpWhileChildrenRun
<1> QED BY <1>1, <1>2
-------------------------------------------------------------------------------
(* An event of another process, or of a helper's preparations, that is not *)
(* on account of a pid that an earlier run has left.                       *)
Noise(e) == e.on # "left_over" /\ (e.on # "helper" \/ e.at \notin {8, 9, 10})

(* ftrace_helper, inductively, over all runs: the function tracer is on  *)
(* with some pid set only, and the pid of this run gets set, if it was   *)
(* not left over, only while tracing is off; so nothing but left-over    *)
(* pids and what comes after start_tracing() gets into the buffer.       *)
FhInv ==
  /\ run \in Nat \ {0} /\ pid \in 1..run /\ at \in 1..10
  /\ set_ftrace_pid \subseteq 1..run
  /\ at <= 5 => set_ftrace_pid = left_over
  /\ at >= 6 => set_ftrace_pid = left_over \cup {pid}
  /\ at \in 3..7 \cup {10} => ~tracing_on
  /\ tracing_on /\ current_tracer = "function" => set_ftrace_pid # {}
  /\ \A e \in trace \cup dumped : ~Noise(e)
  /\ status = "exit0" => at = 10

(* It holds on a machine without tracing. *)
LEMMA FhInit == F!Init => FhInv
BY DEF F!Init, FhInv

(* The calls of main(), by places. *)
LEMMA SameMain ==
  /\ Len(F!main) = 10 /\ F!main[1] = "open" /\ F!main[2] = "stop_tracing"
  /\ F!main[3] = "clear_trace" /\ F!main[4] = "set_tracer" /\ F!main[5] = "set_pid"
  /\ F!main[6] = "set_filter" /\ F!main[7] = "start_tracing" /\ F!main[8] = "fun"
  /\ F!main[9] = "stop_tracing" /\ F!main[10] = "dump_trace"
BY DEF F!main

(* Every call, failure, new run and traced event keeps it. *)
LEMMA FhStep == ASSUME FhInv, [F!Next]_fh PROVE FhInv'
<1> USE DEF FhInv
<1>1. CASE F!Call
  <2> USE DEF F!Call, F!Done, F!runs
  <2>1. ASSUME NEW k \in {1, 3, 6, 8}, at = k PROVE FhInv'
    BY <1>1, <2>1, SameMain
  <2>2. CASE at \in {2, 9}
    BY <1>1, <2>2, SameMain
  <2>3. CASE at = 4
    BY <1>1, <2>3, SameMain
  <2>4. CASE at = 5
    BY <1>1, <2>4, SameMain
  <2>5. CASE at = 7
    BY <1>1, <2>5, SameMain
  <2>6. CASE at = 10
    BY <1>1, <2>6, SameMain
  <2> QED BY <2>1, <2>2, <2>3, <2>4, <2>5, <2>6
<1>2. CASE F!errf_exit
  BY <1>2 DEF F!errf_exit, F!tracefs, F!runs
<1>3. CASE F!RunAgain
  BY <1>3 DEF F!RunAgain, F!tracefs
<1>4. ASSUME NEW p \in 0..run, F!Trace(p) PROVE FhInv'
  <2>1. tracing_on /\ p \in set_ftrace_pid
    BY <1>4 DEF F!Trace
  <2>2. at \in {1, 2, 8, 9}
    BY <2>1
  <2> DEFINE e == [on |-> F!Account(p), at |-> IF p = pid /\ status = "running" THEN at ELSE 0]
  <2>3. /\ trace' = trace \cup {e}
        /\ UNCHANGED <<run, pid, left_over, status, at, tracing_on, current_tracer,
                       set_ftrace_pid, dumped>>
    BY <1>4 DEF F!Trace, F!runs
  <2>4. ~Noise(e)
    <3>1. CASE p \in left_over \/ status # "running"
      <4>1. F!Account(p) = "left_over"
        BY <2>1, <3>1 DEF F!Account
      <4> QED BY <4>1 DEF Noise
    <3>2. CASE p \notin left_over /\ status = "running"
      <4>1. p = pid /\ at \in {8, 9}
        BY <2>1, <2>2, <3>2
      <4>2. F!Account(p) = "helper"
        BY <2>1, <3>2 DEF F!Account
      <4> QED BY <3>2, <4>1, <4>2 DEF Noise
    <3> QED BY <3>1, <3>2
  <2> HIDE DEF e
  <2>5. \A d \in (trace \cup dumped)' : ~Noise(d)
    BY <2>3, <2>4
  <2> QED BY <2>3, <2>5
<1>5. CASE UNCHANGED fh
  BY <1>5 DEF fh
<1> QED BY <1>1, <1>2, <1>3, <1>4, <1>5 DEF F!Next

(* It gives what is asked of ftrace_helper. *)
LEMMA FhSafe == ASSUME FhInv PROVE F!TraceWithoutNoise
<1> SUFFICES ASSUME status = "exit0"
             PROVE  /\ ~tracing_on
                    /\ \A e \in dumped :
                         \/ e.on = "left_over"
                         \/ /\ e.on = "helper"
                            /\ \E k \in 1..(e.at - 1) : F!main[k] = "start_tracing"
  BY DEF F!TraceWithoutNoise
<1>1. ~tracing_on
  BY DEF FhInv
<1>2. ASSUME NEW e \in dumped, e.on # "left_over"
      PROVE  e.on = "helper" /\ \E k \in 1..(e.at - 1) : F!main[k] = "start_tracing"
  <2>1. e.on = "helper" /\ e.at \in {8, 9, 10}
    BY <1>2 DEF FhInv, Noise
  <2>2. 7 \in 1..(e.at - 1)
    BY <2>1
  <2> QED BY <2>1, <2>2, SameMain
<1> QED BY <1>1, <1>2
-------------------------------------------------------------------------------
(* inherit_capability: the credentials in front of each call of main(). *)
IcGoing ==
  \/ /\ ic_at = 1 /\ uid = start.uid /\ gid = start.uid
     /\ E = start.caps /\ P = start.caps /\ I = {}
  \/ /\ ic_at \in {2, 3, 4} /\ start.caps = C!Cap /\ uid = start.uid
     /\ E = C!Four /\ P = C!Four /\ I = C!First
     /\ ic_at > 2 => keep
     /\ ic_at = 4 => gid = 1000
  \/ /\ ic_at = 5 /\ start.caps = C!Cap /\ uid = 1000 /\ gid = 1000
     /\ P = C!Four /\ I = C!First
  \/ /\ ic_at = 6 /\ start.caps = C!Cap /\ uid = 1000 /\ gid = 1000
     /\ E = C!First /\ P = C!First /\ I = {}

(* Its inductive invariant: whoever has got past the first call had      *)
(* everything.                                                           *)
IcInv ==
  /\ start.caps \in {{}, C!First, C!Cap}
  /\ IcGoing
  /\ ic_status = "SUCCESS" => ic_at = 6
  /\ ic_status = "failed" /\ start.caps = C!Cap => unlucky

(* The sets of capabilities, by name. *)
LEMMA SameCaps ==
  /\ C!Four = {"DAC_OVERRIDE", "SETUID", "SETGID", "SETPCAP"}
  /\ C!Cap = {"DAC_OVERRIDE", "SETUID", "SETGID", "SETPCAP", "SYS_ADMIN"}
  /\ C!First = {"DAC_OVERRIDE"}
<1>1. /\ C!cap_list[1] = "DAC_OVERRIDE" /\ C!cap_list[2] = "SETUID"
      /\ C!cap_list[3] = "SETGID" /\ C!cap_list[4] = "SETPCAP"
      /\ DOMAIN C!cap_list = {1, 2, 3, 4}
  BY DEF C!cap_list
<1>2. C!Four = {C!cap_list[k] : k \in {1, 2, 3, 4}}
  BY <1>1 DEF C!Four, C!Range
<1> QED BY <1>1, <1>2 DEF C!Cap, C!First

(* The calls of main(), by places. *)
LEMMA SameCalls ==
  /\ Len(C!main) = 6 /\ C!main[1] = "set_four" /\ C!main[2] = "keepcaps"
  /\ C!main[3] = "setresgid" /\ C!main[4] = "setresuid" /\ C!main[5] = "set_one"
  /\ C!main[6] = "fopen"
BY DEF C!main

(* It holds when the program starts. *)
LEMMA IcInit == C!Init => IcInv
BY DEF C!Init, IcInv, IcGoing

(* Every call keeps it, and none fails for want of a capability that an  *)
(* earlier call has dropped.                                             *)
LEMMA IcStep == ASSUME IcInv, [C!Next]_ic PROVE IcInv'
<1>1. CASE C!Step
  <2> USE DEF C!Step, C!Call, C!cap_set_proc, IcInv, IcGoing
  <2>1. CASE ic_at = 1
    <3>1. C!MaySet(C!Four, C!First, C!Four)
      BY <1>1, <2>1, SameCalls DEF C!May
    <3>2. start.caps = C!Cap
      BY <2>1, <3>1, SameCaps DEF C!MaySet
    <3> QED BY <1>1, <2>1, <3>2, SameCalls DEF C!set_four
  <2>2. CASE ic_at = 2
    BY <1>1, <2>2, SameCalls DEF C!keepcaps
  <2>3. CASE ic_at = 3
    BY <1>1, <2>3, SameCalls DEF C!setresgid
  <2>4. CASE ic_at = 4
    BY <1>1, <2>4, SameCalls DEF C!setresuid
  <2>5. CASE ic_at = 5
    BY <1>1, <2>5, SameCalls DEF C!set_one
  <2>6. CASE ic_at = 6
    BY <1>1, <2>6, SameCalls DEF C!fopen
  <2> QED BY <2>1, <2>2, <2>3, <2>4, <2>5, <2>6
<1>2. CASE C!Fail
  <2>1. start.caps = C!Cap => C!May(C!main[ic_at])
    <3> USE DEF IcInv, IcGoing
    <3>1. CASE ic_at = 1
      BY <3>1, SameCalls, SameCaps DEF C!May, C!MaySet
    <3>2. CASE ic_at = 2
      BY <3>2, SameCalls, SameCaps DEF C!May
    <3>3. CASE ic_at = 3
      BY <3>3, SameCalls, SameCaps DEF C!May
    <3>4. CASE ic_at = 4
      BY <3>4, SameCalls, SameCaps DEF C!May
    <3>5. CASE ic_at = 5
      BY <3>5, SameCalls, SameCaps DEF C!May, C!MaySet
    <3>6. CASE ic_at = 6
      BY <3>6, SameCalls, SameCaps DEF C!May
    <3> QED BY <3>1, <3>2, <3>3, <3>4, <3>5, <3>6
  <2>2. /\ UNCHANGED <<start, uid, gid, E, I, P, keep, ic_at>> /\ ic_status' = "failed"
        /\ unlucky' = C!May(C!main[ic_at])
    BY <1>2 DEF C!Fail
  <2>3. start.caps = C!Cap => unlucky'
    BY <2>1, <2>2
  <2> QED BY <2>2, <2>3 DEF IcInv, IcGoing
<1>3. CASE UNCHANGED ic
  BY <1>3 DEF ic, IcInv, IcGoing
<1> QED BY <1>1, <1>2, <1>3 DEF C!Next

(* It gives what is asked of inherit_capability. *)
LEMMA IcSafe == ASSUME IcInv PROVE C!OneCapabilityKept
BY DEF IcInv, IcGoing, C!OneCapabilityKept
-------------------------------------------------------------------------------
(* The inductive invariant of all programs: the one that runs keeps its  *)
(* own, and the others do not change.                                    *)
Inv == PiInv /\ MiInv /\ FhInv /\ IcInv

(* It holds at first. *)
LEMMA InvInit == ProgramInit => Inv
BY PiInit, MiInit, FhInit, IcInit DEF ProgramInit, Inv

(* Every step of whichever program runs keeps it. *)
LEMMA InvStep == Inv /\ [ProgramNext]_all => Inv'
<1> SUFFICES ASSUME Inv, [ProgramNext]_all PROVE Inv'
  OBVIOUS
<1>1. [Next]_vars /\ [M!Next]_mi /\ [F!Next]_fh /\ [C!Next]_ic
  BY DEF ProgramNext, InitStep, all
<1> QED BY <1>1, PiStep, MiStep, FhStep, IcStep DEF Inv

(* It holds in every state of every behaviour. *)
THEOREM InvHolds == ProgramSpec => []Inv
BY InvInit, InvStep, PTL DEF ProgramSpec

(* pageinfo: main() accepts exactly the arguments that usage_exit()      *)
(* prints and takes each for what it is there.                           *)
THEOREM UsageIsHonoured == ProgramSpec => []UsageHonoured
<1>1. Inv => UsageHonoured
  BY PiSafe DEF Inv
<1> QED BY <1>1, InvHolds, PTL

(* pageinfo: success on a virtual address has told what pagemap showed   *)
(* of the place of the page, which is where it was when the reader has   *)
(* CAP_SYS_ADMIN and frame or slot 0 when not; for every page size,      *)
(* number of frames and width of a swap slot.                            *)
THEOREM SuccessReportsPlace == ProgramSpec => []PlaceReported
<1>1. Inv => PlaceReported
  BY PiSafe DEF Inv
<1> QED BY <1>1, InvHolds, PTL

(* pageinfo: if nothing moved between the reads, flags and count are of  *)
(* the frame that holds the page, or of frame 0 when its number was      *)
(* hidden.                                                               *)
THEOREM QuietRunMatches == ProgramSpec => []QuietReportMatches
<1>1. Inv => QuietReportMatches
  BY PiSafe DEF Inv
<1> QED BY <1>1, InvHolds, PTL

(* init: where directories can be made, only debugfs is ever left out. *)
THEOREM MountsStopForDebugfs == ProgramSpec => []StopsEarlyForDebugfsOnly
<1>1. Inv => StopsEarlyForDebugfsOnly
  BY MiSafe DEF Inv, StopsEarlyForDebugfsOnly
<1> QED BY <1>1, InvHolds, PTL

(* init: while the shell and all jobs run, PID 1 does not go down; for   *)
(* any number of jobs.                                                   *)
THEOREM MachineStaysUp == ProgramSpec => []UpWhileChildrenRun
<1>1. Inv => UpWhileChildrenRun
  BY MiSafe DEF Inv, UpWhileChildrenRun
<1> QED BY <1>1, InvHolds, PTL

(* ftrace_helper: wherever earlier runs failed, and however many there   *)
(* were, the noise in a dump is that of pids which they have left set.   *)
THEOREM NoiseIsLeftOver == ProgramSpec => []TraceWithoutNoise
<1>1. Inv => TraceWithoutNoise
  BY FhSafe DEF Inv, TraceWithoutNoise
<1> QED BY <1>1, InvHolds, PTL

(* inherit_capability: success leaves exactly the one capability, and    *)
(* nobody who has what it takes fails for the order of the calls.        *)
THEOREM CapabilityIsKept == ProgramSpec => []OneCapabilityKept
<1>1. Inv => OneCapabilityKept
  BY IcSafe DEF Inv, OneCapabilityKept
<1> QED BY <1>1, InvHolds, PTL
===============================================================================
