------------------------- MODULE PageTableWalkProofs --------------------------
(***************************************************************************)
(* Proofs about PageTableWalk, for every layout of an address. TLC checks  *)
(* widths of a few bits; the arithmetic here holds for all, so for the 12, *)
(* 9, 18 and 40 bits of the processor as well. The library has no facts    *)
(* about powers: the two that are needed come from counting subsets.       *)
(***************************************************************************)
EXTENDS PageTableWalk, FiniteSetTheorems, TLAPS

(* A power of 2 is the number of subsets of a set, and positive. *)
LEMMA PowerCounts ==
  ASSUME NEW n \in Nat
  PROVE  IsFiniteSet(SUBSET (1..n)) /\ Cardinality(SUBSET (1..n)) = 2^n /\ 2^n \in Nat \ {0}
<1>1. IsFiniteSet(1..n) /\ Cardinality(1..n) = n
  BY FS_Interval
<1>2. IsFiniteSet(SUBSET (1..n)) /\ Cardinality(SUBSET (1..n)) = 2^n
  BY <1>1, FS_SUBSET
<1>3. SUBSET (1..n) # {}
  OBVIOUS
<1>4. Cardinality(SUBSET (1..n)) \in Nat /\ Cardinality(SUBSET (1..n)) # 0
  BY <1>2, <1>3, FS_CardinalityType, FS_EmptySet
<1> QED BY <1>2, <1>4

(* One bit more doubles it: the subsets with the new element and those   *)
(* without.                                                              *)
LEMMA PowerDoubles == ASSUME NEW n \in Nat \ {0} PROVE 2^n = 2 * 2^(n - 1)
<1> DEFINE k == n - 1
           A == SUBSET (1..k)
           B == {S \cup {n} : S \in A}
           f == [S \in A |-> S \cup {n}]
<1>0. k \in Nat /\ n = k + 1
  OBVIOUS
<1> HIDE DEF k
<1>1. IsFiniteSet(A) /\ Cardinality(A) = 2^k /\ 2^k \in Nat
  BY <1>0, PowerCounts
<1>2. Cardinality(SUBSET (1..n)) = 2^n
  BY PowerCounts
<1>3. \A S \in A : n \notin S
  BY <1>0
<1>4. SUBSET (1..n) = A \cup B
  <2>1. ASSUME NEW S \in SUBSET (1..n) PROVE S \in A \cup B
    <3>1. S \ {n} \in A
      BY <1>0
    <3>2. CASE n \in S
      <4>1. S = (S \ {n}) \cup {n}
        BY <3>2
      <4> QED BY <3>1, <4>1
    <3>3. CASE n \notin S
      <4>1. S = S \ {n}
        BY <3>3
      <4> QED BY <3>1, <4>1
    <3> QED BY <3>2, <3>3
  <2>2. ASSUME NEW S \in A PROVE S \in SUBSET (1..n) /\ S \cup {n} \in SUBSET (1..n)
    BY <1>0
  <2>3. \A S \in A \cup B : S \in SUBSET (1..n)
    BY <2>2
  <2> HIDE DEF A, B
  <2> QED BY <2>1, <2>3
<1>5. A \cap B = {}
  BY <1>3
<1> HIDE DEF A
<1>6. f \in Bijection(A, B)
  <2>1. f \in [A -> B]
    OBVIOUS
  <2>2. ASSUME NEW S \in A, NEW T \in A, f[S] = f[T] PROVE S = T
    <3>1. n \notin S /\ n \notin T /\ S \cup {n} = T \cup {n}
      BY <1>3, <2>2
    <3> QED BY <3>1
  <2>3. \A y \in B : \E S \in A : f[S] = y
    OBVIOUS
  <2> QED BY <2>1, <2>2, <2>3 DEF Bijection, Injection, Surjection, IsInjective
<1> HIDE DEF B, f
<1>7. ExistsBijection(A, B)
  BY <1>6 DEF ExistsBijection
<1>8. IsFiniteSet(B) /\ Cardinality(B) = Cardinality(A)
  BY <1>1, <1>7, FS_Bijection
<1>9. Cardinality(A \cup B) = Cardinality(A) + Cardinality(B) - Cardinality(A \cap B)
  BY <1>1, <1>8, FS_Union
<1>10. Cardinality(A \cap B) = 0
  BY <1>5, FS_EmptySet
<1>11. Cardinality(A \cup B) = 2^n
  BY <1>2, <1>4
<1> QED BY <1>1, <1>8, <1>9, <1>10, <1>11 DEF k

(* The bits below a shift, by arithmetic. *)
LEMMA Remainder ==
  ASSUME NEW W \in Nat \ {0}, NEW r \in 0..(W - 1), NEW o \in Nat
  PROVE  (r + o * W) % W = r
OBVIOUS

(* The frame of a huge page is even, so that adding PAT to it changes    *)
(* neither the page nor the other bits.                                  *)
LEMMA Aligned ==
  ASSUME NEW h \in Nat \ {0}, NEW K, K = 2 * h, NEW b \in Nat, b % K = 0
  PROVE  /\ b - (b % K) = b /\ (b + 1) - ((b + 1) % K) = b
         /\ b % 2 = 0 /\ (b + 1) % 2 = 1
<1> DEFINE q == b \div K
           z == q * h
<1>1. K \in Nat \ {0} /\ 1 \in 0..(K - 1) /\ q \in Nat
  OBVIOUS
<1>2. b = q * K
  OBVIOUS
<1>3. b = 2 * z /\ z \in Nat
  BY <1>1, <1>2
<1> HIDE DEF q, z
<1>4. b % 2 = 0 /\ (b + 1) % 2 = 1
  BY <1>3
<1>5. (1 + q * K) % K = 1
  BY <1>1, Remainder
<1>6. (b + 1) % K = 1
  BY <1>1, <1>2, <1>5
<1> QED BY <1>4, <1>6

(* The widths are numbers, and a huge page has an even number of frames. *)
LEMMA Numbers ==
  /\ MaxField \in Nat
  /\ \A level \in Levels : Inside(level) \in Nat /\ 2^Inside(level) \in Nat \ {0}
  /\ \A level \in {"pud", "pmd"} :
       \E h \in Nat \ {0} : 2^Inside(level) = 2 * h
<1>1. 2^PfnBits \in Nat \ {0}
  BY PowerCounts, LayoutAssumption
<1>2. MaxField \in Nat
  BY <1>1 DEF MaxField
<1>3. \A level \in Levels : Inside(level) \in Nat
  BY LayoutAssumption DEF Inside, Levels
<1>4. \A level \in Levels : 2^Inside(level) \in Nat \ {0}
  BY <1>3, PowerCounts
<1>5. ASSUME NEW level \in {"pud", "pmd"}
      PROVE  \E h \in Nat \ {0} : 2^Inside(level) = 2 * h
  <2> DEFINE n == Inside(level)
  <2>1. n \in Nat \ {0}
    BY LayoutAssumption DEF Inside
  <2> HIDE DEF n
  <2>2. n - 1 \in Nat
    BY <2>1
  <2>3. 2^(n - 1) \in Nat \ {0}
    BY <2>2, PowerCounts
  <2>4. 2^n = 2 * 2^(n - 1)
    BY <2>1, PowerDoubles
  <2> QED BY <2>3, <2>4 DEF n
<1> QED BY <1>2, <1>3, <1>4, <1>5

(* The entries that the walk takes for tables although they are none. *)
Misleads(m, level) ==
  \/ level = "pgd" /\ m = None /\ ~cpu.la57
  \/ level = "pud" /\ m.kind = "leaf" /\ m.prot = "protnone" /\ kernel # "6.12"

(* dump_*() on an empty entry: not present, at every level, unless the   *)
(* pgd is also the p4d.                                                  *)
LEMMA NoneIsReported ==
  ASSUME NEW level \in Levels, ~Misleads(None, level)
  PROVE  dump_entry(Encode(None, level), level) = NotPresent(level)
<1>1. Encode(None, level) = Zero
  BY DEF Encode, None
<1>2. ~present(Zero, level)
  BY DEF present, Zero, Levels, Misleads
<1> QED BY <1>1, <1>2 DEF dump_entry, Zero, Levels

(* On an entry that points to a table: no line, the walk goes on. *)
LEMMA TableIsFollowed ==
  ASSUME NEW level \in {"pgd", "p4d", "pud", "pmd"}
  PROVE  dump_entry(Encode(Table, level), level) = NoReport
<1> DEFINE e == Encode(Table, level)
<1>1. e = [P |-> TRUE, G |-> FALSE, PSE |-> FALSE, field |-> 1]
  BY DEF Encode, Table
<1>2. e.P /\ ~e.PSE /\ e # Zero
  BY <1>1 DEF Zero
<1> HIDE DEF e
<1>3. present(e, level) /\ ~leaf(e, level)
  BY <1>2 DEF present, leaf, pud_leaf, pmd_leaf
<1>4. dump_entry(e, level) = NoReport
  BY <1>2, <1>3 DEF dump_entry
<1> QED BY <1>4 DEF e

(* On a swapped page: its slot. A slot is never stored as an entry that  *)
(* looks empty.                                                          *)
LEMMA SwapIsReported ==
  ASSUME NEW level \in {"pmd", "pte"}, NEW m \in Swap
  PROVE  dump_entry(Encode(m, level), level) = [kind |-> "swap", offset |-> m.offset]
<1> DEFINE e == Encode(m, level)
<1>1. m.kind = "swap" /\ m.offset \in Nat /\ m.offset < MaxField /\ MaxField \in Nat
  BY Numbers DEF Swap
<1>2. e = [P |-> FALSE, G |-> FALSE, PSE |-> FALSE, field |-> MaxField - m.offset]
  BY <1>1 DEF Encode
<1>3. ~e.P /\ ~e.G /\ ~e.PSE /\ e.field = MaxField - m.offset
  BY <1>2
<1>4. e # Zero
  BY <1>1, <1>3 DEF Zero
<1> HIDE DEF e
<1>5. ~present(e, level)
  BY <1>3 DEF present
<1>6. dump_entry(e, level) = SwapEntry(e)
  BY <1>4, <1>5 DEF dump_entry
<1>7. MaxField - e.field = m.offset
  BY <1>1, <1>3
<1> QED BY <1>6, <1>7 DEF SwapEntry, e

(* The states of a page that a level can have. *)
Prots(level) ==
  IF level = "pmd" THEN {"present", "global", "protnone", "splitting"}
                   ELSE {"present", "global", "protnone"}

(* On a mapped page, whatever its size, protection and state: the line   *)
(* with the address, from the frame number that the kernel meant,        *)
(* although that of a page which is not present is stored inverted, and  *)
(* PAT of a huge page is kept in its frame number. The kernels with      *)
(* pud_large() do not take a PROTNONE page of 1G for one.                *)
LEMMA LeafIsMapped ==
  ASSUME NEW level \in {"pud", "pmd", "pte"}, NEW m \in Leaf(level, Prots(level)),
         ~Misleads(m, level)
  PROVE  LET e == Encode(m, level)
             v == invert_val_if_needed(e)
         IN  /\ dump_entry(e, level) = Mapped(e, level)
             /\ pfn_of(e, level) = m.base
             /\ v.field - (v.field % 2^Inside(level)) = m.base
             /\ level = "pte" => v.PSE = m.pat
             /\ level # "pte" => (v.field % 2 = 1 <=> m.pat)
             /\ v.P <=> m.prot \in {"present", "global"}
             /\ v.G <=> m.prot \in {"global", "protnone"}
<1> DEFINE e == Encode(m, level)
           v == invert_val_if_needed(e)
           here == m.prot \in {"present", "global"}
           pfn == IF level # "pte" /\ m.pat THEN m.base + 1 ELSE m.base
           K == 2^Inside(level)
<1>1. /\ m.kind = "leaf" /\ m.prot \in Prots(level) /\ m.pat \in BOOLEAN
      /\ m.base \in Nat /\ m.base % K = 0 /\ MaxField \in Nat
  BY Numbers DEF Leaf, Pfn
<1>2. e = [P |-> here, G |-> m.prot \in {"global", "protnone"},
           PSE |-> level # "pte" \/ m.pat,
           field |-> IF here THEN pfn ELSE MaxField - pfn]
  BY <1>1 DEF Encode
<1>3. pfn \in Nat
  BY <1>1
<1>4. /\ pfn - (pfn % K) = m.base
      /\ level # "pte" => (pfn % 2 = 1 <=> m.pat)
  <2>1. CASE level = "pte"
    BY <1>1, <2>1
  <2>2. CASE level # "pte"
    <3>1. PICK h \in Nat \ {0} : K = 2 * h
      BY <2>2, Numbers
    <3> HIDE DEF K
    <3>2. /\ m.base - (m.base % K) = m.base /\ (m.base + 1) - ((m.base + 1) % K) = m.base
          /\ m.base % 2 = 0 /\ (m.base + 1) % 2 = 1
      BY <1>1, <3>1, Aligned
    <3> QED BY <1>1, <2>2, <3>2
  <2> QED BY <2>1, <2>2
<1> HIDE DEF pfn, K, e
<1>5. /\ e.P <=> here
      /\ e.G <=> m.prot \in {"global", "protnone"}
      /\ e.PSE <=> level # "pte" \/ m.pat
      /\ e.field = IF here THEN pfn ELSE MaxField - pfn
  BY <1>2
<1>6. e # Zero
  BY <1>1, <1>5 DEF Zero, Prots
<1>PAT. level = "pte" => e.PSE = m.pat
  <2>1. CASE m.pat = TRUE
    BY <1>2, <2>1
  <2>2. CASE m.pat = FALSE
    BY <1>2, <2>2
  <2> QED BY <1>1, <2>1, <2>2
<1>7. needs_invert(e) <=> ~here
  BY <1>5, <1>6 DEF needs_invert
<1>8. DOMAIN e = {"P", "G", "PSE", "field"}
  BY <1>2
<1>9. MaxField - (MaxField - pfn) = pfn
  BY <1>1, <1>3
<1>10. /\ v.field = pfn
       /\ v.P <=> e.P
       /\ v.G <=> e.G
       /\ v.PSE = e.PSE
  BY <1>5, <1>7, <1>8, <1>9 DEF invert_val_if_needed
<1>11. pfn_of(e, level) = pfn - (pfn % K)
  BY <1>5, <1>7, <1>9 DEF pfn_of, K
<1>12. present(e, level) /\ leaf(e, level)
  BY <1>1, <1>5 DEF present, leaf, pud_leaf, pmd_leaf, Prots, Misleads
<1>13. dump_entry(e, level) = Mapped(e, level)
  BY <1>6, <1>12 DEF dump_entry
<1> HIDE DEF v
<1> QED BY <1>4, <1>5, <1>10, <1>11, <1>13, <1>PAT DEF e, v, K

(* What is known when the walk has ended with the entry of a level. *)
ReadAt(level) ==
  /\ from = level
  /\ last \in Meaning(level) /\ ~Misleads(last, level)
  /\ val = LET e == Encode(last, level)
           IN  IF level \in {"pud", "pmd", "pte"} THEN invert_val_if_needed(e) ELSE e
  /\ report = dump_entry(Encode(last, level), level)

(* The inductive invariant: so far only tables were passed, and the line *)
(* printed is that of the entry read last; or an entry that misleads was *)
(* passed, and the walk is astray.                                       *)
WalkInv ==
  /\ pc \in Levels \cup {"init", "return", "done", "oops"}
  /\ pc = "init" => last = Table
  /\ pc \in Levels => last = Table \/ Astray
  /\ pc = "oops" => Astray
  /\ pc = "return" => last = Table \/ Astray \/ \E level \in Levels : ReadAt(level)

(* What an entry of a level can be. *)
LEMMA Meanings ==
  ASSUME NEW level \in Levels, NEW m \in Meaning(level)
  PROVE  \/ m = None
         \/ m = Table /\ level # "pte"
         \/ m \in Swap /\ level \in {"pmd", "pte"}
         \/ m \in Leaf(level, Prots(level)) /\ level \in {"pud", "pmd", "pte"}
<1>1. CASE level \in {"pgd", "p4d"}
  BY <1>1 DEF Meaning
<1>2. CASE level = "pud"
  BY <1>2 DEF Meaning, Prots
<1>3. CASE level = "pmd"
  BY <1>3 DEF Meaning, Prots
<1>4. CASE level = "pte"
  BY <1>4 DEF Meaning, Prots
<1> QED BY <1>1, <1>2, <1>3, <1>4 DEF Levels

(* dump_*() ends the walk with a line at every entry but a table and the *)
(* ones that mislead.                                                    *)
LEMMA OnlyTablesFollowed ==
  ASSUME NEW level \in Levels, NEW m \in Meaning(level), ~Misleads(m, level)
  PROVE  dump_entry(Encode(m, level), level) = NoReport <=> m = Table
<1> DEFINE e == Encode(m, level)
<1>1. CASE m = None
  <2>1. m # Table
    BY <1>1 DEF None, Table
  <2>2. dump_entry(e, level) = NotPresent(level)
    BY <1>1, NoneIsReported
  <2>3. NotPresent(level) # NoReport
    BY DEF NotPresent, NoReport
  <2> QED BY <2>1, <2>2, <2>3
<1>2. CASE m = Table /\ level # "pte"
  <2>1. level \in {"pgd", "p4d", "pud", "pmd"}
    BY <1>2 DEF Levels
  <2> QED BY <1>2, <2>1, TableIsFollowed
<1>3. CASE m \in Swap /\ level \in {"pmd", "pte"}
  <2>1. m # Table
    BY <1>3 DEF Swap, Table
  <2> QED BY <1>3, <2>1, SwapIsReported DEF NoReport
<1>4. CASE m \in Leaf(level, Prots(level)) /\ level \in {"pud", "pmd", "pte"}
  <2>1. m # Table
    BY <1>4 DEF Leaf, Table
  <2>2. dump_entry(e, level) = Mapped(e, level)
    BY <1>4, LeafIsMapped
  <2>3. Mapped(e, level) # NoReport
    BY DEF Mapped, NoReport
  <2> QED BY <2>1, <2>2, <2>3
<1> QED BY <1>1, <1>2, <1>3, <1>4, Meanings

(* The line depends on the parameters and on nothing that changes. *)
LEMMA SameEntry ==
  ASSUME UNCHANGED params, NEW m, NEW level
  PROVE  /\ dump_entry(Encode(m, level), level)' = dump_entry(Encode(m, level), level)
         /\ Misleads(m, level)' <=> Misleads(m, level)
BY DEF dump_entry, Mapped, paddr, present, leaf, pud_leaf, Misleads, params

(* It holds before insmod. *)
LEMMA WalkInit == Init => WalkInv
BY DEF Init, WalkInv, Levels

(* Every level of the walk keeps it, with 4 and with 5 levels. *)
LEMMA WalkStep == WalkInv /\ [Next]_vars => WalkInv'
<1> SUFFICES ASSUME WalkInv, [Next]_vars PROVE WalkInv'
  OBVIOUS
<1>1. CASE dump_macros
  BY <1>1 DEF dump_macros, WalkInv, Levels
<1>2. CASE walk
  BY <1>2 DEF walk, WalkInv, Levels
<1>3. CASE WalkLevel
  <2>1. PICK m \in Meaning(pc) :
          /\ last' = m /\ from' = pc
          /\ val' = LET e == Encode(m, pc)
                    IN  IF pc \in {"pud", "pmd", "pte"} THEN invert_val_if_needed(e) ELSE e
          /\ report' = dump_entry(Encode(m, pc), pc)
          /\ pc' = IF dump_entry(Encode(m, pc), pc) = NoReport THEN below(pc) ELSE "return"
    BY <1>3 DEF WalkLevel, Visit
  <2>2. pc \in Levels /\ UNCHANGED params
    BY <1>3 DEF WalkLevel, Visit
  <2>5. CASE Misleads(m, pc)
    <3>1. pc \in {"pgd", "pud"}
      BY <2>5 DEF Misleads
    <3>2. below(pc) \in Levels
      BY <3>1 DEF below, Levels
    <3>4. Astray'
      BY <2>1, <2>2, <2>5 DEF Misleads, params, Astray, EmptyPgd, Protnone1G
    <3> QED BY <2>1, <3>2, <3>4 DEF WalkInv, Levels
  <2>3. CASE m = Table
    <3>0. ~Misleads(m, pc)
      BY <2>3 DEF Misleads, Table, None
    <3>1. pc' = below(pc)
      BY <2>1, <2>2, <2>3, <3>0, OnlyTablesFollowed
    <3>2. pc # "pte"
      BY <2>1, <2>3 DEF Meaning, Table, None, Swap, Leaf
    <3>3. below(pc) \in Levels
      BY <2>2, <3>2 DEF below, Levels
    <3> QED BY <2>1, <2>3, <3>1, <3>3 DEF WalkInv, Levels, Table
  <2>4. CASE m # Table /\ ~Misleads(m, pc)
    <3>1. pc' = "return"
      BY <2>1, <2>2, <2>4, OnlyTablesFollowed
    <3>2. PICK level \in Levels : level = pc
      BY <2>2
    <3>4. ~Misleads(last, level)'
      BY <2>1, <2>2, <2>4, <3>2 DEF Misleads, params
    <3>5. dump_entry(Encode(last, level), level)' = dump_entry(Encode(m, level), level)
      <4>1. dump_entry(Encode(m, level), level)' = dump_entry(Encode(m, level), level)
        BY <2>2, SameEntry
      <4> QED BY <2>1, <4>1
    <3>3. ReadAt(level)'
      BY <2>1, <2>2, <3>2, <3>4, <3>5 DEF ReadAt
    <3> QED BY <2>2, <3>1, <3>2, <3>3 DEF WalkInv, Levels
  <2> QED BY <2>3, <2>4, <2>5
<1>6. CASE WalkAstray
  <2>1. Astray /\ pc \in Levels /\ UNCHANGED <<params, from, last>>
    BY <1>6 DEF WalkAstray, WalkInv, Visit
  <2>2. Astray'
    BY <2>1 DEF Astray, EmptyPgd, Protnone1G, params
  <2>3. CASE pc' = "oops"
    BY <2>2, <2>3 DEF WalkInv, Levels
  <2>4. ASSUME NEW e \in Entry, Visit(e) PROVE WalkInv'
    <3>1. CASE pc' = "return"
      BY <2>2, <3>1 DEF WalkInv, Levels
    <3>2. CASE dump_entry(e, pc) = NoReport
      <4>1. pc # "pte"
        BY <3>2 DEF dump_entry, leaf, NoReport, NotPresent, SwapEntry, Mapped
      <4>2. pc' \in Levels
        BY <2>1, <2>4, <3>2, <4>1 DEF Visit, below, Levels
      <4> QED BY <2>2, <4>2 DEF WalkInv, Levels
    <3> QED BY <2>4, <3>1, <3>2 DEF Visit
  <2> QED BY <1>6, <2>3, <2>4 DEF WalkAstray
<1>4. CASE page_table_walk_init
  BY <1>4 DEF page_table_walk_init, WalkInv, Levels
<1>5. CASE UNCHANGED vars
  <2>1. ASSUME NEW level \in Levels, ReadAt(level) PROVE ReadAt(level)'
    <3>1. /\ dump_entry(Encode(last, level), level)' = dump_entry(Encode(last, level), level)
          /\ Misleads(last, level)' <=> Misleads(last, level)
      BY <1>5 DEF dump_entry, Mapped, paddr, present, leaf, pud_leaf, Misleads, vars
    <3> QED BY <1>5, <2>1, <3>1 DEF vars, ReadAt
  <2>2. Astray' <=> Astray
    BY <1>5 DEF vars, Astray, EmptyPgd, Protnone1G
  <2> QED BY <1>5, <2>1, <2>2 DEF vars, WalkInv
<1> QED BY <1>1, <1>2, <1>3, <1>4, <1>5, <1>6 DEF Next

(* A walk that ended at a page read it at a level that has pages. *)
LEMMA LeafRead ==
  ASSUME WalkInv, pc = "return", last.kind = "leaf", ~Protnone1G
  PROVE  \E level \in {"pud", "pmd", "pte"} :
           /\ ~Misleads(last, level)
           /\ last \in Leaf(level, Prots(level))
           /\ val = invert_val_if_needed(Encode(last, level))
           /\ report = dump_entry(Encode(last, level), level)
<1>1. last # Table /\ last # None /\ last \notin Swap
  BY DEF Table, None, Swap
<1>2. PICK level \in Levels : ReadAt(level)
  BY <1>1 DEF WalkInv, Astray, EmptyPgd
<1>3. last \in Leaf(level, Prots(level)) /\ level \in {"pud", "pmd", "pte"}
  BY <1>1, <1>2, Meanings DEF ReadAt
<1> QED BY <1>2, <1>3 DEF ReadAt

(* It gives what is asked of the walk. *)
LEMMA WalkSafe ==
  ASSUME WalkInv
  PROVE  DescendsThroughTables /\ UnmappedReported /\ PaddrCorrect /\ FlagsCorrect
<1>1. DescendsThroughTables
  BY DEF WalkInv, DescendsThroughTables, Levels, Table
<1>2. UnmappedReported
  <2> SUFFICES ASSUME pc = "return"
               PROVE  /\ last.kind = "swap" => report = [kind |-> "swap", offset |-> last.offset]
                      /\ last.kind = "none" /\ ~EmptyPgd => report = NotPresent(from)
    BY DEF UnmappedReported
  <2>1. CASE last = Table
    BY <2>1 DEF Table
  <2>3. CASE Astray
    BY <2>3 DEF Astray, EmptyPgd, Protnone1G, None
  <2>2. ASSUME NEW level \in Levels, ReadAt(level)
        PROVE  /\ last.kind = "swap" => report = [kind |-> "swap", offset |-> last.offset]
               /\ last.kind = "none" /\ ~EmptyPgd => report = NotPresent(from)
    <3>1. /\ last \in Meaning(level) /\ report = dump_entry(Encode(last, level), level)
          /\ from = level /\ ~Misleads(last, level)
      BY <2>2 DEF ReadAt
    <3>2. CASE last = None
      <4>1. last.kind = "none"
        BY <3>2 DEF None
      <4>2. report = NotPresent(level)
        BY <3>1, <3>2, NoneIsReported
      <4> QED BY <3>1, <4>1, <4>2
    <3>3. CASE last = Table
      BY <3>3 DEF Table
    <3>4. CASE last \in Swap /\ level \in {"pmd", "pte"}
      <4>1. last.kind = "swap"
        BY <3>4 DEF Swap
      <4>2. report = [kind |-> "swap", offset |-> last.offset]
        BY <3>1, <3>4, SwapIsReported
      <4> QED BY <4>1, <4>2
    <3>5. CASE last \in Leaf(level, Prots(level))
      BY <3>5 DEF Leaf
    <3> QED BY <3>1, <3>2, <3>3, <3>4, <3>5, Meanings
  <2> QED BY <2>1, <2>2, <2>3 DEF WalkInv
<1>3. ASSUME pc = "return", last.kind = "leaf", ~Protnone1G
      PROVE  /\ report.kind = "paddr"
             /\ report.paddr = last.base * 2^PAGE_SHIFT
                                 + (vaddr % 2^(PAGE_SHIFT + Inside(report.level)))
             /\ report.PAT = last.pat
             /\ report.GLOBAL = (last.prot = "global")
             /\ report.PROTNONE = (last.prot = "protnone")
             /\ report.zero_page = (report.level = "pte" /\ last.base = ZeroPfn)
             /\ val.field - (val.field % 2^Inside(report.level)) = last.base
  <2>1. PICK level \in {"pud", "pmd", "pte"} :
          /\ ~Misleads(last, level)
          /\ last \in Leaf(level, Prots(level))
          /\ val = invert_val_if_needed(Encode(last, level))
          /\ report = dump_entry(Encode(last, level), level)
    BY <1>3, LeafRead
  <2> DEFINE e == Encode(last, level)
  <2>2. /\ report = Mapped(e, level)
        /\ pfn_of(e, level) = last.base
        /\ val.field - (val.field % 2^Inside(level)) = last.base
        /\ level = "pte" => val.PSE = last.pat
        /\ level # "pte" => (val.field % 2 = 1 <=> last.pat)
        /\ val.P <=> last.prot \in {"present", "global"}
        /\ val.G <=> last.prot \in {"global", "protnone"}
    BY <2>1, LeafIsMapped
  <2>3. last.pat \in BOOLEAN
    BY <2>1 DEF Leaf
  <2>4. report = [kind |-> "paddr", level |-> level, paddr |-> paddr(e, level),
                  PAT |-> IF level = "pte" THEN val.PSE ELSE val.field % 2 = 1,
                  GLOBAL |-> val.G /\ val.P,
                  PROTNONE |-> val.G /\ ~val.P,
                  zero_page |-> level = "pte" /\ pfn_of(e, level) = ZeroPfn]
    BY <2>1, <2>2 DEF Mapped
  <2> HIDE DEF e
  <2>5. /\ report.kind = "paddr" /\ report.level = level /\ report.paddr = paddr(e, level)
        /\ report.PAT = IF level = "pte" THEN val.PSE ELSE val.field % 2 = 1
        /\ report.GLOBAL = (val.G /\ val.P)
        /\ report.PROTNONE = (val.G /\ ~val.P)
        /\ report.zero_page = (level = "pte" /\ pfn_of(e, level) = ZeroPfn)
    BY <2>4
  <2>6. report.paddr = last.base * 2^PAGE_SHIFT
                         + (vaddr % 2^(PAGE_SHIFT + Inside(report.level)))
    BY <2>2, <2>5 DEF paddr
  <2>7. report.PAT = last.pat
    <3>1. CASE level = "pte"
      BY <2>2, <2>5, <3>1
    <3>2. CASE level # "pte"
      BY <2>2, <2>3, <2>5, <3>2
    <3> QED BY <3>1, <3>2
  <2>8. /\ report.GLOBAL = (last.prot = "global")
        /\ report.PROTNONE = (last.prot = "protnone")
    BY <2>2, <2>5
  <2>9. report.zero_page = (report.level = "pte" /\ last.base = ZeroPfn)
    BY <2>2, <2>5
  <2> QED BY <2>2, <2>5, <2>6, <2>7, <2>8, <2>9
<1>4. PaddrCorrect
  BY <1>3 DEF PaddrCorrect
<1>5. FlagsCorrect
  BY <1>3 DEF FlagsCorrect
<1> QED BY <1>1, <1>2, <1>4, <1>5

(* It holds in every state, for every layout of an address. *)
THEOREM WalkInvHolds == Spec => []WalkInv
BY WalkInit, WalkStep, PTL DEF Spec

(* walk_4l() and walk_5l() go on only through an entry that points to a  *)
(* table, for every layout of an address; but for an empty pgd of 4      *)
(* levels, and a PROTNONE page of 1G before 6.12.                        *)
THEOREM WalkDescendsThroughTables == Spec => []DescendsThroughTables
BY WalkInvHolds, WalkSafe, PTL

(* What is not mapped is reported as such, and a swapped page with its   *)
(* slot, for every width of a frame number; but for an empty pgd of 4    *)
(* levels.                                                               *)
THEOREM WalkReportsUnmapped == Spec => []UnmappedReported
BY WalkInvHolds, WalkSafe, PTL

(* The physical address printed is that of vaddr, for every page size,   *)
(* every frame and every state of the page; but for the PROTNONE pages   *)
(* of 1G of kernels before 6.12.                                         *)
THEOREM WalkPrintsPaddr == Spec => []PaddrCorrect
BY WalkInvHolds, WalkSafe, PTL

(* The flags printed, and the frame number in the value printed, are     *)
(* those of the page, however the entry is stored; but for the same.     *)
THEOREM WalkPrintsFlags == Spec => []FlagsCorrect
BY WalkInvHolds, WalkSafe, PTL
===============================================================================
