----------------------------- MODULE PageTableWalk -----------------------------
(***************************************************************************)
(* modules/page_table_walk.c: the walk down one path of the page tables,   *)
(* from page_table_walk_init() to the line with the physical address.  The *)
(* tables do not change during the walk; how its mm is kept alive is in    *)
(* WalkUser.  A raw entry is its PRESENT, GLOBAL and PSE bits and the bits *)
(* of the page frame number; what the kernel meant by it is its meaning,   *)
(* and Encode is how the kernel writes that down (external).               *)
(***************************************************************************)
EXTENDS Naturals

CONSTANTS
  PAGE_SHIFT,  \* address bits inside a page
  PmdBits,     \* frame number bits inside a 2M page
  PudBits,     \* and inside a 1G page
  PfnBits,     \* frame number bits in all
  ZeroPfn      \* the frame of the zero page

ASSUME LayoutAssumption ==
  /\ {PAGE_SHIFT, PmdBits, PudBits, PfnBits, ZeroPfn} \subseteq Nat
  /\ 0 < PmdBits /\ PmdBits < PudBits /\ PudBits < PfnBits

MaxField == 2^PfnBits - 1
Pfn == 0..MaxField
VAddr == 0..(2^(PAGE_SHIFT + PudBits) - 1)  \* the bits below the pud index

(* Frame number bits inside a page mapped at a level. *)
Inside(level) == CASE level = "pud" -> PudBits [] level = "pmd" -> PmdBits [] OTHER -> 0

None == [kind |-> "none"]
Table == [kind |-> "table"]
Leaf(level, prots) ==
  [kind : {"leaf"}, prot : prots, pat : BOOLEAN,
   base : {p \in Pfn : p % 2^Inside(level) = 0}]
Swap == [kind : {"swap"}, offset : 0..(MaxField - 1)]

(* What there can be at each level.  Only transparent huge pages, which    *)
(* are 2M, are swapped out or split.                                       *)
Meaning(level) ==
  CASE level \in {"pgd", "p4d"} -> {None, Table}
    [] level = "pud" -> {None, Table} \cup Leaf(level, {"present", "global", "protnone"})
    [] level = "pmd" -> {None, Table} \cup Swap
                          \cup Leaf(level, {"present", "global", "protnone", "splitting"})
    [] level = "pte" -> {None} \cup Swap \cup Leaf(level, {"present", "global", "protnone"})

Entry == [P : BOOLEAN, G : BOOLEAN, PSE : BOOLEAN, field : Pfn]
Zero == [P |-> FALSE, G |-> FALSE, PSE |-> FALSE, field |-> 0]

(* The frame number of an entry that is not present is stored inverted.    *)
(* PAT is the lowest bit of the frame number of a huge page, and the bit   *)
(* that means PSE elsewhere in a pte.                                      *)
Encode(m, level) ==
  CASE m.kind = "none"  -> Zero
    [] m.kind = "table" -> [P |-> TRUE, G |-> FALSE, PSE |-> FALSE, field |-> 1]
    [] m.kind = "swap"  -> [P |-> FALSE, G |-> FALSE, PSE |-> FALSE, field |-> MaxField - m.offset]
    [] m.kind = "leaf"  ->
         LET present == m.prot \in {"present", "global"}
             pfn == IF level # "pte" /\ m.pat THEN m.base + 1 ELSE m.base
         IN  [P |-> present, G |-> m.prot \in {"global", "protnone"},
              PSE |-> level # "pte" \/ m.pat,
              field |-> IF present THEN pfn ELSE MaxField - pfn]

VARIABLES
  kernel,   \* the version it is built for, of those that the source names
  dump,     \* the module parameter
  cpu,      \* the control registers that walk() looks at
  vaddr,
  pc,       \* the level whose entry is read next, or where init is
  from,     \* the level of the last entry that was read from a page table
  last,     \* what that entry means
  val,      \* the value printed last
  report,   \* the line that ended the walk
  ret       \* what page_table_walk_init() returned

vars == <<kernel, dump, cpu, vaddr, pc, from, last, val, report, ret>>
params == <<kernel, dump, cpu, vaddr>>

Levels == {"pgd", "p4d", "pud", "pmd", "pte"}

NoReport == [kind |-> "none"]

Init ==
  /\ kernel \in {"5.10", "5.17", "6.12"}
  /\ dump \in BOOLEAN
  /\ cpu \in [efer_err : BOOLEAN, paging : BOOLEAN, ia32e : BOOLEAN, pae : BOOLEAN, la57 : BOOLEAN]
  /\ vaddr \in VAddr
  /\ pc = "init"
  /\ from = "cr3"
  /\ last = Table
  /\ val = Zero
  /\ report = NoReport
  /\ ret = "none"
-------------------------------------------------------------------------------
(* __pte_needs_invert() *)
needs_invert(e) == e # Zero /\ ~e.P

invert_val_if_needed_Never(e) == e
invert_val_if_needed(e) ==
  IF needs_invert(e) THEN [e EXCEPT !.field = MaxField - @] ELSE e

(* pud_pfn(), pmd_pfn(), pte_pfn(): the frame number without the bits that *)
(* a huge page has no use for.                                             *)
pfn_of(e, level) ==
  LET f == IF needs_invert(e) THEN MaxField - e.field ELSE e.field
  IN  f - (f % 2^Inside(level))

(* pud_paddr(), pmd_paddr(), pte_paddr() *)
paddr_PageOffsetOnly(e, level) == pfn_of(e, level) * 2^PAGE_SHIFT + (vaddr % 2^PAGE_SHIFT)
paddr(e, level) ==
  pfn_of(e, level) * 2^PAGE_SHIFT + (vaddr % 2^(PAGE_SHIFT + Inside(level)))

(* pud_present_good(), pmd_present() and pte_present(); pgd and p4d have   *)
(* the PRESENT bit only, but with 4 levels, where the p4d is folded into   *)
(* the pgd, pgd_present() is always true.                                  *)
present(e, level) ==
  CASE level \in {"pud", "pte"} -> e.P \/ e.G
    [] level = "pmd"            -> e.P \/ e.G \/ e.PSE
    [] level = "pgd"            -> e.P \/ ~cpu.la57
    [] OTHER                    -> e.P

(* pud_leaf() and pmd_leaf().  The former was pud_large(), which wants the *)
(* PRESENT bit as well, in the kernels 5.10 and 5.17.                      *)
pud_leaf(e) == e.PSE /\ (e.P \/ kernel = "6.12")
pmd_leaf_PresentOnly(e) == e.PSE /\ e.P
pmd_leaf(e) == e.PSE
leaf(e, level) ==
  CASE level = "pud" -> pud_leaf(e)
    [] level = "pmd" -> pmd_leaf(e)
    [] OTHER         -> level = "pte"

NotPresent(level) == [kind |-> "not present", level |-> level]
SwapEntry(e) == [kind |-> "swap", offset |-> MaxField - e.field]
Mapped(e, level) ==
  LET v == invert_val_if_needed(e)
  IN  [kind |-> "paddr", level |-> level, paddr |-> paddr(e, level),
       PAT |-> IF level = "pte" THEN v.PSE ELSE v.field % 2 = 1,
       GLOBAL |-> v.G /\ v.P,
       PROTNONE |-> v.G /\ ~v.P,
       zero_page |-> level = "pte" /\ pfn_of(e, level) = ZeroPfn]

dump_entry_NoneNotChecked(e, level) ==
  CASE level \notin {"pmd", "pte"} /\ ~present(e, level) -> NotPresent(level)
    [] level \in {"pmd", "pte"} /\ ~present(e, level)    -> SwapEntry(e)
    [] present(e, level) /\ leaf(e, level)               -> Mapped(e, level)
    [] OTHER                                             -> NoReport

(* dump_pgd() to dump_pte(): the line that ends the walk, or none.  Only   *)
(* pmd and pte tell an empty entry from a swap entry.                      *)
dump_entry(e, level) ==
  CASE ~present(e, level) /\ (e = Zero \/ level \notin {"pmd", "pte"}) -> NotPresent(level)
    [] ~present(e, level) /\ e # Zero /\ level \in {"pmd", "pte"}      -> SwapEntry(e)
    [] present(e, level) /\ leaf(e, level)                             -> Mapped(e, level)
    [] OTHER                                                           -> NoReport

below(level) ==
  CASE level = "pgd" -> IF cpu.la57 THEN "p4d" ELSE "pud"
    [] level = "p4d" -> "pud"
    [] level = "pud" -> "pmd"
    [] level = "pmd" -> "pte"

(* dump=1 prints macros and nothing else. *)
dump_macros ==
  /\ pc = "init"
  /\ dump
  /\ pc' = "return"
  /\ UNCHANGED <<params, from, last, val, report, ret>>

(* walk(): an unreadable EFER is an error, a mode it does not know is not. *)
walk ==
  /\ pc = "init"
  /\ ~dump
  /\ IF cpu.efer_err
     THEN pc' = "done" /\ ret' = "rdmsr error"
     ELSE /\ pc' = IF cpu.paging /\ cpu.ia32e /\ cpu.pae THEN "pgd" ELSE "return"
          /\ UNCHANGED ret
  /\ UNCHANGED <<params, from, last, val, report>>

(* One level of walk_4l() or walk_5l(), whatever the entry is. *)
Visit(e) ==
  /\ val' = IF pc \in {"pud", "pmd", "pte"} THEN invert_val_if_needed(e) ELSE e
  /\ report' = dump_entry(e, pc)
  /\ pc' = IF dump_entry(e, pc) = NoReport THEN below(pc) ELSE "return"
  /\ UNCHANGED <<params, ret>>

WalkLevel ==
  /\ pc \in Levels
  /\ last = Table
  /\ \E m \in Meaning(pc) :
       /\ Visit(Encode(m, pc))
       /\ from' = pc /\ last' = m

(* Below an entry that is no table there is whatever the frame in it has,  *)
(* or nothing that is mapped.                                              *)
WalkAstray ==
  /\ pc \in Levels
  /\ last # Table
  /\ \/ \E e \in Entry : Visit(e)
     \/ pc' = "oops" /\ UNCHANGED <<params, val, report, ret>>
  /\ UNCHANGED <<from, last>>

page_table_walk_init ==
  /\ pc = "return"
  /\ pc' = "done"
  /\ ret' = "-ECANCELED"
  /\ UNCHANGED <<params, from, last, val, report>>

Next == dump_macros \/ walk \/ WalkLevel \/ WalkAstray \/ page_table_walk_init

Spec == Init /\ [][Next]_vars
-------------------------------------------------------------------------------
(* What the walk takes for a table although it is none: with 4 levels an   *)
(* empty pgd, and before 6.12 a PROTNONE page of 1G.                       *)
EmptyPgd == from = "pgd" /\ last = None /\ ~cpu.la57
Protnone1G ==
  /\ from = "pud" /\ last.kind = "leaf" /\ last.prot = "protnone"
  /\ kernel # "6.12"
Astray == EmptyPgd \/ Protnone1G

(* But for these two entries the walk goes on, and can fault, only below   *)
(* an entry that points to a table: never below a huge page, whatever its  *)
(* protection or state.                                                    *)
DescendsThroughTables == pc \in Levels \cup {"oops"} => last.kind = "table" \/ Astray

(* A physical address is printed for every mapped page of every size, also *)
(* a PROTNONE page or one that is being split, and it is the page's frame  *)
(* with the offset of vaddr in a page of that size: on 6.12 always, before *)
(* that but for PROTNONE pages of 1G.                                      *)
PaddrCorrect ==
  pc = "return" /\ last.kind = "leaf" /\ ~Protnone1G =>
    /\ report.kind = "paddr"
    /\ report.paddr = last.base * 2^PAGE_SHIFT
                        + (vaddr % 2^(PAGE_SHIFT + Inside(report.level)))

(* The flags printed are those of the page, and the value printed holds    *)
(* the frame number as the kernel meant it, not as L1TF has it stored; but *)
(* for the same pages.                                                     *)
FlagsCorrect ==
  pc = "return" /\ last.kind = "leaf" /\ ~Protnone1G =>
    /\ report.PAT = last.pat
    /\ report.GLOBAL = (last.prot = "global")
    /\ report.PROTNONE = (last.prot = "protnone")
    /\ report.zero_page = (report.level = "pte" /\ last.base = ZeroPfn)
    /\ val.field - (val.field % 2^Inside(report.level)) = last.base

(* What is not mapped is reported as such, at the level at which it ends,  *)
(* and swapped pages with the slot they are in; but for an empty pgd of 4  *)
(* levels.                                                                 *)
UnmappedReported ==
  pc = "return" =>
    /\ last.kind = "swap" => report = [kind |-> "swap", offset |-> last.offset]
    /\ last.kind = "none" /\ ~EmptyPgd => report = NotPresent(from)
===============================================================================
