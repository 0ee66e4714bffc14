------------------------------ MODULE PageInfo ------------------------------
(* src/userspace/pageinfo.c: decodes /proc/[pid]/pagemap of a virtual      *)
(* address, and /proc/kpageflags and /proc/kpagecount of a frame.  The     *)
(* three files are read one after the other while the kernel moves, swaps  *)
(* and unmaps the page and gives its frame to others.                      *)
(* Widths are parameters; PM_SOFT_DIRTY stands for all flags of pagemap    *)
(* but PRESENT and SWAP, and the flags of kpageflags that are printed the  *)
(* same way are one flag each: documented, PGTABLE, and hack.              *)
EXTENDS Integers, Sequences

CONSTANTS
  PAGE_SHIFT,
  Frames,      \* the machine has the frames 0..Frames-1; frame 0 is reserved
  VPages,      \* the process has the virtual pages 0..VPages-1
  VPage,       \* the one of them that may be mapped
  TypeBits,    \* width of the swap type, 5 in the source
  OffsetBits   \* width of the swap offset, 50 in the source

ASSUME PageInfoAssumption ==
  /\ {PAGE_SHIFT, Frames, VPages, TypeBits, OffsetBits} \subseteq Nat \ {0}
  /\ VPage \in 0..(VPages - 1)

Frame == 0..(Frames - 1)
Address == 0..(2^PAGE_SHIFT * (Frames + VPages) - 1)

(* The arguments: "pid" is a number in 1..INT_MAX, which is an address as  *)
(* well, "addr" a number that is an address only.                          *)
Token == {"hack", "self", "pid", "addr", "junk"}
Arguments == UNION {[1..n -> Token] : n \in 0..4}

VARIABLES
  argv,    \* the arguments after the program's name
  sys_admin,    \* pageinfo has CAP_SYS_ADMIN: pagemap shows it frames and slots
  kpage_access, \* it may open /proc/kpageflags and /proc/kpagecount, of mode 0400
  pc,
  virt,    \* pid # NULL in dump_page_info()
  addr, hack,
  pfn,     \* the frame that is looked up
  line,    \* what dump_pagemap() says about where the page is
  kpf,     \* the flags read from kpageflags
  shown,   \* the names of flags printed
  count,   \* the number read from kpagecount
  page,    \* where the page at VPage is
  use,     \* what each frame is used for
  seen,    \* history: page when pagemap was read
  quiet    \* history: no page or frame changed since the first file was read

vars == <<argv, sys_admin, kpage_access, pc, virt, addr, hack, pfn, line, kpf, shown, count,
          page, use, seen, quiet>>
args == <<argv, sys_admin, kpage_access, virt, addr, hack>>
kernel == <<page, use>>

None == [kind |-> "none"]
Present(f) == [kind |-> "present", pfn |-> f]
Swap == [kind : {"swap"}, type : 0..(2^TypeBits - 1), offset : 0..(2^OffsetBits - 1)]

Init ==
  /\ argv \in Arguments
  /\ sys_admin \in BOOLEAN /\ kpage_access \in BOOLEAN
  /\ pc = "main"
  /\ virt = FALSE /\ addr = 0 /\ hack = FALSE
  /\ pfn = 0 /\ line = None /\ kpf = {} /\ shown = {} /\ count = 0
  /\ page = None
  /\ use = [f \in Frame |-> IF f = 0 THEN "reserved" ELSE "buddy"]
  /\ seen = None /\ quiet = TRUE
-------------------------------------------------------------------------------
(* The kernel's side of the three files. *)

(* An entry of pagemap.  Without CAP_SYS_ADMIN the low bits read as 0,     *)
(* whoever the reader is.                                                  *)
Entry(p, dirty) ==
  [PRESENT |-> p.kind = "present", SWAP |-> p.kind = "swap", SOFT_DIRTY |-> dirty,
   low |-> CASE sys_admin /\ p.kind = "present" -> p.pfn
             [] sys_admin /\ p.kind = "swap" -> p.type + p.offset * 2^TypeBits
             [] OTHER -> 0]

Flags(f) == CASE use[f] = "buddy" -> {"BUDDY"}
              [] use[f] = "mapped" -> {"MMAP"}
              [] use[f] = "pgtable" -> {"PGTABLE"}
              [] use[f] = "reserved" -> {"RESERVED"}

MapCount(f) == IF use[f] = "mapped" THEN 1 ELSE 0

(* The page is faulted in, migrated, swapped out or unmapped. *)
MovePage ==
  /\ \E p \in {None} \cup Swap \cup {Present(f) : f \in {g \in Frame : use[g] = "buddy"}} :
       /\ p.kind = "swap" => page.kind = "present"
       /\ p.kind = "none" => page.kind # "none"
       /\ page' = p
       /\ use' = [f \in Frame |-> CASE p = Present(f) -> "mapped"
                                    [] page = Present(f) -> "buddy"
                                    [] OTHER -> use[f]]
  /\ quiet' = FALSE
  /\ UNCHANGED <<args, pc, pfn, line, kpf, shown, count, seen>>

(* A free frame becomes a page table, or a page table is freed. *)
ReuseFrame(f) ==
  /\ use[f] \in {"buddy", "pgtable"}
  /\ use' = [use EXCEPT ![f] = IF @ = "buddy" THEN "pgtable" ELSE "buddy"]
  /\ quiet' = FALSE
  /\ UNCHANGED <<args, pc, pfn, line, kpf, shown, count, page, seen>>
-------------------------------------------------------------------------------
(* The program. *)

(* strcmp() with "self" or a strtol() within 1..INT_MAX, and strtoul(). *)
IsPid(a) == a \in {"self", "pid"}
IsAddr(a) == a \in {"pid", "addr"}

exit(status) ==
  /\ pc' = status
  /\ UNCHANGED <<args, pfn, line, kpf, shown, count, kernel, seen, quiet>>

(* argc of main() without the program's name, after a trailing "hack" is   *)
(* taken off.                                                              *)
HackGiven == Len(argv) >= 2 /\ argv[Len(argv)] = "hack"
argc_HackKept == Len(argv)
argc == IF HackGiven THEN Len(argv) - 1 ELSE Len(argv)

UsageError == Len(argv) > 3 \/ argc \notin {1, 2}
BadArgument == (argc = 2 /\ ~IsPid(argv[1])) \/ ~IsAddr(argv[argc])
Accepted == ~UsageError /\ ~BadArgument

main_Rejects ==
  /\ pc = "main"
  /\ ~Accepted
  /\ exit("rejected")

main ==
  /\ pc = "main"
  /\ Accepted
  /\ hack' = HackGiven
  /\ virt' = (argc = 2)
  /\ addr' \in Address
  /\ IF virt' THEN pc' = "pagemap" /\ UNCHANGED pfn
     ELSE pc' = "kpageflags" /\ pfn' = addr' \div 2^PAGE_SHIFT
  /\ UNCHANGED <<argv, sys_admin, kpage_access, line, kpf, shown, count, kernel, seen, quiet>>

(* The line that dump_pagemap() prints for an entry. *)
Location_TypeNotMasked(pm) ==
  CASE pm.PRESENT -> [kind |-> "paddr", pfn |-> pm.low,
                      paddr |-> pm.low * 2^PAGE_SHIFT + (addr % 2^PAGE_SHIFT)]
    [] ~pm.PRESENT /\ pm.SWAP -> [kind |-> "swap", type |-> pm.low,
                                  offset |-> pm.low \div 2^TypeBits]
    [] OTHER -> None

Location(pm) ==
  CASE pm.PRESENT -> [kind |-> "paddr", pfn |-> pm.low,
                      paddr |-> pm.low * 2^PAGE_SHIFT + (addr % 2^PAGE_SHIFT)]
    [] ~pm.PRESENT /\ pm.SWAP -> [kind |-> "swap", type |-> pm.low % 2^TypeBits,
                                  offset |-> pm.low \div 2^TypeBits]
    [] OTHER -> None

(* The frame that dump_page_info() looks up next. *)
LookedUp_VirtualPage(pm) == addr \div 2^PAGE_SHIFT
LookedUp(pm) == pm.low

(* read_pagemap() and dump_pagemap(): the entry of vaddr, or end of file   *)
(* above the last page.                                                    *)
dump_pagemap ==
  /\ pc = "pagemap"
  /\ addr \div 2^PAGE_SHIFT < VPages
  /\ \E dirty \in BOOLEAN :
       LET at == IF addr \div 2^PAGE_SHIFT = VPage THEN page ELSE None
           pm == Entry(at, dirty)
       IN  /\ seen' = at
           /\ line' = Location(pm)
           /\ pfn' = LookedUp(pm)
           /\ pc' = CASE pm.PRESENT -> "kpageflags"
                      [] ~pm.PRESENT /\ (pm.SWAP \/ pm.SOFT_DIRTY) -> "exit0"
                      [] OTHER -> "exit1"
  /\ quiet' = TRUE
  /\ UNCHANGED <<args, kpf, shown, count, kernel>>

(* open() fails, as the process is gone or may not be looked at, or        *)
(* pread() returns 0.                                                      *)
read_pagemap_Fails ==
  /\ pc = "pagemap"
  /\ exit("exit1")

(* Both files are opened if the reader may, which is a matter of its uid   *)
(* and not of CAP_SYS_ADMIN, and end with the last frame.  A frame number  *)
(* that pagemap has hidden is looked up as frame 0.                        *)
dump_kpageflags ==
  /\ pc = "kpageflags"
  /\ kpage_access /\ pfn \in Frame
  /\ kpf' = Flags(pfn)
  /\ quiet' = (quiet \/ ~virt)
  /\ pc' = "kpagecount"
  /\ UNCHANGED <<args, pfn, line, shown, count, kernel, seen>>

(* The names that are printed: that of KPF_PGTABLE is not among them,      *)
(* though KPF_FLAGS has the bit.                                           *)
Named == {"BUDDY", "MMAP"}
HackNamed == {"RESERVED"}

dump_kpagecount ==
  /\ pc = "kpagecount"
  /\ count' = MapCount(pfn)
  /\ shown' = (kpf \cap Named) \cup (IF hack THEN kpf \cap HackNamed ELSE {})
  /\ pc' = "exit0"
  /\ UNCHANGED <<args, pfn, line, kpf, kernel, seen, quiet>>

read_kpage_Fails ==
  /\ pc \in {"kpageflags", "kpagecount"}
  /\ exit("exit1")

Running == pc \notin {"exit0", "exit1", "rejected"}

Next ==
  /\ Running
  /\ \/ main_Rejects \/ main
     \/ dump_pagemap \/ read_pagemap_Fails
     \/ dump_kpageflags \/ dump_kpagecount \/ read_kpage_Fails
     \/ MovePage \/ \E f \in Frame : ReuseFrame(f)

Spec == Init /\ [][Next]_vars
-------------------------------------------------------------------------------
(* main() accepts exactly what usage_exit() prints, "PID VADDR [hack]",    *)
(* "self VADDR [hack]" and "PADDR [hack]", and takes each argument for     *)
(* what it is there, although it finds them by counting from the end.      *)
UsageHonoured ==
  LET Addr == {"pid", "addr"}
      Virtual == {"pid", "self"} \X Addr
      Physical == {<<a>> : a \in Addr}
      Plain == Virtual \cup Physical
      Hack == {Append(a, "hack") : a \in Plain}
  IN  /\ pc = "rejected" => argv \notin Plain \cup Hack
      /\ pc \notin {"main", "rejected"} =>
           /\ argv \in Plain \cup Hack
           /\ hack <=> argv \in Hack
           /\ virt <=> \E a \in Virtual : argv \in {a, Append(a, "hack")}

(* What a run on a virtual address that exits with 0 has said about the    *)
(* moment it read pagemap.  With CAP_SYS_ADMIN it is the truth: the frame  *)
(* and the physical address of a page that was present, the swap slot of   *)
(* one that was swapped, and no place otherwise.  Without, the place is    *)
(* said to be frame 0 or slot 0, also to who may open the other files, and *)
(* nothing else tells that it was hidden.                                  *)
PlaceReported ==
  pc = "exit0" /\ virt =>
    LET f == IF sys_admin THEN seen.pfn ELSE 0
    IN  /\ seen.kind = "present" =>
             line = [kind |-> "paddr", pfn |-> f,
                     paddr |-> f * 2^PAGE_SHIFT + (addr % 2^PAGE_SHIFT)]
        /\ seen.kind = "swap" =>
             line = IF sys_admin THEN seen ELSE [kind |-> "swap", type |-> 0, offset |-> 0]
        /\ seen.kind = "none" => line = None

(* If nothing moved between the three reads, then with CAP_SYS_ADMIN the   *)
(* flags and the count are those of the frame that holds the page, which   *)
(* is therefore mapped, and without it those of frame 0, which is not; if  *)
(* something did move, they may be those of a frame that is free or has    *)
(* become a page table.                                                    *)
QuietReportMatches ==
  pc = "exit0" /\ virt /\ quiet /\ seen.kind = "present" =>
    /\ page = seen
    /\ IF sys_admin THEN "MMAP" \in shown /\ count = 1
                    ELSE shown \subseteq {"RESERVED"} /\ count = 0

(* "v0.3: [...] Support KPF_PGTABLE": the flag is printed when it is set.  *)
PgtableSupported == pc = "exit0" /\ "PGTABLE" \in kpf => "PGTABLE" \in shown
===============================================================================
