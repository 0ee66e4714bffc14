------------------------------- MODULE PageAlias -------------------------------
(***************************************************************************)
(* userspace/alias_existing_page.c: looks up the frame of a page of its    *)
(* own and maps that frame a second time through /dev/mem.  The kernel may *)
(* migrate the page at any time, as mlock(2) only keeps it in memory; what *)
(* mmap(2), mlock(2) and pagemap do is external.                           *)
(***************************************************************************)
EXTENDS Naturals

CONSTANT Frame

VARIABLES
  at,        \* the call that main() is at, or "error"
  present,   \* orig_mem is in memory
  frame,     \* the frame of orig_mem
  locked,
  physaddr,  \* the frame that pagemap named
  mem        \* the frame of the second mapping, or "zero" for memory of its own

vars == <<at, present, frame, locked, physaddr, mem>>

Init ==
  /\ at = "mmap" /\ present = FALSE /\ locked = FALSE
  /\ frame \in Frame
  /\ physaddr = "none" /\ mem = "none"

(* The page is written to, then locked. *)
touch ==
  /\ at = "mmap" /\ at' = "mlock"
  /\ present' = TRUE
  /\ UNCHANGED <<frame, locked, physaddr, mem>>

mlock ==
  /\ at = "mlock" /\ at' = "pagemap"
  /\ present' = TRUE /\ locked' = TRUE
  /\ UNCHANGED <<frame, physaddr, mem>>

read_pagemap ==
  /\ at = "pagemap"
  /\ IF present THEN physaddr' = frame /\ at' = "devmem"
                ELSE at' = "error" /\ UNCHANGED physaddr
  /\ UNCHANGED <<present, frame, locked, mem>>

(* The flags of the mapping include MAP_ANONYMOUS: file and offset count   *)
(* for nothing.                                                            *)
mmap_devmem ==
  /\ at = "devmem" /\ at' = "aliased"
  /\ mem' = "zero"
  /\ UNCHANGED <<present, frame, locked, physaddr>>

fail ==
  /\ at \notin {"aliased", "error"} /\ at' = "error"
  /\ UNCHANGED <<present, frame, locked, physaddr, mem>>

swap_out ==
  /\ present /\ ~locked /\ present' = FALSE
  /\ UNCHANGED <<at, frame, locked, physaddr, mem>>

migrate ==
  /\ present /\ frame' \in Frame
  /\ UNCHANGED <<at, present, locked, physaddr, mem>>

Next == touch \/ mlock \/ read_pagemap \/ mmap_devmem \/ fail \/ swap_out \/ migrate
Spec == Init /\ [][Next]_vars

(* "Now `mem` is effecively referring to the same physical page that       *)
(* `orig_mem` refers to": the second mapping is of the frame that pagemap  *)
(* named, wherever the page may have been moved since.                     *)
AliasOfTheFrame == at = "aliased" => mem = physaddr
===============================================================================
