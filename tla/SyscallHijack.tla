----------------------------- MODULE SyscallHijack -----------------------------
(***************************************************************************)
(* modules/arm64/syscall_hijack.c: insmod puts myread() in the place of    *)
(* read(2) in the system call table and rmmod puts the original back, each *)
(* with the page made writable for the moment.  Tasks call read(2) all the *)
(* while, sleep in it, and return through myread() if they came that way.  *)
(* The table, the page and the life of module text are external.           *)
(***************************************************************************)
EXTENDS Naturals

CONSTANT Reader  \* the tasks that call read(2)

VARIABLES
  at,             \* the line that modinit() or modexit() has come to
  original_read,
  entry,          \* syscall_table[__NR_read]
  same_page,      \* the byte at syscall_table + __NR_read, whose page is made
                  \* writable, is on the page of syscall_table[__NR_read]
  writable,       \* the page with that byte is
  failed,         \* history: the protection calls that failed
  call,           \* each reader: "idle", the function it is to enter, "sleep", "oops"
  frames,         \* how many frames of myread() are on its stack
  busy            \* history: a reader was in module text when that was freed

vars == <<at, original_read, entry, same_page, writable, failed, call, frames, busy>>
table == <<original_read, entry, same_page>>
readers == <<call, frames, busy>>

Init ==
  /\ at = "save"
  /\ original_read = "NULL" /\ entry = "sys_read"
  /\ same_page \in BOOLEAN /\ writable = FALSE /\ failed = {}
  /\ call = [r \in Reader |-> "idle"] /\ frames = [r \in Reader |-> 0]
  /\ busy = FALSE

Freed == at \in {"error", "unloaded"}
InText(r) == call[r] = "myread" \/ frames[r] > 0

(* Goes to a line; the lines that leave the module free its text. *)
Goto(l) ==
  /\ at' = l
  /\ busy' = (l \in {"error", "unloaded"} /\ \E r \in Reader : InText(r))
  /\ UNCHANGED <<call, frames>>

(* set_page_rw() and set_page_ro() change the protection of the page they  *)
(* are given, or fail.  The address is the table's plus __NR_read bytes,   *)
(* not that of the entry.                                                  *)
set_page(rw, l, next, onerror) ==
  /\ at = l
  /\ \/ writable' = rw /\ failed' = failed /\ Goto(next)
     \/ writable' = writable /\ failed' = failed \cup {l} /\ Goto(onerror)
  /\ UNCHANGED table

(* A store to the entry; it faults when the page of the entry is           *)
(* read-only, or is not the page that was made writable.                   *)
store(fn, l, next) ==
  /\ at = l
  /\ entry' = IF writable /\ same_page THEN fn ELSE entry
  /\ Goto(IF writable /\ same_page THEN next ELSE "fault")
  /\ UNCHANGED <<original_read, same_page, writable, failed>>
-------------------------------------------------------------------------------
modinit_SavesLate ==
  \/ at = "save" /\ Goto("init_rw") /\ UNCHANGED <<table, writable, failed>>
  \/ set_page(TRUE, "init_rw", "patch", "error")
  \/ store("myread", "patch", "init_ro")
  \/ /\ at = "init_ro" /\ original_read' = entry /\ Goto("live")
     /\ writable' = FALSE /\ UNCHANGED <<entry, same_page, failed>>

(* Whatever fails, init returns the error as it stands. *)
modinit ==
  \/ /\ at = "save" /\ original_read' = entry /\ Goto("init_rw")
     /\ UNCHANGED <<entry, same_page, writable, failed>>
  \/ set_page(TRUE, "init_rw", "patch", "error")
  \/ store("myread", "patch", "init_ro")
  \/ set_page(FALSE, "init_ro", "live", "error")

(* No reference keeps the module while myread() runs or sleeps. *)
rmmod ==
  /\ at = "live"
  /\ Goto("exit_rw")
  /\ UNCHANGED <<table, writable, failed>>

modexit_LeftWritable ==
  \/ set_page(TRUE, "exit_rw", "restore", "unloaded")
  \/ store(original_read, "restore", "unloaded")

modexit ==
  \/ set_page(TRUE, "exit_rw", "restore", "unloaded")
  \/ store(original_read, "restore", "exit_ro")
  \/ set_page(FALSE, "exit_ro", "unloaded", "unloaded")
-------------------------------------------------------------------------------
loader == <<at, table, writable, failed, busy>>

(* read(2): the entry is fetched, then called. *)
invoke_syscall(r) ==
  /\ call[r] = "idle"
  /\ call' = [call EXCEPT ![r] = entry]
  /\ UNCHANGED <<loader, frames>>

(* myread() calls what was saved as the original.  Two frames of it show   *)
(* that something else was saved; no deeper recursion is followed.         *)
myread(r) ==
  /\ call[r] = "myread"
  /\ frames[r] < 2
  /\ IF Freed THEN call' = [call EXCEPT ![r] = "oops"] /\ UNCHANGED frames
              ELSE /\ call' = [call EXCEPT ![r] = original_read]
                   /\ frames' = [frames EXCEPT ![r] = @ + 1]
  /\ UNCHANGED loader

(* The kernel's read(2) may sleep; then it returns to whoever called it. *)
sys_read(r) ==
  /\ call[r] = "sys_read"
  /\ call' = [call EXCEPT ![r] = "sleep"]
  /\ UNCHANGED <<loader, frames>>

return(r) ==
  /\ call[r] = "sleep"
  /\ call' = [call EXCEPT ![r] = IF Freed /\ frames[r] > 0 THEN "oops" ELSE "idle"]
  /\ frames' = [frames EXCEPT ![r] = 0]
  /\ UNCHANGED loader

Next ==
  \/ modinit \/ rmmod \/ modexit
  \/ \E r \in Reader : invoke_syscall(r) \/ myread(r) \/ sys_read(r) \/ return(r)

Spec == Init /\ [][Next]_vars
-------------------------------------------------------------------------------
(* A store to the table faults only where the table crosses a page between *)
(* the byte that set_page_rw() is given and the entry, and there the first *)
(* one does: the entry is never touched.  When the module is gone the      *)
(* table is as it was, unless the one call failed that the code cannot     *)
(* recover from: set_page_ro() of init after the patch, or set_page_rw()   *)
(* of exit before the repair.                                              *)
TableRestored ==
  /\ at = "fault" => ~same_page
  /\ ~same_page => entry = "sys_read" /\ at # "live"
  /\ Freed => /\ entry = "sys_read" \/ failed \cap {"init_ro", "exit_rw"} # {}
              /\ ~writable \/ failed \cap {"init_ro", "exit_ro"} # {}

(* Every read(2) gets through to the kernel's, by way of myread() at most  *)
(* once, wherever in between insmod and rmmod have got to.                 *)
ReadGetsThrough ==
  \A r \in Reader : frames[r] <= 1 /\ call[r] # "NULL"

(* A read(2) dies in freed text only if a protection call failed or rmmod  *)
(* did not wait for the readers, which nothing makes it do.                *)
OopsNeedsReader ==
  (\E r \in Reader : call[r] = "oops") => busy \/ failed # {}
===============================================================================
