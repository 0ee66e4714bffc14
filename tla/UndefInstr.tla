------------------------------ MODULE UndefInstr ------------------------------
(***************************************************************************)
(* modules/arm64/undef_instr.c: a hook that matches every undefined        *)
(* instruction and skips it.  insmod finds the two functions it needs by   *)
(* name, registers the hook and executes such an instruction itself; other *)
(* CPUs trap too.  call_undef_hook(), which copies the handler's address   *)
(* under a lock and calls it after the unlock, is external.                *)
(***************************************************************************)
CONSTANT Cpu  \* the CPUs on which something traps; insmod runs on another

VARIABLES
  found,    \* the functions that kallsyms_lookup_name() knows
  at,       \* where modinit() or modexit() is
  hooked,   \* uh is on the list of hooks
  trap,     \* each CPU: "none", "lookup", "call", "skipped", "SIGILL", "oops"
  calling   \* history: a handler was about to run or running when it was freed

vars == <<found, at, hooked, trap, calling>>

Init ==
  /\ found \in SUBSET {"register", "unregister"}
  /\ at = "register"
  /\ hooked = FALSE
  /\ trap = [c \in Cpu |-> "none"]
  /\ calling = FALSE

Freed == at \in {"EFAULT", "unloaded"}

(* Leaving the module frees its text and its hook. *)
Goto(l) ==
  /\ at' = l
  /\ calling' = (l = "unloaded" /\ \E c \in Cpu : trap[c] = "call")
  /\ UNCHANGED <<found, trap>>
-------------------------------------------------------------------------------
modinit_TrapsFirst ==
  \/ at = "register" /\ "register" \in found /\ Goto("whoops") /\ UNCHANGED hooked
  \/ at = "register" /\ "register" \notin found /\ Goto("EFAULT") /\ UNCHANGED hooked
modinit ==
  \/ /\ at = "register" /\ "register" \in found
     /\ hooked' = TRUE
     /\ Goto("whoops")
  \/ /\ at = "register" /\ "register" \notin found
     /\ Goto("EFAULT")
     /\ UNCHANGED hooked

(* The undefined instruction in insmod: skipped by the hook, or the end of *)
(* insmod, with the module neither live nor ever freed.                    *)
whoops ==
  /\ at = "whoops"
  /\ Goto(IF hooked THEN "live" ELSE "died")
  /\ UNCHANGED hooked

rmmod ==
  /\ at = "live"
  /\ Goto("unregister")
  /\ UNCHANGED hooked

modexit_HookLeft ==
  /\ at = "unregister"
  /\ Goto("unloaded")
  /\ UNCHANGED hooked
modexit ==
  /\ at = "unregister"
  /\ hooked' = (hooked /\ "unregister" \notin found)
  /\ Goto("unloaded")
-------------------------------------------------------------------------------
undefined_instruction(c) ==
  /\ trap[c] \in {"none", "skipped", "SIGILL"}
  /\ trap' = [trap EXCEPT ![c] = "lookup"]
  /\ UNCHANGED <<found, at, hooked, calling>>

(* A hook that was freed with its module is an oops for who walks the list.*)
call_undef_hook(c) ==
  /\ trap[c] = "lookup"
  /\ trap' = [trap EXCEPT ![c] = CASE ~hooked -> "SIGILL"
                                   [] hooked /\ Freed -> "oops"
                                   [] OTHER -> "call"]
  /\ UNCHANGED <<found, at, hooked, calling>>

undef_instr_handler(c) ==
  /\ trap[c] = "call"
  /\ trap' = [trap EXCEPT ![c] = IF Freed THEN "oops" ELSE "skipped"]
  /\ UNCHANGED <<found, at, hooked, calling>>

Next ==
  \/ modinit \/ whoops \/ rmmod \/ modexit
  \/ \E c \in Cpu : undefined_instruction(c) \/ call_undef_hook(c) \/ undef_instr_handler(c)

Spec == Init /\ [][Next]_vars
-------------------------------------------------------------------------------
(* insmod does not die of its own instruction ("Woah, I survived!"), and   *)
(* nobody who traps runs into the freed hook or handler, unless the hook   *)
(* could not be removed for want of the symbol, or rmmod met a CPU that    *)
(* had the address of the handler already.                                 *)
TrapsSurvived ==
  /\ at # "died"
  /\ (\E c \in Cpu : trap[c] = "oops") => calling \/ "unregister" \notin found
===============================================================================
