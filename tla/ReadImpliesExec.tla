---------------------------- MODULE ReadImpliesExec ----------------------------
(***************************************************************************)
(* modules/read_implies_exec.c: two kprobes that turn every execve(2) into *)
(* one with read-implies-exec semantics.  They are registered and removed  *)
(* one after the other while tasks are in the middle of an execve(2),      *)
(* which passes setup_new_exec() and then setup_arg_pages() (external).    *)
(***************************************************************************)
EXTENDS Naturals, Sequences, Functions

CONSTANT Task  \* the tasks that may call execve(2)

VARIABLES
  module,       \* "loading", "live", "unloading", "unloaded", or "failed"
  i,            \* loop counter of modinit() and modexit()
  probes,       \* the symbols whose kprobe is registered
  exec,         \* where the execve(2) of each task is
  personality,  \* the task has READ_IMPLIES_EXEC
  exstack,      \* its stack was set up executable
  covered       \* history: its execve(2) saw no moment without the module live

vars == <<module, i, probes, exec, personality, exstack, covered>>

(* The order of kps[]. *)
kps_Swapped == <<"setup_new_exec", "setup_arg_pages">>
kps == <<"setup_arg_pages", "setup_new_exec">>

Init ==
  /\ module = "loading"
  /\ i = 1
  /\ probes = {}
  /\ exec = [t \in Task |-> "idle"]
  /\ personality = [t \in Task |-> FALSE]
  /\ exstack = [t \in Task |-> FALSE]
  /\ covered = [t \in Task |-> FALSE]

Mapped == module \in {"loading", "live", "unloading"}
-------------------------------------------------------------------------------
(* modinit(): the first register_kprobe() that fails ends it with -1, and  *)
(* the module is freed.                                                    *)
modinit_OneProbe ==
  /\ module = "loading"
  /\ probes' = probes \cup {kps[i]}
  /\ i' = 1
  /\ module' = "live"
  /\ UNCHANGED <<exec, personality, exstack, covered>>

modinit ==
  /\ module = "loading"
  /\ \/ /\ probes' = probes \cup {kps[i]}
        /\ i' = IF i < Len(kps) THEN i + 1 ELSE 1
        /\ module' = IF i < Len(kps) THEN module ELSE "live"
     \/ /\ module' = "failed"
        /\ UNCHANGED <<i, probes>>
  /\ UNCHANGED <<exec, personality, exstack, covered>>

rmmod ==
  /\ module = "live"
  /\ module' = "unloading"
  /\ covered' = [t \in Task |-> covered[t] /\ exec[t] = "done"]
  /\ UNCHANGED <<i, probes, exec, personality, exstack>>

modexit_LastKept ==
  /\ module = "unloading"
  /\ probes' = probes \ {kps[i]}
  /\ module' = "unloaded"
  /\ UNCHANGED <<i, exec, personality, exstack, covered>>

(* unregister_kprobe() waits for handlers that run, not for execve(2). *)
modexit ==
  /\ module = "unloading"
  /\ probes' = probes \ {kps[i]}
  /\ i' = i + 1
  /\ module' = IF i < Len(kps) THEN module ELSE "unloaded"
  /\ UNCHANGED <<exec, personality, exstack, covered>>

(* execve(2) of a 64-bit program clears READ_IMPLIES_EXEC first. *)
execve(t) ==
  /\ exec[t] \in {"idle", "done"}
  /\ exec' = [exec EXCEPT ![t] = "setup_new_exec"]
  /\ personality' = [personality EXCEPT ![t] = FALSE]
  /\ exstack' = [exstack EXCEPT ![t] = FALSE]
  /\ covered' = [covered EXCEPT ![t] = (module = "live")]
  /\ UNCHANGED <<module, i, probes>>

(* The kernel function a task is about to enter, with the pre-handler of   *)
(* its kprobe; in a module that has been freed the handler is an oops.     *)
kp_setup_new_exec_pre(t) ==
  /\ exec[t] = "setup_new_exec"
  /\ "setup_new_exec" \in probes => Mapped
  /\ personality' = [personality EXCEPT ![t] = @ \/ "setup_new_exec" \in probes]
  /\ exec' = [exec EXCEPT ![t] = "setup_arg_pages"]
  /\ UNCHANGED <<module, i, probes, exstack, covered>>

kp_setup_arg_pages_pre(t) ==
  /\ exec[t] = "setup_arg_pages"
  /\ "setup_arg_pages" \in probes => Mapped
  /\ exstack' = [exstack EXCEPT ![t] = @ \/ "setup_arg_pages" \in probes]
  /\ exec' = [exec EXCEPT ![t] = "done"]
  /\ UNCHANGED <<module, i, probes, personality, covered>>

HandlerOops(t) ==
  /\ exec[t] \in probes
  /\ ~Mapped
  /\ exec' = [exec EXCEPT ![t] = "oops"]
  /\ UNCHANGED <<module, i, probes, personality, exstack, covered>>

Next ==
  \/ modinit \/ rmmod \/ modexit
  \/ \E t \in Task :
       execve(t) \/ kp_setup_new_exec_pre(t) \/ kp_setup_arg_pages_pre(t) \/ HandlerOops(t)

Spec == Init /\ [][Next]_vars
-------------------------------------------------------------------------------
(* "Your system now runs with old read-implies-exec semantics!": a task    *)
(* that calls execve(2) while the module is live gets both halves of them. *)
LiveExecGetsBoth ==
  \A t \in Task : exec[t] = "done" /\ covered[t] => personality[t] /\ exstack[t]

(* The probes go in against the order in which execve(2) meets them: until *)
(* rmmod, no task gets READ_IMPLIES_EXEC without an executable stack, even *)
(* if it was in the middle of execve(2) when the module was loaded.        *)
NoHalfWhileLoading ==
  module \in {"loading", "live"} =>
    \A t \in Task : exec[t] = "done" /\ personality[t] => exstack[t]

(* A module that rmmod has freed is never called again. *)
NoProbeAfterUnload ==
  module = "unloaded" => probes = {} /\ \A t \in Task : exec[t] # "oops"
===============================================================================
