---------------------------- MODULE RebootNotifier ----------------------------
(***************************************************************************)
(* modules/reboot_notifier.c: a reboot notifier that holds reboots up      *)
(* until a kernel thread has finished its job.  The actors are insmod and  *)
(* rmmod, the thread waste_time(), and the contexts that go through the    *)
(* reboot notifier chain: reboot(2), Ctrl-Alt-Del, SysRq and kexec do not  *)
(* exclude each other.  The chain's rwsem and the completion are external. *)
(***************************************************************************)
EXTENDS Integers

CONSTANT Caller  \* the contexts that may shut the machine down

VARIABLES
  module,      \* how far insmod and rmmod are
  registered,  \* notifier is on reboot_notifier_list
  kthread,     \* where waste_time() is
  done,        \* done_wasting_time.done
  pc,          \* where each caller is
  machine      \* "up", or "down" once somebody shut it down

vars == <<module, registered, kthread, done, pc, machine>>

Init ==
  /\ module = "loading"
  /\ registered = FALSE
  /\ kthread = "none"
  /\ done = 0
  /\ pc = [c \in Caller |-> "idle"]
  /\ machine = "up"

TextMapped == module # "freed"

(* The callers inside my_notifier(), which hold the chain's rwsem to read. *)
InNotifier(c) == pc[c] \in {"check", "wait", "return"}
ChainIdle == \A c \in Caller : ~InNotifier(c)

Goto(c, l) == pc' = [pc EXCEPT ![c] = l]
-------------------------------------------------------------------------------
(* insmod: register_reboot_notifier() takes the rwsem to write. *)
register_reboot_notifier ==
  /\ module = "loading"
  /\ ChainIdle
  /\ module' = "registered"
  /\ registered' = TRUE
  /\ UNCHANGED <<kthread, done, pc, machine>>

(* The result of kthread_run() is not looked at: modinit() succeeds either *)
(* way.                                                                    *)
kthread_run ==
  /\ module = "registered"
  /\ kthread' \in {"start", "failed"}
  /\ module' = "live"
  /\ UNCHANGED <<registered, done, pc, machine>>

(* delete_module(2) finds no reference to the module and calls modexit(),  *)
(* which first waits for the rwsem.                                        *)
rmmod ==
  /\ module = "live"
  /\ module' = "unloading"
  /\ UNCHANGED <<registered, kthread, done, pc, machine>>

modexit_NotifierLeft ==
  /\ module = "unloading"
  /\ ChainIdle
  /\ module' = "freed"
  /\ UNCHANGED <<registered, kthread, done, pc, machine>>

(* unregister_reboot_notifier() takes the rwsem to write; modexit() then   *)
(* returns and the module's memory is freed, thread or no thread.          *)
modexit ==
  /\ module = "unloading"
  /\ ChainIdle
  /\ registered' = FALSE
  /\ module' = "freed"
  /\ UNCHANGED <<kthread, done, pc, machine>>

waste_time_CompletesFirst ==
  /\ TextMapped
  /\ \/ kthread = "start" /\ kthread' = "complete" /\ done' = done + 1
     \/ kthread = "complete" /\ kthread' = "msleep" /\ UNCHANGED done
     \/ kthread = "msleep" /\ kthread' = "return" /\ UNCHANGED done
     \/ kthread = "return" /\ kthread' = "exited" /\ UNCHANGED done
  /\ UNCHANGED <<module, registered, pc, machine>>

waste_time_NotCompleted ==
  /\ TextMapped
  /\ \/ kthread = "start" /\ kthread' = "msleep"
     \/ kthread = "msleep" /\ kthread' = "complete"
     \/ kthread = "complete" /\ kthread' = "return"
     \/ kthread = "return" /\ kthread' = "exited"
  /\ UNCHANGED <<module, registered, done, pc, machine>>

(* The job is the msleep(). *)
waste_time ==
  /\ TextMapped
  /\ \/ kthread = "start" /\ kthread' = "msleep" /\ UNCHANGED done
     \/ kthread = "msleep" /\ kthread' = "complete" /\ UNCHANGED done
     \/ kthread = "complete" /\ kthread' = "return" /\ done' = done + 1
     \/ kthread = "return" /\ kthread' = "exited" /\ UNCHANGED done
  /\ UNCHANGED <<module, registered, pc, machine>>

(* A thread that rmmod left behind dies when it next runs the freed text. *)
waste_time_Oops ==
  /\ ~TextMapped
  /\ kthread \in {"start", "msleep", "complete", "return"}
  /\ kthread' = "oops"
  /\ UNCHANGED <<module, registered, done, pc, machine>>

(* blocking_notifier_call_chain(): the callbacks run under the rwsem; a    *)
(* reader that finds a writer waiting queues behind it.                    *)
call_chain(c) ==
  /\ pc[c] = "idle"
  /\ module # "unloading"
  /\ Goto(c, IF registered THEN "check" ELSE "passed")
  /\ UNCHANGED <<module, registered, kthread, done, machine>>

(* my_notifier(): completion_done() only looks at the counter ... *)
completion_done(c) ==
  /\ pc[c] = "check"
  /\ Goto(c, IF done > 0 THEN "return" ELSE "wait")
  /\ UNCHANGED <<module, registered, kthread, done, machine>>

(* ... while wait_for_completion() uses one complete() up. *)
wait_for_completion(c) ==
  /\ pc[c] = "wait"
  /\ done > 0
  /\ done' = done - 1
  /\ Goto(c, "return")
  /\ UNCHANGED <<module, registered, kthread, machine>>

return(c) ==
  /\ pc[c] = "return"
  /\ Goto(c, "passed")
  /\ UNCHANGED <<module, registered, kthread, done, machine>>

(* The chain is done: the caller restarts, halts or powers off. *)
machine_down(c) ==
  /\ pc[c] = "passed"
  /\ machine' = "down"
  /\ UNCHANGED <<module, registered, kthread, done, pc>>

Load == register_reboot_notifier \/ kthread_run
Unload == modexit
Thread == waste_time \/ waste_time_Oops
Shutdown(c) ==
  \/ completion_done(c) \/ wait_for_completion(c) \/ return(c) \/ machine_down(c)

(* Nothing runs any more once the machine is down. *)
Next ==
  /\ machine = "up"
  /\ \/ Load \/ rmmod \/ Unload \/ Thread
     \/ \E c \in Caller : call_chain(c) \/ Shutdown(c)

Spec == Init /\ [][Next]_vars

(* insmod, the thread and a caller that is under way are scheduled for as  *)
(* long as the machine is up; nobody has to run rmmod or to reboot.        *)
FairSpec ==
  /\ Spec
  /\ WF_vars(machine = "up" /\ Load)
  /\ WF_vars(machine = "up" /\ Thread)
  /\ \A c \in Caller : WF_vars(machine = "up" /\ Shutdown(c))
-------------------------------------------------------------------------------
(* Type invariant: in particular wait_for_completion() finds a complete()  *)
(* to use up.                                                              *)
TypeOK ==
  /\ module \in {"loading", "registered", "live", "unloading", "freed"}
  /\ registered \in BOOLEAN
  /\ kthread \in {"none", "failed", "start", "msleep", "complete", "return",
                  "exited", "oops"}
  /\ done \in {0, 1}
  /\ pc \in [Caller -> {"idle", "check", "wait", "return", "passed"}]
  /\ machine \in {"up", "down"}

JobFinished == kthread \in {"return", "exited"}

(* Nobody is ever inside my_notifier(), however long it blocks there, when *)
(* the module that contains it has been freed.                             *)
NotifierMapped == \A c \in Caller : InNotifier(c) => TextMapped

(* my_notifier() lets no caller go before the job is finished.             *)
JobBeforeRelease == \A c \in Caller : pc[c] = "return" => JobFinished

(* The one complete() is never wasted: when the job is finished and        *)
(* somebody still waits without a token, somebody else was let go, and     *)
(* that caller takes the machine down.                                     *)
NoLostRelease ==
  JobFinished /\ done = 0 /\ (\E c \in Caller : pc[c] = "wait") =>
    \E c \in Caller : pc[c] \in {"return", "passed"}

(* A caller that waits for a job that was started does not wait in vain:   *)
(* the machine goes down, though one complete() serves one waiter only.    *)
RebootGoesThrough ==
  \A c \in Caller : InNotifier(c) ~> (machine = "down" \/ kthread = "failed")
===============================================================================
