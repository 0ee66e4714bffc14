-------------------------------- MODULE MyInit --------------------------------
(***************************************************************************)
(* myinit/init.c: PID 1 of a test machine.  It mounts three filesystems,   *)
(* starts a shell, waits and powers the machine off.  The shell and what   *)
(* it starts run beside it; their behaviour, and what the kernel does with *)
(* mkdir(2), vfork(2), orphans and the death of PID 1, is external.        *)
(***************************************************************************)
EXTENDS Naturals, Sequences, Functions

CONSTANT Job  \* processes that the shell may start

VARIABLES
  initrd,   \* the directories that the initial filesystem comes with
  rw,       \* directories can be made in it
  i,        \* loop counter of do_mounts()
  mounted,  \* the filesystems mounted so far
  pc,       \* where PID 1 is
  shell,    \* the child: "none", "vforked", "running", "zombie", "reaped"
  job,      \* each job: "none", "shell's", "orphan", "zombie", "gone", "reaped"
  power     \* "on", "off", or "panic"

vars == <<initrd, rw, i, mounted, pc, shell, job, power>>

(* mounts[]: the targets in the order of the array. *)
mounts_DebugFirst == <<"debug", "proc", "sys">>
mounts == <<"proc", "sys", "debug">>

Init ==
  /\ initrd \in SUBSET Range(mounts)
  /\ "debug" \in initrd => "sys" \in initrd
  /\ rw \in BOOLEAN
  /\ i = 1
  /\ mounted = {}
  /\ pc = "do_mounts"
  /\ shell = "none"
  /\ job = [j \in Job |-> "none"]
  /\ power = "on"
-------------------------------------------------------------------------------
(* mkdir(2) succeeds or says EEXIST.  /sys/kernel/debug is there as part   *)
(* of sysfs or of the image, and is never made: its parent is not.         *)
mkdir(t) ==
  CASE t = "debug" -> "sys" \in mounted \/ t \in initrd
    [] OTHER       -> rw \/ t \in initrd

(* One turn of the loop of do_mounts(): a failing mkdir(2) ends the        *)
(* function, a failing mount(2) does not.                                  *)
do_mounts ==
  /\ pc = "do_mounts"
  /\ i <= Len(mounts)
  /\ \/ /\ mkdir(mounts[i])
        /\ mounted' \in {mounted, mounted \cup {mounts[i]}}
        /\ i' = i + 1
        /\ UNCHANGED pc
     \/ /\ ~mkdir(mounts[i])
        /\ pc' = "open_console"
        /\ UNCHANGED <<mounted, i>>
  /\ UNCHANGED <<initrd, rw, shell, job, power>>

do_mounts_end ==
  /\ pc = "do_mounts"
  /\ i > Len(mounts)
  /\ pc' = "open_console"
  /\ UNCHANGED <<initrd, rw, i, mounted, shell, job, power>>

(* Works or not, nothing depends on it. *)
open_console ==
  /\ pc = "open_console"
  /\ pc' = "vfork"
  /\ UNCHANGED <<initrd, rw, i, mounted, shell, job, power>>

(* PID 1 is suspended until the child has called execl() or _exit(). *)
vfork ==
  /\ pc = "vfork"
  /\ \/ pc' = "vforked" /\ shell' = "vforked"
     \/ pc' = "shutdown" /\ UNCHANGED shell
  /\ UNCHANGED <<initrd, rw, i, mounted, job, power>>

execl_ReturnsIntoInit ==
  /\ shell = "vforked"
  /\ \/ shell' = "running" /\ pc' = "wait"
     \/ shell' = "vforked" /\ pc' = "shutdown"
  /\ UNCHANGED <<initrd, rw, i, mounted, job, power>>

(* A child whose execl() fails calls _exit(69). *)
execl ==
  /\ shell = "vforked"
  /\ shell' \in {"running", "zombie"}
  /\ pc' = "wait"
  /\ UNCHANGED <<initrd, rw, i, mounted, job, power>>

(* wait(2) reaps any one child: the shell, or an orphan that became a      *)
(* child of PID 1.                                                         *)
wait ==
  /\ pc = "wait"
  /\ \/ shell = "zombie" /\ shell' = "reaped" /\ UNCHANGED job
     \/ \E j \in Job : /\ job[j] = "zombie"
                       /\ job' = [job EXCEPT ![j] = "reaped"]
                       /\ UNCHANGED shell
  /\ pc' = "shutdown"
  /\ UNCHANGED <<initrd, rw, i, mounted, power>>

(* sync() and reboot(); when that fails, _exit(1), which PID 1 must not.   *)
shutdown_ReturnsToMain ==
  /\ pc = "shutdown"
  /\ \/ power' = "off" /\ pc' = "off"
     \/ power' = power /\ pc' = "stuck"
  /\ UNCHANGED <<initrd, rw, i, mounted, shell, job>>

shutdown ==
  /\ pc = "shutdown"
  /\ \/ power' = "off" /\ pc' = "off"
     \/ power' = "panic" /\ pc' = "exited"
  /\ UNCHANGED <<initrd, rw, i, mounted, shell, job>>

main == do_mounts \/ do_mounts_end \/ open_console \/ vfork \/ execl \/ wait \/ shutdown
-------------------------------------------------------------------------------
(* The shell starts jobs, waits for the ones it has, and exits; its jobs   *)
(* then become children of PID 1, and so does a job whose own parent, a    *)
(* child of the shell, exits (a daemon).                                   *)
ShellForks(j) ==
  /\ shell = "running"
  /\ job[j] = "none"
  /\ job' = [job EXCEPT ![j] = "shell's"]
  /\ UNCHANGED <<initrd, rw, i, mounted, pc, shell, power>>

JobDaemonises(j) ==
  /\ job[j] = "shell's"
  /\ job' = [job EXCEPT ![j] = "orphan"]
  /\ UNCHANGED <<initrd, rw, i, mounted, pc, shell, power>>

JobExits(j) ==
  /\ job[j] \in {"shell's", "orphan"}
  /\ job' = [job EXCEPT ![j] = IF @ = "orphan" THEN "zombie" ELSE "gone"]
  /\ UNCHANGED <<initrd, rw, i, mounted, pc, shell, power>>

ShellExits ==
  /\ shell = "running"
  /\ shell' = "zombie"
  /\ job' = [j \in Job |-> IF job[j] = "shell's" THEN "orphan" ELSE job[j]]
  /\ UNCHANGED <<initrd, rw, i, mounted, pc, power>>

userland == ShellExits \/ \E j \in Job : ShellForks(j) \/ JobDaemonises(j) \/ JobExits(j)

Next == power = "on" /\ (main \/ userland)

Spec == Init /\ [][Next]_vars

(* PID 1 and the vforked child run whenever they can; nothing makes the    *)
(* shell or its jobs ever exit.                                            *)
FairSpec == Spec /\ WF_vars(power = "on" /\ main)
-------------------------------------------------------------------------------
(* Where directories can be made, do_mounts() stops early only in front of *)
(* debugfs, and only when it has tried sysfs, which holds the mount point, *)
(* in vain: the order of mounts[] is right.                                *)
StopsEarlyForDebugfsOnly ==
  rw /\ pc # "do_mounts" /\ i <= Len(mounts) =>
    /\ mounts[i] = "debug"
    /\ \E k \in 1..(i - 1) : mounts[k] = "sys" /\ "sys" \notin mounted

(* The machine goes down on account of a child of PID 1 that ended and was *)
(* reaped, or because there was no child to begin with.  A child whose     *)
(* execl() failed does not bring it down by running on as PID 1's copy.    *)
UpWhileChildrenRun ==
  pc \in {"shutdown", "off", "exited"} =>
    \/ shell \in {"none", "reaped"}
    \/ \E j \in Job : job[j] = "reaped"

(* Once the shell has ended, the machine does not stay up.                 *)
ShellEndsMachineEnds == shell \in {"zombie", "reaped"} ~> power # "on"
===============================================================================
