------------------------------- MODULE Userland -------------------------------
(***************************************************************************)
(* The programs, checked together: a behaviour is one of the program       *)
(* chosen first.  PageInfo is extended rather than instantiated, so that   *)
(* its assumption on the widths is checked.                                *)
(***************************************************************************)
EXTENDS PageInfo

CONSTANTS Job, Runs

VARIABLES
  program,  \* the program that runs
  initrd, rw, i, mounted, init_pc, shell, job, power,
  run, pid, left_over, status, at, tracing_on, current_tracer, set_ftrace_pid, trace, dumped,
  start, uid, gid, E, I, P, keep, ic_at, ic_status, unlucky

M == INSTANCE MyInit WITH pc <- init_pc
F == INSTANCE FtraceHelper
C == INSTANCE InheritCapability WITH at <- ic_at, status <- ic_status

mi == <<initrd, rw, i, mounted, init_pc, shell, job, power>>
fh == <<run, pid, left_over, status, at, tracing_on, current_tracer, set_ftrace_pid, trace,
        dumped>>
ic == <<start, uid, gid, E, I, P, keep, ic_at, ic_status, unlucky>>
all == <<program, vars, mi, fh, ic>>

(* What does not run has the first of its initial states. *)
ProgramInit ==
  /\ program \in {"pageinfo", "init", "ftrace_helper", "inherit_capability"}
  /\ Init /\ (program # "pageinfo" => argv = <<>> /\ sys_admin /\ kpage_access)
  /\ M!Init /\ (program # "init" => initrd = {} /\ rw)
  /\ F!Init
  /\ C!Init /\ (program # "inherit_capability" => start.uid = 0 /\ start.caps = {})

InitStep(A) == program = "init" /\ A /\ UNCHANGED <<program, vars, fh, ic>>

ProgramNext ==
  \/ program = "pageinfo" /\ Next /\ UNCHANGED <<program, mi, fh, ic>>
  \/ InitStep(M!Next)
  \/ program = "ftrace_helper" /\ F!Next /\ UNCHANGED <<program, vars, mi, ic>>
  \/ program = "inherit_capability" /\ C!Next /\ UNCHANGED <<program, vars, mi, fh>>

(* PID 1 runs whenever it can, as in FairSpec of MyInit. *)
ProgramSpec ==
  /\ ProgramInit /\ [][ProgramNext]_all
  /\ WF_all(InitStep(power = "on" /\ M!main))
-------------------------------------------------------------------------------
(* init: where directories can be made, mounting ends early only in front  *)
(* of debugfs, after sysfs was tried in vain.                              *)
StopsEarlyForDebugfsOnly == M!StopsEarlyForDebugfsOnly

(* init: the machine goes down on account of a child that has ended, or    *)
(* for want of any.                                                        *)
UpWhileChildrenRun == M!UpWhileChildrenRun

(* init: once the shell has ended, the machine does not stay up.           *)
ShellEndsMachineEnds == M!ShellEndsMachineEnds

(* ftrace_helper: the noise in a dump is that of pids that an earlier run  *)
(* has left in set_ftrace_pid.                                             *)
TraceWithoutNoise == F!TraceWithoutNoise

(* inherit_capability: success leaves an ordinary user with exactly one    *)
(* capability, and is reached by whoever has what it takes.                *)
OneCapabilityKept == C!OneCapabilityKept
===============================================================================
