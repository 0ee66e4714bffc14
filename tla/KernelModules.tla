----------------------------- MODULE KernelModules -----------------------------
(***************************************************************************)
(* The kernel modules that do not depend on each other, checked together:  *)
(* a behaviour is one of the module chosen first, in a kernel in which the *)
(* others are not loaded.                                                  *)
(***************************************************************************)
EXTENDS Naturals, FiniteSets

CONSTANTS
  User,                  \* processes, readers or CPUs that meet a module
  Lengths, MaxOff,       \* of CharDev
  Task, init, root, MaxQueue,        \* of TaskTreeRace
  PidTask, Leader, pid, MaxEvents    \* of EnumPids

(* Lengths and offsets are numbers. *)
ASSUME DeviceAssumption == Lengths \subseteq Nat /\ MaxOff \in Nat

(* There are finitely many tasks; init is not the root of the walk. *)
ASSUME TreeAssumption == IsFiniteSet(Task) /\ {init, root} \subseteq Task /\ init # root

(* So are there for enum_pids and task_rss; no task is the end of a list. *)
ASSUME PidAssumption ==
  /\ IsFiniteSet(PidTask) /\ Leader \subseteq PidTask /\ pid \in PidTask
  /\ PidTask \cap {"NULL", "init_task"} = {}

VARIABLES
  loaded,  \* the module that is loaded
  mebeim_content_length, cd_pc, cd_held, file, off, stream,
  module, i, probes, exec, personality, exstack, covered,
  at, original_read, entry, same_page, writable, failed, call, frames, busy,
  found, ui_at, hooked, trap, calling,
  program, line, held, misused,
  use_bfs, tt_state, children, real_parent, tt_pc, queue, task, list, refs, tt_printed, below,
  quiet,
  state, tasks, threads, stale, grace, pc, type, cur, thr, printed, ref, changed, drifted, events,
  life, procs, kept, step, tsk, task_ref, mm_ref, rss, shown, calm

C == INSTANCE CharDev WITH Process <- User, pc <- cd_pc, held <- cd_held
X == INSTANCE ReadImpliesExec WITH Task <- User
S == INSTANCE SyscallHijack WITH Reader <- User
U == INSTANCE UndefInstr WITH Cpu <- User, at <- ui_at
I == INSTANCE InitOnly
T == INSTANCE TaskTreeRace WITH state <- tt_state, pc <- tt_pc, printed <- tt_printed
E == INSTANCE EnumPids WITH Task <- PidTask
R == INSTANCE TaskRss WITH Proc <- Leader

cd == <<mebeim_content_length, cd_pc, cd_held, file, off, stream>>
rx == <<module, i, probes, exec, personality, exstack, covered>>
sh == <<at, original_read, entry, same_page, writable, failed, call, frames, busy>>
ui == <<found, ui_at, hooked, trap, calling>>
io == <<program, line, held, misused>>
tt == <<use_bfs, tt_state, children, real_parent, tt_pc, queue, task, list, refs, tt_printed,
        below, quiet>>
ep == <<state, tasks, threads, stale, grace, pc, type, cur, thr, printed, ref, changed, drifted,
        events>>
tr == <<life, procs, kept, step, tsk, task_ref, mm_ref, rss, shown, calm>>
vars == <<loaded, cd, rx, sh, ui, io, tt, ep, tr>>

(* What is not loaded has the first of its initial states. *)
Init ==
  /\ loaded \in {"test_chardev", "read_implies_exec", "syscall_hijack", "undef_instr",
                 "init_only", "task_bfs_dfs", "enum_pids", "task_rss"}
  /\ C!Init /\ (loaded # "test_chardev" => mebeim_content_length = 0)
  /\ X!Init
  /\ S!Init /\ (loaded # "syscall_hijack" => same_page)
  /\ U!Init /\ (loaded # "undef_instr" => found = {})
  /\ I!Init /\ (loaded # "init_only" => program = "kallsyms")
  /\ T!Init /\ (loaded # "task_bfs_dfs" => use_bfs /\ Cardinality(below) = 2)
  /\ E!Init /\ (loaded # "enum_pids" => /\ tasks["SID"][pid] # <<>>
                                        /\ \A t \in PidTask : state[t] = "alive")
  /\ R!Init /\ (loaded # "task_rss" => Cardinality({p \in Leader : life[p] = "alive"}) = 1)

Next ==
  /\ UNCHANGED loaded
  /\ \/ /\ loaded = "test_chardev" /\ C!Next
        /\ UNCHANGED <<rx, sh, ui, io, tt, ep, tr>>
     \/ /\ loaded = "read_implies_exec" /\ X!Next
        /\ UNCHANGED <<cd, sh, ui, io, tt, ep, tr>>
     \/ /\ loaded = "syscall_hijack" /\ S!Next
        /\ UNCHANGED <<cd, rx, ui, io, tt, ep, tr>>
     \/ /\ loaded = "undef_instr" /\ U!Next
        /\ UNCHANGED <<cd, rx, sh, io, tt, ep, tr>>
     \/ /\ loaded = "init_only" /\ I!Next
        /\ UNCHANGED <<cd, rx, sh, ui, tt, ep, tr>>
     \/ /\ loaded = "task_bfs_dfs" /\ T!Next
        /\ UNCHANGED <<cd, rx, sh, ui, io, ep, tr>>
     \/ /\ loaded = "enum_pids" /\ E!Next
        /\ UNCHANGED <<cd, rx, sh, ui, io, tt, tr>>
     \/ /\ loaded = "task_rss" /\ R!Next
        /\ UNCHANGED <<cd, rx, sh, ui, io, tt, ep>>

Spec == Init /\ [][Next]_vars
-------------------------------------------------------------------------------
(* A module that is gone has left nothing in the kernel, whichever of its  *)
(* calls failed and however it went away, but for what the code cannot     *)
(* undo or never does: the struct cdev of test_chardev, the entry of the   *)
(* system call table when a protection call fails, and the struct pid of   *)
(* task_rss_from_pid.                                                      *)
NothingLeftBehind ==
  C!NothingLeftBehind /\ S!TableRestored /\ R!NothingHeld /\ I!GivenBack

(* At no moment of a load, of the unwinding of one that fails, or of an    *)
(* unload is there anything in the kernel without what it depends on, or   *)
(* anything used or given back that the module does not have.              *)
DependenciesHeld == C!DependenciesHeld /\ I!NothingMisused

(* Nobody runs the text of a module that rmmod has freed, or reads a task  *)
(* that was freed under it: not with the device open, not in a kprobe, not *)
(* in the read-side section of enum_pids; and in read(2) and in a trap     *)
(* only by the races that the modules leave open.                          *)
NothingFreedIsUsed ==
  /\ C!OpenFilePinsModule
  /\ X!NoProbeAfterUnload
  /\ S!OopsNeedsReader
  /\ U!TrapsSurvived
  /\ E!NoFreedTaskRead

(* test_chardev: however reads are cut, byte k is content[k % length].     *)
StreamRepeatsContent == C!StreamRepeatsContent

(* read_implies_exec: an execve(2) under the live module gets both halves. *)
LiveExecGetsBoth == X!LiveExecGetsBoth

(* read_implies_exec: up to rmmod no execve(2) gets the first half alone.  *)
NoHalfWhileLoading == X!NoHalfWhileLoading

(* syscall_hijack: every read(2) passes myread() once at most, on its way  *)
(* to the kernel's.                                                        *)
ReadGetsThrough == S!ReadGetsThrough

(* task_bfs_dfs: queued tasks are kept, whatever the system does.          *)
QueuedTasksKept == T!QueuedTasksKept

(* task_bfs_dfs and task_rss: as long as nobody exits, these walks without *)
(* a lock touch tasks only, print nobody twice and leave nobody out.       *)
ForksDoNoHarm == T!ForksDoNoHarm /\ R!ForksDoNoHarm

(* enum_pids: who is on a list all the time is printed exactly once,       *)
(* unless a process changes group or session.                              *)
MembersPrintedOnce == E!MembersPrintedOnce
===============================================================================
