# TLA+ models of linux-kernel-experiments

TLA+ modules, TLC configurations and TLAPS proofs for the kernel modules and the
userspace programs of this repository. Every definition is written from the C source;
`PROJECT.json` names the lines behind each of them, the runs, the properties with the
mutation that breaks each, the findings, the hazards and the theorems.

    tlc -workers 2 -config TaskTreeWalk.cfg MCTaskTreeWalk    # one run
    tlapm TaskTreeWalkProofs.tla                              # one module of proofs

## 1. Inventory

The repository is a collection of independent programs. They do not call each other;
what each of them interacts with is the kernel and the other tasks of the machine, and
there the hard part lies: a module is loaded and unloaded while tasks run, and its calls
may fail one by one.

| Component (source) | State | Operations | Interacts with | What is hard | What makes it correct |
|---|---|---|---|---|---|
| Task tree walk (`src/modules/task_bfs_dfs.c`) | queue of tasks (linked list with a tail pointer), task references, position in a children list | `modinit`, `get_user_pid_task`, `dump_children_tree`, `dump_task_threads` | task tree, slab allocator | one code path for BFS and DFS, freed list nodes, memory running out anywhere, a tree that changes | each task once, in the order of the mode, references balanced, no freed node used, it ends |
| Reboot notifier (`src/modules/reboot_notifier.c`) | a completion, a notifier on the kernel's chain, a thread | `modinit`, `modexit`, `waste_time`, `reboot_notifier` | notifier chain (rwsem), callers of reboot(2), rmmod | several waiters and one `complete()`, rmmod at any time, a thread that could not be made | no caller let go before the job is done, none stuck, none in freed text |
| Page table walk (`src/modules/page_table_walk.c`) | task and mm references, the entry of the current level | `walk_user`, `walk_kernel`, `walk`, `dump_p?d/pte`, `dump_macros` | exiting tasks, context switches, x86 page tables | address space torn down meanwhile, entries that are not present but in use, inverted and huge entries | tables pinned, references put, physical address and flags right |
| PID 1 (`src/myinit/init.c`) | mounts, the child shell | `do_mounts`, `main`, `shutdown` | shell, its jobs, reparenting, reboot(2) | order of mounts, which child `wait()` returns for, failing reboot | machine up while the shell runs, down afterwards |
| Character device (`src/modules/test_chardev.c`) | region, class, cdev, device; file offsets | init with goto unwinding, cleanup, `read_mebeim`, `write_mebeim` | processes with the device open, rmmod | five calls that may each fail, opens during load, content of length 0 | everything given back in order, the stream repeats the content |
| Read implies exec (`src/modules/read_implies_exec.c`) | two kprobes | `modinit`, `modexit`, two pre-handlers | tasks inside execve(2) | probes go in and out one by one between the two hooked functions | both halves of the semantics or none |
| PID enumeration (`src/modules/enum_pids.c`) | a pid reference, a cursor in a list | print the tasks on the lists of a `struct pid`, and the threads of a thread group | pid lists under RCU; fork, exit, setpgid(2), setsid(2) | which tasks are on which list, entries that leave or change lists under the cursor | every task that has the PID in a role is printed once |
| Task RSS (`src/modules/task_rss.c`, `task_rss_from_pid.c`) | task and mm references | `for_each_process` with get/put | process list, exits | list walked without RCU, the task put before its next pointer is read | references balanced, no freed task used |
| Root device (`src/modules/find_root_dev.c`) | path and bdev references | one lookup | VFS | three failures, labels that success falls through too | references balanced |
| Hash table test (`src/modules/test_hashtable.c`) | a static table, nodes on the stack | add, look up, delete | - | nodes that outlive the function | nodes off the table at the end |
| Symbol lookup (`src/modules/kallsyms.c`) | a temporary kprobe | register, read the address, unregister | kprobes | failing registration | probe removed |
| arm64 syscall hijack (`src/modules/arm64/syscall_hijack.c`) | a patched entry of `sys_call_table`, page protection | patch, restore, `myread` | tasks inside read(2) | failure after the patch, rmmod under sleeping readers | table restored, no call into freed text |
| arm64 undef hook (`src/modules/arm64/undef_instr.c`) | a registered hook | register, unregister, handler | CPUs that trap | lookup of unexported functions, a handler freed between its lookup and its call | insmod survives, hook removed |
| Date, CPU frequency, CPU info | none | read and print | - | - | - |
| `src/userspace/pageinfo.c` | none | decode pagemap, kpageflags, kpagecount | other processes' pages | frame number stale when used, or hidden for want of a privilege that the other files do not ask for | bits decoded as documented |
| `src/userspace/inherit_capability.c` | capability sets, user and group IDs | capset, KEEPCAPS, setresgid, setresuid, open | kernel capability rules | order of the calls, any of which may fail | an ordinary user with exactly one capability |
| `src/userspace/ftrace_helper.c` | tracefs files | configure, run, stop, dump | tracefs, other processes, earlier runs | error exit in the middle, files that are not truncated | tracing off at the end, no noise in the dump |
| `src/userspace/alias_existing_page.c`, `x86_rtm_page_fault.c` | mappings | mmap, mlock, pagemap; fork, RTM | MM | migration, flags of the mapping; aborts | the alias really aliases |
| `src/userspace/test_scaling_governor.c` | - | measure time | - | - | - |
| CodeQL queries | - | - | - | - | - |

The hazards that follow from this, each at its line and with the properties that watch
it, are listed in `PROJECT.json`.

## 2. Modules

`X.tla` is the model, `MCX.tla` defines constants for TLC where a `.cfg` cannot, and
`XProofs.tla` holds the theorems. `KernelModules` and `Userland` compose the smaller
models, and the theorems about those are in `KernelModulesProofs` (which extends
`TaskListProofs`, the part about the walks over the kernel's task lists) and in
`UserlandProofs`.
The remaining models are instantiated by their `.cfg` directly.

| Module | Models | Correspondence |
|---|---|---|
| `TaskTreeWalk` | `task_bfs_dfs.c` with the queue as a sequence | `q`, `task`, `list` (number of children the cursor has passed) and `root` are the C variables; `refs` counts the references the module holds. `get_user_pid_task`, `NoSuchTask`: line 57 and its failure; `AllocFirst`: the first node; `TakeTask`, `DumpTask`, `QueueChild`, `FinishTask`: one round of the loop; `WalkDone`; `FreeQueue`: `out_nomem` |
| `TaskQueueHeap` | the same file with the list nodes and `tail` | `heap` maps allocated addresses to nodes, `tail` is the node whose `next` it points to (or NULL for `&q`). A freed address may be handed out again. Refines `TaskTreeWalk` by reading the list off the heap: `Chain` is the order of the nodes in which each is linked to the next |
| `RebootNotifier` | `reboot_notifier.c` | `kthread` is where `waste_time()` is, `done` the completion's counter, `pc[c]` where each caller of the chain is. Chain lock, completion and module loader are external |
| `WalkUser` | `walk_user()` of `page_table_walk.c` beside tasks that exit | one action per call of lines 475-540; `users` is the set of holders behind `mm_users`, so that a put without a get shows, `pid_refs` the reference of `find_get_pid()`. `do_exit` to `release_task` and `switch_kthread` are the kernel, external |
| `PageTableWalk` | `walk()`, `dump_*()`, `invert_val_if_needed()`, init | an entry is generated from its *meaning* by `Encode` (what the kernel does, external, written from the comment at lines 168-172), and the walk decodes it; properties compare what it prints with the meaning. `kernel` is one of the versions of line 10, which differ in `pud_leaf()`. `from` and `last` are the last entry that was read from a page table; below one that is no table `WalkAstray` reads anything or faults |
| `MyInit` | `init.c` beside a shell and its jobs | one action per system call that may fail or block |
| `CharDev` | `test_chardev.c` beside processes that use the device | `held` is what was acquired and not released; every label of the unwinding is an action. `"cdev"` is the allocated `struct cdev`, which `cdev_del()` does not free after `cdev_init()`, `"live"` what `cdev_add()` did |
| `ReadImpliesExec` | `read_implies_exec.c` beside tasks in execve(2) | `probes` is the set of registered kprobes; the two hooked functions are the two steps of execve |
| `PageInfo` | `pageinfo.c` beside a kernel that moves the page | one action per file read with its decoding; `seen` and `quiet` remember what was true when pagemap was read and whether anything changed since. `sys_admin` decides what pagemap shows, `kpage_access` whether the two other files can be opened. The contents of the files are external |
| `TaskTreeRace` | the walk of `task_bfs_dfs.c` in a live system | `children`, `real_parent`: the kernel's lists; `list` is a pointer to a *list node*, a task's `sibling` or a list's head, and `next` reads what that node holds at the moment, so a cursor is carried off with the node it is at. `BadAccess` is every read of freed memory or of a foreign list head. Memory of the queue is in `TaskQueueHeap` |
| `EnumPids` | `enum_pids.c` under RCU | `tasks[type][p]` are the lists of `struct pid`, `threads` those of a thread group; `stale` keeps the next pointer of what was unhashed, `grace` what RCU must not free yet |
| `TaskRss` | `task_rss.c` | one action per call of the loop body that gets, puts or follows a pointer |
| `SyscallHijack` | `arm64/syscall_hijack.c` beside tasks in read(2) | `at` is the line of init or exit; `set_page` either succeeds or fails; `same_page` says whether the page it is given, that of `syscall_table` plus `__NR_read` *bytes*, is the one the entry is on; `frames` says through how many `myread()` a sleeping reader will return |
| `UndefInstr` | `arm64/undef_instr.c` beside CPUs that trap | `found` are the symbols that exist; a trap looks the handler up and calls it in two steps |
| `InitOnly` | `find_root_dev.c`, `kallsyms.c`, `task_rss_from_pid.c`, `test_hashtable.c` | each init function is a table of calls that get, use or put something, with the label a failure jumps to; one action executes it |
| `FtraceHelper` | `ftrace_helper.c`, run several times | the sequence of calls of `main()`; `errf_exit` may end it anywhere and undoes nothing. A run has a new pid or one that an earlier run had, and other processes get such pids, too (`left_over`) |
| `InheritCapability` | `inherit_capability.c` | one operator per system call; `May` says what the kernel's rules ask of it |
| `PageAlias` | `alias_existing_page.c` | one action per system call; `mem` is the frame behind the second mapping |
| `KernelModules` | composition | one of test_chardev, read_implies_exec, syscall_hijack, undef_instr, the init-only modules, task_bfs_dfs, enum_pids and task_rss is loaded, chosen first; the states of the others stay as they are |
| `Userland` | composition | likewise of `PageInfo`, `MyInit`, `FtraceHelper`, `InheritCapability` |

The programs are independent of each other, so the two compositions do not interleave
them: a behaviour belongs to one program, whose steps interleave with those of its own
environment. What they share are the properties, which are stated once for all of them
(`NothingLeftBehind`, `DependenciesHeld`, `NothingFreedIsUsed`, `ForksDoNoHarm`).

Operators with an underscore suffix (`FinishTask_NotDequeued` beside `FinishTask`) are
mutations: what the code would be with one plausible mistake. They are not used by any
specification; replacing the original by one must break a property.

## 3. Runs

| Run | Bounds | What it shows |
|---|---|---|
| `task_tree_walk` | 5 tasks | On every forest of five tasks, in both modes, with memory running out at any allocation: references balanced (`PendingTasksHeld`), each task once (`DumpedOnce`), the whole tree (`WholeTreeDumped`), levels in BFS (`BfsLevelOrder`), contiguous subtrees in DFS (`DfsSubtreesContiguous`), and it ends (`WalkReturns`) |
| `task_tree_leak` | 4 tasks | *Violation.* When `kmalloc()` fails the tasks still queued are never put (`CallerPutsTask`) |
| `task_queue_heap` | 4 tasks, 4 addresses, symmetric | The list is acyclic and made of allocated nodes, and `tail` is the last one whenever it is stored through, and nothing is left allocated at the end (`ListWellFormed`); and the module implements `TaskTreeWalk` (`ImplementsWalk`) |
| `reboot_notifier` | 3 callers | `NotifierMapped`, `JobBeforeRelease`, `NoLostRelease`, and `RebootGoesThrough`: with a thread, a machine that is being shut down goes down |
| `walk_user` | 2 user tasks sharing an mm, 1 kernel thread | tables got through `task->mm` stay (`OwnTablesPinned`), the task is not freed while used (`TaskPinned`), nothing held at the end but the `struct pid` (`OnlyPidKept`), exits and teardown not held up (`ExitCompletes`, `TablesReclaimed`) |
| `walk_user_active_mm` | same | *Violation.* Through `task->active_mm` `mmget()` meets an mm without users |
| `page_table_walk` | 1 offset bit, 1 bit of pmd index, 4-bit frame numbers | For every entry at every level, on three kernels: descends through tables only (`DescendsThroughTables`), prints the right address and flags (`PaddrCorrect`, `FlagsCorrect`) and swap offset, and reports what is unmapped (`UnmappedReported`); but for the two entries named below |
| `kernel_modules` | 2 users of each module; content lengths 0, 1, 3, offsets to 4; 5 tasks, a queue of 3; 3 leaders and 1 thread, 3 events of the system | `NothingLeftBehind`, `DependenciesHeld`, `NothingFreedIsUsed` of all of them; `StreamRepeatsContent` (device), `LiveExecGetsBoth`, `NoHalfWhileLoading` (execve), `ReadGetsThrough` (read), `QueuedTasksKept`, `ForksDoNoHarm` (lists walked without a lock), `MembersPrintedOnce` (lists walked under RCU) |
| `enum_pids_threads` | 3 leaders, 1 thread | *Violation.* Threads are in the process group but on none of its lists (`WholeGroupPrinted`) |
| `userland` | all command lines of up to 4 arguments, 3 frames, 2 virtual pages, 1-bit swap type and offset; 2 jobs; 3 runs | `UsageHonoured`: exactly the usage is accepted; `PlaceReported`: with CAP_SYS_ADMIN exit status 0 means that frame, address or slot were those of the page when pagemap was read, without it frame 0 or slot 0 is what is said; `QuietReportMatches`: flags and count belong to the page, or without CAP_SYS_ADMIN to frame 0, if nothing moved; `StopsEarlyForDebugfsOnly`, `UpWhileChildrenRun`, `ShellEndsMachineEnds` of PID 1; `TraceWithoutNoise`; `OneCapabilityKept` |
| `page_info_pgtable` | same | *Violation.* `KPF_PGTABLE` is never printed |
| `page_alias` | 2 frames | *Violation.* The second mapping is anonymous memory (`AliasOfTheFrame`) |

The *violation* runs state what the source says of itself and are refuted by what it does;
`PROJECT.json` quotes the lines. More defects are reachable in the passing runs, whose
properties say where they except them:

- `RebootNotifier`: the result of `kthread_run()` is ignored. Without a thread every
  caller waits for ever, which `RebootGoesThrough` excepts. `modexit()` neither stops nor
  awaits the thread: after rmmod during the job a reboot no longer waits for it, and
  the thread goes on in freed text (`waste_time_Oops`).
- `MyInit`: `wait()` returns for a daemon that was reparented to PID 1, and the machine is
  powered off under the running shell, which `UpWhileChildrenRun` excepts.
- `CharDev`: `cdev_alloc()` fails with NULL, which `IS_ERR()` lets through to
  `cdev_init()` (`pc = "oops"`); with `content=""` a read divides by zero, and when
  `device_create()` fails the module is freed under whoever has opened the device already
  (both `read_mebeim_Oops`). `cdev_init()` makes of the `struct cdev` that `cdev_alloc()`
  returned one that `cdev_del()` does not free: it is lost on every unload and on every
  failure after it, which answers the TODO at line 144. `NothingLeftBehind` says so.
- `ReadImpliesExec`: when the second `register_kprobe()` fails, the first kprobe stays
  registered in a module that is then freed (`HandlerOops`).
- `PageTableWalk`: with 4 levels the kernel's `pgd_present()` is constant, so that
  `dump_pgd()` does not stop at an empty pgd and line 395 follows it (`EmptyPgd`). On 5.10
  and 5.17, where `pud_leaf()` is `pud_large()` and wants PRESENT as well, a PROTNONE page
  of 1G is taken for a table (`Protnone1G`), although the changelog has PROTNONE handled
  "at all levels" since v0.9. The properties except these two entries.
- `WalkUser`, `TaskTreeWalk`, `InitOnly`: `find_get_pid()` takes a reference to the
  `struct pid` that nothing puts, at `page_table_walk.c:83`, `task_bfs_dfs.c:57` and in
  `task_rss_from_pid.c`. `OnlyPidKept` and `GivenBack` say that it stays;
  `PendingTasksHeld` counts tasks only, `pid_refs` of `TaskTreeWalk` is what stays.
- `PageInfo`: without CAP_SYS_ADMIN the kernel shows 0 for frame and slot. A run on a
  swapped page then prints slot 0 and exits with 0; and with the right to open
  `/proc/kpageflags` and `/proc/kpagecount`, which is another privilege (uid 0 in a
  container, say), so does a run on a page that is present, with the flags and the count of
  frame 0. `PlaceReported` and `QuietReportMatches` say both.
- `TaskTreeRace`, `TaskRss`: neither walk holds a lock. After an exit the cursor may stand
  on a removed node, on the list of another task or on freed memory (`pc = "bad"`), and the
  parent of a released task may be freed; `ForksDoNoHarm` speaks of the time before the
  first exit, `QueuedTasksKept` of any time.
- `EnumPids`: RCU keeps the tasks, but setpgid(2) and setsid(2) move the entry that the
  cursor is at to another list, on which the loop then continues; `MembersPrintedOnce`
  excepts the types for which that happened.
- `SyscallHijack`: when `set_page_ro()` of init or `set_page_rw()` of exit fails, the table
  is left pointing into freed text, and rmmod does not wait for readers that sleep below
  `myread()`. `TableRestored` and `OopsNeedsReader` except these and nothing else. The page
  made writable is that of `syscall_table + __NR_read` bytes: where a page ends between that
  byte and the entry, the store of line 121 faults in insmod (`at = "fault"`).
- `UndefInstr`: if only `unregister_undef_hook` is missing, rmmod leaves the hook; and a CPU
  that has fetched the handler's address may call it after rmmod. `TrapsSurvived` excepts both.
- `FtraceHelper`: nothing clears `trace`, so that a run dumps what earlier runs traced; and
  nothing takes old pids off `set_ftrace_pid`, so that a process that gets one of them is
  traced as well, a later helper before its time included. `TraceWithoutNoise` admits these
  and no other noise.

Why the bounds are enough to be interesting:

- Five tasks are the smallest number with a tree that has two inner siblings with children
  of their own, where BFS, DFS and a wrong order all differ. A parent has a smaller number
  than its children, which loses no shape of tree, and the tasks that are not below the
  root are the rest of the system. With four tasks a walk has at most
  four nodes at a time, so four addresses are enough for it to succeed, and an address
  that was freed is handed out again while the list is in use.
- Three callers are a waiter that is released, one that stays behind, and one that comes
  after the completion is spent. The theorems about this module hold for any number.
- Two user tasks make one of them the last user of the address space and the other not;
  one kernel thread is enough to borrow it.
- The frame number is four bits wide and a pmd maps two, a pud four pages, so that PAT,
  inversion and the offsets within huge pages at both levels are all distinguishable.
  Index bits above the pud do not influence the walk.
- Three frames are the reserved one, the page's and one to move to; the inspected virtual
  page has a number that is none of its frames, and one bit each tells a swap type from an
  offset. Four arguments are one more than any usage has.
- In the race models five tasks are init, the root, and three that may be children, grand-
  children or yet unborn: enough for the cursor to be carried to another list that has
  entries after it. A queue of three is reached, and longer ones only repeat the loop of a
  cursor on a node that points to itself, which is how `nomem` is met without failing
  memory. Three leaders and a thread with three events give a list on which one entry
  leaves, one is added and one moves during a single enumeration.
- Two readers, CPUs or tasks: one that was inside when the module went, one that comes after.
- Three runs of `ftrace_helper` are one on a fresh machine, one on what a failed run left,
  and one on what a successful run left that itself followed a failed one.
- A content of length 3 with an offset bound of 4 lets reads end in the middle, at the end,
  and past the end of the string.

`CHECK_DEADLOCK FALSE` is set because these systems end: the walk returns, the module is
unloaded, the machine is off. Wherever something must happen before that end it is stated
as a liveness property instead.

### Fairness

- `TaskTreeWalk`: weak fairness of the whole walk. It runs in insmod, blocks nowhere and
  is scheduled as any task is.
- `RebootNotifier`: insmod runs to its end, the thread runs while it is runnable, and
  so does each caller under way (weak fairness for each, while the machine is up). Nobody is
  forced to begin a reboot or an rmmod.
- `WalkUser`: `walk_user()` runs, and an exit that has begun completes. Nobody is forced
  to exit, and reaping is not forced either.
- `MyInit` (in `ProgramSpec` of `Userland`): PID 1 runs while the machine is on. The shell and its jobs are not forced to
  do anything; `ShellEndsMachineEnds` starts from a shell that has ended.

The other models state safety only.

## 4. Proofs

Checked by TLAPS, for every value of the constants that satisfies the named `ASSUME`s.

- **`TaskTreeWalkProofs`** (assumption `TaskAssumption`: tasks are a set without NULL and
  the trees are such that children lists are injective, disjoint and acyclic as
  `IsTaskTree` says: a task is numbered after its parent). Inductive invariant `IInv`, in parts: *Control* ties the program
  counter to `task`, `root` and the queue; *Current* says where the task being processed is
  (in BFS mode still at the head); *Fresh* that what is queued is queued once and was not
  printed yet; *Rooted* that everything queued or printed is the root or a child, already
  passed by the cursor, of a printed task; *Closed* that the children of a printed task are printed, queued or
  still ahead of the cursor. `DumpedOnce` is not inductive alone (a task printed twice
  needs a task queued twice before), and `WholeTreeDumped` is *Closed* with an empty
  queue. The order of printing needs more. *ByLevel* (`bfs=1`): the queue spans at most two
  levels, the upper one first, and begins where the printed tasks end; a child is added
  behind everything that is at most as deep. *BySubtree* (`bfs=0`): the printed tasks, the
  task in hand and the queue, read in this order, are contiguous with respect to every
  printed task; a child goes in front of everything that is not below its parent. The
  ancestors of a task (`Line`) are the smallest set that has the task and, with a task,
  its parent, so that facts about them follow from a well-chosen closed set and no
  induction over the tree is needed; the depth of a task is the size of that set.
  Theorems: `WalkInvariant`, `WalkTypeOK`, `WalkHoldsPending`, `WalkDumpsOnce`,
  `WalkDumpsParentsFirst`, `WalkDumpsWholeTree`, `WalkPrintsByLevel`,
  `WalkPrintsBySubtree`.
- **`TaskQueueHeapProofs`** (assumptions `TreeAssumption`: tasks are numbers other than
  NULL and the trees are such as `IsTaskTree` says; `NodeAssumption`: NULL and the contents of fresh memory are no addresses).
  `HInv` says that the allocated nodes are the list: each of them on it once, from `q` to a
  NULL, with `tail` at the last node whenever it is stored through. For the refinement
  the list must be *the* sequence that `Chain` chooses, so `LinkedOnce` shows that nodes
  can be linked in one order only: two orders that differ have a first place where they do
  (`LeastNatural`), and before it both are at the same node, whose `next` is one. Then
  `PopStep`, `AppendStep` and `PushStep` say what the three pieces of pointer code do to the
  sequence, and one lemma per action proves that it keeps `HInv` and is a step of
  `TaskTreeWalk`, or none, under `q <- Queued`. Theorems: `HeapInvariant`,
  `HeapListWellFormed`, `HeapImplementsWalk`, and with the theorems of `TaskTreeWalkProofs`
  instantiated `HeapWalksTree`: the linked list dumps each task once, parents first, the
  whole tree, in the order of the mode.
- **`RebootNotifierProofs`** (no assumption; any set of callers). *Loaded* ties the
  loader's state, the registration and the text to each other; *Token* says where the one
  release of the completion is: not yet made, in `done`, or used up by a caller that is on
  its way down. Theorems: `NotifierInvariant`, `NotifierTypeOK`, `NotifierNeverFreed`,
  `JobPrecedesRelease`, `ReleaseNeverLost`.
- **`WalkUserProofs`** (assumption `WalkUserAssumption`: user tasks and kernel threads are
  disjoint, the walker and the NULL pointer are no tasks, and insmod runs in a user task). *Space* relates `life`, `mm`, `users` and `tables`;
  *Held* says what the walker holds at each program counter. Theorems:
  `WalkUserInvariant`, `WalkUserTypeOK`, `WalkUserPinsTables`, `WalkUserPinsTask`,
  `WalkUserKeepsPidOnly`.

- **`PageTableWalkProofs`** (assumption `LayoutAssumption`: the widths are naturals, a pmd
  maps fewer pages than a pud and that fewer than there are frames). `WalkInv` says that
  every entry passed on the way down is a table, or one of the two that lead astray
  (`Misleads`), and that what was printed is the line for the last entry read unless the
  walk has gone astray. The rest is about `Encode` and the decoding, for every entry at every
  level: `TableIsFollowed`, `SwapIsReported`, `LeafIsMapped` and the lemmas under them, that
  the PAT bit of a huge page does not reach its frame number, that inverting twice is the
  identity on the field, and that base and offset of a huge page do not overlap. They need
  `2^n = 2 * 2^(n-1)`, about which the provers know nothing; it is proved by counting the
  subsets of `1..n`. Theorems: `WalkInvHolds`, `WalkDescendsThroughTables`,
  `WalkReportsUnmapped`, `WalkPrintsPaddr`, `WalkPrintsFlags`.
- **`KernelModulesProofs`** (assumptions `DeviceAssumption`: lengths and offsets are
  naturals; `TreeAssumption`, `PidAssumption`: finitely many tasks, init is not the root of
  the walk, and the ends of lists are no tasks; any set of users, tasks and CPUs). The
  invariant of the composition is the conjunction of one per module, as the modules that are
  not loaded keep their initial state:
  - `CdInv`: what `test_chardev` holds at each label of init, unwinding and cleanup (the
    `struct cdev` from its allocation on); no
    file is open from rmmod on; the offset of a file is the length of what was read from
    it, and that is the content over and over.
  - `RxInv`: which kprobes are registered at each point; what has been set for a task
    by the place in execve(2) it has reached.
  - `ShInv`: table entry and page protection at each line, with and without the entry on the
    page that is made writable; a reader has at most one frame of
    `myread()`, and is in freed text only if a call failed or somebody slept there at rmmod.
  - `UiInv`: the same for the hook and the traps.
  - `IoInv`: what each init-only module holds at each of its lines.
  - `TtInv` (`TaskListProofs`): *TtTree*, whoever is not released is on the list of its
    parent; *TtWalk*, the references to a task are as many as its entries on the queue, and
    one more for the task in hand, and nobody referred to is freed; *TtQuiet*, until the first exit:
    the lists form a forest, the cursor is on the list of the task in hand, whom it has
    still to come to is unseen, and the children of printed tasks who were there at the start are
    seen or ahead. fork(2) puts a child at the end of a list, which is why it does no harm.
  - `EpInv` (`TaskListProofs`): every entry of a list is alive, and wherever the reader's
    cursor, or a next pointer of an entry kept by the grace period, leads, there
    is somebody alive or somebody kept.
  - `EpApart`: nobody is on two lists of a type, or a thread of two processes, and on the
    PID and TGID lists of a number there is nobody but its task.
  - `EpPrinted`: what was printed for each type so far. Everybody who is on the list that is
    read, or was since `rcu_read_lock()`, has a *rank* (`Ranked`): it rises along the list and
    along the next pointers that removed entries keep, and such a pointer leads past nobody
    who stayed. The reader has printed nobody ranked at or after its cursor, nobody twice,
    and everybody before it who stayed (`CursorAt`). Removing an entry leaves the ranks as
    they are, and a new one at either end gets one beyond all others (`RankedChange`), so
    whatever fork(2), clone(2) and exit(2) do the reader does not notice (`KernelUnnoticed`).
    The ranks are not a variable: the invariant says that there are some.
  - `TrInv` (`TaskListProofs`): the references held at each call of `task_rss`; until the
    first exit what is printed is the first part of the list.

  Theorems: `InvHolds`, `ModulesLeaveNothingBehind`, `ModulesHoldDependencies`,
  `ModulesUseNothingFreed`, `DeviceRepeatsContent`, `ExecGetsBothHalves`, `ExecGetsNoHalf`,
  `ReadsGetThrough`, `WalkKeepsQueuedTasks`, `WalksSurviveForks`, `EnumPrintsMembersOnce`.
- **`UserlandProofs`** (assumption `PageInfoAssumption`: sizes and widths are positive, the
  inspected page is one of the virtual pages). Likewise a conjunction:
  - `PiInv` of `pageinfo`: *PiArgs*, what was made of the arguments; *PiKernel*, the frame
    of the page has no other use, and frame 0 none; *Reported*, how the line printed for pagemap relates to
    what was true then and to what the reader may see; *StillThere*, if nothing has moved the later files were read about
    the same frame. `UsageIsAccepted` compares the parsing from the end with the usage text.
  - `MiInv` of PID 1: how far the mounts came, where shell and jobs are at each line, and
    that the machine goes down after a child was reaped or if there is none.
  - `FhInv` of `ftrace_helper`, over all runs: the tracer is on only with some pid set, and
    the pid of this run, if it was not left over, is set while tracing is off. It is about what earlier,
    failed runs leave behind, which is why `TraceWithoutNoise` is not inductive alone.
  - `IcInv` of `inherit_capability`: the capability sets and IDs before each call.

  Theorems: `InvHolds`, `UsageIsHonoured`, `SuccessReportsPlace`, `QuietRunMatches`,
  `MountsStopForDebugfs`, `MachineStaysUp`, `NoiseIsLeftOver`, `CapabilityIsKept`.

`PROJECT.json` says which property each theorem states. Every invariant of a passing run
is stated by one, and so is the refinement. Where a fact is about data of any length, the
library's induction theorems cannot be used, as they take an operator; the proofs argue
from a smallest counterexample instead (`LeastNatural`), from a smallest closed set (`Line`),
or from a witness that every step extends (`Ranked`). Only model-checked are:

- The liveness properties `WalkReturns`, `RebootGoesThrough`, `ExitCompletes`,
  `TablesReclaimed` and `ShellEndsMachineEnds`, which need fairness and ENABLED.
- The violation runs, whose counterexamples are their result.

## 5. What the models take from outside

Modelled from how this code uses it and marked external in the map: the notifier chain's
rwsem (held for reading by callers, for writing by (un)registration), the completion
(a counter), the module loader (text freed after exit or a failing init; an open file or a
running init keeps rmmod out), `exit_mm()`, context switches with lazy TLB, the x86
encoding of page table entries, reparenting to PID 1, and the kprobe mechanism.
Configuration assumed where it matters: debugfs, transparent huge page migration, and a
kernel with PTE inversion. Of the helpers whose meaning depends on the kernel: `pud_leaf()`
is PSE alone in 6.12 and PRESENT with PSE in 5.10 and 5.17, `pmd_leaf()` is PSE alone in all
three, and `pgd_present()` is constant with 4 levels, whose p4d is folded into the pgd.
`cdev_init()` gives the kobject the type that does not `kfree()` the `struct cdev`. pagemap
shows frames and swap slots to CAP_SYS_ADMIN only, while `/proc/kpageflags` and
`/proc/kpagecount` have mode 0400. Frame 0 is reserved and not mapped.

Abstracted: all text that is printed, except the addresses, flags and swap slots of the page
table walk and of `pageinfo`; error numbers; time.

## 6. Not modelled

- In `task_bfs_dfs.c` the threads of a task are printed in one step: `for_each_thread()`
  without RCU has the race that `TaskTreeRace` shows for the children.
- In `page_table_walk.c` the tables are frozen and `walk_kernel()`'s reading of CR3 is left
  out. The walk takes no lock against munmap, split and collapse and the source claims no
  protection, so there is no property of the code to state beyond that of frozen tables.
- In `test_chardev.c` faults of `put_user()` are left out; in `test_hashtable.c` the lookup
  among entries that share a key, which changes no state.
- `datetime.c`, `cpufreq.c`, `cpuinfo.c`, `test_scaling_governor.c`: single reads that are
  printed or a time that is measured; there is no state to be right about. The CodeQL
  queries are declarative.
- `x86_rtm_page_fault.c`: what it prints depends on why the processor aborts a transaction,
  which it may do for any reason; the program itself is a fork and two reads.

## 7. Plan

Done, in this order because the first carry the concurrency and the failure handling of the
repository: `TaskTreeWalk` with its proofs, `TaskQueueHeap` refining it, `RebootNotifier`,
`WalkUser`, `PageTableWalk`, `MyInit`, `CharDev`, `ReadImpliesExec`, `PageInfo`; then the
same walks in a live system (`TaskTreeRace`, `TaskRss`, `EnumPids`), the arm64 modules, the
init-only modules, the remaining programs and the two compositions.

Then the proofs, for every value of the constants: of every invariant that a passing run
checks, and that the linked list of `task_bfs_dfs` implements the walk over a sequence.

Left: proofs of the liveness properties, which are out of this prover's reach, and page
tables that change under `walk()` (section 6), should the module ever take `mmap_lock`.
