------------------------- MODULE KernelModulesProofs --------------------------
(***************************************************************************)
(* Proofs about KernelModules, for every number of users, tasks and        *)
(* processes and every bound. Each kernel module has an inductive          *)
(* invariant of its own: mostly what it holds at each of its program       *)
(* points, for test_chardev what each process has read, and for enum_pids  *)
(* what it has printed. Inv is their conjunction, with those of            *)
(* TaskListProofs, and the properties of the run follow from it.           *)
(***************************************************************************)
EXTENDS TaskListProofs

(* test_chardev: what the module holds at each point of loading, of the  *)
(* unwinding of a load that fails, and of unloading. cdev_del() is       *)
(* reached with the cdev live or not, and the struct cdev stays.         *)
CdHeld ==
  \/ cd_pc \in {"alloc_chrdev_region", "fail_chrdev_alloc", "failed"} /\ cd_held = {}
  \/ cd_pc \in {"fail_chrdev_alloc", "failed", "unloaded"} /\ cd_held = {"cdev"}
  \/ cd_pc \in {"class_create", "fail_class_create"} /\ cd_held = {"region"}
  \/ cd_pc \in {"fail_class_create", "unregister_chrdev_region"}
       /\ cd_held = {"region", "cdev"}
  \/ cd_pc \in {"cdev_alloc", "oops"} /\ cd_held = {"region", "class"}
  \/ cd_pc \in {"cdev_add", "fail_cdev_add", "fail_cdev_alloc", "class_destroy"}
       /\ cd_held = {"region", "class", "cdev"}
  \/ cd_pc \in {"device_create", "fail_cdev_add", "cdev_del"}
       /\ cd_held = {"region", "class", "cdev", "live"}
  \/ cd_pc \in {"loaded", "device_destroy"}
       /\ cd_held = {"region", "class", "cdev", "live", "device"}

(* Nobody has the device open from rmmod on. *)
CdFiles ==
  /\ file \in [User -> {"closed", "open", "oops"}]
  /\ C!Unloading \/ cd_pc = "unloaded" => \A p \in User : file[p] = "closed"

(* The offset of an open file is the length of what was read, and that   *)
(* is the content over and over.                                         *)
CdStreams ==
  /\ mebeim_content_length \in Nat
  /\ off \in [User -> Nat]
  /\ stream \in [User -> Seq(Int)]
  /\ \A p \in User : /\ Len(stream[p]) = off[p]
                     /\ \A k \in 1..off[p] : stream[p][k] = (k - 1) % mebeim_content_length

(* The inductive invariant of test_chardev. *)
CdInv == CdHeld /\ CdFiles /\ CdStreams

(* It holds before insmod. *)
LEMMA CdInit == C!Init => CdInv
BY DeviceAssumption DEF C!Init, CdInv, CdHeld, CdFiles, CdStreams, C!Unloading

(* insmod, rmmod and mychardev_cleanup() keep it. *)
LEMMA CdLoader ==
  ASSUME CdInv, C!Insmod \/ C!rmmod \/ C!mychardev_cleanup
  PROVE  CdInv'
<1> USE DEF CdInv, C!files, C!Acquire, C!Release
<1>1. CASE C!Insmod
  <2>1. UNCHANGED <<mebeim_content_length, file, off, stream>>
    BY <1>1 DEF C!Insmod, C!alloc_chrdev_region, C!class_create, C!cdev_alloc, C!cdev_add,
         C!device_create, C!fail_cdev_add, C!fail_cdev_alloc, C!fail_class_create,
         C!fail_chrdev_alloc
  <2>2. CdHeld' /\ ~C!Unloading' /\ cd_pc' # "unloaded"
    BY <1>1 DEF C!Insmod, C!alloc_chrdev_region, C!class_create, C!cdev_alloc, C!cdev_add,
         C!device_create, C!fail_cdev_add, C!fail_cdev_alloc, C!fail_class_create,
         C!fail_chrdev_alloc, CdHeld, C!Unloading
  <2> QED BY <2>1, <2>2 DEF CdFiles, CdStreams
<1>2. CASE C!rmmod
  BY <1>2 DEF C!rmmod, CdHeld, CdFiles, CdStreams
<1>3. CASE C!mychardev_cleanup
  <2>1. UNCHANGED <<mebeim_content_length, file, off, stream>>
    BY <1>3 DEF C!mychardev_cleanup
  <2>2. CdHeld' /\ C!Unloading
    BY <1>3 DEF C!mychardev_cleanup, CdHeld, C!Unloading
  <2> QED BY <2>1, <2>2 DEF CdFiles, CdStreams
<1> QED BY <1>1, <1>2, <1>3

(* A read of any size keeps it: the bytes go on where the last read      *)
(* ended.                                                                *)
LEMMA CdRead ==
  ASSUME CdInv, NEW p \in User, NEW n \in 1..MaxOff, C!read_mebeim(p, n)
  PROVE  CdInv'
<1> DEFINE L == mebeim_content_length
           old == stream[p]
           chunk == [j \in 1..n |-> (j - 1 + off[p]) % L]
<1>1. /\ L \in Nat /\ L > 0 /\ n \in Nat /\ off[p] \in Nat
      /\ old \in Seq(Int) /\ Len(old) = off[p]
      /\ \A k \in 1..off[p] : old[k] = (k - 1) % L
  BY DeviceAssumption DEF CdInv, CdStreams, C!read_mebeim
<1>2. chunk \in Seq(Int) /\ Len(chunk) = n
  BY <1>1
<1>3. /\ stream' = [stream EXCEPT ![p] = old \o chunk]
      /\ off' = [off EXCEPT ![p] = off[p] + n]
      /\ UNCHANGED <<mebeim_content_length, cd_pc, cd_held, file>>
  BY DEF C!read_mebeim
<1>4. ASSUME NEW k \in Nat, off[p] < k, k <= off[p] + n
      PROVE  chunk[k - off[p]] = (k - 1) % L
  <2>1. k - off[p] \in 1..n /\ k - off[p] - 1 + off[p] = k - 1
    BY <1>1, <1>4
  <2> QED BY <2>1
<1> HIDE DEF old, chunk, L
<1>5. /\ old \o chunk \in Seq(Int) /\ Len(old \o chunk) = off[p] + n
      /\ \A k \in 1..(off[p] + n) : (old \o chunk)[k] = (k - 1) % L
  <2>1. /\ old \o chunk \in Seq(Int) /\ Len(old \o chunk) = Len(old) + Len(chunk)
        /\ \A k \in 1..(Len(old) + Len(chunk)) :
             (old \o chunk)[k] = IF k <= Len(old) THEN old[k] ELSE chunk[k - Len(old)]
    BY <1>1, <1>2, ConcatProperties
  <2>2. ASSUME NEW k \in 1..(off[p] + n) PROVE (old \o chunk)[k] = (k - 1) % L
    BY <1>1, <1>2, <1>4, <2>1
  <2> QED BY <1>1, <1>2, <2>1, <2>2
<1>6. CdStreams'
  BY <1>1, <1>3, <1>5 DEF CdInv, CdStreams, L
<1> QED BY <1>3, <1>6 DEF CdInv, CdHeld, CdFiles, C!Unloading

(* Every step keeps it. *)
LEMMA CdStep == ASSUME CdInv, [C!Next]_cd PROVE CdInv'
<1>1. ASSUME NEW p \in User, C!open(p) PROVE CdInv'
  <2>1. ~C!Unloading /\ cd_pc # "unloaded"
    BY <1>1 DEF C!open, CdInv, CdHeld
  <2>2. CdStreams'
    BY <1>1 DEF C!open, CdInv, CdStreams
  <2> QED BY <1>1, <2>1, <2>2 DEF C!open, CdInv, CdHeld, CdFiles, C!Unloading
<1>2. ASSUME NEW p \in User, C!close(p) PROVE CdInv'
  BY <1>2 DEF C!close, CdInv, CdHeld, CdFiles, CdStreams, C!Unloading
<1>3. ASSUME NEW p \in User, C!read_mebeim_Oops(p) PROVE CdInv'
  BY <1>3 DEF C!read_mebeim_Oops, CdInv, CdHeld, CdFiles, CdStreams, C!Unloading
<1>4. CASE UNCHANGED cd
  BY <1>4 DEF cd, CdInv, CdHeld, CdFiles, CdStreams, C!Unloading
<1> QED BY <1>1, <1>2, <1>3, <1>4, CdLoader, CdRead DEF C!Next

(* It gives what is asked of test_chardev. *)
LEMMA CdSafe ==
  ASSUME CdInv
  PROVE  /\ C!NothingLeftBehind /\ C!DependenciesHeld
         /\ C!OpenFilePinsModule /\ C!StreamRepeatsContent
<1>1. C!NothingLeftBehind /\ C!DependenciesHeld
  BY DEF CdInv, CdHeld, C!NothingLeftBehind, C!DependenciesHeld, C!Freed
<1>2. C!OpenFilePinsModule /\ C!StreamRepeatsContent
  BY DEF CdInv, CdFiles, CdStreams, C!OpenFilePinsModule, C!StreamRepeatsContent
<1> QED BY <1>1, <1>2
-------------------------------------------------------------------------------

(* read_implies_exec: the probes that are registered while the array is  *)
(* gone through, forwards by insmod and rmmod.                           *)
RxProbes ==
  \/ module \in {"loading", "failed"} /\ i = 1 /\ probes = {}
  \/ module \in {"loading", "failed"} /\ i = 2 /\ probes = {"setup_arg_pages"}
  \/ module = "live" /\ i = 1 /\ probes = {"setup_arg_pages", "setup_new_exec"}
  \/ module = "unloading" /\ i = 1 /\ probes = {"setup_arg_pages", "setup_new_exec"}
  \/ module = "unloading" /\ i = 2 /\ probes = {"setup_new_exec"}
  \/ module = "unloaded" /\ i = 3 /\ probes = {}

(* What an execve(2) has got, at each point of it; one that began under  *)
(* the live module and is past a probe has got that probe's half.        *)
RxTask(t) ==
  /\ exec[t] \in {"idle", "setup_new_exec", "setup_arg_pages", "done", "oops"}
  /\ exec[t] = "oops" => module = "failed"
  /\ covered[t] /\ exec[t] \in {"idle", "setup_new_exec", "setup_arg_pages"} => module = "live"
  /\ covered[t] /\ exec[t] \in {"setup_arg_pages", "done"} => personality[t]
  /\ covered[t] /\ exec[t] = "done" => exstack[t]
  /\ exec[t] = "setup_new_exec" => ~personality[t]
  /\ module \in {"loading", "live"} /\ personality[t] =>
       "setup_arg_pages" \in probes /\ (exec[t] = "done" => exstack[t])

(* The inductive invariant of read_implies_exec. *)
RxInv ==
  /\ RxProbes
  /\ exec = [t \in User |-> exec[t]] /\ personality = [t \in User |-> personality[t]]
  /\ exstack = [t \in User |-> exstack[t]] /\ covered = [t \in User |-> covered[t]]
  /\ \A t \in User : RxTask(t)

(* It holds before insmod. *)
LEMMA RxInit == X!Init => RxInv
BY DEF X!Init, RxInv, RxProbes, RxTask

(* Every step keeps it. *)
LEMMA RxStep == ASSUME RxInv, [X!Next]_rx PROVE RxInv'
<1> USE DEF RxInv
<1>9. X!kps = <<"setup_arg_pages", "setup_new_exec">> /\ Len(X!kps) = 2
  BY DEF X!kps
<1>1. CASE X!modinit
  BY <1>1, <1>9 DEF X!modinit, RxProbes, RxTask
<1>2. CASE X!rmmod
  BY <1>2 DEF X!rmmod, RxProbes, RxTask
<1>3. CASE X!modexit
  BY <1>3, <1>9 DEF X!modexit, RxProbes, RxTask
<1>4. ASSUME NEW t \in User, X!execve(t) PROVE RxInv'
  BY <1>4 DEF X!execve, RxProbes, RxTask
<1>5. ASSUME NEW t \in User, X!kp_setup_new_exec_pre(t) PROVE RxInv'
  BY <1>5 DEF X!kp_setup_new_exec_pre, RxProbes, RxTask
<1>6. ASSUME NEW t \in User, X!kp_setup_arg_pages_pre(t) PROVE RxInv'
  BY <1>6 DEF X!kp_setup_arg_pages_pre, RxProbes, RxTask
<1>7. ASSUME NEW t \in User, X!HandlerOops(t) PROVE RxInv'
  BY <1>7 DEF X!HandlerOops, X!Mapped, RxProbes, RxTask
<1>8. CASE UNCHANGED rx
  BY <1>8 DEF rx, RxProbes, RxTask
<1> QED BY <1>1, <1>2, <1>3, <1>4, <1>5, <1>6, <1>7, <1>8 DEF X!Next

(* It gives what is asked of read_implies_exec. *)
LEMMA RxSafe ==
  ASSUME RxInv PROVE X!LiveExecGetsBoth /\ X!NoHalfWhileLoading /\ X!NoProbeAfterUnload
BY DEF RxInv, RxProbes, RxTask, X!LiveExecGetsBoth, X!NoHalfWhileLoading,
       X!NoProbeAfterUnload
-------------------------------------------------------------------------------
(* undef_instr, inductively: a trap is in the handler of a freed module  *)
(* only if it was there when rmmod freed it, or if there was no          *)
(* unregister_undef_hook() to find.                                      *)
UiInv ==
  /\ ui_at \in {"register", "whoops", "live", "unregister", "EFAULT", "unloaded"}
  /\ ui_at \in {"register", "EFAULT"} => ~hooked
  /\ ui_at \in {"whoops", "live", "unregister"} => hooked
  /\ ui_at = "unloaded" /\ hooked => "unregister" \notin found
  /\ trap = [c \in User |-> trap[c]]
  /\ \A c \in User :
       /\ trap[c] = "call" => ui_at \notin {"register", "EFAULT"}
       /\ trap[c] = "call" /\ ui_at = "unloaded" => calling \/ "unregister" \notin found
       /\ trap[c] = "oops" => ui_at = "unloaded" /\ (calling \/ "unregister" \notin found)

(* It holds before insmod. *)
LEMMA UiInit == U!Init => UiInv
BY DEF U!Init, UiInv

(* Every step keeps it. *)
LEMMA UiStep == ASSUME UiInv, [U!Next]_ui PROVE UiInv'
<1> USE DEF UiInv
<1>1. CASE U!modinit
  BY <1>1 DEF U!modinit, U!Goto
<1>2. CASE U!whoops \/ U!rmmod
  BY <1>2 DEF U!whoops, U!rmmod, U!Goto
<1>3. CASE U!modexit
  BY <1>3 DEF U!modexit, U!Goto
<1>4. ASSUME NEW c \in User, U!undefined_instruction(c) PROVE UiInv'
  BY <1>4 DEF U!undefined_instruction
<1>5. ASSUME NEW c \in User, U!call_undef_hook(c) PROVE UiInv'
  BY <1>5 DEF U!call_undef_hook, U!Freed
<1>6. ASSUME NEW c \in User, U!undef_instr_handler(c) PROVE UiInv'
  BY <1>6 DEF U!undef_instr_handler, U!Freed
<1>7. CASE UNCHANGED ui
  BY <1>7 DEF ui
<1> QED BY <1>1, <1>2, <1>3, <1>4, <1>5, <1>6, <1>7 DEF U!Next

(* It gives what is asked of undef_instr. *)
LEMMA UiSafe == ASSUME UiInv PROVE U!TrapsSurvived
BY DEF UiInv, U!TrapsSurvived
-------------------------------------------------------------------------------
(* The modules that only have an init function, inductively: what each   *)
(* of them holds at each of its lines.                                   *)
IoInv ==
  /\ misused = {}
  /\ \/ program = "find_root_dev" /\
          \/ line \in {1, 7} /\ held = {}
          \/ line \in {2, 3, 6} /\ held = {"path"}
          \/ line \in {4, 5} /\ held = {"path", "bdev"}
     \/ program = "kallsyms" /\
          \/ line \in {1, 4} /\ held = {}
          \/ line \in {2, 3} /\ held = {"kprobe"}
     \/ program = "task_rss_from_pid" /\
          \/ line = 1 /\ held = {}
          \/ line = 2 /\ held = {"pid"}
          \/ line = 8 /\ held \subseteq {"pid"}
          \/ line \in {3, 4, 7} /\ held = {"pid", "task"}
          \/ line \in {5, 6} /\ held = {"pid", "task", "mm"}
     \/ program = "test_hashtable" /\
          \/ line \in {1, 7} /\ held = {}
          \/ line = 2 /\ held = {"a"}
          \/ line \in {3, 4, 5} /\ held = {"a", "b"}
          \/ line = 6 /\ held = {"b"}

(* It holds before insmod. *)
LEMMA IoInit == I!Init => IoInv
BY DEF I!Init, I!Code, IoInv

(* Every call of an init function keeps it, whether it succeeds or       *)
(* fails.                                                                *)
LEMMA IoStep == ASSUME IoInv, [I!Next]_io PROVE IoInv'
<1> USE DEF I!Next, I!Call, I!Returned, I!Code, I!get, I!use, I!put, io
<1>1. CASE program = "find_root_dev"
  BY <1>1 DEF I!findrootdev_init, IoInv
<1>2. CASE program = "kallsyms"
  BY <1>2 DEF I!kallsyms_modinit, IoInv
<1>3. CASE program = "task_rss_from_pid"
  BY <1>3 DEF I!task_rss_modinit, IoInv
<1>4. CASE program = "test_hashtable"
  BY <1>4 DEF I!myhashtable_init, IoInv
<1> QED BY <1>1, <1>2, <1>3, <1>4 DEF IoInv

(* It gives what is asked of these modules. *)
LEMMA IoSafe == ASSUME IoInv PROVE I!GivenBack /\ I!NothingMisused
<1> USE DEF I!GivenBack, I!Returned, I!Code, I!get, I!use, I!put
<1>1. I!GivenBack
  <2>1. CASE program = "find_root_dev"
    BY <2>1 DEF I!findrootdev_init, IoInv
  <2>2. CASE program = "kallsyms"
    BY <2>2 DEF I!kallsyms_modinit, IoInv
  <2>3. CASE program = "task_rss_from_pid"
    BY <2>3 DEF I!task_rss_modinit, IoInv
  <2>4. CASE program = "test_hashtable"
    BY <2>4 DEF I!myhashtable_init, IoInv
  <2> QED BY <2>1, <2>2, <2>3, <2>4 DEF IoInv
<1>2. I!NothingMisused
  BY DEF IoInv, I!NothingMisused
<1> QED BY <1>1, <1>2
-------------------------------------------------------------------------------

(* syscall_hijack: a read(2) has one frame of myread() at most, enters   *)
(* it only after the original was saved, and is in it, or died in it,    *)
(* after the module was freed only if a call failed or nobody waited.    *)
ShReader(r) ==
  /\ call[r] \in {"idle", "myread", "sys_read", "sleep", "oops"}
  /\ frames[r] \in {0, 1}
  /\ call[r] \in {"idle", "myread"} => frames[r] = 0
  /\ call[r] = "myread" => at # "save"
  /\ call[r] = "oops" => S!Freed /\ (busy \/ failed # {})
  /\ S!Freed /\ S!InText(r) => busy \/ failed # {}

(* The table and its page at each point of loading and unloading. *)
ShTable ==
  /\ at \in {"save", "init_rw", "patch", "init_ro", "live", "exit_rw", "restore", "exit_ro",
             "error", "unloaded", "fault"}
  /\ same_page \in BOOLEAN
  /\ ~same_page => entry = "sys_read" /\ at \in {"save", "init_rw", "patch", "error", "fault"}
  /\ at = "fault" => ~same_page
  /\ original_read = IF at = "save" THEN "NULL" ELSE "sys_read"
  /\ entry \in {"sys_read", "myread"}
  /\ at \in {"save", "init_rw", "patch", "exit_ro"} => entry = "sys_read"
  /\ entry = "myread" /\ S!Freed => failed \cap {"init_ro", "exit_rw"} # {}
  /\ at \in {"patch", "restore"} => writable
  /\ at \in {"save", "init_rw", "live", "exit_rw"} => ~writable
  /\ S!Freed /\ writable => failed \cap {"init_ro", "exit_ro"} # {}

(* The inductive invariant of syscall_hijack. *)
ShInv == /\ ShTable
         /\ call = [r \in User |-> call[r]] /\ frames = [r \in User |-> frames[r]]
         /\ \A r \in User : ShReader(r)

(* It holds before insmod. *)
LEMMA ShInit == S!Init => ShInv
BY DEF S!Init, ShInv, ShTable, ShReader, S!Freed, S!InText

(* Every step keeps it. *)
LEMMA ShStep == ASSUME ShInv, [S!Next]_sh PROVE ShInv'
<1> USE DEF ShInv, S!Freed, S!InText
<1>1. CASE S!modinit
  BY <1>1 DEF S!modinit, S!set_page, S!store, S!Goto, S!table, ShTable, ShReader
<1>2. CASE S!rmmod
  BY <1>2 DEF S!rmmod, S!set_page, S!store, S!Goto, S!table, ShTable, ShReader
<1>3. CASE S!modexit
  <2> USE DEF S!modexit, S!set_page, S!store, S!Goto, S!table, ShTable, ShReader
  <2>1. CASE at = "exit_rw"
    BY <1>3, <2>1
  <2>2. CASE at = "restore"
    BY <1>3, <2>2
  <2>3. CASE at = "exit_ro"
    BY <1>3, <2>3
  <2> QED BY <1>3, <2>1, <2>2, <2>3
<1>4. ASSUME NEW r \in User, S!invoke_syscall(r) PROVE ShInv'
  BY <1>4 DEF S!invoke_syscall, S!loader, S!table, ShTable, ShReader
<1>5. ASSUME NEW r \in User, S!myread(r) PROVE ShInv'
  BY <1>5 DEF S!myread, S!loader, S!table, ShTable, ShReader
<1>6. ASSUME NEW r \in User, S!sys_read(r) PROVE ShInv'
  BY <1>6 DEF S!sys_read, S!loader, S!table, ShTable, ShReader
<1>7. ASSUME NEW r \in User, S!return(r) PROVE ShInv'
  <2>1. ShTable'
    BY <1>7 DEF S!return, S!loader, S!table, ShTable
  <2>2. ASSUME NEW q \in User PROVE ShReader(q)'
    <3>1. CASE q # r
      BY <1>7, <3>1 DEF S!return, S!loader, S!table, ShReader
    <3>2. CASE q = r
      <4>1. frames'[r] = 0 /\ call'[r] = IF S!Freed /\ frames[r] > 0 THEN "oops" ELSE "idle"
        BY <1>7 DEF S!return
      <4>2. frames[r] > 0 <=> frames[r] = 1
        BY DEF ShReader
      <4> QED BY <1>7, <3>2, <4>1, <4>2 DEF S!return, S!loader, S!table, ShReader
    <3> QED BY <3>1, <3>2
  <2> QED BY <1>7, <2>1, <2>2 DEF S!return
<1>8. CASE UNCHANGED sh
  BY <1>8 DEF sh, ShTable, ShReader
<1> QED BY <1>1, <1>2, <1>3, <1>4, <1>5, <1>6, <1>7, <1>8 DEF S!Next

(* It gives what is asked of syscall_hijack. *)
LEMMA ShSafe == ASSUME ShInv PROVE S!TableRestored /\ S!ReadGetsThrough /\ S!OopsNeedsReader
<1>1. S!TableRestored
  BY DEF ShInv, ShTable, S!TableRestored, S!Freed
<1>2. S!ReadGetsThrough
  BY DEF ShInv, ShReader, S!ReadGetsThrough
<1>3. S!OopsNeedsReader
  BY DEF ShInv, ShReader, S!OopsNeedsReader
<1> QED BY <1>1, <1>2, <1>3
-------------------------------------------------------------------------------
(* enum_pids: what a reader prints while entries come and go. Everybody    *)
(* who is or was on the list since the reader began has a rank: it rises   *)
(* along the list, and along the next pointers that removed entries keep.  *)
Sorted(L, r) == \A j, k \in 1..Len(L) : j < k => r[L[j]] < r[L[k]]

(* L is the list, st the pointers that the removed entries keep, Ch who    *)
(* was put on or taken off since rcu_read_lock() and G who is unhashed.    *)
(* The pointer of a removed entry passes over nobody who stayed.           *)
Ranked(L, st, Ch, G, r, lo, hi) ==
  /\ L \in Seq(PidTask) /\ lo \in Int /\ hi \in Int /\ lo < hi
  /\ DOMAIN r \subseteq PidTask
  /\ \A x \in DOMAIN r : r[x] \in Int /\ lo < r[x] /\ r[x] < hi
  /\ \A x \in Range(L) : x \in DOMAIN r /\ x \notin G
  /\ Sorted(L, r)
  /\ \A t \in DOMAIN r : t \notin Range(L) =>
       /\ t \in Ch /\ t \in G
       /\ st[t] # "NULL" => st[t] \in DOMAIN r /\ r[t] < r[st[t]]
       /\ \A x \in Range(L) : x \notin Ch /\ r[t] <= r[x] => st[t] # "NULL" /\ r[st[t]] <= r[x]

(* The reader is at c and has printed pr: nobody twice, nobody that it has *)
(* not passed, and everybody that it has passed and who stayed.            *)
CursorAt(L, Ch, r, c, pr) ==
  /\ c = "NULL" \/ c \in DOMAIN r
  /\ pr \in [PidTask -> {0, 1}]
  /\ \A x \in PidTask : pr[x] = 1 => x \in DOMAIN r /\ (c = "NULL" \/ r[x] < r[c])
  /\ \A x \in Range(L) : x \notin Ch /\ (c = "NULL" \/ r[x] < r[c]) => pr[x] = 1

ReaderAt(L, st, Ch, G, c, pr) ==
  \E r, lo, hi : Ranked(L, st, Ch, G, r, lo, hi) /\ CursorAt(L, Ch, r, c, pr)

(* The next pointer as the reader finds it. *)
NextIn(L, st, c) == IF c \in Range(L) THEN E!After(L, c) ELSE st[c]
NothingYet == [x \in PidTask |-> 0]
OneMore(pr, c) == [pr EXCEPT ![c] = IF @ = 2 THEN 2 ELSE @ + 1]

(* The next pointer of the entry at a place. *)
LEMMA AfterPlace ==
  ASSUME NEW A, NEW L \in Seq(A), IsInjective(L), NEW k \in 1..Len(L)
  PROVE  E!After(L, L[k]) = IF k = Len(L) THEN "NULL" ELSE L[k + 1]
<1> DEFINE i0 == CHOOSE i0 \in DOMAIN L : L[i0] = L[k]
<1>1. DOMAIN L = 1..Len(L)
  OBVIOUS
<1>2. i0 \in DOMAIN L /\ L[i0] = L[k]
  BY <1>1
<1>3. i0 = k
  BY <1>1, <1>2 DEF IsInjective
<1>4. E!After(L, L[k]) = IF i0 = Len(L) THEN "NULL" ELSE L[i0 + 1]
  BY DEF E!After, E!NULL
<1> QED BY <1>3, <1>4

(* Nobody has two places on a list with ranks. *)
LEMMA SortedInjective ==
  ASSUME NEW st, NEW Ch, NEW G, NEW r, NEW lo, NEW hi, NEW L, Ranked(L, st, Ch, G, r, lo, hi)
  PROVE  /\ IsInjective(L) /\ L \in Seq(PidTask)
         /\ \A j, k \in 1..Len(L) : r[L[j]] <= r[L[k]] => j <= k
         /\ \A k \in 1..Len(L) : L[k] \in Range(L) /\ L[k] \in PidTask /\ r[L[k]] \in Int
<1>1. L \in Seq(PidTask)
  BY DEF Ranked
<1>2. \A k \in 1..Len(L) : L[k] \in Range(L) /\ L[k] \in PidTask /\ r[L[k]] \in Int
  <2>1. \A k \in 1..Len(L) : L[k] \in Range(L) /\ L[k] \in PidTask
    BY <1>1, ListElements
  <2> QED BY <2>1 DEF Ranked
<1>3. \A j, k \in 1..Len(L) : r[L[j]] <= r[L[k]] => j <= k
  <2> SUFFICES ASSUME NEW j \in 1..Len(L), NEW k \in 1..Len(L), k < j
               PROVE  ~ (r[L[j]] <= r[L[k]])
    BY <1>1
  <2>1. r[L[k]] < r[L[j]]
    BY DEF Ranked, Sorted
  <2> QED BY <1>2, <2>1
<1>4. ASSUME NEW j \in 1..Len(L), NEW k \in 1..Len(L), L[j] = L[k] PROVE j = k
  BY <1>1, <1>2, <1>3, <1>4
<1> QED BY <1>1, <1>2, <1>3, <1>4, ListElements

(* From everybody with a rank the next pointer leads up, and over nobody   *)
(* who stayed.                                                             *)
LEMMA NextRank ==
  ASSUME NEW L, NEW st, NEW Ch, NEW G, NEW r, NEW lo, NEW hi, Ranked(L, st, Ch, G, r, lo, hi),
         NEW c \in DOMAIN r, NEW n, n = NextIn(L, st, c)
  PROVE  /\ n # "NULL" => n \in DOMAIN r /\ r[c] < r[n]
         /\ \A x \in Range(L) : x \notin Ch /\ x # c /\ r[c] <= r[x] => n # "NULL" /\ r[n] <= r[x]
<1>1. CASE c \in Range(L)
  <2>1. /\ IsInjective(L) /\ L \in Seq(PidTask)
        /\ \A j, k \in 1..Len(L) : r[L[j]] <= r[L[k]] => j <= k
        /\ \A k \in 1..Len(L) : L[k] \in Range(L) /\ L[k] \in PidTask /\ r[L[k]] \in Int
    BY SortedInjective
  <2>2. PICK k \in 1..Len(L) : L[k] = c
    BY <1>1, <2>1, ListElements
  <2>3. n = IF k = Len(L) THEN "NULL" ELSE L[k + 1]
    BY <1>1, <2>1, <2>2, AfterPlace DEF NextIn
  <2>4. \A a, b \in 1..Len(L) : a < b => r[L[a]] < r[L[b]]
    BY DEF Ranked, Sorted
  <2>5. ASSUME k # Len(L)
        PROVE  n = L[k + 1] /\ k + 1 \in 1..Len(L) /\ n \in DOMAIN r /\ r[c] < r[n]
    <3>1. k + 1 \in 1..Len(L) /\ k < k + 1
      BY <2>1, <2>2, <2>5
    <3> QED BY <2>1, <2>2, <2>3, <2>4, <2>5, <3>1 DEF Ranked
  <2>6. ASSUME NEW x \in Range(L), x # c, r[c] <= r[x] PROVE n # "NULL" /\ r[n] <= r[x]
    <3>1. PICK m \in 1..Len(L) : L[m] = x
      BY <2>1, ListElements
    <3>2. k <= m /\ k # m
      BY <2>1, <2>2, <2>6, <3>1
    <3>3. k # Len(L) /\ k + 1 \in 1..Len(L) /\ (k + 1 = m \/ k + 1 < m)
      BY <2>1, <2>2, <3>1, <3>2
    <3>4. n = L[k + 1] /\ n \in PidTask /\ r[n] \in Int /\ r[x] \in Int
      BY <2>1, <2>3, <3>1, <3>3
    <3>5. r[n] <= r[x]
      BY <2>4, <3>1, <3>3, <3>4
    <3> QED BY <3>4, <3>5, PidAssumption
  <2>7. n # "NULL" => k # Len(L)
    BY <2>3
  <2> QED BY <2>5, <2>6, <2>7
<1>2. CASE c \notin Range(L)
  BY <1>2 DEF NextIn, Ranked
<1> QED BY <1>1, <1>2

(* A reader begins at the head of a list. *)
LEMMA WalkBegins ==
  ASSUME NEW L \in Seq(PidTask), IsInjective(L), NEW st, NEW Ch, NEW G,
         \A x \in Range(L) : x \notin G
  PROVE  ReaderAt(L, st, Ch, G, E!First(L), NothingYet)
<1> DEFINE place(x) == CHOOSE k \in 1..Len(L) : L[k] = x
           r == [x \in Range(L) |-> place(x)]
           lo == 0
           hi == Len(L) + 1
<1>1. Len(L) \in Nat /\ Range(L) \subseteq PidTask
  BY ListElements
<1>2. \A x \in Range(L) : place(x) \in 1..Len(L) /\ L[place(x)] = x
  BY ListElements
<1>3. \A k \in 1..Len(L) : L[k] \in Range(L)
  BY ListElements
<1>4. \A k \in 1..Len(L) : place(L[k]) = k
  <2> SUFFICES ASSUME NEW k \in 1..Len(L) PROVE place(L[k]) = k
    OBVIOUS
  <2>1. place(L[k]) \in 1..Len(L) /\ L[place(L[k])] = L[k]
    BY <1>2, <1>3
  <2> HIDE DEF place
  <2> QED BY <2>1, ListElements
<1> HIDE DEF place
<1>5. DOMAIN r = Range(L) /\ \A x \in Range(L) : r[x] = place(x)
  OBVIOUS
<1> HIDE DEF r
<1>6. \A k \in 1..Len(L) : r[L[k]] = k
  BY <1>3, <1>4, <1>5
<1>7. Ranked(L, st, Ch, G, r, lo, hi)
  <2>1. Sorted(L, r)
    BY <1>6 DEF Sorted
  <2>2. \A x \in DOMAIN r : r[x] \in Int /\ lo < r[x] /\ r[x] < hi
    BY <1>1, <1>2, <1>5
  <2> QED BY <1>1, <1>5, <2>1, <2>2 DEF Ranked
<1>8. CursorAt(L, Ch, r, E!First(L), NothingYet)
  <2>1. CASE L = <<>>
    <3>1. Range(L) = {} /\ E!First(L) = "NULL"
      BY <2>1 DEF Range, E!First, E!NULL
    <3> QED BY <3>1 DEF CursorAt, NothingYet
  <2>2. CASE L # <<>>
    <3>1. E!First(L) = L[1] /\ 1 \in 1..Len(L)
      BY <2>2 DEF E!First
    <3>2. r[L[1]] = 1 /\ L[1] \in DOMAIN r /\ L[1] # "NULL"
      BY <1>1, <1>3, <1>5, <1>6, <3>1, PidAssumption
    <3>3. \A x \in Range(L) : ~ (r[x] < 1)
      BY <1>2, <1>5
    <3> QED BY <3>1, <3>2, <3>3 DEF CursorAt, NothingYet
  <2> QED BY <2>1, <2>2
<1> QED BY <1>7, <1>8 DEF ReaderAt

(* It prints the entry that it is at and goes on to the next. *)
LEMMA WalkAdvances ==
  ASSUME NEW L, NEW st, NEW Ch, NEW G, NEW c, c # "NULL", NEW pr,
         ReaderAt(L, st, Ch, G, c, pr)
  PROVE  ReaderAt(L, st, Ch, G, NextIn(L, st, c), OneMore(pr, c))
<1>1. PICK r, lo, hi : Ranked(L, st, Ch, G, r, lo, hi) /\ CursorAt(L, Ch, r, c, pr)
  BY DEF ReaderAt
<1>2. PICK n : n = NextIn(L, st, c)
  OBVIOUS
<1>3. c \in DOMAIN r /\ c \in PidTask /\ r[c] \in Int
  BY <1>1 DEF CursorAt, Ranked
<1>4. /\ n # "NULL" => n \in DOMAIN r /\ r[c] < r[n]
      /\ \A x \in Range(L) : x \notin Ch /\ x # c /\ r[c] <= r[x] => n # "NULL" /\ r[n] <= r[x]
  BY <1>1, <1>2, <1>3, NextRank
<1>5. pr \in [PidTask -> {0, 1}] /\ pr[c] = 0
  BY <1>1, <1>3 DEF CursorAt
<1>6. PICK qr : qr = OneMore(pr, c)
  OBVIOUS
<1>7. /\ qr \in [PidTask -> {0, 1}] /\ qr[c] = 1
      /\ \A x \in PidTask : x # c => qr[x] = pr[x]
  BY <1>3, <1>5, <1>6 DEF OneMore
<1>8. \A x \in DOMAIN r : r[x] \in Int /\ x \in PidTask
  BY <1>1 DEF Ranked
<1>9. \A x \in Range(L) : x \in DOMAIN r
  BY <1>1 DEF Ranked
<1>10. ASSUME NEW x \in PidTask, qr[x] = 1 PROVE x \in DOMAIN r /\ (n = "NULL" \/ r[x] < r[n])
  <2>1. CASE x = c
    BY <1>3, <1>4, <2>1
  <2>2. CASE x # c
    <3>1. x \in DOMAIN r /\ r[x] < r[c]
      BY <1>1, <1>7, <1>10, <2>2 DEF CursorAt
    <3> QED BY <1>3, <1>4, <1>8, <3>1
  <2> QED BY <2>1, <2>2
<1>11. ASSUME NEW x \in Range(L), x \notin Ch, n = "NULL" \/ r[x] < r[n] PROVE qr[x] = 1
  <2>1. CASE x = c
    BY <1>7, <2>1
  <2>2. CASE x # c
    <3>1. r[x] \in Int /\ x \in PidTask /\ (n # "NULL" => r[n] \in Int)
      BY <1>4, <1>8, <1>9
    <3>2. ~ (r[c] <= r[x])
      BY <1>4, <1>11, <2>2, <3>1
    <3>3. r[x] < r[c]
      BY <1>3, <3>1, <3>2
    <3>4. pr[x] = 1
      BY <1>1, <1>11, <3>3 DEF CursorAt
    <3> QED BY <1>7, <2>2, <3>1, <3>4
  <2> QED BY <2>1, <2>2
<1>12. CursorAt(L, Ch, r, n, qr)
  BY <1>4, <1>7, <1>10, <1>11 DEF CursorAt
<1> QED BY <1>1, <1>2, <1>6, <1>12 DEF ReaderAt

(* At the end whoever stayed on the list is printed once, and of those who *)
(* did not nobody twice.                                                   *)
Settled(L, Ch, pr) ==
  /\ pr \in [PidTask -> {0, 1}]
  /\ \A x \in PidTask : x \notin Ch => (pr[x] = 1 <=> x \in Range(L))

LEMMA WalkEnds ==
  ASSUME NEW L, NEW st, NEW Ch, NEW G, NEW pr, ReaderAt(L, st, Ch, G, "NULL", pr)
  PROVE  Settled(L, Ch, pr)
<1>1. PICK r, lo, hi : Ranked(L, st, Ch, G, r, lo, hi) /\ CursorAt(L, Ch, r, "NULL", pr)
  BY DEF ReaderAt
<1> QED BY <1>1 DEF Settled, Ranked, CursorAt

(* Where the reader is: on the list, unhashed, or at the end. *)
LEMMA WalkWhere ==
  ASSUME NEW L, NEW st, NEW Ch, NEW G, NEW c, NEW pr, ReaderAt(L, st, Ch, G, c, pr), c # "NULL"
  PROVE  c \in PidTask /\ (c \in Range(L) \/ c \in G)
<1>1. PICK r, lo, hi : Ranked(L, st, Ch, G, r, lo, hi) /\ CursorAt(L, Ch, r, c, pr)
  BY DEF ReaderAt
<1> QED BY <1>1 DEF Ranked, CursorAt

(* A list without one of its entries has the others in their order. *)
LEMMA WithoutSorted ==
  ASSUME NEW L \in Seq(PidTask), IsInjective(L), NEW t \in Range(L), NEW r, Sorted(L, r)
  PROVE  Sorted(E!Without(L, t), r)
<1> DEFINE m == CHOOSE m \in DOMAIN L : L[m] = t
           a == SubSeq(L, 1, m - 1)
           b == SubSeq(L, m + 1, Len(L))
<1>1. m \in 1..Len(L) /\ L[m] = t
  BY DEF Range
<1>2. E!Without(L, t) = RemoveAt(L, m)
  BY SameRange DEF E!Without, E!RemoveAt, RemoveAt
<1> HIDE DEF m
<1>3. /\ a \in Seq(PidTask) /\ Len(a) = m - 1
      /\ \A k \in 1..Len(a) : a[k] = L[k]
  BY <1>1
<1>4. /\ b \in Seq(PidTask) /\ Len(b) = Len(L) - m
      /\ \A k \in 1..Len(b) : b[k] = L[m + k]
  BY <1>1
<1>5. E!Without(L, t) = a \o b
  BY <1>2 DEF RemoveAt
<1> HIDE DEF a, b
<1>6. PICK M : M = a \o b
  OBVIOUS
<1>7. Len(M) = Len(L) - 1 /\ Len(L) \in Nat
  BY <1>1, <1>3, <1>4, <1>6
<1>8. ASSUME NEW k \in 1..Len(M)
      PROVE  \E p \in 1..Len(L) : p = (IF k < m THEN k ELSE k + 1) /\ M[k] = L[p]
  <2>1. CASE k < m
    <3>1. k \in 1..Len(a) /\ k \in 1..Len(L)
      BY <1>1, <1>3, <1>7, <2>1
    <3>2. M[k] = a[k]
      BY <1>3, <1>4, <1>6, <3>1
    <3> QED BY <1>3, <2>1, <3>1, <3>2
  <2>2. CASE ~ (k < m)
    <3>1. k - (m - 1) \in 1..Len(b) /\ m + (k - (m - 1)) = k + 1 /\ k + 1 \in 1..Len(L)
      BY <1>1, <1>4, <1>7, <2>2
    <3>2. M[k] = b[k - (m - 1)]
      BY <1>1, <1>3, <1>4, <1>6, <1>7, <2>2
    <3> QED BY <1>4, <2>2, <3>1, <3>2
  <2> QED BY <2>1, <2>2
<1>9. ASSUME NEW j \in 1..Len(M), NEW k \in 1..Len(M), j < k PROVE r[M[j]] < r[M[k]]
  <2>1. PICK p \in 1..Len(L) : p = (IF j < m THEN j ELSE j + 1) /\ M[j] = L[p]
    BY <1>8
  <2>2. PICK u \in 1..Len(L) : u = (IF k < m THEN k ELSE k + 1) /\ M[k] = L[u]
    BY <1>8
  <2>3. p < u
    BY <1>1, <1>7, <1>9, <2>1, <2>2
  <2> QED BY <2>1, <2>2, <2>3 DEF Sorted
<1> QED BY <1>5, <1>6, <1>9 DEF Sorted

(* What the system may do to the list under the reader: nothing, take t    *)
(* off it, or put it on at either end. What was unhashed before stays so   *)
(* and keeps its pointer.                                                  *)
ListChange(L, st, Ch, G, M, su, Du, H) ==
  /\ \A x \in Ch : x \in Du
  /\ \A x \in G : x \in H /\ su[x] = st[x]
  /\ \A x \in Range(M) : x \notin H
  /\ \/ M = L
     \/ \E t \in Range(L) : M = E!Without(L, t) /\ t \in Du /\ t \in H /\ su[t] = E!After(L, t)
     \/ \E t \in PidTask : /\ t \notin Range(L) /\ t \notin G /\ t \in Du
                           /\ M = <<t>> \o L \/ M = Append(L, t)

(* With one entry more at either end. *)
LEMMA WithOne ==
  ASSUME NEW L \in Seq(PidTask), NEW t \in PidTask, NEW M, M = <<t>> \o L \/ M = Append(L, t)
  PROVE  M \in Seq(PidTask) /\ Range(M) = Range(L) \cup {t}
<1>1. <<t>> \o L \in Seq(PidTask) /\ Range(<<t>> \o L) = Range(L) \cup {t}
  BY PrependToList
<1>2. Append(L, t) \in Seq(PidTask) /\ Range(Append(L, t)) = Range(L) \cup {t}
  BY AppendToList
<1>3. CASE M = <<t>> \o L
  BY <1>1, <1>3
<1>4. CASE M = Append(L, t)
  BY <1>2, <1>4
<1> QED BY <1>3, <1>4

(* With one entry more at either end, ranked beyond all others. *)
LEMMA SortedWithOne ==
  ASSUME NEW L \in Seq(PidTask), NEW t \in PidTask, NEW r, NEW v,
         Sorted(L, r), \A x \in Range(L) : v[x] = r[x], \A x \in Range(L) : r[x] \in Int,
         v[t] \in Int
  PROVE  /\ (\A x \in Range(L) : v[t] < r[x]) => Sorted(<<t>> \o L, v)
         /\ (\A x \in Range(L) : r[x] < v[t]) => Sorted(Append(L, t), v)
<1>0. Len(L) \in Nat /\ \A k \in 1..Len(L) : L[k] \in Range(L) /\ v[L[k]] = r[L[k]]
  BY ListElements
<1>1. ASSUME \A x \in Range(L) : v[t] < r[x] PROVE Sorted(<<t>> \o L, v)
  <2>1. PICK M : M = <<t>> \o L
    OBVIOUS
  <2>2. Len(M) = Len(L) + 1 /\ M[1] = t /\ \A k \in 1..Len(L) : M[k + 1] = L[k]
    BY <2>1
  <2>3. ASSUME NEW k \in 1..Len(M), k # 1 PROVE k - 1 \in 1..Len(L) /\ M[k] = L[k - 1]
    <3>1. k - 1 \in 1..Len(L) /\ (k - 1) + 1 = k
      BY <1>0, <2>2, <2>3
    <3> QED BY <2>2, <3>1
  <2>4. ASSUME NEW j \in 1..Len(M), NEW k \in 1..Len(M), j < k PROVE v[M[j]] < v[M[k]]
    <3>1. k # 1 /\ k - 1 \in 1..Len(L) /\ M[k] = L[k - 1]
      BY <1>0, <2>2, <2>3, <2>4
    <3>2. CASE j = 1
      BY <1>0, <1>1, <2>2, <3>1, <3>2
    <3>3. CASE j # 1
      <4>1. j - 1 \in 1..Len(L) /\ M[j] = L[j - 1] /\ j - 1 < k - 1
        BY <1>0, <2>2, <2>3, <2>4, <3>3
      <4> QED BY <1>0, <3>1, <4>1 DEF Sorted
    <3> QED BY <3>2, <3>3
  <2> QED BY <2>1, <2>4 DEF Sorted
<1>2. ASSUME \A x \in Range(L) : r[x] < v[t] PROVE Sorted(Append(L, t), v)
  <2>1. PICK M : M = Append(L, t)
    OBVIOUS
  <2>2. Len(M) = Len(L) + 1 /\ M[Len(L) + 1] = t /\ \A k \in 1..Len(L) : M[k] = L[k]
    BY <2>1
  <2>3. ASSUME NEW j \in 1..Len(M), NEW k \in 1..Len(M), j < k PROVE v[M[j]] < v[M[k]]
    <3>1. j \in 1..Len(L) /\ M[j] = L[j]
      BY <1>0, <2>2, <2>3
    <3>2. CASE k = Len(L) + 1
      BY <1>0, <1>2, <2>2, <3>1, <3>2
    <3>3. CASE k # Len(L) + 1
      <4>1. k \in 1..Len(L) /\ M[k] = L[k]
        BY <1>0, <2>2, <3>3
      <4> QED BY <1>0, <2>3, <3>1, <4>1 DEF Sorted
    <3> QED BY <3>2, <3>3
  <2> QED BY <2>1, <2>3 DEF Sorted
<1> QED BY <1>1, <1>2

(* The ranks follow what happens to the list. *)
LEMMA RankedChange ==
  ASSUME NEW L, NEW st, NEW Ch, NEW G, NEW r, NEW lo, NEW hi, Ranked(L, st, Ch, G, r, lo, hi),
         NEW M, NEW su, NEW Du, NEW H, ListChange(L, st, Ch, G, M, su, Du, H)
  PROVE  \E v, lp, hp :
           /\ Ranked(M, su, Du, H, v, lp, hp)
           /\ \A x \in DOMAIN r : x \in DOMAIN v /\ v[x] = r[x]
           /\ \A x \in Range(M) : x \in Range(L) \/ x \in Du
<1>0. /\ L \in Seq(PidTask) /\ lo \in Int /\ hi \in Int /\ lo < hi /\ DOMAIN r \subseteq PidTask
      /\ \A x \in DOMAIN r : r[x] \in Int /\ lo < r[x] /\ r[x] < hi
      /\ \A x \in Range(L) : x \in DOMAIN r /\ x \notin G
      /\ Sorted(L, r)
      /\ \A t \in DOMAIN r : t \notin Range(L) =>
           /\ t \in Ch /\ t \in G
           /\ st[t] # "NULL" => st[t] \in DOMAIN r /\ r[t] < r[st[t]]
           /\ \A x \in Range(L) : x \notin Ch /\ r[t] <= r[x] => st[t] # "NULL" /\ r[st[t]] <= r[x]
  BY DEF Ranked
<1>1. /\ \A x \in Ch : x \in Du
      /\ \A x \in G : x \in H /\ su[x] = st[x]
      /\ \A x \in Range(M) : x \notin H
  BY DEF ListChange
<1>2. IsInjective(L)
  BY SortedInjective
<1>3. CASE M = L
  <2>1. Ranked(M, su, Du, H, r, lo, hi)
    BY <1>0, <1>1, <1>3 DEF Ranked
  <2> QED BY <1>3, <2>1
<1>4. ASSUME NEW t \in Range(L), M = E!Without(L, t), t \in Du, t \in H, su[t] = E!After(L, t)
      PROVE  Ranked(M, su, Du, H, r, lo, hi) /\ \A x \in Range(M) : x \in Range(L)
  <2>1. M \in Seq(PidTask) /\ Range(M) = Range(L) \ {t}
    BY <1>0, <1>2, <1>4, WithoutOne
  <2>2. Sorted(M, r)
    BY <1>0, <1>2, <1>4, WithoutSorted
  <2>3. NextIn(L, st, t) = su[t] /\ t \in DOMAIN r
    BY <1>0, <1>4 DEF NextIn
  <2>4. /\ su[t] # "NULL" => su[t] \in DOMAIN r /\ r[t] < r[su[t]]
        /\ \A x \in Range(L) : x \notin Ch /\ x # t /\ r[t] <= r[x]
                                 => su[t] # "NULL" /\ r[su[t]] <= r[x]
    BY <2>3, NextRank
  <2>5. ASSUME NEW u \in DOMAIN r, u \notin Range(M)
        PROVE  /\ u \in Du /\ u \in H
               /\ su[u] # "NULL" => su[u] \in DOMAIN r /\ r[u] < r[su[u]]
               /\ \A x \in Range(M) : x \notin Du /\ r[u] <= r[x]
                                        => su[u] # "NULL" /\ r[su[u]] <= r[x]
    <3>1. CASE u = t
      BY <1>1, <1>4, <2>1, <2>4, <3>1
    <3>2. CASE u # t
      <4>1. u \notin Range(L)
        BY <2>1, <2>5, <3>2
      <4> QED BY <1>0, <1>1, <2>1, <4>1
    <3> QED BY <3>1, <3>2
  <2> QED BY <1>0, <1>1, <2>1, <2>2, <2>5 DEF Ranked
<1>5. ASSUME NEW t \in PidTask, t \notin Range(L), t \notin G, t \in Du,
             M = <<t>> \o L \/ M = Append(L, t)
      PROVE  \E v, lp, hp :
               /\ Ranked(M, su, Du, H, v, lp, hp)
               /\ \A x \in DOMAIN r : x \in DOMAIN v /\ v[x] = r[x]
               /\ \A x \in Range(M) : x \in Range(L) \/ x \in Du
  <2>1. t \notin DOMAIN r
    BY <1>0, <1>5
  <2>2. M \in Seq(PidTask) /\ Range(M) = Range(L) \cup {t}
    BY <1>0, <1>5, WithOne
  <2>3. PICK w \in Int : w = IF M = <<t>> \o L THEN lo ELSE hi
    BY <1>0
  <2>4. PICK v : v = [x \in DOMAIN r \cup {t} |-> IF x = t THEN w ELSE r[x]]
    OBVIOUS
  <2>5. /\ DOMAIN v = DOMAIN r \cup {t} /\ v[t] = w
        /\ \A x \in DOMAIN r : x \in DOMAIN v /\ v[x] = r[x]
    BY <2>1, <2>4
  <2>6. Sorted(M, v)
    <3>1. \A x \in Range(L) : v[x] = r[x] /\ r[x] \in Int /\ lo < r[x] /\ r[x] < hi
      BY <1>0, <2>5
    <3>2. v[t] \in Int
      BY <2>3, <2>5
    <3>3. /\ (\A x \in Range(L) : v[t] < r[x]) => Sorted(<<t>> \o L, v)
          /\ (\A x \in Range(L) : r[x] < v[t]) => Sorted(Append(L, t), v)
      BY <1>0, <3>1, <3>2, SortedWithOne
    <3>4. CASE M = <<t>> \o L
      BY <2>3, <2>5, <3>1, <3>3, <3>4
    <3>5. CASE M # <<t>> \o L
      BY <1>5, <2>3, <2>5, <3>1, <3>3, <3>5
    <3> QED BY <3>4, <3>5
  <2>7. /\ lo - 1 \in Int /\ hi + 1 \in Int /\ lo - 1 < hi + 1
        /\ \A x \in DOMAIN v : v[x] \in Int /\ lo - 1 < v[x] /\ v[x] < hi + 1
    BY <1>0, <2>3, <2>5
  <2>8. ASSUME NEW u \in DOMAIN v, u \notin Range(M)
        PROVE  /\ u \in Du /\ u \in H
               /\ su[u] # "NULL" => su[u] \in DOMAIN v /\ v[u] < v[su[u]]
               /\ \A x \in Range(M) : x \notin Du /\ v[u] <= v[x]
                                        => su[u] # "NULL" /\ v[su[u]] <= v[x]
    <3>1. u \in DOMAIN r /\ u \notin Range(L) /\ u # t
      BY <2>2, <2>5, <2>8
    <3>2. /\ u \in Ch /\ u \in G /\ su[u] = st[u]
          /\ st[u] # "NULL" => st[u] \in DOMAIN r /\ r[u] < r[st[u]]
          /\ \A x \in Range(L) : x \notin Ch /\ r[u] <= r[x] => st[u] # "NULL" /\ r[st[u]] <= r[x]
      BY <1>0, <1>1, <3>1
    <3>3. \A x \in Range(M) : x \notin Du => x \in Range(L) /\ x \notin Ch /\ v[x] = r[x]
      BY <1>0, <1>1, <1>5, <2>2, <2>5
    <3> QED BY <1>1, <2>5, <3>1, <3>2, <3>3
  <2>9. DOMAIN v \subseteq PidTask /\ \A x \in Range(M) : x \in DOMAIN v /\ x \notin H
    BY <1>0, <1>1, <2>2, <2>5
  <2>10. Ranked(M, su, Du, H, v, lo - 1, hi + 1)
    BY <2>2, <2>6, <2>7, <2>8, <2>9 DEF Ranked
  <2> QED BY <1>5, <2>2, <2>5, <2>10
<1>6. CASE \E t \in Range(L) : M = E!Without(L, t) /\ t \in Du /\ t \in H /\ su[t] = E!After(L, t)
  BY <1>4, <1>6
<1>7. CASE \E t \in PidTask : /\ t \notin Range(L) /\ t \notin G /\ t \in Du
                              /\ M = <<t>> \o L \/ M = Append(L, t)
  BY <1>5, <1>7
<1> QED BY <1>3, <1>6, <1>7 DEF ListChange

(* The reader does not notice it. *)
LEMMA WalkChange ==
  ASSUME NEW L, NEW st, NEW Ch, NEW G, NEW c, NEW pr, ReaderAt(L, st, Ch, G, c, pr),
         NEW M, NEW su, NEW Du, NEW H, ListChange(L, st, Ch, G, M, su, Du, H)
  PROVE  ReaderAt(M, su, Du, H, c, pr)
<1>1. PICK r, lo, hi : Ranked(L, st, Ch, G, r, lo, hi) /\ CursorAt(L, Ch, r, c, pr)
  BY DEF ReaderAt
<1>2. PICK v, lp, hp :
        /\ Ranked(M, su, Du, H, v, lp, hp)
        /\ \A x \in DOMAIN r : x \in DOMAIN v /\ v[x] = r[x]
        /\ \A x \in Range(M) : x \in Range(L) \/ x \in Du
  BY <1>1, RankedChange
<1>3. \A x \in Range(L) : x \in DOMAIN r
  BY <1>1 DEF Ranked
<1>4. \A x \in Ch : x \in Du
  BY DEF ListChange
<1>5. CursorAt(M, Du, v, c, pr)
  BY <1>1, <1>2, <1>3, <1>4 DEF CursorAt
<1> QED BY <1>2, <1>5 DEF ReaderAt

(* Nor does it matter afterwards. *)
LEMMA SettledChange ==
  ASSUME NEW L \in Seq(PidTask), IsInjective(L), NEW st, NEW Ch, NEW G, NEW pr, Settled(L, Ch, pr),
         NEW M, NEW su, NEW Du, NEW H, ListChange(L, st, Ch, G, M, su, Du, H)
  PROVE  Settled(M, Du, pr)
<1>1. \A x \in PidTask : x \notin Du => x \notin Ch /\ (x \in Range(M) <=> x \in Range(L))
  <2>1. ASSUME NEW t \in Range(L), M = E!Without(L, t) PROVE Range(M) = Range(L) \ {t}
    BY <2>1, WithoutOne
  <2>2. ASSUME NEW t \in PidTask, M = <<t>> \o L \/ M = Append(L, t)
        PROVE  Range(M) = Range(L) \cup {t}
    BY <2>2, WithOne
  <2> QED BY <2>1, <2>2 DEF ListChange
<1> QED BY <1>1 DEF Settled

(* The lists of a type are apart, and so are those of threads; on the PID  *)
(* and TGID lists of a number is nobody but its task, and from the TGID    *)
(* list nobody was taken off who had a successor.                          *)
EpApart ==
  /\ \A ty \in PidTypes, p, q \in PidTask, x \in PidTask :
       x \in Range(tasks[ty][p]) /\ x \in Range(tasks[ty][q]) => p = q
  /\ \A l, m \in Leader, x \in PidTask : x \in Range(threads[l]) /\ x \in Range(threads[m]) => l = m
  /\ \A p, x \in PidTask :
       x \in Range(tasks["PID"][p]) \/ x \in Range(tasks["TGID"][p]) => x = p
  /\ \A l \in Leader : state[l] = "alive" => l \in Range(tasks["TGID"][l])
  /\ \A t \in PidTask : stale["TGID"][t] = "NULL"

(* What the reader goes through for a type, the pointers that removed      *)
(* entries keep for it, and who came or went. For TGID it is the threads   *)
(* of the process.                                                         *)
Gone == {x \in PidTask : state[x] \in {"unhashed", "freed"}}
Chg(ty) == {x \in PidTask : <<ty, x>> \in changed}
Lst(ty) == IF ty = "TGID" THEN IF pid \in Leader THEN threads[pid] ELSE <<>> ELSE tasks[ty][pid]
St(ty) == IF ty = "TGID" THEN stale["thread"] ELSE stale[ty]

(* A step of the system that a reader does not notice, other than for the  *)
(* types on which somebody changed lists.                                  *)
Unnoticed ==
  /\ drifted \subseteq drifted'
  /\ \A ty \in PidTypes \ drifted' :
       ListChange(Lst(ty), St(ty), Chg(ty), Gone, Lst(ty)', St(ty)', Chg(ty)', Gone')

(* Alone on a list, a task has no successor. *)
LEMMA AfterAlone ==
  ASSUME NEW L \in Seq(PidTask), IsInjective(L), NEW t \in Range(L), \A x \in Range(L) : x = t
  PROVE  E!After(L, t) = "NULL"
<1>1. PICK k \in 1..Len(L) : L[k] = t
  BY ListElements
<1>2. E!After(L, t) = IF k = Len(L) THEN "NULL" ELSE L[k + 1]
  BY <1>1, AfterPlace
<1>3. ASSUME k # Len(L) PROVE FALSE
  <2>1. k + 1 \in 1..Len(L) /\ k + 1 # k
    BY <1>1, <1>3
  <2>2. L[k + 1] = L[k]
    BY <1>1, <2>1, ListElements
  <2> QED BY <1>1, <2>1, <2>2 DEF IsInjective
<1> QED BY <1>2, <1>3

(* A list with nobody on it is empty. *)
LEMMA NobodyOnList == ASSUME NEW L \in Seq(PidTask), Range(L) = {} PROVE L = <<>>
<1>1. \A k \in 1..Len(L) : FALSE
  BY ListElements
<1>2. Len(L) = 0
  BY <1>1
<1> QED BY <1>2

(* The reader's lists are lists, of tasks alive. *)
LEMMA ReaderList ==
  ASSUME EpInv, NEW ty \in PidTypes
  PROVE  /\ Lst(ty) \in Seq(PidTask) /\ IsInjective(Lst(ty))
         /\ \A x \in Range(Lst(ty)) : x \in PidTask /\ state[x] = "alive" /\ x \notin Gone
<1>1. ASSUME NEW s \in Seq(PidTask), AllAlive(s)
      PROVE  \A x \in Range(s) : x \in PidTask /\ state[x] = "alive" /\ x \notin Gone
  BY <1>1, ListElements DEF AllAlive, Gone
<1>2. CASE ty # "TGID"
  <2>1. Lst(ty) = tasks[ty][pid]
    BY <1>2 DEF Lst
  <2>2. tasks[ty][pid] \in Seq(PidTask) /\ IsInjective(tasks[ty][pid]) /\ AllAlive(tasks[ty][pid])
    BY PidAssumption DEF EpInv, EpLists
  <2> QED BY <1>1, <2>1, <2>2
<1>3. CASE ty = "TGID" /\ pid \in Leader
  <2>1. Lst(ty) = threads[pid]
    BY <1>3 DEF Lst
  <2>2. threads[pid] \in Seq(PidTask) /\ IsInjective(threads[pid]) /\ AllAlive(threads[pid])
    BY <1>3 DEF EpInv, EpLists
  <2> QED BY <1>1, <2>1, <2>2
<1>4. CASE ty = "TGID" /\ pid \notin Leader
  <2>1. Lst(ty) = <<>>
    BY <1>4 DEF Lst
  <2>2. <<>> \in Seq(PidTask) /\ IsInjective(<<>>) /\ Range(<<>>) = {}
    BY DEF IsInjective, Range
  <2> QED BY <2>1, <2>2
<1> QED BY <1>2, <1>3, <1>4

(* So they are at the beginning. *)
LEMMA EpApartInit == E!Init => EpApart
<1> SUFFICES ASSUME E!Init PROVE EpApart
  OBVIOUS
<1>1. PICK B \in SUBSET Leader, D \in SUBSET (PidTask \ Leader), s \in Leader :
       /\ {s, pid} \cap Leader \subseteq B
       /\ state = [t \in PidTask |-> IF t \in B \cup D THEN "alive" ELSE "unborn"]
       /\ tasks = [ty \in E!Types |-> [p \in PidTask |->
            CASE ty = "PID"  -> IF p \in B \cup D THEN <<p>> ELSE <<>>
              [] ty = "TGID" -> IF p \in B THEN <<p>> ELSE <<>>
              [] OTHER       -> IF p = s THEN E!SetToSeq(B) ELSE <<>>]]
       /\ threads = [l \in Leader |->
            IF l \notin B THEN <<>>
            ELSE IF l = s THEN <<l>> \o E!SetToSeq(D) ELSE <<l>>]
  BY DEF E!Init
<1> DEFINE d == SetToSeq(D)
<1>2. IsFiniteSet(D) /\ D \subseteq PidTask /\ Leader \subseteq PidTask /\ B \cap D = {} /\ s \in B
  BY <1>1, PidAssumption, FS_Subset
<1>3. d \in Seq(D) /\ Range(d) = D /\ E!SetToSeq(D) = d
  BY <1>2, SetToSeqIsEnumeration, SameSetToSeq
<1> HIDE DEF d
<1>4. d \in Seq(PidTask) /\ Range(<<s>> \o d) = D \cup {s}
  <2>1. d \in Seq(PidTask) /\ s \in PidTask
    BY <1>2, <1>3
  <2> QED BY <1>3, <2>1, PrependToList
<1>5. \A t : Range(<<t>>) = {t}
  BY DEF Range
<1>6. Range(<<>>) = {}
  BY DEF Range
<1>7. \A p \in PidTask :
        /\ tasks["PID"][p] = IF p \in B \cup D THEN <<p>> ELSE <<>>
        /\ tasks["TGID"][p] = IF p \in B THEN <<p>> ELSE <<>>
        /\ p # s => tasks["PGID"][p] = <<>> /\ tasks["SID"][p] = <<>>
  BY <1>1, SameTypes DEF PidTypes
<1>8. \A l \in Leader :
        threads[l] = IF l \notin B THEN <<>> ELSE IF l = s THEN <<s>> \o d ELSE <<l>>
  BY <1>1, <1>3
<1>9. \A p, x \in PidTask :
        x \in Range(tasks["PID"][p]) \/ x \in Range(tasks["TGID"][p]) => x = p
  BY <1>5, <1>6, <1>7
<1>10. ASSUME NEW ty \in PidTypes, NEW p \in PidTask, NEW q \in PidTask, NEW x \in PidTask,
              x \in Range(tasks[ty][p]), x \in Range(tasks[ty][q])
       PROVE  p = q
  <2>1. CASE ty \in {"PID", "TGID"}
    BY <1>9, <1>10, <2>1
  <2>2. CASE ty \in {"PGID", "SID"}
    BY <1>6, <1>7, <1>10, <2>2
  <2> QED BY <2>1, <2>2 DEF PidTypes
<1>11. ASSUME NEW l \in Leader, NEW x \in Range(threads[l])
       PROVE  l \in B /\ (x = l \/ (l = s /\ x \in D))
  <2>1. l \in B
    BY <1>6, <1>8
  <2>2. CASE l = s
    BY <1>4, <1>8, <2>1, <2>2
  <2>3. CASE l # s
    <3>1. threads[l] = <<l>>
      BY <1>8, <2>1, <2>3
    <3> QED BY <1>5, <2>1, <3>1
  <2> QED BY <2>1, <2>2, <2>3
<1>12. \A l, m \in Leader, x \in PidTask :
         x \in Range(threads[l]) /\ x \in Range(threads[m]) => l = m
  BY <1>2, <1>11
<1>13. \A l \in Leader : state[l] = "alive" => l \in Range(tasks["TGID"][l])
  <2>1. ASSUME NEW l \in Leader, state[l] = "alive" PROVE l \in Range(tasks["TGID"][l])
    <3>1. l \in B /\ l \in PidTask
      BY <1>1, <1>2, <2>1
    <3>2. tasks["TGID"][l] = <<l>>
      BY <1>7, <3>1
    <3> QED BY <1>5, <3>2
  <2> QED BY <2>1
<1>14. \A t \in PidTask : stale["TGID"][t] = "NULL"
  BY SameTypes DEF E!Init, E!NULL, PidTypes
<1> QED BY <1>9, <1>10, <1>12, <1>13, <1>14 DEF EpApart

(* Nobody on the reader's lists is unhashed after a step either. *)
LEMMA ReaderListNext ==
  ASSUME EpInv', NEW ty \in PidTypes
  PROVE  \A x \in Range(Lst(ty)') : x \notin Gone'
<1>1. CASE ty # "TGID"
  <2>1. Lst(ty)' = tasks'[ty][pid]
    BY <1>1 DEF Lst
  <2>2. \A x \in Range(tasks'[ty][pid]) : state'[x] = "alive"
    BY PidAssumption DEF EpInv, EpLists, AllAlive
  <2> QED BY <2>1, <2>2 DEF Gone
<1>2. CASE ty = "TGID" /\ pid \in Leader
  <2>1. Lst(ty)' = threads'[pid]
    BY <1>2 DEF Lst
  <2>2. \A x \in Range(threads'[pid]) : state'[x] = "alive"
    BY <1>2 DEF EpInv, EpLists, AllAlive
  <2> QED BY <2>1, <2>2 DEF Gone
<1>3. CASE ty = "TGID" /\ pid \notin Leader
  <2>1. Lst(ty)' = <<>> /\ Range(<<>>) = {}
    BY <1>3 DEF Lst, Range
  <2> QED BY <2>1
<1> QED BY <1>1, <1>2, <1>3

(* What makes a step unnoticed. *)
LEMMA ListChanges ==
  ASSUME EpInv', \A x \in Gone : x \in Gone',
         \A ty \in StaleTypes, x \in Gone : stale'[ty][x] = stale[ty][x],
         changed \subseteq changed', drifted \subseteq drifted',
         \A ty \in PidTypes \ drifted' :
           \/ Lst(ty)' = Lst(ty)
           \/ \E t \in PidTask : /\ t \in Range(Lst(ty)) /\ Lst(ty)' = E!Without(Lst(ty), t)
                                 /\ <<ty, t>> \in changed' /\ t \in Gone'
                                 /\ St(ty)'[t] = E!After(Lst(ty), t)
           \/ \E t \in PidTask : /\ t \notin Range(Lst(ty)) /\ t \notin Gone
                                 /\ <<ty, t>> \in changed'
                                 /\ Lst(ty)' = <<t>> \o Lst(ty) \/ Lst(ty)' = Append(Lst(ty), t)
  PROVE  Unnoticed
<1> SUFFICES ASSUME NEW ty \in PidTypes \ drifted'
             PROVE  ListChange(Lst(ty), St(ty), Chg(ty), Gone, Lst(ty)', St(ty)', Chg(ty)', Gone')
  BY DEF Unnoticed
<1>1. \A x \in Range(Lst(ty)') : x \notin Gone'
  BY ReaderListNext
<1>2. \A x \in Gone : St(ty)'[x] = St(ty)[x]
  <2>1. "thread" \in StaleTypes /\ ty \in StaleTypes
    BY DEF StaleTypes
  <2> QED BY <2>1 DEF St
<1>3. \A x \in PidTask : x \in Chg(ty)' <=> <<ty, x>> \in changed'
  BY DEF Chg
<1>4. \A x \in Chg(ty) : x \in Chg(ty)'
  BY DEF Chg
<1> HIDE DEF Chg
<1> QED BY <1>1, <1>2, <1>3, <1>4 DEF ListChange

(* fork(): the new process is on no list before, and then in front. *)
LEMMA ForkUnnoticed ==
  ASSUME EpInv, EpApart, EpInv', NEW p \in PidTask, NEW c \in PidTask, E!fork(p, c)
  PROVE  EpApart' /\ (pc \notin {"find", "lock"} => Unnoticed)
<1>1. /\ c \in Leader /\ state[c] = "unborn" /\ state' = [state EXCEPT ![c] = "alive"]
      /\ stale' = stale /\ threads' = [threads EXCEPT ![c] = <<c>>]
      /\ pc \notin {"find", "lock"} =>
           changed' = changed \cup (PidTypes \X {c}) /\ drifted' = drifted
  BY SameTypes DEF E!fork, E!Note
<1> DEFINE of(ty) == IF ty \in {"PID", "TGID"} THEN c ELSE E!In(ty, p)
<1>2. tasks' = [ty \in PidTypes |-> [tasks[ty] EXCEPT ![of(ty)] = <<c>> \o @]]
  BY SameTypes DEF E!fork
<1>3. of("PID") = c /\ of("TGID") = c
  OBVIOUS
<1> HIDE DEF of
<1>4. state'[c] = "alive" /\ \A x \in PidTask \ {c} : state'[x] = state[x]
  BY <1>1 DEF EpInv, EpLists
<1>5. /\ \A ty \in PidTypes, q \in PidTask : c \notin Range(tasks[ty][q])
      /\ \A l \in Leader : c \notin Range(threads[l])
  BY <1>1, OnNoList
<1>6. ASSUME NEW ty \in PidTypes, NEW q \in PidTask
      PROVE  /\ tasks[ty][q] \in Seq(PidTask)
             /\ q = of(ty) => tasks'[ty][q] = <<c>> \o tasks[ty][q]
             /\ q # of(ty) => tasks'[ty][q] = tasks[ty][q]
  <2>1. tasks[ty] \in [PidTask -> Seq(PidTask)]
    BY DEF EpInv, EpLists
  <2> QED BY <1>2, <2>1
<1>7. ASSUME NEW ty \in PidTypes, NEW q \in PidTask, NEW x \in PidTask
       PROVE  x \in Range(tasks'[ty][q]) <=> x \in Range(tasks[ty][q]) \/ (x = c /\ q = of(ty))
  <2>1. tasks[ty][q] \in Seq(PidTask)
    BY <1>6
  <2>2. Range(<<c>> \o tasks[ty][q]) = Range(tasks[ty][q]) \cup {c}
    BY <2>1, PrependToList
  <2>3. CASE q = of(ty)
    <3>1. tasks'[ty][q] = <<c>> \o tasks[ty][q]
      BY <1>6, <2>3
    <3> QED BY <2>2, <2>3, <3>1
  <2>4. CASE q # of(ty)
    <3>1. tasks'[ty][q] = tasks[ty][q]
      BY <1>6, <2>4
    <3> QED BY <2>4, <3>1
  <2> QED BY <2>3, <2>4
<1>8. ASSUME NEW l \in Leader
      PROVE  /\ threads'[l] = IF l = c THEN <<c>> ELSE threads[l]
             /\ l = c => threads[l] = <<>>
             /\ \A x : x \in Range(threads'[l]) <=> x \in Range(threads[l]) \/ (x = c /\ l = c)
  <2>1. threads \in [Leader -> Seq(PidTask)]
    BY DEF EpInv, EpLists
  <2>2. l = c => threads[l] = <<>>
    BY <1>1 DEF EpInv, EpThreads
  <2>3. Range(<<>>) = {} /\ Range(<<c>>) = {c}
    BY DEF Range
  <2>4. threads'[l] = IF l = c THEN <<c>> ELSE threads[l]
    BY <1>1, <2>1
  <2>5. CASE l = c
    <3>1. threads'[l] = <<c>> /\ threads[l] = <<>>
      BY <2>2, <2>4, <2>5
    <3> QED BY <2>3, <2>4, <2>5, <3>1
  <2>6. CASE l # c
    <3>1. threads'[l] = threads[l]
      BY <2>4, <2>6
    <3> QED BY <2>4, <2>6, <3>1
  <2> QED BY <2>5, <2>6
<1>9. EpApart'
  <2>1. ASSUME NEW ty \in PidTypes, NEW a \in PidTask, NEW b \in PidTask, NEW x \in PidTask,
               x \in Range(tasks'[ty][a]), x \in Range(tasks'[ty][b])
        PROVE  a = b
    <3>1. CASE x = c
      BY <1>5, <1>7, <2>1, <3>1
    <3>2. CASE x # c
      <4>1. x \in Range(tasks[ty][a]) /\ x \in Range(tasks[ty][b])
        BY <1>7, <2>1, <3>2
      <4> QED BY <4>1 DEF EpApart
    <3> QED BY <3>1, <3>2
  <2>2. ASSUME NEW l \in Leader, NEW m \in Leader, NEW x \in PidTask,
               x \in Range(threads'[l]), x \in Range(threads'[m])
        PROVE  l = m
    <3>1. CASE x = c
      BY <1>5, <1>8, <2>2, <3>1
    <3>2. CASE x # c
      BY <1>8, <2>2, <3>2 DEF EpApart
    <3> QED BY <3>1, <3>2
  <2>3. \A a, x \in PidTask :
          x \in Range(tasks'["PID"][a]) \/ x \in Range(tasks'["TGID"][a]) => x = a
    <3>1. "PID" \in PidTypes /\ "TGID" \in PidTypes
      BY DEF PidTypes
    <3>2. \A a, x \in PidTask :
            x \in Range(tasks'["PID"][a]) => x \in Range(tasks["PID"][a]) \/ x = a
      BY <1>3, <1>7, <3>1
    <3>3. \A a, x \in PidTask :
            x \in Range(tasks'["TGID"][a]) => x \in Range(tasks["TGID"][a]) \/ x = a
      BY <1>3, <1>7, <3>1
    <3> QED BY <3>2, <3>3 DEF EpApart
  <2>4. ASSUME NEW l \in Leader, state'[l] = "alive" PROVE l \in Range(tasks'["TGID"][l])
    <3>1. l \in PidTask /\ "TGID" \in PidTypes
      BY PidAssumption DEF PidTypes
    <3>2. CASE l = c
      BY <1>3, <1>7, <3>1, <3>2
    <3>3. CASE l # c
      BY <1>4, <1>7, <2>4, <3>1, <3>3 DEF EpApart
    <3> QED BY <3>2, <3>3
  <2>5. \A t \in PidTask : stale'["TGID"][t] = "NULL"
    BY <1>1 DEF EpApart
  <2> QED BY <2>1, <2>2, <2>3, <2>4, <2>5 DEF EpApart
<1>10. ASSUME pc \notin {"find", "lock"} PROVE Unnoticed
  <2>1. c \notin Gone /\ \A x \in Gone : x \in Gone'
    BY <1>1, <1>4 DEF Gone
  <2>2. /\ changed \subseteq changed' /\ drifted \subseteq drifted'
        /\ \A ty \in PidTypes : <<ty, c>> \in changed'
    BY <1>1, <1>10
  <2>3. ASSUME NEW ty \in PidTypes
        PROVE  \/ Lst(ty)' = Lst(ty)
               \/ c \notin Range(Lst(ty)) /\ Lst(ty)' = <<c>> \o Lst(ty)
    <3>1. CASE ty # "TGID"
      <4>1. Lst(ty)' = tasks'[ty][pid] /\ Lst(ty) = tasks[ty][pid] /\ pid \in PidTask
        BY <3>1, PidAssumption DEF Lst
      <4>2. c \notin Range(tasks[ty][pid])
        BY <1>5, <4>1
      <4>3. CASE pid = of(ty)
        <5>1. tasks'[ty][pid] = <<c>> \o tasks[ty][pid]
          BY <1>6, <4>1, <4>3
        <5> QED BY <4>1, <4>2, <5>1
      <4>4. CASE pid # of(ty)
        <5>1. tasks'[ty][pid] = tasks[ty][pid]
          BY <1>6, <4>1, <4>4
        <5> QED BY <4>1, <5>1
      <4> QED BY <4>3, <4>4
    <3>2. CASE ty = "TGID" /\ pid \in Leader
      <4>1. Lst(ty)' = threads'[pid] /\ Lst(ty) = threads[pid]
        BY <3>2 DEF Lst
      <4>2. CASE pid = c
        <5>1. threads'[pid] = <<c>> /\ threads[pid] = <<>>
          BY <1>8, <3>2, <4>2
        <5>2. <<c>> = <<c>> \o <<>> /\ Range(<<>>) = {}
          BY DEF Range
        <5> QED BY <4>1, <5>1, <5>2
      <4>3. CASE pid # c
        BY <1>8, <3>2, <4>1, <4>3
      <4> QED BY <4>2, <4>3
    <3>3. CASE ty = "TGID" /\ pid \notin Leader
      BY <3>3 DEF Lst
    <3> QED BY <3>1, <3>2, <3>3
  <2> QED BY <1>1, <2>1, <2>2, <2>3, ListChanges
<1> QED BY <1>9, <1>10

(* clone(): the new thread is on no list before, and then the last of its  *)
(* process.                                                                *)
LEMMA CloneUnnoticed ==
  ASSUME EpInv, EpApart, EpInv', NEW h \in PidTask, NEW t \in PidTask, E!clone(h, t)
  PROVE  EpApart' /\ (pc \notin {"find", "lock"} => Unnoticed)
<1>1. /\ h \in Leader /\ t \notin Leader /\ state[t] = "unborn"
      /\ state' = [state EXCEPT ![t] = "alive"] /\ stale' = stale
      /\ tasks' = [tasks EXCEPT !["PID"][t] = <<t>>]
      /\ threads' = [threads EXCEPT ![h] = Append(@, t)]
      /\ pc \notin {"find", "lock"} =>
           changed' = changed \cup ({"PID", "TGID"} \X {t}) /\ drifted' = drifted
  BY DEF E!clone, E!Note
<1>2. state'[t] = "alive" /\ \A x \in PidTask \ {t} : state'[x] = state[x]
  BY <1>1 DEF EpInv, EpLists
<1>3. /\ \A ty \in PidTypes, q \in PidTask : t \notin Range(tasks[ty][q])
      /\ \A l \in Leader : t \notin Range(threads[l])
  BY <1>1, OnNoList
<1>4. "PID" \in PidTypes /\ "TGID" \in PidTypes
  BY DEF PidTypes
<1>5. Range(<<t>>) = {t} /\ Range(<<>>) = {} /\ <<t>> = <<t>> \o <<>>
  BY DEF Range
<1>6. tasks["PID"][t] = <<>>
  <2>1. tasks["PID"][t] \in Seq(PidTask)
    BY <1>4 DEF EpInv, EpLists
  <2>2. Range(tasks["PID"][t]) \subseteq PidTask
    BY <2>1, ListElements
  <2>3. Range(tasks["PID"][t]) = {}
    BY <1>3, <1>4, <2>2 DEF EpApart
  <2> QED BY <2>1, <2>3, NobodyOnList
<1>7. ASSUME NEW ty \in PidTypes, NEW q \in PidTask
      PROVE  /\ ty = "PID" /\ q = t => tasks'[ty][q] = <<t>> /\ tasks[ty][q] = <<>>
             /\ ty # "PID" \/ q # t => tasks'[ty][q] = tasks[ty][q]
  <2>1. tasks \in [PidTypes -> [PidTask -> Seq(PidTask)]]
    BY DEF EpInv, EpLists
  <2> QED BY <1>1, <1>4, <1>6, <2>1
<1>8. ASSUME NEW ty \in PidTypes, NEW q \in PidTask, NEW x \in PidTask, x \in Range(tasks'[ty][q])
      PROVE  x \in Range(tasks[ty][q]) \/ (x = t /\ q = t /\ ty = "PID")
  <2>1. CASE ty = "PID" /\ q = t
    <3>1. tasks'[ty][q] = <<t>>
      BY <1>7, <2>1
    <3> QED BY <1>5, <1>8, <2>1, <3>1
  <2>2. CASE ~ (ty = "PID" /\ q = t)
    <3>1. tasks'[ty][q] = tasks[ty][q]
      BY <1>7, <2>2
    <3> QED BY <1>8, <3>1
  <2> QED BY <2>1, <2>2
<1>9. ASSUME NEW l \in Leader
      PROVE  /\ threads[l] \in Seq(PidTask)
             /\ l = h => threads'[l] = Append(threads[l], t)
             /\ l # h => threads'[l] = threads[l]
  <2>1. threads \in [Leader -> Seq(PidTask)]
    BY DEF EpInv, EpLists
  <2> QED BY <1>1, <2>1
<1>10. ASSUME NEW l \in Leader, NEW x \in PidTask, x \in Range(threads'[l])
       PROVE  x \in Range(threads[l]) \/ (x = t /\ l = h)
  <2>1. threads[l] \in Seq(PidTask)
    BY <1>9
  <2>2. CASE l = h
    <3>1. threads'[l] = Append(threads[l], t)
      BY <1>9, <2>2
    <3>2. Range(Append(threads[l], t)) = Range(threads[l]) \cup {t}
      BY <2>1, AppendToList
    <3> QED BY <1>10, <2>2, <3>1, <3>2
  <2>3. CASE l # h
    <3>1. threads'[l] = threads[l]
      BY <1>9, <2>3
    <3> QED BY <1>10, <3>1
  <2> QED BY <2>2, <2>3
<1>11. EpApart'
  <2>1. ASSUME NEW ty \in PidTypes, NEW a \in PidTask, NEW b \in PidTask, NEW x \in PidTask,
               x \in Range(tasks'[ty][a]), x \in Range(tasks'[ty][b])
        PROVE  a = b
    <3>1. CASE x = t
      BY <1>3, <1>8, <2>1, <3>1
    <3>2. CASE x # t
      <4>1. x \in Range(tasks[ty][a]) /\ x \in Range(tasks[ty][b])
        BY <1>8, <2>1, <3>2
      <4> QED BY <4>1 DEF EpApart
    <3> QED BY <3>1, <3>2
  <2>2. ASSUME NEW l \in Leader, NEW m \in Leader, NEW x \in PidTask,
               x \in Range(threads'[l]), x \in Range(threads'[m])
        PROVE  l = m
    <3>1. CASE x = t
      BY <1>3, <1>10, <2>2, <3>1
    <3>2. CASE x # t
      BY <1>10, <2>2, <3>2 DEF EpApart
    <3> QED BY <3>1, <3>2
  <2>3. \A a, x \in PidTask :
          x \in Range(tasks'["PID"][a]) \/ x \in Range(tasks'["TGID"][a]) => x = a
    <3>1. \A a, x \in PidTask :
            x \in Range(tasks'["PID"][a]) => x \in Range(tasks["PID"][a]) \/ x = a
      BY <1>4, <1>8
    <3>2. \A a, x \in PidTask : x \in Range(tasks'["TGID"][a]) => x \in Range(tasks["TGID"][a])
      BY <1>4, <1>8
    <3> QED BY <3>1, <3>2 DEF EpApart
  <2>4. ASSUME NEW l \in Leader, state'[l] = "alive" PROVE l \in Range(tasks'["TGID"][l])
    <3>1. l \in PidTask /\ l # t
      BY <1>1, PidAssumption
    <3>2. tasks'["TGID"][l] = tasks["TGID"][l] /\ state[l] = "alive"
      BY <1>2, <1>4, <1>7, <2>4, <3>1
    <3> QED BY <3>2 DEF EpApart
  <2>5. \A u \in PidTask : stale'["TGID"][u] = "NULL"
    BY <1>1 DEF EpApart
  <2> QED BY <2>1, <2>2, <2>3, <2>4, <2>5 DEF EpApart
<1>12. ASSUME pc \notin {"find", "lock"} PROVE Unnoticed
  <2>1. t \notin Gone /\ \A x \in Gone : x \in Gone'
    BY <1>1, <1>2 DEF Gone
  <2>2. /\ changed \subseteq changed' /\ drifted \subseteq drifted'
        /\ <<"PID", t>> \in changed' /\ <<"TGID", t>> \in changed'
    BY <1>1, <1>12
  <2>3. ASSUME NEW ty \in PidTypes
        PROVE  \/ Lst(ty)' = Lst(ty)
               \/ /\ t \notin Range(Lst(ty)) /\ <<ty, t>> \in changed'
                  /\ Lst(ty)' = <<t>> \o Lst(ty) \/ Lst(ty)' = Append(Lst(ty), t)
    <3>1. CASE ty # "TGID"
      <4>1. Lst(ty)' = tasks'[ty][pid] /\ Lst(ty) = tasks[ty][pid] /\ pid \in PidTask
        BY <3>1, PidAssumption DEF Lst
      <4>2. CASE ty = "PID" /\ pid = t
        <5>1. tasks'[ty][pid] = <<t>> /\ tasks[ty][pid] = <<>>
          BY <1>7, <4>1, <4>2
        <5> QED BY <1>5, <2>2, <4>1, <4>2, <5>1
      <4>3. CASE ~ (ty = "PID" /\ pid = t)
        BY <1>7, <4>1, <4>3
      <4> QED BY <4>2, <4>3
    <3>2. CASE ty = "TGID" /\ pid \in Leader
      <4>1. Lst(ty)' = threads'[pid] /\ Lst(ty) = threads[pid]
        BY <3>2 DEF Lst
      <4>2. CASE pid = h
        <5>1. threads'[pid] = Append(threads[pid], t)
          BY <1>9, <3>2, <4>2
        <5> QED BY <1>3, <2>2, <3>2, <4>1, <5>1
      <4>3. CASE pid # h
        BY <1>9, <3>2, <4>1, <4>3
      <4> QED BY <4>2, <4>3
    <3>3. CASE ty = "TGID" /\ pid \notin Leader
      BY <3>3 DEF Lst
    <3> QED BY <3>1, <3>2, <3>3
  <2> QED BY <1>1, <2>1, <2>2, <2>3, ListChanges
<1> QED BY <1>11, <1>12

(* An exit: who is unhashed keeps its pointers.                            *)
LEMMA UnhashUnnoticed ==
  ASSUME EpInv, EpApart, EpInv', NEW t \in PidTask, E!unhash_process(t)
  PROVE  EpApart' /\ (pc \notin {"find", "lock"} => Unnoticed)
<1> DEFINE on(ty) == {p \in PidTask : t \in Range(tasks[ty][p])}
           nxt(ty) == IF ty = "thread" THEN E!After(threads[E!LeaderOf(t)], t)
                      ELSE IF on(ty) = {} THEN stale[ty][t]
                      ELSE E!After(tasks[ty][CHOOSE p \in on(ty) : TRUE], t)
<1>1. /\ state[t] = "alive" /\ state' = [state EXCEPT ![t] = "unhashed"]
      /\ threads' = [l \in Leader |-> E!Without(threads[l], t)]
      /\ pc \notin {"find", "lock"} =>
           changed' = changed \cup (PidTypes \X {t}) /\ drifted' = drifted
  BY SameTypes DEF E!unhash_process, E!Note
<1>2. tasks' = [ty \in PidTypes |-> [p \in PidTask |-> E!Without(tasks[ty][p], t)]]
  BY SameTypes DEF E!unhash_process
<1>3. stale' = [ty \in StaleTypes |-> [stale[ty] EXCEPT ![t] = nxt(ty)]]
  BY SameTypes DEF E!unhash_process, StaleTypes, E!Range, Range
<1>4. ASSUME NEW ty \in PidTypes, NEW p \in PidTask, t \in Range(tasks[ty][p])
      PROVE  nxt(ty) = E!After(tasks[ty][p], t)
  <2>1. on(ty) = {p}
    BY <1>4 DEF EpApart
  <2>2. (CHOOSE q \in on(ty) : TRUE) = p
    BY <2>1
  <2>3. ty # "thread"
    BY DEF PidTypes
  <2> QED BY <2>1, <2>2, <2>3
<1>5. ASSUME NEW ty \in PidTypes, \A p \in PidTask : t \notin Range(tasks[ty][p])
      PROVE  nxt(ty) = stale[ty][t]
  <2>1. on(ty) = {} /\ ty # "thread"
    BY <1>5 DEF PidTypes
  <2> QED BY <2>1
<1>6. ASSUME NEW l \in Leader, t \in Range(threads[l])
      PROVE  nxt("thread") = E!After(threads[l], t)
  <2>1. E!LeaderOf(t) \in Leader /\ t \in Range(threads[E!LeaderOf(t)])
    BY <1>1, ThreadList
  <2>2. E!LeaderOf(t) = l
    BY <1>6, <2>1 DEF EpApart
  <2> QED BY <2>2
<1> HIDE DEF on, nxt
<1>7. state'[t] = "unhashed" /\ \A x \in PidTask \ {t} : state'[x] = state[x]
  BY <1>1 DEF EpInv, EpLists
<1>8. \A ty \in StaleTypes, x \in PidTask :
        stale'[ty][x] = IF x = t THEN nxt(ty) ELSE stale[ty][x]
  BY <1>3 DEF EpInv, EpStale
<1>9. ASSUME NEW ty \in PidTypes, NEW q \in PidTask
      PROVE  /\ tasks[ty][q] \in Seq(PidTask) /\ IsInjective(tasks[ty][q])
             /\ tasks'[ty][q] = E!Without(tasks[ty][q], t)
             /\ Range(tasks'[ty][q]) = Range(tasks[ty][q]) \ {t}
  <2>1. tasks[ty][q] \in Seq(PidTask) /\ IsInjective(tasks[ty][q])
    BY DEF EpInv, EpLists
  <2>2. tasks'[ty][q] = E!Without(tasks[ty][q], t)
    BY <1>2
  <2> QED BY <2>1, <2>2, WithoutOne
<1>10. ASSUME NEW l \in Leader
       PROVE  /\ threads[l] \in Seq(PidTask) /\ IsInjective(threads[l])
              /\ threads'[l] = E!Without(threads[l], t)
              /\ Range(threads'[l]) = Range(threads[l]) \ {t}
  <2>1. threads[l] \in Seq(PidTask) /\ IsInjective(threads[l])
    BY DEF EpInv, EpLists
  <2>2. threads'[l] = E!Without(threads[l], t)
    BY <1>1
  <2> QED BY <2>1, <2>2, WithoutOne
<1>11. "PID" \in PidTypes /\ "TGID" \in PidTypes /\ "TGID" \in StaleTypes /\ "thread" \in StaleTypes
       /\ PidTypes \subseteq StaleTypes
  BY DEF PidTypes, StaleTypes
<1>12. EpApart'
  <2>1. \A ty \in PidTypes, a, b \in PidTask, x \in PidTask :
          x \in Range(tasks'[ty][a]) /\ x \in Range(tasks'[ty][b]) => a = b
    <3>1. \A ty \in PidTypes, a \in PidTask : Range(tasks'[ty][a]) \subseteq Range(tasks[ty][a])
      BY <1>9
    <3> QED BY <3>1 DEF EpApart
  <2>2. \A l, m \in Leader, x \in PidTask :
          x \in Range(threads'[l]) /\ x \in Range(threads'[m]) => l = m
    BY <1>10 DEF EpApart
  <2>3. \A a, x \in PidTask :
          x \in Range(tasks'["PID"][a]) \/ x \in Range(tasks'["TGID"][a]) => x = a
    <3>1. \A a \in PidTask : /\ Range(tasks'["PID"][a]) \subseteq Range(tasks["PID"][a])
                             /\ Range(tasks'["TGID"][a]) \subseteq Range(tasks["TGID"][a])
      BY <1>9, <1>11
    <3> QED BY <3>1 DEF EpApart
  <2>4. ASSUME NEW l \in Leader, state'[l] = "alive" PROVE l \in Range(tasks'["TGID"][l])
    <3>1. l \in PidTask /\ l # t /\ state[l] = "alive"
      BY <1>7, <2>4, PidAssumption
    <3>2. Range(tasks'["TGID"][l]) = Range(tasks["TGID"][l]) \ {t}
      BY <1>9, <1>11, <3>1
    <3> QED BY <3>1, <3>2 DEF EpApart
  <2>5. nxt("TGID") = "NULL"
    <3>1. ASSUME NEW p \in PidTask, t \in Range(tasks["TGID"][p]) PROVE nxt("TGID") = "NULL"
      <4>1. tasks["TGID"][p] \in Seq(PidTask) /\ IsInjective(tasks["TGID"][p])
        BY <1>9, <1>11
      <4>2. \A x \in Range(tasks["TGID"][p]) : x = t
        <5>1. Range(tasks["TGID"][p]) \subseteq PidTask
          BY <4>1, ListElements
        <5> QED BY <3>1, <5>1 DEF EpApart
      <4>3. E!After(tasks["TGID"][p], t) = "NULL"
        BY <3>1, <4>1, <4>2, AfterAlone
      <4> QED BY <1>4, <1>11, <3>1, <4>3
    <3>2. CASE \A p \in PidTask : t \notin Range(tasks["TGID"][p])
      BY <1>5, <1>11, <3>2 DEF EpApart
    <3> QED BY <3>1, <3>2
  <2>6. \A u \in PidTask : stale'["TGID"][u] = "NULL"
    BY <1>8, <1>11, <2>5 DEF EpApart
  <2> QED BY <2>1, <2>2, <2>3, <2>4, <2>6 DEF EpApart
<1>13. ASSUME pc \notin {"find", "lock"} PROVE Unnoticed
  <2>1. t \in Gone' /\ t \notin Gone /\ \A x \in Gone : x \in Gone'
    BY <1>1, <1>7 DEF Gone
  <2>2. \A ty \in StaleTypes, x \in Gone : stale'[ty][x] = stale[ty][x]
    BY <1>8, <2>1 DEF Gone
  <2>3. /\ changed \subseteq changed' /\ drifted \subseteq drifted'
        /\ \A ty \in PidTypes : <<ty, t>> \in changed'
    BY <1>1, <1>13
  <2>4. ASSUME NEW L \in Seq(PidTask), t \notin Range(L) PROVE E!Without(L, t) = L
    BY <2>4, SameRange DEF E!Without
  <2>5. ASSUME NEW ty \in PidTypes
        PROVE  \/ Lst(ty)' = Lst(ty)
               \/ /\ t \in Range(Lst(ty)) /\ Lst(ty)' = E!Without(Lst(ty), t)
                  /\ St(ty)'[t] = E!After(Lst(ty), t)
    <3>1. CASE ty # "TGID"
      <4>1. /\ Lst(ty)' = tasks'[ty][pid] /\ Lst(ty) = tasks[ty][pid] /\ pid \in PidTask
            /\ St(ty)' = stale'[ty]
        BY <3>1, PidAssumption DEF Lst, St
      <4>2. tasks[ty][pid] \in Seq(PidTask) /\ tasks'[ty][pid] = E!Without(tasks[ty][pid], t)
        BY <1>9, <4>1
      <4>3. CASE t \in Range(tasks[ty][pid])
        <5>1. stale'[ty][t] = E!After(tasks[ty][pid], t)
          BY <1>4, <1>8, <1>11, <4>1, <4>3
        <5> QED BY <4>1, <4>2, <4>3, <5>1
      <4>4. CASE t \notin Range(tasks[ty][pid])
        BY <2>4, <4>1, <4>2, <4>4
      <4> QED BY <4>3, <4>4
    <3>2. CASE ty = "TGID" /\ pid \in Leader
      <4>1. Lst(ty)' = threads'[pid] /\ Lst(ty) = threads[pid] /\ St(ty)' = stale'["thread"]
        BY <3>2 DEF Lst, St
      <4>2. threads[pid] \in Seq(PidTask) /\ threads'[pid] = E!Without(threads[pid], t)
        BY <1>10, <3>2
      <4>3. CASE t \in Range(threads[pid])
        <5>1. stale'["thread"][t] = E!After(threads[pid], t)
          BY <1>6, <1>8, <1>11, <3>2, <4>3
        <5> QED BY <4>1, <4>2, <4>3, <5>1
      <4>4. CASE t \notin Range(threads[pid])
        BY <2>4, <4>1, <4>2, <4>4
      <4> QED BY <4>3, <4>4
    <3>3. CASE ty = "TGID" /\ pid \notin Leader
      BY <3>3 DEF Lst
    <3> QED BY <3>1, <3>2, <3>3
  <2> QED BY <2>1, <2>2, <2>3, <2>5, ListChanges
<1> QED BY <1>12, <1>13

(* change_pid(): the lists of the type stay apart. *)
LEMMA MovedApart ==
  ASSUME EpInv, EpApart, NEW ty \in PidTypes, NEW l \in PidTask, NEW p \in PidTask,
         NEW a \in PidTask, NEW b \in PidTask, NEW x \in PidTask,
         x \in Range(E!Moved(ty, l, p)[a]), x \in Range(E!Moved(ty, l, p)[b])
  PROVE  a = b
<1>1. ASSUME NEW q \in PidTask, x \in Range(E!Moved(ty, l, p)[q])
      PROVE  (x = l /\ q = p) \/ (x # l /\ x \in Range(tasks[ty][q]))
  <2> DEFINE s == tasks[ty][q]
             w == E!Without(s, l)
  <2>1. s \in Seq(PidTask) /\ IsInjective(s)
    BY DEF EpInv, EpLists
  <2>2. E!Moved(ty, l, p)[q] = IF q = p THEN <<l>> \o w ELSE w
    BY DEF E!Moved
  <2> HIDE DEF s
  <2>3. w \in Seq(PidTask) /\ Range(w) = Range(s) \ {l}
    BY <2>1, WithoutOne
  <2> HIDE DEF w
  <2>4. Range(<<l>> \o w) = Range(w) \cup {l}
    BY <2>3, PrependToList
  <2>5. CASE q = p
    <3>1. E!Moved(ty, l, p)[q] = <<l>> \o w
      BY <2>2, <2>5
    <3> QED BY <1>1, <2>3, <2>4, <2>5, <3>1 DEF s
  <2>6. CASE q # p
    <3>1. E!Moved(ty, l, p)[q] = w
      BY <2>2, <2>6
    <3> QED BY <1>1, <2>3, <3>1 DEF s
  <2> QED BY <2>5, <2>6
<1>2. CASE x = l
  BY <1>1, <1>2
<1>3. CASE x # l
  <2>1. x \in Range(tasks[ty][a]) /\ x \in Range(tasks[ty][b])
    BY <1>1, <1>3
  <2> QED BY <2>1 DEF EpApart
<1> QED BY <1>2, <1>3

(* setpgid() and setsid(): the types on which somebody changed lists are   *)
(* noted, and the others are as before.                                    *)
LEMMA MoveUnnoticed ==
  ASSUME EpInv, EpApart, EpInv', NEW l \in PidTask, NEW p \in PidTask,
         NEW D \in SUBSET {"PGID", "SID"}, NEW W \in SUBSET (PidTypes \X PidTask),
         \A ty \in PidTypes : tasks'[ty] = IF ty \in D THEN E!Moved(ty, l, p) ELSE tasks[ty],
         UNCHANGED <<state, threads, stale>>,
         pc \notin {"find", "lock"} => changed' = changed \cup W /\ drifted' = drifted \cup D
  PROVE  EpApart' /\ (pc \notin {"find", "lock"} => Unnoticed)
<1>1. EpApart'
  <2>1. ASSUME NEW ty \in PidTypes, NEW a \in PidTask, NEW b \in PidTask, NEW x \in PidTask,
               x \in Range(tasks'[ty][a]), x \in Range(tasks'[ty][b])
        PROVE  a = b
    <3>1. CASE ty \in D
      <4>1. tasks'[ty] = E!Moved(ty, l, p)
        BY <3>1
      <4> QED BY <2>1, <4>1, MovedApart
    <3>2. CASE ty \notin D
      <4>1. tasks'[ty] = tasks[ty]
        BY <3>2
      <4> QED BY <2>1, <4>1 DEF EpApart
    <3> QED BY <3>1, <3>2
  <2>2. tasks'["PID"] = tasks["PID"] /\ tasks'["TGID"] = tasks["TGID"]
    BY DEF PidTypes
  <2> QED BY <2>1, <2>2 DEF EpApart
<1>2. ASSUME pc \notin {"find", "lock"} PROVE Unnoticed
  <2>1. changed \subseteq changed' /\ drifted \subseteq drifted' /\ D \subseteq drifted'
    BY <1>2
  <2>2. ASSUME NEW ty \in PidTypes \ drifted' PROVE Lst(ty)' = Lst(ty)
    <3>1. tasks'[ty] = tasks[ty]
      BY <2>1
    <3> QED BY <3>1 DEF Lst
  <2>3. \A x \in Gone : x \in Gone'
    BY DEF Gone
  <2> QED BY <2>1, <2>2, <2>3, ListChanges
<1> QED BY <1>1, <1>2

(* Every step of the system around the module is unnoticed. *)
LEMMA KernelUnnoticed ==
  ASSUME EpInv, EpApart, EpInv', [E!Next]_ep, ~E!modinit
  PROVE  /\ EpApart' /\ UNCHANGED <<pc, type, cur, thr, printed>>
         /\ pc \notin {"find", "lock"} => Unnoticed
<1>1. tasks \in [PidTypes -> [PidTask -> Seq(PidTask)]]
  BY DEF EpInv, EpLists
<1>2. ASSUME NEW t \in PidTask, NEW u \in PidTask, E!fork(t, u)
      PROVE  EpApart' /\ UNCHANGED <<pc, type, cur, thr, printed>>
             /\ (pc \notin {"find", "lock"} => Unnoticed)
  <2>1. UNCHANGED <<pc, type, cur, thr, printed>>
    BY <1>2 DEF E!fork, E!reader
  <2> QED BY <1>2, <2>1, ForkUnnoticed
<1>3. ASSUME NEW t \in PidTask, NEW u \in PidTask, E!clone(t, u)
      PROVE  EpApart' /\ UNCHANGED <<pc, type, cur, thr, printed>>
             /\ (pc \notin {"find", "lock"} => Unnoticed)
  <2>1. UNCHANGED <<pc, type, cur, thr, printed>>
    BY <1>3 DEF E!clone, E!reader
  <2> QED BY <1>3, <2>1, CloneUnnoticed
<1>4. ASSUME NEW t \in PidTask, E!unhash_process(t)
      PROVE  EpApart' /\ UNCHANGED <<pc, type, cur, thr, printed>>
             /\ (pc \notin {"find", "lock"} => Unnoticed)
  <2>1. UNCHANGED <<pc, type, cur, thr, printed>>
    BY <1>4 DEF E!unhash_process, E!reader
  <2> QED BY <1>4, <2>1, UnhashUnnoticed
<1>5. ASSUME NEW t \in PidTask, E!free_task(t)
      PROVE  EpApart' /\ UNCHANGED <<pc, type, cur, thr, printed>>
             /\ (pc \notin {"find", "lock"} => Unnoticed)
  <2>1. /\ UNCHANGED <<tasks, threads, stale, changed, drifted, pc, type, cur, thr, printed>>
        /\ state[t] = "unhashed" /\ state' = [state EXCEPT ![t] = "freed"]
    BY <1>5 DEF E!free_task, E!reader
  <2>2. state'[t] = "freed" /\ \A x \in PidTask \ {t} : state'[x] = state[x]
    BY <2>1 DEF EpInv, EpLists
  <2>3. \A x \in Gone : x \in Gone'
    BY <2>2 DEF Gone
  <2>4. \A ty \in PidTypes : Lst(ty)' = Lst(ty)
    BY <2>1 DEF Lst
  <2>5. Unnoticed
    BY <2>1, <2>3, <2>4, ListChanges
  <2>6. \A k \in Leader : state'[k] = "alive" => state[k] = "alive"
    BY <2>2, PidAssumption
  <2>7. EpApart'
    BY <2>1, <2>6 DEF EpApart
  <2> QED BY <2>1, <2>5, <2>7
<1>6. ASSUME NEW t \in PidTask, E!setsid(t)
      PROVE  EpApart' /\ UNCHANGED <<pc, type, cur, thr, printed>>
             /\ (pc \notin {"find", "lock"} => Unnoticed)
  <2> DEFINE D == {"PGID", "SID"}
             W == {"PGID", "SID"} \X {t}
  <2>1. /\ UNCHANGED <<state, threads, stale, pc, type, cur, thr, printed>>
        /\ pc \notin {"find", "lock"} => changed' = changed \cup W /\ drifted' = drifted \cup D
    BY <1>6 DEF E!setsid, E!reader, E!Note
  <2>2. tasks' = [tasks EXCEPT !["PGID"] = E!Moved("PGID", t, t),
                               !["SID"] = E!Moved("SID", t, t)]
    BY <1>6 DEF E!setsid
  <2>3. PICK u \in PidTask :
          \A ty \in PidTypes : tasks'[ty] = IF ty \in D THEN E!Moved(ty, t, u) ELSE tasks[ty]
    BY <1>1, <2>2
  <2>4. D \in SUBSET {"PGID", "SID"} /\ W \in SUBSET (PidTypes \X PidTask)
    BY DEF PidTypes
  <2> HIDE DEF D, W
  <2>5. EpApart' /\ (pc \notin {"find", "lock"} => Unnoticed)
    BY <2>1, <2>3, <2>4, MoveUnnoticed
  <2> QED BY <2>1, <2>5
<1>7. ASSUME NEW t \in PidTask, NEW u \in PidTask, E!setpgid(t, u)
      PROVE  EpApart' /\ UNCHANGED <<pc, type, cur, thr, printed>>
             /\ (pc \notin {"find", "lock"} => Unnoticed)
  <2> DEFINE D == {"PGID"}
             W == {<<"PGID", t>>}
  <2>1. /\ UNCHANGED <<state, threads, stale, pc, type, cur, thr, printed>>
        /\ pc \notin {"find", "lock"} => changed' = changed \cup W /\ drifted' = drifted \cup D
    BY <1>7 DEF E!setpgid, E!reader, E!Note
  <2>2. tasks' = [tasks EXCEPT !["PGID"] = E!Moved("PGID", t, u)]
    BY <1>7 DEF E!setpgid
  <2>3. \A ty \in PidTypes : tasks'[ty] = IF ty \in D THEN E!Moved(ty, t, u) ELSE tasks[ty]
    BY <1>1, <2>2
  <2>4. D \in SUBSET {"PGID", "SID"} /\ W \in SUBSET (PidTypes \X PidTask)
    BY DEF PidTypes
  <2> HIDE DEF D, W
  <2>5. EpApart' /\ (pc \notin {"find", "lock"} => Unnoticed)
    BY <2>1, <2>3, <2>4, MoveUnnoticed
  <2> QED BY <2>1, <2>5
<1>8. ASSUME UNCHANGED ep
      PROVE  EpApart' /\ UNCHANGED <<pc, type, cur, thr, printed>>
             /\ (pc \notin {"find", "lock"} => Unnoticed)
  <2>1. UNCHANGED <<state, tasks, threads, stale, changed, drifted, pc, type, cur, thr, printed>>
    BY <1>8 DEF ep
  <2>2. EpApart' /\ \A ty \in PidTypes : Lst(ty)' = Lst(ty)
    BY <2>1 DEF EpApart, Lst
  <2>3. \A x \in Gone : x \in Gone'
    BY <2>1 DEF Gone
  <2> QED BY <2>1, <2>2, <2>3, ListChanges
<1> QED BY <1>2, <1>3, <1>4, <1>5, <1>6, <1>7, <1>8 DEF E!Next

(* Where the reader is for TGID: at the end, at the process or among its   *)
(* threads.                                                                *)
TgidAt ==
  \/ pc = "walk" /\ cur = "NULL" /\ Settled(Lst("TGID"), Chg("TGID"), printed["TGID"])
  \/ pc = "walk" /\ cur = pid /\ pid \in Leader /\ printed["TGID"] = NothingYet
  \/ pc = "thread" /\ cur = pid /\ pid \in Leader
       /\ ReaderAt(Lst("TGID"), St("TGID"), Chg("TGID"), Gone, thr, printed["TGID"])

(* What is printed for the k-th type, ty, once the loop is there. *)
PrintedFor(k, ty) ==
  /\ k < type \/ E!Walked => Settled(Lst(ty), Chg(ty), printed[ty])
  /\ k = type /\ E!Reading /\ k = 2 => TgidAt
  /\ k = type /\ E!Reading /\ k # 2 => ReaderAt(Lst(ty), St(ty), Chg(ty), Gone, cur, printed[ty])

(* What is printed: nothing before the loop gets to a type, and then what  *)
(* it should be unless somebody changed lists.                             *)
EpPrinted ==
  /\ printed \in [PidTypes -> [PidTask -> {0, 1, 2}]]
  /\ pc \in {"find", "lock"} => type = 1
  /\ \A k \in 1..4 : type < k \/ pc \in {"find", "lock"} => printed[E!types[k]] = NothingYet
  /\ \A k \in 1..4 : E!types[k] \notin drifted => PrintedFor(k, E!types[k])

(* The next pointer as it is read is the one of the reader's list. *)
LEMMA NextIsNextIn ==
  ASSUME EpInv, EpApart, NEW ty \in PidTypes, ty # "TGID", NEW c \in PidTask,
         c \in Range(Lst(ty)) \/ c \in Gone
  PROVE  E!NextOf(ty, c) = NextIn(Lst(ty), St(ty), c)
<1> DEFINE on == {p \in PidTask : c \in Range(tasks[ty][p])}
<1>1. E!NextOf(ty, c) = IF on = {} THEN stale[ty][c]
                        ELSE E!After(tasks[ty][CHOOSE p \in on : TRUE], c)
  BY DEF E!NextOf, E!Range, Range
<1>2. Lst(ty) = tasks[ty][pid] /\ St(ty) = stale[ty] /\ pid \in PidTask
  BY PidAssumption DEF Lst, St
<1>3. CASE c \in Range(tasks[ty][pid])
  <2>1. on = {pid}
    BY <1>2, <1>3 DEF EpApart
  <2>2. (CHOOSE p \in on : TRUE) = pid /\ on # {}
    BY <2>1
  <2> QED BY <1>1, <1>2, <1>3, <2>2 DEF NextIn
<1>4. CASE c \notin Range(tasks[ty][pid])
  <2>1. state[c] # "alive"
    BY <1>2, <1>4 DEF Gone
  <2>2. on = {}
    BY <2>1, OnNoList
  <2> QED BY <1>1, <1>2, <1>4, <2>2 DEF NextIn
<1> QED BY <1>3, <1>4

(* So is that of a thread. *)
LEMMA NextThreadIsNextIn ==
  ASSUME EpInv, EpApart, pid \in Leader, NEW c \in PidTask,
         c \in Range(Lst("TGID")) \/ c \in Gone
  PROVE  E!NextThread(c) = NextIn(Lst("TGID"), St("TGID"), c)
<1>1. Lst("TGID") = threads[pid] /\ St("TGID") = stale["thread"]
  BY DEF Lst, St
<1>2. CASE c \in Range(threads[pid])
  <2>1. state[c] = "alive"
    BY <1>2 DEF EpInv, EpLists, AllAlive
  <2>2. E!LeaderOf(c) \in Leader /\ c \in Range(threads[E!LeaderOf(c)])
    BY <2>1, ThreadList
  <2>3. E!LeaderOf(c) = pid
    BY <1>2, <2>2 DEF EpApart
  <2> QED BY <1>1, <1>2, <2>1, <2>3 DEF E!NextThread, NextIn
<1>3. CASE c \notin Range(threads[pid])
  <2>1. state[c] # "alive"
    BY <1>1, <1>3 DEF Gone
  <2> QED BY <1>1, <1>3, <2>1 DEF E!NextThread, NextIn
<1> QED BY <1>2, <1>3

(* After a process the TGID list is at its end. *)
LEMMA NextOfProcess ==
  ASSUME EpInv, EpApart
  PROVE  E!NextOf("TGID", pid) = "NULL"
<1> DEFINE on == {p \in PidTask : pid \in Range(tasks["TGID"][p])}
<1>1. E!NextOf("TGID", pid)
        = IF on = {} THEN stale["TGID"][pid]
          ELSE E!After(tasks["TGID"][CHOOSE p \in on : TRUE], pid)
  BY DEF E!NextOf, E!Range, Range
<1>2. pid \in PidTask /\ "TGID" \in PidTypes
  BY PidAssumption DEF PidTypes
<1>3. CASE on = {}
  BY <1>1, <1>2, <1>3 DEF EpApart
<1>4. CASE on # {}
  <2>1. PICK p : p = CHOOSE q \in on : TRUE
    OBVIOUS
  <2>2. p \in PidTask /\ pid \in Range(tasks["TGID"][p])
    BY <1>4, <2>1
  <2>3. tasks["TGID"][p] \in Seq(PidTask) /\ IsInjective(tasks["TGID"][p])
    BY <1>2, <2>2 DEF EpInv, EpLists
  <2>4. Range(tasks["TGID"][p]) \subseteq PidTask
    BY <2>3, ListElements
  <2>5. \A x \in Range(tasks["TGID"][p]) : x = pid
    BY <1>2, <2>2, <2>4 DEF EpApart
  <2>6. E!After(tasks["TGID"][p], pid) = "NULL"
    BY <2>2, <2>3, <2>5, AfterAlone
  <2> QED BY <1>1, <1>4, <2>1, <2>6
<1> QED BY <1>3, <1>4

(* The TGID list leads to the process, or there are no threads. *)
LEMMA FirstOfTgid ==
  ASSUME EpInv, EpApart
  PROVE  \/ E!First(tasks["TGID"][pid]) = pid /\ pid \in Leader
         \/ E!First(tasks["TGID"][pid]) = "NULL" /\ Lst("TGID") = <<>>
<1>1. pid \in PidTask /\ "TGID" \in PidTypes
  BY PidAssumption DEF PidTypes
<1>2. tasks["TGID"][pid] \in Seq(PidTask) /\ Range(tasks["TGID"][pid]) \subseteq Leader
  BY <1>1 DEF EpInv, EpLists
<1>3. E!First(tasks["TGID"][pid]) \in Range(tasks["TGID"][pid]) \cup {"NULL"}
  BY <1>2, FirstInList
<1>4. Range(tasks["TGID"][pid]) \subseteq PidTask
  BY <1>2, ListElements
<1>5. CASE E!First(tasks["TGID"][pid]) \in Range(tasks["TGID"][pid])
  BY <1>1, <1>2, <1>4, <1>5 DEF EpApart
<1>6. CASE E!First(tasks["TGID"][pid]) = "NULL"
  <2>1. tasks["TGID"][pid] = <<>>
    <3>1. ASSUME tasks["TGID"][pid] # <<>> PROVE FALSE
      <4>1. E!First(tasks["TGID"][pid]) = tasks["TGID"][pid][1] /\ 1 \in 1..Len(tasks["TGID"][pid])
        BY <1>2, <3>1 DEF E!First
      <4>2. tasks["TGID"][pid][1] \in PidTask
        BY <1>2, <1>4, <4>1, ListElements
      <4> QED BY <1>6, <4>1, <4>2, PidAssumption
    <3> QED BY <3>1
  <2>2. Range(tasks["TGID"][pid]) = {}
    BY <2>1 DEF Range
  <2>3. pid \in Leader => threads[pid] = <<>>
    BY <2>2 DEF EpApart, EpInv, EpThreads
  <2> QED BY <1>6, <2>3 DEF Lst
<1> QED BY <1>3, <1>5, <1>6

(* Nothing is printed when the module is loaded. *)
LEMMA EpPrintedInit == E!Init => EpPrinted
<1> SUFFICES ASSUME E!Init PROVE EpPrinted
  OBVIOUS
<1>1. pc = "find" /\ type = 1 /\ printed = [ty \in PidTypes |-> [t \in PidTask |-> 0]]
  BY SameTypes DEF E!Init
<1>2. printed \in [PidTypes -> [PidTask -> {0, 1, 2}]]
  BY <1>1
<1>3. \A k \in 1..4 : E!types[k] \in PidTypes
  BY SameTypes DEF PidTypes
<1>4. \A k \in 1..4 : printed[E!types[k]] = NothingYet
  BY <1>1, <1>3 DEF NothingYet
<1>5. \A k \in 1..4 : PrintedFor(k, E!types[k])
  BY <1>1 DEF PrintedFor, E!Walked, E!Reading
<1> QED BY <1>1, <1>2, <1>4, <1>5 DEF EpPrinted

(* What the system does leaves what is printed as it should be. *)
LEMMA EpPrintedKernel ==
  ASSUME EpInv, EpPrinted, UNCHANGED <<pc, type, cur, thr, printed>>,
         pc \notin {"find", "lock"} => Unnoticed
  PROVE  EpPrinted'
<1>1. (E!Walked' <=> E!Walked) /\ (E!Reading' <=> E!Reading)
  BY DEF E!Walked, E!Reading
<1>2. \A k \in 1..4 : E!types[k] \in PidTypes
  BY SameTypes DEF PidTypes
<1>3. ASSUME NEW k \in 1..4, E!types[k] \notin drifted'
      PROVE  PrintedFor(k, E!types[k])'
  <2> DEFINE ty == E!types[k]
  <2>1. ty \in PidTypes /\ ty \notin drifted' /\ (k = 2 => ty = "TGID")
    BY <1>2, <1>3, SameTypes
  <2>2. ty' = ty
    BY DEF E!types
  <2> HIDE DEF ty
  <2>3. CASE pc \in {"find", "lock"}
    <3>1. type = 1 /\ ~E!Walked /\ ~E!Reading
      BY <2>3 DEF EpPrinted, E!Walked, E!Reading
    <3>2. ~ (k < type') /\ ~E!Walked' /\ ~E!Reading'
      BY <1>1, <3>1
    <3> QED BY <3>2 DEF PrintedFor
  <2>4. CASE pc \notin {"find", "lock"}
    <3>1. /\ ty \notin drifted
          /\ ListChange(Lst(ty), St(ty), Chg(ty), Gone, Lst(ty)', St(ty)', Chg(ty)', Gone')
      BY <2>1, <2>4 DEF Unnoticed
    <3>2. PrintedFor(k, ty)
      BY <3>1 DEF EpPrinted, ty
    <3>3. Lst(ty) \in Seq(PidTask) /\ IsInjective(Lst(ty))
      BY <2>1, ReaderList
    <3>4. ASSUME NEW pr, Settled(Lst(ty), Chg(ty), pr) PROVE Settled(Lst(ty)', Chg(ty)', pr)
      BY <3>1, <3>3, <3>4, SettledChange
    <3>5. ASSUME NEW c, NEW pr, ReaderAt(Lst(ty), St(ty), Chg(ty), Gone, c, pr)
          PROVE  ReaderAt(Lst(ty)', St(ty)', Chg(ty)', Gone', c, pr)
      BY <3>1, <3>5, WalkChange
    <3>6. k < type' \/ E!Walked' => Settled(Lst(ty)', Chg(ty)', printed'[ty])
      BY <1>1, <3>2, <3>4 DEF PrintedFor
    <3>7. k = type' /\ E!Reading' /\ k # 2 =>
            ReaderAt(Lst(ty)', St(ty)', Chg(ty)', Gone', cur', printed'[ty])
      BY <1>1, <3>2, <3>5 DEF PrintedFor
    <3>8. k = type' /\ E!Reading' /\ k = 2 => TgidAt'
      BY <1>1, <2>1, <3>2, <3>4, <3>5 DEF PrintedFor, TgidAt
    <3>9. PrintedFor(k, ty)'
      BY <2>2, <3>6, <3>7, <3>8 DEF PrintedFor
    <3> QED BY <3>9 DEF ty
  <2> QED BY <2>3, <2>4
<1> QED BY <1>3 DEF EpPrinted, E!types

(* The module's own steps leave its lists alone. *)
LEMMA ReaderSteps ==
  ASSUME E!modinit
  PROVE  UNCHANGED <<state, tasks, threads, stale, changed, drifted>>
BY DEF E!modinit, E!find_get_pid, E!rcu_read_lock, E!hlist_for_each_entry_rcu,
   E!print_all_threads, E!NextType, E!put_pid, E!kernel

(* Printing a task. *)
LEMMA PrintTask ==
  ASSUME EpPrinted, NEW ty \in PidTypes, NEW c \in PidTask, E!print_task(ty, c)
  PROVE  /\ printed' \in [PidTypes -> [PidTask -> {0, 1, 2}]]
         /\ printed'[ty] = OneMore(printed[ty], c)
         /\ \A o \in PidTypes : o # ty => printed'[o] = printed[o]
<1>1. printed \in [PidTypes -> [PidTask -> {0, 1, 2}]]
  BY DEF EpPrinted
<1>2. printed' = [printed EXCEPT ![ty] = [printed[ty] EXCEPT ![c] = IF @ = 2 THEN 2 ELSE @ + 1]]
  BY <1>1 DEF E!print_task
<1>3. [printed[ty] EXCEPT ![c] = IF @ = 2 THEN 2 ELSE @ + 1] \in [PidTask -> {0, 1, 2}]
  BY <1>1
<1> QED BY <1>1, <1>2, <1>3 DEF OneMore

(* A step inside of the loop for a type leaves the other types alone.      *)
LEMMA EpPrintedLoop ==
  ASSUME EpInv, EpPrinted, E!modinit, E!Reading, E!Reading', type' = type,
         printed' \in [PidTypes -> [PidTask -> {0, 1, 2}]],
         \A o \in PidTypes : o # E!types[type] => printed'[o] = printed[o],
         E!types[type] \notin drifted => PrintedFor(type, E!types[type])'
  PROVE  EpPrinted'
<1>1. /\ UNCHANGED <<state, tasks, threads, stale, changed, drifted>>
      /\ type \in 1..4 /\ pc' \notin {"find", "lock"} /\ ~E!Walked'
  BY ReaderSteps DEF EpInv, EpReader, E!Reading, E!Walked
<1>2. \A j, k \in 1..4 : E!types[k] \in PidTypes /\ (j # k => E!types[j] # E!types[k])
  BY SameTypes DEF PidTypes
<1>3. \A k \in 1..4 : type' < k \/ pc' \in {"find", "lock"} => printed'[E!types[k]] = NothingYet
  BY <1>1, <1>2 DEF EpPrinted
<1>4. ASSUME NEW k \in 1..4, E!types[k] \notin drifted PROVE PrintedFor(k, E!types[k])'
  <2>1. CASE k = type
    BY <1>4, <2>1
  <2>2. CASE k # type
    <3>1. printed'[E!types[k]] = printed[E!types[k]]
      BY <1>1, <1>2, <2>2
    <3>2. PrintedFor(k, E!types[k])
      BY <1>4 DEF EpPrinted
    <3>3. E!types[k]' = E!types[k]
      BY DEF E!types
    <3>4. Lst(E!types[k])' = Lst(E!types[k]) /\ Chg(E!types[k])' = Chg(E!types[k])
      BY <1>1, <3>3 DEF Lst, Chg
    <3> QED BY <1>1, <2>2, <3>1, <3>2, <3>3, <3>4 DEF PrintedFor
  <2> QED BY <2>1, <2>2
<1> QED BY <1>1, <1>3, <1>4 DEF EpPrinted, E!types

(* A step of either loop leads from an entry to the next. *)
LEMMA EpPrintedEntry ==
  ASSUME EpInv, EpApart, EpPrinted, E!hlist_for_each_entry_rcu \/ E!print_all_threads
  PROVE  EpPrinted'
<1> DEFINE ty == E!types[type]
<1>1. E!modinit /\ E!Reading /\ E!Reading' /\ type' = type /\ type \in 1..4
  BY DEF E!modinit, E!Reading, E!hlist_for_each_entry_rcu, E!print_all_threads, EpInv, EpReader
<1>2. UNCHANGED <<state, tasks, threads, stale, changed, drifted>>
  BY <1>1, ReaderSteps
<1>3. ty \in PidTypes /\ (ty = "TGID" <=> type = 2)
  BY <1>1, SameTypes DEF PidTypes
<1>4. printed \in [PidTypes -> [PidTask -> {0, 1, 2}]]
  BY DEF EpPrinted
<1>5. ty' = ty /\ "TGID" \in PidTypes
  BY <1>1 DEF E!types, PidTypes
<1>6. ty \notin drifted => PrintedFor(type, ty)
  BY <1>1 DEF EpPrinted
<1>7. ~E!Walked' /\ ~ (type' < type')
  BY <1>1 DEF E!Walked, E!Reading
<1>8. /\ Lst(ty)' = Lst(ty) /\ St(ty)' = St(ty) /\ Chg(ty)' = Chg(ty) /\ Gone' = Gone
      /\ Lst("TGID")' = Lst("TGID") /\ St("TGID")' = St("TGID") /\ Chg("TGID")' = Chg("TGID")
  BY <1>2, <1>5 DEF Lst, St, Chg, Gone
<1> HIDE DEF ty
<1>9. CASE E!hlist_for_each_entry_rcu /\ type # 2
  <2>1. /\ pc = "walk" /\ cur # "NULL" /\ E!print_task(ty, cur) /\ cur' = E!NextOf(ty, cur)
    BY <1>3, <1>9 DEF E!hlist_for_each_entry_rcu, E!NULL, ty
  <2>2. cur \in PidTask
    BY <1>1, <2>1 DEF EpInv, EpReader, Readable
  <2>3. /\ printed' \in [PidTypes -> [PidTask -> {0, 1, 2}]]
        /\ printed'[ty] = OneMore(printed[ty], cur)
        /\ \A o \in PidTypes : o # ty => printed'[o] = printed[o]
    BY <1>3, <2>1, <2>2, PrintTask
  <2>4. ASSUME ty \notin drifted PROVE PrintedFor(type, ty)'
    <3>1. ReaderAt(Lst(ty), St(ty), Chg(ty), Gone, cur, printed[ty])
      BY <1>1, <1>6, <1>9, <2>4 DEF PrintedFor
    <3>2. cur \in Range(Lst(ty)) \/ cur \in Gone
      BY <2>1, <3>1, WalkWhere
    <3>3. cur' = NextIn(Lst(ty), St(ty), cur)
      BY <1>3, <1>9, <2>1, <2>2, <3>2, NextIsNextIn
    <3>4. ReaderAt(Lst(ty), St(ty), Chg(ty), Gone, cur', printed'[ty])
      BY <2>1, <2>3, <3>1, <3>3, WalkAdvances
    <3> QED BY <1>1, <1>5, <1>7, <1>8, <1>9, <3>4 DEF PrintedFor
  <2> QED BY <1>1, <2>3, <2>4, EpPrintedLoop DEF ty
<1>10. CASE E!hlist_for_each_entry_rcu /\ type = 2
  <2>1. /\ pc = "walk" /\ cur # "NULL" /\ pc' = "thread" /\ thr' = E!First(threads[cur])
        /\ cur' = cur /\ printed' = printed
    BY <1>3, <1>10 DEF E!hlist_for_each_entry_rcu, E!NULL, ty
  <2>2. ASSUME ty \notin drifted PROVE PrintedFor(type, ty)'
    <3>1. cur = pid /\ pid \in Leader /\ printed["TGID"] = NothingYet
      BY <1>1, <1>6, <1>10, <2>1, <2>2 DEF PrintedFor, TgidAt
    <3>2. Lst("TGID") = threads[pid]
      BY <3>1 DEF Lst
    <3>3. /\ Lst("TGID") \in Seq(PidTask) /\ IsInjective(Lst("TGID"))
          /\ \A x \in Range(Lst("TGID")) : x \notin Gone
      BY <1>5, ReaderList
    <3>4. ReaderAt(Lst("TGID"), St("TGID"), Chg("TGID"), Gone, E!First(Lst("TGID")), NothingYet)
      BY <3>3, WalkBegins
    <3>5. thr' = E!First(Lst("TGID"))
      BY <2>1, <3>1, <3>2
    <3>6. TgidAt'
      BY <1>8, <2>1, <3>1, <3>4, <3>5 DEF TgidAt
    <3> QED BY <1>1, <1>7, <1>10, <3>6 DEF PrintedFor
  <2> QED BY <1>1, <1>4, <2>1, <2>2, EpPrintedLoop DEF ty
<1>11. CASE E!print_all_threads /\ thr # "NULL"
  <2>1. /\ pc = "thread" /\ pc' = "thread" /\ type = 2 /\ ty = "TGID"
        /\ E!print_task("TGID", thr) /\ cur' = cur /\ thr' = E!NextThread(thr)
    BY <1>3, <1>11 DEF E!print_all_threads, E!NULL, EpInv, EpReader
  <2>2. thr \in PidTask
    BY <1>11, <2>1 DEF EpInv, EpReader, Readable
  <2>3. /\ printed' \in [PidTypes -> [PidTask -> {0, 1, 2}]]
        /\ printed'["TGID"] = OneMore(printed["TGID"], thr)
        /\ \A o \in PidTypes : o # "TGID" => printed'[o] = printed[o]
    BY <1>5, <2>1, <2>2, PrintTask
  <2>4. ASSUME ty \notin drifted PROVE PrintedFor(type, ty)'
    <3>1. /\ ReaderAt(Lst("TGID"), St("TGID"), Chg("TGID"), Gone, thr, printed["TGID"])
          /\ cur = pid /\ pid \in Leader
      BY <1>1, <1>6, <2>1, <2>4 DEF PrintedFor, TgidAt
    <3>2. thr \in Range(Lst("TGID")) \/ thr \in Gone
      BY <1>11, <3>1, WalkWhere
    <3>3. thr' = NextIn(Lst("TGID"), St("TGID"), thr)
      BY <2>1, <2>2, <3>1, <3>2, NextThreadIsNextIn
    <3>4. ReaderAt(Lst("TGID"), St("TGID"), Chg("TGID"), Gone, thr', printed'["TGID"])
      BY <1>11, <2>3, <3>1, <3>3, WalkAdvances
    <3>5. TgidAt'
      BY <1>8, <2>1, <3>1, <3>4 DEF TgidAt
    <3> QED BY <1>1, <1>7, <2>1, <3>5 DEF PrintedFor
  <2> QED BY <1>1, <2>1, <2>3, <2>4, EpPrintedLoop DEF ty
<1>12. CASE E!print_all_threads /\ thr = "NULL"
  <2>1. /\ pc = "thread" /\ pc' = "walk" /\ type = 2 /\ ty = "TGID"
        /\ cur' = E!NextOf("TGID", cur) /\ printed' = printed
    BY <1>3, <1>12 DEF E!print_all_threads, E!NULL, EpInv, EpReader
  <2>2. ASSUME ty \notin drifted PROVE PrintedFor(type, ty)'
    <3>1. /\ ReaderAt(Lst("TGID"), St("TGID"), Chg("TGID"), Gone, thr, printed["TGID"])
          /\ cur = pid
      BY <1>1, <1>6, <2>1, <2>2 DEF PrintedFor, TgidAt
    <3>2. Settled(Lst("TGID"), Chg("TGID"), printed["TGID"])
      BY <1>12, <3>1, WalkEnds
    <3>3. cur' = "NULL"
      BY <2>1, <3>1, NextOfProcess
    <3>4. TgidAt'
      BY <1>8, <2>1, <3>2, <3>3 DEF TgidAt
    <3> QED BY <1>1, <1>7, <2>1, <3>4 DEF PrintedFor
  <2> QED BY <1>1, <1>4, <2>1, <2>2, EpPrintedLoop DEF ty
<1> QED BY <1>9, <1>10, <1>11, <1>12

(* At the head of the k-th list: nothing is printed for it, and the reader *)
(* is where it should be.                                                  *)
LEMMA EpPrintedHead ==
  ASSUME EpInv, EpApart, NEW k \in 1..4, printed[E!types[k]] = NothingYet,
         UNCHANGED <<state, tasks, threads, stale, changed, printed>>,
         pc' = "walk", type' = k, cur' = E!First(tasks[E!types[k]][pid])
  PROVE  PrintedFor(k, E!types[k])'
<1> DEFINE ty == E!types[k]
<1>1. ty \in PidTypes /\ (ty = "TGID" <=> k = 2) /\ ty' = ty
  BY SameTypes DEF PidTypes, E!types
<1>2. ~E!Walked' /\ E!Reading' /\ ~ (k < type')
  BY DEF E!Walked, E!Reading
<1>3. /\ Lst(ty)' = Lst(ty) /\ St(ty)' = St(ty) /\ Chg(ty)' = Chg(ty) /\ Gone' = Gone
      /\ printed'[ty] = NothingYet /\ cur' = E!First(tasks[ty][pid])
  BY <1>1 DEF Lst, St, Chg, Gone
<1> HIDE DEF ty
<1>4. Lst(ty) \in Seq(PidTask) /\ IsInjective(Lst(ty)) /\ \A x \in Range(Lst(ty)) : x \notin Gone
  BY <1>1, ReaderList
<1>5. CASE k # 2
  <2>1. Lst(ty) = tasks[ty][pid]
    BY <1>1, <1>5 DEF Lst
  <2>2. ReaderAt(Lst(ty), St(ty), Chg(ty), Gone, E!First(Lst(ty)), NothingYet)
    BY <1>4, WalkBegins
  <2>3. PrintedFor(k, ty)'
    BY <1>1, <1>2, <1>3, <1>5, <2>1, <2>2 DEF PrintedFor
  <2> QED BY <2>3 DEF ty
<1>6. CASE k = 2
  <2>1. ty = "TGID"
    BY <1>1, <1>6
  <2>2. \/ cur' = pid /\ pid \in Leader
        \/ cur' = "NULL" /\ Lst("TGID") = <<>>
    BY <1>3, <2>1, FirstOfTgid
  <2>3. ASSUME Lst("TGID") = <<>> PROVE Settled(Lst("TGID"), Chg("TGID"), NothingYet)
    <3>1. Range(<<>>) = {}
      BY DEF Range
    <3>2. Range(Lst("TGID")) = {}
      BY <2>3, <3>1
    <3> QED BY <3>2 DEF Settled, NothingYet
  <2>4. TgidAt'
    BY <1>3, <2>1, <2>2, <2>3 DEF TgidAt
  <2>5. PrintedFor(k, ty)'
    BY <1>2, <1>6, <2>4 DEF PrintedFor
  <2> QED BY <2>5 DEF ty
<1> QED BY <1>5, <1>6

(* From one type to the next, and to the end. *)
LEMMA EpPrintedNext ==
  ASSUME EpInv, EpApart, EpPrinted, E!NextType
  PROVE  EpPrinted'
<1>1. UNCHANGED <<state, tasks, threads, stale, changed, drifted, printed>> /\ pc = "walk"
      /\ cur = "NULL" /\ E!Reading /\ type \in 1..4
  BY DEF E!NextType, E!NULL, E!Reading, EpInv, EpReader
<1>2. \A k \in 1..4 : E!types[k]' = E!types[k]
  BY DEF E!types
<1>3. ASSUME NEW k \in 1..4, k <= type, E!types[k] \notin drifted
      PROVE  Settled(Lst(E!types[k]), Chg(E!types[k]), printed[E!types[k]])
  <2>1. PrintedFor(k, E!types[k])
    BY <1>3 DEF EpPrinted
  <2>2. CASE k < type
    BY <2>1, <2>2 DEF PrintedFor
  <2>3. CASE k = type /\ k # 2
    <3>1. ReaderAt(Lst(E!types[k]), St(E!types[k]), Chg(E!types[k]), Gone, "NULL",
                   printed[E!types[k]])
      BY <1>1, <2>1, <2>3 DEF PrintedFor
    <3> QED BY <3>1, WalkEnds
  <2>4. CASE k = type /\ k = 2
    <3>1. TgidAt
      BY <1>1, <2>1, <2>4 DEF PrintedFor
    <3>2. Settled(Lst("TGID"), Chg("TGID"), printed["TGID"])
      BY <1>1, <3>1, PidAssumption DEF TgidAt
    <3> QED BY <2>4, <3>2, SameTypes
  <2> QED BY <1>1, <1>3, <2>2, <2>3, <2>4
<1>4. ASSUME NEW k \in 1..4
      PROVE  Lst(E!types[k])' = Lst(E!types[k]) /\ Chg(E!types[k])' = Chg(E!types[k])
  BY <1>1, <1>2 DEF Lst, Chg
<1>5. CASE type < 4
  <2>1. /\ type' = type + 1 /\ cur' = E!First(tasks[E!types[type + 1]][pid]) /\ pc' = "walk"
        /\ type + 1 \in 1..4
    BY <1>1, <1>5, SameTypes DEF E!NextType
  <2>2. \A k \in 1..4 : type' < k \/ pc' \in {"find", "lock"} => printed'[E!types[k]] = NothingYet
    BY <1>1, <2>1 DEF EpPrinted
  <2>3. printed[E!types[type + 1]] = NothingYet
    BY <1>1, <2>1 DEF EpPrinted
  <2>4. ASSUME NEW k \in 1..4, E!types[k] \notin drifted PROVE PrintedFor(k, E!types[k])'
    <3>1. CASE k = type + 1
      BY <1>1, <2>1, <2>3, <3>1, EpPrintedHead
    <3>2. CASE k <= type
      <4>1. k # type' /\ printed' = printed
        BY <1>1, <2>1, <3>2
      <4> QED BY <1>2, <1>3, <1>4, <2>4, <3>2, <4>1 DEF PrintedFor
    <3>3. CASE type + 1 < k
      <4>1. k # type' /\ ~ (k < type') /\ ~E!Walked'
        BY <1>1, <2>1, <3>3 DEF E!Walked
      <4> QED BY <4>1 DEF PrintedFor
    <3> QED BY <1>1, <3>1, <3>2, <3>3
  <2> QED BY <1>1, <2>1, <2>2, <2>4 DEF EpPrinted, E!types
<1>6. CASE ~ (type < 4)
  <2>1. pc' = "put" /\ type' = type /\ type = 4
    BY <1>1, <1>6, SameTypes DEF E!NextType
  <2>2. ~E!Reading'
    BY <2>1 DEF E!Reading
  <2>3. ASSUME NEW k \in 1..4, E!types[k] \notin drifted PROVE PrintedFor(k, E!types[k])'
    BY <1>1, <1>2, <1>3, <1>4, <2>1, <2>2, <2>3 DEF PrintedFor
  <2> QED BY <1>1, <2>1, <2>3 DEF EpPrinted, E!types
<1> QED BY <1>5, <1>6

(* Every step keeps what is printed as it should be. *)
LEMMA EpPrintedStep ==
  ASSUME EpInv, EpApart, EpPrinted, EpInv', [E!Next]_ep
  PROVE  EpApart' /\ EpPrinted'
<1>1. CASE ~E!modinit
  BY <1>1, KernelUnnoticed, EpPrintedKernel
<1>2. CASE E!modinit
  <2>1. UNCHANGED <<state, tasks, threads, stale, changed, drifted>>
    BY <1>2, ReaderSteps
  <2>2. EpApart'
    BY <2>1 DEF EpApart
  <2>3. \A k \in 1..4 : E!types[k]' = E!types[k]
    BY DEF E!types
  <2>4. CASE E!find_get_pid
    <3>1. pc = "find" /\ type = 1 /\ UNCHANGED <<type, printed>> /\ pc' \in {"lock", "done"}
      BY <2>4 DEF E!find_get_pid, EpPrinted
    <3>2. ~E!Walked' /\ ~E!Reading'
      BY <3>1, SameTypes DEF E!Walked, E!Reading, E!types
    <3>3. \A k \in 1..4 : PrintedFor(k, E!types[k])'
      BY <3>1, <3>2 DEF PrintedFor
    <3> QED BY <2>2, <3>1, <3>3 DEF EpPrinted, E!types
  <2>5. CASE E!rcu_read_lock
    <3>1. /\ pc = "lock" /\ type = 1 /\ UNCHANGED <<type, printed>> /\ pc' = "walk"
          /\ cur' = E!First(tasks[E!types[1]][pid])
      BY <2>5 DEF E!rcu_read_lock, EpPrinted
    <3>2. \A k \in 1..4 : printed[E!types[k]] = NothingYet
      BY <3>1 DEF EpPrinted
    <3>3. PrintedFor(1, E!types[1])'
      BY <2>1, <3>1, <3>2, EpPrintedHead
    <3>4. \A k \in 1..4 : k # 1 => PrintedFor(k, E!types[k])'
      BY <3>1 DEF PrintedFor, E!Walked
    <3> QED BY <2>2, <3>1, <3>2, <3>3, <3>4 DEF EpPrinted, E!types
  <2>6. CASE E!put_pid
    <3>1. pc = "put" /\ UNCHANGED <<type, printed>> /\ pc' = "done" /\ E!Walked /\ ~E!Reading'
      BY <2>6 DEF E!put_pid, E!Walked, E!Reading
    <3>2. ASSUME NEW k \in 1..4, E!types[k] \notin drifted PROVE PrintedFor(k, E!types[k])'
      <4>1. Lst(E!types[k])' = Lst(E!types[k]) /\ Chg(E!types[k])' = Chg(E!types[k])
        BY <2>1, <2>3 DEF Lst, Chg
      <4>2. PrintedFor(k, E!types[k])
        BY <3>2 DEF EpPrinted
      <4> QED BY <2>3, <3>1, <4>1, <4>2 DEF PrintedFor
    <3> QED BY <2>1, <2>2, <3>1, <3>2 DEF EpPrinted, E!types
  <2>7. CASE E!NextType
    BY <2>2, <2>7, EpPrintedNext
  <2>8. CASE E!hlist_for_each_entry_rcu \/ E!print_all_threads
    BY <2>2, <2>8, EpPrintedEntry
  <2> QED BY <1>2, <2>4, <2>5, <2>6, <2>7, <2>8 DEF E!modinit
<1> QED BY <1>1, <1>2

(* It gives what is asked of enum_pids. *)
LEMMA EpPrintedSafe == ASSUME EpInv, EpApart, EpPrinted PROVE E!MembersPrintedOnce
<1> SUFFICES ASSUME E!Walked, NEW ty \in PidTypes \ drifted, NEW t \in PidTask
             PROVE  IF <<ty, t>> \in changed THEN printed[ty][t] <= 1
                    ELSE printed[ty][t] = IF t \in E!Members(ty) THEN 1 ELSE 0
  BY SameTypes DEF E!MembersPrintedOnce
<1>1. PICK k \in 1..4 : ty = E!types[k]
  BY SameTypes DEF PidTypes
<1>2. Settled(Lst(ty), Chg(ty), printed[ty])
  BY <1>1 DEF EpPrinted, PrintedFor
<1>3. E!Members(ty) = Range(Lst(ty))
  <2>1. CASE ty # "TGID" \/ pid \in Leader
    BY <2>1, SameRange DEF E!Members, Lst
  <2>2. CASE ty = "TGID" /\ pid \notin Leader
    <3>1. Lst(ty) = <<>> /\ Range(<<>>) = {}
      BY <2>2 DEF Lst, Range
    <3>2. E!Members(ty) = Range(tasks["TGID"][pid])
      BY <2>2, SameRange DEF E!Members
    <3>3. pid \in PidTask /\ "TGID" \in PidTypes
      BY PidAssumption DEF PidTypes
    <3>4. tasks["TGID"][pid] \in Seq(PidTask) /\ Range(tasks["TGID"][pid]) \subseteq Leader
      BY <3>3 DEF EpInv, EpLists
    <3>5. Range(tasks["TGID"][pid]) = {}
      BY <2>2, <3>3, <3>4, PidAssumption DEF EpApart
    <3> QED BY <3>1, <3>2, <3>5
  <2> QED BY <2>1, <2>2
<1> QED BY <1>2, <1>3 DEF Settled, Chg
-------------------------------------------------------------------------------
(* The inductive invariant of all modules: the one that is loaded keeps  *)
(* its own, and the others do not change.                                *)
Inv ==
  /\ CdInv /\ RxInv /\ ShInv /\ UiInv /\ IoInv /\ TtInv /\ TrInv
  /\ EpInv /\ EpApart /\ EpPrinted

(* It holds at first. *)
LEMMA InvInit == Init => Inv
<1>1. Init => CdInv /\ RxInv /\ ShInv /\ UiInv /\ IoInv /\ TtInv /\ TrInv
  BY CdInit, RxInit, ShInit, UiInit, IoInit, TtInit, TrInit DEF Init
<1>2. Init => EpInv /\ EpApart /\ EpPrinted
  BY EpInit, EpApartInit, EpPrintedInit DEF Init
<1> QED BY <1>1, <1>2 DEF Inv

(* Every step of whichever module is loaded keeps it. *)
LEMMA InvStep == Inv /\ [Next]_vars => Inv'
<1> SUFFICES ASSUME Inv, [Next]_vars PROVE Inv'
  OBVIOUS
<1>1. /\ [C!Next]_cd /\ [X!Next]_rx /\ [S!Next]_sh /\ [U!Next]_ui
      /\ [I!Next]_io /\ [T!Next]_tt /\ [E!Next]_ep /\ [R!Next]_tr
  BY DEF Next, vars
<1>2. CdInv' /\ RxInv' /\ ShInv' /\ UiInv'
  BY <1>1, CdStep, RxStep, ShStep, UiStep DEF Inv
<1>3. IoInv' /\ TtInv' /\ EpInv' /\ TrInv'
  BY <1>1, IoStep, TtStep, EpStep, TrStep DEF Inv
<1>4. EpApart' /\ EpPrinted'
  BY <1>1, <1>3, EpPrintedStep DEF Inv
<1> QED BY <1>2, <1>3, <1>4 DEF Inv

(* It holds in every state of every behaviour, whichever module is       *)
(* loaded and however many users, tasks and events there are.            *)
THEOREM InvHolds == Spec => []Inv
BY InvInit, InvStep, PTL DEF Spec

(* A module that is gone has left nothing in the kernel: not the device, *)
(* its class or its number of test_chardev, though its struct cdev, not  *)
(* the entry of the system call table unless a protection call failed,   *)
(* no references of task_rss, and of what the init-only modules got only *)
(* the struct pid of task_rss_from_pid. For all users, processes and     *)
(* lengths.                                                              *)
THEOREM ModulesLeaveNothingBehind == Spec => []NothingLeftBehind
<1>1. Inv => NothingLeftBehind
  BY CdSafe, ShSafe, TrSafe, IoSafe DEF Inv, NothingLeftBehind
<1> QED BY <1>1, InvHolds, PTL

(* At no moment of mychardev_init(), of its labels or of                 *)
(* mychardev_cleanup() is there a device without what it depends on, and *)
(* no init function uses or puts what it has not got.                    *)
THEOREM ModulesHoldDependencies == Spec => []DependenciesHeld
<1>1. Inv => DependenciesHeld
  BY CdSafe, IoSafe DEF Inv, DependenciesHeld
<1> QED BY <1>1, InvHolds, PTL

(* Nobody runs the text of a freed module or reads a freed task: not     *)
(* with the device open, in a kprobe, or in the read-side section of     *)
(* enum_pids, and in read(2) and in a trap only by the races that the    *)
(* modules leave open. For any number of tasks, threads, forks, exits    *)
(* and moves.                                                            *)
THEOREM ModulesUseNothingFreed == Spec => []NothingFreedIsUsed
<1>1. Inv => NothingFreedIsUsed
  BY CdSafe, RxSafe, ShSafe, UiSafe, EpSafe DEF Inv, NothingFreedIsUsed
<1> QED BY <1>1, InvHolds, PTL

(* test_chardev: however reads are cut, byte k is content[k % length],   *)
(* for every length and every number of processes.                       *)
THEOREM DeviceRepeatsContent == Spec => []StreamRepeatsContent
<1>1. Inv => StreamRepeatsContent
  BY CdSafe DEF Inv, StreamRepeatsContent
<1> QED BY <1>1, InvHolds, PTL

(* read_implies_exec: an execve(2) under the live module gets both       *)
(* halves.                                                               *)
THEOREM ExecGetsBothHalves == Spec => []LiveExecGetsBoth
<1>1. Inv => LiveExecGetsBoth
  BY RxSafe DEF Inv, LiveExecGetsBoth
<1> QED BY <1>1, InvHolds, PTL

(* read_implies_exec: up to rmmod no execve(2) gets the first half       *)
(* alone, since insmod registers setup_arg_pages first.                  *)
THEOREM ExecGetsNoHalf == Spec => []NoHalfWhileLoading
<1>1. Inv => NoHalfWhileLoading
  BY RxSafe DEF Inv, NoHalfWhileLoading
<1> QED BY <1>1, InvHolds, PTL

(* syscall_hijack: every read(2) passes myread() once at most, on its    *)
(* way to the kernel's.                                                  *)
THEOREM ReadsGetThrough == Spec => []ReadGetsThrough
<1>1. Inv => ReadGetsThrough
  BY ShSafe DEF Inv, ReadGetsThrough
<1> QED BY <1>1, InvHolds, PTL

(* task_bfs_dfs: every task on the queue, and the one processed, is kept *)
(* by references that match the queue, whatever the system does; for     *)
(* every set of tasks and any bound of the queue.                        *)
THEOREM WalkKeepsQueuedTasks == Spec => []QueuedTasksKept
<1>1. Inv => QueuedTasksKept
  BY TtSafe DEF Inv, QueuedTasksKept
<1> QED BY <1>1, InvHolds, PTL

(* task_bfs_dfs and task_rss: as long as nobody exits, the walks without *)
(* a lock touch tasks only, print nobody twice and leave nobody out.     *)
THEOREM WalksSurviveForks == Spec => []ForksDoNoHarm
<1>1. Inv => ForksDoNoHarm
  BY TtSafe, TrSafe DEF Inv, ForksDoNoHarm
<1> QED BY <1>1, InvHolds, PTL

(* enum_pids: whatever is created or exits while the module reads, a     *)
(* task that is on a list of the struct pid all the time is printed      *)
(* exactly once for its type, one that comes or goes at most once and    *)
(* nobody else, unless a process changes group or session; for any       *)
(* number of tasks, threads, forks and exits.                            *)
THEOREM EnumPrintsMembersOnce == Spec => []MembersPrintedOnce
<1>1. Inv => MembersPrintedOnce
  BY EpPrintedSafe DEF Inv, MembersPrintedOnce
<1> QED BY <1>1, InvHolds, PTL
===============================================================================
