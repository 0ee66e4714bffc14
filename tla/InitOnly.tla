------------------------------- MODULE InitOnly -------------------------------
(***************************************************************************)
(* The modules that do all they do in their init function: modules/        *)
(* find_root_dev.c, kallsyms.c, task_rss_from_pid.c and test_hashtable.c.  *)
(* Each is a program of calls that get something from the kernel, use it   *)
(* or give it back; any get or checked use may fail, and jumps to a label. *)
(***************************************************************************)
EXTENDS Naturals, Sequences

VARIABLES
  program,  \* the module that is loaded
  line,     \* the call that its init function has come to
  held,     \* what it has got and not given back
  misused   \* history: what it used or gave back without having it

vars == <<program, line, held, misused>>

(* A call, the thing it is about, and the line to go to when it fails (0   *)
(* for a call that cannot fail or whose result is not looked at).          *)
get(x, label) == [op |-> "get", of |-> x, fail |-> label]
use(x, label) == [op |-> "use", of |-> x, fail |-> label]
put(x) == [op |-> "put", of |-> x, fail |-> 0]

(* The labels bdevname_fail (5) and bdget_fail, vfs_getattr_fail (6). *)
findrootdev_init_WrongLabel ==
  <<get("path", 7), use("path", 6), get("bdev", 5), use("bdev", 5),
    put("bdev"), put("path")>>
findrootdev_init ==
  <<get("path", 7), use("path", 6), get("bdev", 6), use("bdev", 5),
    put("bdev"), put("path")>>

(* The kprobe is on the stack of modinit(): kp.addr is read while it is    *)
(* registered.                                                             *)
kallsyms_modinit == <<get("kprobe", 4), use("kprobe", 0), put("kprobe")>>

(* No mm is an answer, not an error.  The struct pid of find_get_pid() is  *)
(* lost in the argument list.                                              *)
task_rss_modinit ==
  <<get("pid", 8), get("task", 8), use("task", 0), get("mm", 7), use("mm", 0),
    put("mm"), put("task")>>

(* The nodes in the table are on the stack of myhashtable_init(). *)
myhashtable_init_NodeLeft ==
  <<get("a", 0), get("b", 0), use("a", 0), use("b", 0), put("a")>>
myhashtable_init ==
  <<get("a", 0), get("b", 0), use("a", 0), use("b", 0), put("a"), put("b")>>

Code == [find_root_dev |-> findrootdev_init, kallsyms |-> kallsyms_modinit,
         task_rss_from_pid |-> task_rss_modinit, test_hashtable |-> myhashtable_init]

Init ==
  /\ program \in DOMAIN Code
  /\ line = 1 /\ held = {} /\ misused = {}

Returned == line > Len(Code[program])

Call ==
  /\ ~Returned
  /\ LET c == Code[program][line] IN
       \/ /\ held' = CASE c.op = "get" -> held \cup {c.of}
                       [] c.op = "put" -> held \ {c.of}
                       [] c.op = "use" -> held
          /\ misused' = IF c.op = "get" \/ c.of \in held THEN misused
                                                         ELSE misused \cup {c.of}
          /\ line' = line + 1
       \/ /\ c.fail # 0
          /\ line' = c.fail
          /\ UNCHANGED <<held, misused>>
  /\ UNCHANGED program

Next == Call
Spec == Init /\ [][Next]_vars
-------------------------------------------------------------------------------
(* Whatever call failed, init has given everything back when it returns,   *)
(* but for the struct pid that task_rss_from_pid never puts.               *)
GivenBack == Returned => held \subseteq {"pid"}

(* Nothing is used or given back that the module does not have, whichever  *)
(* label a failure jumped to.                                              *)
NothingMisused == misused = {}
===============================================================================
