-------------------------------- MODULE CharDev --------------------------------
(***************************************************************************)
(* modules/test_chardev.c: a character device that repeats one string.     *)
(* insmod acquires four resources one after the other and unwinds what it  *)
(* has when one fails; rmmod gives them back; processes open, read and     *)
(* close the device as soon as the cdev is live.  chrdev_open(), which     *)
(* takes a reference to the module, and delete_module() are external.      *)
(***************************************************************************)
EXTENDS Integers, Sequences

CONSTANTS
  Process,  \* the users of the device
  Lengths,  \* lengths of the module parameter content
  MaxOff    \* bound on the file offset

VARIABLES
  mebeim_content_length,
  pc,      \* where mychardev_init() or mychardev_cleanup() is
  held,    \* what the module has got from the kernel
  file,    \* each process: "closed", "open", or "oops" when read killed it
  off,     \* its file offset
  stream   \* what it has read since it opened the device, as indices of content

vars == <<mebeim_content_length, pc, held, file, off, stream>>
files == <<file, off, stream>>

Init ==
  /\ mebeim_content_length \in Lengths
  /\ pc = "alloc_chrdev_region"
  /\ held = {}
  /\ file = [p \in Process |-> "closed"]
  /\ off = [p \in Process |-> 0]
  /\ stream = [p \in Process |-> <<>>]
-------------------------------------------------------------------------------
(* One call of mychardev_init(): it gets a resource and goes on, or fails  *)
(* and jumps to a label.                                                   *)
Acquire(r, next, label) ==
  /\ \/ held' = held \cup {r} /\ pc' = next
     \/ held' = held /\ pc' = label
  /\ UNCHANGED <<mebeim_content_length, files>>

Release(r, next) ==
  /\ held' = held \ {r}
  /\ pc' = next
  /\ UNCHANGED <<mebeim_content_length, files>>

alloc_chrdev_region ==
  /\ pc = "alloc_chrdev_region"
  /\ Acquire("region", "class_create", "fail_chrdev_alloc")

class_create_WrongLabel ==
  /\ pc = "class_create"
  /\ Acquire("class", "cdev_alloc", "fail_chrdev_alloc")

class_create ==
  /\ pc = "class_create"
  /\ Acquire("class", "cdev_alloc", "fail_class_create")

(* cdev_alloc() says NULL when it fails, which IS_ERR() does not notice:   *)
(* the next thing is cdev_init(NULL).  After cdev_init() the struct cdev   *)
(* counts as part of something larger: the kernel does not free it any     *)
(* more when its last reference goes.                                      *)
cdev_alloc ==
  /\ pc = "cdev_alloc"
  /\ Acquire("cdev", "cdev_add", "oops")

(* The cdev is live: the device can be opened before init is over. *)
cdev_add ==
  /\ pc = "cdev_add"
  /\ Acquire("live", "device_create", "fail_cdev_add")

device_create ==
  /\ pc = "device_create"
  /\ Acquire("device", "loaded", "fail_cdev_add")

(* The labels fall through to each other.  cdev_del() takes back what      *)
(* cdev_add() did, if it did; the struct cdev stays allocated.             *)
fail_cdev_add ==
  /\ pc = "fail_cdev_add"
  /\ Release("live", "fail_cdev_alloc")

fail_cdev_alloc ==
  /\ pc = "fail_cdev_alloc"
  /\ Release("class", "fail_class_create")

fail_class_create ==
  /\ pc = "fail_class_create"
  /\ Release("region", "fail_chrdev_alloc")

(* init returned an error: the module is freed, whoever refers to it. *)
fail_chrdev_alloc ==
  /\ pc = "fail_chrdev_alloc"
  /\ pc' = "failed"
  /\ UNCHANGED <<mebeim_content_length, held, files>>

(* Without cdevice->owner = THIS_MODULE an open file holds no reference. *)
rmmod_OwnerNotSet ==
  /\ pc = "loaded"
  /\ pc' = "device_destroy"
  /\ UNCHANGED <<mebeim_content_length, held, files>>

(* delete_module(2) refuses while a file is open. *)
rmmod ==
  /\ pc = "loaded"
  /\ \A p \in Process : file[p] = "closed"
  /\ pc' = "device_destroy"
  /\ UNCHANGED <<mebeim_content_length, held, files>>

mychardev_cleanup_DeviceLast ==
  \/ pc = "device_destroy" /\ Release("live", "cdev_del")
  \/ pc = "cdev_del" /\ Release("class", "class_destroy")
  \/ pc = "class_destroy" /\ Release("device", "unregister_chrdev_region")
  \/ pc = "unregister_chrdev_region" /\ Release("region", "unloaded")

mychardev_cleanup ==
  \/ pc = "device_destroy" /\ Release("device", "cdev_del")
  \/ pc = "cdev_del" /\ Release("live", "class_destroy")
  \/ pc = "class_destroy" /\ Release("class", "unregister_chrdev_region")
  \/ pc = "unregister_chrdev_region" /\ Release("region", "unloaded")

Unloading == pc \in {"device_destroy", "cdev_del", "class_destroy",
                     "unregister_chrdev_region"}
Freed == pc \in {"failed", "unloaded"}
-------------------------------------------------------------------------------
(* chrdev_open() finds the cdev and takes a reference to its owner, unless *)
(* that is being unloaded.                                                 *)
open(p) ==
  /\ file[p] = "closed"
  /\ "live" \in held
  /\ ~Unloading
  /\ file' = [file EXCEPT ![p] = "open"]
  /\ off' = [off EXCEPT ![p] = 0]
  /\ stream' = [stream EXCEPT ![p] = <<>>]
  /\ UNCHANGED <<mebeim_content_length, pc, held>>

close(p) ==
  /\ file[p] = "open"
  /\ ~Freed
  /\ file' = [file EXCEPT ![p] = "closed"]
  /\ UNCHANGED <<mebeim_content_length, pc, held, off, stream>>

read_mebeim_OffsetKept(p, n) ==
  /\ file[p] = "open"
  /\ ~Freed
  /\ mebeim_content_length > 0
  /\ off[p] + n <= MaxOff
  /\ stream' = [stream EXCEPT ![p] =
       @ \o [i \in 1..n |-> (i - 1 + off[p]) % mebeim_content_length]]
  /\ UNCHANGED <<mebeim_content_length, pc, held, file, off>>

(* read(2) of n bytes; write_mebeim() leaves everything as it is. *)
read_mebeim(p, n) ==
  /\ file[p] = "open"
  /\ ~Freed
  /\ mebeim_content_length > 0
  /\ off[p] + n <= MaxOff
  /\ stream' = [stream EXCEPT ![p] =
       @ \o [i \in 1..n |-> (i - 1 + off[p]) % mebeim_content_length]]
  /\ off' = [off EXCEPT ![p] = @ + n]
  /\ UNCHANGED <<mebeim_content_length, pc, held, file>>

(* With an empty content the first index is taken modulo 0; and whoever    *)
(* opened the device before a device_create() that failed finds the module *)
(* freed, with whatever call it makes.  The process dies in the kernel and *)
(* its file is never closed.                                               *)
read_mebeim_Oops(p) ==
  /\ file[p] = "open"
  /\ mebeim_content_length = 0 \/ Freed
  /\ file' = [file EXCEPT ![p] = "oops"]
  /\ UNCHANGED <<mebeim_content_length, pc, held, off, stream>>

Insmod ==
  \/ alloc_chrdev_region \/ class_create \/ cdev_alloc \/ cdev_add \/ device_create
  \/ fail_cdev_add \/ fail_cdev_alloc \/ fail_class_create \/ fail_chrdev_alloc

Next ==
  \/ Insmod \/ rmmod \/ mychardev_cleanup
  \/ \E p \in Process :
       \/ open(p) \/ close(p) \/ read_mebeim_Oops(p)
       \/ \E n \in 1..MaxOff : read_mebeim(p, n)

Spec == Init /\ [][Next]_vars
-------------------------------------------------------------------------------
(* A module that is freed has left nothing behind but the struct cdev,     *)
(* whichever call failed and however it went away.  That one cdev_del()    *)
(* cannot free after cdev_init(), so that every unload leaks it.           *)
NothingLeftBehind ==
  /\ Freed => held \subseteq {"cdev"}
  /\ pc = "unloaded" => held = {"cdev"}

(* What depends on something else is never there without it: at no moment  *)
(* of loading, unwinding or unloading does the device node, or the cdev    *)
(* that can be opened, outlive the class or the device number.             *)
DependenciesHeld ==
  /\ "device" \in held => {"live", "class"} \subseteq held
  /\ "live" \in held => {"cdev", "class", "region"} \subseteq held

(* Once loaded, the module is not freed under a process that has it open.  *)
OpenFilePinsModule == pc = "unloaded" => \A p \in Process : file[p] = "closed"

(* "Silly character device always spitting out the same string over and    *)
(* over": however a process cuts its reads, byte k is content[k % length]. *)
StreamRepeatsContent ==
  \A p \in Process : \A k \in 1..Len(stream[p]) :
    stream[p][k] = (k - 1) % mebeim_content_length
===============================================================================
