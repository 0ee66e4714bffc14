------------------------------- MODULE EnumPids -------------------------------
(***************************************************************************)
(* modules/enum_pids.c: prints the tasks on the lists of a struct pid, one *)
(* list per pid type, under rcu_read_lock(), while threads and processes   *)
(* are created and exit and processes change their group or session.  How  *)
(* the kernel keeps the lists, and RCU, is external: what is removed keeps *)
(* its next pointer, and what is added anew points into its new list.      *)
(***************************************************************************)
EXTENDS Naturals, Sequences, Functions, SequencesExt

CONSTANTS
  Task,    \* a task stands for its number and for the struct pid of it, too
  Leader,  \* those of them that lead a thread group
  pid,     \* the task whose number is the parameter
  MaxEvents  \* bound on what the rest of the system does

VARIABLES
  state,    \* each task: "unborn", "alive", "unhashed", "freed"
  tasks,    \* tasks[type][p]: the list pid->tasks[type] of p
  threads,  \* threads[l]: the list signal->thread_head of leader l
  stale,    \* stale[type][t]: the next pointer of t when it was taken off
  grace,    \* unhashed during the read-side section: not freed before its end
  pc,       \* "find", "lock", "walk", "thread", "put", "done"
  type,     \* the index of types that the loop is at
  cur,      \* the cursor of the hlist, and that of the threads
  thr,
  printed,  \* how often each task was printed for each type, up to twice
  ref,      \* references to the struct pid
  changed,  \* history: <<type, task>> added or taken off since rcu_read_lock()
  drifted,  \* history: types on which a task changed lists since then
  events    \* how much the rest of the system has done

vars == <<state, tasks, threads, stale, grace, pc, type, cur, thr, printed, ref,
          changed, drifted, events>>
kernel == <<state, tasks, threads, stale, grace, changed, drifted, events>>
reader == <<pc, type, cur, thr, printed, ref>>

NULL == "NULL"
types == <<"PID", "TGID", "PGID", "SID">>
Types == Range(types)

(* The read-side section. *)
Reading_NoLock == FALSE
Reading == pc \in {"walk", "thread"}

(* The group or session that a leader is in. *)
In(ty, l) == CHOOSE p \in Leader : l \in Range(tasks[ty][p])
LeaderOf(t) == IF t \in Leader THEN t ELSE CHOOSE l \in Leader : t \in Range(threads[l])

Without(s, t) ==
  IF t \in Range(s) THEN RemoveAt(s, CHOOSE k \in DOMAIN s : s[k] = t) ELSE s
After(s, t) == LET i == CHOOSE i \in DOMAIN s : s[i] = t
               IN  IF i = Len(s) THEN NULL ELSE s[i + 1]
First(s) == IF s = <<>> THEN NULL ELSE Head(s)

(* All processes are in one session and in the group of its leader. *)
Init ==
  /\ \E L \in SUBSET Leader, T \in SUBSET (Task \ Leader), s \in Leader :
       /\ {s, pid} \cap Leader \subseteq L
       /\ state = [t \in Task |-> IF t \in L \cup T THEN "alive" ELSE "unborn"]
       /\ tasks = [ty \in Types |-> [p \in Task |->
            CASE ty = "PID"  -> IF p \in L \cup T THEN <<p>> ELSE <<>>
              [] ty = "TGID" -> IF p \in L THEN <<p>> ELSE <<>>
              [] OTHER       -> IF p = s THEN SetToSeq(L) ELSE <<>>]]
       /\ threads = [l \in Leader |->
            IF l \notin L THEN <<>>
            ELSE IF l = s THEN <<l>> \o SetToSeq(T) ELSE <<l>>]
  /\ stale = [ty \in Types \cup {"thread"} |-> [t \in Task |-> NULL]]
  /\ grace = {} /\ changed = {} /\ drifted = {} /\ events = 0
  /\ pc = "find" /\ type = 1 /\ cur = NULL /\ thr = NULL
  /\ printed = [ty \in Types |-> [t \in Task |-> 0]] /\ ref = 0
-------------------------------------------------------------------------------
(* Keeps the histories from rcu_read_lock() on. *)
Note(c, d) ==
  /\ changed' = IF pc \in {"find", "lock"} THEN {} ELSE changed \cup c
  /\ drifted' = IF pc \in {"find", "lock"} THEN {} ELSE drifted \cup d
  /\ events < MaxEvents /\ events' = events + 1

(* fork() puts a new process in front of its parent's group and session,   *)
(* clone() a new thread at the end of its process.                         *)
fork(p, c) ==
  /\ p \in Leader /\ c \in Leader /\ state[p] = "alive" /\ state[c] = "unborn"
  /\ state' = [state EXCEPT ![c] = "alive"]
  /\ tasks' = [ty \in Types |->
       LET of == IF ty \in {"PID", "TGID"} THEN c ELSE In(ty, p)
       IN  [tasks[ty] EXCEPT ![of] = <<c>> \o @]]
  /\ threads' = [threads EXCEPT ![c] = <<c>>]
  /\ Note(Types \X {c}, {})
  /\ UNCHANGED <<stale, grace, reader>>

clone(l, t) ==
  /\ l \in Leader /\ t \notin Leader /\ state[l] = "alive" /\ state[t] = "unborn"
  /\ state' = [state EXCEPT ![t] = "alive"]
  /\ tasks' = [tasks EXCEPT !["PID"][t] = <<t>>]
  /\ threads' = [threads EXCEPT ![l] = Append(@, t)]
  /\ Note({"PID", "TGID"} \X {t}, {})
  /\ UNCHANGED <<stale, grace, reader>>

(* A leader is unhashed after the other threads of its process. *)
unhash_process(t) ==
  /\ state[t] = "alive"
  /\ t \in Leader => threads[t] = <<t>>
  /\ LET on(ty) == {p \in Task : t \in Range(tasks[ty][p])} IN
     /\ stale' = [ty \in Types \cup {"thread"} |-> [stale[ty] EXCEPT ![t] =
          IF ty = "thread" THEN After(threads[LeaderOf(t)], t)
          ELSE IF on(ty) = {} THEN @
          ELSE After(tasks[ty][CHOOSE p \in on(ty) : TRUE], t)]]
     /\ tasks' = [ty \in Types |-> [p \in Task |-> Without(tasks[ty][p], t)]]
  /\ threads' = [l \in Leader |-> Without(threads[l], t)]
  /\ state' = [state EXCEPT ![t] = "unhashed"]
  /\ grace' = IF Reading THEN grace \cup {t} ELSE grace
  /\ Note(Types \X {t}, {})
  /\ UNCHANGED reader

free_task(t) ==
  /\ state[t] = "unhashed" /\ t \notin grace
  /\ state' = [state EXCEPT ![t] = "freed"]
  /\ UNCHANGED <<tasks, threads, stale, grace, changed, drifted, events, reader>>

(* setpgid(l, p): change_pid() takes l off one list and puts it in front   *)
(* of another, so that a cursor that is at l goes on there.                *)
Moved(ty, l, p) == [q \in Task |-> LET s == Without(tasks[ty][q], l)
                                   IN  IF q = p THEN <<l>> \o s ELSE s]

setpgid(l, p) ==
  /\ {l, p} \subseteq Leader /\ state[l] = "alive"
  /\ In("SID", l) # l /\ In("PGID", l) # p
  /\ p = l \/ \E m \in Range(tasks["PGID"][p]) : In("SID", m) = In("SID", l)
  /\ tasks' = [tasks EXCEPT !["PGID"] = Moved("PGID", l, p)]
  /\ Note({<<"PGID", l>>}, {"PGID"})
  /\ UNCHANGED <<state, threads, stale, grace, reader>>

setsid(l) ==
  /\ l \in Leader /\ state[l] = "alive"
  /\ tasks["PGID"][l] = <<>>
  /\ tasks' = [tasks EXCEPT !["PGID"] = Moved("PGID", l, l), !["SID"] = Moved("SID", l, l)]
  /\ Note({"PGID", "SID"} \X {l}, {"PGID", "SID"})
  /\ UNCHANGED <<state, threads, stale, grace, reader>>
-------------------------------------------------------------------------------
(* A struct pid is there as long as a task uses it. *)
find_get_pid ==
  /\ pc = "find"
  /\ IF \E ty \in Types : tasks[ty][pid] # <<>>
     THEN ref' = 1 /\ pc' = "lock" ELSE UNCHANGED ref /\ pc' = "done"
  /\ UNCHANGED <<kernel, type, cur, thr, printed>>

rcu_read_lock ==
  /\ pc = "lock"
  /\ cur' = First(tasks[types[type]][pid])
  /\ pc' = "walk"
  /\ UNCHANGED <<kernel, type, thr, printed, ref>>

(* hlist_for_each_entry_rcu() reads the next pointer of the cursor. *)
NextOf(ty, t) ==
  LET on == {p \in Task : t \in Range(tasks[ty][p])}
  IN  IF on = {} THEN stale[ty][t] ELSE After(tasks[ty][CHOOSE p \in on : TRUE], t)
NextThread(t) ==
  IF state[t] = "alive" THEN After(threads[LeaderOf(t)], t) ELSE stale["thread"][t]

print_task(ty, t) == printed' = [printed EXCEPT ![ty][t] = IF @ = 2 THEN 2 ELSE @ + 1]

(* One entry of a list; for the TGID list, its threads come first. *)
hlist_for_each_entry_rcu ==
  /\ pc = "walk" /\ cur # NULL
  /\ state[cur] # "freed"
  /\ IF types[type] = "TGID"
     THEN /\ pc' = "thread"
          /\ thr' = First(threads[cur])
          /\ UNCHANGED <<cur, printed>>
     ELSE /\ print_task(types[type], cur)
          /\ cur' = NextOf(types[type], cur)
          /\ UNCHANGED <<pc, thr>>
  /\ UNCHANGED <<kernel, type, ref>>

print_all_threads_FirstOnly ==
  /\ pc = "thread"
  /\ print_task("TGID", cur)
  /\ cur' = NextOf("TGID", cur)
  /\ pc' = "walk"
  /\ UNCHANGED <<kernel, type, thr, ref>>
print_all_threads ==
  /\ pc = "thread"
  /\ IF thr # NULL
     THEN /\ state[thr] # "freed"
          /\ print_task("TGID", thr)
          /\ thr' = NextThread(thr)
          /\ UNCHANGED <<pc, cur>>
     ELSE /\ cur' = NextOf("TGID", cur)
          /\ pc' = "walk"
          /\ UNCHANGED <<thr, printed>>
  /\ UNCHANGED <<kernel, type, ref>>

(* The next type, or rcu_read_unlock(). *)
NextType ==
  /\ pc = "walk" /\ cur = NULL
  /\ IF type < Len(types)
     THEN /\ type' = type + 1
          /\ cur' = First(tasks[types[type + 1]][pid])
          /\ UNCHANGED <<pc, grace>>
     ELSE /\ pc' = "put"
          /\ grace' = {}
          /\ UNCHANGED <<type, cur>>
  /\ UNCHANGED <<state, tasks, threads, stale, changed, drifted, events, thr, printed, ref>>

put_pid ==
  /\ pc = "put"
  /\ ref' = ref - 1
  /\ pc' = "done"
  /\ UNCHANGED <<kernel, type, cur, thr, printed>>

modinit ==
  \/ find_get_pid \/ rcu_read_lock \/ hlist_for_each_entry_rcu \/ print_all_threads
  \/ NextType \/ put_pid

Next ==
  /\ pc # "done"
  /\ \/ modinit
     \/ \E t \in Task : unhash_process(t) \/ free_task(t) \/ setsid(t)
     \/ \E t, u \in Task : fork(t, u) \/ clone(t, u) \/ setpgid(t, u)

Spec == Init /\ [][Next]_vars
-------------------------------------------------------------------------------
Members(ty) ==
  CASE ty = "TGID" /\ pid \in Leader -> Range(threads[pid])
    [] OTHER -> Range(tasks[ty][pid])
Walked == pc = "put" \/ (pc = "done" /\ type = Len(types))

(* The list entries that the module is at, or will get to by the pointers  *)
(* of entries that were removed under it, are not freed before it is past. *)
NoFreedTaskRead ==
  Reading => /\ cur # NULL => state[cur] # "freed"
             /\ pc = "thread" /\ thr # NULL => state[thr] # "freed"

(* Whatever is created or exits meanwhile: a task that is on the list all  *)
(* the time is printed once, and only tasks that are or were on it are     *)
(* printed.  If a process changes its group or session under the cursor,   *)
(* neither holds for that type.                                            *)
MembersPrintedOnce ==
  Walked =>
    \A ty \in Types \ drifted : \A t \in Task :
      IF <<ty, t>> \in changed THEN printed[ty][t] <= 1
      ELSE printed[ty][t] = IF t \in Members(ty) THEN 1 ELSE 0

(* "Enumerate all the tasks that have a given PID as pid, tgid, pgid or    *)
(* sid": if nothing changes, every task in the process group is printed.   *)
WholeGroupPrinted ==
  Walked /\ changed = {} =>
    \A l \in Range(tasks["PGID"][pid]) : \A t \in Range(threads[l]) :
      printed["PGID"][t] > 0
===============================================================================
