--------------------------- MODULE InheritCapability ---------------------------
(***************************************************************************)
(* userspace/inherit_capability.c: goes from root to an ordinary user and  *)
(* keeps one capability, with which it opens a file of root's.  The rules  *)
(* of capset(2), setresuid(2) and PR_SET_KEEPCAPS are the kernel's         *)
(* (external); any call may also fail for reasons of its own.              *)
(***************************************************************************)
EXTENDS Naturals, Sequences, Functions

VARIABLES
  start,           \* the credentials that the program was started with
  uid, gid,        \* the three user, and group, IDs are always equal
  E, I, P,         \* the capability sets of the process
  keep,            \* the "keep capabilities" flag
  at,              \* the index in main of the next call
  status,          \* "running", "SUCCESS" or "failed"
  unlucky          \* history: a call failed that need not have

vars == <<start, uid, gid, E, I, P, keep, at, status, unlucky>>

cap_list == <<"DAC_OVERRIDE", "SETUID", "SETGID", "SETPCAP">>
Four == Range(cap_list)
Cap == Four \cup {"SYS_ADMIN"}  \* and one for all the others
First == {cap_list[1]}

main_GidLast == <<"set_four", "keepcaps", "setresuid", "setresgid", "set_one", "fopen">>
main == <<"set_four", "keepcaps", "setresgid", "setresuid", "set_one", "fopen">>

(* root with everything or with nothing, and an ordinary user with the     *)
(* capabilities of the file, the one to keep or all.                       *)
Init ==
  /\ start \in [uid : {0, 1000, 1001}, caps : {{}, First, Cap}]
  /\ uid = start.uid /\ gid = start.uid
  /\ E = start.caps /\ P = start.caps /\ I = {}
  /\ keep = FALSE
  /\ at = 1 /\ status = "running" /\ unlucky = FALSE
-------------------------------------------------------------------------------
(* cap_set_proc(): nothing can be added to P, nor to I but from P or with  *)
(* CAP_SETPCAP, and E is within P.                                         *)
MaySet(e, i, p) ==
  /\ p \subseteq P /\ e \subseteq p
  /\ "SETPCAP" \in E \/ i \subseteq I \cup P

cap_set_proc(e, i, p) ==
  /\ E' = e /\ I' = i /\ P' = p
  /\ UNCHANGED <<uid, gid, keep>>

set_four == cap_set_proc(Four, First, Four)

(* caps was cleared: only what is set again remains. *)
set_one == cap_set_proc(First, {}, First)

keepcaps ==
  /\ keep' = TRUE
  /\ UNCHANGED <<uid, gid, E, I, P>>

setresgid ==
  /\ gid' = 1000
  /\ UNCHANGED <<uid, E, I, P, keep>>

(* Leaving user 0 empties E, and P as well unless capabilities are kept. *)
setresuid ==
  /\ uid' = 1000
  /\ E' = IF uid = 0 THEN {} ELSE E
  /\ P' = IF uid = 0 /\ ~keep THEN {} ELSE P
  /\ UNCHANGED <<gid, I, keep>>

fopen == UNCHANGED <<uid, gid, E, I, P, keep>>

(* What a call needs.  Without its capability an ID can be changed to      *)
(* itself only; "secret" is readable by its owner, root, only.             *)
May(c) ==
  CASE c = "set_four"  -> MaySet(Four, First, Four)
    [] c = "keepcaps"  -> TRUE
    [] c = "setresgid" -> "SETGID" \in E \/ gid = 1000
    [] c = "setresuid" -> "SETUID" \in E \/ uid = 1000
    [] c = "set_one"   -> MaySet(First, {}, First)
    [] c = "fopen"     -> uid = 0 \/ "DAC_OVERRIDE" \in E

Call(c) ==
  \/ c = "set_four" /\ set_four
  \/ c = "keepcaps" /\ keepcaps
  \/ c = "setresgid" /\ setresgid
  \/ c = "setresuid" /\ setresuid
  \/ c = "set_one" /\ set_one
  \/ c = "fopen" /\ fopen

Step ==
  /\ status = "running"
  /\ May(main[at]) /\ Call(main[at])
  /\ IF at = Len(main) THEN status' = "SUCCESS" /\ UNCHANGED at
                       ELSE at' = at + 1 /\ UNCHANGED status
  /\ UNCHANGED <<start, unlucky>>

(* Every failure ends the program. *)
Fail ==
  /\ status = "running"
  /\ status' = "failed"
  /\ unlucky' = May(main[at])
  /\ UNCHANGED <<start, uid, gid, E, I, P, keep, at>>

Next == Step \/ Fail

Spec == Init /\ [][Next]_vars
-------------------------------------------------------------------------------
(* Success means that the file was opened by an ordinary user with nothing *)
(* but the one capability, and without the means to get back any other;    *)
(* and whoever starts with all capabilities gets there, if no call fails   *)
(* that need not: the calls come in an order in which each leaves the next *)
(* what it needs.                                                          *)
OneCapabilityKept ==
  /\ status = "SUCCESS" => /\ <<uid, gid>> = <<1000, 1000>>
                           /\ E = First /\ P = First /\ I = {}
  /\ status = "failed" /\ start.caps = Cap => unlucky
===============================================================================
