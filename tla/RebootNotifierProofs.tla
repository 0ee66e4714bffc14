------------------------- MODULE RebootNotifierProofs -------------------------
(***************************************************************************)
(* Proofs about RebootNotifier for any number of callers.  The invariants  *)
(* of the runs are not inductive by themselves: Loaded ties the notifier   *)
(* chain to the module's life, and Token follows the one complete().       *)
(***************************************************************************)
EXTENDS RebootNotifier, TLAPS

(* Who can be inside my_notifier(), and since when there is a thread. *)
Loaded ==
  /\ registered <=> module \in {"registered", "live", "unloading"}
  /\ module \in {"loading", "registered"} => kthread = "none"
  /\ kthread = "oops" => module = "freed"
  /\ \A c \in Caller : InNotifier(c) => registered

(* Before the job is finished there is no token and nobody was let go;     *)
(* afterwards the token is there or somebody has used it.                  *)
Token ==
  /\ kthread \in {"none", "failed", "start", "msleep", "complete"} =>
       done = 0 /\ \A c \in Caller : pc[c] # "return"
  /\ JobFinished /\ done = 0 => \E c \in Caller : pc[c] \in {"return", "passed"}

IInv == TypeOK /\ Loaded /\ Token
-------------------------------------------------------------------------------
(* The initial state of insmod satisfies the invariant. *)
LEMMA InitIInv == Init => IInv
BY DEF Init, IInv, TypeOK, Loaded, Token, InNotifier, JobFinished

(* What one caller's move does to the others. *)
LEMMA GotoFacts ==
  ASSUME TypeOK, NEW c \in Caller, NEW l, Goto(c, l),
         l \in {"check", "wait", "return", "passed"}
  PROVE  /\ pc' \in [Caller -> {"idle", "check", "wait", "return", "passed"}]
         /\ pc'[c] = l
         /\ \A d \in Caller : d # c => pc'[d] = pc[d]
BY DEF TypeOK, Goto

(* insmod and rmmod. *)
LEMMA ModuleIInv ==
  ASSUME IInv, Load \/ rmmod \/ Unload
  PROVE  IInv'
<1> USE DEF IInv, TypeOK, Loaded, Token, InNotifier, JobFinished, ChainIdle
<1>1. CASE register_reboot_notifier
  BY <1>1 DEF register_reboot_notifier
<1>2. CASE kthread_run
  BY <1>2 DEF kthread_run
<1>3. CASE rmmod
  BY <1>3 DEF rmmod
<1>4. CASE modexit
  BY <1>4 DEF modexit
<1> QED BY <1>1, <1>2, <1>3, <1>4 DEF Load, Unload

(* waste_time(), in the module's text or in what is left of it. *)
LEMMA ThreadIInv ==
  ASSUME IInv, Thread
  PROVE  IInv'
<1> USE DEF IInv, TypeOK, Loaded, Token, InNotifier, JobFinished, TextMapped
<1>1. CASE waste_time
  BY <1>1 DEF waste_time
<1>2. CASE waste_time_Oops
  BY <1>2 DEF waste_time_Oops
<1> QED BY <1>1, <1>2 DEF Thread

(* A caller in blocking_notifier_call_chain() and my_notifier(). *)
LEMMA CallerIInv ==
  ASSUME IInv, NEW c \in Caller, call_chain(c) \/ Shutdown(c)
  PROVE  IInv'
<1>1. CASE call_chain(c)
  <2> DEFINE l == IF registered THEN "check" ELSE "passed"
  <2>1. /\ pc' \in [Caller -> {"idle", "check", "wait", "return", "passed"}]
        /\ pc'[c] = l
        /\ \A d \in Caller : d # c => pc'[d] = pc[d]
    BY <1>1, GotoFacts DEF call_chain, IInv
  <2>2. pc[c] = "idle" /\ UNCHANGED <<module, registered, kthread, done, machine>>
    BY <1>1 DEF call_chain
  <2> QED BY <2>1, <2>2
      DEF IInv, TypeOK, Loaded, Token, InNotifier, JobFinished
<1>2. CASE completion_done(c)
  <2> DEFINE l == IF done > 0 THEN "return" ELSE "wait"
  <2>1. /\ pc' \in [Caller -> {"idle", "check", "wait", "return", "passed"}]
        /\ pc'[c] = l
        /\ \A d \in Caller : d # c => pc'[d] = pc[d]
    BY <1>2, GotoFacts DEF completion_done, IInv
  <2>2. pc[c] = "check" /\ UNCHANGED <<module, registered, kthread, done, machine>>
    BY <1>2 DEF completion_done
  <2> QED BY <2>1, <2>2
      DEF IInv, TypeOK, Loaded, Token, InNotifier, JobFinished
<1>3. CASE wait_for_completion(c)
  <2>1. /\ pc' \in [Caller -> {"idle", "check", "wait", "return", "passed"}]
        /\ pc'[c] = "return"
        /\ \A d \in Caller : d # c => pc'[d] = pc[d]
    BY <1>3, GotoFacts DEF wait_for_completion, IInv
  <2>2. /\ pc[c] = "wait" /\ done = 1 /\ done' = 0
        /\ UNCHANGED <<module, registered, kthread, machine>>
    BY <1>3 DEF wait_for_completion, IInv, TypeOK
  <2> QED BY <2>1, <2>2
      DEF IInv, TypeOK, Loaded, Token, InNotifier, JobFinished
<1>4. CASE return(c)
  <2>1. /\ pc' \in [Caller -> {"idle", "check", "wait", "return", "passed"}]
        /\ pc'[c] = "passed"
        /\ \A d \in Caller : d # c => pc'[d] = pc[d]
    BY <1>4, GotoFacts DEF return, IInv
  <2>2. pc[c] = "return" /\ UNCHANGED <<module, registered, kthread, done, machine>>
    BY <1>4 DEF return
  <2> QED BY <2>1, <2>2
      DEF IInv, TypeOK, Loaded, Token, InNotifier, JobFinished
<1>5. CASE machine_down(c)
  BY <1>5 DEF machine_down, IInv, TypeOK, Loaded, Token, InNotifier, JobFinished
<1> QED BY <1>1, <1>2, <1>3, <1>4, <1>5 DEF Shutdown
-------------------------------------------------------------------------------
(* The strengthened invariant holds for every interleaving of insmod,      *)
(* rmmod, the thread and the callers.                                      *)
THEOREM NotifierInvariant == Spec => []IInv
<1>1. IInv /\ [Next]_vars => IInv'
  <2>1. IInv /\ Next => IInv'
    BY ModuleIInv, ThreadIInv, CallerIInv DEF Next
  <2>2. IInv /\ UNCHANGED vars => IInv'
    BY DEF vars, IInv, TypeOK, Loaded, Token, InNotifier, JobFinished
  <2> QED BY <2>1, <2>2
<1> QED BY InitIInv, <1>1, PTL DEF Spec

(* Every variable keeps its type; the completion's counter stays 0 or 1.   *)
THEOREM NotifierTypeOK == Spec => []TypeOK
<1>1. IInv => TypeOK
  BY DEF IInv
<1> QED BY <1>1, NotifierInvariant, PTL

(* rmmod never frees my_notifier() under a caller that is inside it. *)
THEOREM NotifierNeverFreed == Spec => []NotifierMapped
<1>1. IInv => NotifierMapped
  BY DEF IInv, Loaded, NotifierMapped, TextMapped
<1> QED BY <1>1, NotifierInvariant, PTL

(* my_notifier() returns only when waste_time() has called complete(). *)
THEOREM JobPrecedesRelease == Spec => []JobBeforeRelease
<1>1. IInv => JobBeforeRelease
  BY DEF IInv, TypeOK, Loaded, Token, JobBeforeRelease, JobFinished, InNotifier
<1> QED BY <1>1, NotifierInvariant, PTL

(* The single complete() always releases a caller that goes on to take the *)
(* machine down, however many of them wait.                                *)
THEOREM ReleaseNeverLost == Spec => []NoLostRelease
<1>1. IInv => NoLostRelease
  BY DEF IInv, Token, NoLostRelease
<1> QED BY <1>1, NotifierInvariant, PTL
===============================================================================
