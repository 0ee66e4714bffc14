----------------------------- MODULE FtraceHelper -----------------------------
(***************************************************************************)
(* userspace/ftrace_helper.c: configures the function tracer for itself,   *)
(* traces a piece of code and dumps the trace.  Runs follow one another on *)
(* what the last one left in tracefs, however it ended; other processes    *)
(* run all the time.  What writes to tracefs do is external: none of these *)
(* files is opened with O_TRUNC, so "trace" is not cleared and pids are    *)
(* added to set_ftrace_pid; a new tracer starts with an empty buffer.      *)
(***************************************************************************)
EXTENDS Naturals, Sequences

CONSTANT Runs  \* bound: how often the helper is run

VARIABLES
  run,         \* which run this is
  pid,         \* its pid, a new one or one that an earlier run had
  left_over,   \* history: the pids that it found in set_ftrace_pid
  status,      \* "running", "exit0" or "exit1"
  at,          \* the index in main of the call it is at
  tracing_on, current_tracer, set_ftrace_pid,
  trace,       \* the buffer: on whose account a call was traced, and where in main
  dumped       \* what the run has printed

runs == <<run, pid, left_over>>
vars == <<runs, status, at, tracing_on, current_tracer, set_ftrace_pid, trace, dumped>>
tracefs == <<tracing_on, current_tracer, set_ftrace_pid, trace>>

main_StartsEarly ==
  <<"open", "stop_tracing", "clear_trace", "set_tracer", "start_tracing", "set_pid",
    "set_filter", "fun", "stop_tracing", "dump_trace">>
main ==
  <<"open", "stop_tracing", "clear_trace", "set_tracer", "set_pid", "set_filter",
    "start_tracing", "fun", "stop_tracing", "dump_trace">>

(* A machine on which nobody has used ftrace before. *)
Init ==
  /\ run = 1 /\ pid = 1 /\ left_over = {} /\ status = "running" /\ at = 1
  /\ tracing_on = TRUE /\ current_tracer = "nop" /\ set_ftrace_pid = {}
  /\ trace = {} /\ dumped = {}

-------------------------------------------------------------------------------
(* What a call does when it succeeds; the filter is left as it is. *)
Done(call) ==
  /\ tracing_on' = CASE call = "start_tracing" -> TRUE
                     [] call = "stop_tracing" -> FALSE
                     [] OTHER -> tracing_on
  /\ current_tracer' = IF call = "set_tracer" THEN "function" ELSE current_tracer
  /\ set_ftrace_pid' = IF call = "set_pid" THEN set_ftrace_pid \cup {pid} ELSE set_ftrace_pid
  /\ trace' = IF call = "set_tracer" /\ current_tracer # "function" THEN {} ELSE trace
  /\ dumped' = IF call = "dump_trace" THEN trace ELSE dumped

Call ==
  /\ status = "running"
  /\ Done(main[at])
  /\ IF at = Len(main) THEN status' = "exit0" /\ UNCHANGED at
                       ELSE at' = at + 1 /\ UNCHANGED status
  /\ UNCHANGED runs

(* errf_exit(), or a signal: nothing is undone. *)
errf_exit ==
  /\ status = "running" /\ status' = "exit1"
  /\ UNCHANGED <<runs, at, tracefs, dumped>>

RunAgain ==
  /\ status # "running" /\ run < Runs
  /\ run' = run + 1 /\ pid' \in 1..(run + 1) /\ left_over' = set_ftrace_pid
  /\ status' = "running" /\ at' = 1 /\ dumped' = {}
  /\ UNCHANGED tracefs

(* On whose account a call of process p is traced: everybody's, as no pid  *)
(* is set, that of a pid which was set for a run that is over, or that of  *)
(* the helper.  0 is a process whose pid no helper ever had.               *)
Account(p) ==
  CASE p \notin set_ftrace_pid -> "everybody"
    [] p \in set_ftrace_pid /\ (p \in left_over \/ status # "running") -> "left_over"
    [] OTHER -> "helper"

(* A kernel function is called by process p, which is the helper or        *)
(* another one.                                                            *)
Trace(p) ==
  /\ tracing_on /\ current_tracer = "function"
  /\ set_ftrace_pid = {} \/ p \in set_ftrace_pid
  /\ trace' = trace \cup {[on |-> Account(p),
                           at |-> IF p = pid /\ status = "running" THEN at ELSE 0]}
  /\ UNCHANGED <<runs, status, at, tracing_on, current_tracer, set_ftrace_pid, dumped>>

Next == Call \/ errf_exit \/ RunAgain \/ \E p \in 0..run : Trace(p)

Spec == Init /\ [][Next]_vars
-------------------------------------------------------------------------------
(* "minimal trace output noise": a run that succeeds has switched tracing  *)
(* off and dumps no call of another process nor of the preparations of a   *)
(* helper, but for the pids that earlier runs have left in set_ftrace_pid: *)
(* who gets one of them is traced, too.  As nothing clears the buffer,     *)
(* what earlier runs have traced is dumped again.                          *)
TraceWithoutNoise ==
  status = "exit0" =>
    /\ ~tracing_on
    /\ \A e \in dumped :
         \/ e.on = "left_over"
         \/ e.on = "helper" /\ \E k \in 1..(e.at - 1) : main[k] = "start_tracing"
===============================================================================
