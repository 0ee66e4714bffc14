---------------------------- MODULE MCTaskTreeWalk ----------------------------
(***************************************************************************)
(* Every forest on the tasks 1..N, each list in order of creation: up to   *)
(* renaming, every frozen task tree with at most N tasks.                  *)
(***************************************************************************)
EXTENDS TaskTreeWalk, SequencesExt

CONSTANT N

MCTask == 1..N

Parents == {f \in [MCTask -> 0..(N - 1)] : \A t \in MCTask : f[t] < t}

MCTaskTrees ==
  {[t \in MCTask |-> SetToSortSeq({c \in MCTask : f[c] = t}, <)] : f \in Parents}
===============================================================================
