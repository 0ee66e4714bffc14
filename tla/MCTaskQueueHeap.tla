---------------------------- MODULE MCTaskQueueHeap ----------------------------
(***************************************************************************)
(* Every forest on the tasks 1..N, as in MCTaskTreeWalk, with one address  *)
(* per task: the queue never holds more.  Addresses are interchangeable.   *)
(***************************************************************************)
EXTENDS TaskQueueHeap, SequencesExt, TLC

CONSTANT N

MCTask == 1..N

Parents == {f \in [MCTask -> 0..(N - 1)] : \A t \in MCTask : f[t] < t}

MCTaskTrees ==
  {[t \in MCTask |-> SetToSortSeq({c \in MCTask : f[c] = t}, <)] : f \in Parents}

NodeSymmetry == Permutations(Node)
===============================================================================
