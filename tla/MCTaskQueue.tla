------------------------------ MODULE MCTaskQueue ------------------------------
(* Instances of TaskQueue for TLC: the symmetry of its model values.          *)
EXTENDS TaskQueue, TLC

\* Tasks and workers are interchangeable when every task is Cancelable or none
\* is; used for runs without liveness properties only.
Symmetry == Permutations(Tasks) \cup Permutations(Workers)
================================================================================
