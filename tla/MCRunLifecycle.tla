--------------------------- MODULE MCRunLifecycle ---------------------------
(* Instances of RunLifecycle for TLC: the sets that the cfg files name, and *)
(* the symmetry of requests and workers for runs that check safety only.    *)
EXTENDS RunLifecycle, TLC

RunSymmetry == Permutations(Run) \cup Permutations(Worker) \cup Permutations(Tab)
=============================================================================
