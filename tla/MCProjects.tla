----------------------------- MODULE MCProjects -----------------------------
(* Instances of Projects for TLC.                                           *)
EXTENDS Projects, TLC

TabSymmetry == Permutations(Tab) \cup Permutations(Secret)
=============================================================================
