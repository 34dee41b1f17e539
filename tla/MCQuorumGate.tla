---------------------------- MODULE MCQuorumGate ----------------------------
(* Instances of QuorumGate for TLC.                                         *)
EXTENDS QuorumGate, TLC

\* All pages are of one user; or each user has one page, of his name.
OneUser  == [p \in Page |-> CHOOSE u \in Remote : TRUE]
OwnPages == [p \in Page |-> p]

GateSymmetry == Permutations(Remote)
=============================================================================
