--------------------------- MODULE MCSessionStores --------------------------
(* Instances of Discussions and Attachments for TLC.                        *)
EXTENDS Attachments, TLC

StoreSymmetry == Permutations(Att) \cup Permutations(Card)
=============================================================================
