-------------------------- MODULE MCRemotePresence --------------------------
(* Instances of RemotePresence for TLC.                                     *)
EXTENDS RemotePresence

OwnerOf == [l \in Link |-> IF l = "annsLink" THEN "ann" ELSE "bob"]
ViaLink == [p \in Page |-> IF p = "bobsPage" THEN "bobsLink" ELSE "annsLink"]
=============================================================================
