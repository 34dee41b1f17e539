------------------------------- MODULE RunSlot -------------------------------
(***************************************************************************)
(* What the coordination of runs promises about one session, with leases,  *)
(* statuses, workers and requests left out: a slot that one run at a time  *)
(* occupies, and a round counter that only the occupant advances.          *)
(***************************************************************************)
EXTENDS Naturals

CONSTANT Run
VARIABLES active, round

Init == active = {} /\ round = 0

Start(r) == active = {} /\ active' = {r} /\ UNCHANGED round

Pause(r) == active = {r} /\ round' = round + 1 /\ UNCHANGED active

End(r) == active = {r} /\ active' = {} /\ UNCHANGED round

Next == \E r \in Run : Start(r) \/ Pause(r) \/ End(r)

Spec == Init /\ [][Next]_<<active, round>>
=============================================================================
