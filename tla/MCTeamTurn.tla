----------------------------- MODULE MCTeamTurn -----------------------------
(* Instances of TeamTurn for TLC.                                           *)
EXTENDS TeamTurn, TLC
=============================================================================
