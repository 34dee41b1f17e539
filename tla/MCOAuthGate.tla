---------------------------- MODULE MCOAuthGate -----------------------------
(* Instances of OAuthGate for TLC.                                          *)
EXTENDS OAuthGate, TLC
=============================================================================
