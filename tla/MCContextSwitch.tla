-------------------------- MODULE MCContextSwitch --------------------------
(* Instance of ContextSwitch for TLC.                                      *)
EXTENDS ContextSwitch
=============================================================================
