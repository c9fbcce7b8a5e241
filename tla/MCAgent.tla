------------------------------- MODULE MCAgent -------------------------------
(* The agent on small pools of names.  Four credentials and four keys are    *)
(* enough: with the troubles of the configurations Unused never runs out, so *)
(* no registration is disabled for want of a name.                           *)
EXTENDS Agent
=============================================================================
