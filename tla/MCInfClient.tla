----------------------------- MODULE MCInfClient ----------------------------
(* Instances of InfClient for TLC.                                         *)
EXTENDS InfClient, TLC
=============================================================================
