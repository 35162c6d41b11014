----------------------------- MODULE MCQueue2App ----------------------------
(* Instances of Queue2App for TLC.                                         *)
EXTENDS Queue2App, TLC
=============================================================================
