--------------------------- MODULE MCVideoStartup ---------------------------
(* Instances of VideoStartup for TLC.                                      *)
EXTENDS VideoStartup, TLC
=============================================================================
