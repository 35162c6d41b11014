------------------------------ MODULE MCQueueMt ------------------------------
(* Instances of QueueMt for TLC.                                           *)
EXTENDS QueueMt, TLC
=============================================================================
