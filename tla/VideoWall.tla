------------------------------ MODULE VideoWall ------------------------------
(***************************************************************************)
(* What the compositor promises the encoder: a FIFO of pictures that are   *)
(* values, which nothing changes once they are in it, stamped one after the*)
(* other. A picture is a frame for each camera; from one to the next no    *)
(* window goes back, and none shows a frame that has not been delivered.   *)
(* There is no memory here. Compositor, which shares reference counted     *)
(* buffers with the encoder and uses them again, implements it.            *)
(***************************************************************************)
EXTENDS Integers, Sequences

CONSTANTS NumCameras, MaxFrames,
          PtsRange        \* the width of GstClockTime, counted in buffer durations

Cameras == 0..NumCameras-1

VARIABLES frame,       \* frame[c]: the last frame that c has delivered
          picture,     \* the newest picture
          timestamp,
          output       \* the pictures that the encoder has not consumed yet

vars == <<frame, picture, timestamp, output>>

Init == /\ frame = [c \in Cameras |-> 0]
        /\ picture = [c \in Cameras |-> 0]
        /\ timestamp = 0
        /\ output = <<>>

Deliver(c) == /\ frame[c] < MaxFrames
              /\ frame' = [frame EXCEPT ![c] = @ + 1]
              /\ UNCHANGED <<picture, timestamp, output>>

\* Frames may be skipped; a camera without a new one keeps the old.
Compose == /\ picture' \in [Cameras -> 0..MaxFrames]
           /\ \A c \in Cameras : picture[c] <= picture'[c] /\ picture'[c] <= frame[c]
           /\ UNCHANGED <<frame, timestamp, output>>

\* Also when nothing is new.
Emit == /\ output' = Append(output, [content |-> picture, pts |-> timestamp])
        /\ timestamp' = (timestamp + 1) % PtsRange
        /\ UNCHANGED <<frame, picture>>

Consume == /\ output # <<>>
           /\ output' = Tail(output)
           /\ UNCHANGED <<frame, picture, timestamp>>

Next == (\E c \in Cameras : Deliver(c)) \/ Compose \/ Emit \/ Consume

Spec == Init /\ [][Next]_vars
=============================================================================
