------------------------------ MODULE App2Queue -----------------------------
(***************************************************************************)
(* The threads of app2queue, one for each camera: pull a decoded frame from*)
(* the appsink, process it, put it into the camera's queue or drop it.     *)
(* A frame is its number in the camera's stream; a sample is released when *)
(* its frame is done. The compositor, the other user of the queues, is     *)
(* added by the module Compositor.                                         *)
(***************************************************************************)
EXTENDS Integers, Sequences

CONSTANTS NumCameras,
          MaxQueue,      \* 10 in the code
          MaxFrames      \* bound: frames that a camera delivers

\* Without a camera the compositor divides by zero.
ASSUME CameraAssumption == NumCameras \in Nat \ {0} /\ MaxQueue \in Nat /\ MaxFrames \in Nat

Cameras == 0..NumCameras-1      \* indices of the vector `queues`

VARIABLES
  camera,    \* camera[c]: where the thread of c is in proc_loop
  frame,     \* frame[c]: the last frame pulled
  queue      \* queue[c]: the frames kept for the compositor

camVars == <<camera, frame, queue>>

Frame == 1..MaxFrames

CamTypeOK ==
  /\ camera \in [Cameras -> {"pull", "proc", "size", "push", "hung", "ended"}]
  /\ frame \in [Cameras -> 0..MaxFrames]
  /\ queue \in [Cameras -> Seq(Frame)]

CamInit ==
  /\ camera = [c \in Cameras |-> "pull"]
  /\ frame = [c \in Cameras |-> 0]
  /\ queue = [c \in Cameras |-> <<>>]

GoTo(c, place) == camera' = [camera EXCEPT ![c] = place]

\* gst_app_sink_pull_sample returns the next frame of the stream.
PullSample(c) ==
  /\ camera[c] = "pull" /\ frame[c] < MaxFrames
  /\ frame' = [frame EXCEPT ![c] = @ + 1]
  /\ GoTo(c, "proc")
  /\ UNCHANGED queue

\* A null sample, at the end of the stream or of the pipeline, or a sample
\* without a buffer: the thread ends.
EndLoop(c) == camera[c] = "pull" /\ GoTo(c, "ended") /\ UNCHANGED <<frame, queue>>

\* Conversion and proc_buffer, which does not block on the inference client (InfClient).
ProcBuffer(c) == camera[c] = "proc" /\ GoTo(c, "size") /\ UNCHANGED <<frame, queue>>

\* proc_buffer posts each count to the database over HTTP and waits for the
\* answer: a database that does not answer keeps the thread.
MetricsHang(c) == camera[c] = "proc" /\ GoTo(c, "hung") /\ UNCHANGED <<frame, queue>>

\* Mutant of TooMany: the frame to be pushed is not counted.
TooManyWaiting(c) == Len(queue[c]) > MaxQueue + 1

TooMany(c) == Len(queue[c]) > MaxQueue

CheckSize(c) ==
  /\ camera[c] = "size"
  /\ GoTo(c, IF TooMany(c) THEN "pull" ELSE "push")
  /\ UNCHANGED <<frame, queue>>

\* Mutant of Kept: the frame overtakes those that wait.
KeptInFront(c) == <<frame[c]>> \o queue[c]

Kept(c) == Append(queue[c], frame[c])

Push(c) ==
  /\ camera[c] = "push"
  /\ queue' = [queue EXCEPT ![c] = Kept(c)]
  /\ GoTo(c, "pull")
  /\ UNCHANGED frame

\* What the thread does by itself, once it has a frame.
Proceed(c) == ProcBuffer(c) \/ CheckSize(c) \/ Push(c)

CamStep(c) == PullSample(c) \/ EndLoop(c) \/ MetricsHang(c) \/ Proceed(c)

-----------------------------------------------------------------------------
(***************************************************************************)
(* Properties of the camera threads.                                       *)
(***************************************************************************)

\* queue_mt is made without a bound here; app2queue::proc_loop alone keeps one, with a
\* test and a push that are two critical sections. No more frames wait than one above
\* the limit that is tested, because nobody else pushes between the two.
QueueBounded == \A c \in Cameras : Len(queue[c]) <= MaxQueue + 1
=============================================================================
