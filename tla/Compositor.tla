----------------------------- MODULE Compositor -----------------------------
(***************************************************************************)
(* The compositor and the camera threads it composes with. appsrc calls    *)
(* need_data; the callback takes at most one frame of each camera, draws   *)
(* it into the camera's small window, makes a buffer and pushes it. The    *)
(* encoder holds the pushed buffers for a while. The place of a window on  *)
(* the canvas is the subject of WindowLayout; here a canvas is the frame   *)
(* that each window shows, 0 for memory nobody has drawn on.               *)
(***************************************************************************)
EXTENDS App2Queue

CONSTANTS Buffers,       \* bound: GstBuffers that exist at a time
          NoBuffer,
          MaxInFlight,   \* bound: buffers that appsrc and the encoder hold
          PtsRange       \* the width of GstClockTime, counted in buffer durations

ASSUME BufferAssumption == NoBuffer \notin Buffers /\ Buffers # {}
                           /\ MaxInFlight \in Nat /\ PtsRange \in Nat \ {0}

VARIABLES
  comp,          \* where the callback is: idle, size, pop, make, push
  i,             \* its loop variable
  update,
  canvas,        \* canvas[c]: the frame in the window of c (cv_buf)
  last_buffer,
  buffer,        \* the callback's local
  timestamp,
  mem,           \* mem[b]: reference count, picture and time stamp of b
  inFlight       \* the buffers that appsrc and the encoder hold

loopVars == <<comp, i, update, canvas>>
bufVars  == <<last_buffer, buffer, timestamp, mem, inFlight>>
vars     == <<camVars, loopVars, bufVars>>

Canvas == [Cameras -> 0..MaxFrames]
Blank  == [c \in Cameras |-> 0]
Freed  == [refs |-> 0, content |-> Blank, pts |-> 0]
Held   == {inFlight[k] : k \in DOMAIN inFlight}

TypeOK ==
  /\ CamTypeOK
  /\ comp \in {"idle", "size", "pop", "make", "push"}
  /\ i \in 0..NumCameras /\ (comp \in {"size", "pop"} => i \in Cameras)
  /\ update \in BOOLEAN
  /\ canvas \in Canvas
  /\ last_buffer \in Buffers
  /\ buffer \in Buffers \cup {NoBuffer} /\ (buffer # NoBuffer <=> comp = "push")
  /\ timestamp \in 0..PtsRange-1
  /\ mem \in [Buffers -> [refs : Nat, content : Canvas, pts : 0..PtsRange-1]]
  /\ inFlight \in Seq(Buffers)

Init ==
  /\ CamInit
  /\ comp = "idle" /\ i = 0 /\ update = FALSE
  /\ canvas = Blank
  /\ last_buffer = (CHOOSE b \in Buffers : TRUE)
  /\ buffer = NoBuffer
  /\ timestamp = 0
  /\ mem = [b \in Buffers |-> [Freed EXCEPT !.refs = IF b = last_buffer THEN 1 ELSE 0]]
  /\ inFlight = <<>>

-----------------------------------------------------------------------------
(***************************************************************************)
(* The callback.                                                           *)
(***************************************************************************)

\* appsrc has room and signals need-data.
NeedData ==
  /\ comp = "idle" /\ Len(inFlight) < MaxInFlight
  /\ i' = 0 /\ update' = FALSE
  /\ comp' = "size"
  /\ UNCHANGED <<camVars, canvas, bufVars>>

NextCamera == /\ i' = i + 1
              /\ comp' = IF i + 1 < NumCameras THEN "size" ELSE "make"

\* Mutant of HasFrame: one test for all cameras.
HasFrameAnywhere(c) == \E d \in Cameras : queue[d] # <<>>

HasFrame(c) == queue[c] # <<>>

\* Mutant of SkipCamera: the loop ends there.
SkipTheRest == i' = NumCameras /\ comp' = "make"

\* After a camera without a new frame the loop goes on with the next one.
SkipCamera == NextCamera

CheckQueue ==
  /\ comp = "size"
  /\ IF HasFrame(i) THEN comp' = "pop" /\ i' = i ELSE SkipCamera
  /\ UNCHANGED <<camVars, update, canvas, bufVars>>

\* pop blocks while the queue is empty.
PopAndDraw ==
  /\ comp = "pop" /\ queue[i] # <<>>
  /\ canvas' = [canvas EXCEPT ![i] = Head(queue[i])]
  /\ queue' = [queue EXCEPT ![i] = Tail(@)]
  /\ update' = TRUE
  /\ NextCamera
  /\ UNCHANGED <<camera, frame, bufVars>>

Free == {b \in Buffers : mem[b].refs = 0}

\* gst_buffer_new_allocate, gst_buffer_copy: memory that nobody holds, no matter which.
NewBuffer == CHOOSE b \in Free : TRUE

\* gst_buffer_unref: with its last reference a buffer loses its memory.
Less(m)  == IF m.refs = 1 THEN Freed ELSE [m EXCEPT !.refs = m.refs - 1]
Unref(b) == [mem EXCEPT ![b] = Less(mem[b])]

\* Mutant of Render: the previous last_buffer keeps its reference.
RenderLeaking(b) ==
  /\ mem' = [mem EXCEPT ![b] = [refs |-> 2, content |-> canvas, pts |-> 0]]
  /\ buffer' = b /\ last_buffer' = b

\* Mutant of Render: last_buffer stays what it was.
RenderOnce(b) ==
  /\ mem' = [mem EXCEPT ![b] = [refs |-> 1, content |-> canvas, pts |-> 0]]
  /\ buffer' = b /\ UNCHANGED last_buffer

\* A new buffer b with the canvas, of which last_buffer takes a reference.
Render(b) ==
  /\ mem' = [Unref(last_buffer) EXCEPT ![b] = [refs |-> 2, content |-> canvas, pts |-> 0]]
  /\ buffer' = b /\ last_buffer' = b

\* Mutant of CopyLast: last_buffer itself is pushed again.
RepeatLast(b) ==
  /\ mem' = [mem EXCEPT ![last_buffer].refs = @ + 1]
  /\ buffer' = last_buffer /\ UNCHANGED last_buffer

\* No camera had a new frame: a copy b of the last buffer.
CopyLast(b) ==
  /\ mem' = [mem EXCEPT ![b] = [mem[last_buffer] EXCEPT !.refs = 1]]
  /\ buffer' = b /\ UNCHANGED last_buffer

MakeBuffer ==
  /\ comp = "make" /\ Free # {}
  /\ IF update THEN Render(NewBuffer) ELSE CopyLast(NewBuffer)
  /\ comp' = "push"
  /\ UNCHANGED <<camVars, i, update, canvas, timestamp, inFlight>>

NextTimestamp == (timestamp + 1) % PtsRange

\* The time stamp is written, and appsrc gets the callback's reference.
PushBuffer ==
  /\ comp = "push"
  /\ mem' = [mem EXCEPT ![buffer].pts = timestamp]
  /\ timestamp' = NextTimestamp
  /\ inFlight' = Append(inFlight, buffer)
  /\ buffer' = NoBuffer
  /\ comp' = "idle"
  /\ UNCHANGED <<camVars, i, update, canvas, last_buffer>>

CompStep == NeedData \/ CheckQueue \/ PopAndDraw \/ MakeBuffer \/ PushBuffer

\* The encoder has consumed its oldest buffer.
Release ==
  /\ inFlight # <<>>
  /\ inFlight' = Tail(inFlight)
  /\ mem' = Unref(Head(inFlight))
  /\ UNCHANGED <<camVars, loopVars, last_buffer, buffer, timestamp>>

Next == \/ \E c \in Cameras : CamStep(c) /\ UNCHANGED <<loopVars, bufVars>>
        \/ CompStep
        \/ Release

-----------------------------------------------------------------------------
(***************************************************************************)
(* Fairness. A camera thread that has a frame goes on, unless the database *)
(* keeps it; nothing says that a camera delivers another frame. appsrc asks*)
(* for data as long as it has room, and the encoder consumes what it gets. *)
(***************************************************************************)
Fairness == /\ \A c \in Cameras : WF_vars(Proceed(c) /\ UNCHANGED <<loopVars, bufVars>>)
            /\ WF_vars(CompStep)
            /\ WF_vars(Release)

SafeSpec == Init /\ [][Next]_vars
Spec == SafeSpec /\ Fairness

-----------------------------------------------------------------------------
(***************************************************************************)
(* Safety.                                                                 *)
(***************************************************************************)

\* The frame of c that is pulled and not yet in the queue or dropped.
InHand(c) == camera[c] \in {"proc", "size", "push", "hung"}

\* No camera's picture goes back in time, from the camera thread through the
\* queue to the canvas, although frames are dropped on the way.
FramesInOrder ==
  \A c \in Cameras :
    LET path == <<canvas[c]>> \o queue[c] \o (IF InHand(c) THEN <<frame[c]>> ELSE <<>>)
    IN  \A j, k \in DOMAIN path : j < k => path[j] < path[k]

\* size() > 0 and pop() are two critical sections; the callback, which runs on
\* a streaming thread of the output pipeline, is never kept by an empty queue.
CompositorNeverBlocks == comp = "pop" => queue[i] # <<>>

\* Every reference is accounted for: a GstBuffer that the encoder, last_buffer or
\* the callback holds is not freed, and one that nobody holds is.
BuffersAccounted ==
  /\ \A j, k \in DOMAIN inFlight : inFlight[j] = inFlight[k] => j = k
  /\ buffer \notin Held
  /\ \A b \in Buffers : mem[b].refs = (IF b \in Held THEN 1 ELSE 0)
                                  + (IF b = last_buffer THEN 1 ELSE 0)
                                  + (IF b = buffer THEN 1 ELSE 0)

\* Between two callbacks last_buffer is what the canvas shows, so that a callback
\* without a new frame repeats the newest picture and not an older one.
OutputIsCurrent == comp = "idle" => mem[last_buffer].content = canvas

\* What the encoder sees has consecutive time stamps, the next one being timestamp,
\* across new and repeated pictures.
PtsConsecutive ==
  /\ \A k \in DOMAIN inFlight :
       k + 1 \in DOMAIN inFlight => mem[inFlight[k + 1]].pts = (mem[inFlight[k]].pts + 1) % PtsRange
  /\ inFlight # <<>> => (mem[inFlight[Len(inFlight)]].pts + 1) % PtsRange = timestamp

\* A buffer that the encoder holds is never written, although last_buffer shares it
\* with the next callback.
HeldIsFrozen ==
  [][\A b \in Held \cap Held' : mem'[b].content = mem[b].content /\ mem'[b].pts = mem[b].pts]_vars

\* The picture that is pushed is never older than the one pushed before, in any window.
OutputNeverGoesBack ==
  \A j, k \in DOMAIN inFlight :
    j < k => \A c \in Cameras : mem[inFlight[j]].content[c] <= mem[inFlight[k]].content[c]

\* What the encoder gets is a FIFO of values, although last_buffer, the callback and the
\* encoder share memory and a buffer that is free again is taken for another picture.
Stamped(b) == [content |-> mem[b].content, pts |-> mem[b].pts]
Output == [k \in DOMAIN inFlight |-> Stamped(inFlight[k])]
Wall == INSTANCE VideoWall WITH picture <- mem[last_buffer].content, output <- Output
WallSpec == Wall!Spec

-----------------------------------------------------------------------------
(***************************************************************************)
(* Liveness.                                                               *)
(***************************************************************************)

\* The output has everything that c has kept.
CaughtUp(c) ==
  queue[c] = <<>> /\ inFlight # <<>> /\ mem[inFlight[Len(inFlight)]].content[c] = canvas[c]

\* The frames that were kept reach the output, also when other cameras have ended, hang
\* or deliver nothing: the window of a camera that goes on delivering goes on changing,
\* and otherwise the output comes to show all that was kept.
KeptFramesAreShown ==
  \A c \in Cameras : []<>CaughtUp(c) \/ []<><<canvas'[c] # canvas[c]>>_vars

\* The output goes on whatever the cameras do.
OutputGoesOn == []<>(comp = "push")
=============================================================================
