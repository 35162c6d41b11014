---------------------------- MODULE VideoStartup ----------------------------
(***************************************************************************)
(* video_server from the start of main to its loop. For each camera of the *)
(* configuration main builds a pipeline on the next device, plays it,      *)
(* starts the camera's thread (App2Queue) and keeps its queue; then it     *)
(* builds and plays the output pipeline, whose appsrc (AppSrc) asks the    *)
(* compositor for data. The threads already started run meanwhile. What    *)
(* main does to a camera after its start is in Yolov3Camera; the callback, *)
(* the subject of Compositor, is one step here.                            *)
(***************************************************************************)
EXTENDS App2Queue, AppSrc

CONSTANT MaxDevices     \* bound: the cards that start_demo.sh finds

ASSUME DeviceAssumption == MaxDevices \in Nat

VARIABLES
  model,          \* model[c]: the model that the configuration names for c
  max_devices,
  main,           \* where main is; "crashed" when the process has ended
  next,           \* the camera of its loop
  device_index,
  devices,        \* the device of each pipeline, in the order they were built
  pipeline,       \* pipeline[c]: the state that gst_element_set_state reached
  started,        \* the cameras whose thread was started
  queues,         \* main's vector, by camera; the compositor gets a copy
  shown,          \* history: the cameras seen in the output
  over            \* history: those whose stream ended although their pipeline played

config    == <<model, max_devices>>
buildVars == <<next, device_index, devices, pipeline, started, queues>>
history   == <<shown, over>>
vars      == <<camVars, srcVars, config, main, buildVars, history>>

Device == 0..MaxDevices-1

TypeOK ==
  /\ CamTypeOK /\ SrcTypeOK
  /\ model \in [Cameras -> {"bcc", "yolov3", "other"}]
  /\ max_devices \in 0..MaxDevices
  /\ main \in {"camera", "build", "play", "thread", "keep", "output", "playOutput",
               "connect", "caps", "loop", "crashed"}
  /\ next \in 0..NumCameras /\ (main \in {"build", "play", "thread", "keep"} => next < NumCameras)
  /\ device_index \in Nat
  /\ devices \in Seq(Device)
  /\ pipeline \in [Cameras -> {"null", "playing", "failed"}]
  /\ started \subseteq Cameras /\ shown \subseteq Cameras /\ over \subseteq Cameras
  /\ queues \in Seq(Cameras)

Init ==
  /\ CamInit /\ SrcInit
  /\ model \in [Cameras -> {"bcc", "yolov3", "other"}]
  /\ max_devices \in 0..MaxDevices
  /\ main = "camera" /\ next = 0 /\ device_index = 0
  /\ devices = <<>> /\ pipeline = [c \in Cameras |-> "null"] /\ started = {}
  /\ queues = <<>> /\ shown = {} /\ over = {}

-----------------------------------------------------------------------------
(* main. Only the order of its statements matters to the other threads.    *)

\* What follows each of its statements; what follows the loop's test is NextCamera's.
Order == [build |-> "play", play |-> "thread", thread |-> "keep",
          output |-> "playOutput", playOutput |-> "connect", connect |-> "caps", caps |-> "loop"]

\* Mutants of After: the camera's thread is started before its pipeline; the caps are
\* set before need-data is connected.
ThreadFirst(step) == [Order EXCEPT !.build = "thread", !.thread = "play", !.play = "keep"][step]
CapsFirst(step)   == [Order EXCEPT !.playOutput = "caps", !.caps = "connect", !.connect = "loop"][step]

After(step) == Order[step]

\* Mutant of NextIndex: one branch forgets to count.
NextIndexBcc == IF model[next] = "bcc" THEN device_index + 1 ELSE device_index

NextIndex == device_index + 1

Known == model[next] \in {"bcc", "yolov3"}

\* The loop over the cameras; another model leaves the pointer ml null.
NextCamera ==
  /\ main = "camera"
  /\ main' = IF next = NumCameras THEN "output" ELSE IF Known THEN "build" ELSE "keep"
  /\ UNCHANGED <<camVars, srcVars, buildVars>>

\* hw_config_u30: the decoder, the scaler and the encoder take the same card.
CardOf(dev_idx) == dev_idx % max_devices

\* build_pipeline sets the elements' parameters; % traps when there is no card.
UseDevice == IF max_devices = 0
             THEN main' = "crashed" /\ UNCHANGED devices
             ELSE main' = After(main) /\ devices' = Append(devices, CardOf(device_index))

\* The camera's elements, made with device_index++, and their pipeline.
BuildPipeline ==
  /\ main = "build"
  /\ device_index' = NextIndex
  /\ UseDevice
  /\ UNCHANGED <<camVars, srcVars, next, pipeline, started, queues>>

\* The result of gst_element_set_state is ignored.
PlayPipeline ==
  /\ main = "play" /\ main' = After(main)
  /\ \E state \in {"playing", "failed"} : pipeline' = [pipeline EXCEPT ![next] = state]
  /\ UNCHANGED <<camVars, srcVars, next, device_index, devices, started, queues>>

StartThread ==
  /\ main = "thread" /\ main' = After(main)
  /\ started' = started \cup {next}
  /\ UNCHANGED <<camVars, srcVars, next, device_index, devices, pipeline, queues>>

\* queues.push_back(ml->queue)
KeepQueue ==
  /\ main = "keep"
  /\ IF Known THEN queues' = Append(queues, next) /\ next' = next + 1 /\ main' = "camera"
              ELSE main' = "crashed" /\ UNCHANGED <<queues, next>>
  /\ UNCHANGED <<camVars, srcVars, device_index, devices, pipeline, started>>

BuildOutput == main = "output" /\ UseDevice
               /\ UNCHANGED <<camVars, srcVars, next, device_index, pipeline, started, queues>>

\* Here too a failure is ignored; the compositor is made next, with all the queues.
PlayOutput == main = "playOutput" /\ main' = After(main)
              /\ (PlaySource \/ UNCHANGED srcVars) /\ UNCHANGED <<camVars, buildVars>>

\* compositor::start
Connect == main = "connect" /\ main' = After(main) /\ ConnectHandler /\ UNCHANGED <<camVars, buildVars>>
SetCaps == main = "caps" /\ main' = After(main) /\ PutCaps /\ UNCHANGED <<camVars, buildVars>>

MainStep == /\ \/ NextCamera \/ BuildPipeline \/ PlayPipeline \/ StartThread \/ KeepQueue
               \/ BuildOutput \/ PlayOutput \/ Connect \/ SetCaps
            /\ UNCHANGED <<config, history>>

-----------------------------------------------------------------------------
(* The threads that main has started.                                      *)

\* Of a pipeline that does not play the thread gets a null sample at once.
CameraThread(c) == /\ main # "crashed" /\ c \in started
                   /\ \/ pipeline[c] = "playing" /\ PullSample(c)
                      \/ pipeline[c] # "playing" /\ EndLoop(c)
                      \/ MetricsHang(c) \/ Proceed(c)
                   /\ UNCHANGED <<srcVars, config, main, buildVars, history>>

\* The stream of a pipeline that plays may end at any frame, the first included, or
\* bring a sample without a buffer: the thread ends as well.
StreamEnds(c) == /\ main # "crashed" /\ c \in started
                 /\ pipeline[c] = "playing" /\ EndLoop(c)
                 /\ over' = over \cup {c}
                 /\ UNCHANGED <<srcVars, config, main, buildVars, shown>>

Waiting == {queues[k] : k \in {j \in DOMAIN queues : queue[queues[j]] # <<>>}}

\* The compositor takes one frame of each queue that has some, and pushes a buffer.
NeedData == /\ main # "crashed" /\ stream = "call"
            /\ queue' = [c \in Cameras |-> IF c \in Waiting THEN Tail(queue[c]) ELSE queue[c]]
            /\ shown' = shown \cup Waiting
            /\ HandlerReturns(<<"buffer">>)
            /\ UNCHANGED <<camera, frame, config, main, buildVars, over>>

Source == main # "crashed" /\ SrcStep /\ UNCHANGED <<camVars, config, main, buildVars, history>>

Next == MainStep \/ (\E c \in Cameras : CameraThread(c) \/ StreamEnds(c)) \/ NeedData \/ Source

\* All threads run, and a pipeline that plays delivers until its stream ends, which
\* none has to.
Fairness == /\ WF_vars(MainStep) /\ WF_vars(NeedData) /\ WF_vars(Source)
            /\ \A c \in Cameras : WF_vars(CameraThread(c))

SafeSpec == Init /\ [][Next]_vars
Spec == SafeSpec /\ Fairness

-----------------------------------------------------------------------------
(* Properties.                                                             *)

(***************************************************************************)
(* The cards share the work evenly, the decoders of all cameras and the    *)
(* encoder: two pipelines are on one card only when all the other cards    *)
(* have got one in between.                                                *)
(***************************************************************************)
DevicesBalanced ==
  \A j, k \in DOMAIN devices : j < k /\ devices[j] = devices[k] => k - j >= max_devices

(***************************************************************************)
(* The output pipeline may ask for data before the compositor listens (it  *)
(* plays first). That question is not lost: once main is in its loop the   *)
(* source never sleeps without something that wakes it.                    *)
(***************************************************************************)
NeverAsleep == main = "loop" /\ stream = "wait" => items # <<>>

OutputFailed == main \in {"connect", "caps", "loop"} /\ stream = "off"

\* What takes the output away: a configuration that ends the process, a pipeline
\* that does not play, and a buffer that overtakes the caps.
OutputLost == main = "crashed" \/ OutputFailed \/ stream = "ended"

(***************************************************************************)
(* The output flows for ever, whatever the cameras do, unless it is lost   *)
(* in one of these three ways.                                             *)
(***************************************************************************)
OutputFlows == []<>(stream = "out" \/ OutputLost)

\* No stream, no picture.
EndedUnseen(c) == c \in over /\ frame[c] = 0

(***************************************************************************)
(* A camera whose pipeline plays is seen in the output, unless that is     *)
(* lost, the database keeps the camera's thread, or its stream ends before *)
(* the first frame. So its thread does not end over a pipeline that plays  *)
(* only later, its queue is one that the compositor looks at, and a frame  *)
(* it has kept is shown although its stream has ended.                     *)
(***************************************************************************)
CamerasShown ==
  MaxFrames > 0 =>
    \A c \in Cameras :
      pipeline[c] = "playing" ~> \/ c \in shown \/ camera[c] = "hung"
                                \/ EndedUnseen(c) \/ OutputLost

(***************************************************************************)
(* "You can see the video in the following ways" (README.md:75), when the  *)
(* process lives and its pipelines play.                                   *)
(***************************************************************************)
VideoIsSeen == [](main # "crashed" /\ ~OutputFailed) => []<>(stream = "out")
=============================================================================
