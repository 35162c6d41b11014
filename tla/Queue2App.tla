----------------------------- MODULE Queue2App -----------------------------
(***************************************************************************)
(* queue2app, the other consumer of a camera's queue: it repeats one camera*)
(* (App2Queue, with NumCameras = 1) on an appsrc (AppSrc). Its need-data   *)
(* callback takes the newest frame, waits for one if there has been none,  *)
(* sets the caps with the first and repeats the last picture when there is *)
(* no new one. The program is that of test_rtsp_repeat: the output plays,  *)
(* then the camera's thread is started, then need-data connected.          *)
(***************************************************************************)
EXTENDS App2Queue, AppSrc

VARIABLES
  main,        \* what main does next: "play", "thread", "connect", "loop"
  step,        \* where the callback is: "size", "pop", "push"
  cv_buf,      \* its local, the frame popped; 0 for none
  last_buffer, \* the frame of last_gst_buffer; 0 for none
  set_caps,
  due          \* history: the newest frame in the queue when the callback began

callVars == <<step, cv_buf, last_buffer, set_caps, due>>
vars     == <<camVars, srcVars, main, callVars>>

Camera == 0

TypeOK ==
  /\ CamTypeOK /\ SrcTypeOK
  /\ main \in {"play", "thread", "connect", "loop"}
  /\ step \in {"size", "pop", "push"}
  /\ {cv_buf, last_buffer, due} \subseteq 0..MaxFrames
  /\ set_caps \in BOOLEAN

Init == /\ CamInit /\ SrcInit
        /\ main = "play"
        /\ step = "size" /\ cv_buf = 0 /\ last_buffer = 0 /\ set_caps = TRUE
        /\ due = 0

-----------------------------------------------------------------------------
Play    == main = "play" /\ main' = "thread" /\ PlaySource /\ UNCHANGED <<camVars, callVars>>
Start   == main = "thread" /\ main' = "connect" /\ UNCHANGED <<camVars, srcVars, callVars>>
Connect == main = "connect" /\ main' = "loop" /\ ConnectHandler /\ UNCHANGED <<camVars, callVars>>

\* The base class: its proc_buffer does nothing.
CameraThread == /\ main \in {"connect", "loop"}
                /\ PullSample(Camera) \/ EndLoop(Camera) \/ Proceed(Camera)
                /\ UNCHANGED <<srcVars, main, callVars>>

Newest == IF queue[Camera] = <<>> THEN 0 ELSE queue[Camera][Len(queue[Camera])]

Source == /\ SrcStep
          /\ due' = IF stream' = "call" THEN Newest ELSE due
          /\ UNCHANGED <<camVars, main, step, cv_buf, last_buffer, set_caps>>

-----------------------------------------------------------------------------
(* The callback.                                                           *)

\* Mutants of TakesAnother: one frame is enough; every picture must be new.
TakesOne     == cv_buf = 0 /\ (queue[Camera] # <<>> \/ last_buffer = 0)
WaitsForNew  == queue[Camera] # <<>> \/ cv_buf = 0

TakesAnother == queue[Camera] # <<>> \/ (last_buffer = 0 /\ cv_buf = 0)

CheckQueue == /\ stream = "call" /\ step = "size"
              /\ step' = IF TakesAnother THEN "pop" ELSE "push"
              /\ UNCHANGED <<camVars, srcVars, main, cv_buf, last_buffer, set_caps, due>>

\* pop blocks while the queue is empty.
Pop == /\ step = "pop" /\ queue[Camera] # <<>>
       /\ cv_buf' = Head(queue[Camera])
       /\ queue' = [queue EXCEPT ![Camera] = Tail(@)]
       /\ step' = "size"
       /\ UNCHANGED <<camera, frame, srcVars, main, last_buffer, set_caps, due>>

IsNew == cv_buf # 0

\* A picture of the frame popped, or a copy of the last one.
PushBuffer == /\ step = "push"
              /\ HandlerReturns((IF set_caps /\ IsNew THEN <<"caps">> ELSE <<>>) \o <<"buffer">>)
              /\ set_caps' = (set_caps /\ ~IsNew)
              /\ last_buffer' = IF IsNew THEN cv_buf ELSE last_buffer
              /\ cv_buf' = 0
              /\ step' = "size"
              /\ UNCHANGED <<camVars, main, due>>

Callback == CheckQueue \/ Pop \/ PushBuffer

Next == Play \/ Start \/ Connect \/ CameraThread \/ Source \/ Callback

\* A camera that has a frame goes on; nothing says that it delivers another one.
Fairness == /\ WF_vars(Play \/ Start \/ Connect) /\ WF_vars(Source) /\ WF_vars(Callback)
            /\ WF_vars(main \in {"connect", "loop"} /\ Proceed(Camera)
                       /\ UNCHANGED <<srcVars, main, callVars>>)

SafeSpec == Init /\ [][Next]_vars
Spec == SafeSpec /\ Fairness

-----------------------------------------------------------------------------
(* Properties.                                                             *)

(***************************************************************************)
(* "Get last frame" (gst_app_utils.hpp:238): what is pushed is never older *)
(* than the newest frame that was there when data was asked for, so that no*)
(* backlog builds up.                                                      *)
(***************************************************************************)
LastFrameIsPushed == [][PushBuffer => last_buffer' >= due]_vars

\* What is repeated never goes back in time, although frames are dropped on the way.
RepeatsGoForward == [][last_buffer' >= last_buffer]_vars

\* The caps, set with the first picture only, go downstream before every buffer: the
\* encoder never refuses one (and the stream, which nobody watches, does not end).
NeverRefused == stream # "ended"

\* The source asked before main had connected need-data, and nothing wakes it.
Unheard == stream = "wait" /\ items = <<>>

(***************************************************************************)
(* Once a frame has been kept the output flows for ever, also when the     *)
(* camera delivers nothing any more or ends, and what flows is preceded by *)
(* caps, unless the source asked before anybody listened.                  *)
(***************************************************************************)
RepeatFlows == (queue[Camera] # <<>>) ~> []<>(stream = "out" \/ Unheard)
=============================================================================
