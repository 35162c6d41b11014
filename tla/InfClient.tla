------------------------------ MODULE InfClient -----------------------------
(***************************************************************************)
(* One inf_client and the two threads that use it: the camera thread, which*)
(* runs proc_buffer on every frame and asks for inference, and the client's*)
(* worker thread, which owns the REQ socket. They share the atomic flag    *)
(* busy and two unbounded queues (queue_mt: QueueMt shows that its push and*)
(* pop are atomic). The server is what InferenceService says of it, and    *)
(* DynamicBatching implements that, crashes included: send and recv are    *)
(* the steps Ask and Take of the service.                                  *)
(***************************************************************************)
EXTENDS Integers, Sequences

CONSTANT MaxRequests     \* bound: requests the camera thread makes

ASSUME ClientAssumption == MaxRequests \in Nat

VARIABLES
  camera,          \* where the camera thread is in proc_buffer
  request_queue, result_queue,
  busy,
  worker,          \* where the worker thread is in its loop
  hand,            \* its local: the request, then the response
  client, sent, fromFront, lost,   \* its socket and the server
  asked,           \* requests made so far; a request is known by its number
  drained,         \* results the camera thread has taken, in that order
  slips            \* requests made since the worker last set busy

Me == "me"
Service == INSTANCE InferenceService WITH Clients <- {Me}

workerVars  == <<busy, worker, hand>>
queueVars   == <<request_queue, result_queue>>
serviceVars == <<client, sent, fromFront, lost>>
cameraVars  == <<camera, asked, drained, slips>>
vars == <<workerVars, queueVars, serviceVars, cameraVars>>

Frame == 1..MaxRequests

TypeOK ==
  /\ camera \in {"check", "request", "drain", "pop"}
  /\ worker \in {"pop", "mark", "send", "recv", "push", "clear"}
  /\ busy \in BOOLEAN
  /\ \A q \in {request_queue, result_queue, hand, drained} : q \in Seq(Frame)
  /\ hand = <<>> <=> worker \in {"pop", "clear"}   \* the locals' scope
  /\ client \in [{Me} -> {"idle", "waiting"}]
  /\ sent \in [{Me} -> 0..MaxRequests]
  /\ fromFront \in [{Me} -> Seq([from : {Me}, n : Frame])]
  /\ lost \subseteq {Me}
  /\ asked \in 0..MaxRequests
  /\ slips \in 0..MaxRequests

Init ==
  /\ camera = "check" /\ worker = "pop"
  /\ busy = FALSE
  /\ request_queue = <<>> /\ result_queue = <<>> /\ hand = <<>>
  /\ Service!Init
  /\ asked = 0 /\ drained = <<>> /\ slips = 0

-----------------------------------------------------------------------------
(* The camera thread: proc_buffer, once per frame, for ever.               *)

\* Mutant of MayRequest: the flag is not tested.
MayAlwaysRequest == TRUE

MayRequest == ~busy

\* MaxRequests stands for the end of the observation, not of the stream.
CheckBusy == /\ camera = "check"
             /\ camera' = IF MayRequest /\ asked < MaxRequests THEN "request" ELSE "drain"
             /\ UNCHANGED <<workerVars, queueVars, serviceVars, asked, drained, slips>>

RequestFrame == /\ camera = "request"
                /\ asked' = asked + 1
                /\ request_queue' = Append(request_queue, asked + 1)
                /\ slips' = IF busy THEN slips + 1 ELSE slips
                /\ camera' = "drain"
                /\ UNCHANGED <<workerVars, result_queue, serviceVars, drained>>

\* Mutant of HasResult: the loop pops once too often.
HasResultOrHad == Len(result_queue) > 0 \/ drained # <<>>

\* Mutant of HasResult: the last result stays in the queue.
HasSeveralResults == Len(result_queue) > 1

HasResult == Len(result_queue) > 0

CheckSize == /\ camera = "drain"
             /\ camera' = IF HasResult THEN "pop" ELSE "check"
             /\ UNCHANGED <<workerVars, queueVars, serviceVars, asked, drained, slips>>

PopResult == /\ camera = "pop"
             /\ result_queue # <<>>
             /\ drained' = Append(drained, Head(result_queue))
             /\ result_queue' = Tail(result_queue)
             /\ camera' = "drain"
             /\ UNCHANGED <<workerVars, request_queue, serviceVars, asked, slips>>

CameraStep == CheckBusy \/ RequestFrame \/ CheckSize \/ PopResult

-----------------------------------------------------------------------------
(* The worker thread.                                                      *)

PopRequest == /\ worker = "pop"
              /\ request_queue # <<>>
              /\ hand' = <<Head(request_queue)>>
              /\ request_queue' = Tail(request_queue)
              /\ worker' = "mark"
              /\ UNCHANGED <<busy, result_queue, serviceVars, cameraVars>>

\* Mutant of BusyAfterMark: the flag is not set.
BusyNotMarked == busy

BusyAfterMark == TRUE

MarkBusy == /\ worker = "mark"
            /\ busy' = BusyAfterMark
            /\ slips' = 0
            /\ worker' = "send"
            /\ UNCHANGED <<hand, queueVars, serviceVars, camera, asked, drained>>

Send == /\ worker = "send"
        /\ Service!Ask(Me)
        /\ worker' = "recv"
        /\ UNCHANGED <<busy, hand, queueVars, cameraVars>>

\* No timeout is set on the socket: recv waits for ever.
Recv == /\ worker = "recv"
        /\ Service!Take(Me)
        /\ hand' = <<Head(fromFront[Me]).n>>
        /\ worker' = "push"
        /\ UNCHANGED <<busy, queueVars, cameraVars>>

\* Mutant of Results: the newest result jumps the queue.
ResultsNewestFirst == hand \o result_queue

Results == result_queue \o hand

HandAfterPush == <<>>

PushResult == /\ worker = "push"
              /\ result_queue' = Results
              /\ hand' = HandAfterPush
              /\ worker' = "clear"
              /\ UNCHANGED <<busy, request_queue, serviceVars, cameraVars>>

ClearBusy == /\ worker = "clear"
             /\ busy' = FALSE
             /\ worker' = "pop"
             /\ UNCHANGED <<hand, queueVars, serviceVars, cameraVars>>

WorkerStep == PopRequest \/ MarkBusy \/ Send \/ Recv \/ PushResult \/ ClearBusy

-----------------------------------------------------------------------------
(* The server, as far as this client sees it.                              *)

ServerAnswer == Service!Answer(Me) /\ UNCHANGED <<workerVars, queueVars, cameraVars>>

ServerCrash == Service!Lose({Me}) /\ UNCHANGED <<workerVars, queueVars, cameraVars>>

Next == CameraStep \/ WorkerStep \/ ServerAnswer \/ ServerCrash

\* Both threads run, and the server keeps the promise of InferenceService.
Fairness == WF_vars(CameraStep) /\ WF_vars(WorkerStep) /\ WF_vars(ServerAnswer)

SafeSpec == Init /\ [][Next]_vars
Spec == SafeSpec /\ Fairness

-----------------------------------------------------------------------------
(* Properties.                                                             *)

Outstanding == hand \o request_queue

(***************************************************************************)
(* No request or result is lost, duplicated or reordered between the two   *)
(* threads: what the camera thread has taken, what waits for it, what the  *)
(* worker holds and what waits for the worker are, in this order, exactly  *)
(* the requests made.                                                      *)
(***************************************************************************)
ResultsInOrder ==
  drained \o result_queue \o Outstanding = [i \in 1..asked |-> i]

(***************************************************************************)
(* pop() on the result queue never blocks the camera thread (which would   *)
(* freeze its video): between size() > 0 and pop() nobody else takes from  *)
(* the queue.                                                              *)
(***************************************************************************)
CameraNeverBlocks == camera = "pop" => result_queue # <<>>

(***************************************************************************)
(* The REQ socket is used in strict alternation (a second send would throw *)
(* and end the process), and the flag covers the exchange: while a request *)
(* or its answer is on its way is_busy() is true, and what will be answered*)
(* is the request in hand.                                                 *)
(***************************************************************************)
ExchangeIsCovered ==
  /\ client[Me] = "waiting" <=> worker = "recv"
  /\ client[Me] = "waiting" => busy /\ hand = <<sent[Me]>>

(***************************************************************************)
(* The test of is_busy() and the request are two steps: one frame, not     *)
(* more, can still be requested after the worker has set the flag.         *)
(***************************************************************************)
AtMostOneSlips == slips <= 1

(***************************************************************************)
(* A request or an answer lost in a crash of the server is never made up   *)
(* for: recv has no timeout, so the client stays busy for ever, restart or *)
(* not, and no frame is requested any more but one that was being requested*)
(***************************************************************************)
LossIsForever ==
  /\ [](Me \in lost => [](busy /\ worker = "recv"))
  /\ [](Me \in lost /\ camera # "request" => [](camera # "request"))

(***************************************************************************)
(* Every frame requested has its result taken by the camera thread, unless *)
(* the exchange was lost in a crash of the server.                         *)
(***************************************************************************)
EveryRequestIsShown ==
  \A n \in Frame : asked >= n ~> (Me \in lost \/ Len(drained) >= n)

(***************************************************************************)
(* The video of a camera goes on whatever the inference server does: the   *)
(* camera thread always comes to its next frame.                           *)
(***************************************************************************)
CameraKeepsRunning == []<>(camera = "check")
=============================================================================
