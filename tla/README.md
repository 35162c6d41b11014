# Verification of the video analytics demo

TLA+ modules for the two programs of this repository, model-checked with TLC,
and proofs about them checked with TLAPS.

* `ml_server` (`src/src/ml_server.cpp`) runs two inference servers (bcc: crowd
  counting, yolov3: object detection) on accelerator cards.
* `video_server` (`src/src/video_server.cpp`) receives N RTSP cameras, sends
  frames to the servers, draws the results, and publishes one composed video.

## 1. Inventory

| part | code | state | operations | talks to |
|---|---|---|---|---|
| dynamic batching proxy | `ml/base/inf_dynamic_batching.hpp` | `batch_id`, `batches` (addresses by batch), `message_queue`, `batch_start`, `revents` | one loop: poll, read one request, dispatch a due batch, forward one reply | clients (ROUTER), workers (DEALER) |
| inference server, workers | `ml/base/inf_server.hpp` | threads, sockets | `start`; a worker connects, loads its model, receives a batch, runs it, replies | proxy (REP) |
| inference client | `ml/base/inf_client.hpp` | `busy`, `request_queue`, `result_queue` | `request`, `is_busy`; worker thread: pop, mark, send, recv, push, clear | camera thread (queues, flag), server (REQ) |
| thread-safe queue | `utils/queue_mt.hpp` | `m_items`, `m_stop`, two condition variables | `push`, `pop`, `size`, `full`, `stop` | every pair of threads |
| camera path | `video/gst_app_utils.hpp` `app2queue` | bounded frame queue, scaler context | `proc_loop`: pull, convert, `proc_buffer`, push or drop | appsink, compositor (queue) |
| repeater | `video/gst_app_utils.hpp` `queue2app` (`test/test_rtsp_repeat.cpp`) | `last_gst_buffer`, `set_caps`, `timestamp` | `need_data` callback: drain the queue, push the newest picture or repeat the last | a camera's queue, appsrc |
| camera processing | `video_server.cpp` `app2queue_bcc`, `app2queue_yolov3` | last heat map and count; trackers, detections | `proc_buffer`: request, drain, draw, metrics | inference client, InfluxDB |
| compositor | `video_server.cpp` `compositor` | canvas, `last_buffer`, `timestamp` | `need_data` callback: pop one frame per camera, draw, push a buffer | camera queues, appsrc |
| start-up | `video_server.cpp` `main`, `rtsp_ml`; `video/gst_pipeline_utils.hpp` `build_pipeline`; `video/hw_config_u30.hpp` | `device_index`, pipelines, queues | deal cards, build and play cameras, start their threads, play output, start compositor | everything |
| BCC model | `ml/bcc/*` | tensors | `run`: pad, execute, crop the heat map | worker |
| YOLOv3 model | `ml/yolov3/*` | vendor model | `run`: one result per request | worker |
| runner | `ml/base/inf_runner.hpp` | one `host_buffer` for each tensor, for the life of the worker | `clear`, `execute` | BCC model, vendor libraries |
| pipeline text, time utilities, RTSP server | `video/*`, `utils/time_utils.hpp` | none that others see | wrappers | vendor libraries |

What is hard here, and what makes each part correct:

* **Proxy and workers.** Clients, workers and the proxy run concurrently, and
  replies come back in any order of batches. Correct means that addresses and
  bodies of a batch never part, that each request is answered exactly once with
  its own result although clients may vanish, that batches respect
  `max_batch_size` and partial ones leave in the end, that the address map does
  not leak, and that the only proxy thread never stops in a `recv`.
* **Queue.** Lost wakeups, one free place and several woken producers, `stop`
  against blocked threads.
* **Inference client.** `busy` is tested by one thread and set by another after
  its pop, `size()` and `pop()` are two critical sections, the REQ socket waits
  without a timeout for a server that may crash.
* **Camera path, compositor, repeater.** Size test and push in two steps, a
  callback that drains a queue while it is filled, buffers shared with an
  encoder, geometry with rounded divisions.
* **Start-up.** Threads and pipelines run while `main` still makes the rest:
  a thread whose fields are not set, an output that asks before anybody listens
  and before its caps are set, pipelines that fail to play unnoticed, a
  configuration that ends the process.

`PROJECT.json` lists each of these hazards at its line, with the properties
that cover it.

## 2. Modules

| module | what it is |
|---|---|
| `InferenceService` | what a server promises: ask, one answer with the result of the latest request, take, leave; a crash may lose an exchange |
| `DynamicBatching` | the server in detail: REQ clients, proxy loop, DEALER ring, workers, clock, crash and restart |
| `DynamicBatching_proofs` | its inductive invariant, its safety theorems, and that it implements `InferenceService` |
| `BlockingFifo` | what a queue promises: atomic put and take, in order |
| `QueueMt`, `QueueMt_proofs` | `queue_mt` with its mutex, condition variables and stop flag; its theorems |
| `InfClient`, `InfClient_proofs` | camera thread, client worker thread, `busy` and the queues, composed with `InferenceService`; its theorems |
| `App2Queue` | the threads of the cameras: pull, process, keep or drop |
| `AppSrc` | GStreamer's appsrc (external): its queue of caps and buffers, its streaming thread, need-data |
| `VideoStartup` | extends `App2Queue` and `AppSrc` with `main` of `video_server` up to its loop |
| `Queue2App` | extends `App2Queue` and `AppSrc` with `queue2app` and the program that uses it |
| `AppSrc_proofs` | the theorems of the two programs that feed an appsrc, `VideoStartup` and `Queue2App` |
| `VideoWall` | what the compositor promises the encoder: a FIFO of pictures that are values, no window going back |
| `Compositor`, `Compositor_proofs` | extends `App2Queue` with the need-data callback, its buffers and the encoder; its theorems, and that it implements `VideoWall` |
| `WindowLayout`, `WindowLayout_proofs` | where the compositor draws; its theorems |
| `BccGeometry`, `BccGeometry_proofs` | a picture's way through the crowd counter and back onto the camera's picture; its theorems |
| `Yolov3Camera`, `Yolov3Camera_proofs` | what a camera of the object detector does with its results, against `main`; its theorems |
| `MCDynamicBatching`, `MCQueueMt`, `MCInfClient`, `MCCompositor`, `MCWindowLayout`, `MCBccGeometry`, `MCYolov3Camera`, `MCVideoStartup`, `MCQueue2App` | the instances that TLC checks |

How they fit: a camera thread of `App2Queue` runs `proc_buffer`, whose conversation with the
inference client is `InfClient`. `InfClient` has no server of its own: its `Send` and `Recv`
are the steps `Ask` and `Take` of `InferenceService` (`INSTANCE ... WITH Clients <- {Me}`), and
the answer and the loss of an exchange are that module's too. `DynamicBatching` implements
`InferenceService`, for any number of clients (`ServiceSpec`, `ImplementsService`), so what is
shown of a camera rests on the detailed server and not on an assumption about one.
`VideoStartup` and `Queue2App` compose the camera threads with the two ends of an appsrc,
`main` and the callback on one side and the streaming thread on the other. `Compositor`
implements `VideoWall` (`WallSpec`, `ImplementsVideoWall`), which has no memory: that its
buffers are shared and used again cannot be seen in the video. `InfClient` and `Compositor`
take a queue's operations as atomic, which is what `QueueMt` implementing `BlockingFifo`
allows. `BccGeometry` and `Yolov3Camera` are the contents of what passes there: the first takes
from `DynamicBatching` that a batch is no larger than `max_batch_size` and that each client
gets its own result, the second from `InfClient` that results arrive in order.

### DynamicBatching

A message is its request `[from, n]`: the proxy never looks inside. Pipes are
sequences, one for each direction and peer, which is how ZeroMQ orders messages:
FIFO for a peer, any order among peers. The proxy's program counter has a value for
each point of the loop where another thread can be seen (`poll`, `front`,
`dispatch`, `back`, `forward`); what lies between touches only its locals. One
request is read in an iteration and one reply is forwarded, part by part
(`Forward`), the addresses being taken from the front of the entry of `batches`,
where the code iterates and erases the entry at the end. (Nobody else sees the
map, so the two forms cannot be told apart.) A dispatch sends a whole multipart
message, which ZeroMQ delivers whole. `batch_start` and `now` are represented by
their difference `age`, cut at `MaxLatency`; while the queue is empty the code
does not look at it. `system_clock` may be set back (`SetClockBack`).

The DEALER deals in turn over the workers in the order they connected, whether
they are loading, busy or free: that is the code's load balancing. The ROUTER
drops what is sent to a client that has gone.

`ServerCrash` ends the process at any step, up to `MaxCrashes` times, and starts it
again: a worker whose model does not load throws in its thread, which terminates
the process. Everything in the process is gone: `batches`, `message_queue`, the
jobs, the inproc pipes. A pipe between a client and the ROUTER lies in two
processes, so each message in it survives or not (`kept`): a request not yet
delivered stays in the REQ socket, which connects again, and a reply
already delivered stays with the client. A client left with nothing under way is in
`lost`, a history variable. Batches are counted from 0 again, which is
why `RepliesRouted` and `OneCopy` are worth checking across a crash: no reply may meet
an address booked under the same number before it.

Out of scope: malformed messages, and the high-water marks of the sockets. A client has one
request at a time, so no pipe ever holds more messages than there are clients
(`ServerIsBounded`): the marks, 1000 by default, are not reached below 1000 clients.

`max_batch_size = 0` is excluded by `BatchAssumption`: `size() >= 0` holds of an
empty queue and the proxy would send batches without a body. A negative value is
allowed; compared with a `size_t` it becomes huge, and batches leave by age only.

### QueueMt

A critical section is one action. A wait whose predicate is false adds the
thread to the set of its condition variable, notification empties the set, and a
woken thread takes the mutex again and tests its predicate again, as
`wait(lk, pred)` does. Spurious wakeups are allowed. Both operations are called by any thread.
So is `stop`, as the class offers it; no program of this repository calls it.

### InfClient

The camera thread's `proc_buffer` is split where it meets the other thread: test
of `busy`, push of the request, test of `size()`, pop. The worker's loop is split
at each statement that other threads or the server see. `asked`, `drained`,
`slips` and `lost` are history variables, read by the properties and
by the bound on `asked` only. `client`, `sent` and `fromFront` are the socket, as
`InferenceService` sees it. A crash (`Service!Lose`) may come any number of times,
while a request is under way or between two.

### App2Queue and Compositor

A frame is its number in its camera's stream, 0 is no frame. A camera thread is
split where another thread can see it: the size test (`CheckSize`) and the push
are two steps. The sample is unmapped and released with the frame. A null sample
or buffer ends the thread (`EndLoop`); `MetricsHang` is an HTTP post that never
returns.

The callback goes over the cameras in order; `size()` and `pop()` are two steps.
What a camera's window on the canvas shows is the number of the frame drawn last.
A buffer `mem[b]` has a reference count, a content and a time stamp; its memory is free
when the count is 0, and which free one is taken (`NewBuffer`) does not matter. The encoder keeps the
buffers it was pushed and returns them
oldest first. `last_buffer` is one more reference. Time stamps are counted in
frame durations modulo `PtsRange`, the width of `GstClockTime`. Which camera
has the focus, the scaling and the colours are data. `NumCameras` is at least 1:
the code divides by it.

The mapping to `VideoWall` takes `last_buffer`'s content as its picture and the contents and
time stamps of the buffers in flight as its output. `Compose` is `Render`: the new content is
in `last_buffer` before its time stamp is set and it is pushed; `Emit` is `PushBuffer`,
`Consume` is `Release`. `Buffers` is a bound on memory that restricts nothing:
`MakeBuffer` finds one that is free whenever there are more than `MaxInFlight`
(`BuffersSuffice`).

### AppSrc

What the two programs use of appsrc, taken from their use and the documented behaviour of
the element: caps and buffers go through one queue in the order they were put
there; the streaming thread, when it finds the queue empty, emits `need-data` once,
in that thread, and if there is nothing afterwards sleeps until caps or a buffer
are put. A signal without a handler returns at once. An element that
receives a buffer before any caps answers "not negotiated" and the stream ends;
neither program watches the bus, so it ends for good (`ended`).

### VideoStartup

`main`'s statements in their order (`After`), for any assignment of models to cameras
and any number of cards. Each statement that another thread can see is one action.
`device_index` and `devices` are dealt in `BuildPipeline` and `BuildOutput`; with
`max_devices = 0` the remainder traps. A camera with a model that is neither `bcc`
nor `yolov3` has no pipeline and a null pointer, whose dereference ends the
process (`crashed`: all threads stop). `gst_element_set_state` may fail, here as in
the code without consequences for `main`; `gst_app_sink_pull_sample` returns null
on such a pipeline and the camera's thread ends (`CameraThread`). It also ends when the
stream of a pipeline that plays ends, or brings a sample without a buffer (`StreamEnds`,
at any frame, the first included). `over` is history: the cameras to which that has
happened, so that `CamerasShown` can tell it from a thread that ended because its pipeline
did not play yet. `NeedData` is the callback as one step, on the frames that are there
(`Compositor` has it in detail). The 200 ms sleep after each camera is no guarantee and is
left out.

### Queue2App

`App2Queue` with one camera, and `queue2app::push_buffer` split at each `size()` and
`pop()`. `cv_buf` and `last_buffer` are the frames' numbers. `due` is history: the newest
frame in the queue when data was asked for. Reference counts and time stamps are
handled as in `Compositor`, which checks them there against an encoder.

### WindowLayout

Rectangles in pixels, computed with the integer divisions of the code; the loop over
the cameras is the behaviour. `std::ceil(std::sqrt(n))` is `CeilSqrt`, exact for the
numbers of a configuration. A camera that has no frame draws nothing, so what the
code draws is a part of what the module draws.

### BccGeometry

Pixels are positions. A slot of the input tensor is the set of pictures painted on
it since it was cleared, each with its rectangle; a heat map is its size, the cell of
the output from which it was cut, and whose pictures the slot held. `create_request`
shrinks a picture wider than `SendWidth` and names four channels; `Preprocess` and
`Postprocess` are the two halves of `bcc_model::run`, between which the network
(external) computes a cell from the 8 x 8 pixels under it. `CellOf` is the lookup in
`proc_buffer`. The values of pixels, the sum that is the count, and the colours are data.
What is said of the lookup (`SeenWhereDrawn`, `OnlyTheRestIsOutside`) is said of pictures that
the client did not shrink: the lookup divides by 8 whatever has been done to the picture, and
after a shrinking its cells would be others. It does not occur with the 960 x 540 pictures of
`video_server`; the test program, whose picture may be larger, draws nothing.

`GeometryAssumption` asks for what the code asserts (a picture no larger than the
tensor) and what the compiled network fixes (sizes that are multiples of 8, and as many
slots as the largest batch: the member `batch` is never compared with the requests).

### Yolov3Camera

An object is its label and whether it has an area, a track is its id. The tracker
(`byte_track`, vendored) is `Update`, for any distances and thresholds: each object it is given
continues a track, opens one or is put aside; a new track is reported in the first frame or
when it is matched again; a known track may be forgotten. `outputs` is what it returned and the
loop has still to visit, so `NumberOne` is one round of the loop.

`main` adds the tracker to a vector, and sets `metrics_client`, after the camera
thread was started. Nothing orders the two: the vector's `begin` and `end` are written
(`StoreEnd`) and read (`ReadBegin`, `ReadEnd`) one by one in any order, and one without
the other sends the loop through memory that is no tracker (`crashed`).
`metrics_client` is tested and used through one pointer, which is read whole.
`target_label_ids` is chosen in `Init`, the empty list included. `settled` and `posts`
are history: the results drained before `main` was done, the counts posted.

## 3. Runs

| run | instance | states | shows |
|---|---|---|---|
| `batching_safety` | 3 clients, 2 workers, batches of 2, 2 requests each, latency 1, a crash at any step | 3.4 M (symmetry) | registration, no leak, routing and conservation, batch bound, no blocked `recv`, across a restart |
| `batching_live` | 2 clients, 2 workers, 1 request each, clock set back once, 1 crash | 186 k | `DynamicBatching` implements `InferenceService` with its fairness: whoever asks is answered |
| `queue_mt` | 4 threads, capacity 1, 2 calls each | 136 k | no lost wakeup, bound, refinement of `BlockingFifo`, service, `stop` |
| `inf_client` | 5 requests, crashes at any time | 1.4 k | order, no blocking, flag, loss, liveness |
| `compositor` | 2 cameras, queue limit 1, 3 frames each, 3 buffers, 2 in flight, `PtsRange` 2 | 642 k | bound and order of the queues, references, what is repeated is the newest picture, the buffers implement `VideoWall`; kept frames are shown and the output goes on, whatever happens to one camera |
| `window_layout` | 96 x 54 pixels, 1 to 20 cameras, focus size 0 to 6 | 22 k | no window leaves the canvas or overlaps another |
| `bcc_geometry` | 3 cameras, 6 sizes of picture, tensor of 2 slots of 40 x 24 | 14 k (symmetry) | pictures stay in their slots, heat maps are those of their picture and, where it was not shrunk, drawn where they belong |
| `bcc_heatmap_rows` | 1 camera of 960 x 540, tensor of 1000 x 800 | - | a violation: see section 6 |
| `yolov3_camera` | 2 labels, up to 2 objects in a result, 3 results, 3 tracks | 271 k | tracks are numbered once and for ever, pictures show the last result, results drained after the set-up are counted |
| `video_startup` | 2 cameras of any models, 0 to 2 cards, 1 frame each, streams that end | 25 k | cards share the work, no sleeping output, the output flows and shows each camera that plays and whose stream does not end before a frame |
| `video_startup_readme` | 1 camera, up to 1 card | - | a violation: see section 6 |
| `queue2app` | 1 camera, queue limit 1, 5 frames | 3 k | no backlog, the output goes on when the camera does not |

Why the bounds are enough. With three clients and batches of two, a full batch and a partial
one exist together, so that two batches are with two workers while a third is collected, and
replies overtake one another; with two requests a client comes back while other batches are
out. One tick separates "not yet due" from "due". In the liveness run one set-back of the clock
covers the case, since each only delays. One crash, at any step, restarts a server whose batch
numbers begin again while requests and replies of before are still in the clients' pipes; the
theorems hold for any number of crashes. Four threads on a queue of one item make two blocked
producers and two blocked consumers possible, which a lost wakeup needs. In `InfClient` three
requests fill the queue while one is served and one slips in, and two more come after the queue
was drained. In `compositor` three frames overrun a queue of two places, so that the last is
dropped unless the callback came first (a dropped frame between two kept ones is left to the
theorem `FramesStayInOrder`); three buffers are all that can exist at once (`MemoryIsBounded`):
`last_buffer`, one with the encoder and the one being made (or two with the encoder);
`PtsRange` 2 makes the time stamp wrap. In `window_layout` the sizes divide neither evenly nor
by the same number, and every grid from 1 to 8 with one to all of its rows beside the focus
window occurs. In `bcc_geometry` widths and heights leave the rests 0, 1 and 7 modulo 8, and
the space around them is and is not a multiple of 16; one picture is shrunk, one has three
channels, one fills the tensor, and three cameras on two slots leave old pictures behind. In
`yolov3_camera` three results let a track be opened, lost and found, and let `main` finish
before the first, between two, or not at all; two labels make target lists that are empty,
partial and full. In `video_startup` two cameras and the output on two cards make the third
pipeline come back to the first card, and one camera can fail or be misnamed before or after
one that plays; one frame each is enough for "is seen". In `queue2app` five frames overrun a
queue of two places while the callback drains it. That the drain ends follows there from the
finite number of frames; in the program it rests on a camera that is slower than a pop.

Symmetry is used where every property is an invariant, over sets that no `CHOOSE` looks into.
Deadlock is checked except in `queue_mt`, where the number of calls is bounded
and a consumer may rightly wait for ever, in `window_layout`, whose loop ends, in
`yolov3_camera`, where results are bounded and a crash stops the thread, in
`video_startup`, where the process may end, and in `queue2app`, whose callback blocks
for ever if the camera ends before its first frame.

### Fairness

* Each thread runs (`WF`): C++ threads on a preemptive scheduler.
* `SF(FrontRecv(c))`, `SF(BackRecv(w))`: ZeroMQ reads the pipes of a ROUTER or
  DEALER socket in turn (fair queueing), so one that keeps a message is read.
* `WF(Tick)`: time passes. The clock is set back a bounded number of times.
* `QueueMt`: `WF` of each thread's critical section stands for a mutex that does
  not starve a thread, and `BlockedAreServed` asks no more than that somebody
  is served.
* A crash of the server: it is started again (by whoever runs the demo), at most
  `MaxCrashes` times. Nothing is assumed of what it loses.
* `InfClient`: both threads run; `WF(ServerAnswer)` is the fairness of
  `InferenceService`, which `batching_live` shows of the server.
* `Compositor`: a camera thread that has a frame goes on (`WF`), the output's
  appsrc keeps asking for data and its callback runs (`WF(CompStep)`), the encoder
  consumes what it is given (`WF(Release)`). Nothing is assumed of a camera
  delivering frames, and a thread in `MetricsHang` is not required to return.
* `VideoStartup`: `main`, the streaming thread, the callback and the camera threads run,
  and a pipeline that plays delivers until its stream ends (`WF(CameraThread(c))`), which
  it may do at any time and never has to: `StreamEnds` has no fairness.
* `Queue2App`: the same, but of the camera only that it goes on with a frame it has.

## 4. Proofs

`DynamicBatching_proofs` holds for any sets of clients and workers and any
values of the limits, from `BatchAssumption` and `BoundAssumption` alone.

The properties are not inductive one by one. Forwarding is safe only if the
batch in the worker's reply is registered under its id, which needs ids below
`batch_id` in all lanes, which needs the types; that a client gets the result of
its *latest* request needs the number in each body to be the client's current
one, which needs that it does not send while one is under way (`OneCopy`). So
`IndInv` is

* `TypeOK`;
* `CoreInv`: `LanesGood` (every batch anywhere among the workers is registered,
  has an id below `batch_id`, a body, and current request numbers),
  `QueueGood` (the same of the batch being collected), `PipesGood`,
  `NoBatchLeaks`, `RepliesRouted`, `OneCopy`;
* `ProxyInv`: what `poll` reported is there until it is read.

A *lane* (`Lane`) is the concatenation of a worker's reply pipe, its job and its
input pipe. Receiving and replying leave it as it is, so the proof for the
workers is one of equality; dispatch appends to a lane and forwarding
takes from its head. Each action has a lemma of its own, a conjunct a step.

A crash empties the lanes, the map and the queue, so `LanesGood` and `QueueGood` hold of
nothing; what has to be shown is that a request kept in a pipe is still its client's
latest and in no other place (`PipesGood`, `OneCopy`), and that the clients left with
nothing are those added to `lost`.

`SizeInv` is a second invariant (`BatchBounded` needs a non-negative limit). The
refinement: each step of the server is a step of `InferenceService`, or changes
nothing that it shows. `IndInv` is what makes forwarding the step that answers: the
number in the body is that of the client's latest request; a crash is `Lose`.

Three results are proved only. `ServerIsBounded` counts: each entry of `batches` is known by
its first address (`OneCopy`) and each batch in flight by its entry (`NoBatchLeaks`), so
neither are more than the clients. `RequestsAreSomewhere` turns the address by which `OneCopy`
knows that a request is booked into the request itself, in the queue or in a lane: the
safety half of "whoever asks is answered". `BatchesGoToWorkers` has an invariant of its own, `RingInv`
(the ring holds the connected workers, once each; what a worker has got it is ready for).

`QueueMt_proofs`, for any threads and capacity: `IndInv` is `TypeOK`,
`CallsBegun`, `NoLostWakeup` and `SizeBounded`; the refinement of `BlockingFifo`
has one step for each critical section. `OrderInv` adds the order of a producer's items in the
queue and between what was popped and what is left, which is inductive only with
`AllIssued`: an item is of a call its producer has begun, and an earlier one than the call
it is in. From it `OrderIsKept` and `ConsumersGoForward` follow, which no run repeats; they are
what `App2Queue`, `InfClient` and `Compositor` take for granted of their queues.

`InfClient_proofs`, for any number of requests and of crashes. `IndInv` is `TypeOK`;
`BusyGood` (the flag is what the place of the worker in its loop makes of it); `HandGood`
(what it holds there); `ExchangeGood` (the socket's exchange is the request in hand,
answered at most once); `LostGood` (once an exchange is lost the worker waits in `recv`);
`SentGood` (what was sent is what was drained, what is in the result queue and what is due);
`SlipsGood`; and the properties of the queues. `LossIsFinal` proves an action property of
the same invariant. Two consequences are proved only: `WorkerIsNotRefused` (`HandIs`, the
request in hand is the next of the count, makes the step `Ask` of the service possible whenever
the worker is at `send`) and `ResultsAreShown` (what was drained is a prefix of the count, and
all of it once the client is at rest: the safety half of `EveryRequestIsShown`).

`Compositor_proofs`, for any number of cameras, queue limit, buffers and time
stamp width: the invariant has two halves. `CamInv` (the cursor of the callback,
room for the frame about to be pushed, order of all a camera's frames from the window
to the thread's hand, the callback not blocked) and `BufInv` (each buffer's count is
the number of those who refer to it, consecutive time stamps, pictures with the encoder
in order and none newer than the canvas). From the two follows `ImplementsVideoWall`: a
step that writes a buffer writes one that nobody else holds, so nothing of the output changes but
by `Emit` and `Consume`. Results that no run repeats are `HeldBuffersAreFrozen` (no buffer the
encoder holds is written), `TimeStampsFollow` (consecutive time stamps), `PicturesGoForward`
(what is pushed never goes back in time), and, with a third invariant on the room in flight
(`RoomInFlight`), `MemoryIsBounded`: the buffers in use are those in flight and at most two
more, counted as the image of an interval. `BuffersSuffice` follows by comparing cardinalities,
and for an infinite set of buffers because a finite one cannot exhaust it.

`WindowLayout_proofs`, for any output size, number of cameras and focus size:
first by cells, then by pixels. Each camera has a cell of its own, because its
number can be read from the cell; cells lie in the grid because the grid's square
is at least the number of cells wanted (the smallest such square exists by
`WFMin`); `Ruler` and `CellsFit` carry disjoint cells to disjoint rectangles.

`BccGeometry_proofs`, for any tensor that the network can have, any cameras and any pictures
that `run` accepts. `IndInv` says of which picture each thing is: a request is that of its
camera's frame (`AskedOK`), a batch has different clients with requests pending (`BatchOK`),
slot `k` shows request `k` of the batch and nothing else (`TensorOK`), a heat map has the size
and offset of its own picture (`MapsOK`). The divisions are in four lemmas: `Eighths`,
`OffsetFits`, `CellsAlign`, `CellsCover`. `FourChannelsAreRead` is about pictures with any
number of channels, and says for which the constant 4 of `create_request` makes `run` read what
is there. `EvenPicturesAreDrawn` proves the property that `bcc_heatmap_rows` violates for
pictures whose sizes are multiples of 8 and that are not shrunk.

`Yolov3Camera_proofs`, for any labels and any bounds. `IndInv` is `TypeOK`, `TrackInv`
(numbers are dense, what is left of `outputs` together with `detections` are
different tracks, no more than there were objects, each detection with its
number), `SetupInv` (what has been stored agrees with where `main` is, and a
thread that read one end without the other read it before `main` was done) and
`PostInv` (every result after `settled` but the current one has been posted, in order).
`NumbersStay` is an action property of the same invariant. `ResultsAreCounted` includes
`CrashIsEarly`: the torn read of the vector is possible for results drained before `main` is
done and for no other.

`AppSrc_proofs` is about the two programs that feed an appsrc. `VideoStartup`, for any number of
cameras, cards and frames: `IndInv` is `TypeOK`, `FramePulled` (a camera thread works on a frame
that it has), `DevicesDealt` (the `k`-th pipeline was given card `(k - 1) % max_devices`, and
`device_index` counts the pipelines), `HandlerConnected` (there is a handler exactly when `main`
is past the connection) and `NeverAsleep`. `DevicesBalanced` is `DevicesDealt` with a lemma on
equal remainders (`SameRemainder`). Two more invariants give what no run states.
`StartInv` (`QueuesKept`: the queues handed over are those of the cameras so far, in their order;
`PlayedFirst`; `EndsKnown`: a thread that ended had a pipeline that failed or a stream that was
over) gives `WindowsAreCameras` and, with `FirstFrameKept` (what a camera has delivered is shown,
in its queue or in its thread's hand, because a frame is dropped only when others wait),
`CamerasAreOnTheWay`, the safety half of `CamerasShown`.
`CapsFirstInv` (what is in appsrc has its caps in front, or they went out) is an invariant of the
behaviours in which the callback does not come between `compositor::start`'s two
statements (`Overtakes`); `RefusedOnlyEarly` says of these that the output never ends. It is the
converse of `video_startup_readme` (section 6): that interleaving is possible, and nothing else
does it.

`Queue2App`, for any number of frames and any queue limit, instantiated as `Repeater`.
`RepeaterInv` is its types, `CallbackGood` (where the callback is and what it holds),
`FramesGood` (order of the frames from `last_buffer` to the thread's hand), `DueGood` (the frame
that was newest when data was asked for is still in the queue, in the callback's hand, or
already in `last_buffer`) and `CapsGood` (caps come before the first buffer). `DueGood` gives
`LastFrame`, an action property: the pushed picture is no older than what was there
when data was asked for, although the queue is filled while it is drained.
`RepeaterGoesForward` and `RepeaterIsNotRefused` are proved only.

`Typing` of most modules, `SizeIsBounded`, `CameraDoesNotBlock`, `CallbackDoesNotBlock`,
`NoCellIsLeftOut` and `LabelIsRead` state plain facts on which the others rest. They are
proved for every instance, and no run repeats them. `HeldBuffersAreFrozen`, `CrashesAreEarly` and
`RepeaterTyping` are proved in their modules too; `PROJECT.json`, which lists the results a reader
should begin with, leaves them out, the first two being contained in `ImplementsVideoWall` and
`ResultsAreCounted`.

## 5. Model-checked only

Liveness (`ServiceSpec`'s fairness, `BlockedAreServed`,
`StopReleases`, `EveryRequestIsShown`, `CameraKeepsRunning`,
`KeptFramesAreShown`, `OutputGoesOn`, `OutputFlows`, `CamerasShown`, `RepeatFlows`):
fairness and ENABLED are out of the prover's reach. `LossIsForever` is proved as two
action properties of the invariant (`LossIsFinal`), and of several of the others the safety half is
a theorem: `ServiceSafe` and `RequestsAreSomewhere` of `ServiceSpec`, `ResultsAreShown` of
`EveryRequestIsShown`, `NobodyWaitsTwice` of `StopReleases`, `RefusedOnlyEarly` of
`OutputFlows`, `CamerasAreOnTheWay` of `CamerasShown`.

## 6. What the code does that its comments do not say

`video_server.cpp:82` says "Request ML inference if client is not busy". The flag
is set by the client's worker thread after it has popped the request
(`inf_client.hpp:53-55`). Until then the camera thread finds it false and queues
further frames; all of them are sent, in order, as the queue of `InfClient` shows.
What does hold is `AtMostOneSlips`: once the flag is set at most one frame more
is requested before the exchange is over.

`video_server.cpp:98` says "Draw heatmap". The heat map of a picture has `rows / 8`
rows, 67 for the 540 rows of a camera, and the loop reads row `y / 8` for every `y`:
rows 536 to 539 of the picture are drawn from row 67, behind the end of the heat
map. `bcc_heatmap_rows` shows it. `OnlyTheRestIsOutside` and `EvenPicturesAreDrawn` say that,
for pictures that were not shrunk, no other pixel is without a cell.

`test/test_bcc_server.cpp:41-46` sends a picture read by `cv::imread`, which has three
channels; `create_request` says four of every picture, and `run` then reads the bytes of other
pixels and, in the last row, beyond the picture. `FourChannelsAreRead` proves that this is so of
every picture with fewer than four channels that is at least two pixels wide, that with more
the wrong pixels are read, and that with four all is right, as it is with the cameras' own
pictures.

`README.md:75` says "You can see the video in the following ways". `compositor::start`
connects `need-data` (`video_server.cpp:354`) before it sets the caps (`:362`), on a
pipeline that has been playing since line 584. If the streaming thread asks between
the two statements, the callback pushes a buffer at once, it goes out with no caps
before it, the encoder refuses it and the output is over, while the process
lives on. `video_startup_readme` shows it, and `RefusedOnlyEarly` proves that the encoder refuses
in no other way; `OutputFlows` says that, besides pipelines that do
not play and configurations that end the process, this is the only way. The reverse,
a question asked before the connection, does no harm (`NeverAsleep`): the caps wake the source.
That is why swapping the two statements alone would be no remedy: the source would be woken by
caps, ask before anybody is connected, and sleep for ever.
In `test_rtsp_repeat`, whose caps come only with the first frame, it does (`Unheard` in
`RepeatFlows`).

`LossIsForever` states a limit of the design rather than an error: the REQ socket
has no timeout, and a client whose exchange was lost in a crash asks for nothing more.

## 7. Not modelled

* YOLOv3 model, client and messages: copies between message and library types around
  a vendor library. That `run` returns one result per request, in order, is in
  `DynamicBatching` (`Results`); the shape of a result is in `Yolov3Camera`.
* `ml_server`'s `main`: reads a configuration and starts two servers that share
  nothing, each an instance of `DynamicBatching` for all values of its limits.
* The descriptions handed to `gst_parse_launch`, names of elements and their
  parameters other than the card: text and data. A description that does not parse
  meets an assertion at the first start.
* `inf_runner`, `vart_utils`, `xir_utils` beyond the life of the tensors: wrappers around the
  accelerator's run time, with no state that others see.
* Drawing, colours, fonts, scaling and colour conversion: pixel data. The pictures'
  geometry is in `WindowLayout` and `BccGeometry`.
* Which camera has the focus: a choice of the clock, any camera in `WindowLayout`.
  A `focus-duration` of 0 divides by zero at the first callback; it is excluded.
* `rtsp_server` and `time_utils`: used by tests only. `rtsp_server` is glue to a library's
  server; `time_utils` measures and prints.
* The maps of tracks grow as long as the program runs (`video_server.cpp:266` has a TODO); there is
  no bound to state. `NumbersAreDense` says that they have one entry for each track ever seen.
