--------------------------- MODULE AppSrc_proofs ----------------------------
(***************************************************************************)
(* Proofs about the two programs that feed an appsrc, for any number of    *)
(* cameras, devices and frames: first VideoStartup, then the repeater,     *)
(* Queue2App, which has the cameras and the appsrc in common with it.      *)
(***************************************************************************)
EXTENDS VideoStartup, SequenceTheorems, TLAPS

\* A thread that holds a frame has pulled it.
FramePulled == \A c \in Cameras : camera[c] \in {"proc", "size", "push", "hung"} => frame[c] >= 1

\* The devices are dealt in turn, and device_index is what has been dealt.
DevicesDealt ==
  /\ \A k \in DOMAIN devices : devices[k] = (k - 1) % max_devices
  /\ devices # <<>> => max_devices # 0
  /\ main \in {"camera", "build", "play", "thread", "keep", "output"} => device_index = Len(devices)

\* need-data is connected from the statement Connect on.
HandlerConnected == handler <=> main \in {"caps", "loop"}

IndInv == TypeOK /\ FramePulled /\ DevicesDealt /\ HandlerConnected /\ NeverAsleep

-----------------------------------------------------------------------------
\* What appending does to a sequence.
LEMMA Appended ==
  ASSUME NEW S, NEW s \in Seq(S), NEW e \in S
  PROVE  /\ Append(s, e) \in Seq(S) /\ Len(Append(s, e)) = Len(s) + 1 /\ Len(s) \in Nat
         /\ DOMAIN s = 1..Len(s) /\ DOMAIN Append(s, e) = 1..Len(s) + 1
         /\ Append(s, e)[Len(s) + 1] = e /\ \A k \in 1..Len(s) : Append(s, e)[k] = s[k]
         /\ Append(s, e) # <<>>
<1>1. /\ Append(s, e) \in Seq(S) /\ Len(Append(s, e)) = Len(s) + 1
      /\ Append(s, e)[Len(s) + 1] = e /\ \A k \in 1..Len(s) : Append(s, e)[k] = s[k]
  BY AppendProperties
<1>2. Len(s) \in Nat /\ DOMAIN s = 1..Len(s) /\ DOMAIN Append(s, e) = 1..Len(Append(s, e))
  BY <1>1, LenProperties
<1>3. Append(s, e) # <<>>
  BY <1>1, <1>2, EmptySeq
<1> QED
  BY <1>1, <1>2, <1>3

\* What taking the first element and joining do to a sequence.
LEMMA Headless ==
  ASSUME NEW S, NEW s \in Seq(S), s # <<>>
  PROVE  /\ Tail(s) \in Seq(S) /\ Len(Tail(s)) = Len(s) - 1 /\ Len(s) \in Nat \ {0}
         /\ Head(s) = s[1] /\ Head(s) \in S
         /\ \A k \in 1..Len(s)-1 : Tail(s)[k] = s[k + 1]
<1>1. Tail(s) \in Seq(S) /\ Len(Tail(s)) = Len(s) - 1 /\ Head(s) = s[1] /\ Head(s) \in S
  BY HeadTailProperties
<1>2. Len(s) \in Nat \ {0}
  BY LenProperties, EmptySeq
<1>3. \A k \in 1..Len(s)-1 : Tail(s)[k] = s[k + 1]
  BY <1>2, HeadTailProperties
<1> QED
  BY <1>1, <1>2, <1>3

LEMMA Joined ==
  ASSUME NEW S, NEW s \in Seq(S), NEW t \in Seq(S), t # <<>>
  PROVE  /\ s \o t \in Seq(S) /\ s \o t # <<>>
         /\ s # <<>> => (s \o t)[1] = s[1]
         /\ s = <<>> => (s \o t)[1] = t[1]
<1>1. /\ s \o t \in Seq(S) /\ Len(s \o t) = Len(s) + Len(t)
      /\ \A k \in 1..Len(s) + Len(t) :
           (s \o t)[k] = IF k <= Len(s) THEN s[k] ELSE t[k - Len(s)]
  BY ConcatProperties
<1>2. Len(s) \in Nat /\ Len(t) \in Nat \ {0} /\ (s = <<>> <=> Len(s) = 0)
  BY LenProperties, EmptySeq
<1>3. s \o t # <<>>
  BY <1>1, <1>2, EmptySeq
<1>4. 1 \in 1..Len(s) + Len(t)
  BY <1>2
<1>5. (s \o t)[1] = IF 1 <= Len(s) THEN s[1] ELSE t[1 - Len(s)]
  BY <1>1, <1>4
<1>6. (s # <<>> => 1 <= Len(s)) /\ (s = <<>> => ~(1 <= Len(s)) /\ 1 - Len(s) = 1)
  BY <1>2
<1> QED
  BY <1>1, <1>3, <1>5, <1>6

\* Numbers with the same remainder are a divisor apart.
LEMMA SameRemainder ==
  ASSUME NEW a \in Nat, NEW b \in Nat, NEW d \in Nat, d # 0, a < b, a % d = b % d
  PROVE  b - a >= d
<1> DEFINE p == a \div d
           q == b \div d
<1>1. /\ p \in Nat /\ a % d \in 0..d-1 /\ a = d * p + (a % d)
      /\ q \in Nat /\ b % d \in 0..d-1 /\ b = d * q + (b % d)
  BY SMT
<1> HIDE DEF p, q
<1>2. p < q
  <2>1. CASE q <= p
    <3>1. PICK r \in Nat : p = q + r
      BY <1>1, <2>1
    <3>2. d * p = d * q + d * r /\ d * r \in Nat /\ d * q \in Nat
      BY <1>1, <3>1
    <3> QED
      BY <1>1, <3>2
  <2> QED
    BY <1>1, <2>1
<1>3. PICK r \in Nat : q = p + 1 + r
  BY <1>1, <1>2
<1>4. d * q = d * p + d + d * r /\ d * r \in Nat /\ d * p \in Nat
  BY <1>1, <1>3
<1> QED
  BY <1>1, <1>4

-----------------------------------------------------------------------------
LEMMA InitInv == Init => IndInv
<1> SUFFICES ASSUME Init PROVE IndInv
  OBVIOUS
<1>1. /\ \A S : <<>> \in Seq(S)
      /\ Len(<<>>) = 0 /\ DOMAIN <<>> = {}
  BY EmptySeq
<1>2. CamTypeOK /\ FramePulled
  <2>1. 0 \in 0..MaxFrames
    BY CameraAssumption
  <2> QED
    BY <1>1, <2>1 DEF Init, CamInit, CamTypeOK, FramePulled
<1>3. TypeOK
  <2>1. next \in 0..NumCameras /\ device_index \in Nat
    BY CameraAssumption DEF Init
  <2> QED
    BY <1>1, <1>2, <2>1 DEF Init, SrcInit, SrcTypeOK, TypeOK
<1> QED
  BY <1>1, <1>2, <1>3 DEF Init, SrcInit, IndInv, DevicesDealt, HandlerConnected, NeverAsleep

\* set_params deals the next device, if there is one.
LEMMA DealDevice ==
  ASSUME IndInv, main \in {"build", "output"}, UseDevice, UNCHANGED max_devices
  PROVE  /\ devices' \in Seq(Device)
         /\ \A k \in DOMAIN devices' : devices'[k] = (k - 1) % max_devices'
         /\ devices' # <<>> => max_devices' # 0
         /\ \/ main' = "crashed"
            \/ main' = After(main) /\ Len(devices') = device_index + 1
<1> USE DEF IndInv
<1>1. CASE max_devices = 0
  BY <1>1 DEF UseDevice, TypeOK, DevicesDealt
<1>2. CASE max_devices # 0
  <2>1. /\ devices \in Seq(Device) /\ device_index = Len(devices)
        /\ main' = After(main) /\ devices' = Append(devices, device_index % max_devices)
    BY <1>2 DEF UseDevice, CardOf, TypeOK, DevicesDealt
  <2>2. device_index \in Nat /\ max_devices \in Nat /\ max_devices <= MaxDevices
    BY DeviceAssumption DEF TypeOK
  <2>3. device_index % max_devices \in 0..max_devices-1
    BY <1>2, <2>2, SMT
  <2>4. device_index % max_devices \in Device
    BY <2>2, <2>3, DeviceAssumption DEF Device
  <2>5. \A k \in DOMAIN devices' : devices'[k] = (k - 1) % max_devices
    <3>1. TAKE k \in DOMAIN devices'
    <3>2. k \in 1..Len(devices) + 1 /\ Len(devices) \in Nat
      BY <2>1, <2>4, Appended
    <3>3. CASE k \in 1..Len(devices)
      <4>1. devices'[k] = devices[k] /\ k \in DOMAIN devices
        BY <2>1, <2>4, <3>3, Appended
      <4> QED
        BY <4>1 DEF DevicesDealt
    <3>4. CASE k = Len(devices) + 1
      <4>1. devices'[k] = Len(devices) % max_devices /\ k - 1 = Len(devices)
        BY <2>1, <2>4, <3>2, <3>4, Appended
      <4> QED
        BY <4>1
    <3> QED
      BY <3>2, <3>3, <3>4
  <2>6. devices' \in Seq(Device) /\ Len(devices') = device_index + 1
    BY <2>1, <2>4, Appended
  <2> QED
    BY <1>2, <2>1, <2>5, <2>6
<1> QED
  BY <1>1, <1>2

\* The steps of main.
LEMMA MainInv == ASSUME IndInv, MainStep PROVE IndInv'
<1> USE DEF IndInv
<1>c. /\ model' = model /\ max_devices' = max_devices /\ shown' = shown /\ over' = over
  BY DEF MainStep, config, history
<1>1. CASE NextCamera
  BY <1>1, <1>c, CameraAssumption DEF NextCamera, TypeOK, CamTypeOK, SrcTypeOK, FramePulled, DevicesDealt,
     HandlerConnected, NeverAsleep, camVars, srcVars, buildVars
<1>2. CASE BuildPipeline
  <2>1. main = "build" /\ device_index' = device_index + 1 /\ After(main) = "play"
    BY <1>2 DEF BuildPipeline, NextIndex, After, Order
  <2>2. /\ main' \in {"crashed", "play"} /\ devices' \in Seq(Device)
        /\ DevicesDealt'
    BY <1>2, <1>c, <2>1, DealDevice DEF BuildPipeline, DevicesDealt
  <2>3. TypeOK'
    <3>1. device_index' \in Nat
      BY <2>1 DEF TypeOK
    <3> QED
      BY <1>2, <1>c, <2>1, <2>2, <3>1 DEF BuildPipeline, TypeOK, CamTypeOK, SrcTypeOK, camVars, srcVars
  <2> QED
    BY <1>2, <2>1, <2>2, <2>3 DEF BuildPipeline, FramePulled, HandlerConnected, NeverAsleep,
       camVars, srcVars
<1>3. CASE PlayPipeline
  <2>1. main = "play" /\ main' = "thread"
    BY <1>3 DEF PlayPipeline, After, Order
  <2>2. pipeline' \in [Cameras -> {"null", "playing", "failed"}]
    BY <1>3 DEF PlayPipeline, TypeOK
  <2>3. TypeOK'
    BY <1>3, <1>c, <2>1, <2>2 DEF PlayPipeline, TypeOK, CamTypeOK, SrcTypeOK, camVars, srcVars
  <2> QED
    BY <1>3, <1>c, <2>1, <2>3 DEF PlayPipeline, FramePulled, DevicesDealt, HandlerConnected, NeverAsleep,
       camVars, srcVars
<1>4. CASE StartThread
  <2>1. main = "thread" /\ main' = "keep"
    BY <1>4 DEF StartThread, After, Order
  <2>2. started' \subseteq Cameras
    BY <1>4, <2>1, CameraAssumption DEF StartThread, TypeOK, Cameras
  <2>3. TypeOK'
    BY <1>4, <1>c, <2>1, <2>2 DEF StartThread, TypeOK, CamTypeOK, SrcTypeOK, camVars, srcVars
  <2> QED
    BY <1>4, <1>c, <2>1, <2>3 DEF StartThread, FramePulled, DevicesDealt, HandlerConnected, NeverAsleep,
       camVars, srcVars
<1>5. CASE KeepQueue
  <2>1. main = "keep" /\ main' \in {"camera", "crashed"}
    BY <1>5 DEF KeepQueue
  <2>2. next \in Cameras /\ next + 1 \in 0..NumCameras
    BY <2>1, CameraAssumption DEF TypeOK, Cameras
  <2>3. queues' \in Seq(Cameras) /\ next' \in 0..NumCameras
    <3>1. queues \in Seq(Cameras) /\ next \in 0..NumCameras
      BY DEF TypeOK
    <3>2. Append(queues, next) \in Seq(Cameras)
      BY <2>2, <3>1, Appended
    <3> QED
      BY <1>5, <2>2, <3>1, <3>2 DEF KeepQueue
  <2>4. TypeOK'
    BY <1>5, <1>c, <2>1, <2>3 DEF KeepQueue, TypeOK, CamTypeOK, SrcTypeOK, camVars, srcVars
  <2> QED
    BY <1>5, <1>c, <2>1, <2>4 DEF KeepQueue, FramePulled, DevicesDealt, HandlerConnected, NeverAsleep,
       camVars, srcVars
<1>6. CASE BuildOutput
  <2>1. main = "output" /\ After(main) = "playOutput"
    BY <1>6 DEF BuildOutput, After, Order
  <2>2. main' \in {"crashed", "playOutput"} /\ devices' \in Seq(Device) /\ DevicesDealt'
    BY <1>6, <1>c, <2>1, DealDevice DEF BuildOutput, DevicesDealt
  <2>3. TypeOK'
    BY <1>6, <1>c, <2>1, <2>2 DEF BuildOutput, TypeOK, CamTypeOK, SrcTypeOK, camVars, srcVars
  <2> QED
    BY <1>6, <2>1, <2>2, <2>3 DEF BuildOutput, FramePulled, HandlerConnected, NeverAsleep, camVars, srcVars
<1>7. CASE PlayOutput
  <2>1. main = "playOutput" /\ main' = "connect" /\ handler' = handler /\ items' = items /\ caps' = caps
        /\ stream' \in {stream, "look"}
    BY <1>7 DEF PlayOutput, After, Order, PlaySource, srcVars
  <2>2. TypeOK'
    BY <1>7, <1>c, <2>1 DEF PlayOutput, TypeOK, CamTypeOK, SrcTypeOK, camVars, buildVars
  <2> QED
    BY <1>7, <1>c, <2>1, <2>2 DEF PlayOutput, FramePulled, DevicesDealt, HandlerConnected, NeverAsleep,
       camVars, buildVars
<1>8. CASE Connect
  <2>1. main = "connect" /\ main' = "caps" /\ handler' = TRUE /\ stream' = stream
        /\ items' = items /\ caps' = caps
    BY <1>8 DEF Connect, After, Order, ConnectHandler
  <2>2. TypeOK'
    BY <1>8, <1>c, <2>1 DEF Connect, TypeOK, CamTypeOK, SrcTypeOK, camVars, buildVars
  <2> QED
    BY <1>8, <1>c, <2>1, <2>2 DEF Connect, FramePulled, DevicesDealt, HandlerConnected, NeverAsleep,
       camVars, buildVars
<1>9. CASE SetCaps
  <2>1. main = "caps" /\ main' = "loop" /\ items' = Append(items, "caps")
        /\ stream' = stream /\ handler' = handler /\ caps' = caps
    BY <1>9 DEF SetCaps, After, Order, PutCaps
  <2>2. items' \in Seq({"caps", "buffer"}) /\ items' # <<>>
    <3>1. items \in Seq({"caps", "buffer"}) /\ "caps" \in {"caps", "buffer"}
      BY DEF TypeOK, SrcTypeOK
    <3> QED
      BY <2>1, <3>1, Appended
  <2>3. TypeOK'
    BY <1>9, <1>c, <2>1, <2>2 DEF SetCaps, TypeOK, CamTypeOK, SrcTypeOK, camVars, buildVars
  <2> QED
    BY <1>9, <1>c, <2>1, <2>2, <2>3 DEF SetCaps, FramePulled, DevicesDealt, HandlerConnected, NeverAsleep,
       camVars, buildVars
<1> QED
  BY <1>1, <1>2, <1>3, <1>4, <1>5, <1>6, <1>7, <1>8, <1>9 DEF MainStep

\* The steps of a camera's thread.
LEMMA CameraInv ==
  ASSUME IndInv, NEW c \in Cameras, CameraThread(c) \/ StreamEnds(c)
  PROVE  IndInv'
<1> USE DEF IndInv
<1>1. CamTypeOK' /\ FramePulled'
  <2>1. CASE PullSample(c)
    BY <2>1, CameraAssumption DEF PullSample, GoTo, TypeOK, CamTypeOK, FramePulled
  <2>2. CASE EndLoop(c) \/ ProcBuffer(c) \/ MetricsHang(c) \/ CheckSize(c)
    BY <2>2 DEF EndLoop, ProcBuffer, MetricsHang, CheckSize, GoTo, TypeOK, CamTypeOK, FramePulled
  <2>3. CASE Push(c)
    <3>1. queue[c] \in Seq(Frame) /\ frame[c] \in Frame
      BY <2>3, CameraAssumption DEF Push, TypeOK, CamTypeOK, FramePulled, Frame
    <3>2. Kept(c) \in Seq(Frame)
      BY <3>1, Appended DEF Kept
    <3> QED
      BY <2>3, <3>2 DEF Push, GoTo, TypeOK, CamTypeOK, FramePulled
  <2> QED
    BY <2>1, <2>2, <2>3 DEF CameraThread, StreamEnds, Proceed
<1>2. over' \subseteq Cameras
  BY DEF CameraThread, StreamEnds, history, TypeOK
<1> QED
  BY <1>1, <1>2 DEF CameraThread, StreamEnds, TypeOK, SrcTypeOK, DevicesDealt, HandlerConnected,
     NeverAsleep, srcVars, config, buildVars, history

\* The callback and the streaming thread.
LEMMA SourceInv == ASSUME IndInv, NeedData \/ Source PROVE IndInv'
<1> USE DEF IndInv
<1>i. items \in Seq({"caps", "buffer"})
  BY DEF TypeOK, SrcTypeOK
<1>1. CASE NeedData
  <2>1. CamTypeOK' /\ FramePulled'
    <3>1. \A d \in Cameras : d \in Waiting => queue[d] # <<>>
      BY DEF Waiting
    <3>2. ASSUME NEW d \in Cameras, d \in Waiting PROVE Tail(queue[d]) \in Seq(Frame)
      <4>1. queue[d] \in Seq(Frame) /\ queue[d] # <<>>
        BY <3>1, <3>2 DEF TypeOK, CamTypeOK
      <4> QED
        BY <4>1, HeadTailProperties
    <3>3. queue' \in [Cameras -> Seq(Frame)]
      BY <1>1, <3>2 DEF NeedData, TypeOK, CamTypeOK
    <3> QED
      BY <1>1, <3>3 DEF NeedData, TypeOK, CamTypeOK, FramePulled
  <2>2. shown' \subseteq Cameras
    <3>1. queues \in Seq(Cameras)
      BY DEF TypeOK
    <3>2. \A k \in DOMAIN queues : queues[k] \in Cameras
      BY <3>1, ElementOfSeq, LenProperties
    <3> QED
      BY <1>1, <3>2 DEF NeedData, Waiting, TypeOK
  <2>3. SrcTypeOK' /\ stream' = "look" /\ handler' = handler
    <3>1. items' = Append(items, "buffer")
      <4>1. items \o <<"buffer">> = Append(items, "buffer")
        BY <1>i, AppendIsConcat
      <4> QED
        BY <1>1, <4>1 DEF NeedData, HandlerReturns
    <3>2. items' \in Seq({"caps", "buffer"})
      BY <1>i, <3>1, Appended
    <3> QED
      BY <1>1, <3>2 DEF NeedData, HandlerReturns, TypeOK, SrcTypeOK
  <2> QED
    BY <1>1, <2>1, <2>2, <2>3 DEF NeedData, TypeOK, DevicesDealt, HandlerConnected, NeverAsleep,
       config, buildVars, history
<1>2. CASE Source
  <2>1. SrcTypeOK' /\ handler' = handler /\ (handler /\ stream' = "wait" => stream = "wait" /\ items' = items)
    <3>1. CASE TakeItem
      BY <1>i, <3>1, HeadTailProperties DEF TakeItem, TypeOK, SrcTypeOK
    <3>2. CASE SignalNeedData \/ Wake \/ PushOut
      BY <3>2 DEF SignalNeedData, Wake, PushOut, TypeOK, SrcTypeOK
    <3> QED
      BY <1>2, <3>1, <3>2 DEF Source, SrcStep
  <2> QED
    BY <1>2, <2>1 DEF Source, TypeOK, CamTypeOK, FramePulled, DevicesDealt, HandlerConnected, NeverAsleep,
       camVars, config, buildVars, history
<1> QED
  BY <1>1, <1>2

LEMMA NextInv == IndInv /\ [Next]_vars => IndInv'
<1>1. ASSUME IndInv, UNCHANGED vars PROVE IndInv'
  BY <1>1 DEF IndInv, vars, TypeOK, CamTypeOK, SrcTypeOK, FramePulled, DevicesDealt, HandlerConnected,
     NeverAsleep, camVars, srcVars, config, buildVars, history
<1> QED
  BY <1>1, MainInv, CameraInv, SourceInv DEF Next

LEMMA Invariance == SafeSpec => []IndInv
BY InitInv, NextInv, PTL DEF SafeSpec

-----------------------------------------------------------------------------
(***************************************************************************)
(* The types, the device of every pipeline among them: 0 <= dev_idx <      *)
(* max_devices is the assertion of hw_config_u30.                          *)
(***************************************************************************)
THEOREM Typing == SafeSpec => []TypeOK
BY Invariance, PTL DEF IndInv

(***************************************************************************)
(* For any number of cameras and cards the pipelines are spread evenly.    *)
(***************************************************************************)
THEOREM CardsShareTheWork == SafeSpec => []DevicesBalanced
<1>1. IndInv => DevicesBalanced
  <2> SUFFICES ASSUME IndInv, NEW j \in DOMAIN devices, NEW k \in DOMAIN devices,
                      j < k, devices[j] = devices[k]
               PROVE  k - j >= max_devices
    BY DEF DevicesBalanced
  <2>1. devices \in Seq(Device) /\ max_devices \in Nat
    BY DeviceAssumption DEF IndInv, TypeOK
  <2>2. j - 1 \in Nat /\ k - 1 \in Nat /\ devices # <<>>
    BY <2>1, LenProperties, EmptySeq
  <2>3. max_devices # 0 /\ (j - 1) % max_devices = (k - 1) % max_devices
    BY <2>2 DEF IndInv, DevicesDealt
  <2>4. (k - 1) - (j - 1) >= max_devices
    BY <2>1, <2>2, <2>3, SameRemainder
  <2> QED
    BY <2>1, <2>2, <2>4
<1> QED
  BY <1>1, Invariance, PTL

(***************************************************************************)
(* Data asked for before the compositor listens is asked for again: once   *)
(* main is in its loop nothing keeps the source asleep.                    *)
(***************************************************************************)
THEOREM SourceIsWoken == SafeSpec => []NeverAsleep
BY Invariance, PTL DEF IndInv

-----------------------------------------------------------------------------
(***************************************************************************)
(* The queues and the threads.                                             *)
(***************************************************************************)

\* main keeps the queues in the order of the cameras, and builds the output with all.
QueuesKept ==
  /\ Len(queues) = next
  /\ \A k \in 1..next : queues[k] = k - 1
  /\ main \in {"output", "playOutput", "connect", "caps", "loop"} => next = NumCameras

\* A thread is started behind its pipeline, which is never played again.
PlayedFirst ==
  /\ \A c \in started : c <= next /\ pipeline[c] # "null"
  /\ main \in {"camera", "build", "play", "thread"} => \A c \in started : c < next
  /\ main = "thread" => pipeline[next] # "null"

\* So none ends over a pipeline that would play later.
EndsKnown == \A c \in Cameras :
  camera[c] = "ended" => c \in started /\ (pipeline[c] = "failed" \/ c \in over)

StartInv == QueuesKept /\ PlayedFirst /\ EndsKnown

LEMMA StartInit == Init => StartInv
<1> SUFFICES ASSUME Init PROVE StartInv
  OBVIOUS
<1>1. Len(<<>>) = 0
  BY EmptySeq
<1> QED
  BY <1>1 DEF Init, CamInit, StartInv, QueuesKept, PlayedFirst, EndsKnown

LEMMA StartMain == ASSUME TypeOK, StartInv, MainStep PROVE StartInv'
<1> USE DEF StartInv
<1>t. /\ next \in Nat /\ next <= NumCameras /\ NumCameras \in Nat /\ queues \in Seq(Cameras)
      /\ \A c \in started : c \in Nat /\ c \in Cameras
      /\ pipeline \in [Cameras -> {"null", "playing", "failed"}]
      /\ main \in {"build", "play", "thread", "keep"} => next \in Cameras
  BY CameraAssumption DEF TypeOK, Cameras
<1>o. over' = over
  BY DEF MainStep, history
<1>c. /\ After("build") = "play" /\ After("play") = "thread" /\ After("thread") = "keep"
      /\ After("output") = "playOutput" /\ After("playOutput") = "connect"
      /\ After("connect") = "caps" /\ After("caps") = "loop"
  BY DEF After, Order
<1>1. CASE NextCamera
  <2>1. main = "camera" /\ UNCHANGED <<camera, queues, next, started, pipeline>>
        /\ main' \in {"output", "build", "keep"} /\ (main' = "output" => next = NumCameras)
    BY <1>1 DEF NextCamera, camVars, buildVars
  <2> QED
    BY <1>o, <1>t, <2>1 DEF QueuesKept, PlayedFirst, EndsKnown
<1>2. CASE BuildPipeline
  <2>1. main = "build" /\ UNCHANGED <<camera, queues, next, started, pipeline>>
        /\ main' \in {"play", "crashed"}
    BY <1>2, <1>c DEF BuildPipeline, UseDevice, camVars
  <2> QED
    BY <1>o, <1>t, <2>1 DEF QueuesKept, PlayedFirst, EndsKnown
<1>3. CASE PlayPipeline
  <2>1. main = "play" /\ UNCHANGED <<camera, queues, next, started>> /\ main' = "thread"
    BY <1>3, <1>c DEF PlayPipeline, camVars
  <2>2. /\ pipeline'[next] # "null"
        /\ \A c \in Cameras : c # next => pipeline'[c] = pipeline[c]
    BY <1>3, <1>t, <2>1 DEF PlayPipeline
  <2>3. \A c \in started : c < next /\ c # next
    BY <1>t, <2>1 DEF PlayedFirst
  <2> QED
    BY <1>o, <1>t, <2>1, <2>2, <2>3 DEF QueuesKept, PlayedFirst, EndsKnown
<1>4. CASE StartThread
  <2>1. main = "thread" /\ UNCHANGED <<camera, queues, next, pipeline>> /\ main' = "keep"
        /\ started' = started \cup {next}
    BY <1>4, <1>c DEF StartThread, camVars
  <2> QED
    BY <1>o, <1>t, <2>1 DEF QueuesKept, PlayedFirst, EndsKnown
<1>5. CASE KeepQueue
  <2>1. main = "keep" /\ UNCHANGED <<camera, started, pipeline>>
    BY <1>5 DEF KeepQueue, camVars
  <2>2. CASE Known
    <3>1. next' = next + 1 /\ main' = "camera" /\ queues' = Append(queues, next)
      BY <1>5, <2>2 DEF KeepQueue
    <3>2. /\ Len(queues') = next + 1 /\ queues'[next + 1] = next
          /\ \A k \in 1..next : queues'[k] = queues[k]
      BY <1>t, <2>1, <3>1, Appended DEF QueuesKept
    <3>3. \A k \in 1..next+1 : queues'[k] = k - 1
      <4> SUFFICES ASSUME NEW k \in 1..next+1 PROVE queues'[k] = k - 1
        OBVIOUS
      <4>1. CASE k \in 1..next
        BY <3>2, <4>1 DEF QueuesKept
      <4>2. CASE k = next + 1
        BY <1>t, <3>2, <4>2
      <4> QED
        BY <1>t, <4>1, <4>2
    <3>4. \A c \in started : c < next + 1 /\ c <= next + 1
      BY <1>t DEF PlayedFirst
    <3> QED
      BY <1>o, <2>1, <3>1, <3>2, <3>3, <3>4 DEF QueuesKept, PlayedFirst, EndsKnown
  <2>3. CASE ~Known
    BY <1>o, <1>5, <2>1, <2>3 DEF KeepQueue, QueuesKept, PlayedFirst, EndsKnown
  <2> QED
    BY <2>2, <2>3
<1>6. CASE BuildOutput \/ PlayOutput \/ Connect \/ SetCaps
  <2>1. /\ main \in {"output", "playOutput", "connect", "caps"}
        /\ main' \in {"crashed", "playOutput", "connect", "caps", "loop"}
        /\ UNCHANGED <<camera, queues, next, started, pipeline>>
    BY <1>6, <1>c DEF BuildOutput, UseDevice, PlayOutput, Connect, SetCaps, camVars, buildVars
  <2> QED
    BY <1>o, <2>1 DEF QueuesKept, PlayedFirst, EndsKnown
<1> QED
  BY <1>1, <1>2, <1>3, <1>4, <1>5, <1>6 DEF MainStep

LEMMA StartInvariance == SafeSpec => [](IndInv /\ StartInv)
<1>1. ASSUME IndInv, StartInv, [Next]_vars PROVE StartInv'
  <2>1. CASE UNCHANGED vars
    BY <1>1, <2>1 DEF vars, camVars, buildVars, history, StartInv, QueuesKept, PlayedFirst, EndsKnown
  <2>2. CASE MainStep
    BY <1>1, <2>2, StartMain DEF IndInv
  <2>3. ASSUME NEW c \in Cameras, CameraThread(c) \/ StreamEnds(c) PROVE StartInv'
    <3>1. /\ UNCHANGED <<main, next, queues, started, pipeline>> /\ c \in started
          /\ camera'[c] = "ended" => pipeline[c] # "playing" \/ c \in over'
          /\ \A d \in Cameras : d # c => camera'[d] = camera[d]
          /\ \A d \in over : d \in over'
      BY <1>1, <2>3 DEF CameraThread, StreamEnds, PullSample, EndLoop, MetricsHang, Proceed, ProcBuffer,
         CheckSize, Push, GoTo, buildVars, history, IndInv, TypeOK, CamTypeOK
    <3>2. pipeline[c] # "playing" => pipeline[c] = "failed"
      BY <1>1, <3>1 DEF StartInv, PlayedFirst, IndInv, TypeOK
    <3> QED
      BY <1>1, <3>1, <3>2 DEF StartInv, QueuesKept, PlayedFirst, EndsKnown
  <2>4. CASE NeedData \/ Source
    BY <1>1, <2>4 DEF NeedData, Source, camVars, buildVars, history, StartInv, QueuesKept, PlayedFirst,
       EndsKnown
  <2> QED
    BY <1>1, <2>1, <2>2, <2>3, <2>4 DEF Next
<1> QED
  BY <1>1, StartInit, Invariance, PTL DEF SafeSpec

(***************************************************************************)
(* Window i of the output shows camera i: the compositor gets the queues of*)
(* all cameras, in the order of the configuration, whatever the models and *)
(* whatever has failed on the way.                                         *)
(***************************************************************************)
THEOREM WindowsAreCameras ==
  SafeSpec => [](main \in {"connect", "caps", "loop"} => queues = [k \in 1..NumCameras |-> k - 1])
<1>1. IndInv /\ StartInv
        => (main \in {"connect", "caps", "loop"} => queues = [k \in 1..NumCameras |-> k - 1])
  <2> SUFFICES ASSUME IndInv, StartInv, main \in {"connect", "caps", "loop"}
               PROVE  queues = [k \in 1..NumCameras |-> k - 1]
    OBVIOUS
  <2>1. next = NumCameras /\ Len(queues) = next /\ \A k \in 1..next : queues[k] = k - 1
    BY DEF StartInv, QueuesKept
  <2>2. queues \in [1..Len(queues) -> Cameras]
    BY LenProperties DEF IndInv, TypeOK
  <2> QED
    BY <2>1, <2>2
<1> QED
  BY <1>1, StartInvariance, PTL

\* A camera that has delivered and is not shown yet has a frame in its queue or in its
\* thread's hand: one is dropped only when others wait.
FirstFrameKept ==
  \A c \in Cameras : frame[c] > 0 /\ c \notin shown
                     => queue[c] # <<>> \/ camera[c] \in {"proc", "size", "push", "hung"}

LEMMA FirstFrameStays == ASSUME IndInv, FirstFrameKept, [Next]_vars PROVE FirstFrameKept'
<1> USE DEF FirstFrameKept
<1>t. /\ camera \in [Cameras -> {"pull", "proc", "size", "push", "hung", "ended"}]
      /\ frame \in [Cameras -> 0..MaxFrames] /\ queue \in [Cameras -> Seq(Frame)]
  BY DEF IndInv, TypeOK, CamTypeOK
<1>1. CASE UNCHANGED vars
  BY <1>1 DEF vars, camVars, history
<1>2. CASE MainStep
  <2>1. UNCHANGED <<camVars, shown>>
    BY <1>2 DEF MainStep, NextCamera, BuildPipeline, PlayPipeline, StartThread, KeepQueue, BuildOutput,
       PlayOutput, Connect, SetCaps, history
  <2> QED
    BY <2>1 DEF camVars
<1>3. ASSUME NEW c \in Cameras, CameraThread(c) \/ StreamEnds(c) PROVE FirstFrameKept'
  <2>1. shown' = shown
    BY <1>3 DEF CameraThread, StreamEnds, history
  <2>2. CASE PullSample(c) \/ ProcBuffer(c) \/ MetricsHang(c)
    BY <1>t, <2>1, <2>2 DEF PullSample, ProcBuffer, MetricsHang, GoTo
  <2>3. CASE EndLoop(c)
    BY <1>t, <2>1, <2>3 DEF EndLoop, GoTo
  <2>4. CASE CheckSize(c)
    <3>1. TooMany(c) => queue[c] # <<>>
      BY <1>t, CameraAssumption, EmptySeq DEF TooMany
    <3> QED
      BY <1>t, <2>1, <2>4, <3>1 DEF CheckSize, GoTo
  <2>5. CASE Push(c)
    <3>1. frame[c] \in Frame
      BY <1>t, <2>5, CameraAssumption DEF Push, IndInv, FramePulled, Frame
    <3>2. Append(queue[c], frame[c]) # <<>>
      BY <1>t, <3>1, Appended
    <3> QED
      BY <1>t, <2>1, <2>5, <3>2 DEF Push, GoTo, Kept
  <2> QED
    BY <1>3, <2>2, <2>3, <2>4, <2>5 DEF CameraThread, StreamEnds, Proceed
<1>4. CASE NeedData
  BY <1>t, <1>4 DEF NeedData
<1>5. CASE Source
  BY <1>5 DEF Source, camVars, history
<1> QED
  BY <1>1, <1>2, <1>3, <1>4, <1>5 DEF Next

(***************************************************************************)
(* What a camera that plays and is not shown has to be shown: a frame in   *)
(* its queue, or its thread at work. The thread has not ended over a       *)
(* pipeline that played later, and an end of the stream after the first    *)
(* frame takes nothing away. The safety half of CamerasShown.              *)
(***************************************************************************)
THEOREM CamerasAreOnTheWay ==
  SafeSpec => [](\A c \in started : pipeline[c] = "playing" =>
                   \/ c \in shown \/ camera[c] = "hung" \/ EndedUnseen(c)
                   \/ queue[c] # <<>> \/ camera[c] \in {"pull", "proc", "size", "push"})
<1>1. IndInv /\ StartInv /\ FirstFrameKept
        => \A c \in started : pipeline[c] = "playing" =>
             \/ c \in shown \/ camera[c] = "hung" \/ EndedUnseen(c)
             \/ queue[c] # <<>> \/ camera[c] \in {"pull", "proc", "size", "push"}
  <2> SUFFICES ASSUME IndInv, StartInv, FirstFrameKept, NEW c \in started,
                      pipeline[c] = "playing", camera[c] = "ended", c \notin shown, queue[c] = <<>>
               PROVE  EndedUnseen(c)
    BY DEF IndInv, TypeOK, CamTypeOK
  <2>1. c \in Cameras /\ frame[c] \in Nat
    BY CameraAssumption DEF IndInv, TypeOK, CamTypeOK
  <2>2. c \in over
    BY <2>1 DEF StartInv, EndsKnown
  <2>3. ~(frame[c] > 0)
    BY <2>1 DEF FirstFrameKept
  <2> QED
    BY <2>1, <2>2, <2>3 DEF EndedUnseen
<1>2. Init => FirstFrameKept
  BY DEF Init, CamInit, FirstFrameKept
<1>3. IndInv /\ FirstFrameKept /\ [Next]_vars => FirstFrameKept'
  BY FirstFrameStays
<1> QED
  BY <1>1, <1>2, <1>3, Invariance, StartInvariance, PTL DEF SafeSpec

-----------------------------------------------------------------------------
(***************************************************************************)
(* The caps.                                                               *)
(***************************************************************************)

\* The callback runs between compositor::start's connecting it and its setting the caps.
Overtakes == NeedData /\ main = "caps"

\* Without that nothing is put before the caps.
CapsFirstInv ==
  /\ main # "loop" => items = <<>> /\ stream # "out"
  /\ main = "loop" => caps \/ (items # <<>> /\ items[1] = "caps")
  /\ stream = "out" => caps
  /\ stream = "call" => handler
  /\ stream # "ended"

LEMMA CapsStep == ASSUME IndInv, CapsFirstInv, [Next /\ ~Overtakes]_vars PROVE CapsFirstInv'
<1> USE DEF CapsFirstInv
<1>1. items \in Seq({"caps", "buffer"}) /\ (handler <=> main \in {"caps", "loop"})
  BY DEF IndInv, TypeOK, SrcTypeOK, HandlerConnected
<1>2. CASE UNCHANGED vars
  BY <1>2 DEF vars, srcVars
<1>3. CASE MainStep
  <2>1. CASE NextCamera \/ BuildPipeline \/ PlayPipeline \/ StartThread \/ KeepQueue \/ BuildOutput
    <3>1. main # "loop" /\ UNCHANGED srcVars
      BY <2>1 DEF NextCamera, BuildPipeline, PlayPipeline, StartThread, KeepQueue, BuildOutput
    <3>2. main' # "loop"
      BY <2>1 DEF NextCamera, BuildPipeline, PlayPipeline, StartThread, KeepQueue, BuildOutput, UseDevice,
         After, Order
    <3> QED
      BY <3>1, <3>2 DEF srcVars
  <2>2. CASE PlayOutput
    BY <2>2 DEF PlayOutput, PlaySource, After, Order, srcVars
  <2>3. CASE Connect
    BY <2>3 DEF Connect, ConnectHandler, After, Order
  <2>4. CASE SetCaps
    <3>1. items = <<>> /\ items' = Append(items, "caps") /\ main' = "loop"
          /\ UNCHANGED <<stream, handler, caps>> /\ stream # "out"
      BY <2>4 DEF SetCaps, PutCaps, After, Order
    <3>2. items' # <<>> /\ items'[1] = "caps"
      <4>1. items' = <<"caps">>
        BY <3>1
      <4> QED
        BY <4>1
    <3> QED
      BY <3>1, <3>2
  <2> QED
    BY <1>3, <2>1, <2>2, <2>3, <2>4 DEF MainStep
<1>4. CASE \E c \in Cameras : CameraThread(c) \/ StreamEnds(c)
  BY <1>4 DEF CameraThread, StreamEnds, srcVars
<1>5. CASE NeedData /\ ~Overtakes
  <2>1. main = "loop" /\ main' = "loop" /\ items' = items \o <<"buffer">> /\ stream' = "look"
        /\ UNCHANGED <<handler, caps>>
    BY <1>1, <1>5 DEF NeedData, Overtakes, HandlerReturns
  <2>2. items' # <<>> /\ (items # <<>> => items'[1] = items[1])
    <3>1. <<"buffer">> \in Seq({"caps", "buffer"}) /\ <<"buffer">> # <<>>
      OBVIOUS
    <3> QED
      BY <1>1, <2>1, <3>1, Joined
  <2> QED
    BY <2>1, <2>2
<1>6. CASE Source
  <2>1. main' = main
    BY <1>6 DEF Source
  <2>2. CASE TakeItem
    <3>1. Head(items) = items[1] /\ Head(items) \in {"caps", "buffer"}
      BY <1>1, <2>2, Headless DEF TakeItem
    <3> QED
      BY <2>1, <2>2, <3>1 DEF TakeItem
  <2>3. CASE SignalNeedData \/ Wake \/ PushOut
    BY <2>1, <2>3 DEF SignalNeedData, Wake, PushOut
  <2> QED
    BY <1>6, <2>2, <2>3 DEF Source, SrcStep
<1> QED
  BY <1>2, <1>3, <1>4, <1>5, <1>6 DEF Next

(***************************************************************************)
(* The encoder refuses a buffer, and the output ends, in one way only: the *)
(* callback runs after compositor::start has connected it and before the   *)
(* next statement sets the caps.                                           *)
(***************************************************************************)
THEOREM RefusedOnlyEarly == SafeSpec /\ [][~Overtakes]_vars => [](stream # "ended")
<1>1. Init => CapsFirstInv
  BY DEF Init, SrcInit, CapsFirstInv
<1>2. IndInv /\ CapsFirstInv /\ [Next]_vars /\ [~Overtakes]_vars => CapsFirstInv'
  BY CapsStep
<1>3. CapsFirstInv => stream # "ended"
  BY DEF CapsFirstInv
<1> QED
  BY <1>1, <1>2, <1>3, Invariance, PTL DEF SafeSpec

-----------------------------------------------------------------------------
(***************************************************************************)
(* The repeater. main, camera, frame, queue and the appsrc are variables of*)
(* both programs; these are those of queue2app.                            *)
(***************************************************************************)
VARIABLES step, cv_buf, last_buffer, set_caps, due

Repeater == INSTANCE Queue2App

Cam    == Repeater!Camera
Waits  == queue[Cam]
InHand == camera[Cam] \in {"proc", "size", "push"}

\* The newest frame that has been popped, 0 before the first.
Latest == IF cv_buf = 0 THEN last_buffer ELSE cv_buf

\* Where the callback is, and what it has found on its way there.
CallbackGood ==
  /\ step # "size" \/ cv_buf # 0 => stream = "call"
  /\ step = "pop" => Waits # <<>> \/ Latest = 0
  /\ step = "push" => Latest # 0

\* From the picture that is repeated to the frame in the thread's hand all get newer.
FramesGood ==
  /\ cv_buf # 0 => last_buffer < cv_buf
  /\ Latest <= frame[Cam]
  /\ \A k \in 1..Len(Waits) : Latest < Waits[k] /\ Waits[k] <= frame[Cam]
  /\ \A j, k \in 1..Len(Waits) : j < k => Waits[j] < Waits[k]
  /\ InHand => Latest < frame[Cam] /\ \A k \in 1..Len(Waits) : Waits[k] < frame[Cam]

\* What was due when data was asked for is in the queue still or has been popped; when
\* the callback is done with the queue it is the latter.
DueGood ==
  /\ due <= Latest \/ due <= Repeater!Newest
  /\ step = "push" => due <= Latest

\* The caps are set with the first picture, and are first in the queue.
CapsGood ==
  /\ set_caps <=> last_buffer = 0
  /\ set_caps => items = <<>> /\ stream # "out"
  /\ ~set_caps => caps \/ (items # <<>> /\ items[1] = "caps")
  /\ stream = "out" => caps
  /\ stream # "ended"

RepeaterInv == Repeater!TypeOK /\ CallbackGood /\ FramesGood /\ DueGood /\ CapsGood

LEMMA RepeaterTypes ==
  ASSUME Repeater!TypeOK
  PROVE  /\ Cam \in Cameras /\ Cameras = Repeater!Cameras /\ Frame = Repeater!Frame
         /\ frame[Cam] \in Nat /\ Latest \in Nat
         /\ cv_buf \in Nat /\ last_buffer \in Nat /\ due \in Nat
         /\ Waits \in Seq(Frame) /\ Len(Waits) \in Nat /\ DOMAIN Waits = 1..Len(Waits)
         /\ \A k \in 1..Len(Waits) : Waits[k] \in Nat /\ Waits[k] \in Frame
         /\ Waits = <<>> <=> Len(Waits) = 0
         /\ items \in Seq({"caps", "buffer"})
<1>1. Cam \in Cameras /\ Cameras = Repeater!Cameras /\ Frame = Repeater!Frame
  BY CameraAssumption DEF Cam, Repeater!Camera, Cameras, Repeater!Cameras, Frame, Repeater!Frame
<1>2. /\ frame[Cam] \in Nat /\ Waits \in Seq(Frame) /\ items \in Seq({"caps", "buffer"})
      /\ {cv_buf, last_buffer, due} \subseteq 0..MaxFrames
  BY <1>1, CameraAssumption
     DEF Repeater!TypeOK, Repeater!CamTypeOK, Repeater!SrcTypeOK, Waits
<1>3. cv_buf \in Nat /\ last_buffer \in Nat /\ due \in Nat /\ Latest \in Nat
  BY <1>2, CameraAssumption DEF Latest
<1>4. /\ Len(Waits) \in Nat /\ DOMAIN Waits = 1..Len(Waits)
      /\ \A k \in 1..Len(Waits) : Waits[k] \in Frame
      /\ Waits = <<>> <=> Len(Waits) = 0
  BY <1>2, LenProperties, ElementOfSeq, EmptySeq
<1>5. \A f \in Frame : f \in Nat
  BY CameraAssumption DEF Frame
<1> HIDE DEF Waits
<1> QED
  BY <1>1, <1>2, <1>3, <1>4, <1>5

LEMMA RepeaterInit == Repeater!Init => RepeaterInv
<1> SUFFICES ASSUME Repeater!Init PROVE RepeaterInv
  OBVIOUS
<1> USE DEF Repeater!Init, Repeater!CamInit, Repeater!SrcInit
<1>1. \A S : <<>> \in Seq(S) /\ Len(<<>>) = 0
  BY EmptySeq
<1>2. Repeater!TypeOK
  <2>1. 0 \in 0..MaxFrames
    BY CameraAssumption
  <2> QED
    BY <1>1, <2>1 DEF Repeater!TypeOK, Repeater!CamTypeOK, Repeater!SrcTypeOK
<1>3. Waits = <<>> /\ frame[Cam] = 0 /\ camera[Cam] = "pull" /\ Latest = 0 /\ Len(Waits) = 0
  BY <1>1, <1>2, RepeaterTypes DEF Waits, Latest
<1>4. FramesGood
  BY <1>3 DEF FramesGood, InHand
<1> QED
  BY <1>2, <1>3, <1>4 DEF RepeaterInv, CallbackGood, DueGood, CapsGood

\* The steps of main leave the frames and the callback alone.
LEMMA RepeaterMain ==
  ASSUME RepeaterInv, Repeater!Play \/ Repeater!Start \/ Repeater!Connect
  PROVE  RepeaterInv'
<1> USE DEF Repeater!Play, Repeater!Start, Repeater!Connect, Repeater!PlaySource,
        Repeater!ConnectHandler, Repeater!camVars, Repeater!srcVars, Repeater!callVars
<1>1. UNCHANGED <<camera, frame, queue, items, caps, step, cv_buf, last_buffer, set_caps, due>>
  OBVIOUS
<1>2. stream' = stream \/ (stream = "off" /\ stream' = "look")
  OBVIOUS
<1>3. Repeater!TypeOK'
  BY <1>1, <1>2 DEF RepeaterInv, Repeater!TypeOK, Repeater!CamTypeOK, Repeater!SrcTypeOK
<1>4. Waits' = Waits /\ Latest' = Latest /\ Repeater!Newest' = Repeater!Newest /\ InHand' = InHand
      /\ frame'[Cam] = frame[Cam]
  BY <1>1 DEF Waits, Latest, Repeater!Newest, InHand, Cam, Repeater!Camera
<1>5. CallbackGood' /\ FramesGood' /\ DueGood' /\ CapsGood'
  BY <1>1, <1>2, <1>4 DEF RepeaterInv, CallbackGood, FramesGood, DueGood, CapsGood, Cam, Repeater!Camera
<1> QED
  BY <1>3, <1>5 DEF RepeaterInv

\* The camera's thread, while it does not touch the queue.
LEMMA RepeaterMoves ==
  ASSUME RepeaterInv, Repeater!CameraThread,
         \/ Repeater!PullSample(Cam) \/ Repeater!EndLoop(Cam)
         \/ Repeater!ProcBuffer(Cam) \/ Repeater!CheckSize(Cam)
  PROVE  RepeaterInv'
<1> USE DEF Repeater!PullSample, Repeater!EndLoop, Repeater!ProcBuffer, Repeater!CheckSize,
        Repeater!GoTo
<1>1. UNCHANGED <<queue, stream, items, caps, handler, main, step, cv_buf, last_buffer, set_caps, due>>
  BY DEF Repeater!CameraThread, Repeater!srcVars, Repeater!callVars
<1>2. Repeater!TypeOK
  BY DEF RepeaterInv
<1>3. /\ camera' \in [Repeater!Cameras -> {"pull", "proc", "size", "push", "hung", "ended"}]
      /\ frame' \in [Repeater!Cameras -> 0..MaxFrames]
      /\ \/ frame'[Cam] = frame[Cam] /\ (camera'[Cam] \in {"proc", "size", "push"} => InHand)
         \/ frame'[Cam] = frame[Cam] + 1
  <2>1. /\ camera \in [Repeater!Cameras -> {"pull", "proc", "size", "push", "hung", "ended"}]
        /\ frame \in [Repeater!Cameras -> 0..MaxFrames] /\ Cam \in Repeater!Cameras
    BY <1>2, RepeaterTypes DEF Repeater!TypeOK, Repeater!CamTypeOK
  <2>2. CASE Repeater!PullSample(Cam)
    <3>1. frame[Cam] + 1 \in 0..MaxFrames
      BY <2>1, <2>2, CameraAssumption
    <3> QED
      BY <2>1, <2>2, <3>1
  <2>3. CASE Repeater!EndLoop(Cam) \/ Repeater!ProcBuffer(Cam)
    BY <2>1, <2>3 DEF InHand
  <2>4. CASE Repeater!CheckSize(Cam)
    BY <2>1, <2>4 DEF InHand
  <2> QED
    BY <2>2, <2>3, <2>4
<1>4. Repeater!TypeOK'
  BY <1>1, <1>2, <1>3 DEF Repeater!TypeOK, Repeater!CamTypeOK, Repeater!SrcTypeOK
<1>5. Waits' = Waits /\ Latest' = Latest /\ Repeater!Newest' = Repeater!Newest
  BY <1>1 DEF Waits, Latest, Repeater!Newest, Cam, Repeater!Camera
<1>6. FramesGood'
  <2>1. cv_buf # 0 => last_buffer < cv_buf
    BY DEF RepeaterInv, FramesGood
  <2>2. /\ Latest \in Nat /\ frame[Cam] \in Nat /\ Latest <= frame[Cam]
        /\ \A k \in 1..Len(Waits) : Waits[k] \in Nat /\ Latest < Waits[k] /\ Waits[k] <= frame[Cam]
        /\ \A j, k \in 1..Len(Waits) : j < k => Waits[j] < Waits[k]
    BY <1>2, RepeaterTypes DEF RepeaterInv, FramesGood
  <2>3. CASE frame'[Cam] = frame[Cam] /\ (InHand' => InHand)
    BY <1>1, <1>5, <2>3 DEF RepeaterInv, FramesGood, Cam, Repeater!Camera
  <2>4. CASE frame'[Cam] = frame[Cam] + 1
    <3>1. /\ Latest < frame'[Cam] /\ Latest <= frame'[Cam]
          /\ \A k \in 1..Len(Waits) : Waits[k] < frame'[Cam] /\ Waits[k] <= frame'[Cam]
      BY <2>2, <2>4
    <3> QED
      BY <1>1, <1>5, <2>1, <2>2, <3>1 DEF FramesGood, Cam, Repeater!Camera
  <2> QED
    BY <1>3, <2>3, <2>4 DEF InHand, Cam, Repeater!Camera
<1>7. CallbackGood' /\ DueGood' /\ CapsGood'
  BY <1>1, <1>5 DEF RepeaterInv, CallbackGood, DueGood, CapsGood
<1> QED
  BY <1>4, <1>6, <1>7 DEF RepeaterInv

\* The frame in the thread's hand is newer than all others, and becomes the newest in the queue.
LEMMA RepeaterPush ==
  ASSUME RepeaterInv, Repeater!CameraThread, Repeater!Push(Cam)
  PROVE  RepeaterInv'
<1> DEFINE n == Len(Waits)
           f == frame[Cam]
           q == Waits'
<1>1. UNCHANGED <<frame, stream, items, caps, handler, main, step, cv_buf, last_buffer, set_caps, due>>
  BY DEF Repeater!CameraThread, Repeater!srcVars, Repeater!callVars, Repeater!Push
<1>2. Repeater!TypeOK /\ InHand
  BY DEF RepeaterInv, Repeater!Push, InHand
<1>3. /\ Latest < f /\ n \in Nat /\ Latest \in Nat /\ f \in Nat /\ f \in Frame
      /\ \A k \in 1..n : Waits[k] \in Nat /\ Latest < Waits[k] /\ Waits[k] < f
      /\ \A j, k \in 1..n : j < k => Waits[j] < Waits[k]
  <2>1. /\ Latest < f /\ Latest \in Nat /\ f \in Nat /\ n \in Nat
        /\ \A k \in 1..n : Waits[k] \in Nat /\ Latest < Waits[k] /\ Waits[k] < f
        /\ \A j, k \in 1..n : j < k => Waits[j] < Waits[k]
    BY <1>2, RepeaterTypes DEF RepeaterInv, FramesGood
  <2>2. f <= MaxFrames
    BY <1>2, RepeaterTypes, CameraAssumption DEF Repeater!TypeOK, Repeater!CamTypeOK
  <2>3. f \in Frame
    BY <2>1, <2>2, CameraAssumption DEF Frame
  <2> QED
    BY <2>1, <2>3
<1>4. /\ q = Append(Waits, f)
      /\ camera'[Cam] = "pull"
      /\ camera' \in [Repeater!Cameras -> {"pull", "proc", "size", "push", "hung", "ended"}]
  BY <1>2, RepeaterTypes
     DEF Repeater!TypeOK, Repeater!CamTypeOK, Repeater!Push, Repeater!GoTo, Repeater!Kept, Waits, Cam,
         Repeater!Camera
<1>5. /\ q \in Seq(Frame) /\ Len(q) = n + 1 /\ q[n + 1] = f /\ q # <<>>
      /\ \A k \in 1..n : q[k] = Waits[k]
  BY <1>2, <1>3, <1>4, RepeaterTypes, Appended
<1>6. Repeater!TypeOK'
  <2>1. queue' \in [Repeater!Cameras -> Seq(Repeater!Frame)]
    BY <1>2, <1>5, RepeaterTypes
       DEF Repeater!TypeOK, Repeater!CamTypeOK, Repeater!Push, Waits, Cam, Repeater!Camera
  <2> QED
    BY <1>1, <1>2, <1>4, <2>1 DEF Repeater!TypeOK, Repeater!CamTypeOK, Repeater!SrcTypeOK
<1>7. Latest' = Latest /\ ~InHand' /\ frame'[Cam] = f
  BY <1>1, <1>4 DEF Latest, InHand, Cam, Repeater!Camera
<1>8. Repeater!Newest' = f /\ Repeater!Newest <= f
  <2>1. Repeater!Newest' = q[Len(q)]
    BY <1>5 DEF Repeater!Newest, Waits, Cam
  <2>2. Repeater!Newest = IF Waits = <<>> THEN 0 ELSE Waits[n]
    BY DEF Repeater!Newest, Waits, Cam
  <2>3. Waits # <<>> => n \in 1..n
    BY <1>2, <1>3, RepeaterTypes
  <2> HIDE DEF q, n, f
  <2> QED
    BY <1>3, <1>5, <2>1, <2>2, <2>3
<1>9. FramesGood'
  <2> HIDE DEF n, f, q
  <2>1. ASSUME NEW k \in 1..n+1 PROVE Latest < q[k] /\ q[k] <= f
    <3>1. CASE k \in 1..n
      BY <1>3, <1>5, <3>1
    <3>2. CASE k = n + 1
      BY <1>3, <1>5, <3>2
    <3> QED
      BY <1>3, <3>1, <3>2
  <2>2. ASSUME NEW j \in 1..n+1, NEW k \in 1..n+1, j < k PROVE q[j] < q[k]
    <3>1. CASE k \in 1..n
      BY <1>3, <1>5, <2>2, <3>1
    <3>2. CASE k = n + 1
      BY <1>3, <1>5, <2>2, <3>2
    <3> QED
      BY <1>3, <3>1, <3>2
  <2>3. cv_buf # 0 => last_buffer < cv_buf
    BY DEF RepeaterInv, FramesGood
  <2>4. Latest <= f
    BY <1>3
  <2> QED
    BY <1>1, <1>5, <1>7, <2>1, <2>2, <2>3, <2>4 DEF FramesGood, q, f
<1>10. DueGood'
  <2>1. due \in Nat /\ Repeater!Newest \in Nat
    <3>1. Repeater!Newest = IF Waits = <<>> THEN 0 ELSE Waits[n]
      BY DEF Repeater!Newest, Waits, Cam
    <3>2. Waits # <<>> => n \in 1..n
      BY <1>2, <1>3, RepeaterTypes
    <3> HIDE DEF n
    <3> QED
      BY <1>2, <1>3, <3>1, <3>2, RepeaterTypes
  <2> HIDE DEF f
  <2> QED
    BY <1>1, <1>3, <1>7, <1>8, <2>1 DEF RepeaterInv, DueGood
<1>11. CallbackGood' /\ CapsGood'
  BY <1>1, <1>5, <1>7 DEF RepeaterInv, CallbackGood, CapsGood
<1> QED
  BY <1>6, <1>9, <1>10, <1>11 DEF RepeaterInv

\* The streaming thread: a buffer leaves the queue only behind the caps.
LEMMA RepeaterSource == ASSUME RepeaterInv, Repeater!Source PROVE RepeaterInv'
<1>1. UNCHANGED <<camera, frame, queue, main, step, cv_buf, last_buffer, set_caps>>
  BY DEF Repeater!Source, Repeater!camVars
<1>2. Repeater!TypeOK /\ CallbackGood /\ CapsGood
  BY DEF RepeaterInv
<1>3. Waits' = Waits /\ Latest' = Latest /\ Repeater!Newest' = Repeater!Newest /\ InHand' = InHand
      /\ frame'[Cam] = frame[Cam]
  BY <1>1 DEF Waits, Latest, Repeater!Newest, InHand, Cam, Repeater!Camera
<1>4. stream # "call" /\ step = "size" /\ cv_buf = 0
  BY <1>2 DEF Repeater!Source, Repeater!SrcStep, Repeater!TakeItem, Repeater!SignalNeedData,
     Repeater!Wake, Repeater!PushOut, CallbackGood, Repeater!TypeOK
<1>5. Repeater!SrcTypeOK' /\ CapsGood'
  <2>1. CASE Repeater!TakeItem
    <3>1. /\ items # <<>> /\ items' \in Seq({"caps", "buffer"}) /\ Head(items) = items[1]
          /\ Head(items) \in {"caps", "buffer"}
      BY <1>2, <2>1, RepeaterTypes, Headless DEF Repeater!TakeItem
    <3> QED
      BY <1>1, <1>2, <2>1, <3>1 DEF Repeater!TakeItem, Repeater!TypeOK, Repeater!SrcTypeOK, CapsGood
  <2>2. CASE Repeater!SignalNeedData \/ Repeater!Wake \/ Repeater!PushOut
    BY <1>1, <1>2, <2>2 DEF Repeater!SignalNeedData, Repeater!Wake, Repeater!PushOut,
       Repeater!TypeOK, Repeater!SrcTypeOK, CapsGood
  <2> QED
    BY <2>1, <2>2 DEF Repeater!Source, Repeater!SrcStep
<1>6. due' = due \/ due' = Repeater!Newest
  BY DEF Repeater!Source
<1>7. Repeater!Newest \in 0..MaxFrames
  <2>1. Repeater!Newest = IF Waits = <<>> THEN 0 ELSE Waits[Len(Waits)]
    BY DEF Repeater!Newest, Waits, Cam
  <2>2. Waits # <<>> => Waits[Len(Waits)] \in Frame
    <3>1. Waits # <<>> => Len(Waits) \in 1..Len(Waits)
      BY <1>2, RepeaterTypes
    <3> QED
      BY <1>2, <3>1, RepeaterTypes
  <2> QED
    BY <2>1, <2>2, CameraAssumption DEF Frame
<1>8. Repeater!TypeOK'
  BY <1>1, <1>2, <1>5, <1>6, <1>7 DEF Repeater!TypeOK, Repeater!CamTypeOK
<1>9. DueGood'
  <2>1. Repeater!Newest <= Repeater!Newest
    BY <1>7, CameraAssumption
  <2> QED
    BY <1>1, <1>3, <1>4, <1>6, <2>1 DEF RepeaterInv, DueGood
<1>10. FramesGood' /\ CallbackGood'
  BY <1>1, <1>3, <1>4 DEF RepeaterInv, FramesGood, CallbackGood, Cam, Repeater!Camera
<1> QED
  BY <1>5, <1>8, <1>9, <1>10 DEF RepeaterInv

\* The callback.
LEMMA RepeaterCheck == ASSUME RepeaterInv, Repeater!CheckQueue PROVE RepeaterInv'
<1> USE DEF Repeater!CheckQueue
<1>1. /\ UNCHANGED <<camera, frame, queue, stream, items, handler, caps, main, cv_buf, last_buffer,
                     set_caps, due>>
      /\ stream = "call" /\ step = "size"
      /\ step' = IF Waits # <<>> \/ Latest = 0 THEN "pop" ELSE "push"
  <2>1. Repeater!TakesAnother <=> Waits # <<>> \/ Latest = 0
    BY RepeaterTypes DEF Repeater!TakesAnother, Waits, Latest, Cam, RepeaterInv
  <2> QED
    BY <2>1 DEF Repeater!camVars, Repeater!srcVars
<1>2. Waits' = Waits /\ Latest' = Latest /\ Repeater!Newest' = Repeater!Newest /\ InHand' = InHand
      /\ frame'[Cam] = frame[Cam]
  BY <1>1 DEF Waits, Latest, Repeater!Newest, InHand, Cam, Repeater!Camera
<1>3. Repeater!TypeOK'
  BY <1>1 DEF RepeaterInv, Repeater!TypeOK, Repeater!CamTypeOK, Repeater!SrcTypeOK
<1>4. CallbackGood' /\ CapsGood'
  BY <1>1, <1>2 DEF RepeaterInv, CallbackGood, CapsGood
<1>5. FramesGood'
  BY <1>1, <1>2 DEF RepeaterInv, FramesGood, Cam, Repeater!Camera
<1>6. DueGood'
  <2>1. Waits = <<>> => Repeater!Newest = 0
    BY DEF Repeater!Newest, Waits, Cam
  <2>2. due \in Nat /\ Latest \in Nat
    BY RepeaterTypes DEF RepeaterInv
  <2> QED
    BY <1>1, <1>2, <2>1, <2>2 DEF RepeaterInv, DueGood
<1> QED
  BY <1>3, <1>4, <1>5, <1>6 DEF RepeaterInv

\* The frame popped is newer than what was popped before, and older than all that wait.
LEMMA RepeaterPop == ASSUME RepeaterInv, Repeater!Pop PROVE RepeaterInv'
<1> DEFINE q == Waits
           n == Len(q)
           t == Waits'
           h == q[1]
           f == frame[Cam]
<1>1. /\ UNCHANGED <<camera, frame, stream, items, handler, caps, main, last_buffer, set_caps, due>>
      /\ step = "pop" /\ step' = "size" /\ q # <<>> /\ cv_buf' = Head(q)
  BY DEF Repeater!Pop, Repeater!srcVars, Waits, Cam
<1>2. Repeater!TypeOK /\ q \in Seq(Frame)
  BY RepeaterTypes DEF RepeaterInv
<1>3. t = Tail(q)
  BY <1>2, RepeaterTypes DEF Repeater!Pop, Repeater!TypeOK, Repeater!CamTypeOK, Waits, Cam, Repeater!Camera
<1>4. /\ t \in Seq(Frame) /\ Len(t) = n - 1 /\ n \in Nat \ {0} /\ cv_buf' = h /\ h \in Frame
      /\ \A k \in 1..n-1 : t[k] = q[k + 1]
  BY <1>1, <1>2, <1>3, Headless
<1>5. h \in Nat \ {0} /\ h \in 0..MaxFrames
  BY <1>4, CameraAssumption DEF Frame
<1>6. Latest' = h
  BY <1>4, <1>5 DEF Latest
<1>7. Repeater!TypeOK'
  <2>1. queue' \in [Repeater!Cameras -> Seq(Repeater!Frame)]
    BY <1>2, <1>3, <1>4, RepeaterTypes
       DEF Repeater!Pop, Repeater!TypeOK, Repeater!CamTypeOK, Waits, Cam, Repeater!Camera
  <2> QED
    BY <1>1, <1>2, <1>4, <1>5, <2>1 DEF Repeater!TypeOK, Repeater!CamTypeOK, Repeater!SrcTypeOK
<1>8. /\ last_buffer \in Nat /\ cv_buf \in Nat /\ Latest \in Nat /\ f \in Nat /\ last_buffer <= Latest
      /\ \A k \in 1..n : q[k] \in Nat /\ Latest < q[k] /\ q[k] <= f
      /\ \A j, k \in 1..n : j < k => q[j] < q[k]
      /\ InHand => \A k \in 1..n : q[k] < f
  <2>1. last_buffer <= Latest
    BY <1>2, RepeaterTypes DEF RepeaterInv, FramesGood, Latest
  <2> QED
    BY <1>2, <2>1, RepeaterTypes DEF RepeaterInv, FramesGood
<1> HIDE DEF q, n, t, h, f
<1>9. 1 \in 1..n /\ last_buffer < h /\ Latest < h /\ h <= f /\ (InHand => h < f)
  <2>1. 1 \in 1..n
    BY <1>4
  <2>2. Latest < h /\ h <= f /\ (InHand => h < f)
    BY <1>8, <2>1 DEF h
  <2> QED
    BY <1>5, <1>8, <2>1, <2>2
<1>10. FramesGood'
  <2>1. ASSUME NEW k \in 1..n-1 PROVE h < t[k] /\ t[k] <= f /\ (InHand => t[k] < f)
    <3>1. k + 1 \in 1..n /\ 1 < k + 1
      BY <1>4
    <3> QED
      BY <1>4, <1>8, <1>9, <3>1 DEF h
  <2>2. ASSUME NEW j \in 1..n-1, NEW k \in 1..n-1, j < k PROVE t[j] < t[k]
    <3>1. j + 1 \in 1..n /\ k + 1 \in 1..n /\ j + 1 < k + 1
      BY <1>4, <2>2
    <3> QED
      BY <1>4, <1>8, <3>1
  <2>3. InHand' <=> InHand
    BY <1>1 DEF InHand, Cam, Repeater!Camera
  <2>4. frame'[Cam] = f
    BY <1>1 DEF f, Cam, Repeater!Camera
  <2>5. cv_buf' = h /\ last_buffer' = last_buffer
    BY <1>1, <1>4
  <2> QED
    BY <1>4, <1>6, <1>9, <2>1, <2>2, <2>3, <2>4, <2>5 DEF FramesGood, t
<1>11. DueGood'
  <2>1. due <= Latest \/ due <= q[n]
    <3>1. Repeater!Newest = q[n]
      BY <1>1 DEF Repeater!Newest, q, n, Waits, Cam
    <3> QED
      BY <3>1 DEF RepeaterInv, DueGood
  <2>2. due \in Nat
    BY <1>2, RepeaterTypes
  <2>3. Repeater!Newest' = IF t = <<>> THEN 0 ELSE t[n - 1]
    BY <1>4 DEF Repeater!Newest, t, Waits, Cam
  <2>4. CASE n = 1
    BY <1>1, <1>6, <1>8, <1>9, <2>1, <2>2, <1>5, <2>4 DEF DueGood, h
  <2>5. CASE n # 1
    <3>1. n - 1 \in 1..n-1 /\ (n - 1) + 1 = n /\ Len(t) # 0
      BY <1>4, <2>5
    <3>2. t # <<>>
      BY <1>4, <3>1, EmptySeq
    <3>3. Repeater!Newest' = q[n]
      BY <1>4, <2>3, <3>1, <3>2
    <3>4. due <= h \/ due <= q[n]
      BY <1>5, <1>8, <1>9, <2>1, <2>2
    <3> QED
      BY <1>1, <1>6, <3>3, <3>4 DEF DueGood
  <2> QED
    BY <2>4, <2>5
<1>12. CallbackGood' /\ CapsGood'
  BY <1>1, <1>5, <1>6 DEF RepeaterInv, CallbackGood, CapsGood
<1> QED
  BY <1>7, <1>10, <1>11, <1>12 DEF RepeaterInv

\* What is pushed is the newest frame that was popped.
LEMMA RepeaterPushBuffer ==
  ASSUME RepeaterInv, Repeater!PushBuffer
  PROVE  RepeaterInv' /\ last_buffer' = Latest
<1> DEFINE put == (IF set_caps /\ Repeater!IsNew THEN <<"caps">> ELSE <<>>) \o <<"buffer">>
<1>1. /\ UNCHANGED <<camera, frame, queue, handler, caps, main, due>>
      /\ step = "push" /\ step' = "size" /\ cv_buf' = 0 /\ stream' = "look"
      /\ items' = items \o put
      /\ last_buffer' = Latest
      /\ set_caps' = (set_caps /\ cv_buf = 0)
  BY DEF Repeater!PushBuffer, Repeater!HandlerReturns, Repeater!camVars, Repeater!IsNew, Latest
<1>2. Repeater!TypeOK /\ CapsGood /\ Latest # 0 /\ due <= Latest
  BY <1>1 DEF RepeaterInv, CallbackGood, DueGood
<1>3. /\ put \in Seq({"caps", "buffer"}) /\ put # <<>>
      /\ set_caps /\ Repeater!IsNew => put[1] = "caps"
  <2>1. CASE set_caps /\ Repeater!IsNew
    BY <2>1
  <2>2. CASE ~(set_caps /\ Repeater!IsNew)
    BY <2>2
  <2> QED
    BY <2>1, <2>2
<1>4. items \in Seq({"caps", "buffer"})
  BY <1>2, RepeaterTypes
<1> HIDE DEF put
<1>5. /\ items' \in Seq({"caps", "buffer"}) /\ items' # <<>>
      /\ items # <<>> => items'[1] = items[1]
      /\ items = <<>> => items'[1] = put[1]
  BY <1>1, <1>3, <1>4, Joined
<1>6. ~set_caps' /\ (caps \/ items'[1] = "caps")
  <2>1. CASE set_caps
    <3>1. cv_buf # 0 /\ items = <<>>
      BY <1>2, <2>1 DEF CapsGood, Latest
    <3> QED
      BY <1>1, <1>3, <1>5, <2>1, <3>1 DEF Repeater!IsNew
  <2>2. CASE ~set_caps
    BY <1>1, <1>2, <1>5, <2>2 DEF CapsGood
  <2> QED
    BY <2>1, <2>2
<1>7. CapsGood'
  BY <1>1, <1>2, <1>5, <1>6 DEF CapsGood
<1>8. Waits' = Waits /\ InHand' = InHand /\ frame'[Cam] = frame[Cam] /\ Latest' = Latest
      /\ Repeater!Newest' = Repeater!Newest
  BY <1>1 DEF Waits, InHand, Cam, Repeater!Camera, Latest, Repeater!Newest
<1>9. FramesGood' /\ CallbackGood' /\ DueGood'
  BY <1>1, <1>2, <1>8 DEF RepeaterInv, FramesGood, CallbackGood, DueGood, Cam, Repeater!Camera
<1>10. Repeater!TypeOK'
  <2>1. {cv_buf', last_buffer', due'} \subseteq 0..MaxFrames
    <3>1. {cv_buf, last_buffer, due} \subseteq 0..MaxFrames
      BY <1>2 DEF Repeater!TypeOK
    <3>2. 0 \in 0..MaxFrames
      BY CameraAssumption
    <3> QED
      BY <1>1, <3>1, <3>2 DEF Latest
  <2>2. set_caps' \in BOOLEAN
    BY <1>6, <1>1
  <2> QED
    BY <1>1, <1>2, <1>5, <2>1, <2>2 DEF Repeater!TypeOK, Repeater!CamTypeOK, Repeater!SrcTypeOK
<1> QED
  BY <1>1, <1>7, <1>9, <1>10 DEF RepeaterInv

LEMMA RepeaterInvariance == Repeater!SafeSpec => []RepeaterInv
<1>1. ASSUME RepeaterInv, [Repeater!Next]_Repeater!vars PROVE RepeaterInv'
  <2>1. CASE UNCHANGED Repeater!vars
    BY <1>1, <2>1 DEF Repeater!vars, Repeater!camVars, Repeater!srcVars, Repeater!callVars, RepeaterInv,
       Repeater!TypeOK, Repeater!CamTypeOK, Repeater!SrcTypeOK, CallbackGood, FramesGood, DueGood,
       CapsGood, Waits, InHand, Latest, Repeater!Newest, Cam, Repeater!Camera
  <2>2. CASE Repeater!CameraThread
    <3>1. \/ Repeater!PullSample(Cam) \/ Repeater!EndLoop(Cam)
          \/ Repeater!ProcBuffer(Cam) \/ Repeater!CheckSize(Cam) \/ Repeater!Push(Cam)
      BY <2>2 DEF Repeater!CameraThread, Repeater!Proceed, Cam
    <3> QED
      BY <1>1, <2>2, <3>1, RepeaterMoves, RepeaterPush
  <2> QED
    BY <1>1, <2>1, <2>2, RepeaterMain, RepeaterSource, RepeaterCheck, RepeaterPop, RepeaterPushBuffer
       DEF Repeater!Next, Repeater!Callback
<1> QED
  BY <1>1, RepeaterInit, PTL DEF Repeater!SafeSpec

-----------------------------------------------------------------------------
(***************************************************************************)
(* "Get last frame": the picture that need_data pushes is at least as new  *)
(* as the newest frame that was in the queue when it was called, for any   *)
(* number of frames and any limit of the queue.                            *)
(***************************************************************************)
THEOREM LastFrame == Repeater!SafeSpec => Repeater!LastFrameIsPushed
<1>1. RepeaterInv /\ [Repeater!Next]_Repeater!vars
        => [Repeater!PushBuffer => last_buffer' >= due]_Repeater!vars
  <2> SUFFICES ASSUME RepeaterInv, Repeater!PushBuffer PROVE last_buffer' >= due
    OBVIOUS
  <2>1. last_buffer' = Latest /\ step = "push"
    BY RepeaterPushBuffer DEF Repeater!PushBuffer
  <2>2. due \in Nat /\ Latest \in Nat /\ due <= Latest
    BY <2>1, RepeaterTypes DEF RepeaterInv, DueGood
  <2> QED
    BY <2>1, <2>2
<1> QED
  BY <1>1, RepeaterInvariance, PTL DEF Repeater!SafeSpec, Repeater!LastFrameIsPushed

(***************************************************************************)
(* The output of the repeater never goes back in time: last_gst_buffer is  *)
(* replaced by newer frames only.                                          *)
(***************************************************************************)
THEOREM RepeaterGoesForward == Repeater!SafeSpec => Repeater!RepeatsGoForward
<1>1. RepeaterInv /\ [Repeater!Next]_Repeater!vars => [last_buffer' >= last_buffer]_Repeater!vars
  <2> SUFFICES ASSUME RepeaterInv, Repeater!Next PROVE last_buffer' >= last_buffer
    BY DEF Repeater!vars, Repeater!callVars
  <2>1. last_buffer \in Nat /\ cv_buf \in Nat /\ (cv_buf # 0 => last_buffer < cv_buf)
    BY RepeaterTypes DEF RepeaterInv, FramesGood
  <2>2. CASE Repeater!PushBuffer
    BY <2>1, <2>2, RepeaterPushBuffer DEF Latest
  <2>3. CASE ~Repeater!PushBuffer
    <3>1. last_buffer' = last_buffer
      BY <2>3 DEF Repeater!Next, Repeater!Play, Repeater!Start, Repeater!Connect, Repeater!CameraThread,
         Repeater!Source, Repeater!Callback, Repeater!CheckQueue, Repeater!Pop, Repeater!callVars
    <3> QED
      BY <2>1, <3>1
  <2> QED
    BY <2>2, <2>3
<1> QED
  BY <1>1, RepeaterInvariance, PTL DEF Repeater!SafeSpec, Repeater!RepeatsGoForward

(***************************************************************************)
(* The repeater sets the caps with its first picture and in front of it, so*)
(* the encoder never refuses what it pushes. (video_server's compositor    *)
(* does otherwise, see RefusedOnlyEarly.)                                  *)
(***************************************************************************)
THEOREM RepeaterIsNotRefused == Repeater!SafeSpec => []Repeater!NeverRefused
<1>1. RepeaterInv => Repeater!NeverRefused
  BY DEF RepeaterInv, CapsGood, Repeater!NeverRefused
<1> QED
  BY <1>1, RepeaterInvariance, PTL

(***************************************************************************)
(* The types of the repeater's program, in every reachable state.          *)
(***************************************************************************)
THEOREM RepeaterTyping == Repeater!SafeSpec => []Repeater!TypeOK
<1>1. RepeaterInv => Repeater!TypeOK
  BY DEF RepeaterInv
<1> QED
  BY <1>1, RepeaterInvariance, PTL
=============================================================================
