-------------------------- MODULE Compositor_proofs -------------------------
(***************************************************************************)
(* Proofs about the compositor and its cameras, for any number of cameras, *)
(* any limit of the queues and any number of buffers. The camera side and  *)
(* the buffers are invariants of their own: neither looks at the other's   *)
(* state except through the canvas.                                        *)
(***************************************************************************)
EXTENDS Compositor, SequenceTheorems, FiniteSetTheorems, TLAPS

-----------------------------------------------------------------------------
(***************************************************************************)
(* Sequences.                                                              *)
(***************************************************************************)
LEMMA Appended ==
  ASSUME NEW S, NEW s \in Seq(S), NEW e \in S
  PROVE  /\ Append(s, e) \in Seq(S) /\ Len(Append(s, e)) = Len(s) + 1
         /\ DOMAIN Append(s, e) = 1..Len(s)+1 /\ DOMAIN s = 1..Len(s) /\ Len(s) \in Nat
         /\ \A k \in 1..Len(s) : Append(s, e)[k] = s[k]
         /\ Append(s, e)[Len(s) + 1] = e
BY AppendProperties, LenProperties

LEMMA Headless ==
  ASSUME NEW S, NEW s \in Seq(S), s # <<>>
  PROVE  /\ Tail(s) \in Seq(S) /\ Len(Tail(s)) = Len(s) - 1 /\ Len(s) \in Nat \ {0}
         /\ DOMAIN Tail(s) = 1..Len(s)-1 /\ DOMAIN s = 1..Len(s)
         /\ Head(s) = s[1] /\ Head(s) \in S
         /\ \A k \in 1..Len(s)-1 : Tail(s)[k] = s[k + 1]
<1>1. Head(s) = s[1] /\ Head(s) \in S BY HeadTailProperties
<1>2. Tail(s) \in Seq(S) /\ Len(Tail(s)) = Len(s) - 1 BY HeadTailProperties
<1>3. Len(s) \in Nat \ {0} /\ DOMAIN s = 1..Len(s) BY LenProperties, EmptySeq
<1>4. DOMAIN Tail(s) = 1..Len(s)-1 BY <1>2, LenProperties
<1>5. \A k \in 1..Len(s)-1 : Tail(s)[k] = s[k + 1] BY <1>3, HeadTailProperties
<1> QED BY <1>1, <1>2, <1>3, <1>4, <1>5

-----------------------------------------------------------------------------
(***************************************************************************)
(* The camera threads and their queues.                                    *)
(***************************************************************************)

\* The thread has tested the size and found room, which only it can fill.
RoomToPush == \A c \in Cameras :
  Len(queue[c]) <= MaxQueue + (IF camera[c] = "push" THEN 0 ELSE 1)

\* FramesInOrder, taken apart; the last frame pulled is at least as new as all others.
Ordered(c) ==
  /\ canvas[c] <= frame[c]
  /\ \A k \in DOMAIN queue[c] : canvas[c] < queue[c][k] /\ queue[c][k] <= frame[c]
  /\ \A j, k \in DOMAIN queue[c] : j < k => queue[c][j] < queue[c][k]
  /\ InHand(c) => /\ canvas[c] < frame[c]
                  /\ \A k \in DOMAIN queue[c] : queue[c][k] < frame[c]

AllOrdered == \A c \in Cameras : Ordered(c)

\* Where the callback is, as far as the queues are concerned.
CursorOK == /\ comp \in {"idle", "size", "pop", "make", "push"}
            /\ i \in 0..NumCameras /\ (comp \in {"size", "pop"} => i \in Cameras)
            /\ canvas \in Canvas

CamInv == CamTypeOK /\ CursorOK /\ RoomToPush /\ AllOrdered /\ CompositorNeverBlocks

LEMMA CamInit_ == Init => CamInv
<1> SUFFICES ASSUME Init PROVE CamInv OBVIOUS
<1>1. <<>> \in Seq(Frame) /\ Len(<<>>) = 0 /\ DOMAIN <<>> = {} BY EmptySeq
<1>2. CamTypeOK BY <1>1, CameraAssumption DEF Init, CamInit, CamTypeOK
<1>3. CursorOK BY CameraAssumption DEF Init, CursorOK, Canvas, Blank
<1>4. RoomToPush BY <1>1, CameraAssumption DEF Init, CamInit, RoomToPush
<1>5. AllOrdered BY <1>1 DEF Init, CamInit, AllOrdered, Ordered, Blank, InHand
<1>6. CompositorNeverBlocks BY DEF Init, CompositorNeverBlocks
<1> QED BY <1>2, <1>3, <1>4, <1>5, <1>6 DEF CamInv

\* Facts about one camera that every step below starts from.
LEMMA CameraTypes ==
  ASSUME CamInv, NEW c \in Cameras
  PROVE  /\ queue[c] \in Seq(Frame) /\ Len(queue[c]) \in Nat
         /\ DOMAIN queue[c] = 1..Len(queue[c])
         /\ frame[c] \in Nat /\ canvas[c] \in Nat /\ MaxQueue \in Nat
         /\ \A k \in DOMAIN queue[c] : queue[c][k] \in Nat
<1>1. queue[c] \in Seq(Frame) BY DEF CamInv, CamTypeOK
<1>2. Len(queue[c]) \in Nat /\ DOMAIN queue[c] = 1..Len(queue[c]) BY <1>1, LenProperties
<1>3. \A k \in DOMAIN queue[c] : queue[c][k] \in Frame BY <1>1, <1>2, ElementOfSeq
<1> QED BY <1>1, <1>2, <1>3, CameraAssumption DEF CamInv, CamTypeOK, CursorOK, Canvas, Frame

LEMMA PullStep ==
  ASSUME CamInv, NEW c \in Cameras, PullSample(c), UNCHANGED <<loopVars, bufVars>>
  PROVE  CamInv'
<1> USE DEF PullSample, GoTo, loopVars
<1>1. CamTypeOK' BY CameraAssumption DEF CamInv, CamTypeOK
<1>2. CursorOK' /\ CompositorNeverBlocks' BY DEF CamInv, CursorOK, CompositorNeverBlocks
<1>3. RoomToPush' BY CameraTypes DEF CamInv, CamTypeOK, RoomToPush
<1>4. AllOrdered'
  <2>1. SUFFICES ASSUME NEW d \in Cameras PROVE Ordered(d)' BY DEF AllOrdered
  <2>2. Ordered(d) BY DEF CamInv, AllOrdered
  <2>3. CASE d # c
    <3>1. frame'[d] = frame[d] /\ camera'[d] = camera[d] BY <2>3 DEF CamInv, CamTypeOK
    <3> QED BY <2>2, <3>1 DEF Ordered, InHand
  <2>4. CASE d = c
    <3>1. frame'[d] = frame[d] + 1 BY <2>4 DEF CamInv, CamTypeOK
    <3> QED BY <2>2, <3>1, CameraTypes DEF Ordered
  <2> QED BY <2>3, <2>4
<1> QED BY <1>1, <1>2, <1>3, <1>4 DEF CamInv

\* Steps that move the thread on and leave its frame and its queue alone.
LEMMA MoveStep ==
  ASSUME CamInv, NEW c \in Cameras, UNCHANGED <<loopVars, bufVars>>,
         EndLoop(c) \/ ProcBuffer(c) \/ MetricsHang(c) \/ CheckSize(c)
  PROVE  CamInv'
<1> USE DEF EndLoop, ProcBuffer, MetricsHang, CheckSize, GoTo, loopVars
<1>1. CamTypeOK' BY DEF CamInv, CamTypeOK
<1>2. CursorOK' /\ CompositorNeverBlocks' BY DEF CamInv, CursorOK, CompositorNeverBlocks
<1>3. RoomToPush' BY CameraTypes DEF CamInv, CamTypeOK, RoomToPush, TooMany
<1>4. AllOrdered' BY DEF CamInv, CamTypeOK, AllOrdered, Ordered, InHand
<1> QED BY <1>1, <1>2, <1>3, <1>4 DEF CamInv

LEMMA PushStep ==
  ASSUME CamInv, NEW c \in Cameras, Push(c), UNCHANGED <<loopVars, bufVars>>
  PROVE  CamInv'
<1> USE DEF Push, GoTo, Kept, loopVars
<1>1. Ordered(c) BY DEF CamInv, AllOrdered
<1>2. frame[c] \in Frame
  BY <1>1, CameraTypes, CameraAssumption DEF Ordered, InHand, CamInv, CamTypeOK, Frame
<1>3. /\ queue'[c] = Append(queue[c], frame[c]) /\ camera'[c] = "pull"
      /\ \A d \in Cameras \ {c} : queue'[d] = queue[d] /\ camera'[d] = camera[d]
  BY DEF CamInv, CamTypeOK
<1>4. CamTypeOK' BY <1>2, <1>3, Appended DEF CamInv, CamTypeOK
<1>5. CursorOK' BY DEF CamInv, CursorOK
<1>6. CompositorNeverBlocks'
  <2>1. queue'[c] # <<>> BY <1>2, <1>3, CameraTypes, Appended, EmptySeq
  <2> QED BY <1>3, <2>1 DEF CamInv, CursorOK, CompositorNeverBlocks
<1>7. RoomToPush'
  <2>1. Len(queue'[c]) = Len(queue[c]) + 1 BY <1>2, <1>3, CameraTypes, Appended
  <2>2. Len(queue[c]) <= MaxQueue BY CameraAssumption DEF CamInv, RoomToPush
  <2> QED BY <1>3, <2>1, <2>2, CameraTypes DEF CamInv, RoomToPush
<1>8. AllOrdered'
  <2>1. SUFFICES ASSUME NEW d \in Cameras PROVE Ordered(d)' BY DEF AllOrdered
  <2>2. CASE d # c BY <1>3, <2>2 DEF CamInv, AllOrdered, Ordered, InHand
  <2>3. CASE d = c
    <3> DEFINE n == Len(queue[c])
               q == queue'[c]
    <3>1. /\ n \in Nat /\ DOMAIN queue[c] = 1..n /\ DOMAIN q = 1..n+1
          /\ q[n + 1] = frame[c] /\ \A k \in 1..n : q[k] = queue[c][k]
      BY <1>2, <1>3, CameraTypes, Appended
    <3>2. \A k \in 1..n : queue[c][k] \in Nat BY <3>1, CameraTypes
    <3>3. InHand(c) BY DEF InHand
    <3> HIDE DEF n, q
    <3>f. /\ canvas[c] \in Nat /\ frame[c] \in Nat /\ canvas[c] < frame[c]
          /\ \A k \in 1..n : canvas[c] < queue[c][k] /\ queue[c][k] < frame[c]
          /\ \A j, k \in 1..n : j < k => queue[c][j] < queue[c][k]
      BY <1>1, <3>1, <3>3, CameraTypes DEF Ordered
    <3>4. ASSUME NEW k \in 1..n+1 PROVE canvas[c] < q[k] /\ q[k] <= frame[c]
      <4>1. CASE k \in 1..n BY <3>1, <3>2, <3>f, <4>1
      <4>2. CASE k = n + 1 BY <3>1, <3>f, <4>2
      <4> QED BY <3>1, <4>1, <4>2
    <3>5. ASSUME NEW j \in 1..n+1, NEW k \in 1..n+1, j < k PROVE q[j] < q[k]
      <4>1. CASE k \in 1..n BY <3>1, <3>5, <3>f, <4>1
      <4>2. CASE k = n + 1 BY <3>1, <3>5, <3>f, <4>2
      <4> QED BY <3>1, <4>1, <4>2
    <3>6. ~InHand(c)' BY <1>3 DEF InHand
    <3> QED BY <1>1, <2>3, <3>1, <3>4, <3>5, <3>6 DEF Ordered, q
  <2> QED BY <2>2, <2>3
<1> QED BY <1>4, <1>5, <1>6, <1>7, <1>8 DEF CamInv

\* The steps that leave the cameras and the canvas alone.
LEMMA CallbackStep ==
  ASSUME CamInv, NeedData \/ CheckQueue \/ MakeBuffer \/ PushBuffer \/ Release
  PROVE  CamInv'
<1>1. UNCHANGED <<camVars, canvas>>
  BY DEF NeedData, CheckQueue, MakeBuffer, PushBuffer, Release, loopVars
<1>2. CamTypeOK' /\ RoomToPush' /\ AllOrdered'
  BY <1>1 DEF CamInv, CamTypeOK, RoomToPush, AllOrdered, Ordered, InHand, camVars
<1>3. CursorOK' /\ CompositorNeverBlocks'
  <2> USE <1>1 DEF CamInv, CursorOK, CompositorNeverBlocks, camVars
  <2>1. CASE NeedData BY <2>1, CameraAssumption DEF NeedData, Cameras
  <2>2. CASE CheckQueue BY <2>2, CameraAssumption
    DEF CheckQueue, HasFrame, SkipCamera, NextCamera, Cameras
  <2>3. CASE MakeBuffer \/ PushBuffer \/ Release
    BY <2>3 DEF MakeBuffer, PushBuffer, Release, loopVars
  <2> QED BY <2>1, <2>2, <2>3
<1> QED BY <1>2, <1>3 DEF CamInv

LEMMA PopStep == ASSUME CamInv, PopAndDraw PROVE CamInv'
<1> USE DEF PopAndDraw
<1> DEFINE q == queue[i]
           n == Len(q)
           t == queue'[i]
<1>1. i \in Cameras BY DEF CamInv, CursorOK
<1>2. /\ q \in Seq(Frame) /\ q # <<>>
      /\ queue'[i] = Tail(q) /\ canvas'[i] = Head(q)
      /\ \A d \in Cameras \ {i} : queue'[d] = queue[d] /\ canvas'[d] = canvas[d]
  BY <1>1 DEF CamInv, CamTypeOK, CursorOK, Canvas
<1>3. /\ t \in Seq(Frame) /\ Len(t) = n - 1 /\ n \in Nat \ {0}
      /\ DOMAIN t = 1..n-1 /\ DOMAIN q = 1..n
      /\ canvas'[i] = q[1] /\ q[1] \in Frame /\ \A k \in 1..n-1 : t[k] = q[k + 1]
  <2> HIDE DEF q, t
  <2>1. /\ Tail(q) \in Seq(Frame) /\ Len(Tail(q)) = Len(q) - 1 /\ Len(q) \in Nat \ {0}
        /\ DOMAIN Tail(q) = 1..Len(q)-1 /\ DOMAIN q = 1..Len(q)
        /\ Head(q) = q[1] /\ Head(q) \in Frame
        /\ \A k \in 1..Len(q)-1 : Tail(q)[k] = q[k + 1]
    BY <1>2, Headless
  <2>2. t = Tail(q) BY <1>2 DEF t
  <2> QED BY <1>2, <2>1, <2>2
<1>4. CamTypeOK' BY <1>1, <1>2, <1>3 DEF CamInv, CamTypeOK
<1>5. CursorOK' /\ CompositorNeverBlocks'
  <2>1. canvas' \in Canvas
    BY <1>1, <1>2, <1>3, CameraAssumption DEF CamInv, CursorOK, Canvas, Frame
  <2> QED BY <2>1, <1>1, CameraAssumption
    DEF NextCamera, CursorOK, CompositorNeverBlocks, Cameras
<1>6. RoomToPush' BY <1>1, <1>2, <1>3, CameraTypes DEF CamInv, RoomToPush
<1>7. AllOrdered'
  <2>1. SUFFICES ASSUME NEW d \in Cameras PROVE Ordered(d)' BY DEF AllOrdered
  <2>2. CASE d # i BY <1>2, <2>2 DEF CamInv, AllOrdered, Ordered, InHand
  <2>3. CASE d = i
    <3>1. /\ canvas[i] \in Nat /\ frame[i] \in Nat /\ \A k \in 1..n : q[k] \in Nat
      BY <1>1, <1>3, CameraTypes
    <3>2. /\ \A k \in 1..n : q[k] <= frame[i]
          /\ \A j, k \in 1..n : j < k => q[j] < q[k]
          /\ InHand(i) => \A k \in 1..n : q[k] < frame[i]
      BY <1>1, <1>3 DEF CamInv, AllOrdered, Ordered
    <3> HIDE DEF q, n, t
    <3>3. canvas'[i] <= frame[i] /\ (InHand(i) => canvas'[i] < frame[i])
      BY <1>3, <3>2
    <3>4. ASSUME NEW k \in 1..n-1
          PROVE  /\ canvas'[i] < t[k] /\ t[k] <= frame[i]
                 /\ InHand(i) => t[k] < frame[i]
      <4>1. k + 1 \in 1..n /\ 1 \in 1..n /\ 1 < k + 1 BY <1>3
      <4> QED BY <1>3, <3>2, <4>1
    <3>5. ASSUME NEW j \in 1..n-1, NEW k \in 1..n-1, j < k PROVE t[j] < t[k]
      <4>1. j + 1 \in 1..n /\ k + 1 \in 1..n /\ j + 1 < k + 1 BY <1>3, <3>5
      <4> QED BY <1>3, <3>2, <4>1
    <3>6. InHand(d)' <=> InHand(d) BY DEF InHand
    <3>7. frame' = frame /\ queue'[d] = t /\ DOMAIN t = 1..n-1 BY <1>3, <2>3 DEF t
    <3> QED BY <2>3, <3>3, <3>4, <3>5, <3>6, <3>7 DEF Ordered
  <2> QED BY <2>2, <2>3
<1> QED BY <1>4, <1>5, <1>6, <1>7 DEF CamInv

LEMMA CamInvariance == SafeSpec => []CamInv
<1>1. CamInv /\ [Next]_vars => CamInv'
  <2> SUFFICES ASSUME CamInv, [Next]_vars PROVE CamInv' OBVIOUS
  <2>1. CASE UNCHANGED vars
    BY <2>1 DEF vars, camVars, loopVars, CamInv, CamTypeOK, CursorOK, RoomToPush, AllOrdered,
         Ordered, InHand, CompositorNeverBlocks
  <2>2. ASSUME NEW c \in Cameras, CamStep(c), UNCHANGED <<loopVars, bufVars>> PROVE CamInv'
    BY <2>2, PullStep, MoveStep, PushStep DEF CamStep, Proceed
  <2>3. CASE CompStep \/ Release BY <2>3, CallbackStep, PopStep DEF CompStep
  <2> QED BY <2>1, <2>2, <2>3 DEF Next
<1> QED BY <1>1, CamInit_, PTL DEF SafeSpec

\* The bound of each queue holds for any number of cameras and any limit, whatever
\* happens between app2queue's test of the size and its push.
THEOREM QueuesAreBounded == SafeSpec => []QueueBounded
<1>1. CamInv => QueueBounded
  <2> SUFFICES ASSUME CamInv, NEW c \in Cameras PROVE Len(queue[c]) <= MaxQueue + 1
    BY DEF QueueBounded
  <2> QED BY CameraTypes DEF CamInv, RoomToPush
<1> QED BY <1>1, CamInvariance, PTL

\* The need-data callback is never kept in queue_mt::pop.
THEOREM CallbackDoesNotBlock == SafeSpec => []CompositorNeverBlocks
<1>1. CamInv => CompositorNeverBlocks BY DEF CamInv
<1> QED BY <1>1, CamInvariance, PTL

\* No picture goes back in time between the camera thread and the canvas.
THEOREM FramesStayInOrder == SafeSpec => []FramesInOrder
<1>1. CamInv => FramesInOrder
  <2> SUFFICES ASSUME CamInv, NEW c \in Cameras
      PROVE  LET path == <<canvas[c]>> \o queue[c]
                           \o (IF InHand(c) THEN <<frame[c]>> ELSE <<>>)
             IN  \A j, k \in DOMAIN path : j < k => path[j] < path[k]
    BY DEF FramesInOrder
  <2> DEFINE q == queue[c]
             n == Len(q)
             last == IF InHand(c) THEN <<frame[c]>> ELSE <<>>
             path == <<canvas[c]>> \o q \o last
  <2>1. /\ q \in Seq(Nat) /\ n \in Nat /\ DOMAIN q = 1..n
        /\ canvas[c] \in Nat /\ frame[c] \in Nat
    <3>1. Frame \subseteq Nat BY CameraAssumption DEF Frame
    <3>2. q \in Seq(Nat)
      BY <3>1, SeqMonotonic DEF CamInv, CamTypeOK
    <3> QED BY <3>2, CameraTypes
  <2>2. /\ \A k \in 1..n : canvas[c] < q[k] /\ q[k] \in Nat
        /\ \A j, k \in 1..n : j < k => q[j] < q[k]
        /\ InHand(c) => canvas[c] < frame[c] /\ \A k \in 1..n : q[k] < frame[c]
    BY <2>1, CameraTypes DEF CamInv, AllOrdered, Ordered
  <2> HIDE DEF q, n
  <2>3. CASE InHand(c)
    <3>1. last = <<frame[c]>> BY <2>3
    <3>2. /\ DOMAIN path = 1..n+2 /\ path[1] = canvas[c] /\ path[n + 2] = frame[c]
          /\ \A k \in 2..n+1 : path[k] = q[k - 1]
      BY <3>1, <2>1 DEF n
    <3> HIDE DEF path
    <3>3. ASSUME NEW j \in 1..n+2, NEW k \in 1..n+2, j < k PROVE path[j] < path[k]
      <4>1. CASE j = 1 /\ k = n + 2 BY <4>1, <2>2, <2>3, <3>2
      <4>2. CASE j = 1 /\ k \in 2..n+1 BY <4>2, <2>1, <2>2, <3>2
      <4>3. CASE j \in 2..n+1 /\ k = n + 2 BY <4>3, <2>1, <2>2, <2>3, <3>2
      <4>4. CASE j \in 2..n+1 /\ k \in 2..n+1
        <5>1. j - 1 \in 1..n /\ k - 1 \in 1..n /\ j - 1 < k - 1 BY <2>1, <3>3, <4>4
        <5> QED BY <5>1, <2>2, <3>2, <4>4
      <4> QED BY <2>1, <3>3, <4>1, <4>2, <4>3, <4>4
    <3> QED BY <3>2, <3>3 DEF path, q
  <2>4. CASE ~InHand(c)
    <3>1. last = <<>> BY <2>4
    <3>2. /\ DOMAIN path = 1..n+1 /\ path[1] = canvas[c]
          /\ \A k \in 2..n+1 : path[k] = q[k - 1]
      BY <3>1, <2>1 DEF n
    <3> HIDE DEF path
    <3>3. ASSUME NEW j \in 1..n+1, NEW k \in 1..n+1, j < k PROVE path[j] < path[k]
      <4>1. CASE j = 1 BY <4>1, <2>1, <2>2, <3>2, <3>3
      <4>2. CASE j \in 2..n+1
        <5>1. j - 1 \in 1..n /\ k - 1 \in 1..n /\ j - 1 < k - 1 /\ k \in 2..n+1
          BY <2>1, <3>3, <4>2
        <5> QED BY <5>1, <2>2, <3>2, <4>2
      <4> QED BY <2>1, <4>1, <4>2
    <3> QED BY <3>2, <3>3 DEF path, q
  <2> QED BY <2>3, <2>4
<1> QED BY <1>1, CamInvariance, PTL

-----------------------------------------------------------------------------
(***************************************************************************)
(* The buffers.                                                            *)
(***************************************************************************)
BufTypeOK ==
  /\ update \in BOOLEAN
  /\ last_buffer \in Buffers
  /\ buffer \in Buffers \cup {NoBuffer} /\ (buffer # NoBuffer <=> comp = "push")
  /\ timestamp \in 0..PtsRange-1
  /\ mem \in [Buffers -> [refs : Nat, content : Canvas, pts : 0..PtsRange-1]]
  /\ inFlight \in Seq(Buffers)

\* No window of p shows a later frame than that of q.
NotAfter(p, q) == \A c \in Cameras : p[c] <= q[c]

\* The pictures: those that were pushed, the last one, the canvas.
PicturesInOrder ==
  /\ \A j, k \in DOMAIN inFlight :
       j < k => NotAfter(mem[inFlight[j]].content, mem[inFlight[k]].content)
  /\ \A k \in DOMAIN inFlight : NotAfter(mem[inFlight[k]].content, mem[last_buffer].content)
  /\ NotAfter(mem[last_buffer].content, canvas)
  /\ (comp \in {"size", "pop", "make"} /\ update) \/ mem[last_buffer].content = canvas
  /\ comp = "push" => mem[buffer].content = mem[last_buffer].content

BufInv == BufTypeOK /\ BuffersAccounted /\ PtsConsecutive /\ PicturesInOrder

LEMMA Indices ==
  ASSUME BufTypeOK
  PROVE  /\ DOMAIN inFlight = 1..Len(inFlight) /\ Len(inFlight) \in Nat
         /\ \A k \in DOMAIN inFlight : inFlight[k] \in Buffers /\ inFlight[k] \in Held
         /\ \A b \in Held : b \in Buffers
<1>1. inFlight \in Seq(Buffers) BY DEF BufTypeOK
<1>2. DOMAIN inFlight = 1..Len(inFlight) /\ Len(inFlight) \in Nat BY <1>1, LenProperties
<1>3. \A k \in DOMAIN inFlight : inFlight[k] \in Buffers BY <1>1, <1>2, ElementOfSeq
<1> QED BY <1>2, <1>3 DEF Held

\* What is in a buffer.
LEMMA Memory ==
  ASSUME BufTypeOK, NEW b \in Buffers
  PROVE  /\ mem[b] = [refs |-> mem[b].refs, content |-> mem[b].content, pts |-> mem[b].pts]
         /\ mem[b].refs \in Nat /\ mem[b].content \in Canvas /\ mem[b].pts \in 0..PtsRange-1
BY DEF BufTypeOK

LEMMA BlankCanvas == Blank \in Canvas /\ Freed \in [refs : Nat, content : Canvas, pts : 0..PtsRange-1]
<1>1. Blank \in Canvas BY CameraAssumption DEF Blank, Canvas
<1> QED BY <1>1, BufferAssumption DEF Freed

\* gst_buffer_unref gives back one reference, and a buffer that is still
\* referenced keeps its picture and its time stamp.
LEMMA Unreferenced ==
  ASSUME BufTypeOK, NEW b \in Buffers, mem[b].refs >= 1
  PROVE  /\ Unref(b) \in [Buffers -> [refs : Nat, content : Canvas, pts : 0..PtsRange-1]]
         /\ \A x \in Buffers \ {b} : Unref(b)[x] = mem[x]
         /\ Unref(b)[b].refs = mem[b].refs - 1
         /\ mem[b].refs # 1 => /\ Unref(b)[b].content = mem[b].content
                               /\ Unref(b)[b].pts = mem[b].pts
<1> DEFINE less == Less(mem[b])
<1> USE DEF Less
<1>1. Unref(b) = [mem EXCEPT ![b] = less] BY DEF Unref
<1>n. mem[b].refs \in Nat BY Memory
<1>2. less \in [refs : Nat, content : Canvas, pts : 0..PtsRange-1]
  <2>1. CASE mem[b].refs = 1 BY <2>1, BlankCanvas
  <2>2. CASE mem[b].refs # 1
    <3>1. mem[b].refs - 1 \in Nat BY <1>n
    <3> QED BY <2>2, <3>1 DEF BufTypeOK
  <2> QED BY <2>1, <2>2
<1>3. less.refs = mem[b].refs - 1 BY Memory DEF Freed
<1>4. mem[b].refs # 1 => less.content = mem[b].content /\ less.pts = mem[b].pts BY Memory
<1> HIDE DEF less
<1> QED BY <1>1, <1>2, <1>3, <1>4 DEF BufTypeOK

LEMMA NotAfterTransitive ==
  ASSUME NEW p \in Canvas, NEW q \in Canvas, NEW r \in Canvas, NotAfter(p, q), NotAfter(q, r)
  PROVE  NotAfter(p, r)
<1> SUFFICES ASSUME NEW c \in Cameras PROVE p[c] <= r[c] BY DEF NotAfter
<1>1. p[c] \in Int /\ q[c] \in Int /\ r[c] \in Int BY CameraAssumption DEF Canvas
<1>2. p[c] <= q[c] /\ q[c] <= r[c] BY DEF NotAfter
<1> QED BY <1>1, <1>2

LEMMA NotAfterReflexive == ASSUME NEW p \in Canvas PROVE NotAfter(p, p)
BY CameraAssumption DEF NotAfter, Canvas

LEMMA BufInit_ == Init => BufInv
<1> SUFFICES ASSUME Init PROVE BufInv OBVIOUS
<1>1. <<>> \in Seq(Buffers) /\ Len(<<>>) = 0 /\ DOMAIN <<>> = {} BY EmptySeq
<1> DEFINE rec(b) == [refs |-> IF b = last_buffer THEN 1 ELSE 0, content |-> Blank, pts |-> 0]
<1>2. mem = [b \in Buffers |-> rec(b)] BY DEF Init, Freed
<1>3. \A b \in Buffers : rec(b) \in [refs : Nat, content : Canvas, pts : 0..PtsRange-1]
  BY BlankCanvas, BufferAssumption
<1>4. last_buffer \in Buffers BY BufferAssumption DEF Init
<1>5. \A b \in Buffers : /\ mem[b].refs = (IF b = last_buffer THEN 1 ELSE 0)
                          /\ mem[b].content = Blank
  BY <1>2
<1>6. BufTypeOK
  <2>1. mem \in [Buffers -> [refs : Nat, content : Canvas, pts : 0..PtsRange-1]]
    <3> HIDE DEF rec
    <3> QED BY <1>2, <1>3
  <2>2. timestamp \in 0..PtsRange-1 BY BufferAssumption DEF Init
  <2>3. buffer = NoBuffer /\ comp = "idle" /\ update \in BOOLEAN BY DEF Init
  <2>4. inFlight \in Seq(Buffers) BY <1>1 DEF Init
  <2> QED BY <1>4, <2>1, <2>2, <2>3, <2>4 DEF BufTypeOK
<1>7. BuffersAccounted
  <2>1. Held = {} /\ buffer \notin Buffers BY <1>1, BufferAssumption DEF Init, Held
  <2> QED BY <1>1, <1>5, <2>1 DEF Init, BuffersAccounted
<1>8. PtsConsecutive BY <1>1 DEF Init, PtsConsecutive
<1>9. PicturesInOrder BY <1>1, <1>4, <1>5, BlankCanvas, NotAfterReflexive DEF Init, PicturesInOrder
<1> QED BY <1>6, <1>7, <1>8, <1>9 DEF BufInv

\* The steps that leave the buffers alone; a canvas that is drawn on only gets newer.
LEMMA DrawStep ==
  ASSUME BufInv, CamInv, NeedData \/ CheckQueue \/ PopAndDraw
  PROVE  BufInv'
<1>1. UNCHANGED bufVars BY DEF NeedData, CheckQueue, PopAndDraw
<1>2. BufTypeOK' BY <1>1
  DEF NeedData, CheckQueue, PopAndDraw, BufInv, BufTypeOK, bufVars, SkipCamera, NextCamera
<1>3. BuffersAccounted' /\ PtsConsecutive'
  BY <1>1 DEF BufInv, BuffersAccounted, PtsConsecutive, Held, bufVars
<1>4. PicturesInOrder'
  <2>1. CASE NeedData \/ CheckQueue
    BY <1>1, <2>1 DEF NeedData, CheckQueue, SkipCamera, NextCamera, BufInv, BufTypeOK,
         PicturesInOrder, bufVars
  <2>2. CASE PopAndDraw
    <3>1. canvas \in Canvas /\ canvas' \in Canvas BY <2>2, PopStep DEF CamInv, CursorOK
    <3>2. NotAfter(canvas, canvas')
      <4> SUFFICES ASSUME NEW c \in Cameras PROVE canvas[c] <= canvas'[c] BY DEF NotAfter
      <4>1. CASE c = i
        <5>1. queue[i] \in Seq(Frame) /\ queue[i] # <<>> BY <4>1, <2>2 DEF PopAndDraw, CamInv, CamTypeOK
        <5>2. Head(queue[i]) = queue[i][1] /\ 1 \in DOMAIN queue[i] BY <5>1, Headless
        <5>3. canvas'[i] = Head(queue[i]) BY <2>2, <3>1, <4>1 DEF PopAndDraw, Canvas
        <5>4. canvas[i] < queue[i][1] BY <4>1, <5>2 DEF CamInv, AllOrdered, Ordered
        <5> QED BY <4>1, <5>2, <5>3, <5>4, CameraTypes
      <4>2. CASE c # i
        <5>1. canvas'[c] = canvas[c] BY <2>2, <3>1, <4>2 DEF PopAndDraw, Canvas
        <5> QED BY <5>1, CameraTypes
      <4> QED BY <4>1, <4>2
    <3>3. NotAfter(mem[last_buffer].content, canvas')
      <4>1. mem[last_buffer].content \in Canvas BY Memory DEF BufInv, BufTypeOK
      <4>2. NotAfter(mem[last_buffer].content, canvas) BY DEF BufInv, PicturesInOrder
      <4> QED BY <3>1, <3>2, <4>1, <4>2, NotAfterTransitive
    <3> QED BY <1>1, <2>2, <3>3 DEF PopAndDraw, NextCamera, BufInv, PicturesInOrder, bufVars
  <2> QED BY <2>1, <2>2
<1> QED BY <1>2, <1>3, <1>4 DEF BufInv

\* Steps that write on no buffer of the encoder: what it sees stays in order.
HeldUnchanged == \A x \in Held : mem'[x].content = mem[x].content /\ mem'[x].pts = mem[x].pts

LEMMA HeldKept ==
  ASSUME BufInv, HeldUnchanged, inFlight' = inFlight, timestamp' = timestamp
  PROVE  /\ PtsConsecutive' /\ Held' = Held
         /\ \A j, k \in DOMAIN inFlight' :
              j < k => NotAfter(mem[inFlight[j]].content, mem[inFlight[k]].content)'
<1>1. \A k \in DOMAIN inFlight : inFlight[k] \in Held BY DEF Held
<1>2. \A k \in DOMAIN inFlight : /\ mem'[inFlight[k]].content = mem[inFlight[k]].content
                                 /\ mem'[inFlight[k]].pts = mem[inFlight[k]].pts
  BY <1>1 DEF HeldUnchanged
<1>3. inFlight # <<>> => Len(inFlight) \in DOMAIN inFlight
  BY Indices, EmptySeq, LenProperties DEF BufInv, BufTypeOK
<1>4. PtsConsecutive' BY <1>2, <1>3 DEF BufInv, PtsConsecutive
<1>5. Held' = Held BY DEF Held
<1>6. \A j, k \in DOMAIN inFlight' :
        j < k => NotAfter(mem[inFlight[j]].content, mem[inFlight[k]].content)'
  BY <1>2 DEF BufInv, PicturesInOrder, NotAfter
<1> QED BY <1>4, <1>5, <1>6

\* A free buffer is nobody's; last_buffer has one reference more when it is held.
LEMMA CountedRefs ==
  ASSUME BufInv, comp = "make"
  PROVE  /\ buffer = NoBuffer /\ NoBuffer \notin Buffers
         /\ \A b \in Free : b \in Buffers /\ b \notin Held /\ b # last_buffer
         /\ last_buffer \in Buffers
         /\ mem[last_buffer].refs = (IF last_buffer \in Held THEN 2 ELSE 1)
         /\ \A b \in Buffers \ {last_buffer} : mem[b].refs = (IF b \in Held THEN 1 ELSE 0)
<1>1. buffer = NoBuffer /\ NoBuffer \notin Buffers /\ last_buffer \in Buffers
  BY BufferAssumption DEF BufInv, BufTypeOK
<1>2. \A b \in Buffers : mem[b].refs = (IF b \in Held THEN 1 ELSE 0)
                                       + (IF b = last_buffer THEN 1 ELSE 0)
  BY <1>1 DEF BufInv, BuffersAccounted
<1> QED BY <1>1, <1>2 DEF Free

LEMMA RenderStep ==
  ASSUME BufInv, CamInv, comp = "make", NEW b \in Free, Render(b), comp' = "push",
         UNCHANGED <<camVars, i, update, canvas, timestamp, inFlight>>
  PROVE  BufInv' /\ HeldUnchanged
<1> DEFINE L == last_buffer
           Memories == [Buffers -> [refs : Nat, content : Canvas, pts : 0..PtsRange-1]]
           new == [refs |-> 2, content |-> canvas, pts |-> 0]
           un == Unref(L)
<1>1. /\ buffer = NoBuffer /\ NoBuffer \notin Buffers
      /\ b \in Buffers /\ b \notin Held /\ b # L /\ L \in Buffers
      /\ mem[L].refs = (IF L \in Held THEN 2 ELSE 1)
      /\ \A x \in Buffers \ {L} : mem[x].refs = (IF x \in Held THEN 1 ELSE 0)
  BY CountedRefs
<1>2. /\ un \in Memories
      /\ \A x \in Buffers \ {L} : un[x] = mem[x]
      /\ un[L].refs = mem[L].refs - 1
      /\ mem[L].refs # 1 => un[L].content = mem[L].content /\ un[L].pts = mem[L].pts
  <2>1. mem[L].refs >= 1 BY <1>1
  <2> HIDE DEF L
  <2> QED BY <1>1, <2>1, Unreferenced DEF BufInv
<1>3. mem' = [un EXCEPT ![b] = new] /\ buffer' = b /\ last_buffer' = b BY DEF Render
<1>4. canvas \in Canvas /\ new \in [refs : Nat, content : Canvas, pts : 0..PtsRange-1]
  BY BufferAssumption DEF CamInv, CursorOK
<1> HIDE DEF un
<1>5. /\ mem' \in Memories /\ mem'[b] = new /\ mem'[L] = un[L]
      /\ \A x \in Buffers \ {b, L} : mem'[x] = mem[x]
  BY <1>1, <1>2, <1>3, <1>4
<1>6. mem'[b].refs = 2 /\ mem'[b].content = canvas BY <1>5
<1>7. HeldUnchanged
  <2> SUFFICES ASSUME NEW x \in Held
      PROVE  mem'[x].content = mem[x].content /\ mem'[x].pts = mem[x].pts
    BY DEF HeldUnchanged
  <2>1. x \in Buffers /\ x # b BY <1>1, Indices DEF BufInv
  <2>2. CASE x = L BY <2>2, <1>1, <1>2, <1>5
  <2>3. CASE x # L BY <2>1, <2>3, <1>5
  <2> QED BY <2>2, <2>3
<1>8. Held' = Held /\ PtsConsecutive' BY <1>7, HeldKept
<1>9. BufTypeOK' BY <1>1, <1>3, <1>5 DEF BufInv, BufTypeOK
<1>10. BuffersAccounted'
  <2>1. ASSUME NEW x \in Buffers
        PROVE  mem'[x].refs = (IF x \in Held THEN 1 ELSE 0) + (IF x = b THEN 1 ELSE 0)
                              + (IF x = b THEN 1 ELSE 0)
    <3>1. CASE x = b BY <3>1, <1>1, <1>6
    <3>2. CASE x = L BY <3>2, <1>1, <1>2, <1>5
    <3>3. CASE x # b /\ x # L BY <3>3, <1>1, <1>5
    <3> QED BY <3>1, <3>2, <3>3
  <2>2. b \notin Held BY <1>1
  <2> QED BY <2>1, <2>2, <1>3, <1>8 DEF BufInv, BuffersAccounted
<1>11. PicturesInOrder'
  <2>1. mem[L].content \in Canvas BY <1>1, Memory DEF BufInv
  <2>2. NotAfter(mem[L].content, canvas) BY DEF BufInv, PicturesInOrder
  <2>3. \A k \in DOMAIN inFlight' : NotAfter(mem[inFlight[k]].content, mem[last_buffer].content)'
    <3> SUFFICES ASSUME NEW k \in DOMAIN inFlight
        PROVE  NotAfter(mem'[inFlight[k]].content, mem'[last_buffer'].content)
      BY DEF NotAfter
    <3>1. inFlight[k] \in Held /\ inFlight[k] \in Buffers BY Indices DEF BufInv
    <3>2. mem'[inFlight[k]].content = mem[inFlight[k]].content BY <3>1, <1>7 DEF HeldUnchanged
    <3>3. mem[inFlight[k]].content \in Canvas BY <3>1, Memory DEF BufInv
    <3>4. NotAfter(mem[inFlight[k]].content, mem[L].content) BY DEF BufInv, PicturesInOrder
    <3>5. NotAfter(mem[inFlight[k]].content, canvas)
      BY <1>4, <2>1, <2>2, <3>3, <3>4, NotAfterTransitive
    <3> QED BY <1>3, <1>6, <3>2, <3>5
  <2>4. NotAfter(canvas, canvas) BY <1>4, NotAfterReflexive
  <2>5. NotAfter(mem[last_buffer].content, canvas)' BY <1>3, <1>6, <2>4 DEF NotAfter
  <2> QED BY <1>3, <1>6, <1>7, <2>3, <2>5, HeldKept DEF PicturesInOrder
<1> QED BY <1>7, <1>8, <1>9, <1>10, <1>11 DEF BufInv

LEMMA CopyStep ==
  ASSUME BufInv, comp = "make", ~update, NEW b \in Free, CopyLast(b), comp' = "push",
         UNCHANGED <<camVars, i, update, canvas, timestamp, inFlight>>
  PROVE  BufInv' /\ HeldUnchanged
<1> DEFINE L == last_buffer
           Memories == [Buffers -> [refs : Nat, content : Canvas, pts : 0..PtsRange-1]]
           new == [mem[L] EXCEPT !.refs = 1]
<1>1. /\ buffer = NoBuffer /\ NoBuffer \notin Buffers
      /\ b \in Buffers /\ b \notin Held /\ b # L /\ L \in Buffers
      /\ mem[L].refs = (IF L \in Held THEN 2 ELSE 1)
      /\ \A x \in Buffers \ {L} : mem[x].refs = (IF x \in Held THEN 1 ELSE 0)
  BY CountedRefs
<1>2. /\ new \in [refs : Nat, content : Canvas, pts : 0..PtsRange-1]
      /\ new.refs = 1 /\ new.content = mem[L].content
  <2>1. mem[L] \in [refs : Nat, content : Canvas, pts : 0..PtsRange-1]
    BY <1>1 DEF BufInv, BufTypeOK
  <2> HIDE DEF L
  <2> QED BY <2>1
<1>3. mem' = [mem EXCEPT ![b] = new] /\ buffer' = b /\ last_buffer' = L BY DEF CopyLast
<1> HIDE DEF new
<1>4. mem' \in Memories /\ mem'[b] = new /\ \A x \in Buffers \ {b} : mem'[x] = mem[x]
  BY <1>1, <1>2, <1>3 DEF BufInv, BufTypeOK
<1>5. HeldUnchanged BY <1>1, <1>4, Indices DEF HeldUnchanged, BufInv
<1>6. Held' = Held /\ PtsConsecutive' BY <1>5, HeldKept
<1>7. BufTypeOK' BY <1>1, <1>3, <1>4 DEF BufInv, BufTypeOK
<1>8. BuffersAccounted'
  <2>1. ASSUME NEW x \in Buffers
        PROVE  mem'[x].refs = (IF x \in Held THEN 1 ELSE 0) + (IF x = L THEN 1 ELSE 0)
                              + (IF x = b THEN 1 ELSE 0)
    <3>1. CASE x = b BY <3>1, <1>1, <1>2, <1>4
    <3>2. CASE x = L BY <3>2, <1>1, <1>4
    <3>3. CASE x # b /\ x # L BY <3>3, <1>1, <1>4
    <3> QED BY <3>1, <3>2, <3>3
  <2>2. b \notin Held BY <1>1
  <2> QED BY <2>1, <2>2, <1>3, <1>6 DEF BufInv, BuffersAccounted
<1>9. PicturesInOrder'
  <2>1. mem'[L] = mem[L] /\ mem'[b].content = mem[L].content BY <1>1, <1>2, <1>4
  <2>2. \A k \in DOMAIN inFlight : mem'[inFlight[k]].content = mem[inFlight[k]].content
    BY <1>5, Indices DEF HeldUnchanged, BufInv
  <2>3. \A k \in DOMAIN inFlight' : NotAfter(mem[inFlight[k]].content, mem[last_buffer].content)'
    BY <1>3, <2>1, <2>2 DEF BufInv, PicturesInOrder, NotAfter
  <2>4. NotAfter(mem[last_buffer].content, canvas)'
    BY <1>3, <2>1 DEF BufInv, PicturesInOrder, NotAfter
  <2>5. mem[L].content = canvas BY DEF BufInv, PicturesInOrder
  <2> QED BY <1>3, <1>5, <2>1, <2>3, <2>4, <2>5, HeldKept DEF PicturesInOrder
<1> QED BY <1>5, <1>6, <1>7, <1>8, <1>9 DEF BufInv

LEMMA PushBufferStep == ASSUME BufInv, PushBuffer PROVE BufInv' /\ HeldUnchanged
<1> USE DEF PushBuffer
<1> DEFINE n == Len(inFlight)
           s == inFlight'
<1>1. buffer \in Buffers /\ buffer \notin Held /\ buffer # NoBuffer /\ NoBuffer \notin Buffers
  BY BufferAssumption DEF BufInv, BufTypeOK, BuffersAccounted
<1>2. /\ s \in Seq(Buffers) /\ Len(s) = n + 1 /\ DOMAIN s = 1..n+1
      /\ DOMAIN inFlight = 1..n /\ n \in Nat
      /\ \A k \in 1..n : s[k] = inFlight[k]
      /\ s[n + 1] = buffer
  <2>1. inFlight \in Seq(Buffers) BY DEF BufInv, BufTypeOK
  <2> QED BY <1>1, <2>1, Appended
<1>3. \A k \in 1..n : s[k] \in Held /\ s[k] \in Buffers BY <1>2, Indices DEF BufInv
<1> HIDE DEF n
<1>4. Held' = Held \cup {buffer}
  <2>1. \A x \in Held : \E k \in 1..n : x = s[k] BY <1>2 DEF Held
  <2>2. \A x \in Held' : \E k \in 1..n+1 : x = s[k] BY <1>2 DEF Held
  <2>3. \A k \in 1..n+1 : s[k] \in Held' BY <1>2 DEF Held
  <2>4. \A k \in 1..n+1 : k \in 1..n \/ k = n + 1 BY <1>2
  <2>5. n + 1 \in 1..n+1 /\ \A k \in 1..n : k \in 1..n+1 BY <1>2
  <2> HIDE DEF s
  <2> QED BY <1>2, <1>3, <2>1, <2>2, <2>3, <2>4, <2>5
<1>5. /\ mem' \in [Buffers -> [refs : Nat, content : Canvas, pts : 0..PtsRange-1]]
      /\ \A x \in Buffers \ {buffer} : mem'[x] = mem[x]
      /\ mem'[buffer].pts = timestamp
      /\ mem'[buffer].refs = mem[buffer].refs /\ mem'[buffer].content = mem[buffer].content
  BY <1>1 DEF BufInv, BufTypeOK
<1>6. HeldUnchanged BY <1>1, <1>5, Indices DEF HeldUnchanged, BufInv
<1>7. timestamp' \in 0..PtsRange-1
  <2>1. timestamp + 1 \in Nat BY BufferAssumption DEF BufInv, BufTypeOK
  <2>2. \A a \in Nat : a % PtsRange \in 0..PtsRange-1 BY BufferAssumption
  <2> QED BY <2>1, <2>2 DEF NextTimestamp
<1>8. BufTypeOK' BY <1>2, <1>5, <1>7 DEF BufInv, BufTypeOK
<1>9. BuffersAccounted'
  <2>1. ASSUME NEW j \in 1..n+1, NEW k \in 1..n+1, s[j] = s[k] PROVE j = k
    <3>1. CASE j \in 1..n /\ k \in 1..n
      BY <3>1, <1>2, <2>1 DEF BufInv, BuffersAccounted
    <3>2. CASE j = n + 1 /\ k \in 1..n BY <3>2, <1>1, <1>2, <1>3, <2>1
    <3>3. CASE j \in 1..n /\ k = n + 1 BY <3>3, <1>1, <1>2, <1>3, <2>1
    <3> QED BY <1>2, <3>1, <3>2, <3>3
  <2>2. NoBuffer \notin Held'
    <3>1. NoBuffer \notin Held BY <1>1, Indices DEF BufInv
    <3> QED BY <1>1, <1>4, <3>1
  <2>3. ASSUME NEW x \in Buffers
        PROVE  mem'[x].refs = (IF x \in Held' THEN 1 ELSE 0)
                              + (IF x = last_buffer THEN 1 ELSE 0)
                              + (IF x = NoBuffer THEN 1 ELSE 0)
    <3>1. mem'[x].refs = mem[x].refs BY <1>5
    <3>2. mem[x].refs = (IF x \in Held THEN 1 ELSE 0) + (IF x = last_buffer THEN 1 ELSE 0)
                        + (IF x = buffer THEN 1 ELSE 0)
      BY DEF BufInv, BuffersAccounted
    <3> QED BY <1>1, <1>4, <3>1, <3>2
  <2> QED BY <1>2, <2>1, <2>2, <2>3 DEF BuffersAccounted
<1>10. PtsConsecutive'
  <2>1. \A k \in 1..n : mem'[s[k]].pts = mem[inFlight[k]].pts
    BY <1>2, <1>3, <1>6 DEF HeldUnchanged
  <2>2. ASSUME NEW k \in 1..n+1, k + 1 \in 1..n+1
        PROVE  mem'[s[k + 1]].pts = (mem'[s[k]].pts + 1) % PtsRange
    <3>1. k \in 1..n BY <1>2, <2>2
    <3>2. CASE k + 1 \in 1..n
      BY <1>2, <2>1, <3>1, <3>2 DEF BufInv, PtsConsecutive
    <3>3. CASE k = n
      <4>1. inFlight # <<>> BY <1>2, <3>1, EmptySeq
      <4>2. (mem[inFlight[n]].pts + 1) % PtsRange = timestamp
        BY <4>1 DEF BufInv, PtsConsecutive, n
      <4> QED BY <1>2, <1>5, <2>1, <3>1, <3>3, <4>2
    <3> QED BY <1>2, <2>2, <3>1, <3>2, <3>3
  <2>3. (mem'[s[Len(s)]].pts + 1) % PtsRange = timestamp'
    BY <1>2, <1>5 DEF NextTimestamp
  <2> QED BY <1>2, <2>2, <2>3 DEF PtsConsecutive
<1>11. PicturesInOrder'
  <2>1. \A k \in 1..n : mem'[s[k]].content = mem[inFlight[k]].content
    BY <1>2, <1>3, <1>6 DEF HeldUnchanged
  <2>2. /\ mem'[last_buffer].content = mem[last_buffer].content
        /\ mem'[s[n + 1]].content = mem[last_buffer].content
    <3>1. mem[buffer].content = mem[last_buffer].content BY DEF BufInv, PicturesInOrder
    <3>2. last_buffer \in Buffers BY DEF BufInv, BufTypeOK
    <3> QED BY <1>2, <1>5, <3>1, <3>2
  <2>3. NotAfter(mem[last_buffer].content, mem[last_buffer].content)
    <3>1. mem[last_buffer].content \in Canvas BY Memory DEF BufInv, BufTypeOK
    <3> QED BY <3>1, NotAfterReflexive
  <2>4. ASSUME NEW j \in 1..n+1, NEW k \in 1..n+1, j < k
        PROVE  NotAfter(mem'[s[j]].content, mem'[s[k]].content)
    <3>1. CASE k \in 1..n
      BY <1>2, <2>1, <2>4, <3>1 DEF BufInv, PicturesInOrder
    <3>2. CASE k = n + 1
      BY <1>2, <2>1, <2>2, <2>4, <3>2 DEF BufInv, PicturesInOrder
    <3> QED BY <1>2, <3>1, <3>2
  <2>5. ASSUME NEW k \in 1..n+1 PROVE NotAfter(mem'[s[k]].content, mem'[last_buffer].content)
    <3>1. CASE k \in 1..n BY <1>2, <2>1, <2>2, <3>1 DEF BufInv, PicturesInOrder
    <3>2. CASE k = n + 1 BY <2>2, <2>3, <3>2
    <3> QED BY <1>2, <3>1, <3>2
  <2>6. NotAfter(mem[last_buffer].content, canvas) /\ mem[last_buffer].content = canvas
    BY DEF BufInv, PicturesInOrder
  <2> QED BY <1>2, <2>2, <2>4, <2>5, <2>6 DEF PicturesInOrder, NotAfter
<1> QED BY <1>6, <1>8, <1>9, <1>10, <1>11 DEF BufInv

\* The encoder gives back its oldest buffer, whose memory goes with the last reference.
LEMMA ReleaseStep ==
  ASSUME BufInv, Release
  PROVE  BufInv' /\ \A x \in Held' : mem'[x].content = mem[x].content /\ mem'[x].pts = mem[x].pts
<1> USE DEF Release, loopVars
<1> DEFINE n == Len(inFlight)
           s == inFlight'
           h == inFlight[1]
<1>1. /\ s \in Seq(Buffers) /\ n \in Nat \ {0} /\ DOMAIN s = 1..n-1 /\ Len(s) = n - 1
      /\ DOMAIN inFlight = 1..n /\ Head(inFlight) = h /\ h \in Buffers
      /\ \A k \in 1..n-1 : s[k] = inFlight[k + 1]
  <2>1. inFlight \in Seq(Buffers) /\ inFlight # <<>> BY DEF BufInv, BufTypeOK
  <2> QED BY <2>1, Headless
<1> HIDE DEF n
<1>2. \A j, k \in 1..n : inFlight[j] = inFlight[k] => j = k
  BY <1>1 DEF BufInv, BuffersAccounted
<1>3. \A k \in 1..n-1 : k + 1 \in 1..n /\ s[k] # h /\ s[k] \in Held /\ s[k] \in Buffers
  <2> SUFFICES ASSUME NEW k \in 1..n-1
      PROVE  k + 1 \in 1..n /\ s[k] # h /\ s[k] \in Held /\ s[k] \in Buffers
    OBVIOUS
  <2>1. k + 1 \in 1..n /\ 1 \in 1..n /\ k + 1 # 1 BY <1>1
  <2>2. s[k] = inFlight[k + 1] BY <1>1
  <2> QED BY <1>1, <1>2, <2>1, <2>2, Indices DEF BufInv
<1>4. Held' = Held \ {h}
  <2>1. ASSUME NEW x \in Held' PROVE x \in Held \ {h}
    <3>1. PICK k \in 1..n-1 : x = s[k] BY <1>1 DEF Held
    <3> QED BY <3>1, <1>3
  <2>2. ASSUME NEW x \in Held, x # h PROVE x \in Held'
    <3>1. PICK k \in 1..n : x = inFlight[k] BY <1>1 DEF Held
    <3>2. k # 1 BY <3>1, <2>2
    <3>3. k - 1 \in 1..n-1 /\ (k - 1) + 1 = k BY <1>1, <3>2
    <3>4. x = s[k - 1] BY <1>1, <3>1, <3>3
    <3> QED BY <1>1, <3>3, <3>4 DEF Held
  <2> QED BY <2>1, <2>2
<1>5. h \in Held /\ h # buffer
  BY <1>1 DEF Held, BufInv, BuffersAccounted
<1>6. mem[h].refs = (IF h = last_buffer THEN 2 ELSE 1)
  BY <1>1, <1>5 DEF BufInv, BuffersAccounted
<1>7. /\ mem' \in [Buffers -> [refs : Nat, content : Canvas, pts : 0..PtsRange-1]]
      /\ \A x \in Buffers \ {h} : mem'[x] = mem[x]
      /\ mem'[h].refs = mem[h].refs - 1
      /\ h = last_buffer => mem'[h].content = mem[h].content
  <2>1. mem' = Unref(h) /\ mem[h].refs >= 1 BY <1>1, <1>6
  <2> HIDE DEF h
  <2> QED BY <1>1, <1>6, <2>1, Unreferenced DEF BufInv
<1>8. \A x \in Held' : mem'[x].content = mem[x].content /\ mem'[x].pts = mem[x].pts
  BY <1>4, <1>7, Indices DEF BufInv
<1>9. BufTypeOK' BY <1>1, <1>7 DEF BufInv, BufTypeOK
<1>10. BuffersAccounted'
  <2>1. \A j, k \in 1..n-1 : s[j] = s[k] => j = k
    <3> SUFFICES ASSUME NEW j \in 1..n-1, NEW k \in 1..n-1, s[j] = s[k] PROVE j = k OBVIOUS
    <3>1. inFlight[j + 1] = inFlight[k + 1] /\ j + 1 \in 1..n /\ k + 1 \in 1..n BY <1>1, <1>3
    <3>2. j + 1 = k + 1 BY <3>1, <1>2
    <3> QED BY <3>2
  <2>2. buffer \notin Held' BY <1>4 DEF BufInv, BuffersAccounted
  <2>3. ASSUME NEW x \in Buffers
        PROVE  mem'[x].refs = (IF x \in Held' THEN 1 ELSE 0)
                              + (IF x = last_buffer THEN 1 ELSE 0)
                              + (IF x = buffer THEN 1 ELSE 0)
    <3>1. CASE x = h BY <3>1, <1>4, <1>5, <1>6, <1>7
    <3>2. CASE x # h
      <4>1. mem'[x].refs = mem[x].refs /\ (x \in Held' <=> x \in Held) BY <3>2, <1>4, <1>7
      <4> QED BY <4>1 DEF BufInv, BuffersAccounted
    <3> QED BY <3>1, <3>2
  <2> QED BY <1>1, <2>1, <2>2, <2>3 DEF BuffersAccounted
<1>11. \A k \in 1..n-1 : /\ mem'[s[k]].content = mem[inFlight[k + 1]].content
                         /\ mem'[s[k]].pts = mem[inFlight[k + 1]].pts
  BY <1>1, <1>3, <1>7
<1>12. PtsConsecutive'
  <2>1. ASSUME NEW k \in 1..n-1, k + 1 \in 1..n-1
        PROVE  mem'[s[k + 1]].pts = (mem'[s[k]].pts + 1) % PtsRange
    <3>1. k + 1 \in 1..n /\ (k + 1) + 1 \in 1..n BY <1>1, <2>1
    <3> QED BY <1>1, <1>11, <2>1, <3>1 DEF BufInv, PtsConsecutive
  <2>2. ASSUME s # <<>> PROVE (mem'[s[Len(s)]].pts + 1) % PtsRange = timestamp'
    <3>1. n - 1 \in 1..n-1 /\ (n - 1) + 1 = n
      <4>1. n - 1 # 0 BY <1>1, <2>2, EmptySeq
      <4> QED BY <4>1, <1>1
    <3>2. mem'[s[n - 1]].pts = mem[inFlight[n]].pts BY <1>11, <3>1
    <3>3. (mem[inFlight[n]].pts + 1) % PtsRange = timestamp
      BY DEF BufInv, PtsConsecutive, n
    <3> QED BY <1>1, <3>2, <3>3
  <2> QED BY <1>1, <2>1, <2>2 DEF PtsConsecutive
<1>13. PicturesInOrder'
  <2>1. mem'[last_buffer].content = mem[last_buffer].content
    BY <1>7 DEF BufInv, BufTypeOK
  <2>2. comp = "push" => mem'[buffer].content = mem[buffer].content
    BY <1>5, <1>7, BufferAssumption DEF BufInv, BufTypeOK
  <2>3. ASSUME NEW j \in 1..n-1, NEW k \in 1..n-1, j < k
        PROVE  NotAfter(mem'[s[j]].content, mem'[s[k]].content)
    <3>1. j + 1 \in 1..n /\ k + 1 \in 1..n /\ j + 1 < k + 1 BY <1>3, <2>3
    <3> QED BY <1>1, <1>11, <3>1 DEF BufInv, PicturesInOrder
  <2>4. ASSUME NEW k \in 1..n-1 PROVE NotAfter(mem'[s[k]].content, mem'[last_buffer].content)
    BY <1>1, <1>3, <1>11, <2>1 DEF BufInv, PicturesInOrder
  <2> QED BY <1>1, <2>1, <2>2, <2>3, <2>4 DEF BufInv, PicturesInOrder, NotAfter
<1> QED BY <1>8, <1>9, <1>10, <1>12, <1>13 DEF BufInv

\* What one step of the system does to the buffers.
LEMMA BufStep ==
  ASSUME BufInv, CamInv, [Next]_vars
  PROVE  /\ BufInv'
         /\ \A b \in Held \cap Held' : mem'[b].content = mem[b].content /\ mem'[b].pts = mem[b].pts
<1>1. CASE UNCHANGED <<loopVars, bufVars>>
  BY <1>1 DEF loopVars, bufVars, BufInv, BufTypeOK, BuffersAccounted, PtsConsecutive,
       PicturesInOrder, NotAfter, Held
<1>2. CASE NeedData \/ CheckQueue \/ PopAndDraw
  <2>1. mem' = mem BY <1>2 DEF NeedData, CheckQueue, PopAndDraw, bufVars
  <2> QED BY <1>2, <2>1, DrawStep
<1>3. CASE MakeBuffer
  <2>1. PICK b \in Free : IF update THEN Render(b) ELSE CopyLast(b)
    BY <1>3 DEF MakeBuffer, NewBuffer
  <2>2. CASE update
    <3>1. BufInv' /\ HeldUnchanged BY <1>3, <2>1, <2>2, RenderStep DEF MakeBuffer
    <3> QED BY <3>1 DEF HeldUnchanged
  <2>3. CASE ~update
    <3>1. BufInv' /\ HeldUnchanged BY <1>3, <2>1, <2>3, CopyStep DEF MakeBuffer
    <3> QED BY <3>1 DEF HeldUnchanged
  <2> QED BY <2>2, <2>3
<1>4. CASE PushBuffer BY <1>4, PushBufferStep DEF HeldUnchanged
<1>5. CASE Release BY <1>5, ReleaseStep
<1> QED BY <1>1, <1>2, <1>3, <1>4, <1>5 DEF Next, CompStep, vars

LEMMA BufInvariance == SafeSpec => [](BufInv /\ CamInv)
<1>1. BufInv /\ CamInv /\ [Next]_vars => BufInv' BY BufStep
<1> QED BY <1>1, BufInit_, CamInvariance, PTL DEF SafeSpec

\* Every reachable state of the cameras and the compositor is well typed.
THEOREM Typing == SafeSpec => []TypeOK
<1>1. BufInv /\ CamInv => TypeOK BY DEF BufInv, BufTypeOK, CamInv, CursorOK, TypeOK
<1> QED BY <1>1, BufInvariance, PTL

\* No GstBuffer leaks and none is freed while somebody uses it.
THEOREM ReferencesBalance == SafeSpec => []BuffersAccounted
<1>1. BufInv => BuffersAccounted BY DEF BufInv
<1> QED BY <1>1, BufInvariance, PTL

\* The output's time stamps follow one another without a gap.
THEOREM TimeStampsFollow == SafeSpec => []PtsConsecutive
<1>1. BufInv => PtsConsecutive BY DEF BufInv
<1> QED BY <1>1, BufInvariance, PTL

\* Between callbacks last_buffer is the newest picture.
THEOREM LastIsNewest == SafeSpec => []OutputIsCurrent
<1>1. BufInv => OutputIsCurrent BY DEF BufInv, PicturesInOrder, OutputIsCurrent
<1> QED BY <1>1, BufInvariance, PTL

\* The pushed pictures never go back in time, in any window.
THEOREM PicturesGoForward == SafeSpec => []OutputNeverGoesBack
<1>1. BufInv => OutputNeverGoesBack
  BY DEF BufInv, PicturesInOrder, NotAfter, OutputNeverGoesBack
<1> QED BY <1>1, BufInvariance, PTL

\* Nothing writes on a buffer that the encoder holds.
THEOREM HeldBuffersAreFrozen == SafeSpec => HeldIsFrozen
<1>1. BufInv /\ CamInv /\ [Next]_vars =>
        [\A b \in Held \cap Held' : mem'[b].content = mem[b].content
                                   /\ mem'[b].pts = mem[b].pts]_vars
  BY BufStep
<1> QED BY <1>1, BufInvariance, PTL DEF SafeSpec, HeldIsFrozen

-----------------------------------------------------------------------------
(***************************************************************************)
(* The refinement of VideoWall.                                            *)
(***************************************************************************)
Entry == [content : Canvas, pts : 0..PtsRange-1]

\* The encoder's pictures, as values.
Values(m, s) == [k \in DOMAIN s |-> [content |-> m[s[k]].content, pts |-> m[s[k]].pts]]

LEMMA ValuesAreEntries ==
  ASSUME NEW m \in [Buffers -> [refs : Nat, content : Canvas, pts : 0..PtsRange-1]],
         NEW s \in Seq(Buffers)
  PROVE  /\ Values(m, s) \in Seq(Entry) /\ Len(Values(m, s)) = Len(s) /\ Len(s) \in Nat
         /\ \A k \in 1..Len(s) : Values(m, s)[k] = [content |-> m[s[k]].content, pts |-> m[s[k]].pts]
<1> DEFINE n == Len(s)
           o == Values(m, s)
           e(k) == [content |-> m[s[k]].content, pts |-> m[s[k]].pts]
<1>1. n \in Nat /\ DOMAIN s = 1..n /\ \A k \in 1..n : s[k] \in Buffers
  BY LenProperties, ElementOfSeq
<1>2. \A k \in 1..n : e(k) \in Entry BY <1>1 DEF Entry
<1>3. o \in [1..n -> Entry] /\ \A k \in 1..n : o[k] = e(k) BY <1>1, <1>2 DEF Values
<1> HIDE DEF n, o
<1>4. o \in Seq(Entry) /\ Len(o) = n BY <1>1, <1>3
<1> QED BY <1>1, <1>3, <1>4 DEF n, o

LEMMA OutputIsValues == Output = Values(mem, inFlight) /\ Output' = Values(mem', inFlight')
BY DEF Output, Stamped, Values

\* Pictures that nobody writes on stay what they are.
LEMMA OutputKept ==
  ASSUME BufInv, HeldUnchanged, inFlight' = inFlight
  PROVE  Output' = Output
<1>1. \A k \in DOMAIN inFlight : Stamped(inFlight[k])' = Stamped(inFlight[k])
  BY Indices DEF BufInv, HeldUnchanged, Stamped
<1> QED BY <1>1 DEF Output

\* A new buffer: a picture that is newer in all windows, or the last one.
LEMMA MakeRefines == ASSUME BufInv, CamInv, MakeBuffer PROVE [Wall!Next]_(Wall!vars)
<1> USE DEF MakeBuffer
<1>1. PICK b \in Free : IF update THEN Render(b) ELSE CopyLast(b) BY DEF NewBuffer
<1>2. /\ b \in Buffers /\ b # last_buffer /\ last_buffer \in Buffers /\ UNCHANGED <<frame, timestamp, inFlight>>
  BY CountedRefs DEF camVars
<1>3. CASE update
  <2>1. BufInv' /\ HeldUnchanged BY <1>1, <1>3, RenderStep
  <2>2. mem'[last_buffer'].content = canvas
    <3>1. DOMAIN Unref(last_buffer) = Buffers BY DEF Unref, BufInv, BufTypeOK
    <3> QED BY <1>1, <1>2, <1>3, <3>1 DEF Render
  <2>3. canvas \in Canvas /\ \A c \in Cameras : canvas[c] <= frame[c]
    BY DEF CamInv, CursorOK, AllOrdered, Ordered
  <2>4. \A c \in Cameras : mem[last_buffer].content[c] <= canvas[c]
    BY DEF BufInv, PicturesInOrder, NotAfter
  <2>5. Wall!Compose
    BY <1>2, <2>1, <2>2, <2>3, <2>4, OutputKept DEF Wall!Compose, Wall!Cameras, Cameras, Canvas
  <2> QED BY <2>5 DEF Wall!Next
<1>4. CASE ~update
  <2>1. BufInv' /\ HeldUnchanged BY <1>1, <1>4, CopyStep
  <2>2. last_buffer' = last_buffer /\ mem'[last_buffer] = mem[last_buffer]
    BY <1>1, <1>2, <1>4 DEF CopyLast, BufInv, BufTypeOK
  <2> QED BY <1>2, <2>1, <2>2, OutputKept DEF Wall!vars
<1> QED BY <1>3, <1>4

\* The buffer pushed has the newest picture, and gets its time stamp before it is seen.
LEMMA PushRefines == ASSUME BufInv, CamInv, PushBuffer PROVE Wall!Emit
<1> USE DEF PushBuffer
<1> DEFINE n == Len(inFlight)
           new == [content |-> mem[last_buffer].content, pts |-> timestamp]
<1>1. BufInv' /\ HeldUnchanged BY PushBufferStep
<1>2. buffer \in Buffers /\ last_buffer \in Buffers /\ inFlight \in Seq(Buffers)
      /\ mem[buffer].content = mem[last_buffer].content
  BY BufferAssumption DEF BufInv, BufTypeOK, PicturesInOrder
<1>3. /\ mem'[buffer].pts = timestamp /\ mem'[buffer].content = mem[buffer].content
      /\ mem'[last_buffer].content = mem[last_buffer].content
  BY <1>2 DEF BufInv, BufTypeOK
<1>4. /\ Len(inFlight') = n + 1 /\ inFlight'[n + 1] = buffer
      /\ \A k \in 1..n : inFlight'[k] = inFlight[k]
  BY <1>2, Appended
<1>5. /\ Output \in Seq(Entry) /\ Len(Output) = n /\ n \in Nat
      /\ \A k \in 1..n : Output[k] = [content |-> mem[inFlight[k]].content, pts |-> mem[inFlight[k]].pts]
      /\ Output' \in Seq(Entry) /\ Len(Output') = n + 1
      /\ \A k \in 1..n+1 : Output'[k] = [content |-> mem'[inFlight'[k]].content,
                                         pts |-> mem'[inFlight'[k]].pts]
  <2>1. /\ mem \in [Buffers -> [refs : Nat, content : Canvas, pts : 0..PtsRange-1]]
        /\ inFlight \in Seq(Buffers)
    BY DEF BufInv, BufTypeOK
  <2>2. /\ mem' \in [Buffers -> [refs : Nat, content : Canvas, pts : 0..PtsRange-1]]
        /\ inFlight' \in Seq(Buffers)
    BY <1>1 DEF BufInv, BufTypeOK
  <2>3. /\ Output \in Seq(Entry) /\ Len(Output) = n /\ n \in Nat
        /\ \A k \in 1..n : Output[k] = [content |-> mem[inFlight[k]].content,
                                       pts |-> mem[inFlight[k]].pts]
    BY <2>1, OutputIsValues, ValuesAreEntries
  <2>4. /\ Output' \in Seq(Entry) /\ Len(Output') = Len(inFlight')
        /\ \A k \in 1..Len(inFlight') : Output'[k] = [content |-> mem'[inFlight'[k]].content,
                                                    pts |-> mem'[inFlight'[k]].pts]
    <3> HIDE DEF PushBuffer
    <3> QED BY <2>2, OutputIsValues, ValuesAreEntries
  <2> QED BY <1>4, <2>3, <2>4
<1>6. new \in Entry BY <1>2, Memory DEF Entry, BufInv, BufTypeOK
<1>7. /\ Append(Output, new) \in Seq(Entry) /\ Len(Append(Output, new)) = n + 1
      /\ \A k \in 1..n : Append(Output, new)[k] = Output[k] /\ Append(Output, new)[n + 1] = new
  BY <1>5, <1>6, AppendProperties
<1>8. Append(Output, new)[n + 1] = new BY <1>5, <1>6, AppendProperties
<1>9. ASSUME NEW k \in 1..n+1 PROVE Output'[k] = Append(Output, new)[k]
  <2>1. CASE k \in 1..n
    <3>1. k \in DOMAIN inFlight BY <2>1, <1>2, LenProperties
    <3>3. inFlight[k] \in Held BY <3>1 DEF Held
    <3>2. inFlight'[k] = inFlight[k]
          /\ mem'[inFlight[k]].content = mem[inFlight[k]].content
          /\ mem'[inFlight[k]].pts = mem[inFlight[k]].pts
      BY <1>1, <1>4, <2>1, <3>3 DEF HeldUnchanged
    <3> QED BY <1>5, <1>7, <2>1, <3>2
  <2>2. CASE k = n + 1
    <3>1. k \in 1..n+1 /\ inFlight'[k] = buffer BY <1>4, <2>2
    <3>2. Output'[k] = new BY <1>2, <1>3, <1>5, <3>1
    <3> QED BY <1>8, <2>2, <3>2
  <2> QED BY <1>5, <2>1, <2>2
<1>10. Output' = Append(Output, new)
  <2> HIDE DEF n, new
  <2> QED BY <1>5, <1>7, <1>9, SeqEqual
<1> QED BY <1>3, <1>10 DEF Wall!Emit, NextTimestamp, camVars

\* What the encoder gives back is the oldest; the others are not touched by the unref.
LEMMA ReleaseRefines == ASSUME BufInv, CamInv, Release PROVE Wall!Consume
<1> USE DEF Release
<1> DEFINE n == Len(inFlight)
<1>1. BufInv' /\ \A x \in Held' : mem'[x].content = mem[x].content /\ mem'[x].pts = mem[x].pts
  BY ReleaseStep
<1>2. /\ inFlight # <<>> /\ inFlight \in Seq(Buffers) /\ n \in Nat \ {0} /\ Len(inFlight') = n - 1
      /\ \A k \in 1..n-1 : inFlight'[k] = inFlight[k + 1]
  <2>1. inFlight \in Seq(Buffers) BY DEF BufInv, BufTypeOK
  <2> QED BY <2>1, Headless
<1>3. /\ Output \in Seq(Entry) /\ Len(Output) = n
      /\ \A k \in 1..n : Output[k] = [content |-> mem[inFlight[k]].content, pts |-> mem[inFlight[k]].pts]
      /\ Output' \in Seq(Entry) /\ Len(Output') = n - 1
      /\ \A k \in 1..n-1 : Output'[k] = [content |-> mem'[inFlight'[k]].content,
                                         pts |-> mem'[inFlight'[k]].pts]
  <2>1. /\ mem \in [Buffers -> [refs : Nat, content : Canvas, pts : 0..PtsRange-1]]
        /\ inFlight \in Seq(Buffers)
    BY DEF BufInv, BufTypeOK
  <2>2. /\ mem' \in [Buffers -> [refs : Nat, content : Canvas, pts : 0..PtsRange-1]]
        /\ inFlight' \in Seq(Buffers)
    BY <1>1 DEF BufInv, BufTypeOK
  <2>3. /\ Output \in Seq(Entry) /\ Len(Output) = n /\ n \in Nat
        /\ \A k \in 1..n : Output[k] = [content |-> mem[inFlight[k]].content,
                                       pts |-> mem[inFlight[k]].pts]
    BY <2>1, OutputIsValues, ValuesAreEntries
  <2>4. /\ Output' \in Seq(Entry) /\ Len(Output') = Len(inFlight')
        /\ \A k \in 1..Len(inFlight') : Output'[k] = [content |-> mem'[inFlight'[k]].content,
                                                    pts |-> mem'[inFlight'[k]].pts]
    BY <2>2, OutputIsValues, ValuesAreEntries
  <2> QED BY <1>2, <2>3, <2>4
<1>4. Output # <<>> BY <1>2, <1>3, EmptySeq
<1>5. /\ Tail(Output) \in Seq(Entry) /\ Len(Tail(Output)) = n - 1
      /\ \A k \in 1..n-1 : Tail(Output)[k] = Output[k + 1]
  BY <1>3, <1>4, Headless
<1>6. ASSUME NEW k \in 1..n-1 PROVE Output'[k] = Tail(Output)[k]
  <2>1. k + 1 \in 1..n /\ inFlight'[k] = inFlight[k + 1] BY <1>2
  <2>2. inFlight'[k] \in Held'
    <3>1. inFlight' \in Seq(Buffers) BY <1>1 DEF BufInv, BufTypeOK
    <3>2. k \in DOMAIN inFlight' BY <1>2, <3>1, LenProperties
    <3> QED BY <3>2 DEF Held
  <2>3. mem'[inFlight'[k]].content = mem[inFlight'[k]].content
        /\ mem'[inFlight'[k]].pts = mem[inFlight'[k]].pts
    BY <1>1, <2>2
  <2>4. Output'[k] = [content |-> mem'[inFlight'[k]].content, pts |-> mem'[inFlight'[k]].pts]
    BY <1>3
  <2>5. Tail(Output)[k] = [content |-> mem[inFlight[k + 1]].content, pts |-> mem[inFlight[k + 1]].pts]
    BY <1>3, <1>5, <2>1
  <2> QED BY <2>1, <2>3, <2>4, <2>5
<1>7. Output' = Tail(Output)
  <2> HIDE DEF n
  <2> QED BY <1>3, <1>5, <1>6, SeqEqual
<1>8. mem'[last_buffer].content = mem[last_buffer].content
  <2> DEFINE h == Head(inFlight)
  <2>1. h \in Buffers /\ h \in Held /\ last_buffer \in Buffers /\ h # buffer
    <3>1. h = inFlight[1] /\ 1 \in DOMAIN inFlight BY <1>2, Headless
    <3> QED BY <3>1, Indices DEF BufInv, BufTypeOK, BuffersAccounted
  <2>2. mem[h].refs = (IF h = last_buffer THEN 2 ELSE 1) BY <2>1 DEF BufInv, BuffersAccounted
  <2> HIDE DEF h
  <2>3. mem' = Unref(h) BY DEF h
  <2> QED BY <2>1, <2>2, <2>3, Unreferenced DEF BufInv
<1> QED BY <1>4, <1>7, <1>8 DEF Wall!Consume, camVars

LEMMA WallStep == BufInv /\ CamInv /\ [Next]_vars => [Wall!Next]_(Wall!vars)
<1> SUFFICES ASSUME BufInv, CamInv, [Next]_vars PROVE [Wall!Next]_(Wall!vars) OBVIOUS
<1>1. ASSUME UNCHANGED bufVars PROVE UNCHANGED <<mem[last_buffer].content, timestamp, Output>>
  BY <1>1 DEF bufVars, Output, Stamped
<1>2. CASE UNCHANGED vars BY <1>1, <1>2 DEF vars, camVars, Wall!vars
<1>3. ASSUME NEW c \in Cameras, CamStep(c), UNCHANGED bufVars PROVE [Wall!Next]_(Wall!vars)
  <2>1. CASE PullSample(c)
    <3>1. Wall!Deliver(c) BY <1>1, <1>3, <2>1 DEF PullSample, Wall!Deliver
    <3> QED BY <3>1 DEF Wall!Next, Wall!Cameras, Cameras
  <2>2. CASE ~PullSample(c)
    BY <1>1, <1>3, <2>2 DEF CamStep, EndLoop, MetricsHang, Proceed, ProcBuffer, CheckSize, Push, Wall!vars
  <2> QED BY <2>1, <2>2
<1>4. CASE NeedData \/ CheckQueue \/ PopAndDraw
  BY <1>1, <1>4 DEF NeedData, CheckQueue, PopAndDraw, camVars, Wall!vars
<1>5. CASE MakeBuffer BY <1>5, MakeRefines
<1>6. CASE PushBuffer BY <1>6, PushRefines DEF Wall!Next
<1>7. CASE Release BY <1>7, ReleaseRefines DEF Wall!Next
<1> QED BY <1>2, <1>3, <1>4, <1>5, <1>6, <1>7 DEF Next, CompStep

\* The shared buffers implement a FIFO of pictures that are values, for any number of
\* cameras and buffers: what VideoWall promises.
THEOREM ImplementsVideoWall == SafeSpec => WallSpec
<1>1. Init => Wall!Init
  <2> SUFFICES ASSUME Init PROVE Wall!Init OBVIOUS
  <2>1. last_buffer \in Buffers BY BufferAssumption DEF Init
  <2>2. mem[last_buffer].content = Blank BY <2>1 DEF Init, Freed
  <2>3. Output = <<>>
    <3>1. BufTypeOK BY BufInit_ DEF BufInv
    <3>2. Len(Output) = 0 /\ Output \in Seq(Entry)
      BY <3>1, OutputIsValues, ValuesAreEntries, EmptySeq DEF Init, BufTypeOK
    <3> QED BY <3>2, EmptySeq
  <2> QED BY <2>2, <2>3 DEF Init, CamInit, Wall!Init, Wall!Cameras, Cameras, Blank
<1> QED BY <1>1, WallStep, BufInvariance, PTL DEF SafeSpec, WallSpec, Wall!Spec

-----------------------------------------------------------------------------
(***************************************************************************)
(* The memory in use.                                                      *)
(***************************************************************************)
InUse == {b \in Buffers : mem[b].refs > 0}

\* appsrc asks for data while it has room, and the callback fills that room once.
RoomInFlight == /\ Len(inFlight) <= MaxInFlight
                /\ comp # "idle" => Len(inFlight) < MaxInFlight

LEMMA RoomStep == ASSUME BufInv, RoomInFlight, [Next]_vars PROVE RoomInFlight'
<1> USE DEF RoomInFlight
<1>1. inFlight \in Seq(Buffers) /\ Len(inFlight) \in Nat /\ MaxInFlight \in Nat
  BY Indices, BufferAssumption DEF BufInv, BufTypeOK
<1>2. CASE UNCHANGED <<comp, inFlight>> BY <1>2
<1>3. CASE NeedData BY <1>3 DEF NeedData, bufVars
<1>4. CASE CheckQueue \/ PopAndDraw \/ MakeBuffer
  BY <1>4 DEF CheckQueue, PopAndDraw, MakeBuffer, bufVars
<1>5. CASE PushBuffer
  <2>1. Len(inFlight') = Len(inFlight) + 1 /\ comp' = "idle" /\ comp # "idle"
    <3>1. buffer \in Buffers BY <1>5 DEF PushBuffer, BufInv, BufTypeOK
    <3> QED BY <1>1, <1>5, <3>1, Appended DEF PushBuffer
  <2> QED BY <1>1, <2>1
<1>6. CASE Release
  <2>1. Len(inFlight') = Len(inFlight) - 1 /\ comp' = comp
    BY <1>1, <1>6, Headless DEF Release, loopVars
  <2> QED BY <1>1, <2>1
<1> QED BY <1>2, <1>3, <1>4, <1>5, <1>6 DEF Next, CompStep, loopVars, bufVars, vars

LEMMA RoomInvariance == SafeSpec => [](BufInv /\ RoomInFlight)
<1>1. Init => RoomInFlight BY BufferAssumption, EmptySeq DEF Init, RoomInFlight
<1>2. BufInv /\ RoomInFlight /\ [Next]_vars => RoomInFlight' BY RoomStep
<1> QED BY <1>1, <1>2, BufInvariance, PTL DEF SafeSpec

\* At most one buffer is in use that the encoder does not hold, or two in a callback.
LEMMA UsersOfMemory ==
  ASSUME BufInv, RoomInFlight
  PROVE  /\ IsFiniteSet(InUse) /\ Cardinality(InUse) \in Nat
         /\ Cardinality(InUse) <= MaxInFlight + 1
         /\ comp = "make" => Cardinality(InUse) <= MaxInFlight
<1> DEFINE n == Len(inFlight)
<1>1. n \in Nat /\ DOMAIN inFlight = 1..n /\ MaxInFlight \in Nat
  BY Indices, BufferAssumption DEF BufInv
<1>2. IsFiniteSet(Held) /\ Cardinality(Held) <= n /\ Cardinality(Held) \in Nat
  <2>1. IsFiniteSet(1..n) /\ Cardinality(1..n) = n
    <3> HIDE DEF n
    <3>1. 1 \in Int /\ n \in Int BY <1>1
    <3>2. Cardinality(1..n) = IF 1 > n THEN 0 ELSE n - 1 + 1 BY <3>1, FS_Interval
    <3> QED BY <1>1, <3>1, <3>2, FS_Interval
  <2>2. inFlight \in Surjection(1..n, Held)
    <3>1. inFlight \in [1..n -> Held] BY <1>1, LenProperties DEF Held, BufInv, BufTypeOK
    <3>2. \A b \in Held : \E k \in 1..n : inFlight[k] = b BY <1>1 DEF Held
    <3> QED BY <3>1, <3>2 DEF Surjection
  <2> HIDE DEF n
  <2>3. IsFiniteSet(Held) /\ Cardinality(Held) <= n BY <2>1, <2>2, FS_Surjection
  <2> QED BY <2>3, FS_CardinalityType
<1> DEFINE two == Held \cup {last_buffer}
           all == two \cup {buffer}
<1>3. /\ IsFiniteSet(two) /\ Cardinality(two) \in Nat /\ Cardinality(two) <= n + 1
  <2> HIDE DEF n
  <2>1. /\ IsFiniteSet(two)
        /\ Cardinality(two) = IF last_buffer \in Held THEN Cardinality(Held) ELSE Cardinality(Held) + 1
    BY <1>2, FS_AddElement
  <2>2. Cardinality(two) <= n + 1
    <3> HIDE DEF two
    <3> QED BY <1>1, <1>2, <2>1
  <2> QED BY <2>1, <2>2, FS_CardinalityType
<1>4. IsFiniteSet(all) /\ Cardinality(all) \in Nat /\ Cardinality(all) <= n + 2
  <2> HIDE DEF n, two
  <2>1. IsFiniteSet(all) /\ Cardinality(all) <= n + 2 BY <1>1, <1>3, FS_AddElement
  <2> QED BY <2>1, FS_CardinalityType
<1>5. InUse \in SUBSET all /\ (comp # "push" => InUse \in SUBSET two)
  <2>1. comp # "push" => buffer \notin Buffers
    BY BufferAssumption DEF BufInv, BufTypeOK
  <2>2. ASSUME NEW b \in InUse PROVE b \in Held \/ b = last_buffer \/ b = buffer
    BY DEF InUse, BufInv, BuffersAccounted
  <2> QED BY <2>1, <2>2 DEF InUse
<1> HIDE DEF n, two, all
<1>6. IsFiniteSet(InUse) /\ Cardinality(InUse) \in Nat /\ Cardinality(InUse) <= Cardinality(all)
  BY <1>4, <1>5, FS_Subset, FS_CardinalityType
<1>7. comp # "push" => Cardinality(InUse) <= Cardinality(two) BY <1>3, <1>5, FS_Subset
<1>8. n <= MaxInFlight /\ (comp # "idle" => n < MaxInFlight) BY DEF RoomInFlight, n
<1> QED BY <1>1, <1>3, <1>4, <1>6, <1>7, <1>8

\* However many cameras there are and however long it runs, the compositor has at most
\* one buffer more than appsrc and the encoder have room for: none is leaked.
THEOREM MemoryIsBounded == SafeSpec => [](IsFiniteSet(InUse) /\ Cardinality(InUse) <= MaxInFlight + 1)
<1>1. BufInv /\ RoomInFlight => IsFiniteSet(InUse) /\ Cardinality(InUse) <= MaxInFlight + 1
  BY UsersOfMemory
<1> QED BY <1>1, RoomInvariance, PTL

\* So the number of buffers of the model bounds nothing: with one more than there is room
\* for, or with infinitely many, the callback finds a free one whenever it needs one.
THEOREM BuffersSuffice ==
  ASSUME IsFiniteSet(Buffers) => Cardinality(Buffers) > MaxInFlight
  PROVE  SafeSpec => [](comp = "make" => Free # {})
<1>1. BufInv /\ RoomInFlight => (comp = "make" => Free # {})
  <2> SUFFICES ASSUME BufInv, RoomInFlight, comp = "make", Free = {} PROVE FALSE OBVIOUS
  <2>1. Buffers = InUse
    <3>1. \A b \in Buffers : mem[b].refs \in Nat /\ mem[b].refs # 0
      BY Memory DEF Free, BufInv
    <3> QED BY <3>1 DEF InUse
  <2> QED BY <2>1, UsersOfMemory, BufferAssumption
<1> QED BY <1>1, RoomInvariance, PTL
=============================================================================
