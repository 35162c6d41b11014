-------------------------- MODULE InfClient_proofs --------------------------
(***************************************************************************)
(* Proofs about InfClient, for any number of requests and crashes.         *)
(***************************************************************************)
EXTENDS InfClient, SequenceTheorems, TLAPS

\* The flag is what the worker makes of it.
BusyGood == busy <=> worker \in {"send", "recv", "push", "clear"}

HandGood == hand # <<>> => Len(hand) = 1

\* The socket's exchange is that of the request in hand, answered at most once.
ExchangeGood ==
  /\ client[Me] = "waiting" <=> worker = "recv"
  /\ worker = "recv" => hand = <<sent[Me]>>
  /\ fromFront[Me] # <<>> =>
       worker = "recv" /\ Me \notin lost /\ fromFront[Me] = <<[from |-> Me, n |-> sent[Me]]>>

\* Once it is lost the worker waits.
LostGood == Me \in lost => worker = "recv"

\* Requests sent: their results are taken, in the queue, or due.
SentGood ==
  sent[Me] = Len(drained) + Len(result_queue) + IF worker \in {"recv", "push"} THEN 1 ELSE 0

\* A request that follows a test made before the flag was set is the first.
SlipsGood == slips <= 1 /\ (busy /\ camera = "request" => slips = 0)

RequestCounted == camera = "request" => asked < MaxRequests

IndInv == /\ TypeOK /\ BusyGood /\ HandGood /\ ExchangeGood /\ LostGood /\ SentGood
          /\ SlipsGood /\ RequestCounted /\ CameraNeverBlocks /\ ResultsInOrder

-----------------------------------------------------------------------------
(* Sequences.                                                              *)

\* The types of the sequences, one by one.
LEMMA Typed ==
  TypeOK => /\ request_queue \in Seq(Frame) /\ result_queue \in Seq(Frame)
            /\ hand \in Seq(Frame) /\ drained \in Seq(Frame)
BY DEF TypeOK

\* A sequence of one element.
LEMMA Single ==
  ASSUME NEW S, NEW s \in Seq(S), Len(s) = 1
  PROVE  /\ s[1] \in S /\ s = <<s[1]>> /\ Append(<<>>, s[1]) = s
         /\ Head(s) = s[1] /\ Tail(s) = <<>> /\ s # <<>> /\ <<Head(s)>> = s
<1>1. s[1] \in S /\ s # <<>>
  BY ElementOfSeq, EmptySeq
<1> DEFINE t == <<s[1]>>
<1>2. t \in Seq(S) /\ Len(t) = 1 /\ t[1] = s[1]
  BY <1>1
<1> HIDE DEF t
<1>3. s = t
  <2>1. \A i \in 1..Len(s) : s[i] = t[i]
    BY <1>2
  <2> QED
    BY <1>2, <2>1, SeqEqual
<1>4. Tail(s) = <<>>
  <2>1. Tail(s) \in Seq(S) /\ Len(Tail(s)) = 0
    BY <1>1, HeadTailProperties
  <2> QED
    BY <2>1, EmptySeq
<1>5. Append(<<>>, s[1]) = t /\ Head(s) = s[1] /\ <<Head(s)>> = t
  BY <1>1 DEF t
<1> QED
  BY <1>1, <1>3, <1>4, <1>5 DEF t

\* A sequence is its head and its tail.
LEMMA Cut ==
  ASSUME NEW S, NEW s \in Seq(S), s # <<>>
  PROVE  Head(s) \in S /\ <<Head(s)>> \in Seq(S) /\ Tail(s) \in Seq(S) /\ <<Head(s)>> \o Tail(s) = s
<1>1. Head(s) \in S /\ Tail(s) \in Seq(S) /\ Len(Tail(s)) = Len(s) - 1 /\ Head(s) = s[1]
      /\ \A i \in 1..Len(Tail(s)) : Tail(s)[i] = s[i + 1]
  BY HeadTailProperties
<1>2. Len(s) \in Nat /\ Len(s) >= 1
  BY EmptySeq, LenProperties
<1> DEFINE h == <<Head(s)>>
<1>3. h \in Seq(S) /\ Len(h) = 1 /\ h[1] = s[1]
  BY <1>1
<1> HIDE DEF h
<1>4. /\ h \o Tail(s) \in Seq(S) /\ Len(h \o Tail(s)) = Len(s)
      /\ \A i \in 1..Len(s) : (h \o Tail(s))[i] = IF i <= 1 THEN h[i] ELSE Tail(s)[i - 1]
  BY <1>1, <1>2, <1>3, ConcatProperties
<1>5. \A i \in 1..Len(s) : (h \o Tail(s))[i] = s[i]
  BY <1>1, <1>2, <1>3, <1>4
<1>6. h \o Tail(s) = s
  BY <1>4, <1>5, SeqEqual
<1> QED
  BY <1>1, <1>3, <1>6 DEF h

\* Appending at the end of a concatenation.
LEMMA AppendLast ==
  ASSUME NEW S, NEW r \in Seq(S), NEW t \in Seq(S), NEW e \in S
  PROVE  r \o Append(t, e) = Append(r \o t, e)
<1>1. Append(t, e) = t \o <<e>> /\ <<e>> \in Seq(S)
  BY AppendIsConcat
<1>2. r \o t \in Seq(S)
  BY ConcatProperties
<1>3. Append(r \o t, e) = (r \o t) \o <<e>>
  BY <1>2, AppendIsConcat
<1> QED
  BY <1>1, <1>3, ConcatAssociative

\* Where the brackets are does not matter.
LEMMA Assoc ==
  \A r, s, t \in Seq(Frame) : (r \o s) \o t = r \o (s \o t)
BY ConcatAssociative

\* Counting one further.
LEMMA CountOn ==
  ASSUME NEW n \in Nat, n < MaxRequests
  PROVE  Append([i \in 1..n |-> i], n + 1) = [i \in 1..n + 1 |-> i]
OBVIOUS

\* What the worker holds is the next request after those with a result.
LEMMA HandIs ==
  ASSUME TypeOK, ResultsInOrder, Len(hand) = 1
  PROVE  hand[1] = Len(drained) + Len(result_queue) + 1
<1> DEFINE before == drained \o result_queue
           after  == hand \o request_queue
           count  == [i \in 1..asked |-> i]
<1>1. /\ before \in Seq(Frame) /\ Len(before) = Len(drained) + Len(result_queue)
      /\ after \in Seq(Frame) /\ Len(after) = 1 + Len(request_queue) /\ after[1] = hand[1]
      /\ Len(drained) \in Nat /\ Len(result_queue) \in Nat /\ Len(request_queue) \in Nat
  <2>1. /\ drained \in Seq(Frame) /\ result_queue \in Seq(Frame)
        /\ hand \in Seq(Frame) /\ request_queue \in Seq(Frame)
    BY Typed
  <2>2. /\ before \in Seq(Frame) /\ Len(before) = Len(drained) + Len(result_queue)
        /\ Len(drained) \in Nat /\ Len(result_queue) \in Nat
    BY <2>1, ConcatProperties, LenProperties
  <2>3. /\ after \in Seq(Frame) /\ Len(after) = 1 + Len(request_queue) /\ Len(request_queue) \in Nat
        /\ \A i \in 1..Len(hand) + Len(request_queue) :
             after[i] = IF i <= Len(hand) THEN hand[i] ELSE request_queue[i - Len(hand)]
    BY <2>1, ConcatProperties, LenProperties
  <2> HIDE DEF before, after
  <2>4. 1 \in 1..Len(hand) + Len(request_queue) /\ 1 <= Len(hand)
    BY <2>3
  <2>5. after[1] = hand[1]
    BY <2>3, <2>4
  <2> QED
    BY <2>2, <2>3, <2>5
<1>2. before \o after = count
  BY DEF ResultsInOrder, Outstanding
<1> HIDE DEF before, after
<1>3. /\ Len(before \o after) = Len(before) + Len(after)
      /\ (before \o after)[Len(before) + 1] = after[1]
  <2>1. /\ Len(before \o after) = Len(before) + Len(after)
        /\ \A i \in 1..Len(before) + Len(after) :
             (before \o after)[i] = IF i <= Len(before) THEN before[i] ELSE after[i - Len(before)]
    <3>1. before \in Seq(Frame) /\ after \in Seq(Frame)
      BY <1>1
    <3> QED
      BY <3>1, ConcatProperties
  <2>2. Len(before) + 1 \in 1..Len(before) + Len(after) /\ ~(Len(before) + 1 <= Len(before))
        /\ Len(before) + 1 - Len(before) = 1
    BY <1>1
  <2> QED
    BY <2>1, <2>2
<1>4. asked \in Nat /\ Len(count) = asked
  BY ClientAssumption DEF TypeOK
<1>5. count[Len(before) + 1] = Len(before) + 1
  <2>1. Len(before) + 1 \in 1..asked
    BY <1>1, <1>2, <1>3, <1>4
  <2> QED
    BY <2>1
<1> QED
  BY <1>1, <1>2, <1>3, <1>5

\* The types of the socket's part of the state.
LEMMA ServiceTyped ==
  TypeOK => /\ client[Me] \in {"idle", "waiting"} /\ sent[Me] \in 0..MaxRequests
            /\ fromFront[Me] \in Seq([from : {Me}, n : Frame]) /\ lost \subseteq {Me}
BY DEF TypeOK

-----------------------------------------------------------------------------
LEMMA InitInv == Init => IndInv
<1> SUFFICES ASSUME Init PROVE IndInv
  OBVIOUS
<1>1. <<>> \in Seq(Frame) /\ Len(<<>>) = 0 /\ <<>> \o <<>> = <<>>
  BY EmptySeq, ConcatEmptySeq
<1>2. client = [c \in {Me} |-> "idle"] /\ sent = [c \in {Me} |-> 0]
      /\ fromFront = [c \in {Me} |-> <<>>] /\ lost = {}
  BY DEF Init, Service!Init
<1>3. TypeOK
  <2>1. 0 \in 0..MaxRequests
    BY ClientAssumption
  <2>2. <<>> \in Seq([from : {Me}, n : Frame])
    BY EmptySeq
  <2> QED
    BY <1>1, <1>2, <2>1, <2>2 DEF Init, TypeOK
<1>4. ResultsInOrder
  BY <1>1 DEF Init, ResultsInOrder, Outstanding
<1>5. ExchangeGood /\ LostGood /\ SentGood
  BY <1>1, <1>2 DEF Init, ExchangeGood, LostGood, SentGood
<1> QED
  BY <1>3, <1>4, <1>5 DEF IndInv, Init, BusyGood, HandGood, SlipsGood, RequestCounted, CameraNeverBlocks

\* The steps of the camera thread and its results.
LEMMA CameraInv == ASSUME IndInv, CameraStep PROVE IndInv'
<1> USE DEF IndInv
<1>1. CASE CheckBusy
  BY <1>1, ClientAssumption DEF CheckBusy, MayRequest, TypeOK, BusyGood, HandGood, ExchangeGood, LostGood,
     SentGood, SlipsGood, RequestCounted, CameraNeverBlocks, ResultsInOrder, Outstanding,
     workerVars, queueVars, serviceVars
<1>2. CASE RequestFrame
  <2>1. asked \in Nat /\ asked < MaxRequests /\ asked + 1 \in Frame
    BY <1>2, ClientAssumption DEF RequestFrame, RequestCounted, TypeOK, Frame
  <2>2. request_queue' \in Seq(Frame)
    BY <1>2, <2>1, Typed, AppendProperties DEF RequestFrame
  <2>3. TypeOK'
    BY <1>2, <2>1, <2>2, ClientAssumption DEF RequestFrame, TypeOK, SlipsGood, workerVars, serviceVars
  <2>4. ResultsInOrder'
    <3> DEFINE before == drained \o result_queue
               after  == hand \o request_queue
    <3>1. before \in Seq(Frame) /\ after \in Seq(Frame)
      BY Typed, ConcatProperties
    <3>2. hand \o Append(request_queue, asked + 1) = Append(after, asked + 1)
      BY <2>1, Typed, AppendLast
    <3> HIDE DEF before, after
    <3>3. before \o Append(after, asked + 1) = Append(before \o after, asked + 1)
      BY <2>1, <3>1, AppendLast
    <3>4. before \o after = [i \in 1..asked |-> i]
      BY DEF ResultsInOrder, Outstanding, before, after
    <3>5. before \o (hand \o Append(request_queue, asked + 1)) = [i \in 1..asked + 1 |-> i]
      BY <2>1, <3>2, <3>3, <3>4, CountOn, Zenon
    <3> QED
      BY <1>2, <3>5 DEF RequestFrame, ResultsInOrder, Outstanding, workerVars, before
  <2> QED
    BY <1>2, <2>1, <2>3, <2>4 DEF RequestFrame, BusyGood, HandGood, ExchangeGood, LostGood, SentGood,
       SlipsGood, RequestCounted, CameraNeverBlocks, workerVars, serviceVars
<1>3. CASE CheckSize
  BY <1>3, Typed, EmptySeq DEF CheckSize, HasResult, TypeOK, BusyGood, HandGood, ExchangeGood, LostGood,
     SentGood, SlipsGood, RequestCounted, CameraNeverBlocks, ResultsInOrder, Outstanding,
     workerVars, queueVars, serviceVars
<1>4. CASE PopResult
  <2>1. /\ Head(result_queue) \in Frame /\ <<Head(result_queue)>> \in Seq(Frame)
        /\ Tail(result_queue) \in Seq(Frame)
        /\ <<Head(result_queue)>> \o Tail(result_queue) = result_queue
    BY <1>4, Typed, Cut DEF PopResult
  <2>2. Append(drained, Head(result_queue)) = drained \o <<Head(result_queue)>>
    BY <2>1, Typed, AppendIsConcat
  <2>3. /\ drained' \in Seq(Frame) /\ result_queue' \in Seq(Frame)
        /\ Len(drained') = Len(drained) + 1 /\ Len(result_queue') = Len(result_queue) - 1
    BY <1>4, <2>1, Typed, AppendProperties, HeadTailProperties DEF PopResult
  <2>4. drained' \o result_queue' = drained \o result_queue
    <3>1. (drained \o <<Head(result_queue)>>) \o Tail(result_queue)
            = drained \o (<<Head(result_queue)>> \o Tail(result_queue))
      <4>1. drained \in Seq(Frame)
        BY Typed
      <4> QED
        BY <2>1, <4>1, Assoc, Zenon
    <3> QED
      BY <1>4, <2>1, <2>2, <3>1 DEF PopResult
  <2>5. TypeOK'
    BY <1>4, <2>3 DEF PopResult, TypeOK, workerVars, serviceVars
  <2>6. SentGood'
    <3>1. Len(drained) \in Nat /\ Len(result_queue) \in Nat
      BY Typed, LenProperties
    <3> QED
      BY <1>4, <2>3, <3>1 DEF PopResult, SentGood, workerVars, serviceVars
  <2> QED
    BY <1>4, <2>4, <2>5, <2>6 DEF PopResult, BusyGood, HandGood, ExchangeGood, LostGood, SlipsGood,
       RequestCounted, CameraNeverBlocks, ResultsInOrder, Outstanding, workerVars, serviceVars
<1> QED
  BY <1>1, <1>2, <1>3, <1>4 DEF CameraStep

\* The steps of the worker thread.
LEMMA WorkerInv == ASSUME IndInv, WorkerStep PROVE IndInv'
<1> USE DEF IndInv
<1>1. CASE PopRequest
  <2>1. hand = <<>>
    BY <1>1 DEF PopRequest, TypeOK
  <2>2. /\ Head(request_queue) \in Frame /\ hand' \in Seq(Frame)
        /\ request_queue' \in Seq(Frame) /\ hand' \o request_queue' = request_queue
    BY <1>1, Typed, Cut DEF PopRequest
  <2>3. hand' # <<>> /\ Len(hand') = 1
    BY <1>1, <2>2, EmptySeq DEF PopRequest
  <2>4. TypeOK'
    BY <1>1, <2>2, <2>3 DEF PopRequest, TypeOK, serviceVars, cameraVars
  <2>5. ResultsInOrder'
    BY <1>1, <2>1, <2>2, Typed, ConcatEmptySeq DEF PopRequest, ResultsInOrder, Outstanding, cameraVars
  <2> QED
    BY <1>1, <2>3, <2>4, <2>5 DEF PopRequest, BusyGood, HandGood, ExchangeGood, LostGood, SentGood,
       SlipsGood, RequestCounted, CameraNeverBlocks, serviceVars, cameraVars
<1>2. CASE MarkBusy
  <2>1. TypeOK'
    BY <1>2, ClientAssumption DEF MarkBusy, BusyAfterMark, TypeOK, queueVars, serviceVars
  <2> QED
    BY <1>2, <2>1 DEF MarkBusy, BusyAfterMark, BusyGood, HandGood, ExchangeGood, LostGood, SentGood,
       SlipsGood, RequestCounted, CameraNeverBlocks, ResultsInOrder, Outstanding, queueVars, serviceVars
<1>3. CASE Send
  <2>1. /\ client[Me] = "idle" /\ sent[Me] < MaxRequests
        /\ client' = [client EXCEPT ![Me] = "waiting"]
        /\ sent' = [sent EXCEPT ![Me] = sent[Me] + 1]
        /\ fromFront' = fromFront /\ lost' = lost
    BY <1>3 DEF Send, Service!Ask
  <2>2. hand \in Seq(Frame) /\ Len(hand) = 1 /\ sent[Me] \in Nat /\ hand # <<>>
    BY <1>3, Typed, ServiceTyped DEF Send, TypeOK, HandGood
  <2>3. client'[Me] = "waiting" /\ sent'[Me] = sent[Me] + 1
    BY <2>1 DEF TypeOK
  <2>4. hand = <<sent'[Me]>>
    <3>1. hand[1] = sent'[Me]
      BY <1>3, <2>2, <2>3, HandIs DEF Send, SentGood
    <3>2. hand = <<hand[1]>>
      BY <2>2, Single
    <3> QED
      BY <3>1, <3>2
  <2>5. TypeOK'
    <3>1. client' \in [{Me} -> {"idle", "waiting"}] /\ sent' \in [{Me} -> 0..MaxRequests]
      BY <2>1, <2>2, ClientAssumption DEF TypeOK
    <3> QED
      BY <1>3, <2>1, <2>2, <3>1 DEF Send, TypeOK, queueVars, cameraVars
  <2>6. fromFront[Me] = <<>> /\ Me \notin lost
    BY <1>3 DEF Send, ExchangeGood, LostGood
  <2>7. SentGood'
    <3>1. Len(drained) \in Nat /\ Len(result_queue) \in Nat
      BY Typed, LenProperties
    <3> QED
      BY <1>3, <2>2, <2>3, <3>1 DEF Send, SentGood, queueVars, cameraVars
  <2>8. ExchangeGood' /\ LostGood'
    BY <1>3, <2>1, <2>3, <2>4, <2>6 DEF Send, ExchangeGood, LostGood
  <2> QED
    BY <1>3, <2>5, <2>7, <2>8 DEF Send, BusyGood, HandGood, SlipsGood, RequestCounted,
       CameraNeverBlocks, ResultsInOrder, Outstanding, queueVars, cameraVars
<1>4. CASE Recv
  <2>1. /\ fromFront[Me] # <<>>
        /\ client' = [client EXCEPT ![Me] = "idle"]
        /\ fromFront' = [fromFront EXCEPT ![Me] = <<>>]
        /\ sent' = sent /\ lost' = lost
    BY <1>4 DEF Recv, Service!Take
  <2>2. hand = <<sent[Me]>> /\ fromFront[Me] = <<[from |-> Me, n |-> sent[Me]]>> /\ Me \notin lost
    BY <1>4, <2>1 DEF Recv, ExchangeGood
  <2>3. hand' = hand
    BY <1>4, <2>2 DEF Recv
  <2>4. client'[Me] = "idle" /\ fromFront'[Me] = <<>>
    BY <2>1 DEF TypeOK
  <2>5. TypeOK'
    <3>1. client' \in [{Me} -> {"idle", "waiting"}]
      BY <2>1 DEF TypeOK
    <3>2. fromFront' \in [{Me} -> Seq([from : {Me}, n : Frame])]
      <4>1. <<>> \in Seq([from : {Me}, n : Frame])
        BY EmptySeq
      <4> QED
        BY <2>1, <4>1 DEF TypeOK
    <3> QED
      BY <1>4, <2>1, <2>3, <3>1, <3>2 DEF Recv, TypeOK, queueVars, cameraVars
  <2>6. SentGood'
    BY <1>4, <2>1 DEF Recv, SentGood, queueVars, cameraVars
  <2>7. ExchangeGood' /\ LostGood'
    BY <1>4, <2>1, <2>2, <2>4 DEF Recv, ExchangeGood, LostGood
  <2> QED
    BY <1>4, <2>3, <2>5, <2>6, <2>7 DEF Recv, BusyGood, HandGood, SlipsGood, RequestCounted,
       CameraNeverBlocks, ResultsInOrder, Outstanding, queueVars, cameraVars
<1>5. CASE PushResult
  <2>1. hand' = <<>> /\ result_queue' = result_queue \o hand
    BY <1>5 DEF PushResult, HandAfterPush, Results
  <2>2. result_queue' \in Seq(Frame) /\ hand' \in Seq(Frame)
    BY <2>1, Typed, ConcatProperties, EmptySeq
  <2>3. TypeOK'
    BY <1>5, <2>1, <2>2 DEF PushResult, TypeOK, serviceVars, cameraVars
  <2>4. ResultsInOrder'
    <3>1. drained \o result_queue \in Seq(Frame)
      BY Typed, ConcatProperties
    <3>4. drained \o (result_queue \o hand) = (drained \o result_queue) \o hand
      <4>1. drained \in Seq(Frame) /\ result_queue \in Seq(Frame) /\ hand \in Seq(Frame)
        BY Typed
      <4> QED
        BY <4>1, Assoc, Zenon
    <3>2. <<>> \o request_queue = request_queue
      BY Typed, ConcatEmptySeq
    <3>3. ((drained \o result_queue) \o hand) \o request_queue
            = (drained \o result_queue) \o (hand \o request_queue)
      BY <3>1, Typed, Assoc
    <3> QED
      BY <1>5, <2>1, <3>2, <3>3, <3>4 DEF PushResult, ResultsInOrder, Outstanding, cameraVars
  <2>5. CameraNeverBlocks'
    BY <1>5, <2>1, Typed, ConcatEqualIffEmpty DEF PushResult, CameraNeverBlocks, cameraVars
  <2>6. SentGood'
    <3>1. /\ Len(result_queue') = Len(result_queue) + 1
          /\ Len(drained) \in Nat /\ Len(result_queue) \in Nat
      <4>1. Len(hand) = 1
        BY <1>5 DEF PushResult, TypeOK, HandGood
      <4> QED
        <5>1. drained \in Seq(Frame) /\ result_queue \in Seq(Frame) /\ hand \in Seq(Frame)
          BY Typed
        <5>2. Len(result_queue \o hand) = Len(result_queue) + Len(hand)
          BY <5>1, ConcatProperties
        <5> QED
          BY <2>1, <4>1, <5>1, <5>2, LenProperties
    <3> QED
      BY <1>5, <3>1 DEF PushResult, SentGood, serviceVars, cameraVars
  <2> QED
    BY <1>5, <2>1, <2>3, <2>4, <2>5, <2>6 DEF PushResult, BusyGood, HandGood, ExchangeGood, LostGood,
       SlipsGood, RequestCounted, serviceVars, cameraVars
<1>6. CASE ClearBusy
  BY <1>6 DEF ClearBusy, TypeOK, BusyGood, HandGood, ExchangeGood, LostGood, SentGood, SlipsGood,
     RequestCounted, CameraNeverBlocks, ResultsInOrder, Outstanding, queueVars, serviceVars, cameraVars
<1> QED
  BY <1>1, <1>2, <1>3, <1>4, <1>5, <1>6 DEF WorkerStep

\* The steps of the server.
LEMMA ServerInv == ASSUME IndInv, ServerAnswer \/ ServerCrash PROVE IndInv'
<1> USE DEF IndInv
<1>1. CASE ServerAnswer
  <2>1. /\ client[Me] = "waiting" /\ Me \notin lost
        /\ fromFront' = [fromFront EXCEPT ![Me] = <<[from |-> Me, n |-> sent[Me]]>>]
        /\ client' = client /\ sent' = sent /\ lost' = lost
    BY <1>1 DEF ServerAnswer, Service!Answer
  <2>2. worker = "recv" /\ hand = <<sent[Me]>>
    BY <2>1 DEF ExchangeGood
  <2>3. sent[Me] \in Frame
    <3>1. hand \in Seq(Frame) /\ hand # <<>>
      BY <2>2, Typed DEF TypeOK
    <3> QED
      BY <2>2, <3>1, Cut
  <2>4. fromFront'[Me] = <<[from |-> Me, n |-> sent[Me]]>>
    BY <2>1 DEF TypeOK
  <2>5. TypeOK'
    <3>1. fromFront' \in [{Me} -> Seq([from : {Me}, n : Frame])]
      BY <2>1, <2>3 DEF TypeOK
    <3> QED
      BY <1>1, <2>1, <3>1 DEF ServerAnswer, TypeOK, workerVars, queueVars, cameraVars
  <2>6. ExchangeGood' /\ LostGood'
    BY <1>1, <2>1, <2>2, <2>4 DEF ServerAnswer, ExchangeGood, LostGood, workerVars
  <2> QED
    BY <1>1, <2>1, <2>5, <2>6 DEF ServerAnswer, BusyGood, HandGood, SentGood, SlipsGood, RequestCounted,
       CameraNeverBlocks, ResultsInOrder, Outstanding, workerVars, queueVars, cameraVars
<1>2. CASE ServerCrash
  <2>1. /\ client[Me] = "waiting" /\ lost' = lost \cup {Me}
        /\ fromFront' = [c \in {Me} |-> IF c \in {Me} THEN <<>> ELSE fromFront[c]]
        /\ client' = client /\ sent' = sent
    BY <1>2 DEF ServerCrash, Service!Lose
  <2>2. fromFront'[Me] = <<>>
    BY <2>1
  <2>3. TypeOK'
    <3>1. <<>> \in Seq([from : {Me}, n : Frame])
      BY EmptySeq
    <3>2. fromFront' \in [{Me} -> Seq([from : {Me}, n : Frame])]
      BY <2>1, <3>1
    <3> QED
      BY <1>2, <2>1, <3>2 DEF ServerCrash, TypeOK, workerVars, queueVars, cameraVars
  <2>4. ExchangeGood' /\ LostGood'
    BY <1>2, <2>1, <2>2 DEF ServerCrash, ExchangeGood, LostGood, workerVars
  <2> QED
    BY <1>2, <2>1, <2>3, <2>4 DEF ServerCrash, BusyGood, HandGood, SentGood, SlipsGood, RequestCounted,
       CameraNeverBlocks, ResultsInOrder, Outstanding, workerVars, queueVars, cameraVars
<1> QED
  BY <1>1, <1>2

LEMMA NextInv == IndInv /\ [Next]_vars => IndInv'
<1>1. ASSUME IndInv, UNCHANGED vars PROVE IndInv'
  BY <1>1 DEF IndInv, vars, TypeOK, BusyGood, HandGood, ExchangeGood, LostGood, SentGood, SlipsGood,
     RequestCounted, CameraNeverBlocks, ResultsInOrder, Outstanding,
     workerVars, queueVars, serviceVars, cameraVars
<1> QED
  BY <1>1, CameraInv, WorkerInv, ServerInv DEF Next

LEMMA Invariance == SafeSpec => []IndInv
BY InitInv, NextInv, PTL DEF SafeSpec

-----------------------------------------------------------------------------
(***************************************************************************)
(* The types, with the scope of the worker's locals.                       *)
(***************************************************************************)
THEOREM Typing == SafeSpec => []TypeOK
BY Invariance, PTL DEF IndInv

(***************************************************************************)
(* Between the two threads no request or result is lost, duplicated or     *)
(* reordered, however often the server crashes.                            *)
(***************************************************************************)
THEOREM OrderIsKept == SafeSpec => []ResultsInOrder
BY Invariance, PTL DEF IndInv

(***************************************************************************)
(* pop() on the result queue never blocks the camera thread.               *)
(***************************************************************************)
THEOREM CameraDoesNotBlock == SafeSpec => []CameraNeverBlocks
BY Invariance, PTL DEF IndInv

(***************************************************************************)
(* A request is with the server exactly while the worker is in recv, it is *)
(* the one in hand, and busy is true then.                                 *)
(***************************************************************************)
THEOREM FlagCoversExchange == SafeSpec => []ExchangeIsCovered
<1>1. IndInv => ExchangeIsCovered
  BY DEF IndInv, ExchangeGood, BusyGood, ExchangeIsCovered
<1> QED
  BY <1>1, Invariance, PTL

(***************************************************************************)
(* After the worker has set busy one frame more, at most, is requested     *)
(* until it clears it.                                                     *)
(***************************************************************************)
THEOREM OneSlips == SafeSpec => []AtMostOneSlips
<1>1. IndInv => AtMostOneSlips
  BY DEF IndInv, SlipsGood, AtMostOneSlips
<1> QED
  BY <1>1, Invariance, PTL

(***************************************************************************)
(* An exchange lost in a crash is never made up for: the client is busy in *)
(* recv for ever after, whatever the server does, and asks for nothing     *)
(* but a frame it was already asking for.                                  *)
(***************************************************************************)
THEOREM LossIsFinal == SafeSpec => LossIsForever
<1>1. IndInv /\ Me \in lost => busy /\ worker = "recv"
  BY DEF IndInv, LostGood, BusyGood
<1>2. Me \in lost /\ [Next]_vars => (Me \in lost)'
  BY DEF Next, CameraStep, CheckBusy, RequestFrame, CheckSize, PopResult, WorkerStep, PopRequest,
     MarkBusy, Send, Recv, PushResult, ClearBusy, ServerAnswer, ServerCrash, Service!Ask, Service!Take,
     Service!Answer, Service!Lose, vars, serviceVars
<1>3. IndInv /\ Me \in lost /\ camera # "request" /\ [Next]_vars => (camera # "request")'
  BY <1>1 DEF Next, CameraStep, CheckBusy, MayRequest, RequestFrame, CheckSize, PopResult, WorkerStep,
     PopRequest, MarkBusy, Send, Recv, PushResult, ClearBusy, ServerAnswer, ServerCrash, vars, cameraVars
<1>4. SafeSpec => [](Me \in lost => [](busy /\ worker = "recv"))
  BY <1>1, <1>2, Invariance, PTL DEF SafeSpec
<1>5. SafeSpec => [](Me \in lost /\ camera # "request" => [](camera # "request"))
  BY <1>2, <1>3, Invariance, PTL DEF SafeSpec
<1> QED
  BY <1>4, <1>5 DEF LossIsForever

-----------------------------------------------------------------------------
(* What the order gives each of the two threads.                           *)

(***************************************************************************)
(* The worker never uses its socket out of turn: when it comes to send,    *)
(* the socket is idle and the request in hand is the one that follows      *)
(* those already sent (so the bound of the model never stops it).          *)
(***************************************************************************)
SendIsDue == worker = "send" => /\ client[Me] = "idle"
                                /\ sent[Me] < MaxRequests
                                /\ hand = <<sent[Me] + 1>>

\* HandIs counts the request in hand; SentGood counts those before it.
THEOREM WorkerIsNotRefused == SafeSpec => []SendIsDue
<1>1. IndInv => SendIsDue
  <2> SUFFICES ASSUME IndInv, worker = "send"
               PROVE  client[Me] = "idle" /\ sent[Me] < MaxRequests /\ hand = <<sent[Me] + 1>>
    BY DEF SendIsDue
  <2>1. client[Me] = "idle"
    BY ServiceTyped DEF IndInv, ExchangeGood
  <2>2. hand \in Seq(Frame) /\ Len(hand) = 1
    BY Typed DEF IndInv, TypeOK, HandGood
  <2>3. hand[1] \in Frame /\ hand = <<hand[1]>>
    BY <2>2, Single
  <2>4. hand[1] = sent[Me] + 1
    BY <2>2, HandIs DEF IndInv, SentGood
  <2>5. sent[Me] < MaxRequests
    BY <2>3, <2>4, ServiceTyped, ClientAssumption DEF IndInv, Frame
  <2> QED
    BY <2>1, <2>3, <2>4, <2>5
<1> QED
  BY <1>1, Invariance, PTL

(***************************************************************************)
(* What the camera thread takes are the results of its requests, the first *)
(* first and none left out; and when the worker is at rest and both queues *)
(* are empty it has taken them all.                                        *)
(***************************************************************************)
ShownInOrder ==
  /\ Len(drained) <= asked
  /\ \A i \in 1..Len(drained) : drained[i] = i
  /\ worker = "pop" /\ request_queue = <<>> /\ result_queue = <<>> => Len(drained) = asked

\* What was taken begins the count of the requests, and then is all of it.
THEOREM ResultsAreShown == SafeSpec => []ShownInOrder
<1>1. IndInv => ShownInOrder
  <2> SUFFICES ASSUME IndInv PROVE ShownInOrder
    OBVIOUS
  <2> DEFINE count == [i \in 1..asked |-> i]
             rest  == result_queue \o (hand \o request_queue)
  <2>1. /\ drained \in Seq(Frame) /\ result_queue \in Seq(Frame)
        /\ hand \in Seq(Frame) /\ request_queue \in Seq(Frame)
    BY Typed DEF IndInv
  <2>2. hand \o request_queue \in Seq(Frame) /\ rest \in Seq(Frame)
    BY <2>1, ConcatProperties
  <2>3. drained \o rest = count
    <3>1. (drained \o result_queue) \o (hand \o request_queue) = count
      BY DEF IndInv, ResultsInOrder, Outstanding
    <3> QED
      BY <2>1, <2>2, <3>1, Assoc
  <2>4. asked \in Nat /\ Len(count) = asked
    BY ClientAssumption DEF IndInv, TypeOK
  <2>5. worker = "pop" /\ request_queue = <<>> /\ result_queue = <<>> => rest = <<>>
    <3> SUFFICES ASSUME worker = "pop", request_queue = <<>>, result_queue = <<>>
                 PROVE  rest = <<>>
      OBVIOUS
    <3>1. hand = <<>>
      BY DEF IndInv, TypeOK
    <3> QED
      BY <3>1, ConcatEmptySeq, EmptySeq
  <2> HIDE DEF rest
  <2>6. /\ Len(drained \o rest) = Len(drained) + Len(rest)
        /\ Len(drained) \in Nat /\ Len(rest) \in Nat
        /\ \A i \in 1..Len(drained) + Len(rest) :
             (drained \o rest)[i] = IF i <= Len(drained) THEN drained[i] ELSE rest[i - Len(drained)]
    BY <2>1, <2>2, ConcatProperties, LenProperties
  <2>7. Len(drained) + Len(rest) = asked
    BY <2>3, <2>4, <2>6
  <2>8. \A i \in 1..Len(drained) : drained[i] = i
    <3> SUFFICES ASSUME NEW i \in 1..Len(drained) PROVE drained[i] = i
      OBVIOUS
    <3>1. i \in 1..Len(drained) + Len(rest) /\ i \in 1..asked /\ i <= Len(drained)
      BY <2>6, <2>7
    <3>2. (drained \o rest)[i] = drained[i] /\ count[i] = i
      BY <2>6, <3>1
    <3> QED
      BY <2>3, <3>2
  <2>9. rest = <<>> => Len(rest) = 0
    BY EmptySeq
  <2> QED
    BY <2>5, <2>6, <2>7, <2>8, <2>9 DEF ShownInOrder
<1> QED
  BY <1>1, Invariance, PTL
=============================================================================
