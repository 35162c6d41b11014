----------------------- MODULE DynamicBatching_proofs -----------------------
(***************************************************************************)
(* Proofs about DynamicBatching, for any clients, workers and limits.      *)
(***************************************************************************)
EXTENDS DynamicBatching, SequenceTheorems, FiniteSetTheorems, TLAPS

\* What is true of a batch among the workers.
Good(b) == /\ Registered(b)
           /\ b.id < batch_id
           /\ Len(b.bodies) >= 1
           /\ \A k \in 1..Len(b.bodies) : b.bodies[k].n = sent[b.bodies[k].from]

LanesGood == \A w \in Workers : \A i \in 1..Len(Lane[w]) : Good(Lane[w][i])

\* The batch being collected, and the requests not yet read.
QueueGood ==
  /\ message_queue # <<>> => Registered([id |-> batch_id, bodies |-> message_queue])
  /\ \A k \in 1..Len(message_queue) : message_queue[k].n = sent[message_queue[k].from]

PipesGood ==
  \A c \in Clients : toFront[c] # <<>> => toFront[c] = <<[from |-> c, n |-> sent[c]]>>

CoreInv == LanesGood /\ QueueGood /\ PipesGood /\ NoBatchLeaks /\ RepliesRouted /\ OneCopy

\* What the proxy has seen and not yet read is there.
ProxyInv ==
  /\ pc = "front" /\ revents.front => FrontReadable
  /\ pc \in {"front", "dispatch", "back"} /\ revents.back => BackReadable
  /\ pc = "forward" => reading \in Workers /\ fromWorker[reading] # <<>>

IndInv == TypeOK /\ CoreInv /\ ProxyInv

-----------------------------------------------------------------------------
(* Sequences.                                                              *)

LEMMA SingletonSeq ==
  ASSUME NEW S, NEW s \in Seq(S), s # <<>>, Len(s) <= 1
  PROVE  s[1] \in S /\ s = <<s[1]>>
<1>1. Len(s) \in Nat \ {0}
  BY EmptySeq
<1>2. Len(s) = 1 /\ s \in [1..1 -> S]
  BY <1>1, LenProperties
<1>3. s[1] \in S
  BY <1>2
<1>4. <<s[1]>> \in Seq(S) /\ Len(<<s[1]>>) = 1 /\ <<s[1]>>[1] = s[1]
  BY <1>3
<1>5. \A i \in 1..Len(s) : s[i] = <<s[1]>>[i]
  BY <1>2, <1>4
<1> QED
  BY <1>2, <1>3, <1>4, <1>5, SeqEqual

\* The lane is unchanged when its middle is filled from its end.
LEMMA ShiftIn ==
  ASSUME NEW S, NEW r \in Seq(S), NEW t \in Seq(S), t # <<>>
  PROVE  r \o <<Head(t)>> \o Tail(t) = r \o <<>> \o t
<1>1. Head(t) \in S /\ Tail(t) \in Seq(S)
  BY HeadTailProperties
<1>2. <<Head(t)>> \o Tail(t) = t
  BY <1>1, HeadTailProperties, ConcatProperties, SeqEqual
<1>3. <<Head(t)>> \in Seq(S)
  BY <1>1
<1>4. r \o <<Head(t)>> \o Tail(t) = r \o (<<Head(t)>> \o Tail(t))
  BY <1>1, <1>3, ConcatAssociative
<1>5. r \o <<>> = r
  BY ConcatEmptySeq
<1> QED
  BY <1>2, <1>4, <1>5

\* ... and when its middle is emptied into its beginning.
LEMMA ShiftOut ==
  ASSUME NEW S, NEW r \in Seq(S), NEW t \in Seq(S), NEW e \in S
  PROVE  Append(r, e) \o <<>> \o t = r \o <<e>> \o t
<1>1. Append(r, e) = r \o <<e>>
  BY AppendIsConcat
<1>2. Append(r, e) \in Seq(S)
  BY AppendProperties
<1>3. Append(r, e) \o <<>> = Append(r, e)
  BY <1>2, ConcatEmptySeq
<1> QED
  BY <1>1, <1>3

LEMMA AppendNotEmpty ==
  ASSUME NEW S, NEW s \in Seq(S), NEW e
  PROVE  Append(s, e) # <<>>
<1>1. s \in Seq(S \cup {e}) /\ e \in S \cup {e}
  BY SeqMonotonic
<1> QED
  BY <1>1, AppendProperties

LEMMA AppendToConcat ==
  ASSUME NEW S, NEW r \in Seq(S), NEW t \in Seq(S), NEW e \in S
  PROVE  r \o Append(t, e) = Append(r \o t, e)
<1>1. Append(t, e) = t \o <<e>> /\ <<e>> \in Seq(S)
  BY AppendIsConcat
<1>2. r \o t \in Seq(S)
  BY ConcatProperties
<1>3. Append(r \o t, e) = (r \o t) \o <<e>>
  BY <1>2, AppendIsConcat
<1> QED
  BY <1>1, <1>3, ConcatAssociative

\* A sequence that loses its head.
LEMMA TailOfConcat ==
  ASSUME NEW S, NEW r \in Seq(S), NEW t \in Seq(S), r # <<>>
  PROVE  /\ Tail(r) \o t \in Seq(S)
         /\ Len(Tail(r) \o t) = Len(r \o t) - 1
         /\ \A i \in 1..Len(Tail(r) \o t) : (Tail(r) \o t)[i] = (r \o t)[i + 1]
  BY HeadTailProperties, ConcatProperties, LenProperties

LEMMA HeadOfCut ==
  ASSUME NEW S, NEW r \in Seq(S), NEW t \in Seq(S), r # <<>>, NEW e \in S
  PROVE  /\ (<<e>> \o Tail(r)) \o t \in Seq(S)
         /\ Len((<<e>> \o Tail(r)) \o t) = Len(r \o t)
         /\ ((<<e>> \o Tail(r)) \o t)[1] = e
         /\ \A i \in 2..Len(r \o t) : ((<<e>> \o Tail(r)) \o t)[i] = (r \o t)[i]
<1>1. /\ Tail(r) \in Seq(S) /\ Len(Tail(r)) = Len(r) - 1
      /\ \A i \in 1..Len(Tail(r)) : Tail(r)[i] = r[i + 1]
  BY HeadTailProperties
<1>2. <<e>> \in Seq(S) /\ Len(<<e>>) = 1 /\ <<e>>[1] = e
  OBVIOUS
<1>3. Len(r) \in Nat /\ Len(t) \in Nat /\ Len(r) >= 1
  BY LenProperties, EmptySeq
<1> DEFINE a == <<e>> \o Tail(r)
<1>4. /\ a \in Seq(S) /\ Len(a) = Len(r) /\ a[1] = e
      /\ \A i \in 2..Len(r) : a[i] = r[i]
  BY <1>1, <1>2, <1>3, ConcatProperties
<1> HIDE DEF a
<1>5. /\ a \o t \in Seq(S) /\ Len(a \o t) = Len(r) + Len(t)
      /\ \A i \in 1..Len(r) + Len(t) : (a \o t)[i] = IF i <= Len(r) THEN a[i] ELSE t[i - Len(r)]
  <2>1. /\ a \o t \in Seq(S) /\ Len(a \o t) = Len(a) + Len(t)
        /\ \A i \in 1..Len(a) + Len(t) : (a \o t)[i] = IF i <= Len(a) THEN a[i] ELSE t[i - Len(a)]
    BY <1>4, ConcatProperties
  <2> QED
    BY <1>4, <2>1
<1>6. /\ Len(r \o t) = Len(r) + Len(t)
      /\ \A i \in 1..Len(r) + Len(t) : (r \o t)[i] = IF i <= Len(r) THEN r[i] ELSE t[i - Len(r)]
  BY ConcatProperties
<1>7. \A i \in 2..Len(r \o t) : (a \o t)[i] = (r \o t)[i]
  BY <1>3, <1>4, <1>5, <1>6
<1> QED
  BY <1>3, <1>4, <1>5, <1>6, <1>7 DEF a

LEMMA HeadOfConcat ==
  ASSUME NEW S, NEW r \in Seq(S), NEW t \in Seq(S), r # <<>>
  PROVE  /\ r \o t \in Seq(S)
         /\ r \o t # <<>>
         /\ Len(r \o t) >= 1
         /\ (r \o t)[1] = Head(r)
         /\ Head(r \o t) = Head(r)
<1>1. Len(r) \in Nat /\ Len(t) \in Nat /\ Len(r) >= 1
  BY LenProperties, EmptySeq
<1>2. r \o t \in Seq(S) /\ Len(r \o t) = Len(r) + Len(t) /\ (r \o t)[1] = r[1]
  BY <1>1, ConcatProperties
<1>3. r \o t # <<>>
  BY <1>1, <1>2, EmptySeq
<1> QED
  BY <1>1, <1>2, <1>3

-----------------------------------------------------------------------------
(* Types.                                                                  *)

\* Expands the type invariant of the lanes' three parts.
LEMMA LaneTyped == TypeOK => Lane \in [Workers -> Seq(Batch)]
<1> SUFFICES ASSUME TypeOK, NEW w \in Workers
             PROVE  fromWorker[w] \o job[w] \o toWorker[w] \in Seq(Batch)
  BY DEF Lane
<1>1. fromWorker[w] \in Seq(Batch) /\ job[w] \in Seq(Batch) /\ toWorker[w] \in Seq(Batch)
  BY DEF TypeOK
<1>2. fromWorker[w] \o job[w] \in Seq(Batch)
  BY <1>1, ConcatProperties
<1> QED
  BY <1>1, <1>2, ConcatProperties

\* The oldest batch of a lane is the head of the reply pipe, if it has one.
LEMMA LaneHead ==
  ASSUME TypeOK, NEW w \in Workers, fromWorker[w] # <<>>
  PROVE  /\ Len(Lane[w]) >= 1
         /\ Lane[w][1] = Head(fromWorker[w])
         /\ Lane[w][1] \in Batch
<1>1. fromWorker[w] \in Seq(Batch) /\ job[w] \in Seq(Batch) /\ toWorker[w] \in Seq(Batch)
  BY DEF TypeOK
<1>2. /\ fromWorker[w] \o job[w] \in Seq(Batch)
      /\ fromWorker[w] \o job[w] # <<>>
      /\ Head(fromWorker[w] \o job[w]) = Head(fromWorker[w])
  BY <1>1, HeadOfConcat
<1>3. /\ (fromWorker[w] \o job[w]) \o toWorker[w] \in Seq(Batch)
      /\ Len((fromWorker[w] \o job[w]) \o toWorker[w]) >= 1
      /\ ((fromWorker[w] \o job[w]) \o toWorker[w])[1] = Head(fromWorker[w] \o job[w])
  BY <1>1, <1>2, HeadOfConcat
<1>4. Head(fromWorker[w]) \in Batch
  BY <1>1, HeadTailProperties
<1> QED
  BY <1>2, <1>3, <1>4 DEF Lane

\* The reply the proxy forwards has an address for each of its parts.
LEMMA ReadingGood ==
  ASSUME IndInv, pc = "forward"
  PROVE  LET reply == Head(fromWorker[reading]) IN
           /\ reading \in Workers
           /\ fromWorker[reading] \in Seq(Batch)
           /\ fromWorker[reading] # <<>>
           /\ reply \in Batch
           /\ Good(reply)
<1>1. reading \in Workers /\ fromWorker[reading] # <<>>
  BY DEF IndInv, ProxyInv
<1>2. TypeOK
  BY DEF IndInv
<1>3. fromWorker[reading] \in Seq(Batch)
  BY <1>1, <1>2 DEF TypeOK
<1>4. /\ Len(Lane[reading]) >= 1
      /\ Lane[reading][1] = Head(fromWorker[reading])
      /\ Lane[reading][1] \in Batch
  BY <1>1, <1>2, LaneHead
<1>5. Lane[reading] \in Seq(Batch)
  BY <1>1, <1>2, LaneTyped
<1>6. 1 \in 1..Len(Lane[reading])
  BY <1>4, <1>5
<1>7. Good(Lane[reading][1])
  BY <1>1, <1>6 DEF IndInv, CoreInv, LanesGood
<1> QED
  BY <1>1, <1>3, <1>4, <1>7

\* The process starts anew; a pipe is as it was, or empty.
LEMMA CrashTyped == ASSUME TypeOK, ServerCrash PROVE TypeOK'
<1> USE BoundAssumption
<1>1. \A S : <<>> \in Seq(S)
  BY EmptySeq
<1>2. /\ toFront' \in [Clients -> Seq(Request)] /\ fromFront' \in [Clients -> Seq(Request)]
      /\ lost' \subseteq Clients
  BY <1>1 DEF ServerCrash, TypeOK
<1>3. crashes' \in 0..MaxCrashes
  BY DEF ServerCrash, TypeOK
<1>4. /\ pc' = "poll" /\ revents' = [front |-> FALSE, back |-> FALSE] /\ reading' = "none"
      /\ age' \in -MaxLatency..MaxLatency /\ ring' = <<>> /\ turn' \in 1..1
      /\ UNCHANGED <<client, sent, clockSteps>>
  BY DEF ServerCrash
<1>5. /\ batch_id' \in Nat /\ DOMAIN batches' = {} /\ DOMAIN batches' \subseteq 0..batch_id'
      /\ batches' \in [DOMAIN batches' -> Seq(Clients)] /\ message_queue' \in Seq(Request)
  BY <1>1 DEF ServerCrash
<1>6. /\ worker' \in [Workers -> {"starting", "loading", "serving"}]
      /\ toWorker' \in [Workers -> Seq(Batch)] /\ fromWorker' \in [Workers -> Seq(Batch)]
      /\ job' \in [Workers -> Seq(Batch)] /\ \A w \in Workers : Len(job'[w]) <= 1
  BY <1>1 DEF ServerCrash
<1> QED
  BY <1>1, <1>2, <1>3, <1>4, <1>5, <1>6 DEF TypeOK

\* Every step keeps the types; Forward needs the invariant for its operands.
LEMMA TypeStep == IndInv /\ [Next]_vars => TypeOK'
<1> SUFFICES ASSUME IndInv, [Next]_vars PROVE TypeOK'
  OBVIOUS
<1> USE BatchAssumption, BoundAssumption
    DEF clientVars, frontVars, batchVars, clockVars, faultVars, ringVars, workerVars
<1>0. TypeOK
  BY DEF IndInv
<1>e. \A S : <<>> \in Seq(S)
  BY EmptySeq
<1>1. ASSUME NEW c \in Clients, ClientSend(c) PROVE TypeOK'
  <2>a. sent[c] \in 0..MaxRequests /\ sent[c] < MaxRequests
    BY <1>0, <1>1 DEF ClientSend, TypeOK
  <2>b. sent[c] + 1 \in 1..MaxRequests
    BY <2>a
  <2>1. [from |-> c, n |-> sent[c] + 1] \in Request /\ sent[c] + 1 \in 0..MaxRequests
    BY <2>b DEF Request
  <2>2. Append(toFront[c], [from |-> c, n |-> sent[c] + 1]) \in Seq(Request)
    BY <1>0, <2>1, AppendProperties DEF TypeOK
  <2>3. toFront' \in [Clients -> Seq(Request)]
    BY <1>0, <1>1, <2>2 DEF ClientSend, TypeOK
  <2> QED
    BY <1>0, <1>1, <2>1, <2>3 DEF ClientSend, TypeOK
<1>2. ASSUME NEW c \in Clients, ClientReceive(c) PROVE TypeOK'
  <2>1. Tail(fromFront[c]) \in Seq(Request)
    BY <1>0, <1>2, HeadTailProperties DEF ClientReceive, TypeOK
  <2> QED
    BY <1>0, <1>2, <2>1 DEF ClientReceive, TypeOK
<1>3. ASSUME NEW c \in Clients, ClientExit(c) PROVE TypeOK'
  BY <1>0, <1>3, <1>e DEF ClientExit, TypeOK
<1>4. CASE Poll
  BY <1>0, <1>4 DEF Poll, Polled, FrontReadable, BackReadable, TypeOK
<1>5. CASE FrontSkip
  BY <1>0, <1>5 DEF FrontSkip, TypeOK
<1>6. ASSUME NEW c \in Clients, FrontRecv(c) PROVE TypeOK'
  <2>1. /\ Tail(toFront[c]) \in Seq(Request)
        /\ Append(message_queue, Head(toFront[c])) \in Seq(Request)
    BY <1>0, <1>6, HeadTailProperties, AppendProperties DEF FrontRecv, TypeOK
  <2>2. /\ DOMAIN batches' = DOMAIN batches \cup {batch_id}
        /\ batches' \in [DOMAIN batches' -> Seq(Clients)]
    <3>1. ASSUME NEW i \in DOMAIN batches PROVE Append(batches[i], c) \in Seq(Clients)
      BY <1>0, AppendProperties DEF TypeOK
    <3>2. <<c>> \in Seq(Clients)
      OBVIOUS
    <3> QED
      BY <1>0, <1>6, <3>1, <3>2 DEF FrontRecv, BookAddress, TypeOK
  <2>3. age' \in -MaxLatency..MaxLatency
    BY <1>0, <1>6 DEF FrontRecv, TypeOK
  <2>4. DOMAIN batches' \subseteq 0..batch_id'
    <3>1. batch_id \in Nat /\ DOMAIN batches \subseteq 0..batch_id /\ batch_id' = batch_id
      BY <1>0, <1>6 DEF FrontRecv, TypeOK
    <3>2. batch_id \in 0..batch_id
      BY <3>1
    <3> QED
      BY <2>2, <3>1, <3>2
  <2> QED
    BY <1>0, <1>6, <2>1, <2>2, <2>3, <2>4 DEF FrontRecv, TypeOK
<1>7. CASE Dispatch
  <2>1. ring \in Seq(Workers) /\ ring # <<>> /\ turn \in 1..Len(ring) /\ Len(ring) \in Nat
    BY <1>0, <1>7, LenProperties DEF Dispatch, TypeOK
  <2>2. ring[turn] \in Workers
    BY <2>1, ElementOfSeq
  <2>3. [id |-> batch_id, bodies |-> message_queue] \in Batch
    BY <1>0 DEF TypeOK, Batch
  <2>4. Append(toWorker[ring[turn]], [id |-> batch_id, bodies |-> message_queue]) \in Seq(Batch)
    BY <1>0, <2>2, <2>3, AppendProperties DEF TypeOK
  <2>5. toWorker' \in [Workers -> Seq(Batch)]
    BY <1>0, <1>7, <2>4 DEF Dispatch, TypeOK
  <2>6. turn' \in 1..(IF ring' = <<>> THEN 1 ELSE Len(ring'))
    BY <1>7, <2>1 DEF Dispatch, NextTurn
  <2>7. batch_id' \in Nat /\ DOMAIN batches' \subseteq 0..batch_id'
    <3>1. /\ batch_id \in Nat /\ DOMAIN batches \subseteq 0..batch_id
          /\ batch_id' = batch_id + 1 /\ batches' = batches
      BY <1>0, <1>7 DEF Dispatch, NextBatchId, TypeOK
    <3>2. 0..batch_id \subseteq 0..(batch_id + 1)
      BY <3>1
    <3> QED
      BY <3>1, <3>2
  <2> QED
    BY <1>0, <1>7, <1>e, <2>5, <2>6, <2>7 DEF Dispatch, TypeOK
<1>8. CASE NoDispatch
  BY <1>0, <1>8 DEF NoDispatch, TypeOK
<1>9. ASSUME NEW w \in Workers, BackRecv(w) PROVE TypeOK'
  BY <1>0, <1>9 DEF BackRecv, TypeOK
<1>10. CASE BackSkip
  BY <1>0, <1>10 DEF BackSkip, TypeOK
<1>11. CASE Forward
  <2> DEFINE reply == Head(fromWorker[reading])
             addrs == batches[reply.id]
             cut   == [reply EXCEPT !.bodies = Tail(@)]
             rest  == Tail(fromWorker[reading])
  <2>1. /\ reading \in Workers
        /\ fromWorker[reading] \in Seq(Batch) /\ fromWorker[reading] # <<>>
        /\ reply \in Batch /\ Good(reply)
    BY <1>11, ReadingGood DEF Forward
  <2>2. /\ reply.id \in DOMAIN batches
        /\ reply.bodies \in Seq(Request) /\ addrs \in Seq(Clients)
        /\ Len(addrs) = Len(reply.bodies) /\ Len(addrs) >= 1
    BY <1>0, <2>1 DEF Good, Registered, Batch, TypeOK
  <2>3. addrs # <<>> /\ reply.bodies # <<>>
    BY <2>2, EmptySeq
  <2>4. /\ Head(addrs) \in Clients /\ Tail(addrs) \in Seq(Clients)
        /\ Head(reply.bodies) \in Request /\ Tail(reply.bodies) \in Seq(Request)
        /\ rest \in Seq(Batch)
    BY <2>1, <2>2, <2>3, HeadTailProperties
  <2>5. Append(fromFront[Head(addrs)], Head(reply.bodies)) \in Seq(Request)
    BY <1>0, <2>4, AppendProperties DEF TypeOK
  <2>6. fromFront' \in [Clients -> Seq(Request)]
    BY <1>0, <1>11, <2>4, <2>5 DEF Forward, SendToClient, TypeOK
  <2>7. cut \in Batch
    BY <2>1, <2>4 DEF Batch
  <2>8. <<cut>> \o rest \in Seq(Batch)
    BY <2>4, <2>7, ConcatProperties
  <2>9. fromWorker' \in [Workers -> Seq(Batch)]
    BY <1>0, <1>11, <2>1, <2>4, <2>8 DEF Forward, TypeOK
  <2>10. /\ batches' \in [DOMAIN batches' -> Seq(Clients)]
         /\ DOMAIN batches' \subseteq DOMAIN batches
    <3>1. batches \in [DOMAIN batches -> Seq(Clients)]
      BY <1>0 DEF TypeOK
    <3>2. \/ batches' = [batches EXCEPT ![reply.id] = Tail(addrs)]
          \/ batches' = [i \in DOMAIN batches \ {reply.id} |-> batches[i]]
      BY <1>11 DEF Forward, EraseBatch
    <3>3. CASE batches' = [batches EXCEPT ![reply.id] = Tail(addrs)]
      BY <2>2, <2>4, <3>1, <3>3
    <3>4. CASE batches' = [i \in DOMAIN batches \ {reply.id} |-> batches[i]]
      BY <3>1, <3>4
    <3> QED
      BY <3>2, <3>3, <3>4
  <2>11. /\ pc' \in {"poll", "forward"} /\ reading' \in Workers \cup {"none"}
    BY <1>0, <1>11, <2>1 DEF Forward, TypeOK
  <2>12. UNCHANGED <<client, sent, lost, toFront, revents, batch_id, message_queue, age, clockSteps,
                     crashes, ring, turn, worker, toWorker, job>>
    BY <1>11 DEF Forward
  <2> QED
    BY <1>0, <2>6, <2>9, <2>10, <2>11, <2>12 DEF TypeOK
<1>12. ASSUME NEW w \in Workers, Connect(w) PROVE TypeOK'
  <2>1. Append(ring, w) \in Seq(Workers) /\ Len(Append(ring, w)) = Len(ring) + 1
        /\ Append(ring, w) # <<>> /\ Len(ring) \in Nat
    BY <1>0, AppendProperties, LenProperties DEF TypeOK
  <2>2. turn \in 1..Len(Append(ring, w))
    BY <1>0, <2>1, EmptySeq DEF TypeOK
  <2> QED
    BY <1>0, <1>12, <2>1, <2>2 DEF Connect, TypeOK
<1>13. ASSUME NEW w \in Workers, LoadModel(w) PROVE TypeOK'
  BY <1>0, <1>13 DEF LoadModel, TypeOK
<1>14. ASSUME NEW w \in Workers, ReceiveBatch(w) PROVE TypeOK'
  <2>1. Head(toWorker[w]) \in Batch /\ Tail(toWorker[w]) \in Seq(Batch)
    BY <1>0, <1>14, HeadTailProperties DEF ReceiveBatch, TypeOK
  <2>2. <<Head(toWorker[w])>> \in Seq(Batch)
    BY <2>1
  <2>3. \A v \in Workers : Len(job'[v]) <= 1
    <3>1. /\ job \in [Workers -> Seq(Batch)] /\ \A v \in Workers : Len(job[v]) <= 1
          /\ job' = [job EXCEPT ![w] = <<Head(toWorker[w])>>]
      BY <1>0, <1>14 DEF ReceiveBatch, TypeOK
    <3>2. Len(<<Head(toWorker[w])>>) <= 1
      OBVIOUS
    <3> QED
      BY <3>1, <3>2
  <2> QED
    BY <1>0, <1>14, <2>1, <2>2, <2>3 DEF ReceiveBatch, TypeOK
<1>15. ASSUME NEW w \in Workers, RunAndReply(w) PROVE TypeOK'
  <2>1. job[w][1] \in Batch
    BY <1>0, <1>15, HeadTailProperties DEF RunAndReply, TypeOK
  <2>2. Results(job[w][1].bodies) \in Seq(Request)
    BY <2>1, LenProperties DEF Results, Batch
  <2>3. [id |-> job[w][1].id, bodies |-> Results(job[w][1].bodies)] \in Batch
    BY <2>1, <2>2 DEF Batch
  <2>4. Append(fromWorker[w], [id |-> job[w][1].id, bodies |-> Results(job[w][1].bodies)])
          \in Seq(Batch)
    BY <1>0, <2>3, AppendProperties DEF TypeOK
  <2>5. Len(<<>>) <= 1
    OBVIOUS
  <2> QED
    BY <1>0, <1>15, <1>e, <2>4, <2>5 DEF RunAndReply, TypeOK
<1>16. CASE Tick
  <2>1. age \in -MaxLatency..MaxLatency /\ age < MaxLatency /\ age' = age + 1
    BY <1>0, <1>16 DEF Tick, TypeOK
  <2>2. age' \in -MaxLatency..MaxLatency
    BY <2>1
  <2> QED
    BY <1>0, <1>16, <2>2 DEF Tick, TypeOK
<1>17. CASE SetClockBack
  <2>1. age' \in -MaxLatency..MaxLatency
    BY <1>17 DEF SetClockBack
  <2>2. clockSteps \in 0..MaxClockSteps /\ clockSteps < MaxClockSteps /\ clockSteps' = clockSteps + 1
    BY <1>0, <1>17 DEF SetClockBack, TypeOK
  <2>3. clockSteps' \in 0..MaxClockSteps
    BY <2>2
  <2> QED
    BY <1>0, <1>17, <2>1, <2>3 DEF SetClockBack, TypeOK
<1>18. CASE ServerCrash
  BY <1>0, <1>18, CrashTyped
<1>19. CASE UNCHANGED vars
  BY <1>0, <1>19 DEF vars, TypeOK
<1> QED
  BY <1>1, <1>2, <1>3, <1>4, <1>5, <1>6, <1>7, <1>8, <1>9, <1>10, <1>11, <1>12, <1>13,
     <1>14, <1>15, <1>16, <1>17, <1>18, <1>19 DEF Next, ClientStep, ProxyStep, WorkerStep
-----------------------------------------------------------------------------
(* The lanes.                                                              *)

\* A worker that takes a batch only moves it along its lane.
LEMMA LaneReceive ==
  ASSUME TypeOK, NEW w \in Workers, ReceiveBatch(w)
  PROVE  Lane' = Lane
<1>1. /\ fromWorker' = fromWorker
      /\ job' = [job EXCEPT ![w] = <<Head(toWorker[w])>>]
      /\ toWorker' = [toWorker EXCEPT ![w] = Tail(@)]
      /\ job[w] = <<>> /\ toWorker[w] # <<>>
  BY DEF ReceiveBatch, workerVars
<1>2. /\ fromWorker[w] \in Seq(Batch) /\ toWorker[w] \in Seq(Batch)
      /\ job \in [Workers -> Seq(Batch)] /\ toWorker \in [Workers -> Seq(Batch)]
  BY DEF TypeOK
<1>3. fromWorker[w] \o <<Head(toWorker[w])>> \o Tail(toWorker[w])
        = fromWorker[w] \o <<>> \o toWorker[w]
  BY <1>1, <1>2, ShiftIn
<1>4. ASSUME NEW v \in Workers
      PROVE  fromWorker'[v] \o job'[v] \o toWorker'[v] = fromWorker[v] \o job[v] \o toWorker[v]
  BY <1>1, <1>2, <1>3
<1> QED
  BY <1>4 DEF Lane

\* The results are as many and in the same order as the requests.
LEMMA ResultsMatch == \A bodies \in Seq(Request) : Results(bodies) = bodies
<1> TAKE bodies \in Seq(Request)
<1>1. /\ Len(bodies) \in Nat /\ DOMAIN bodies = 1..Len(bodies)
      /\ bodies \in [1..Len(bodies) -> Request]
  BY LenProperties
<1> QED
  BY <1>1 DEF Results

\* ... and so does one that replies.
LEMMA LaneReply ==
  ASSUME TypeOK, NEW w \in Workers, RunAndReply(w)
  PROVE  Lane' = Lane
<1> DEFINE b == job[w][1]
<1>1. /\ fromWorker' = [fromWorker EXCEPT ![w] =
                          Append(@, [id |-> b.id, bodies |-> Results(b.bodies)])]
      /\ job' = [job EXCEPT ![w] = <<>>]
      /\ toWorker' = toWorker
      /\ job[w] # <<>>
  BY DEF RunAndReply, workerVars
<1>2. /\ fromWorker \in [Workers -> Seq(Batch)] /\ toWorker[w] \in Seq(Batch)
      /\ job \in [Workers -> Seq(Batch)] /\ Len(job[w]) <= 1
      /\ fromWorker[w] \in Seq(Batch) /\ job[w] \in Seq(Batch)
  BY DEF TypeOK
<1>3. b \in Batch /\ job[w] = <<b>>
  BY <1>1, <1>2, SingletonSeq
<1>4. [id |-> b.id, bodies |-> Results(b.bodies)] = b
  BY <1>3, ResultsMatch DEF Batch
<1>5. Append(fromWorker[w], b) \o <<>> \o toWorker[w] = fromWorker[w] \o <<b>> \o toWorker[w]
  BY <1>2, <1>3, ShiftOut
<1>6. ASSUME NEW v \in Workers
      PROVE  fromWorker'[v] \o job'[v] \o toWorker'[v] = fromWorker[v] \o job[v] \o toWorker[v]
  BY <1>1, <1>2, <1>3, <1>4, <1>5
<1> QED
  BY <1>6 DEF Lane

\* The invariant is about these variables only.
LEMMA QuietStep ==
  ASSUME CoreInv,
         UNCHANGED <<client, sent, lost, toFront, fromFront, batch_id, batches, message_queue, Lane>>
  PROVE  CoreInv'
  BY DEF CoreInv, LanesGood, Good, QueueGood, PipesGood, NoBatchLeaks, RepliesRouted, OneCopy,
         Booked, Registered

LEMMA LaneElement ==
  ASSUME TypeOK, NEW w \in Workers, NEW i \in 1..Len(Lane[w])
  PROVE  /\ Lane[w][i] \in Batch
         /\ \A k \in 1..Len(Lane[w][i].bodies) : Lane[w][i].bodies[k] \in Request
<1>1. Lane[w] \in Seq(Batch)
  BY LaneTyped
<1>2. Lane[w][i] \in Batch
  BY <1>1, ElementOfSeq
<1>3. Lane[w][i].bodies \in Seq(Request)
  BY <1>2 DEF Batch
<1> QED
  BY <1>2, <1>3, ElementOfSeq

LEMMA QueueElement ==
  ASSUME TypeOK, NEW k \in 1..Len(message_queue)
  PROVE  message_queue[k] \in Request
<1>1. message_queue \in Seq(Request)
  BY DEF TypeOK
<1> QED
  BY <1>1, ElementOfSeq

\* A client that is not booked has no request in the proxy or with a worker.
LEMMA Unbooked ==
  ASSUME IndInv, NEW c \in Clients, ~Booked(c)
  PROVE  /\ \A w \in Workers : \A i \in 1..Len(Lane[w]) :
              \A k \in 1..Len(Lane[w][i].bodies) : Lane[w][i].bodies[k].from # c
         /\ \A k \in 1..Len(message_queue) : message_queue[k].from # c
<1>1. ASSUME NEW w \in Workers, NEW i \in 1..Len(Lane[w]), NEW k \in 1..Len(Lane[w][i].bodies)
      PROVE  Lane[w][i].bodies[k].from # c
  <2>1. Registered(Lane[w][i])
    BY DEF IndInv, CoreInv, LanesGood, Good
  <2> QED
    BY <2>1 DEF Registered, Booked
<1>2. ASSUME NEW k \in 1..Len(message_queue) PROVE message_queue[k].from # c
  <2>1. message_queue # <<>>
    BY EmptySeq
  <2>2. Registered([id |-> batch_id, bodies |-> message_queue])
    BY <2>1 DEF IndInv, CoreInv, QueueGood
  <2> QED
    BY <2>2 DEF Registered, Booked
<1> QED
  BY <1>1, <1>2

\* The batch id is free until the first request of the batch is booked.
LEMMA FreshId ==
  ASSUME IndInv
  PROVE  batch_id \in DOMAIN batches <=> message_queue # <<>>
<1>1. ASSUME batch_id \in DOMAIN batches, message_queue = <<>> PROVE FALSE
  <2>1. PICK w \in Workers : \E j \in 1..Len(Lane[w]) : Lane[w][j].id = batch_id
    BY <1>1 DEF IndInv, CoreInv, NoBatchLeaks
  <2>2. PICK j \in 1..Len(Lane[w]) : Lane[w][j].id = batch_id
    BY <2>1
  <2>3. Lane[w][j].id < batch_id
    BY DEF IndInv, CoreInv, LanesGood, Good
  <2> QED
    BY <2>2, <2>3 DEF IndInv, TypeOK
<1>2. message_queue # <<>> => batch_id \in DOMAIN batches
  BY DEF IndInv, CoreInv, QueueGood, Registered
<1> QED
  BY <1>1, <1>2
-----------------------------------------------------------------------------
(* The steps that change what the invariant is about.                      *)

LEMMA SendStep == ASSUME IndInv, NEW c \in Clients, ClientSend(c) PROVE CoreInv'
<1> USE DEF clientVars, frontVars, batchVars, clockVars, faultVars, ringVars, workerVars
<1>1. CoreInv /\ TypeOK
  BY DEF IndInv
<1>2. /\ client[c] = "idle" /\ client' = [client EXCEPT ![c] = "waiting"]
      /\ sent' = [sent EXCEPT ![c] = @ + 1]
      /\ toFront' = [toFront EXCEPT ![c] = Append(@, [from |-> c, n |-> sent[c] + 1])]
      /\ UNCHANGED <<lost, fromFront, batch_id, batches, message_queue, Lane>>
  BY DEF ClientSend, Lane
<1>3. toFront[c] = <<>> /\ fromFront[c] = <<>> /\ ~Booked(c)
  BY <1>1, <1>2 DEF CoreInv, OneCopy
<1>4. toFront'[c] = <<[from |-> c, n |-> sent'[c]]>>
  BY <1>1, <1>2, <1>3 DEF TypeOK
<1>5. \A d \in Clients : d # c => /\ client'[d] = client[d] /\ sent'[d] = sent[d]
                                 /\ toFront'[d] = toFront[d]
  BY <1>1, <1>2 DEF TypeOK
<1>6. LanesGood'
  <2> SUFFICES ASSUME NEW w \in Workers, NEW i \in 1..Len(Lane[w]) PROVE Good(Lane[w][i])'
    BY <1>2 DEF LanesGood
  <2>1. Good(Lane[w][i])
    BY <1>1 DEF CoreInv, LanesGood
  <2>2. \A k \in 1..Len(Lane[w][i].bodies) :
          Lane[w][i].bodies[k].from \in Clients /\ Lane[w][i].bodies[k].from # c
    BY <1>1, <1>3, Unbooked, LaneElement DEF Request
  <2> QED
    BY <1>2, <1>5, <2>1, <2>2 DEF Good, Registered
<1>7. QueueGood'
  <2>1. \A k \in 1..Len(message_queue) :
          message_queue[k].from \in Clients /\ message_queue[k].from # c
    BY <1>1, <1>3, Unbooked, QueueElement DEF Request
  <2> QED
    BY <1>1, <1>2, <1>5, <2>1 DEF CoreInv, QueueGood, Registered
<1>8. PipesGood'
  BY <1>1, <1>4, <1>5 DEF CoreInv, PipesGood
<1>9. NoBatchLeaks'
  BY <1>1, <1>2 DEF CoreInv, NoBatchLeaks
<1>10. RepliesRouted'
  BY <1>1, <1>2, <1>3, <1>5 DEF CoreInv, RepliesRouted
<1>11. OneCopy'
  <2>1. client'[c] = "waiting"
    BY <1>1, <1>2 DEF TypeOK
  <2>2. toFront'[c] # <<>> /\ Len(toFront'[c]) = 1
    BY <1>4
  <2> QED
    BY <1>1, <1>2, <1>3, <1>5, <2>1, <2>2 DEF CoreInv, OneCopy, Booked
<1> QED
  BY <1>6, <1>7, <1>8, <1>9, <1>10, <1>11 DEF CoreInv

LEMMA ReceiveStep == ASSUME IndInv, NEW c \in Clients, ClientReceive(c) PROVE CoreInv'
<1> USE DEF clientVars, frontVars, batchVars, clockVars, faultVars, ringVars, workerVars
<1>1. CoreInv /\ TypeOK
  BY DEF IndInv
<1>2. /\ client[c] = "waiting" /\ client' = [client EXCEPT ![c] = "idle"]
      /\ fromFront[c] # <<>> /\ fromFront' = [fromFront EXCEPT ![c] = Tail(@)]
      /\ UNCHANGED <<sent, lost, toFront, batch_id, batches, message_queue, Lane>>
  BY DEF ClientReceive, Lane
<1>3. toFront[c] = <<>> /\ ~Booked(c) /\ fromFront[c] = <<[from |-> c, n |-> sent[c]]>>
  BY <1>1, <1>2 DEF CoreInv, OneCopy, RepliesRouted
<1>4. fromFront'[c] = <<>>
  BY <1>1, <1>2, <1>3 DEF TypeOK
<1>5. \A d \in Clients : d # c => client'[d] = client[d] /\ fromFront'[d] = fromFront[d]
  BY <1>1, <1>2 DEF TypeOK
<1>6. LanesGood' /\ QueueGood' /\ PipesGood' /\ NoBatchLeaks'
  BY <1>1, <1>2 DEF CoreInv, LanesGood, Good, QueueGood, Registered, PipesGood, NoBatchLeaks
<1>7. RepliesRouted'
  BY <1>1, <1>2, <1>4, <1>5 DEF CoreInv, RepliesRouted
<1>8. OneCopy'
  <2>1. client'[c] = "idle"
    BY <1>1, <1>2 DEF TypeOK
  <2> QED
    BY <1>1, <1>2, <1>3, <1>4, <1>5, <2>1 DEF CoreInv, OneCopy, Booked
<1> QED
  BY <1>6, <1>7, <1>8 DEF CoreInv

LEMMA ExitStep == ASSUME IndInv, NEW c \in Clients, ClientExit(c) PROVE CoreInv'
<1> USE DEF clientVars, frontVars, batchVars, clockVars, faultVars, ringVars, workerVars
<1>1. CoreInv /\ TypeOK
  BY DEF IndInv
<1>2. /\ client' = [client EXCEPT ![c] = "gone"]
      /\ fromFront' = [fromFront EXCEPT ![c] = <<>>]
      /\ UNCHANGED <<sent, lost, toFront, batch_id, batches, message_queue, Lane>>
  BY DEF ClientExit, Lane
<1>3. client'[c] = "gone" /\ fromFront'[c] = <<>>
  BY <1>1, <1>2 DEF TypeOK
<1>4. \A d \in Clients : d # c => client'[d] = client[d] /\ fromFront'[d] = fromFront[d]
  BY <1>1, <1>2 DEF TypeOK
<1>5. LanesGood' /\ QueueGood' /\ PipesGood' /\ NoBatchLeaks'
  BY <1>1, <1>2 DEF CoreInv, LanesGood, Good, QueueGood, Registered, PipesGood, NoBatchLeaks
<1>6. RepliesRouted'
  BY <1>1, <1>2, <1>3, <1>4 DEF CoreInv, RepliesRouted
<1>7. OneCopy'
  BY <1>1, <1>2, <1>3, <1>4 DEF CoreInv, OneCopy, Booked
<1> QED
  BY <1>5, <1>6, <1>7 DEF CoreInv

\* A batch is dealt: it becomes the last of a lane, under an id below the next.
LEMMA DispatchStep == ASSUME IndInv, Dispatch PROVE CoreInv'
<1> USE DEF clientVars, frontVars, batchVars, clockVars, faultVars, ringVars, workerVars
<1> DEFINE d == ring[turn]
           b == [id |-> batch_id, bodies |-> message_queue]
<1>1. CoreInv /\ TypeOK
  BY DEF IndInv
<1>2. /\ BatchDue /\ ring # <<>>
      /\ toWorker' = [toWorker EXCEPT ![d] = Append(@, b)]
      /\ message_queue' = <<>> /\ batch_id' = batch_id + 1
      /\ UNCHANGED <<client, sent, lost, toFront, fromFront, batches, job, fromWorker>>
  BY DEF Dispatch, NextBatchId
<1>3. d \in Workers
  <2>1. ring \in Seq(Workers) /\ turn \in 1..Len(ring)
    BY <1>1, <1>2 DEF TypeOK
  <2> QED
    BY <2>1, ElementOfSeq
<1>4. message_queue # <<>> /\ message_queue \in Seq(Request) /\ Len(message_queue) >= 1
  <2>1. message_queue \in Seq(Request) /\ Len(message_queue) \in Nat
    BY <1>1, LenProperties DEF TypeOK
  <2>2. message_queue # <<>>
    BY <1>2, <2>1, EmptySeq, BatchAssumption DEF BatchDue, BatchFull, BatchLate
  <2> QED
    BY <2>1, <2>2, EmptySeq
<1>5. b \in Batch /\ batch_id \in Nat
  BY <1>1, <1>4 DEF Batch, TypeOK
<1> HIDE DEF d, b
<1>6. /\ Lane'[d] = Append(Lane[d], b)
      /\ \A w \in Workers : w # d => Lane'[w] = Lane[w]
  <2>1. /\ fromWorker[d] \in Seq(Batch) /\ job[d] \in Seq(Batch) /\ toWorker[d] \in Seq(Batch)
        /\ toWorker \in [Workers -> Seq(Batch)]
    BY <1>1, <1>3 DEF TypeOK
  <2>2. fromWorker[d] \o job[d] \in Seq(Batch)
    BY <2>1, ConcatProperties
  <2>3. (fromWorker[d] \o job[d]) \o Append(toWorker[d], b)
          = Append((fromWorker[d] \o job[d]) \o toWorker[d], b)
    <3> DEFINE r == fromWorker[d] \o job[d]
               t == toWorker[d]
    <3>1. r \in Seq(Batch) /\ t \in Seq(Batch) /\ b \in Batch
      BY <1>5, <2>1, <2>2
    <3> HIDE DEF r, t
    <3>2. r \o Append(t, b) = Append(r \o t, b)
      BY <3>1, AppendToConcat
    <3> QED
      BY <3>2 DEF r, t
  <2>4. toWorker'[d] = Append(toWorker[d], b)
    BY <1>2, <1>3, <2>1
  <2>5. \A w \in Workers : w # d => toWorker'[w] = toWorker[w]
    BY <1>2, <2>1
  <2>6. \A w \in Workers : /\ Lane[w] = (fromWorker[w] \o job[w]) \o toWorker[w]
                           /\ Lane'[w] = (fromWorker[w] \o job[w]) \o toWorker'[w]
    BY <1>2 DEF Lane
  <2> QED
    BY <1>3, <2>3, <2>4, <2>5, <2>6
<1>7. /\ Lane[d] \in Seq(Batch) /\ Len(Lane[d]) \in Nat
      /\ Len(Lane'[d]) = Len(Lane[d]) + 1
      /\ \A i \in 1..Len(Lane[d]) : Lane'[d][i] = Lane[d][i]
      /\ Lane'[d][Len(Lane[d]) + 1] = b
  BY <1>1, <1>3, <1>5, <1>6, LaneTyped, AppendProperties, LenProperties
<1>8. /\ b.id = batch_id /\ b.bodies = message_queue /\ Registered(b)
      /\ \A k \in 1..Len(b.bodies) : b.bodies[k].n = sent[b.bodies[k].from]
  BY <1>1, <1>4 DEF CoreInv, QueueGood, b
\* A place of a lane after the step is an old one or the last of lane d.
<1>9. ASSUME NEW w \in Workers, NEW i \in 1..Len(Lane'[w])
      PROVE  \/ i \in 1..Len(Lane[w]) /\ Lane'[w][i] = Lane[w][i] /\ Lane[w][i].id < batch_id
                /\ Lane[w][i].id \in Nat
             \/ w = d /\ i = Len(Lane[d]) + 1 /\ Lane'[w][i] = b
  <2>1. CASE w # d
    <3>1. i \in 1..Len(Lane[w]) /\ Lane'[w][i] = Lane[w][i]
      BY <1>6, <2>1
    <3> QED
      BY <1>1, <3>1, LaneElement DEF CoreInv, LanesGood, Good, Batch
  <2>2. CASE w = d /\ i <= Len(Lane[d])
    <3>1. i \in 1..Len(Lane[w]) /\ Lane'[w][i] = Lane[w][i]
      BY <1>7, <2>2
    <3> QED
      BY <1>1, <3>1, LaneElement DEF CoreInv, LanesGood, Good, Batch
  <2>3. CASE w = d /\ ~(i <= Len(Lane[d]))
    BY <1>7, <2>3
  <2> QED
    BY <2>1, <2>2, <2>3
<1>10. LanesGood'
  <2> SUFFICES ASSUME NEW w \in Workers, NEW i \in 1..Len(Lane'[w]) PROVE Good(Lane[w][i])'
    BY DEF LanesGood
  <2>1. CASE i \in 1..Len(Lane[w]) /\ Lane'[w][i] = Lane[w][i]
    <3>1. Good(Lane[w][i]) /\ Lane[w][i].id \in Nat
      BY <1>1, <2>1, LaneElement DEF CoreInv, LanesGood, Batch
    <3> QED
      BY <1>2, <1>5, <2>1, <3>1 DEF Good, Registered
  <2>2. CASE Lane'[w][i] = b
    BY <1>2, <1>4, <1>5, <1>8, <2>2 DEF Good, Registered
  <2> QED
    BY <1>9, <2>1, <2>2
<1>11. QueueGood'
  BY <1>2 DEF QueueGood
<1>12. PipesGood' /\ RepliesRouted' /\ OneCopy'
  BY <1>1, <1>2 DEF CoreInv, PipesGood, RepliesRouted, OneCopy, Booked
<1>13. NoBatchLeaks'
  <2>1. ASSUME NEW i \in DOMAIN batches
        PROVE  \E w \in Workers : \E j \in 1..Len(Lane'[w]) : Lane'[w][j].id = i
    <3>1. CASE i = batch_id
      <4>1. Len(Lane[d]) + 1 \in 1..Len(Lane'[d])
        BY <1>7
      <4> QED
        BY <1>3, <1>7, <1>8, <3>1, <4>1
    <3>2. CASE i # batch_id
      <4>0. PICK w \in Workers : \E j \in 1..Len(Lane[w]) : Lane[w][j].id = i
        BY <1>1, <3>2 DEF CoreInv, NoBatchLeaks
      <4>1. PICK j \in 1..Len(Lane[w]) : Lane[w][j].id = i
        BY <4>0
      <4>2. j \in 1..Len(Lane'[w]) /\ Lane'[w][j] = Lane[w][j]
        BY <1>6, <1>7
      <4> QED
        BY <4>1, <4>2
    <3> QED
      BY <3>1, <3>2
  <2>2. ASSUME NEW v \in Workers, NEW w \in Workers, NEW i \in 1..Len(Lane'[v]),
               NEW j \in 1..Len(Lane'[w]), Lane'[v][i].id = Lane'[w][j].id
        PROVE  v = w /\ i = j
    <3> DEFINE old(x, k) == /\ k \in 1..Len(Lane[x]) /\ Lane'[x][k] = Lane[x][k]
                            /\ Lane'[x][k].id < batch_id /\ Lane'[x][k].id \in Nat
               new(x, k) == x = d /\ k = Len(Lane[d]) + 1 /\ Lane'[x][k] = b
    <3>1. old(v, i) \/ new(v, i)
      BY <1>9
    <3>2. old(w, j) \/ new(w, j)
      BY <1>9
    <3>3. CASE new(v, i) \/ new(w, j)
      BY <1>5, <1>8, <2>2, <3>1, <3>2, <3>3
    <3>4. CASE old(v, i) /\ old(w, j)
      BY <1>1, <2>2, <3>4 DEF CoreInv, NoBatchLeaks
    <3> QED
      BY <3>1, <3>2, <3>3, <3>4
  <2> QED
    BY <1>2, <2>1, <2>2 DEF NoBatchLeaks
<1> QED
  BY <1>10, <1>11, <1>12, <1>13 DEF CoreInv

\* A request is booked: its address and its body become the last of the batch.
LEMMA BookStep == ASSUME IndInv, NEW c \in Clients, FrontRecv(c) PROVE CoreInv'
<1> USE DEF clientVars, frontVars, batchVars, clockVars, faultVars, ringVars, workerVars
<1> DEFINE m == Head(toFront[c])
           held == IF batch_id \in DOMAIN batches THEN batches[batch_id] ELSE <<>>
<1>1. CoreInv /\ TypeOK
  BY DEF IndInv
<1>2. /\ toFront[c] # <<>> /\ toFront' = [toFront EXCEPT ![c] = Tail(@)]
      /\ batches' = BookAddress(c)
      /\ message_queue' = Append(message_queue, m)
      /\ UNCHANGED <<client, sent, lost, fromFront, batch_id, Lane>>
  BY DEF FrontRecv, Lane
<1>3. /\ toFront[c] = <<[from |-> c, n |-> sent[c]]>>
      /\ fromFront[c] = <<>> /\ ~Booked(c) /\ client[c] # "idle"
  BY <1>1, <1>2 DEF CoreInv, PipesGood, OneCopy
<1>4. m = [from |-> c, n |-> sent[c]] /\ m \in Request
  <2>1. toFront[c] \in Seq(Request)
    BY <1>1 DEF TypeOK
  <2> QED
    BY <1>2, <1>3, <2>1, HeadTailProperties
<1>5. toFront'[c] = <<>> /\ \A x \in Clients : x # c => toFront'[x] = toFront[x]
  BY <1>1, <1>2, <1>3 DEF TypeOK
<1>6. held \in Seq(Clients) /\ message_queue \in Seq(Request) /\ batch_id \in Nat
  BY <1>1, EmptySeq DEF TypeOK
<1>7. /\ Len(held) = Len(message_queue)
      /\ \A k \in 1..Len(message_queue) : message_queue[k].from = held[k]
  <2>1. CASE message_queue # <<>>
    BY <1>1, <2>1, FreshId DEF CoreInv, QueueGood, Registered
  <2>2. CASE message_queue = <<>>
    BY <2>2, FreshId
  <2> QED
    BY <2>1, <2>2
<1>8. /\ DOMAIN batches' = DOMAIN batches \cup {batch_id}
      /\ batches'[batch_id] = Append(held, c)
      /\ \A i \in DOMAIN batches : i # batch_id => batches'[i] = batches[i]
  <2>1. Append(<<>>, c) = <<c>>
    OBVIOUS
  <2> QED
    BY <1>2, <2>1 DEF BookAddress
<1>9. /\ Append(held, c) # <<>> /\ Len(held) \in Nat
      /\ Len(batches'[batch_id]) = Len(held) + 1
      /\ \A k \in 1..Len(held) : batches'[batch_id][k] = held[k]
      /\ batches'[batch_id][Len(held) + 1] = c
  <2> HIDE DEF held
  <2> QED
    BY <1>6, <1>8, AppendProperties, LenProperties
<1>10. /\ Len(message_queue') = Len(message_queue) + 1 /\ message_queue' # <<>>
       /\ \A k \in 1..Len(message_queue) : message_queue'[k] = message_queue[k]
       /\ message_queue'[Len(message_queue) + 1] = m
  <2> HIDE DEF m
  <2> QED
    BY <1>2, <1>4, <1>6, AppendProperties
\* A place of batches after the step is an old one or the new last of this batch.
<1>11. ASSUME NEW i \in DOMAIN batches', NEW k \in 1..Len(batches'[i])
       PROVE  \/ i \in DOMAIN batches /\ k \in 1..Len(batches[i]) /\ batches'[i][k] = batches[i][k]
                 /\ batches[i][k] # c
              \/ i = batch_id /\ k = Len(held) + 1 /\ batches'[i][k] = c
  <2>1. CASE i # batch_id
    BY <1>3, <1>8, <2>1 DEF Booked
  <2>2. CASE i = batch_id /\ k <= Len(held)
    <3>1. k \in 1..Len(held)
      BY <1>9, <2>2
    <3>2. i \in DOMAIN batches /\ held = batches[i]
      BY <1>6, <2>2, <3>1
    <3> QED
      BY <1>3, <1>9, <2>2, <3>1, <3>2 DEF Booked
  <2>3. CASE i = batch_id /\ ~(k <= Len(held))
    BY <1>9, <2>3
  <2> QED
    BY <2>1, <2>2, <2>3
<1>12. ASSUME NEW x \in Clients PROVE Booked(x)' <=> Booked(x) \/ x = c
  <2>1. ASSUME NEW i \in DOMAIN batches, NEW k \in 1..Len(batches[i])
        PROVE  k \in 1..Len(batches'[i]) /\ batches'[i][k] = batches[i][k] /\ i \in DOMAIN batches'
    BY <1>8, <1>9
  <2>2. /\ batch_id \in DOMAIN batches' /\ Len(held) + 1 \in 1..Len(batches'[batch_id])
    BY <1>8, <1>9
  <2> QED
    BY <1>9, <1>11, <2>1, <2>2 DEF Booked
<1> HIDE DEF held, m
<1>13. LanesGood'
  <2> SUFFICES ASSUME NEW w \in Workers, NEW i \in 1..Len(Lane[w]) PROVE Good(Lane[w][i])'
    BY <1>2 DEF LanesGood
  <2>1. Good(Lane[w][i]) /\ Lane[w][i].id \in Nat
    BY <1>1, LaneElement DEF CoreInv, LanesGood, Batch
  <2>2. Lane[w][i].id # batch_id
    BY <1>6, <2>1 DEF Good
  <2> QED
    BY <1>2, <1>8, <2>1, <2>2 DEF Good, Registered
<1>14. QueueGood'
  <2>1. Registered([id |-> batch_id, bodies |-> message_queue])'
    <3>1. \A k \in 1..Len(message_queue') : message_queue'[k].from = batches'[batch_id][k]
      BY <1>4, <1>7, <1>9, <1>10
    <3> QED
      BY <1>2, <1>7, <1>8, <1>9, <1>10, <3>1 DEF Registered
  <2>2. \A k \in 1..Len(message_queue') : message_queue'[k].n = sent'[message_queue'[k].from]
    <3> SUFFICES ASSUME NEW k \in 1..Len(message_queue')
                 PROVE  message_queue'[k].n = sent'[message_queue'[k].from]
      OBVIOUS
    <3>1. CASE k = Len(message_queue) + 1
      BY <1>2, <1>4, <1>10, <3>1
    <3>2. CASE k # Len(message_queue) + 1
      <4>1. k \in 1..Len(message_queue)
        BY <1>7, <1>9, <1>10, <3>2
      <4> QED
        BY <1>1, <1>2, <1>10, <4>1 DEF CoreInv, QueueGood
    <3> QED
      BY <3>1, <3>2
  <2> QED
    BY <2>1, <2>2 DEF QueueGood
<1>15. PipesGood' /\ RepliesRouted'
  BY <1>1, <1>2, <1>5 DEF CoreInv, PipesGood, RepliesRouted
<1>16. NoBatchLeaks'
  BY <1>1, <1>2, <1>8, <1>10 DEF CoreInv, NoBatchLeaks
<1>17. OneCopy'
  <2>1. ASSUME NEW x \in Clients
        PROVE  /\ client'[x] = "idle" => x \notin lost' /\ toFront'[x] = <<>> /\ fromFront'[x] = <<>> /\ ~Booked(x)'
               /\ toFront'[x] # <<>> => fromFront'[x] = <<>> /\ ~Booked(x)' /\ Len(toFront'[x]) = 1
               /\ fromFront'[x] # <<>> => ~Booked(x)'
               /\ client'[x] = "waiting" =>
                    (x \notin lost' <=> toFront'[x] # <<>> \/ fromFront'[x] # <<>> \/ Booked(x)')
    BY <1>1, <1>2, <1>3, <1>5, <1>12 DEF CoreInv, OneCopy
  <2>2. ASSUME NEW i \in DOMAIN batches', NEW j \in DOMAIN batches',
               NEW k \in 1..Len(batches'[i]), NEW l \in 1..Len(batches'[j]),
               batches'[i][k] = batches'[j][l]
        PROVE  i = j /\ k = l
    <3> DEFINE old(x, y) == /\ x \in DOMAIN batches /\ y \in 1..Len(batches[x])
                            /\ batches'[x][y] = batches[x][y] /\ batches[x][y] # c
               new(x, y) == x = batch_id /\ y = Len(held) + 1 /\ batches'[x][y] = c
    <3>1. old(i, k) \/ new(i, k)
      BY <1>11
    <3>2. old(j, l) \/ new(j, l)
      BY <1>11
    <3>3. CASE new(i, k) \/ new(j, l)
      BY <2>2, <3>1, <3>2, <3>3
    <3>4. CASE old(i, k) /\ old(j, l)
      <4>1. \A p, q \in DOMAIN batches : \A y \in 1..Len(batches[p]) : \A z \in 1..Len(batches[q]) :
              batches[p][y] = batches[q][z] => p = q /\ y = z
        BY <1>1 DEF CoreInv, OneCopy
      <4>2. batches[i][k] = batches[j][l]
        BY <2>2, <3>4
      <4> QED
        BY <3>4, <4>1, <4>2
    <3> QED
      BY <3>1, <3>2, <3>3, <3>4
  <2> QED
    BY <2>1, <2>2 DEF OneCopy
<1> QED
  BY <1>13, <1>14, <1>15, <1>16, <1>17 DEF CoreInv

\* One part of a reply is forwarded: its address and its body leave together.
LEMMA ForwardStep == ASSUME IndInv, Forward PROVE CoreInv'
<1> USE DEF clientVars, frontVars, batchVars, clockVars, faultVars, ringVars, workerVars
<1> DEFINE r == reading
           b == Head(fromWorker[r])
           addrs == batches[b.id]
           c == Head(addrs)
           m == Head(b.bodies)
           cut == [b EXCEPT !.bodies = Tail(@)]
           more == Len(addrs) > 1
<1>1. CoreInv /\ TypeOK
  BY DEF IndInv
<1>2. /\ pc = "forward"
      /\ fromFront' = SendToClient(c, m)
      /\ more => /\ batches' = [batches EXCEPT ![b.id] = Tail(@)]
                 /\ fromWorker' = [fromWorker EXCEPT ![r] = <<cut>> \o Tail(@)]
      /\ ~more => /\ batches' = [i \in DOMAIN batches \ {b.id} |-> batches[i]]
                  /\ fromWorker' = [fromWorker EXCEPT ![r] = Tail(@)]
      /\ UNCHANGED <<client, sent, lost, toFront, batch_id, message_queue, toWorker, job>>
  BY DEF Forward, EraseBatch
<1>3. /\ r \in Workers /\ fromWorker[r] \in Seq(Batch) /\ fromWorker[r] # <<>>
      /\ b \in Batch /\ Good(b)
  BY <1>2, ReadingGood
<1>4. /\ Len(Lane[r]) >= 1 /\ Lane[r][1] = b
      /\ Lane[r] \in Seq(Batch) /\ Len(Lane[r]) \in Nat
  BY <1>1, <1>3, LaneHead, LaneTyped, LenProperties
<1>5. /\ b.id \in DOMAIN batches /\ b.id \in Nat /\ b.id < batch_id /\ batch_id \in Nat
      /\ addrs \in Seq(Clients) /\ b.bodies \in Seq(Request)
      /\ Len(addrs) = Len(b.bodies) /\ Len(addrs) >= 1
      /\ \A k \in 1..Len(addrs) : b.bodies[k].from = addrs[k] /\ b.bodies[k].n = sent[b.bodies[k].from]
  BY <1>1, <1>3 DEF Good, Registered, Batch, TypeOK
<1>6. /\ addrs # <<>> /\ b.bodies # <<>> /\ Len(addrs) \in Nat /\ 1 \in 1..Len(addrs)
  BY <1>5, EmptySeq, LenProperties
<1>7. /\ c = addrs[1] /\ c \in Clients /\ m = b.bodies[1] /\ m \in Request
      /\ m = [from |-> c, n |-> sent[c]]
  <2>1. c = addrs[1] /\ c \in Clients /\ m = b.bodies[1] /\ m \in Request
    BY <1>5, <1>6, HeadTailProperties
  <2>2. m.from = c /\ m.n = sent[c]
    BY <1>5, <1>6, <2>1
  <2> QED
    BY <2>1, <2>2 DEF Request
<1>8. /\ Tail(addrs) \in Seq(Clients) /\ Len(Tail(addrs)) = Len(addrs) - 1
      /\ \A k \in 1..Len(Tail(addrs)) : Tail(addrs)[k] = addrs[k + 1]
      /\ Tail(b.bodies) \in Seq(Request) /\ Len(Tail(b.bodies)) = Len(addrs) - 1
      /\ \A k \in 1..Len(Tail(addrs)) : Tail(b.bodies)[k] = b.bodies[k + 1]
  BY <1>5, <1>6, HeadTailProperties
<1>9. cut \in Batch /\ cut.id = b.id /\ cut.bodies = Tail(b.bodies)
  BY <1>3, <1>8 DEF Batch
<1>10. /\ Booked(c) /\ toFront[c] = <<>> /\ fromFront[c] = <<>> /\ client[c] # "idle"
  <2>1. Booked(c)
    BY <1>5, <1>6, <1>7 DEF Booked
  <2> QED
    BY <1>1, <1>7, <2>1 DEF CoreInv, OneCopy
<1>11. \A x \in Clients :
         fromFront'[x] = IF x = c /\ client[c] # "gone" THEN <<[from |-> c, n |-> sent[c]]>>
                         ELSE fromFront[x]
  <2>1. fromFront \in [Clients -> Seq(Request)]
    BY <1>1 DEF TypeOK
  <2>2. Append(fromFront[c], m) = <<[from |-> c, n |-> sent[c]]>>
    BY <1>7, <1>10
  <2>3. fromFront' = IF client[c] = "gone" THEN fromFront
                     ELSE [fromFront EXCEPT ![c] = <<[from |-> c, n |-> sent[c]]>>]
    BY <1>2, <2>2 DEF SendToClient
  <2> HIDE DEF c
  <2> QED
    BY <1>7, <2>1, <2>3
\* The lane that is read loses a part of its first batch, or that batch.
<1>12. /\ \A w \in Workers : w # r => Lane'[w] = Lane[w]
       /\ more => /\ Len(Lane'[r]) = Len(Lane[r]) /\ Lane'[r][1] = cut
                  /\ \A i \in 2..Len(Lane[r]) : Lane'[r][i] = Lane[r][i]
       /\ ~more => /\ Len(Lane'[r]) = Len(Lane[r]) - 1
                   /\ \A i \in 1..Len(Lane'[r]) : Lane'[r][i] = Lane[r][i + 1]
  <2> DEFINE f == fromWorker[r]
             t == job[r] \o toWorker[r]
  <2>1. /\ f \in Seq(Batch) /\ f # <<>> /\ job[r] \in Seq(Batch) /\ toWorker[r] \in Seq(Batch)
        /\ fromWorker \in [Workers -> Seq(Batch)]
    BY <1>1, <1>3 DEF TypeOK
  <2>2. t \in Seq(Batch) /\ Tail(f) \in Seq(Batch) /\ <<cut>> \o Tail(f) \in Seq(Batch)
    <3>1. t \in Seq(Batch)
      BY <2>1, ConcatProperties
    <3>2. Tail(f) \in Seq(Batch) /\ <<cut>> \in Seq(Batch)
      BY <1>9, <2>1, HeadTailProperties
    <3> HIDE DEF f, cut, t
    <3> QED
      BY <3>1, <3>2, ConcatProperties
  <2>3. \A g \in Seq(Batch) : (g \o job[r]) \o toWorker[r] = g \o t
    <3> SUFFICES ASSUME NEW g \in Seq(Batch)
                 PROVE  (g \o job[r]) \o toWorker[r] = g \o (job[r] \o toWorker[r])
      OBVIOUS
    <3> DEFINE x == job[r]
               y == toWorker[r]
    <3>1. x \in Seq(Batch) /\ y \in Seq(Batch)
      BY <2>1
    <3> HIDE DEF x, y
    <3>2. (g \o x) \o y = g \o (x \o y)
      BY <3>1, ConcatAssociative
    <3> QED
      BY <3>2 DEF x, y
  <2>4. \A w \in Workers : /\ Lane[w] = (fromWorker[w] \o job[w]) \o toWorker[w]
                           /\ Lane'[w] = (fromWorker'[w] \o job[w]) \o toWorker[w]
    BY <1>2 DEF Lane
  <2>5. \A w \in Workers : w # r => fromWorker'[w] = fromWorker[w]
    BY <1>2, <2>1
  <2>6. /\ more => fromWorker'[r] = <<cut>> \o Tail(f)
        /\ ~more => fromWorker'[r] = Tail(f)
    BY <1>2, <1>3, <2>1
  <2>7. /\ Lane[r] = f \o t
        /\ more => Lane'[r] = (<<cut>> \o Tail(f)) \o t
        /\ ~more => Lane'[r] = Tail(f) \o t
    <3> HIDE DEF f, t, cut, more, r, b, addrs, c, m
    <3> QED
      BY <1>3, <2>1, <2>2, <2>3, <2>4, <2>6 DEF f
  <2> HIDE DEF f, t, cut, more, r, b, addrs, c, m
  <2>a. \A w \in Workers : w # r => Lane'[w] = Lane[w]
    BY <2>4, <2>5
  <2>8. CASE more
    <3>1. /\ Len((<<cut>> \o Tail(f)) \o t) = Len(f \o t)
          /\ ((<<cut>> \o Tail(f)) \o t)[1] = cut
          /\ \A i \in 2..Len(f \o t) : ((<<cut>> \o Tail(f)) \o t)[i] = (f \o t)[i]
      BY <1>9, <2>1, <2>2, HeadOfCut
    <3> QED
      BY <2>a, <2>7, <2>8, <3>1
  <2>9. CASE ~more
    <3>1. /\ Len(Tail(f) \o t) = Len(f \o t) - 1
          /\ \A i \in 1..Len(Tail(f) \o t) : (Tail(f) \o t)[i] = (f \o t)[i + 1]
      BY <2>1, <2>2, TailOfConcat
    <3> QED
      BY <2>a, <2>7, <2>9, <3>1
  <2> QED
    BY <2>8, <2>9
\* A batch of a lane after the step is the cut one or an old one of another id.
<1>13. ASSUME NEW w \in Workers, NEW i \in 1..Len(Lane'[w])
       PROVE  \/ more /\ w = r /\ i = 1 /\ Lane'[w][i] = cut
              \/ \E j \in 1..Len(Lane[w]) :
                   /\ Lane'[w][i] = Lane[w][j] /\ Lane[w][j].id # b.id /\ Lane[w][j].id \in Nat
                   /\ j = IF w = r /\ ~more THEN i + 1 ELSE i
  <2>1. \A j \in 1..Len(Lane[w]) : Lane[w][j].id = b.id => w = r /\ j = 1
    BY <1>1, <1>3, <1>4 DEF CoreInv, NoBatchLeaks
  <2>2. \A j \in 1..Len(Lane[w]) : Lane[w][j].id \in Nat
    BY <1>1, LaneElement DEF Batch
  <2> HIDE DEF r, b, addrs, c, m, cut, more
  <2>3. CASE w # r
    BY <1>12, <2>1, <2>2, <2>3
  <2>4. CASE w = r /\ more /\ i = 1
    BY <1>12, <2>4
  <2>5. CASE w = r /\ more /\ i # 1
    <3>1. i \in 2..Len(Lane[r]) /\ i \in 1..Len(Lane[w])
      BY <1>4, <1>12, <2>5
    <3> QED
      BY <1>12, <2>1, <2>2, <2>5, <3>1
  <2>6. CASE w = r /\ ~more
    <3>1. i + 1 \in 1..Len(Lane[w]) /\ i + 1 # 1 /\ i \in 1..Len(Lane'[r])
      BY <1>4, <1>12, <2>6
    <3> QED
      BY <1>12, <2>1, <2>2, <2>6, <3>1
  <2> QED
    BY <2>3, <2>4, <2>5, <2>6
\* What is left in batches.
<1>14. /\ DOMAIN batches' = IF more THEN DOMAIN batches ELSE DOMAIN batches \ {b.id}
       /\ \A i \in DOMAIN batches' : i # b.id => batches'[i] = batches[i]
       /\ more => batches'[b.id] = Tail(addrs)
  <2>1. batches = [i \in DOMAIN batches |-> batches[i]]
    BY <1>1 DEF TypeOK
  <2> HIDE DEF more
  <2> QED
    BY <1>2, <1>5, <2>1
<1>15. ASSUME NEW i \in DOMAIN batches', NEW k \in 1..Len(batches'[i])
       PROVE  /\ i \in DOMAIN batches
              /\ IF i = b.id THEN more /\ k + 1 \in 1..Len(batches[i]) /\ batches'[i][k] = batches[i][k + 1]
                 ELSE k \in 1..Len(batches[i]) /\ batches'[i][k] = batches[i][k]
  <2>1. CASE i # b.id
    BY <1>14, <2>1
  <2>2. CASE i = b.id
    <3>1. more /\ batches'[i] = Tail(addrs) /\ i \in DOMAIN batches
      BY <1>5, <1>14, <2>2
    <3>2. k \in 1..Len(Tail(addrs)) /\ k + 1 \in 1..Len(addrs)
      BY <1>6, <1>8, <3>1
    <3> QED
      BY <1>8, <2>2, <3>1, <3>2
  <2> QED
    BY <2>1, <2>2
<1>16. \A p, q \in DOMAIN batches : \A y \in 1..Len(batches[p]) : \A z \in 1..Len(batches[q]) :
          batches[p][y] = batches[q][z] => p = q /\ y = z
  BY <1>1 DEF CoreInv, OneCopy
<1> HIDE DEF r, b, m, cut
<1>17. ASSUME NEW x \in Clients PROVE Booked(x)' <=> Booked(x) /\ x # c
  <2>1. ASSUME Booked(x)' PROVE Booked(x) /\ x # c
    <3>1. PICK i \in DOMAIN batches' : \E k \in 1..Len(batches'[i]) : batches'[i][k] = x
      BY <2>1 DEF Booked
    <3>2. PICK k \in 1..Len(batches'[i]) : batches'[i][k] = x
      BY <3>1
    <3>3. CASE i = b.id
      <4>1. k + 1 \in 1..Len(batches[i]) /\ batches[i][k + 1] = x /\ i \in DOMAIN batches /\ k + 1 # 1
        BY <1>15, <3>2, <3>3
      <4> QED
        BY <1>5, <1>6, <1>7, <1>16, <3>3, <4>1 DEF Booked
    <3>4. CASE i # b.id
      <4>1. k \in 1..Len(batches[i]) /\ batches[i][k] = x /\ i \in DOMAIN batches
        BY <1>15, <3>2, <3>4
      <4> QED
        BY <1>5, <1>6, <1>7, <1>16, <3>4, <4>1 DEF Booked
    <3> QED
      BY <3>3, <3>4
  <2>2. ASSUME Booked(x), x # c PROVE Booked(x)'
    <3>1. PICK i \in DOMAIN batches : \E k \in 1..Len(batches[i]) : batches[i][k] = x
      BY <2>2 DEF Booked
    <3>2. PICK k \in 1..Len(batches[i]) : batches[i][k] = x
      BY <3>1
    <3>3. CASE i # b.id
      BY <1>14, <3>2, <3>3 DEF Booked
    <3>4. CASE i = b.id
      <4>1. k # 1 /\ k \in 1..Len(addrs) /\ addrs[k] = x
        BY <1>7, <2>2, <3>2, <3>4
      <4>2. more /\ k - 1 \in 1..Len(Tail(addrs)) /\ (k - 1) + 1 = k
        BY <1>6, <1>8, <4>1
      <4>3. Tail(addrs)[k - 1] = x
        BY <1>8, <4>1, <4>2
      <4> QED
        BY <1>5, <1>14, <4>2, <4>3 DEF Booked
    <3> QED
      BY <3>3, <3>4
  <2> QED
    BY <2>1, <2>2
<1>18. LanesGood'
  <2> SUFFICES ASSUME NEW w \in Workers, NEW i \in 1..Len(Lane'[w]) PROVE Good(Lane[w][i])'
    BY DEF LanesGood
  <2>1. CASE more /\ Lane'[w][i] = cut
    <3>1. /\ Len(cut.bodies) = Len(addrs) - 1 /\ Len(cut.bodies) >= 1
          /\ batches'[cut.id] = Tail(addrs) /\ cut.id \in DOMAIN batches' /\ cut.id < batch_id
      BY <1>5, <1>6, <1>8, <1>9, <1>14, <2>1
    <3>2. \A k \in 1..Len(cut.bodies) : /\ cut.bodies[k].from = Tail(addrs)[k]
                                        /\ cut.bodies[k].n = sent[cut.bodies[k].from]
      <4> SUFFICES ASSUME NEW k \in 1..Len(cut.bodies)
                   PROVE  /\ cut.bodies[k].from = Tail(addrs)[k]
                          /\ cut.bodies[k].n = sent[cut.bodies[k].from]
        OBVIOUS
      <4>1. k \in 1..Len(Tail(addrs)) /\ k + 1 \in 1..Len(addrs)
        BY <1>6, <1>8, <3>1
      <4> QED
        BY <1>5, <1>8, <1>9, <4>1
    <3> QED
      BY <1>2, <1>8, <2>1, <3>1, <3>2 DEF Good, Registered
  <2>2. ASSUME NEW j \in 1..Len(Lane[w]), Lane'[w][i] = Lane[w][j], Lane[w][j].id # b.id
        PROVE  Good(Lane[w][i])'
    <3>1. Good(Lane[w][j])
      BY <1>1 DEF CoreInv, LanesGood
    <3>2. Lane[w][j].id \in DOMAIN batches' /\ batches'[Lane[w][j].id] = batches[Lane[w][j].id]
      BY <1>14, <2>2, <3>1 DEF Good, Registered
    <3> QED
      BY <1>2, <2>2, <3>1, <3>2 DEF Good, Registered
  <2> QED
    BY <1>13, <2>1, <2>2
<1>19. QueueGood' /\ PipesGood'
  BY <1>1, <1>2, <1>5, <1>14 DEF CoreInv, QueueGood, Registered, PipesGood
<1>20. RepliesRouted'
  <2>1. client[c] # "gone" => client[c] = "waiting"
    BY <1>1, <1>7, <1>10 DEF TypeOK
  <2> QED
    BY <1>1, <1>2, <1>11, <2>1 DEF CoreInv, RepliesRouted
<1>21. NoBatchLeaks'
  <2>1. ASSUME NEW i \in DOMAIN batches'
        PROVE  \/ i = batch_id /\ message_queue # <<>>
               \/ \E w \in Workers : \E j \in 1..Len(Lane'[w]) : Lane'[w][j].id = i
    <3>1. CASE i = b.id
      <4>1. more /\ 1 \in 1..Len(Lane'[r]) /\ Lane'[r][1] = cut
        BY <1>4, <1>12, <1>14, <3>1
      <4> QED
        BY <1>3, <1>9, <3>1, <4>1
    <3>2. CASE i # b.id /\ ~(i = batch_id /\ message_queue # <<>>)
      <4>1. i \in DOMAIN batches
        BY <1>14
      <4>2. PICK w \in Workers : \E j \in 1..Len(Lane[w]) : Lane[w][j].id = i
        BY <1>1, <3>2, <4>1 DEF CoreInv, NoBatchLeaks
      <4>3. PICK j \in 1..Len(Lane[w]) : Lane[w][j].id = i
        BY <4>2
      <4>4. w = r => j # 1
        BY <1>4, <3>2, <4>3
      <4>5. CASE w = r /\ ~more
        <5>1. j - 1 \in 1..Len(Lane'[r]) /\ (j - 1) + 1 = j
          BY <1>4, <1>12, <4>4, <4>5
        <5>2. Lane'[r][j - 1] = Lane[r][j]
          BY <1>12, <4>5, <5>1
        <5> QED
          BY <4>3, <4>5, <5>1, <5>2
      <4>6. CASE w = r /\ more
        <5>1. j \in 2..Len(Lane[r]) /\ j \in 1..Len(Lane'[r])
          BY <1>4, <1>12, <4>4, <4>6
        <5> QED
          BY <1>12, <4>3, <4>6, <5>1
      <4>7. CASE w # r
        BY <1>12, <4>3, <4>7
      <4> QED
        BY <4>5, <4>6, <4>7
    <3> QED
      BY <3>1, <3>2
  <2>2. ASSUME NEW v \in Workers, NEW w \in Workers, NEW i \in 1..Len(Lane'[v]),
               NEW j \in 1..Len(Lane'[w]), Lane'[v][i].id = Lane'[w][j].id
        PROVE  v = w /\ i = j
    <3> DEFINE isCut(x, k) == more /\ x = r /\ k = 1 /\ Lane'[x][k].id = b.id
               isOld(x, k) == \E l \in 1..Len(Lane[x]) :
                                /\ Lane'[x][k] = Lane[x][l] /\ Lane[x][l].id # b.id
                                /\ l = IF x = r /\ ~more THEN k + 1 ELSE k
    <3>1. isCut(v, i) \/ isOld(v, i)
      BY <1>9, <1>13
    <3>2. isCut(w, j) \/ isOld(w, j)
      BY <1>9, <1>13
    <3>3. CASE isCut(v, i) \/ isCut(w, j)
      BY <2>2, <3>1, <3>2, <3>3
    <3>4. CASE isOld(v, i) /\ isOld(w, j)
      <4>1. PICK k \in 1..Len(Lane[v]) :
              Lane'[v][i] = Lane[v][k] /\ k = IF v = r /\ ~more THEN i + 1 ELSE i
        BY <3>4
      <4>2. PICK l \in 1..Len(Lane[w]) :
              Lane'[w][j] = Lane[w][l] /\ l = IF w = r /\ ~more THEN j + 1 ELSE j
        BY <3>4
      <4>3. Lane[v][k].id = Lane[w][l].id
        BY <2>2, <4>1, <4>2
      <4>4. v = w /\ k = l
        BY <1>1, <4>3 DEF CoreInv, NoBatchLeaks
      <4> QED
        BY <4>1, <4>2, <4>4
    <3> QED
      BY <3>1, <3>2, <3>3, <3>4
  <2> QED
    BY <1>2, <2>1, <2>2 DEF NoBatchLeaks
<1>22. OneCopy'
  <2>1. ASSUME NEW x \in Clients
        PROVE  /\ client'[x] = "idle" => x \notin lost' /\ toFront'[x] = <<>> /\ fromFront'[x] = <<>> /\ ~Booked(x)'
               /\ toFront'[x] # <<>> => fromFront'[x] = <<>> /\ ~Booked(x)' /\ Len(toFront'[x]) = 1
               /\ fromFront'[x] # <<>> => ~Booked(x)'
               /\ client'[x] = "waiting" =>
                    (x \notin lost' <=> toFront'[x] # <<>> \/ fromFront'[x] # <<>> \/ Booked(x)')
    <3>1. /\ client[x] = "idle" => x \notin lost /\ toFront[x] = <<>> /\ fromFront[x] = <<>> /\ ~Booked(x)
          /\ toFront[x] # <<>> => fromFront[x] = <<>> /\ ~Booked(x) /\ Len(toFront[x]) = 1
          /\ fromFront[x] # <<>> => ~Booked(x)
          /\ client[x] = "waiting" =>
               (x \notin lost <=> toFront[x] # <<>> \/ fromFront[x] # <<>> \/ Booked(x))
      BY <1>1 DEF CoreInv, OneCopy
    <3>2. /\ client'[x] = client[x] /\ toFront'[x] = toFront[x] /\ lost' = lost
          /\ x # c => fromFront'[x] = fromFront[x]
          /\ x = c /\ client[x] = "waiting" => fromFront'[x] # <<>>
      <4>1. UNCHANGED <<client, lost, toFront>>
        BY <1>2
      <4>2. fromFront'[x] = IF x = c /\ client[c] # "gone" THEN <<[from |-> c, n |-> sent[c]]>>
                            ELSE fromFront[x]
        BY <1>11
      <4> HIDE DEF c
      <4> QED
        BY <4>1, <4>2
    <3> QED
      BY <1>10, <1>17, <3>1, <3>2
  <2>2. ASSUME NEW i \in DOMAIN batches', NEW j \in DOMAIN batches',
               NEW k \in 1..Len(batches'[i]), NEW l \in 1..Len(batches'[j]),
               batches'[i][k] = batches'[j][l]
        PROVE  i = j /\ k = l
    <3> DEFINE at(x, y) == IF x = b.id THEN y + 1 ELSE y
    <3>1. /\ i \in DOMAIN batches /\ at(i, k) \in 1..Len(batches[i])
          /\ batches'[i][k] = batches[i][at(i, k)]
      BY <1>15
    <3>2. /\ j \in DOMAIN batches /\ at(j, l) \in 1..Len(batches[j])
          /\ batches'[j][l] = batches[j][at(j, l)]
      BY <1>15
    <3>3. batches[i][at(i, k)] = batches[j][at(j, l)]
      BY <2>2, <3>1, <3>2
    <3>4. i = j /\ at(i, k) = at(j, l)
      <4> HIDE DEF at
      <4> QED
        BY <1>16, <3>1, <3>2, <3>3
    <3> QED
      BY <3>4
  <2> QED
    BY <2>1, <2>2 DEF OneCopy
<1> QED
  BY <1>18, <1>19, <1>20, <1>21, <1>22 DEF CoreInv
\* A crash empties the server; what was kept in a pipe is as it was.
LEMMA CrashStep == ASSUME IndInv, ServerCrash PROVE CoreInv'
<1>1. CoreInv /\ TypeOK
  BY DEF IndInv
<1>2. UNCHANGED <<client, sent>>
  BY DEF ServerCrash
<1>3. \A w \in Workers : Lane'[w] = <<>> /\ Len(Lane'[w]) = 0
  <2>1. <<>> \o <<>> \o <<>> = <<>>
    OBVIOUS
  <2> QED
    BY <2>1 DEF ServerCrash, Lane
<1>4. DOMAIN batches' = {} /\ message_queue' = <<>> /\ Len(message_queue') = 0
  BY DEF ServerCrash
<1>5. LanesGood' /\ QueueGood' /\ NoBatchLeaks'
  BY <1>3, <1>4 DEF LanesGood, QueueGood, NoBatchLeaks
<1>6. ASSUME NEW c \in Clients
      PROVE  /\ toFront'[c] = <<>> \/ (toFront'[c] = toFront[c] /\ client[c] = "waiting")
             /\ fromFront'[c] = <<>> \/ (fromFront'[c] = fromFront[c] /\ client[c] = "waiting")
             /\ client[c] = "waiting" =>
                  (c \in lost' <=> (c \in lost \/ (toFront'[c] = <<>> /\ fromFront'[c] = <<>>)))
             /\ client[c] # "waiting" => (c \in lost' <=> c \in lost)
  <2>1. PICK kept \in SUBSET {d \in Clients : client[d] = "waiting"} :
          /\ toFront' = [d \in Clients |-> IF d \in kept THEN toFront[d] ELSE <<>>]
          /\ fromFront' = [d \in Clients |-> IF d \in kept THEN fromFront[d] ELSE <<>>]
    BY DEF ServerCrash
  <2>2. lost' = lost \cup {d \in Clients : /\ client[d] = "waiting"
                                         /\ toFront'[d] = <<>> /\ fromFront'[d] = <<>>}
    BY DEF ServerCrash
  <2> QED
    BY <2>1, <2>2
<1>7. PipesGood' /\ RepliesRouted'
  BY <1>1, <1>2, <1>6 DEF CoreInv, PipesGood, RepliesRouted
<1>8. \A c \in Clients : ~Booked(c)'
  BY <1>4 DEF Booked
<1>9. OneCopy'
  <2>1. ASSUME NEW c \in Clients
        PROVE  /\ client'[c] = "idle" => c \notin lost' /\ toFront'[c] = <<>> /\ fromFront'[c] = <<>>
               /\ toFront'[c] # <<>> => fromFront'[c] = <<>> /\ Len(toFront'[c]) = 1
               /\ client'[c] = "waiting" => (c \notin lost' <=> toFront'[c] # <<>> \/ fromFront'[c] # <<>>)
    BY <1>1, <1>2, <1>6 DEF CoreInv, OneCopy
  <2> QED
    BY <1>4, <1>8, <2>1 DEF OneCopy
<1> QED
  BY <1>5, <1>7, <1>9 DEF CoreInv
-----------------------------------------------------------------------------
(* What the proxy has seen stays until it reads it.                        *)

LEMMA ProxyInvStep == IndInv /\ [Next]_vars => ProxyInv'
<1> SUFFICES ASSUME IndInv, [Next]_vars PROVE ProxyInv'
  OBVIOUS
<1> USE DEF clientVars, frontVars, batchVars, clockVars, faultVars, ringVars, workerVars
<1>0. TypeOK /\ ProxyInv
  BY DEF IndInv
<1>1. ASSUME NEW c \in Clients, ClientSend(c) PROVE ProxyInv'
  <2>1. FrontReadable => FrontReadable'
    <3>1. Append(toFront[c], [from |-> c, n |-> sent[c] + 1]) # <<>>
      BY <1>0, AppendNotEmpty DEF TypeOK
    <3> QED
      BY <1>0, <1>1, <3>1 DEF ClientSend, FrontReadable, TypeOK
  <2> QED
    BY <1>0, <1>1, <2>1 DEF ClientSend, ProxyInv, BackReadable
<1>2. ASSUME NEW c \in Clients, ClientReceive(c) \/ ClientExit(c) PROVE ProxyInv'
  BY <1>0, <1>2 DEF ClientReceive, ClientExit, ProxyInv, FrontReadable, BackReadable
<1>3. CASE Poll
  BY <1>0, <1>3 DEF Poll, Polled, ProxyInv, FrontReadable, BackReadable
<1>4. CASE FrontSkip \/ \E c \in Clients : FrontRecv(c)
  BY <1>0, <1>4 DEF FrontSkip, FrontRecv, ProxyInv, BackReadable
<1>5. CASE Dispatch \/ NoDispatch
  BY <1>0, <1>5 DEF Dispatch, NoDispatch, ProxyInv, BackReadable
<1>6. CASE BackSkip \/ \E w \in Workers : BackRecv(w)
  BY <1>0, <1>6 DEF BackSkip, BackRecv, ProxyInv
<1>7. CASE Forward
  <2>1. reading \in Workers /\ fromWorker \in [Workers -> Seq(Batch)] /\ fromWorker[reading] # <<>>
    BY <1>0, <1>7 DEF Forward, ProxyInv, TypeOK
  <2>2. ASSUME pc' = "forward" PROVE reading' \in Workers /\ fromWorker'[reading'] # <<>>
    <3> DEFINE cut == [Head(fromWorker[reading]) EXCEPT !.bodies = Tail(@)]
    <3>1. reading' = reading /\ fromWorker'[reading] = <<cut>> \o Tail(fromWorker[reading])
      BY <1>7, <2>1, <2>2 DEF Forward
    <3>2. <<cut>> \o Tail(fromWorker[reading]) # <<>>
      <4>1. fromWorker[reading] \in Seq(Batch)
        BY <2>1
      <4>2. Tail(fromWorker[reading]) \in Seq(Batch) /\ Len(Tail(fromWorker[reading])) \in Nat
        BY <2>1, <4>1, HeadTailProperties, LenProperties
      <4> HIDE DEF cut
      <4>3. <<cut>> \in Seq(Batch \cup {cut}) /\ Tail(fromWorker[reading]) \in Seq(Batch \cup {cut})
        BY <4>2
      <4>4. Len(<<cut>> \o Tail(fromWorker[reading])) = 1 + Len(Tail(fromWorker[reading]))
        BY <4>3, ConcatProperties
      <4> QED
        BY <4>2, <4>4
    <3> QED
      BY <2>1, <3>1, <3>2
  <2>3. pc' \in {"poll", "forward"}
    BY <1>0, <1>7 DEF Forward
  <2> QED
    BY <2>2, <2>3 DEF ProxyInv
<1>8. ASSUME NEW w \in Workers, Connect(w) \/ LoadModel(w) \/ ReceiveBatch(w) PROVE ProxyInv'
  BY <1>0, <1>8 DEF Connect, LoadModel, ReceiveBatch, ProxyInv, FrontReadable, BackReadable
<1>9. ASSUME NEW w \in Workers, RunAndReply(w) PROVE ProxyInv'
  <2> DEFINE b == [id |-> job[w][1].id, bodies |-> Results(job[w][1].bodies)]
  <2>1. /\ fromWorker' = [fromWorker EXCEPT ![w] = Append(@, b)]
        /\ UNCHANGED <<pc, revents, reading, toFront>>
    BY <1>9 DEF RunAndReply
  <2> HIDE DEF b
  <2>2. Append(fromWorker[w], b) # <<>>
    BY <1>0, AppendNotEmpty DEF TypeOK
  <2>3. \A v \in Workers : fromWorker[v] # <<>> => fromWorker'[v] # <<>>
    BY <1>0, <2>1, <2>2 DEF TypeOK
  <2> QED
    BY <1>0, <2>1, <2>3 DEF ProxyInv, FrontReadable, BackReadable
<1>10. CASE ServerCrash
  BY <1>10 DEF ServerCrash, ProxyInv
<1>11. CASE Tick \/ SetClockBack \/ UNCHANGED vars
  BY <1>0, <1>11 DEF Tick, SetClockBack, vars, ProxyInv, FrontReadable, BackReadable
<1> QED
  BY <1>1, <1>2, <1>3, <1>4, <1>5, <1>6, <1>7, <1>8, <1>9, <1>10, <1>11
     DEF Next, ClientStep, ProxyStep, WorkerStep

-----------------------------------------------------------------------------
(* The invariant holds.                                                    *)

LEMMA InitInv == Init => IndInv
<1> SUFFICES ASSUME Init PROVE IndInv
  OBVIOUS
<1> USE BoundAssumption
<1>1. \A S : <<>> \in Seq(S)
  BY EmptySeq
<1>2. TypeOK
  <2>1. /\ DOMAIN batches = {} /\ batches \in [DOMAIN batches -> Seq(Clients)]
        /\ batches \in [{} -> Seq(Clients)]
    BY DEF Init
  <2>2. 0 \in -MaxLatency..MaxLatency /\ 0 \in 0..MaxRequests /\ 0 \in 0..MaxClockSteps
        /\ 0 \in 0..MaxCrashes
    OBVIOUS
  <2>3. turn \in 1..(IF ring = <<>> THEN 1 ELSE Len(ring))
    BY DEF Init
  <2>4. \A w \in Workers : Len(job[w]) <= 1
    BY DEF Init
  <2> QED
    BY <1>1, <2>1, <2>2, <2>3, <2>4 DEF Init, TypeOK
<1>3. \A w \in Workers : Lane[w] = <<>> /\ Len(Lane[w]) = 0
  <2>1. <<>> \o <<>> \o <<>> = <<>>
    OBVIOUS
  <2> QED
    BY <2>1 DEF Init, Lane
<1>4. DOMAIN batches = {} /\ message_queue = <<>> /\ Len(message_queue) = 0
  BY DEF Init
<1>5. LanesGood /\ QueueGood /\ NoBatchLeaks
  BY <1>3, <1>4 DEF LanesGood, QueueGood, NoBatchLeaks
<1>6. PipesGood /\ RepliesRouted /\ OneCopy
  BY <1>4 DEF Init, PipesGood, RepliesRouted, OneCopy, Booked
<1>7. ProxyInv
  BY DEF Init, ProxyInv
<1> QED
  BY <1>2, <1>5, <1>6, <1>7 DEF IndInv, CoreInv

LEMMA CoreStep == IndInv /\ [Next]_vars => CoreInv'
<1> SUFFICES ASSUME IndInv, [Next]_vars PROVE CoreInv'
  OBVIOUS
<1> USE DEF clientVars, frontVars, batchVars, clockVars, faultVars, ringVars, workerVars
<1>2. CoreInv /\ TypeOK
  BY DEF IndInv
<1>3. CASE \E c \in Clients : ClientStep(c) \/ FrontRecv(c)
  BY <1>3, SendStep, ReceiveStep, ExitStep, BookStep DEF ClientStep
<1>4. CASE Dispatch
  BY <1>4, DispatchStep
<1>5. CASE Forward
  BY <1>5, ForwardStep
<1>6. CASE Poll \/ FrontSkip \/ NoDispatch \/ BackSkip \/ \E w \in Workers : BackRecv(w)
  BY <1>2, <1>6, QuietStep DEF Poll, FrontSkip, NoDispatch, BackSkip, BackRecv, Lane
<1>7. CASE \E w \in Workers : Connect(w) \/ LoadModel(w)
  BY <1>2, <1>7, QuietStep DEF Connect, LoadModel, Lane
<1>8. ASSUME NEW w \in Workers, ReceiveBatch(w) PROVE CoreInv'
  BY <1>2, <1>8, LaneReceive, QuietStep DEF ReceiveBatch
<1>9. ASSUME NEW w \in Workers, RunAndReply(w) PROVE CoreInv'
  BY <1>2, <1>9, LaneReply, QuietStep DEF RunAndReply
<1>10. CASE ServerCrash
  BY <1>10, CrashStep
<1>11. CASE Tick \/ SetClockBack \/ UNCHANGED vars
  BY <1>2, <1>11, QuietStep DEF Tick, SetClockBack, vars, Lane
<1> QED
  BY <1>3, <1>4, <1>5, <1>6, <1>7, <1>8, <1>9, <1>10, <1>11 DEF Next, ProxyStep, WorkerStep

LEMMA Invariance == SafeSpec => []IndInv
<1>1. IndInv /\ [Next]_vars => IndInv'
  BY TypeStep, CoreStep, ProxyInvStep DEF IndInv
<1> QED
  BY <1>1, InitInv, PTL DEF SafeSpec

(***************************************************************************)
(* Type correctness of the server, for any clients, workers and limits.    *)
(***************************************************************************)
THEOREM Typing == SafeSpec => []TypeOK
<1>1. IndInv => TypeOK
  BY DEF IndInv
<1> QED
  BY <1>1, Invariance, PTL

(***************************************************************************)
(* The id of every reply is known and its batch is as it was collected:    *)
(* the assertion of line 91 of inf_dynamic_batching.hpp never fails.       *)
(***************************************************************************)
THEOREM BatchesAreRegistered == SafeSpec => []BatchesRegistered
<1>1. IndInv => BatchesRegistered
  BY DEF IndInv, CoreInv, LanesGood, Good, QueueGood, BatchesRegistered
<1> QED
  BY <1>1, Invariance, PTL

(***************************************************************************)
(* batches holds exactly the batch being collected and those in flight.    *)
(***************************************************************************)
THEOREM BatchesDoNotLeak == SafeSpec => []NoBatchLeaks
<1>1. IndInv => NoBatchLeaks
  BY DEF IndInv, CoreInv
<1> QED
  BY <1>1, Invariance, PTL

(***************************************************************************)
(* Every client is sent the results of its own requests only, in turn,     *)
(* whatever the order in which the workers reply.                          *)
(***************************************************************************)
THEOREM RoutingIsCorrect == SafeSpec => []RepliesRouted
<1>1. IndInv => RepliesRouted
  BY DEF IndInv, CoreInv
<1> QED
  BY <1>1, Invariance, PTL

(***************************************************************************)
(* No request is lost or duplicated between a client and its answer.       *)
(***************************************************************************)
THEOREM RequestsAreConserved == SafeSpec => []OneCopy
<1>1. IndInv => OneCopy
  BY DEF IndInv, CoreInv
<1> QED
  BY <1>1, Invariance, PTL

(***************************************************************************)
(* No recv of the proxy loop finds less than poll announced.               *)
(***************************************************************************)
THEOREM ProxyRecvNeverBlocks == SafeSpec => []RecvNeverBlocks
<1>1. IndInv => RecvNeverBlocks
  <2> SUFFICES ASSUME IndInv PROVE RecvNeverBlocks
    OBVIOUS
  <2>1. pc = "forward" => Registered(Head(fromWorker[reading]))
    BY ReadingGood DEF Good
  <2> QED
    BY <2>1 DEF IndInv, ProxyInv, RecvNeverBlocks
<1> QED
  BY <1>1, Invariance, PTL
-----------------------------------------------------------------------------
(* Two consequences: batches are never larger than the models allow, and   *)
(* the server implements the safety part of InferenceService.              *)

(***************************************************************************)
(* An entry of batches is never longer than a batch may be, and except     *)
(* between reading a request and the test of line 64 there is room for one *)
(* more: that test comes after each request that is read.                  *)
(***************************************************************************)
SizeInv ==
  MaxBatch > 0 => /\ \A i \in DOMAIN batches : Len(batches[i]) <= MaxBatch
                  /\ pc # "dispatch" => Len(message_queue) < MaxBatch

\* What is registered is bounded by what batches holds.
LEMMA Bounded == IndInv /\ SizeInv => BatchBounded
<1> SUFFICES ASSUME IndInv, SizeInv PROVE BatchBounded
  OBVIOUS
<1>1. ASSUME NEW w \in Workers, NEW i \in 1..Len(Lane[w])
      PROVE  /\ Len(Lane[w][i].bodies) >= 1
             /\ MaxBatch > 0 => Len(Lane[w][i].bodies) <= MaxBatch
  <2>1. Good(Lane[w][i])
    BY DEF IndInv, CoreInv, LanesGood
  <2> QED
    BY <2>1 DEF Good, Registered, SizeInv
<1>2. ASSUME MaxBatch > 0 PROVE Len(message_queue) <= MaxBatch
  <2>1. CASE message_queue = <<>>
    BY <1>2, <2>1, BatchAssumption
  <2>2. CASE message_queue # <<>>
    BY <1>2, <2>2 DEF IndInv, CoreInv, QueueGood, Registered, SizeInv
  <2> QED
    BY <2>1, <2>2
<1> QED
  BY <1>1, <1>2 DEF BatchBounded

\* A request that is read makes its batch longer by one, which there was room for.
LEMMA SizeBook ==
  ASSUME IndInv, SizeInv, NEW c \in Clients, FrontRecv(c) PROVE SizeInv'
<1>1. message_queue' = Append(message_queue, Head(toFront[c])) /\ batch_id' = batch_id
      /\ pc = "front" /\ pc' = "dispatch" /\ batches' = BookAddress(c) /\ toFront[c] # <<>>
  BY DEF FrontRecv
<1>2. message_queue \in Seq(Request) /\ Head(toFront[c]) \in Request /\ Len(message_queue) \in Nat
  <2>1. toFront[c] \in Seq(Request) /\ message_queue \in Seq(Request)
    BY DEF IndInv, TypeOK
  <2> QED
    BY <1>1, <2>1, HeadTailProperties, LenProperties
<1>3. Len(message_queue') = Len(message_queue) + 1 /\ message_queue' # <<>>
  BY <1>1, <1>2, AppendProperties
<1>4. Len(batches'[batch_id]) = Len(message_queue) + 1
  <2>1. CoreInv'
    BY BookStep
  <2> QED
    BY <1>1, <1>3, <2>1 DEF CoreInv, QueueGood, Registered
<1>5. /\ DOMAIN batches' = DOMAIN batches \cup {batch_id}
      /\ \A i \in DOMAIN batches : i # batch_id => batches'[i] = batches[i]
  BY <1>1 DEF BookAddress
<1> QED
  BY <1>1, <1>2, <1>4, <1>5, BatchAssumption DEF SizeInv

\* Forwarding only shortens an entry or removes it.
LEMMA SizeForward == ASSUME IndInv, SizeInv, Forward PROVE SizeInv'
<1> DEFINE id == Head(fromWorker[reading]).id
           addrs == batches[id]
<1>1. /\ pc = "forward" /\ message_queue' = message_queue
      /\ \/ Len(addrs) > 1 /\ batches' = [batches EXCEPT ![id] = Tail(@)]
         \/ batches' = [i \in DOMAIN batches \ {id} |-> batches[i]]
  BY DEF Forward, EraseBatch, batchVars
<1>2. id \in DOMAIN batches /\ addrs \in Seq(Clients) /\ addrs # <<>>
  <2>1. Good(Head(fromWorker[reading])) /\ Head(fromWorker[reading]) \in Batch
    BY <1>1, ReadingGood
  <2>2. id \in DOMAIN batches /\ Len(addrs) >= 1
    BY <2>1 DEF Good, Registered
  <2>3. addrs \in Seq(Clients)
    BY <2>2 DEF IndInv, TypeOK
  <2> QED
    BY <2>2, <2>3, EmptySeq
<1>3. Len(Tail(addrs)) = Len(addrs) - 1 /\ Len(addrs) \in Nat
  BY <1>2, HeadTailProperties, LenProperties
<1> HIDE DEF id
<1>4. \A i \in DOMAIN batches' : /\ i \in DOMAIN batches
                                 /\ MaxBatch > 0 /\ Len(batches[i]) <= MaxBatch
                                      => Len(batches'[i]) <= MaxBatch
  BY <1>1, <1>2, <1>3, BatchAssumption
<1> QED
  BY <1>1, <1>4 DEF SizeInv

LEMMA SizeStep == IndInv /\ SizeInv /\ [Next]_vars => SizeInv'
<1> SUFFICES ASSUME IndInv, SizeInv, [Next]_vars PROVE SizeInv'
  OBVIOUS
<1> USE DEF clientVars, frontVars, batchVars, clockVars, faultVars, ringVars, workerVars
<1>1. CASE \E c \in Clients : ClientStep(c)
  BY <1>1 DEF ClientStep, ClientSend, ClientReceive, ClientExit, SizeInv
<1>2. CASE \E c \in Clients : FrontRecv(c)
  BY <1>2, SizeBook
<1>3. CASE Poll \/ FrontSkip \/ BackSkip \/ \E w \in Workers : BackRecv(w)
  BY <1>3 DEF Poll, FrontSkip, BackSkip, BackRecv, SizeInv
<1>4. CASE Dispatch
  <2>1. Len(message_queue') = 0
    BY <1>4, EmptySeq DEF Dispatch
  <2> QED
    BY <1>4, <2>1 DEF Dispatch, SizeInv
<1>5. CASE NoDispatch
  <2>1. Len(message_queue) \in Nat
    BY LenProperties DEF IndInv, TypeOK
  <2> QED
    BY <1>5, <2>1, BatchAssumption DEF NoDispatch, BatchDue, BatchFull, SizeInv
<1>6. CASE Forward
  BY <1>6, SizeForward
<1>7. CASE \E w \in Workers : WorkerStep(w)
  BY <1>7 DEF WorkerStep, Connect, LoadModel, ReceiveBatch, RunAndReply, SizeInv
<1>8. CASE ServerCrash
  BY <1>8, EmptySeq, BatchAssumption DEF ServerCrash, SizeInv
<1>9. CASE Tick \/ SetClockBack \/ UNCHANGED vars
  BY <1>9 DEF Tick, SetClockBack, vars, SizeInv
<1> QED
  BY <1>1, <1>2, <1>3, <1>4, <1>5, <1>6, <1>7, <1>8, <1>9 DEF Next, ProxyStep

(***************************************************************************)
(* No batch is empty or larger than max_batch_size, for any positive limit *)
(* and any number of clients; with a negative one none is empty.           *)
(***************************************************************************)
THEOREM BatchesAreBounded == SafeSpec => []BatchBounded
<1>1. Init => SizeInv
  BY EmptySeq, BatchAssumption DEF Init, SizeInv
<1>2. SafeSpec => []SizeInv
  BY <1>1, SizeStep, Invariance, PTL DEF SafeSpec
<1> QED
  BY <1>2, Bounded, Invariance, PTL

-----------------------------------------------------------------------------
(* The server implements InferenceService.                                 *)

\* A client is answered while it waits, or is gone and gets nothing.
LEMMA ForwardAnswers ==
  ASSUME IndInv, Forward
  PROVE  (\E c \in Clients : Service!Answer(c)) \/ UNCHANGED Service!vars
<1> DEFINE b == Head(fromWorker[reading])
           addrs == batches[b.id]
           c == Head(addrs)
           m == Head(b.bodies)
<1>1. pc = "forward" /\ fromFront' = SendToClient(c, m) /\ UNCHANGED <<client, sent, lost>>
  BY DEF Forward, clientVars
<1>2. b \in Batch /\ Good(b)
  BY <1>1, ReadingGood
<1>3. /\ b.id \in DOMAIN batches /\ b.bodies \in Seq(Request)
      /\ Len(addrs) = Len(b.bodies) /\ Len(addrs) >= 1
      /\ \A k \in 1..Len(addrs) : b.bodies[k].from = addrs[k] /\ b.bodies[k].n = sent[b.bodies[k].from]
  BY <1>2 DEF Good, Registered, Batch
<1>4. addrs \in Seq(Clients)
  BY <1>3 DEF IndInv, TypeOK
<1>5. addrs # <<>> /\ b.bodies # <<>> /\ 1 \in 1..Len(addrs)
  BY <1>3, <1>4, EmptySeq, LenProperties
<1>6. c = addrs[1] /\ c \in Clients /\ m = b.bodies[1] /\ m \in Request
  BY <1>3, <1>4, <1>5, HeadTailProperties
<1>7. m = [from |-> c, n |-> sent[c]]
  <2>1. m.from = c /\ m.n = sent[c]
    BY <1>3, <1>5, <1>6
  <2> QED
    BY <1>6, <2>1 DEF Request
<1>8. client[c] # "idle" /\ fromFront[c] = <<>>
  <2>1. Booked(c)
    BY <1>3, <1>5, <1>6 DEF Booked
  <2> QED
    BY <1>6, <2>1 DEF IndInv, CoreInv, OneCopy
<1> HIDE DEF c, m
<1>9. CASE client[c] = "gone"
  BY <1>1, <1>9 DEF SendToClient, Service!vars
<1>10. CASE client[c] # "gone"
  <2>1. client[c] = "waiting"
    BY <1>6, <1>8, <1>10 DEF IndInv, TypeOK
  <2>2. fromFront' = [fromFront EXCEPT ![c] = Append(fromFront[c], m)]
    BY <1>1, <1>10 DEF SendToClient
  <2>3. Append(fromFront[c], m) = <<[from |-> c, n |-> sent[c]]>>
    BY <1>7, <1>8
  <2>4. c \notin lost
    BY <1>3, <1>5, <1>6, <2>1 DEF Booked, IndInv, CoreInv, OneCopy
  <2>5. Service!Answer(c)
    BY <1>1, <1>8, <2>1, <2>2, <2>3, <2>4 DEF Service!Answer
  <2> QED
    BY <1>6, <2>5
<1> QED
  BY <1>9, <1>10

\* Those that the crash leaves with nothing lose their exchange, the others nothing.
LEMMA CrashLoses ==
  ASSUME IndInv, ServerCrash
  PROVE  \E S \in SUBSET Clients : Service!Lose(S)
<1> DEFINE S == {c \in Clients : client[c] = "waiting" /\ toFront'[c] = <<>> /\ fromFront'[c] = <<>>}
<1>1. lost' = lost \cup S /\ UNCHANGED <<client, sent>>
  BY DEF ServerCrash
<1>2. ASSUME NEW c \in Clients
      PROVE  fromFront'[c] = IF c \in S THEN <<>> ELSE fromFront[c]
  <2>1. /\ toFront'[c] # <<>> => toFront[c] # <<>> /\ client[c] = "waiting"
        /\ fromFront'[c] # <<>> => fromFront'[c] = fromFront[c]
    BY DEF ServerCrash
  <2>2. /\ toFront[c] # <<>> => fromFront[c] = <<>>
        /\ client[c] # "waiting" => fromFront[c] = <<>>
    BY DEF IndInv, CoreInv, OneCopy, RepliesRouted
  <2> QED
    BY <2>1, <2>2
<1>3. fromFront' = [c \in Clients |-> IF c \in S THEN <<>> ELSE fromFront[c]]
  <2>1. fromFront' = [c \in Clients |-> fromFront'[c]]
    BY DEF ServerCrash
  <2> QED
    BY <1>2, <2>1, Zenon
<1> QED
  BY <1>1, <1>3 DEF Service!Lose

\* Every step of the server is one of the service, or leaves it as it is.
LEMMA StepRefines == IndInv /\ [Next]_vars => [Service!Next]_(Service!vars)
<1> SUFFICES ASSUME IndInv, [Next]_vars PROVE [Service!Next]_(Service!vars)
  OBVIOUS
<1> USE DEF clientVars, frontVars, workerVars
<1>1. ASSUME NEW c \in Clients, ClientSend(c) PROVE Service!Ask(c)
  BY <1>1 DEF ClientSend, Service!Ask
<1>2. ASSUME NEW c \in Clients, ClientReceive(c) PROVE Service!Take(c)
  <2>1. fromFront[c] = <<[from |-> c, n |-> sent[c]]>>
    BY <1>2 DEF ClientReceive, IndInv, CoreInv, RepliesRouted
  <2>2. Tail(fromFront[c]) = <<>>
    BY <2>1
  <2> QED
    BY <1>2, <2>2 DEF ClientReceive, Service!Take
<1>3. ASSUME NEW c \in Clients, ClientExit(c) PROVE Service!Leave(c)
  BY <1>3 DEF ClientExit, Service!Leave
<1>4. CASE Forward
  BY <1>4, ForwardAnswers DEF Service!Next
<1>5. CASE \/ Poll \/ FrontSkip \/ Dispatch \/ NoDispatch \/ BackSkip
           \/ \E c \in Clients : FrontRecv(c)
           \/ \E w \in Workers : BackRecv(w)
  BY <1>5 DEF Poll, FrontSkip, Dispatch, NoDispatch, BackSkip, FrontRecv, BackRecv, Service!vars
<1>6. CASE \E w \in Workers : WorkerStep(w)
  BY <1>6 DEF WorkerStep, Connect, LoadModel, ReceiveBatch, RunAndReply, Service!vars
<1>7. CASE ServerCrash
  BY <1>7, CrashLoses DEF Service!Next
<1>8. CASE Tick \/ SetClockBack \/ UNCHANGED vars
  BY <1>8 DEF Tick, SetClockBack, vars, Service!vars
<1> QED
  BY <1>1, <1>2, <1>3, <1>4, <1>5, <1>6, <1>7, <1>8 DEF Next, ClientStep, ProxyStep, Service!Next

(***************************************************************************)
(* The server implements the safety part of InferenceService: whatever the *)
(* batching does, each request gets its own result, at most once.          *)
(***************************************************************************)
THEOREM ImplementsService == SafeSpec => ServiceSafe
<1>1. Init => Service!Init
  BY DEF Init, Service!Init
<1> QED
  BY <1>1, StepRefines, Invariance, PTL DEF SafeSpec, ServiceSafe, Service!SafeSpec

-----------------------------------------------------------------------------
(* What the server holds is bounded by its clients.                        *)

\* The batches dealt and not yet answered: the i-th of the lane of w.
InFlight == {p \in Workers \X Nat : p[2] \in 1..Len(Lane[p[1]])}

(***************************************************************************)
(* A client has one request at a time, so neither the map of the proxy,    *)
(* nor its queue, nor all the pipes to and from the workers together hold  *)
(* more than one entry per client: with fewer clients than the high-water  *)
(* mark of ZeroMQ (1000) no send of the server drops or blocks on it.      *)
(***************************************************************************)
HeldByClients ==
  /\ IsFiniteSet(DOMAIN batches) /\ Cardinality(DOMAIN batches) <= Cardinality(Clients)
  /\ IsFiniteSet(InFlight) /\ Cardinality(InFlight) <= Cardinality(Clients)
  /\ Len(message_queue) <= Cardinality(Clients)

\* No entry is without an address.
LEMMA EntriesHaveAddresses ==
  ASSUME IndInv, NEW i \in DOMAIN batches
  PROVE  1 \in 1..Len(batches[i]) /\ batches[i][1] \in Clients
<1>1. batches[i] \in Seq(Clients) /\ Len(batches[i]) \in Nat
  BY LenProperties DEF IndInv, TypeOK
<1>2. Len(batches[i]) >= 1
  <2>1. CASE i = batch_id /\ message_queue # <<>>
    <3>1. Len(message_queue) \in Nat /\ Len(message_queue) >= 1
      BY <2>1, EmptySeq, LenProperties DEF IndInv, TypeOK
    <3> QED
      BY <2>1, <3>1 DEF IndInv, CoreInv, QueueGood, Registered
  <2>2. ASSUME NEW w \in Workers, NEW j \in 1..Len(Lane[w]), Lane[w][j].id = i
        PROVE  Len(batches[i]) >= 1
    <3>1. Good(Lane[w][j])
      BY DEF IndInv, CoreInv, LanesGood
    <3> QED
      BY <2>2, <3>1 DEF Good, Registered
  <2> QED
    BY <2>1, <2>2 DEF IndInv, CoreInv, NoBatchLeaks
<1>3. 1 \in 1..Len(batches[i])
  BY <1>1, <1>2
<1> QED
  BY <1>1, <1>3, ElementOfSeq

\* Two entries have no client in common: each is known by its first.
LEMMA MapBounded ==
  ASSUME IndInv, IsFiniteSet(Clients)
  PROVE  IsFiniteSet(DOMAIN batches) /\ Cardinality(DOMAIN batches) <= Cardinality(Clients)
<1> DEFINE first == [i \in DOMAIN batches |-> batches[i][1]]
<1>1. first \in [DOMAIN batches -> Clients]
  BY EntriesHaveAddresses
<1>2. ASSUME NEW i \in DOMAIN batches, NEW j \in DOMAIN batches, first[i] = first[j]
      PROVE  i = j
  BY <1>2, EntriesHaveAddresses DEF IndInv, CoreInv, OneCopy
<1>3. first \in Injection(DOMAIN batches, Clients)
  BY <1>1, <1>2 DEF Injection, IsInjective
<1> QED
  BY <1>3, FS_Injection

\* Two batches in flight have different entries.
LEMMA FlightBounded ==
  ASSUME IndInv, IsFiniteSet(Clients)
  PROVE  IsFiniteSet(InFlight) /\ Cardinality(InFlight) <= Cardinality(Clients)
<1> DEFINE entry == [p \in InFlight |-> Lane[p[1]][p[2]].id]
<1>1. ASSUME NEW p \in InFlight
      PROVE  p = <<p[1], p[2]>> /\ p[1] \in Workers /\ p[2] \in 1..Len(Lane[p[1]])
  BY DEF InFlight
<1>2. entry \in [InFlight -> DOMAIN batches]
  <2> SUFFICES ASSUME NEW p \in InFlight PROVE Lane[p[1]][p[2]].id \in DOMAIN batches
    OBVIOUS
  <2>1. Good(Lane[p[1]][p[2]])
    BY <1>1 DEF IndInv, CoreInv, LanesGood
  <2> QED
    BY <2>1 DEF Good, Registered
<1>3. ASSUME NEW p \in InFlight, NEW q \in InFlight, entry[p] = entry[q] PROVE p = q
  <2>1. Lane[p[1]][p[2]].id = Lane[q[1]][q[2]].id
    BY <1>3
  <2>2. p[1] = q[1] /\ p[2] = q[2]
    BY <1>1, <2>1 DEF IndInv, CoreInv, NoBatchLeaks
  <2> QED
    BY <1>1, <2>2
<1>4. entry \in Injection(InFlight, DOMAIN batches)
  <2> HIDE DEF entry
  <2>1. DOMAIN entry = InFlight
    BY <1>2
  <2> QED
    BY <1>2, <1>3, <2>1 DEF Injection, IsInjective
<1>5. IsFiniteSet(DOMAIN batches) /\ Cardinality(DOMAIN batches) <= Cardinality(Clients)
  BY MapBounded
<1>6. IsFiniteSet(InFlight) /\ Cardinality(InFlight) <= Cardinality(DOMAIN batches)
  BY <1>4, <1>5, FS_Injection
<1>7. /\ Cardinality(InFlight) \in Nat /\ Cardinality(Clients) \in Nat
      /\ Cardinality(DOMAIN batches) \in Nat
  BY <1>5, <1>6, FS_CardinalityType
<1> QED
  BY <1>5, <1>6, <1>7

LEMMA IntervalSize == ASSUME NEW n \in Nat PROVE Cardinality(1..n) = n
<1>1. Cardinality(1..n) = IF 1 > n THEN 0 ELSE n - 1 + 1
  BY FS_Interval
<1> QED
  BY <1>1

\* The requests being collected are of different clients.
LEMMA QueueBounded ==
  ASSUME IndInv, IsFiniteSet(Clients)
  PROVE  Len(message_queue) <= Cardinality(Clients)
<1> DEFINE n == Len(message_queue)
           sender == [k \in 1..n |-> message_queue[k].from]
<1>1. n \in Nat /\ Cardinality(Clients) \in Nat
  BY LenProperties, FS_CardinalityType DEF IndInv, TypeOK
<1>2. CASE n = 0
  BY <1>1, <1>2
<1>3. CASE n # 0
  <2>1. Registered([id |-> batch_id, bodies |-> message_queue])
    BY <1>3, EmptySeq DEF IndInv, CoreInv, QueueGood
  <2>2. /\ batch_id \in DOMAIN batches /\ n = Len(batches[batch_id])
        /\ \A k \in 1..n : sender[k] = batches[batch_id][k]
    BY <2>1 DEF Registered
  <2>3. sender \in [1..n -> Clients]
    <3>1. \A k \in 1..n : message_queue[k] \in Request
      BY QueueElement DEF IndInv
    <3> QED
      BY <3>1 DEF Request
  <2> HIDE DEF sender
  <2>4. ASSUME NEW k \in 1..n, NEW l \in 1..n, sender[k] = sender[l] PROVE k = l
    BY <2>2, <2>4 DEF IndInv, CoreInv, OneCopy
  <2>5. sender \in Injection(1..n, Clients)
    BY <2>3, <2>4 DEF Injection, IsInjective
  <2>6. Cardinality(1..n) <= Cardinality(Clients)
    BY <2>5, FS_Injection
  <2>7. Cardinality(1..n) = n
    BY <1>1, IntervalSize
  <2> QED
    BY <2>6, <2>7
<1> QED
  BY <1>2, <1>3

\* The server's memory is bounded by the number of its clients.
THEOREM ServerIsBounded == IsFiniteSet(Clients) => (SafeSpec => []HeldByClients)
<1> SUFFICES ASSUME IsFiniteSet(Clients) PROVE SafeSpec => []HeldByClients
  OBVIOUS
<1>1. IndInv => HeldByClients
  BY MapBounded, FlightBounded, QueueBounded DEF HeldByClients
<1> QED
  BY <1>1, Invariance, PTL

-----------------------------------------------------------------------------
(* Where the request of a waiting client is.                               *)

Contains(s, r) == \E k \in 1..Len(s) : s[k] = r

(***************************************************************************)
(* A client waits for something: its latest request (or its result) is in  *)
(* the ROUTER's pipe, in the batch being collected, in a batch with the    *)
(* workers or on its way back, unless a crash lost it. No step of the      *)
(* batching drops a request whose client then waits for ever.              *)
(***************************************************************************)
WaitsForSomething ==
  \A c \in Clients : client[c] = "waiting" /\ c \notin lost =>
    LET r == [from |-> c, n |-> sent[c]] IN
      \/ toFront[c] = <<r>>
      \/ Contains(message_queue, r)
      \/ \E w \in Workers : \E i \in 1..Len(Lane[w]) : Contains(Lane[w][i].bodies, r)
      \/ fromFront[c] = <<r>>

\* A booked address has its request in the batch of the entry it is in.
LEMMA BookedIsHeld ==
  ASSUME IndInv, NEW c \in Clients, Booked(c)
  PROVE  LET r == [from |-> c, n |-> sent[c]] IN
           \/ Contains(message_queue, r)
           \/ \E w \in Workers : \E i \in 1..Len(Lane[w]) : Contains(Lane[w][i].bodies, r)
<1> DEFINE r == [from |-> c, n |-> sent[c]]
<1>0. PICK i \in DOMAIN batches : \E k \in 1..Len(batches[i]) : batches[i][k] = c
  BY DEF Booked
<1>1. PICK k \in 1..Len(batches[i]) : batches[i][k] = c
  BY <1>0
<1>2. CASE i = batch_id /\ message_queue # <<>>
  <2>1. k \in 1..Len(message_queue) /\ message_queue[k].from = c /\ message_queue[k].n = sent[c]
    BY <1>1, <1>2 DEF IndInv, CoreInv, QueueGood, Registered
  <2>2. message_queue[k] = r
    BY <2>1, QueueElement DEF IndInv, Request
  <2> QED
    BY <2>1, <2>2 DEF Contains
<1>3. ASSUME NEW w \in Workers, NEW j \in 1..Len(Lane[w]), Lane[w][j].id = i
      PROVE  Contains(Lane[w][j].bodies, r)
  <2> DEFINE b == Lane[w][j]
  <2>1. Good(b)
    BY DEF IndInv, CoreInv, LanesGood
  <2>2. k \in 1..Len(b.bodies) /\ b.bodies[k].from = c /\ b.bodies[k].n = sent[c]
    BY <1>1, <1>3, <2>1 DEF Good, Registered
  <2>3. b.bodies[k] \in Request
    BY <2>2, LaneElement DEF IndInv
  <2>4. b.bodies[k] = r
    BY <2>2, <2>3 DEF Request
  <2> QED
    BY <2>2, <2>4 DEF Contains
<1> QED
  BY <1>2, <1>3 DEF IndInv, CoreInv, NoBatchLeaks

\* Follows from the copies and their addresses, which the proxy keeps apart.
THEOREM RequestsAreSomewhere == SafeSpec => []WaitsForSomething
<1>1. IndInv => WaitsForSomething
  <2> SUFFICES ASSUME IndInv, NEW c \in Clients, client[c] = "waiting", c \notin lost
               PROVE  LET r == [from |-> c, n |-> sent[c]] IN
                        \/ toFront[c] = <<r>>
                        \/ Contains(message_queue, r)
                        \/ \E w \in Workers : \E i \in 1..Len(Lane[w]) :
                             Contains(Lane[w][i].bodies, r)
                        \/ fromFront[c] = <<r>>
    BY DEF WaitsForSomething
  <2>1. toFront[c] # <<>> \/ fromFront[c] # <<>> \/ Booked(c)
    BY DEF IndInv, CoreInv, OneCopy
  <2>2. /\ toFront[c] # <<>> => toFront[c] = <<[from |-> c, n |-> sent[c]]>>
        /\ fromFront[c] # <<>> => fromFront[c] = <<[from |-> c, n |-> sent[c]]>>
    BY DEF IndInv, CoreInv, PipesGood, RepliesRouted
  <2> QED
    BY <2>1, <2>2, BookedIsHeld
<1> QED
  BY <1>1, Invariance, PTL

-----------------------------------------------------------------------------
(* The DEALER and the workers it deals to.                                 *)

\* The ring holds the workers that have connected, once each.
RingGood ==
  /\ \A w \in Workers : worker[w] = "starting" <=> \A i \in 1..Len(ring) : ring[i] # w
  /\ \A i, j \in 1..Len(ring) : ring[i] = ring[j] => i = j

\* A batch waits only for a worker that has connected, and is run by one
\* that has loaded its model.
LanesServed ==
  \A w \in Workers : /\ worker[w] = "starting" => toWorker[w] = <<>>
                     /\ worker[w] # "serving" => job[w] = <<>> /\ fromWorker[w] = <<>>

RingInv == RingGood /\ LanesServed

\* A worker connects once and is the newest of the ring.
LEMMA ConnectRing == ASSUME TypeOK, RingInv, NEW w \in Workers, Connect(w) PROVE RingInv'
<1>1. /\ worker[w] = "starting" /\ worker' = [worker EXCEPT ![w] = "loading"]
      /\ ring' = Append(ring, w) /\ UNCHANGED <<toWorker, job, fromWorker>>
  BY DEF Connect
<1>2. /\ ring \in Seq(Workers) /\ Len(ring) \in Nat
      /\ worker \in [Workers -> {"starting", "loading", "serving"}]
  BY LenProperties DEF TypeOK
<1>3. /\ Len(ring') = Len(ring) + 1 /\ ring'[Len(ring) + 1] = w
      /\ \A i \in 1..Len(ring) : ring'[i] = ring[i]
  BY <1>1, <1>2, AppendProperties
<1>4. \A i \in 1..Len(ring) : ring[i] # w
  BY <1>1 DEF RingInv, RingGood
<1>5. /\ Len(ring) + 1 \in 1..Len(ring')
      /\ \A i \in 1..Len(ring') : i \in 1..Len(ring) \/ i = Len(ring) + 1
      /\ \A i \in 1..Len(ring) : i \in 1..Len(ring')
  BY <1>2, <1>3
<1>6. \A v \in Workers : worker'[v] = IF v = w THEN "loading" ELSE worker[v]
  BY <1>1, <1>2
<1>7. RingGood'
  <2>1. ASSUME NEW v \in Workers
        PROVE  worker'[v] = "starting" <=> \A i \in 1..Len(ring') : ring'[i] # v
    <3>1. CASE v = w
      BY <1>3, <1>5, <1>6, <3>1
    <3>2. CASE v # w
      BY <1>3, <1>5, <1>6, <3>2 DEF RingInv, RingGood
    <3> QED
      BY <3>1, <3>2
  <2>2. ASSUME NEW i \in 1..Len(ring'), NEW j \in 1..Len(ring'), ring'[i] = ring'[j]
        PROVE  i = j
    BY <1>3, <1>4, <1>5, <2>2 DEF RingInv, RingGood
  <2> QED
    BY <2>1, <2>2 DEF RingGood
<1>8. LanesServed'
  BY <1>1, <1>6 DEF RingInv, LanesServed
<1> QED
  BY <1>7, <1>8 DEF RingInv

LEMMA RingStep == IndInv /\ RingInv /\ [Next]_vars => RingInv'
<1> SUFFICES ASSUME IndInv, RingInv, [Next]_vars PROVE RingInv'
  OBVIOUS
<1>0. TypeOK
  BY DEF IndInv
<1> USE DEF clientVars, frontVars, batchVars, clockVars, faultVars, ringVars, workerVars
<1>t. /\ worker \in [Workers -> {"starting", "loading", "serving"}]
      /\ toWorker \in [Workers -> Seq(Batch)] /\ job \in [Workers -> Seq(Batch)]
      /\ fromWorker \in [Workers -> Seq(Batch)]
  BY <1>0 DEF TypeOK
<1>1. CASE UNCHANGED <<ring, worker, toWorker, job, fromWorker>>
  BY <1>1 DEF RingInv, RingGood, LanesServed
<1>2. CASE \/ \E c \in Clients : ClientStep(c) \/ FrontRecv(c)
           \/ Poll \/ FrontSkip \/ NoDispatch \/ BackSkip \/ Tick \/ SetClockBack
           \/ \E w \in Workers : BackRecv(w)
           \/ UNCHANGED vars
  <2>1. UNCHANGED <<ring, worker, toWorker, job, fromWorker>>
    BY <1>2 DEF ClientStep, ClientSend, ClientReceive, ClientExit, FrontRecv, Poll, FrontSkip,
       NoDispatch, BackSkip, BackRecv, Tick, SetClockBack, vars
  <2> QED
    BY <1>1, <2>1
<1>3. CASE Dispatch
  <2>1. /\ ring # <<>> /\ UNCHANGED <<ring, worker, job, fromWorker>>
        /\ \A w \in Workers : w # ring[turn] => toWorker'[w] = toWorker[w]
    BY <1>t, <1>3 DEF Dispatch
  <2>2. ring \in Seq(Workers) /\ turn \in 1..Len(ring)
    BY <1>0, <2>1 DEF TypeOK
  <2>3. ring[turn] \in Workers /\ worker[ring[turn]] # "starting"
    BY <2>2, ElementOfSeq DEF RingInv, RingGood
  <2> QED
    BY <2>1, <2>3 DEF RingInv, RingGood, LanesServed
<1>4. CASE Forward
  <2>1. UNCHANGED <<ring, worker, toWorker, job>>
    BY <1>4 DEF Forward
  <2>2. /\ reading \in Workers /\ fromWorker[reading] # <<>>
        /\ \A w \in Workers : w # reading => fromWorker'[w] = fromWorker[w]
    BY <1>t, <1>4 DEF Forward, IndInv, ProxyInv
  <2> QED
    BY <2>1, <2>2 DEF RingInv, RingGood, LanesServed
<1>5. ASSUME NEW w \in Workers, Connect(w) PROVE RingInv'
  BY <1>0, <1>5, ConnectRing
<1>6. ASSUME NEW w \in Workers, LoadModel(w) PROVE RingInv'
  <2>1. /\ worker[w] = "loading" /\ UNCHANGED <<ring, toWorker, job, fromWorker>>
        /\ \A v \in Workers : worker'[v] = IF v = w THEN "serving" ELSE worker[v]
    BY <1>t, <1>6 DEF LoadModel
  <2> QED
    BY <2>1 DEF RingInv, RingGood, LanesServed
<1>7. ASSUME NEW w \in Workers, ReceiveBatch(w) PROVE RingInv'
  <2>1. /\ worker[w] = "serving" /\ UNCHANGED <<ring, worker, fromWorker>>
        /\ \A v \in Workers : v # w => job'[v] = job[v] /\ toWorker'[v] = toWorker[v]
    BY <1>t, <1>7 DEF ReceiveBatch
  <2> QED
    BY <2>1 DEF RingInv, RingGood, LanesServed
<1>8. ASSUME NEW w \in Workers, RunAndReply(w) PROVE RingInv'
  <2>1. /\ job[w] # <<>> /\ job'[w] = <<>> /\ UNCHANGED <<ring, worker, toWorker>>
        /\ \A v \in Workers : v # w => job'[v] = job[v] /\ fromWorker'[v] = fromWorker[v]
    BY <1>t, <1>8 DEF RunAndReply
  <2> QED
    BY <2>1 DEF RingInv, RingGood, LanesServed
<1>9. CASE ServerCrash
  BY <1>9, EmptySeq DEF ServerCrash, RingInv, RingGood, LanesServed
<1> QED
  BY <1>2, <1>3, <1>4, <1>5, <1>6, <1>7, <1>8, <1>9 DEF Next, ProxyStep, WorkerStep

(***************************************************************************)
(* The DEALER deals only to workers that have connected, each in its turn  *)
(* and no one twice in a round; a reply comes only from a worker that has  *)
(* loaded its model; and the one send of the proxy that can block          *)
(* (Dispatch with an empty ring) does so only until a worker connects.     *)
(***************************************************************************)
DealerReady ==
  /\ RingGood
  /\ LanesServed
  /\ pc = "dispatch" /\ ring = <<>> => \A w \in Workers : worker[w] = "starting"

THEOREM BatchesGoToWorkers == SafeSpec => []DealerReady
<1>1. Init => RingInv
  BY EmptySeq DEF Init, RingInv, RingGood, LanesServed
<1>2. RingInv => DealerReady
  BY EmptySeq DEF RingInv, RingGood, DealerReady
<1> QED
  BY <1>1, <1>2, RingStep, Invariance, PTL DEF SafeSpec
=============================================================================
