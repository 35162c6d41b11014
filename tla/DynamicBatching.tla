-------------------------- MODULE DynamicBatching ---------------------------
(***************************************************************************)
(* The inference server: the clients' REQ sockets, the proxy thread        *)
(* (dynamic_batching) with its ROUTER and DEALER sockets, and the worker   *)
(* threads (inf_server::worker_process) with their REP sockets.            *)
(*                                                                         *)
(* A message is abstracted to the request it belongs to: [from, n] is the  *)
(* n-th request of a client, or the result computed from it. The proxy     *)
(* never looks at it: it routes by the addresses it keeps in batches.      *)
(***************************************************************************)
EXTENDS Integers, Sequences, FiniteSets

CONSTANTS Clients,       \* the REQ sockets connected to the ROUTER
          Workers,       \* the worker threads (conf.num_workers)
          MaxBatch,      \* conf.max_batch_size; negative: dispatch by age only
          MaxLatency,    \* conf.max_batch_latency, in ticks of the clock
          MaxRequests,   \* bound: requests one client sends
          MaxClockSteps, \* bound: times system_clock is set back
          MaxCrashes     \* bound: crashes of the server

(***************************************************************************)
(* With max_batch = 0 the comparison of line 64 holds of an empty queue:   *)
(* the proxy would emit batches with no last part. It is excluded.         *)
(***************************************************************************)
ASSUME BatchAssumption == MaxBatch \in Int \ {0}
ASSUME BoundAssumption == /\ MaxLatency \in Nat
                          /\ MaxRequests \in Nat
                          /\ MaxClockSteps \in Nat
                          /\ MaxCrashes \in Nat

VARIABLES
  client,         \* client[c]: "idle", "waiting" (REQ has sent), "gone"
  sent,           \* sent[c]: requests c has sent
  lost,           \* the clients whose request or reply was lost in a crash
  toFront,        \* toFront[c]: pipe from c to the ROUTER
  fromFront,      \* fromFront[c]: pipe from the ROUTER to c
  pc,             \* where the proxy loop is
  revents,        \* what zmq::poll found: [front, back]
  batch_id, batches, message_queue,   \* locals of dynamic_batching
  age,            \* now - batch_start, up to MaxLatency
  clockSteps,     \* times the clock was set back
  crashes,        \* times the server crashed
  reading,        \* the worker whose multipart reply the proxy is forwarding
  ring, turn,     \* the DEALER's connections and the one that is next
  worker,         \* worker[w]: "starting", "loading" its model, "serving"
  toWorker,       \* toWorker[w]: pipe of batches from the DEALER to w
  job,            \* job[w]: the batch w has received and not replied to
  fromWorker      \* fromWorker[w]: pipe of replies from w to the DEALER

clientVars == <<client, sent, lost>>
frontVars  == <<toFront, fromFront>>
batchVars  == <<batch_id, batches, message_queue>>
faultVars  == <<clockSteps, crashes>>
clockVars  == <<age, faultVars>>
ringVars   == <<ring, turn>>
workerVars == <<worker, toWorker, job, fromWorker>>
vars == <<clientVars, frontVars, pc, revents, reading, batchVars, clockVars,
          ringVars, workerVars>>

Request == [from : Clients, n : 1..MaxRequests]
Batch   == [id : Nat, bodies : Seq(Request)]

TypeOK ==
  /\ client \in [Clients -> {"idle", "waiting", "gone"}]
  /\ sent \in [Clients -> 0..MaxRequests]
  /\ lost \subseteq Clients
  /\ toFront \in [Clients -> Seq(Request)]
  /\ fromFront \in [Clients -> Seq(Request)]
  /\ pc \in {"poll", "front", "dispatch", "back", "forward"}
  /\ revents \in [front : BOOLEAN, back : BOOLEAN]
  /\ batch_id \in Nat
  /\ DOMAIN batches \subseteq 0..batch_id
  /\ batches \in [DOMAIN batches -> Seq(Clients)]
  /\ message_queue \in Seq(Request)
  /\ age \in -MaxLatency..MaxLatency
  /\ clockSteps \in 0..MaxClockSteps
  /\ crashes \in 0..MaxCrashes
  /\ reading \in Workers \cup {"none"}
  /\ ring \in Seq(Workers)
  /\ turn \in 1..(IF ring = <<>> THEN 1 ELSE Len(ring))
  /\ worker \in [Workers -> {"starting", "loading", "serving"}]
  /\ toWorker \in [Workers -> Seq(Batch)]
  /\ job \in [Workers -> Seq(Batch)] /\ \A w \in Workers : Len(job[w]) <= 1
  /\ fromWorker \in [Workers -> Seq(Batch)]

Init ==
  /\ client = [c \in Clients |-> "idle"]
  /\ sent = [c \in Clients |-> 0]
  /\ lost = {}
  /\ toFront = [c \in Clients |-> <<>>]
  /\ fromFront = [c \in Clients |-> <<>>]
  /\ pc = "poll"
  /\ revents = [front |-> FALSE, back |-> FALSE]
  /\ batch_id = 0
  /\ batches = [i \in {} |-> <<>>]
  /\ message_queue = <<>>
  /\ age = 0
  /\ clockSteps = 0
  /\ crashes = 0
  /\ reading = "none"
  /\ ring = <<>>
  /\ turn = 1
  /\ worker = [w \in Workers |-> "starting"]
  /\ toWorker = [w \in Workers |-> <<>>]
  /\ job = [w \in Workers |-> <<>>]
  /\ fromWorker = [w \in Workers |-> <<>>]

-----------------------------------------------------------------------------
(* The clients: a REQ socket sends and receives in strict alternation.     *)

ClientSend(c) ==
  /\ client[c] = "idle"
  /\ sent[c] < MaxRequests
  /\ client' = [client EXCEPT ![c] = "waiting"]
  /\ sent' = [sent EXCEPT ![c] = @ + 1]
  /\ toFront' = [toFront EXCEPT ![c] = Append(@, [from |-> c, n |-> sent[c] + 1])]
  /\ UNCHANGED <<lost, fromFront, pc, revents, reading, batchVars, clockVars, ringVars, workerVars>>

ClientReceive(c) ==
  /\ client[c] = "waiting"
  /\ fromFront[c] # <<>>
  /\ client' = [client EXCEPT ![c] = "idle"]
  /\ fromFront' = [fromFront EXCEPT ![c] = Tail(@)]
  /\ UNCHANGED <<sent, lost, toFront, pc, revents, reading, batchVars, clockVars, ringVars, workerVars>>

(* The client's process ends. What the ROUTER has received stays readable; *)
(* what it sends to the lost peer from then on is dropped. A restarted     *)
(* client has a new identity: it is another member of Clients.             *)
ClientExit(c) ==
  /\ client[c] # "gone"
  /\ client' = [client EXCEPT ![c] = "gone"]
  /\ fromFront' = [fromFront EXCEPT ![c] = <<>>]
  /\ UNCHANGED <<sent, lost, toFront, pc, revents, reading, batchVars, clockVars, ringVars, workerVars>>

-----------------------------------------------------------------------------
(* The proxy loop: poll, frontend, dispatch, backend.                      *)

\* The sockets that are readable now.
FrontReadable == \E c \in Clients : toFront[c] # <<>>
BackReadable == \E w \in Workers : fromWorker[w] # <<>>

\* Mutant of Polled: revents is not cleared between two calls of poll.
PolledSticky == [front |-> revents.front \/ FrontReadable,
                 back  |-> revents.back \/ BackReadable]

Polled == [front |-> FrontReadable, back |-> BackReadable]

\* Both sockets are polled once per iteration; it returns after 1 ms at most.
Poll ==
  /\ pc = "poll"
  /\ revents' = Polled
  /\ pc' = "front"
  /\ UNCHANGED <<clientVars, frontVars, reading, batchVars, clockVars, ringVars, workerVars>>

\* Mutant of BookAddress: the entry is assigned, not appended to.
BookAddressAnew(c) ==
  [i \in DOMAIN batches \cup {batch_id} |-> IF i # batch_id THEN batches[i] ELSE <<c>>]

\* batches[batch_id].emplace_back: operator[] creates the entry.
BookAddress(c) ==
  [i \in DOMAIN batches \cup {batch_id} |->
     IF i # batch_id THEN batches[i]
     ELSE IF i \in DOMAIN batches THEN Append(batches[i], c) ELSE <<c>>]

\* One request is read per iteration, so the size test runs after each.
FrontRecv(c) ==
  /\ pc = "front"
  /\ revents.front
  /\ toFront[c] # <<>>
  /\ toFront' = [toFront EXCEPT ![c] = Tail(@)]
  /\ batches' = BookAddress(c)
  /\ message_queue' = Append(message_queue, Head(toFront[c]))
  /\ age' = IF message_queue = <<>> THEN 0 ELSE age
  /\ pc' = "dispatch"
  /\ UNCHANGED <<clientVars, fromFront, revents, reading, batch_id, faultVars, ringVars, workerVars>>

FrontSkip ==
  /\ pc = "front"
  /\ ~revents.front
  /\ pc' = "dispatch"
  /\ UNCHANGED <<clientVars, frontVars, revents, reading, batchVars, clockVars, ringVars, workerVars>>

\* Mutant of BatchFull: > for >=.
BatchOverFull == MaxBatch > 0 /\ Len(message_queue) > MaxBatch

\* size_t against int: a negative max_batch becomes larger than any size.
BatchFull == MaxBatch > 0 /\ Len(message_queue) >= MaxBatch

\* Mutant of BatchLate: the age of a partial batch is not looked at.
BatchNeverLate == FALSE

BatchLate == message_queue # <<>> /\ age >= MaxLatency

BatchDue == BatchFull \/ BatchLate

\* Mutant of NextBatchId: the increment is forgotten.
SameBatchId == batch_id

NextBatchId == batch_id + 1

NextTurn == IF turn = Len(ring) THEN 1 ELSE turn + 1

\* The DEALER deals in turn, busy worker or not; with no connection send blocks.
Dispatch ==
  /\ pc = "dispatch"
  /\ BatchDue
  /\ ring # <<>>
  /\ toWorker' = [toWorker EXCEPT ![ring[turn]] =
                    Append(@, [id |-> batch_id, bodies |-> message_queue])]
  /\ turn' = NextTurn
  /\ message_queue' = <<>>
  /\ batch_id' = NextBatchId
  /\ pc' = "back"
  /\ UNCHANGED <<clientVars, frontVars, revents, reading, batches, clockVars, ring,
                 worker, job, fromWorker>>

NoDispatch ==
  /\ pc = "dispatch"
  /\ ~BatchDue
  /\ pc' = "back"
  /\ UNCHANGED <<clientVars, frontVars, revents, reading, batchVars, clockVars, ringVars, workerVars>>

\* recv of the batch id and the empty part: the rest of that reply comes next.
BackRecv(w) ==
  /\ pc = "back"
  /\ revents.back
  /\ fromWorker[w] # <<>>
  /\ reading' = w
  /\ pc' = "forward"
  /\ UNCHANGED <<clientVars, frontVars, revents, batchVars, clockVars, ringVars, workerVars>>

BackSkip ==
  /\ pc = "back"
  /\ ~revents.back
  /\ pc' = "poll"
  /\ UNCHANGED <<clientVars, frontVars, revents, reading, batchVars, clockVars, ringVars, workerVars>>

\* The ROUTER's send drops a message for a peer that is gone.
SendToClient(c, m) ==
  IF client[c] = "gone" THEN fromFront
  ELSE [fromFront EXCEPT ![c] = Append(@, m)]

\* Mutant of EraseBatch: the entry stays after its last reply.
KeepBatch(id) == batches

EraseBatch(id) == [i \in DOMAIN batches \ {id} |-> batches[i]]

\* One turn of the loop over batches[bi]; its first address and the first
\* unread part go together, and the entry is erased after the last.
Forward ==
  /\ pc = "forward"
  /\ LET reply == Head(fromWorker[reading])
         addrs == batches[reply.id]
     IN  /\ fromFront' = SendToClient(Head(addrs), Head(reply.bodies))
         /\ IF Len(addrs) > 1
            THEN /\ batches' = [batches EXCEPT ![reply.id] = Tail(@)]
                 /\ fromWorker' = [fromWorker EXCEPT ![reading] =
                      <<[reply EXCEPT !.bodies = Tail(@)]>> \o Tail(@)]
                 /\ UNCHANGED <<pc, reading>>
            ELSE /\ batches' = EraseBatch(reply.id)
                 /\ fromWorker' = [fromWorker EXCEPT ![reading] = Tail(@)]
                 /\ pc' = "poll"
                 /\ reading' = "none"
  /\ UNCHANGED <<clientVars, toFront, revents, batch_id, message_queue, clockVars,
                 ringVars, worker, toWorker, job>>

ProxyStep == \/ Poll \/ FrontSkip \/ Dispatch \/ NoDispatch \/ BackSkip \/ Forward
             \/ \E c \in Clients : FrontRecv(c)
             \/ \E w \in Workers : BackRecv(w)

-----------------------------------------------------------------------------
(* The workers: connect, load the model, then receive, run and reply.      *)

Connect(w) ==
  /\ worker[w] = "starting"
  /\ worker' = [worker EXCEPT ![w] = "loading"]
  /\ ring' = Append(ring, w)
  /\ UNCHANGED <<clientVars, frontVars, pc, revents, reading, batchVars, clockVars, turn,
                 toWorker, job, fromWorker>>

LoadModel(w) ==
  /\ worker[w] = "loading"
  /\ worker' = [worker EXCEPT ![w] = "serving"]
  /\ UNCHANGED <<clientVars, frontVars, pc, revents, reading, batchVars, clockVars, ringVars,
                 toWorker, job, fromWorker>>

\* A multipart message arrives whole; REP keeps the batch id for the reply.
ReceiveBatch(w) ==
  /\ worker[w] = "serving"
  /\ job[w] = <<>>
  /\ toWorker[w] # <<>>
  /\ job' = [job EXCEPT ![w] = <<Head(toWorker[w])>>]
  /\ toWorker' = [toWorker EXCEPT ![w] = Tail(@)]
  /\ UNCHANGED <<clientVars, frontVars, pc, revents, reading, batchVars, clockVars, ringVars,
                 worker, fromWorker>>

\* Mutant of Results: the model returns its results in another order.
ResultsReversed(bodies) == [i \in 1..Len(bodies) |-> bodies[Len(bodies) + 1 - i]]

\* results[i] is computed from requests[i], for i below batch_size.
Results(bodies) == [i \in 1..Len(bodies) |-> bodies[i]]

RunAndReply(w) ==
  /\ job[w] # <<>>
  /\ fromWorker' = [fromWorker EXCEPT ![w] =
       Append(@, [id |-> job[w][1].id, bodies |-> Results(job[w][1].bodies)])]
  /\ job' = [job EXCEPT ![w] = <<>>]
  /\ UNCHANGED <<clientVars, frontVars, pc, revents, reading, batchVars, clockVars, ringVars,
                 worker, toWorker>>

WorkerStep(w) == Connect(w) \/ LoadModel(w) \/ ReceiveBatch(w) \/ RunAndReply(w)

-----------------------------------------------------------------------------
(* system_clock: it matters only while a batch is being collected.         *)

Tick == /\ message_queue # <<>>
        /\ age < MaxLatency
        /\ age' = age + 1
        /\ UNCHANGED <<clientVars, frontVars, pc, revents, reading, batchVars, faultVars,
                       ringVars, workerVars>>

SetClockBack == /\ message_queue # <<>>
                /\ clockSteps < MaxClockSteps
                /\ age' \in {a \in -MaxLatency..MaxLatency : a < age}
                /\ clockSteps' = clockSteps + 1
                /\ UNCHANGED <<clientVars, frontVars, pc, revents, reading, batchVars, crashes,
                               ringVars, workerVars>>

-----------------------------------------------------------------------------
(* A worker whose model cannot be loaded throws, nobody catches it and the *)
(* process is terminated (or it ends in another way); it is started again. *)
(* A pipe has one end in the client: what is there survives.               *)

ServerCrash ==
  /\ crashes < MaxCrashes
  /\ crashes' = crashes + 1
  /\ \E kept \in SUBSET {c \in Clients : client[c] = "waiting"} :
       /\ toFront' = [c \in Clients |-> IF c \in kept THEN toFront[c] ELSE <<>>]
       /\ fromFront' = [c \in Clients |-> IF c \in kept THEN fromFront[c] ELSE <<>>]
  /\ lost' = lost \cup {c \in Clients : /\ client[c] = "waiting"
                                       /\ toFront'[c] = <<>> /\ fromFront'[c] = <<>>}
  /\ pc' = "poll" /\ revents' = [front |-> FALSE, back |-> FALSE] /\ reading' = "none"
  /\ batch_id' = 0 /\ batches' = [i \in {} |-> <<>>] /\ message_queue' = <<>> /\ age' = 0
  /\ ring' = <<>> /\ turn' = 1
  /\ worker' = [w \in Workers |-> "starting"]
  /\ toWorker' = [w \in Workers |-> <<>>]
  /\ job' = [w \in Workers |-> <<>>]
  /\ fromWorker' = [w \in Workers |-> <<>>]
  /\ UNCHANGED <<client, sent, clockSteps>>

-----------------------------------------------------------------------------
ClientStep(c) == ClientSend(c) \/ ClientReceive(c) \/ ClientExit(c)

Next == \/ \E c \in Clients : ClientStep(c)
        \/ ProxyStep
        \/ \E w \in Workers : WorkerStep(w)
        \/ Tick
        \/ SetClockBack
        \/ ServerCrash

(***************************************************************************)
(* The threads run, time passes, and ZeroMQ reads the connections of a     *)
(* socket in turn: a pipe that keeps a message is read in the end. Nothing *)
(* is assumed of the clients.                                              *)
(***************************************************************************)
Fairness ==
  /\ WF_vars(ProxyStep)
  /\ \A c \in Clients : SF_vars(FrontRecv(c))
  /\ \A w \in Workers : WF_vars(WorkerStep(w)) /\ SF_vars(BackRecv(w))
  /\ WF_vars(Tick)

SafeSpec == Init /\ [][Next]_vars
Spec == SafeSpec /\ Fairness

-----------------------------------------------------------------------------
(* Properties.                                                             *)

\* Everything dealt to w and not yet forwarded, oldest first: REP is serial.
Lane == [w \in Workers |-> fromWorker[w] \o job[w] \o toWorker[w]]

\* The bodies of b are those of the requests whose addresses batches keeps.
Registered(b) == /\ b.id \in DOMAIN batches
                 /\ Len(b.bodies) = Len(batches[b.id])
                 /\ \A k \in 1..Len(b.bodies) : b.bodies[k].from = batches[b.id][k]

\* The request of c is in the proxy or with a worker.
Booked(c) == \E i \in DOMAIN batches : \E k \in 1..Len(batches[i]) : batches[i][k] = c

(***************************************************************************)
(* The addresses and the bodies of a batch never part: what batches holds  *)
(* for an id is, in order, who sent the bodies dealt under that id, while  *)
(* it is collected and wherever it is among the workers, so that replies   *)
(* in any order are routed right. The assertion of line 91 of              *)
(* inf_dynamic_batching.hpp (the id of a reply is known) follows.          *)
(***************************************************************************)
BatchesRegistered ==
  /\ \A w \in Workers : \A i \in 1..Len(Lane[w]) : Registered(Lane[w][i])
  /\ message_queue # <<>> => Registered([id |-> batch_id, bodies |-> message_queue])

(***************************************************************************)
(* No entry of batches outlives its batch: the map holds the batch being   *)
(* collected and those with the workers, each dealt once, nothing else.    *)
(***************************************************************************)
NoBatchLeaks ==
  /\ \A i \in DOMAIN batches :
       \/ i = batch_id /\ message_queue # <<>>
       \/ \E w \in Workers : \E j \in 1..Len(Lane[w]) : Lane[w][j].id = i
  /\ \A v, w \in Workers : \A i \in 1..Len(Lane[v]) : \A j \in 1..Len(Lane[w]) :
       Lane[v][i].id = Lane[w][j].id => v = w /\ i = j

(***************************************************************************)
(* A client is only ever sent the result of its own latest request, once,  *)
(* while it waits for it (what REQ and inf_client's worker rely on to pair *)
(* a result with the frame it was asked for): by a restarted server too,   *)
(* which counts its batches from 0 again.                                  *)
(***************************************************************************)
RepliesRouted ==
  \A c \in Clients : fromFront[c] # <<>> =>
    /\ client[c] = "waiting"
    /\ fromFront[c] = <<[from |-> c, n |-> sent[c]]>>

(***************************************************************************)
(* A request is neither lost nor duplicated: that of a waiting client is   *)
(* in exactly one of the ROUTER's pipe, the batches and the reply pipe, or *)
(* was lost in a crash and is in none; that of an idle client is in none.  *)
(***************************************************************************)
OneCopy ==
  /\ \A c \in Clients :
       /\ client[c] = "idle" =>
            c \notin lost /\ toFront[c] = <<>> /\ fromFront[c] = <<>> /\ ~Booked(c)
       /\ toFront[c] # <<>> => fromFront[c] = <<>> /\ ~Booked(c) /\ Len(toFront[c]) = 1
       /\ fromFront[c] # <<>> => ~Booked(c)
       /\ client[c] = "waiting" =>
            (c \notin lost <=> toFront[c] # <<>> \/ fromFront[c] # <<>> \/ Booked(c))
  /\ \A i, j \in DOMAIN batches : \A k \in 1..Len(batches[i]) : \A l \in 1..Len(batches[j]) :
       batches[i][k] = batches[j][l] => i = j /\ k = l

(***************************************************************************)
(* No batch is larger than the models were compiled for (max_batch_size),  *)
(* and none is empty, although the size is tested once per iteration.      *)
(***************************************************************************)
BatchBounded ==
  /\ \A w \in Workers : \A i \in 1..Len(Lane[w]) :
       /\ Len(Lane[w][i].bodies) >= 1
       /\ MaxBatch > 0 => Len(Lane[w][i].bodies) <= MaxBatch
  /\ MaxBatch > 0 => Len(message_queue) <= MaxBatch

(***************************************************************************)
(* What poll reported is still there when the proxy reads it (nobody else  *)
(* reads the two sockets), so no recv of the loop blocks, and a reply has  *)
(* as many parts as there are addresses to forward them to.                *)
(***************************************************************************)
RecvNeverBlocks ==
  /\ pc = "front" /\ revents.front => FrontReadable
  /\ pc \in {"front", "dispatch", "back"} /\ revents.back => BackReadable
  /\ pc = "forward" => /\ reading \in Workers
                       /\ fromWorker[reading] # <<>>
                       /\ Registered(Head(fromWorker[reading]))

\* The server implements InferenceService: one reply per request, its own,
\* unless the exchange was lost in a crash.
Service == INSTANCE InferenceService
ServiceSafe == Service!SafeSpec
ServiceSpec == Service!Spec
=============================================================================
