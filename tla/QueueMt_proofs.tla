--------------------------- MODULE QueueMt_proofs ---------------------------
(***************************************************************************)
(* Proofs about QueueMt, for any threads, size and number of calls.        *)
(***************************************************************************)
EXTENDS QueueMt, SequenceTheorems, TLAPS

\* A thread is in a call it has begun.
CallsBegun == \A t \in Threads : call[t] # "none" => calls[t] >= 1

IndInv == TypeOK /\ CallsBegun /\ NoLostWakeup /\ SizeBounded

\* The steps of one thread.
ThreadStep(t) == Begin(t, "push") \/ Begin(t, "pop") \/ Locked(t) \/ WakeSpuriously(t)

\* The queue and its bookkeeping are empty and nobody waits.
LEMMA InitInv == Init => IndInv
<1> SUFFICES ASSUME Init PROVE IndInv
  OBVIOUS
<1>1. <<>> \in Seq(Item) /\ Len(<<>>) = 0
  BY EmptySeq
<1>2. TypeOK /\ CallsBegun
  <2>1. 0 \in 0..MaxCalls
    BY QueueAssumption
  <2>2. calls \in [Threads -> 0..MaxCalls]
    BY <2>1, Zenon DEF Init
  <2>3. call \in [Threads -> {"none", "push", "pop"}]
    BY DEF Init
  <2>4. got \in [Threads -> Item \cup {NoItem}]
    BY Zenon DEF Init
  <2>5. CallsBegun
    BY DEF Init, CallsBegun
  <2> QED
    BY <1>1, <2>2, <2>3, <2>4, <2>5 DEF Init, TypeOK
<1>3. NoLostWakeup
  BY DEF Init, NoLostWakeup
<1>4. SizeBounded
  BY <1>1, QueueAssumption DEF Init, SizeBounded
<1> QED
  BY <1>2, <1>3, <1>4 DEF IndInv

\* What a pop takes away is an item, and what it leaves is a queue of items.
LEMMA Popped ==
  ASSUME NEW S, NEW s \in Seq(S), s # <<>>
  PROVE  Head(s) \in S /\ Tail(s) \in Seq(S) /\ Len(Tail(s)) = Len(s) - 1
BY HeadTailProperties

\* What a push adds is an item of the thread's current call.
LEMMA PushedItem ==
  ASSUME IndInv, NEW t \in Threads, call[t] # "none"
  PROVE  [by |-> t, n |-> calls[t]] \in Item
<1>1. calls[t] \in 1..MaxCalls
  BY QueueAssumption DEF IndInv, TypeOK, CallsBegun
<1> QED
  BY <1>1 DEF Item

\* Every step of a thread keeps the types.
LEMMA TypeStep == ASSUME IndInv, NEW t \in Threads, ThreadStep(t) PROVE TypeOK' /\ CallsBegun'
<1>1. CASE Begin(t, "push") \/ Begin(t, "pop")
  <2>1. calls[t] + 1 \in 1..MaxCalls
    BY <1>1, QueueAssumption DEF Begin, IndInv, TypeOK
  <2>2. calls' \in [Threads -> 0..MaxCalls] /\ call' \in [Threads -> {"none", "push", "pop"}]
    <3>1. calls[t] + 1 \in 0..MaxCalls
      BY <2>1, QueueAssumption
    <3>2. calls' = [calls EXCEPT ![t] = calls[t] + 1] /\ calls \in [Threads -> 0..MaxCalls]
      BY <1>1 DEF Begin, IndInv, TypeOK
    <3>3. calls' \in [Threads -> 0..MaxCalls]
      BY <3>1, <3>2, Zenon
    <3>4. call' \in [Threads -> {"none", "push", "pop"}]
      BY <1>1 DEF Begin, IndInv, TypeOK
    <3> QED
      BY <3>3, <3>4
  <2>3. CallsBegun'
    BY <1>1, <2>1, QueueAssumption DEF Begin, IndInv, TypeOK, CallsBegun
  <2> QED
    BY <1>1, <2>2, <2>3 DEF Begin, IndInv, TypeOK
<1>2. CASE PushWait(t) \/ PopWait(t)
  BY <1>2 DEF PushWait, PopWait, IndInv, TypeOK, CallsBegun
<1>3. CASE PushStopped(t) \/ PopStopped(t)
  BY <1>3 DEF PushStopped, PopStopped, Return, IndInv, TypeOK, CallsBegun
<1>4. CASE PushItem(t)
  <2>1. m_items' \in Seq(Item)
    BY <1>4, PushedItem, AppendProperties DEF PushItem, AtLock, IndInv, TypeOK
  <2> QED
    BY <1>4, <2>1 DEF PushItem, Return, IndInv, TypeOK, CallsBegun
<1>5. CASE PopItem(t)
  <2>1. Head(m_items) \in Item /\ Tail(m_items) \in Seq(Item)
    BY <1>5, Popped DEF PopItem, IndInv, TypeOK
  <2> QED
    BY <1>5, <2>1 DEF PopItem, Return, WakePushers, IndInv, TypeOK, CallsBegun
<1>6. CASE WakeSpuriously(t)
  BY <1>6 DEF WakeSpuriously, IndInv, TypeOK, CallsBegun
<1> QED
  BY <1>1, <1>2, <1>3, <1>4, <1>5, <1>6 DEF ThreadStep, Locked

\* Every step of a thread keeps the waiting threads waiting with reason.
LEMMA WaitStep == ASSUME IndInv, NEW t \in Threads, ThreadStep(t) PROVE NoLostWakeup'
<1> USE DEF IndInv, TypeOK, NoLostWakeup
<1>1. CASE Begin(t, "push") \/ Begin(t, "pop")
  BY <1>1 DEF Begin, Room
<1>2. CASE PushWait(t)
  BY <1>2 DEF PushWait, AtLock, Room
<1>3. CASE PopWait(t)
  BY <1>3 DEF PopWait, AtLock, Room
<1>4. CASE PushStopped(t) \/ PopStopped(t)
  BY <1>4 DEF PushStopped, PopStopped, AtLock, Return, Room
<1>5. CASE PushItem(t)
  <2>1. m_cv_full = {}
    BY <1>5 DEF PushItem, AtLock
  <2> QED
    BY <1>5, <2>1 DEF PushItem
<1>6. CASE PopItem(t)
  <2>1. m_cv_empty = {}
    BY <1>6 DEF PopItem, AtLock
  <2> QED
    BY <1>6, <2>1 DEF PopItem, WakePushers
<1>7. CASE WakeSpuriously(t)
  BY <1>7 DEF WakeSpuriously, Room
<1> QED
  BY <1>1, <1>2, <1>3, <1>4, <1>5, <1>6, <1>7 DEF ThreadStep, Locked

\* Every step of a thread keeps the queue within its bound.
LEMMA SizeStep == ASSUME IndInv, NEW t \in Threads, ThreadStep(t) PROVE SizeBounded'
<1>1. CASE PushItem(t)
  <2>1. Len(m_items') = Len(m_items) + 1 /\ Len(m_items) \in Nat
    BY <1>1, PushedItem, AppendProperties, LenProperties DEF PushItem, AtLock, IndInv, TypeOK
  <2> QED
    BY <1>1, <2>1, QueueAssumption DEF PushItem, Room, SizeBounded
<1>2. CASE PopItem(t)
  <2>1. Len(m_items') = Len(m_items) - 1 /\ Len(m_items) \in Nat
    BY <1>2, Popped, LenProperties DEF PopItem, IndInv, TypeOK
  <2> QED
    BY <2>1, QueueAssumption DEF IndInv, SizeBounded
<1>3. CASE m_items' = m_items
  BY <1>3 DEF IndInv, SizeBounded
<1> QED
  BY <1>1, <1>2, <1>3 DEF ThreadStep, Locked, Begin, PushWait, PopWait, PushStopped, PopStopped,
     WakeSpuriously

LEMMA NextInv == IndInv /\ [Next]_vars => IndInv'
<1> SUFFICES ASSUME IndInv, [Next]_vars PROVE IndInv'
  OBVIOUS
<1>1. ASSUME NEW t \in Threads, ThreadStep(t) PROVE IndInv'
  BY <1>1, TypeStep, WaitStep, SizeStep DEF IndInv
<1>2. CASE Stop
  BY <1>2 DEF Stop, WakePushers, IndInv, TypeOK, CallsBegun, NoLostWakeup, SizeBounded
<1>3. CASE UNCHANGED vars
  BY <1>3 DEF vars, IndInv, TypeOK, CallsBegun, NoLostWakeup, Room, SizeBounded
<1> QED
  BY <1>1, <1>2, <1>3 DEF Next, ThreadStep

LEMMA Invariance == SafeSpec => []IndInv
BY InitInv, NextInv, PTL DEF SafeSpec

(***************************************************************************)
(* The types: items are of calls that were begun.                          *)
(***************************************************************************)
THEOREM Typing == SafeSpec => []TypeOK
BY Invariance, PTL DEF IndInv

(***************************************************************************)
(* No thread is left waiting on m_cv_full or m_cv_empty for something that *)
(* has happened, with any number of producers and consumers, a bound or    *)
(* none, and spurious wakeups.                                             *)
(***************************************************************************)
THEOREM WakeupsAreNotLost == SafeSpec => []NoLostWakeup
BY Invariance, PTL DEF IndInv

(***************************************************************************)
(* A bounded queue never exceeds m_maxsize.                                *)
(***************************************************************************)
THEOREM SizeIsBounded == SafeSpec => []SizeBounded
BY Invariance, PTL DEF IndInv

\* Every step is a step of the abstract queue or leaves it as it is.
LEMMA StepRefines == IndInv /\ [Next]_vars => [Fifo!Next]_(Fifo!vars)
<1> SUFFICES ASSUME IndInv, [Next]_vars PROVE [Fifo!Next]_(Fifo!vars)
  OBVIOUS
<1> USE DEF Fifo!vars, Fifo!Next
<1>1. ASSUME NEW t \in Threads, PushItem(t) PROVE Fifo!Next
  <2>1. [by |-> t, n |-> calls[t]] \in Item
    BY <1>1, PushedItem DEF PushItem, AtLock
  <2>2. Fifo!Put([by |-> t, n |-> calls[t]])
    BY <1>1, QueueAssumption DEF PushItem, Room, Fifo!Put
  <2> QED
    BY <2>1, <2>2
<1>2. ASSUME NEW t \in Threads, PopItem(t) PROVE Fifo!Take(t)
  BY <1>2 DEF PopItem, Fifo!Take
<1>3. ASSUME NEW t \in Threads, PopStopped(t) PROVE Fifo!TakeStopped(t)
  BY <1>3 DEF PopStopped, Fifo!TakeStopped
<1>4. ASSUME Stop PROVE Fifo!Stop
  BY <1>4 DEF Stop, Fifo!Stop
<1>5. ASSUME NEW t \in Threads,
             \/ Begin(t, "push") \/ Begin(t, "pop") \/ PushWait(t) \/ PopWait(t)
             \/ PushStopped(t) \/ WakeSpuriously(t)
      PROVE  UNCHANGED Fifo!vars
  BY <1>5 DEF Begin, PushWait, PopWait, PushStopped, WakeSpuriously
<1> QED
  BY <1>1, <1>2, <1>3, <1>4, <1>5 DEF Next, Locked, vars

(***************************************************************************)
(* queue_mt implements BlockingFifo: whatever its threads do, it is a FIFO *)
(* with atomic push and pop, that only stop() puts out of service.         *)
(***************************************************************************)
THEOREM ImplementsFifo == SafeSpec => FifoSpec
<1>1. Init => Fifo!Init
  BY DEF Init, Fifo!Init
<1> QED
  BY <1>1, StepRefines, Invariance, PTL DEF SafeSpec, FifoSpec, Fifo!Spec

-----------------------------------------------------------------------------
(* The order of the items, and what a stopped or a blocked queue looks     *)
(* like.                                                                   *)

\* Of two items of one producer, x was pushed first.
Older(x, y) == x.by = y.by => x.n < y.n

\* x is of a push that has returned: the call its producer is in pushes another.
Issued(x) == /\ x.n <= calls[x.by]
             /\ call[x.by] = "push" => x.n < calls[x.by]

QueueInOrder == \A j, k \in 1..Len(m_items) : j < k => Older(m_items[j], m_items[k])

PoppedFirst == \A t \in Threads : got[t] # NoItem =>
                 \A k \in 1..Len(m_items) : Older(got[t], m_items[k])

PoppedOnce == \A t, u \in Threads : got[t] # NoItem /\ t # u => got[t] # got[u]

(***************************************************************************)
(* What a producer pushes stays in its order: in the queue, and between    *)
(* what was popped and what is left; and no two consumers hold the same    *)
(* item.                                                                   *)
(***************************************************************************)
ItemsInOrder == QueueInOrder /\ PoppedFirst /\ PoppedOnce

AllIssued == /\ \A k \in 1..Len(m_items) : Issued(m_items[k])
             /\ \A t \in Threads : got[t] # NoItem => Issued(got[t])

OrderInv == ItemsInOrder /\ AllIssued

\* A pushed item is the youngest of its producer.
LEMMA PushOrder == ASSUME IndInv, OrderInv, NEW t \in Threads, PushItem(t) PROVE OrderInv'
<1> DEFINE x == [by |-> t, n |-> calls[t]]
<1>1. /\ call[t] = "push" /\ m_items' = Append(m_items, x) /\ UNCHANGED <<calls, got>>
      /\ call' = [call EXCEPT ![t] = "none"]
  BY DEF PushItem, AtLock, Return
<1>2. x \in Item
  BY <1>1, PushedItem
<1>3. /\ m_items \in Seq(Item) /\ Len(m_items) \in Nat /\ calls \in [Threads -> 0..MaxCalls]
      /\ call \in [Threads -> {"none", "push", "pop"}] /\ got \in [Threads -> Item \cup {NoItem}]
  BY LenProperties DEF IndInv, TypeOK
<1>4. /\ Len(m_items') = Len(m_items) + 1
      /\ m_items'[Len(m_items) + 1] = x
      /\ \A k \in 1..Len(m_items) : m_items'[k] = m_items[k]
  BY <1>1, <1>2, <1>3, AppendProperties
<1>5. ASSUME NEW y \in Item, Issued(y) PROVE Older(y, x) /\ Issued(y)'
  BY <1>1, <1>3, <1>5, QueueAssumption DEF Issued, Older, Item
<1>6. \A k \in 1..Len(m_items) : m_items[k] \in Item /\ Issued(m_items[k])
  BY <1>3, ElementOfSeq DEF OrderInv, AllIssued
<1>7. \A u \in Threads : got[u] # NoItem => got[u] \in Item /\ Issued(got[u])
  BY <1>3 DEF OrderInv, AllIssued
<1>8. ASSUME NEW y, y = x PROVE Issued(y)'
  BY <1>1, <1>3, <1>8, QueueAssumption DEF Issued
<1>9. \A k \in 1..Len(m_items') : k \in 1..Len(m_items) \/ k = Len(m_items) + 1
  BY <1>3, <1>4
<1> HIDE DEF x
<1>10. QueueInOrder'
  <2> SUFFICES ASSUME NEW j \in 1..Len(m_items'), NEW k \in 1..Len(m_items'), j < k
               PROVE  Older(m_items'[j], m_items'[k])
    BY DEF QueueInOrder, Older
  <2>1. j \in 1..Len(m_items)
    BY <1>3, <1>4
  <2>2. CASE k \in 1..Len(m_items)
    BY <1>4, <2>1, <2>2 DEF OrderInv, ItemsInOrder, QueueInOrder
  <2>3. CASE k = Len(m_items) + 1
    BY <1>4, <1>5, <1>6, <2>1, <2>3
  <2> QED
    BY <1>9, <2>2, <2>3
<1>11. PoppedFirst'
  <2> SUFFICES ASSUME NEW u \in Threads, got[u] # NoItem, NEW k \in 1..Len(m_items')
               PROVE  Older(got[u], m_items'[k])
    BY <1>1 DEF PoppedFirst, Older
  <2>1. CASE k \in 1..Len(m_items)
    BY <1>4, <2>1 DEF OrderInv, ItemsInOrder, PoppedFirst
  <2>2. CASE k = Len(m_items) + 1
    BY <1>4, <1>5, <1>7, <2>2
  <2> QED
    BY <1>9, <2>1, <2>2
<1>12. PoppedOnce'
  BY <1>1 DEF OrderInv, ItemsInOrder, PoppedOnce
<1>13. AllIssued'
  <2>1. ASSUME NEW k \in 1..Len(m_items') PROVE Issued(m_items[k])'
    <3>1. ASSUME NEW y, y = m_items'[k] PROVE Issued(y)'
      BY <1>4, <1>5, <1>6, <1>8, <1>9, <3>1
    <3> QED
      BY <3>1 DEF Issued
  <2>2. ASSUME NEW u \in Threads, got[u] # NoItem PROVE Issued(got[u])'
    BY <1>1, <1>5, <1>7, <2>2 DEF Issued
  <2> QED
    BY <1>1, <2>1, <2>2 DEF AllIssued
<1> QED
  BY <1>10, <1>11, <1>12, <1>13 DEF OrderInv, ItemsInOrder

\* A popped item is older than what is left, and younger than what was popped.
LEMMA PopOrder == ASSUME IndInv, OrderInv, NEW t \in Threads, PopItem(t) PROVE OrderInv'
<1> DEFINE x == Head(m_items)
<1>1. /\ call[t] = "pop" /\ m_items # <<>> /\ m_items' = Tail(m_items) /\ UNCHANGED calls
      /\ call' = [call EXCEPT ![t] = "none"] /\ got' = [got EXCEPT ![t] = x]
  BY DEF PopItem, AtLock, Return
<1>2. /\ m_items \in Seq(Item) /\ got \in [Threads -> Item \cup {NoItem}]
      /\ call \in [Threads -> {"none", "push", "pop"}]
  BY DEF IndInv, TypeOK
<1>3. /\ x = m_items[1] /\ x \in Item /\ Len(m_items) \in Nat /\ 1 \in 1..Len(m_items)
      /\ Len(m_items') = Len(m_items) - 1
      /\ \A k \in 1..Len(m_items') : m_items'[k] = m_items[k + 1] /\ k + 1 \in 2..Len(m_items)
  <2>1. Len(m_items) \in Nat /\ Len(m_items) >= 1
    BY <1>1, <1>2, LenProperties, EmptySeq
  <2> QED
    BY <1>1, <1>2, <2>1, HeadTailProperties
<1>4. \A u \in Threads : got'[u] = IF u = t THEN x ELSE got[u]
  BY <1>1, <1>2
<1>5. ASSUME NEW y \in Item, Issued(y) PROVE Issued(y)'
  BY <1>1, <1>2, <1>5 DEF Issued, Item
<1> HIDE DEF x
<1>6. QueueInOrder'
  BY <1>3 DEF OrderInv, ItemsInOrder, QueueInOrder, Older
<1>7. PoppedFirst'
  <2> SUFFICES ASSUME NEW u \in Threads, got'[u] # NoItem, NEW k \in 1..Len(m_items')
               PROVE  Older(got'[u], m_items'[k])
    BY DEF PoppedFirst, Older
  <2>1. m_items'[k] = m_items[k + 1] /\ k + 1 \in 1..Len(m_items) /\ 1 < k + 1
    BY <1>3
  <2>2. CASE u = t
    BY <1>3, <1>4, <2>1, <2>2 DEF OrderInv, ItemsInOrder, QueueInOrder
  <2>3. CASE u # t
    BY <1>4, <2>1, <2>3 DEF OrderInv, ItemsInOrder, PoppedFirst
  <2> QED
    BY <2>2, <2>3
<1>8. PoppedOnce'
  <2>1. \A u \in Threads : got[u] # NoItem => got[u] # x
    BY <1>2, <1>3 DEF OrderInv, ItemsInOrder, PoppedFirst, Older, Item
  <2> QED
    BY <1>4, <2>1 DEF OrderInv, ItemsInOrder, PoppedOnce
<1>9. AllIssued'
  <2>i. \A k \in 1..Len(m_items) : m_items[k] \in Item
    BY <1>2, ElementOfSeq
  <2>1. ASSUME NEW k \in 1..Len(m_items') PROVE Issued(m_items[k])'
    BY <1>3, <1>5, <2>i DEF OrderInv, AllIssued, Issued
  <2>2. ASSUME NEW u \in Threads, got'[u] # NoItem PROVE Issued(got[u])'
    BY <1>2, <1>3, <1>4, <1>5, <2>2 DEF OrderInv, AllIssued, Issued
  <2> QED
    BY <2>1, <2>2 DEF AllIssued
<1> QED
  BY <1>6, <1>7, <1>8, <1>9 DEF OrderInv, ItemsInOrder

\* A step that neither pushes nor pops leaves the order as it is.
LEMMA OrderStep == IndInv /\ OrderInv /\ [Next]_vars => OrderInv'
<1> SUFFICES ASSUME IndInv, OrderInv, [Next]_vars PROVE OrderInv'
  OBVIOUS
<1> USE DEF OrderInv, ItemsInOrder, QueueInOrder, PoppedFirst, PoppedOnce, AllIssued, Older
<1>t. /\ m_items \in Seq(Item) /\ got \in [Threads -> Item \cup {NoItem}]
      /\ call \in [Threads -> {"none", "push", "pop"}] /\ calls \in [Threads -> 0..MaxCalls]
      /\ \A k \in 1..Len(m_items) : m_items[k] \in Item
  BY ElementOfSeq DEF IndInv, TypeOK
<1>1. ASSUME NEW t \in Threads, NEW op \in {"push", "pop"}, Begin(t, op) PROVE OrderInv'
  <2>1. ASSUME NEW y \in Item, Issued(y) PROVE Issued(y)'
    BY <1>t, <1>1, <2>1, QueueAssumption DEF Begin, Issued, Item
  <2>2. m_items' = m_items /\ got' = got
    BY <1>1 DEF Begin
  <2>3. \A k \in 1..Len(m_items) : Issued(m_items[k])'
    BY <1>t, <2>1, <2>2 DEF Issued
  <2>4. \A t_1 \in Threads : got[t_1] # NoItem => Issued(got[t_1])'
    BY <1>t, <2>1, <2>2 DEF Issued
  <2> QED
    BY <2>2, <2>3, <2>4
<1>2. ASSUME NEW t \in Threads, PushItem(t) PROVE OrderInv'
  BY <1>2, PushOrder
<1>3. ASSUME NEW t \in Threads, PopItem(t) PROVE OrderInv'
  BY <1>3, PopOrder
<1>4. ASSUME NEW t \in Threads, PushStopped(t) \/ PopStopped(t) PROVE OrderInv'
  <2>1. ASSUME NEW y \in Item, Issued(y) PROVE Issued(y)'
    BY <1>t, <1>4, <2>1 DEF PushStopped, PopStopped, Return, Issued, Item
  <2>2. m_items' = m_items /\ \A u \in Threads : got'[u] = got[u] \/ got'[u] = NoItem
    BY <1>t, <1>4 DEF PushStopped, PopStopped
  <2>3. \A k \in 1..Len(m_items) : Issued(m_items[k])'
    BY <1>t, <2>1, <2>2 DEF Issued
  <2>4. \A u \in Threads : got'[u] # NoItem => got'[u] = got[u] /\ Issued(got[u])'
    BY <1>t, <2>1, <2>2 DEF Issued
  <2> QED
    BY <2>2, <2>3, <2>4
<1>5. CASE UNCHANGED <<m_items, call, calls, got>>
  BY <1>5 DEF Issued
<1> QED
  BY <1>1, <1>2, <1>3, <1>4, <1>5 DEF Next, Locked, PushWait, PopWait, WakeSpuriously, Stop, vars

LEMMA OrderInvariance == SafeSpec => []OrderInv
<1>1. Init => OrderInv
  BY EmptySeq DEF Init, OrderInv, ItemsInOrder, QueueInOrder, PoppedFirst, PoppedOnce, AllIssued
<1> QED
  BY <1>1, OrderStep, Invariance, PTL DEF SafeSpec

(***************************************************************************)
(* The items of a producer keep their order on their way, and each is      *)
(* popped once, whatever the number of producers and consumers: the frames *)
(* of a camera reach its thread, and the compositor, in their order.       *)
(***************************************************************************)
THEOREM OrderIsKept == SafeSpec => []ItemsInOrder
BY OrderInvariance, PTL DEF OrderInv

(***************************************************************************)
(* What a consumer pops is never older than what it had popped before from *)
(* the same producer.                                                      *)
(***************************************************************************)
PopsGoForward == \A t \in Threads : got[t] # NoItem /\ got'[t] # NoItem =>
                   got'[t] = got[t] \/ Older(got[t], got'[t])

\* A pop takes the head of the queue, which PoppedFirst compares with the last one.
THEOREM ConsumersGoForward == SafeSpec => [][PopsGoForward]_vars
<1>1. IndInv /\ OrderInv /\ [Next]_vars => [PopsGoForward]_vars
  <2> SUFFICES ASSUME IndInv, OrderInv, [Next]_vars PROVE PopsGoForward \/ UNCHANGED vars
    OBVIOUS
  <2>t. got \in [Threads -> Item \cup {NoItem}] /\ m_items \in Seq(Item)
    BY DEF IndInv, TypeOK
  <2>1. ASSUME NEW t \in Threads, PopItem(t) PROVE PopsGoForward
    <3>1. got' = [got EXCEPT ![t] = m_items[1]] /\ 1 \in 1..Len(m_items)
      BY <2>t, <2>1, LenProperties, EmptySeq, HeadTailProperties DEF PopItem
    <3>2. got[t] # NoItem => Older(got[t], m_items[1])
      BY <3>1 DEF OrderInv, ItemsInOrder, PoppedFirst
    <3> QED
      BY <2>t, <3>1, <3>2 DEF PopsGoForward
  <2>2. CASE \A u \in Threads : got'[u] = got[u] \/ got'[u] = NoItem
    BY <2>2 DEF PopsGoForward
  <2>3. ASSUME NEW t \in Threads, PopStopped(t)
        PROVE  \A u \in Threads : got'[u] = got[u] \/ got'[u] = NoItem
    BY <2>t, <2>3 DEF PopStopped
  <2> QED
    BY <2>1, <2>2, <2>3 DEF Next, Locked, Begin, PushWait, PushStopped, PushItem, PopWait,
       WakeSpuriously, Stop
<1> QED
  BY <1>1, Invariance, OrderInvariance, PTL DEF SafeSpec

(***************************************************************************)
(* Once the queue is stopped nobody waits in it, and producers and         *)
(* consumers of a bounded queue never wait at the same time: it cannot be  *)
(* full for the one and empty for the other.                               *)
(***************************************************************************)
WaitersHaveOneSide == /\ m_stop => m_cv_full \cup m_cv_empty = {}
                      /\ m_cv_full = {} \/ m_cv_empty = {}

THEOREM NobodyWaitsTwice == SafeSpec => []WaitersHaveOneSide
<1>1. IndInv => WaitersHaveOneSide
  <2> SUFFICES ASSUME IndInv PROVE WaitersHaveOneSide
    OBVIOUS
  <2>1. m_items = <<>> => Room
    BY EmptySeq, QueueAssumption DEF Room
  <2> QED
    BY <2>1 DEF IndInv, NoLostWakeup, WaitersHaveOneSide
<1> QED
  BY <1>1, Invariance, PTL
=============================================================================
