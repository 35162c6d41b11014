------------------------------- MODULE QueueMt ------------------------------
(***************************************************************************)
(* queue_mt, the queue every two threads of the video server talk through: *)
(* a mutex, two condition variables and a stop flag. What a thread does    *)
(* while it holds the mutex is one action; waiting on a condition variable *)
(* releases the mutex, and a thread that was notified takes it again and   *)
(* tests its predicate again.                                              *)
(***************************************************************************)
EXTENDS Integers, Sequences

CONSTANTS Threads,
          MaxSize,   \* m_maxsize; 0 or less: unbounded (all queues of the program)
          MaxCalls,  \* bound: calls one thread makes
          NoItem     \* T(), what pop returns when stopped

ASSUME QueueAssumption == MaxSize \in Int /\ MaxCalls \in Nat

VARIABLES m_items, m_stop,
          call,        \* call[t]: "none", or the call t is in: "push", "pop"
          calls,       \* calls[t]: how many calls t has begun
          m_cv_full,   \* the threads that wait on m_cv_full
          m_cv_empty,  \* the threads that wait on m_cv_empty
          got          \* got[t]: what the last pop of t returned

vars == <<m_items, m_stop, call, calls, m_cv_full, m_cv_empty, got>>

\* An item names the thread that pushes it and which of its calls this is.
Item == [by : Threads, n : 1..MaxCalls]

TypeOK == /\ m_items \in Seq(Item)
          /\ m_stop \in BOOLEAN
          /\ call \in [Threads -> {"none", "push", "pop"}]
          /\ calls \in [Threads -> 0..MaxCalls]
          /\ m_cv_full \subseteq Threads
          /\ m_cv_empty \subseteq Threads
          /\ got \in [Threads -> Item \cup {NoItem}]

Init == /\ m_items = <<>>
        /\ m_stop = FALSE
        /\ call = [t \in Threads |-> "none"]
        /\ calls = [t \in Threads |-> 0]
        /\ m_cv_full = {}
        /\ m_cv_empty = {}
        /\ got = [t \in Threads |-> NoItem]

Begin(t, op) == /\ call[t] = "none"
                /\ calls[t] < MaxCalls
                /\ call' = [call EXCEPT ![t] = op]
                /\ calls' = [calls EXCEPT ![t] = @ + 1]
                /\ UNCHANGED <<m_items, m_stop, m_cv_full, m_cv_empty, got>>

Return(t) == call' = [call EXCEPT ![t] = "none"] /\ UNCHANGED calls

\* Mutant of Room: one item too many.
RoomForOneMore == MaxSize <= 0 \/ Len(m_items) <= MaxSize

Room == MaxSize <= 0 \/ Len(m_items) < MaxSize

\* t can take the mutex: it is in op and does not wait on its condition.
AtLock(t, op) == call[t] = op /\ t \notin m_cv_full \cup m_cv_empty

PushWait(t) == /\ AtLock(t, "push")
               /\ ~m_stop /\ ~Room
               /\ m_cv_full' = m_cv_full \cup {t}
               /\ UNCHANGED <<m_items, m_stop, call, calls, m_cv_empty, got>>

PushStopped(t) == /\ AtLock(t, "push")
                  /\ m_stop
                  /\ Return(t)
                  /\ UNCHANGED <<m_items, m_stop, m_cv_full, m_cv_empty, got>>

PushItem(t) == /\ AtLock(t, "push")
               /\ ~m_stop /\ Room
               /\ m_items' = Append(m_items, [by |-> t, n |-> calls[t]])
               /\ m_cv_empty' = {}
               /\ Return(t)
               /\ UNCHANGED <<m_stop, m_cv_full, got>>

PopWait(t) == /\ AtLock(t, "pop")
              /\ ~m_stop /\ m_items = <<>>
              /\ m_cv_empty' = m_cv_empty \cup {t}
              /\ UNCHANGED <<m_items, m_stop, call, calls, m_cv_full, got>>

\* The items that are left are never delivered.
PopStopped(t) == /\ AtLock(t, "pop")
                 /\ m_stop
                 /\ got' = [got EXCEPT ![t] = NoItem]
                 /\ Return(t)
                 /\ UNCHANGED <<m_items, m_stop, m_cv_full, m_cv_empty>>

\* Mutant of WakePushers: the notification is forgotten.
WakeNoPusher == m_cv_full

\* notify_all leaves nobody waiting on m_cv_full.
WakePushers == {}

PopItem(t) == /\ AtLock(t, "pop")
              /\ ~m_stop /\ m_items # <<>>
              /\ m_items' = Tail(m_items)
              /\ got' = [got EXCEPT ![t] = Head(m_items)]
              /\ m_cv_full' = WakePushers
              /\ Return(t)
              /\ UNCHANGED <<m_stop, m_cv_empty>>

Stop == /\ ~m_stop
        /\ m_stop' = TRUE
        /\ m_cv_full' = WakePushers
        /\ m_cv_empty' = {}
        /\ UNCHANGED <<m_items, call, calls, got>>

\* A condition variable may wake a thread for no reason.
WakeSpuriously(t) == /\ t \in m_cv_full \cup m_cv_empty
                     /\ m_cv_full' = m_cv_full \ {t}
                     /\ m_cv_empty' = m_cv_empty \ {t}
                     /\ UNCHANGED <<m_items, m_stop, call, calls, got>>

Locked(t) == \/ PushWait(t) \/ PushStopped(t) \/ PushItem(t)
             \/ PopWait(t) \/ PopStopped(t) \/ PopItem(t)

Next == \/ \E t \in Threads : \/ Begin(t, "push") \/ Begin(t, "pop")
                              \/ Locked(t) \/ WakeSpuriously(t)
        \/ Stop

\* A thread that wants the mutex gets it: its critical sections are short.
Fairness == \A t \in Threads : WF_vars(Locked(t))

SafeSpec == Init /\ [][Next]_vars
Spec == SafeSpec /\ Fairness

-----------------------------------------------------------------------------
(***************************************************************************)
(* No wakeup is lost: a thread that waits on a condition variable is in    *)
(* the matching call and still has reason to wait. It is never left        *)
(* waiting for something that has happened.                                *)
(***************************************************************************)
NoLostWakeup ==
  /\ \A t \in m_cv_full : call[t] = "push" /\ ~m_stop /\ ~Room
  /\ \A t \in m_cv_empty : call[t] = "pop" /\ ~m_stop /\ m_items = <<>>

(***************************************************************************)
(* A bounded queue never holds more than m_maxsize items, however many     *)
(* producers were woken by the same notify_all.                            *)
(***************************************************************************)
SizeBounded == MaxSize > 0 => Len(m_items) <= MaxSize

Blocked(op) == \E t \in Threads : call[t] = op

(***************************************************************************)
(* Consumers are served while there are items and producers while there is *)
(* room: it does not stay that one is blocked and could go on. (Which of   *)
(* several is served is up to the mutex.)                                  *)
(***************************************************************************)
BlockedAreServed == /\ []<>(m_items = <<>> \/ m_stop \/ ~Blocked("pop"))
                    /\ []<>(~Room \/ m_stop \/ ~Blocked("push"))

(***************************************************************************)
(* stop() releases every thread that is blocked in push or pop.            *)
(***************************************************************************)
StopReleases == \A t \in Threads : (m_stop /\ call[t] # "none") ~> (call[t] = "none")

\* The queue implements BlockingFifo.
Fifo == INSTANCE BlockingFifo WITH Items <- Item
FifoSpec == Fifo!Spec
=============================================================================
