---------------------------- MODULE BlockingFifo ----------------------------
(***************************************************************************)
(* What queue_mt promises the threads that share it: push and pop take     *)
(* effect at one instant, pop takes the oldest item, and once the queue is *)
(* stopped push has no effect and pop returns a default value.             *)
(***************************************************************************)
EXTENDS Integers, Sequences

CONSTANTS Threads, MaxSize, NoItem,
          Items   \* what may be pushed

VARIABLES m_items, m_stop,
          got     \* got[t]: what the last pop of t returned

vars == <<m_items, m_stop, got>>

Init == m_items = <<>> /\ m_stop = FALSE /\ got = [t \in Threads |-> NoItem]

Put(item) == /\ ~m_stop
             /\ MaxSize > 0 => Len(m_items) < MaxSize
             /\ m_items' = Append(m_items, item)
             /\ UNCHANGED <<m_stop, got>>

Take(t) == /\ ~m_stop
           /\ m_items # <<>>
           /\ m_items' = Tail(m_items)
           /\ got' = [got EXCEPT ![t] = Head(m_items)]
           /\ UNCHANGED m_stop

TakeStopped(t) == /\ m_stop
                  /\ got' = [got EXCEPT ![t] = NoItem]
                  /\ UNCHANGED <<m_items, m_stop>>

Stop == m_stop' = TRUE /\ UNCHANGED <<m_items, got>>

Next == \/ \E item \in Items : Put(item)
        \/ \E t \in Threads : Take(t) \/ TakeStopped(t)
        \/ Stop

Spec == Init /\ [][Next]_vars
=============================================================================
