------------------------------- MODULE AppSrc -------------------------------
(***************************************************************************)
(* GStreamer's appsrc (external) as the programs use it: a queue of caps   *)
(* and buffers that the application fills and the element's streaming      *)
(* thread empties. A thread that finds the queue empty signals need-data   *)
(* once; if nothing has come when the signal returns it sleeps until       *)
(* something is put into the queue. An encoder downstream refuses a buffer *)
(* that no caps precede, and the stream ends for good: the programs watch  *)
(* no bus.                                                                 *)
(***************************************************************************)
EXTENDS Naturals, Sequences

VARIABLES
  stream,    \* the streaming thread: "off", "look", "call" (in the signal), "wait", "out", "ended"
  items,     \* the queue
  handler,   \* the application has connected need-data
  caps       \* caps have gone downstream

srcVars == <<stream, items, handler, caps>>

SrcTypeOK ==
  /\ stream \in {"off", "look", "call", "wait", "out", "ended"}
  /\ items \in Seq({"caps", "buffer"})
  /\ handler \in BOOLEAN
  /\ caps \in BOOLEAN

SrcInit == stream = "off" /\ items = <<>> /\ handler = FALSE /\ caps = FALSE

\* The pipeline is set to PLAYING.
PlaySource == /\ stream = "off"
              /\ stream' = "look"
              /\ UNCHANGED <<items, handler, caps>>

TakeItem == /\ stream = "look" /\ items # <<>>
            /\ items' = Tail(items)
            /\ IF Head(items) = "caps"
               THEN caps' = TRUE /\ UNCHANGED stream
               ELSE stream' = "out" /\ UNCHANGED caps
            /\ UNCHANGED handler

\* Without a handler the signal returns at once.
SignalNeedData == /\ stream = "look" /\ items = <<>>
                  /\ stream' = IF handler THEN "call" ELSE "wait"
                  /\ UNCHANGED <<items, handler, caps>>

\* set_caps and push_buffer wake the thread.
Wake == /\ stream = "wait" /\ items # <<>>
        /\ stream' = "look"
        /\ UNCHANGED <<items, handler, caps>>

PushOut == /\ stream = "out"
           /\ stream' = IF caps THEN "look" ELSE "ended"
           /\ UNCHANGED <<items, handler, caps>>

SrcStep == TakeItem \/ SignalNeedData \/ Wake \/ PushOut

\* g_signal_connect, gst_app_src_set_caps.
ConnectHandler == handler' = TRUE /\ UNCHANGED <<stream, items, caps>>
PutCaps        == items' = Append(items, "caps") /\ UNCHANGED <<stream, handler, caps>>

\* The handler puts `put` into the queue and returns.
HandlerReturns(put) == /\ items' = items \o put
                       /\ stream' = "look"
                       /\ UNCHANGED <<handler, caps>>
=============================================================================
