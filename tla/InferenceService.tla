-------------------------- MODULE InferenceService --------------------------
(***************************************************************************)
(* What an inference server (inf_server) promises its clients, whatever    *)
(* batching and however many workers it uses: a client that has sent a     *)
(* request is answered exactly once, with the result of that very request, *)
(* unless a crash of the server loses the exchange.                        *)
(* DynamicBatching, the detailed model of the server, implements it.       *)
(***************************************************************************)
EXTENDS Naturals, Sequences

CONSTANTS Clients,      \* the REQ sockets connected to the server
          MaxRequests   \* bound: requests one client sends

VARIABLES client,       \* client[c]: "idle", "waiting" for a reply, or "gone"
          sent,         \* sent[c]: number of requests c has sent
          fromFront,    \* fromFront[c]: replies on their way to c
          lost          \* the clients whose request or reply is lost

vars == <<client, sent, fromFront, lost>>

Init == /\ client = [c \in Clients |-> "idle"]
        /\ sent = [c \in Clients |-> 0]
        /\ fromFront = [c \in Clients |-> <<>>]
        /\ lost = {}

Ask(c) == /\ client[c] = "idle"
          /\ sent[c] < MaxRequests
          /\ client' = [client EXCEPT ![c] = "waiting"]
          /\ sent' = [sent EXCEPT ![c] = @ + 1]
          /\ UNCHANGED <<fromFront, lost>>

\* The only reply a client may be sent: that of its latest request, once.
Answer(c) == /\ client[c] = "waiting"
             /\ c \notin lost
             /\ fromFront[c] = <<>>
             /\ fromFront' = [fromFront EXCEPT ![c] = <<[from |-> c, n |-> sent[c]]>>]
             /\ UNCHANGED <<client, sent, lost>>

Take(c) == /\ client[c] = "waiting"
           /\ fromFront[c] # <<>>
           /\ client' = [client EXCEPT ![c] = "idle"]
           /\ fromFront' = [fromFront EXCEPT ![c] = <<>>]
           /\ UNCHANGED <<sent, lost>>

Leave(c) == /\ client[c] # "gone"
            /\ client' = [client EXCEPT ![c] = "gone"]
            /\ fromFront' = [fromFront EXCEPT ![c] = <<>>]
            /\ UNCHANGED <<sent, lost>>

\* A crash of the server: some of those that wait will wait for ever.
Lose(S) == /\ \A c \in S : client[c] = "waiting"
           /\ lost' = lost \cup S
           /\ fromFront' = [c \in Clients |-> IF c \in S THEN <<>> ELSE fromFront[c]]
           /\ UNCHANGED <<client, sent>>

Next == \/ \E c \in Clients : Ask(c) \/ Answer(c) \/ Take(c) \/ Leave(c)
        \/ \E S \in SUBSET Clients : Lose(S)

SafeSpec == Init /\ [][Next]_vars

\* A client that waits, does not leave and is not lost is answered.
Spec == SafeSpec /\ \A c \in Clients : WF_vars(Answer(c))
=============================================================================
