------------------------------ MODULE Sessions ------------------------------
(***************************************************************************)
(* What the network plugin promises its user: every client has a mailbox   *)
(* and a session. A session is opened by a packet that is still waiting,   *)
(* packets are delivered during the session of the client that sent them,  *)
(* and only a client that is leaving loses any. Threads, mutexes and the   *)
(* plugin's maps are gone; NetworkPlugin implements this specification.    *)
(***************************************************************************)
CONSTANTS Endpoint, Buffer

VARIABLES
    clients,    \* the clients whose session is open
    leaving,    \* those whose disconnect was asked for
    mailbox,    \* for each endpoint, the packets received and not yet delivered
    delivered,  \* packets the user was given
    lost        \* packets dropped

vars == <<clients, leaving, mailbox, delivered, lost>>

Init ==
    /\ clients = {}
    /\ leaving = {}
    /\ mailbox = [e \in Endpoint |-> {}]
    /\ delivered = {}
    /\ lost = {}

Known == delivered \cup lost \cup UNION {mailbox[e] : e \in Endpoint}

\* A packet arrives, whether or not its sender has a session.
Receive(e, b) ==
    /\ b \notin Known
    /\ mailbox' = [mailbox EXCEPT ![e] = @ \cup {b}]
    /\ UNCHANGED <<clients, leaving, delivered, lost>>

\* new_client for endpoints without a session, each with a packet waiting.
Open(S) ==
    /\ S # {}
    /\ S \cap clients = {}
    /\ \A e \in S : mailbox[e] # {}
    /\ clients' = clients \cup S
    /\ UNCHANGED <<leaving, mailbox, delivered, lost>>

\* client_inputs: some of the packets a client sent, during its session.
Deliver(e, bs) ==
    /\ e \in clients
    /\ bs # {}
    /\ mailbox' = [mailbox EXCEPT ![e] = @ \ bs]
    /\ delivered' = delivered \cup bs
    /\ UNCHANGED <<clients, leaving, lost>>

\* disconnect() of a client.
Ask(e) ==
    /\ e \in clients \ leaving
    /\ leaving' = leaving \cup {e}
    /\ UNCHANGED <<clients, mailbox, delivered, lost>>

\* A client that is leaving loses packets that were waiting.
Drop(e, bs) ==
    /\ e \in leaving
    /\ bs # {}
    /\ mailbox' = [mailbox EXCEPT ![e] = @ \ bs]
    /\ lost' = lost \cup bs
    /\ UNCHANGED <<clients, leaving, delivered>>

\* on_disconnected: the session is over. Packets may wait for the next one.
Close(e) ==
    /\ e \in leaving
    /\ clients' = clients \ {e}
    /\ leaving' = leaving \ {e}
    /\ UNCHANGED <<mailbox, delivered, lost>>

Next ==
    \/ \E e \in Endpoint, b \in Buffer : Receive(e, b)
    \/ \E S \in SUBSET Endpoint : Open(S)
    \/ \E e \in Endpoint : \E bs \in SUBSET mailbox[e] : Deliver(e, bs) \/ Drop(e, bs)
    \/ \E e \in Endpoint : Ask(e) \/ Close(e)

Spec == Init /\ [][Next]_vars

=============================================================================
