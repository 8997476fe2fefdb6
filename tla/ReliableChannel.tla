-------------------------- MODULE ReliableChannel --------------------------
(***************************************************************************)
(* What PersistentProtocol promises to the code above it: between two      *)
(* peers, each direction is one FIFO of application messages that outlives *)
(* any number of sockets.  A message is delivered at most once, in the     *)
(* order of sending, and the sender never counts a message as acknowledged *)
(* that its peer has not delivered.  Nothing here mentions sockets, ids,   *)
(* acknowledgement messages, replays or timers.                            *)
(***************************************************************************)
EXTENDS Naturals, Sequences

CONSTANTS
    Client, Server,     \* the two peers
    Script              \* [Peers -> Seq(Data)]: what each application sends

Peers == {Client, Server}
Other(p) == IF p = Client THEN Server ELSE Client

VARIABLES
    sent,           \* sent[p]: number of messages p's application has sent
    delivered,      \* delivered[p]: the messages p's application has been handed
    confirmed       \* confirmed[p]: how many of its messages p knows delivered

vars == <<sent, delivered, confirmed>>

Init ==
    /\ sent = [p \in Peers |-> 0]
    /\ delivered = [p \in Peers |-> <<>>]
    /\ confirmed = [p \in Peers |-> 0]

(* The application of p hands its next message to the channel. *)
Send(p) ==
    /\ sent[p] < Len(Script[p])
    /\ sent' = [sent EXCEPT ![p] = @ + 1]
    /\ UNCHANGED <<delivered, confirmed>>

(* p hands its application the oldest message not yet delivered to it. *)
Deliver(p) ==
    /\ Len(delivered[p]) < sent[Other(p)]
    /\ delivered' = [delivered EXCEPT
                        ![p] = Append(@, Script[Other(p)][Len(@) + 1])]

(* p learns that more of its messages have been delivered. *)
Confirm(p) ==
    \E n \in confirmed[p] .. Len(delivered[Other(p)]) :
        confirmed' = [confirmed EXCEPT ![p] = n]

(* One packet from the peer may carry a message, an acknowledgement, both. *)
Receive(p) ==
    /\ Deliver(p) \/ UNCHANGED delivered
    /\ Confirm(p)
    /\ UNCHANGED sent

Next == \E p \in Peers : Send(p) \/ Receive(p)

Spec == Init /\ [][Next]_vars
=============================================================================
