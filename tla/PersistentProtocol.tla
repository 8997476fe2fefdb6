------------------------ MODULE PersistentProtocol -------------------------
(***************************************************************************)
(* PersistentProtocol (vs/base/parts/ipc/common/ipc.net.ts): two peers     *)
(* exchange messages over a socket that may be replaced by another one.    *)
(* Regular messages are numbered, kept until acknowledged and written      *)
(* again after a reconnection; the receiver takes only the next number.    *)
(*                                                                         *)
(* Both peers run the same class.  The reconnection that surrounds it is   *)
(* modelled as its two users drive it: the client opens a new socket and   *)
(* runs the control-message handshake of remoteAgentConnection.ts over it; *)
(* the server answers with a throw-away protocol object on that socket     *)
(* (remoteExtensionHostAgentServer.ts) and then gives the socket to the    *)
(* long-lived protocol, in its own process (a management connection) or in *)
(* the extension host process (Pause / Resume).                            *)
(*                                                                         *)
(* A socket carries whole messages in FIFO order per direction.  When it   *)
(* breaks, any suffix of what is in flight is lost and later writes        *)
(* vanish.  Time is abstracted: a timer that is armed may fire at any      *)
(* time, and one that fires too early re-arms itself, which is a stutter;  *)
(* so does one that finds the event loop too busy to blame the socket.     *)
(*                                                                         *)
(* A definition whose name ends in Faulty, or that is named for what it    *)
(* forgets, is a plausible mistake in the definition that follows it.  No  *)
(* action uses one; the README says which property tells it apart.         *)
(***************************************************************************)
EXTENDS Naturals, Sequences

CONSTANTS
    Client, Server,     \* the two peers
    Script,             \* [Peers -> Seq(Data)]: what each application sends
    Data,               \* application payloads
    NoData,             \* the payload of a message that carries none
    ExtensionHost,      \* BOOLEAN: is the socket handed to another process?
    LossyLink,          \* BOOLEAN: can a socket lose a message in mid-stream?
    MaxSockets,         \* bound: sockets the client opens
    KeepAliveRoom       \* bound: in-flight messages beside which KeepAlive is sent

Peers == {Client, Server}
Other(p) == IF p = Client THEN Server ELSE Client
Sockets == 1 .. MaxSockets

ControlData == {"auth", "sign", "connectionType", "ok"}

ProtocolMessageType ==
    {"Regular", "Control", "Ack", "ReplayRequest", "Pause", "Resume", "KeepAlive"}

ProtocolMessage ==
    [type : ProtocolMessageType, id : Nat, ack : Nat,
     data : Data \cup ControlData \cup {NoData}]

ASSUME PeersAssumption == Client # Server
ASSUME DataAssumption == Data \cap ControlData = {} /\ NoData \notin Data \cup ControlData
ASSUME ScriptAssumption == Script \in [Peers -> Seq(Data)]
ASSUME ModeAssumption == ExtensionHost \in BOOLEAN /\ LossyLink \in BOOLEAN
ASSUME BoundsAssumption == MaxSockets \in Nat \ {0} /\ KeepAliveRoom \in Nat

VARIABLES
    \* the fields of the PersistentProtocol of each peer
    isReconnecting,
    outgoingUnackMsg, outgoingMsgId, outgoingAckId, outgoingAckTimeout,
    incomingMsgId, incomingAckId, incomingAckTimeout,
    replayRequested,    \* a ReplayRequest was sent in the last 10 s
    socketTimeoutFired, \* onSocketTimeout has fired on this socket
    socket,             \* the socket in use
    writerData,         \* ProtocolWriter._data of that socket
    isPaused,           \* ProtocolWriter._isPaused of that socket
    \* the environment
    lastSocket,         \* sockets opened so far
    up,                 \* up[s]: writes to s still reach the other end
    net,                \* net[s][p]: written by p on s, not yet read
    \* the handshake
    clientState,        \* the client's side of the handshake
    serverState,        \* serverState[s]: the server's side, per socket
    \* what the applications saw
    delivered           \* delivered[p]: data fired by p's onMessage

sendVars == <<outgoingUnackMsg, outgoingMsgId, outgoingAckId>>
recvVars == <<incomingMsgId, delivered>>
writerVars == <<writerData, isPaused>>
netVars == <<lastSocket, up, net>>
handshakeVars == <<clientState, serverState>>
timerVars == <<outgoingAckTimeout, socketTimeoutFired>>
vars == <<isReconnecting, sendVars, recvVars, incomingAckId, incomingAckTimeout,
          timerVars, replayRequested, socket, writerVars, netVars, handshakeVars>>

-----------------------------------------------------------------------------
(* Messages *)

Msg(type, id, ack, data) == [type |-> type, id |-> id, ack |-> ack, data |-> data]

AckMsgFaulty(ack) == Msg("Ack", 0, ack + 1, NoData)
AckMsg(ack) == Msg("Ack", 0, ack, NoData)
Plain(type) == Msg(type, 0, 0, NoData)
Control(data) == Msg("Control", 0, 0, data)

(* ProtocolWriter.write: the messages join the buffer of the current socket. *)
Write(p, msgs) == writerData' = [writerData EXCEPT ![p] = @ \o msgs]

(* What is left to read of q when a socket breaks: any prefix. *)
Prefixes(q) == {SubSeq(q, 1, n) : n \in 0 .. Len(q)}

(* The peek/pop loop: drop the leading messages whose id is acknowledged. *)
DropAcked(q, ack) ==
    LET acked == CHOOSE n \in 0 .. Len(q) :
                    /\ \A i \in 1 .. n : q[i].id <= ack
                    /\ n < Len(q) => q[n + 1].id > ack
    IN  SubSeq(q, acked + 1, Len(q))

(* The next message p can read from its socket. *)
Readable(p) == net[socket[p]][Other(p)]

Init ==
    /\ isReconnecting = [p \in Peers |-> FALSE]
    /\ outgoingUnackMsg = [p \in Peers |-> <<>>]
    /\ outgoingMsgId = [p \in Peers |-> 0]
    /\ outgoingAckId = [p \in Peers |-> 0]
    /\ outgoingAckTimeout = [p \in Peers |-> FALSE]
    /\ incomingMsgId = [p \in Peers |-> 0]
    /\ incomingAckId = [p \in Peers |-> 0]
    /\ incomingAckTimeout = [p \in Peers |-> FALSE]
    /\ replayRequested = [p \in Peers |-> FALSE]
    /\ socketTimeoutFired = [p \in Peers |-> FALSE]
    /\ socket = [p \in Peers |-> 1]
    /\ writerData = [p \in Peers |-> <<>>]
    /\ isPaused = [p \in Peers |-> FALSE]
    /\ lastSocket = 1
    /\ up = [s \in Sockets |-> TRUE]
    /\ net = [s \in Sockets |-> [p \in Peers |-> <<>>]]
    /\ clientState = "connected"
    /\ serverState = [s \in Sockets |-> IF s = 1 THEN "Done" ELSE "WaitingForAuth"]
    /\ delivered = [p \in Peers |-> <<>>]

-----------------------------------------------------------------------------
(* Sending *)

(* _recvAckCheck: watch the oldest unacknowledged message.  Firing at once, *)
(* when 20 s have already passed, is arming and then firing.                *)
RecvAckCheck(p) ==
    outgoingAckTimeout' = [outgoingAckTimeout EXCEPT
        ![p] = @ \/ (outgoingMsgId'[p] > outgoingAckId'[p] /\ ~isReconnecting'[p])]

(* The message send() builds: the next number, the ack, the payload. *)
NextMessageEmpty(p) ==
    Msg("Regular", outgoingMsgId[p] + 1, incomingMsgId[p], NoData)

NextMessage(p) ==
    LET myId == outgoingMsgId[p] + 1
    IN  Msg("Regular", myId, incomingMsgId[p], Script[p][myId])

(* send(): number the message, keep it, and write it unless reconnecting. *)
Send(p) ==
    /\ outgoingMsgId[p] < Len(Script[p])
    /\ outgoingMsgId' = [outgoingMsgId EXCEPT ![p] = @ + 1]
    /\ outgoingUnackMsg' = [outgoingUnackMsg EXCEPT ![p] = Append(@, NextMessage(p))]
    /\ Write(p, IF isReconnecting[p] THEN <<>> ELSE <<NextMessage(p)>>)
    /\ incomingAckId' = [incomingAckId EXCEPT ![p] = incomingMsgId[p]]
    /\ UNCHANGED <<isReconnecting, outgoingAckId, socketTimeoutFired>>
    /\ RecvAckCheck(p)
    /\ UNCHANGED <<recvVars, incomingAckTimeout, replayRequested, socket, isPaused,
                   netVars, handshakeVars>>

(* _sendAckCheck from its timer, 2 s after the last incoming message. *)
AckTimeout(p) ==
    /\ incomingAckTimeout[p]
    /\ incomingAckTimeout' = [incomingAckTimeout EXCEPT ![p] = FALSE]
    /\ incomingAckId' = [incomingAckId EXCEPT ![p] = incomingMsgId[p]]
    /\ Write(p, IF incomingMsgId[p] > incomingAckId[p]
                THEN <<AckMsg(incomingMsgId[p])>> ELSE <<>>)
    /\ UNCHANGED <<isReconnecting, sendVars, recvVars, timerVars, replayRequested,
                   socket, isPaused, netVars, handshakeVars>>

(* _recvAckCheck from its timer, when it does not re-arm it: there is       *)
(* nothing to watch any more, or nothing was received for 20 s.             *)
UnackTimeout(p) ==
    /\ outgoingAckTimeout[p]
    /\ outgoingAckTimeout' = [outgoingAckTimeout EXCEPT ![p] = FALSE]
    /\ socketTimeoutFired' = [socketTimeoutFired EXCEPT
            ![p] = @ \/ (outgoingMsgId[p] > outgoingAckId[p] /\ ~isReconnecting[p])]
    /\ UNCHANGED <<isReconnecting, sendVars, recvVars, incomingAckId, incomingAckTimeout,
                   replayRequested, socket, writerVars, netVars, handshakeVars>>

(* _sendKeepAlive, every 5 s: it also carries, and so settles, the ack;     *)
(* then _keepAliveTimeoutCheck.  Bounded by KeepAliveRoom, and one at a     *)
(* time: a second KeepAlive behind another with the same ack adds nothing.  *)
KeepAlive(p) ==
    LET msg == Msg("KeepAlive", 0, incomingMsgId[p], NoData)
        inFlight == net[socket[p]][p] \o writerData[p]
    IN  /\ Len(inFlight) <= KeepAliveRoom
        /\ \A i \in 1 .. Len(inFlight) : inFlight[i].type # "KeepAlive"
        /\ Write(p, <<msg>>)
        /\ incomingAckId' = [incomingAckId EXCEPT ![p] = incomingMsgId[p]]
        /\ \/ UNCHANGED socketTimeoutFired
           \/ /\ ~isReconnecting[p]
              /\ socketTimeoutFired' = [socketTimeoutFired EXCEPT ![p] = TRUE]
        /\ UNCHANGED <<isReconnecting, sendVars, recvVars, incomingAckTimeout,
                       outgoingAckTimeout, replayRequested, socket, isPaused,
                       netVars, handshakeVars>>

(* ProtocolWriter._writeNow, from its setTimeout. *)
Flush(p) ==
    /\ ~isPaused[p]
    /\ writerData[p] # <<>>
    /\ writerData' = [writerData EXCEPT ![p] = <<>>]
    /\ net' = IF up[socket[p]]
              THEN [net EXCEPT ![socket[p]][p] = @ \o writerData[p]]
              ELSE net
    /\ UNCHANGED <<isReconnecting, sendVars, recvVars, incomingAckId, incomingAckTimeout,
                   timerVars, replayRequested, socket, isPaused, lastSocket, up,
                   handshakeVars>>

-----------------------------------------------------------------------------
(* Receiving: _receiveMessage.  Every message is popped and its ack taken.  *)

Pop(p, type) ==
    /\ Readable(p) # <<>>
    /\ Head(Readable(p)).type = type
    /\ net' = [net EXCEPT ![socket[p]][Other(p)] = Tail(@)]
    /\ UNCHANGED <<lastSocket, up>>

TakeAck(p) ==
    LET ack == Head(Readable(p)).ack IN
    IF ack > outgoingAckId[p]
    THEN /\ outgoingAckId' = [outgoingAckId EXCEPT ![p] = ack]
         /\ outgoingUnackMsg' = [outgoingUnackMsg EXCEPT ![p] = DropAcked(@, ack)]
    ELSE UNCHANGED <<outgoingAckId, outgoingUnackMsg>>

(* The test that makes a message the next one. *)
IsNextFaulty(p, msg) == TRUE
IsNextOrLater(p, msg) == msg.id > incomingMsgId[p]
IsNext(p, msg) == msg.id = incomingMsgId[p] + 1

(* _sendAckCheck after a message was counted: an ack is due in 2 s. *)
SendAckCheckFaulty(p) ==
    incomingAckTimeout' = [incomingAckTimeout EXCEPT
                             ![p] = @ \/ incomingMsgId[p] > incomingAckId[p]]

SendAckCheck(p) ==
    incomingAckTimeout' = [incomingAckTimeout EXCEPT
                             ![p] = @ \/ incomingMsgId'[p] > incomingAckId[p]]

(* The next message in order: it is counted, an ack is due, it is fired. *)
ReceiveRegular(p) ==
    LET msg == Head(Readable(p)) IN
    /\ Pop(p, "Regular")
    /\ TakeAck(p)
    /\ IsNext(p, msg)
    /\ incomingMsgId' = [incomingMsgId EXCEPT ![p] = msg.id]
    /\ delivered' = [delivered EXCEPT ![p] = Append(@, msg.data)]
    /\ SendAckCheck(p)
    /\ UNCHANGED <<isReconnecting, outgoingMsgId, incomingAckId, timerVars,
                   replayRequested, socket, writerVars, handshakeVars>>

(* A message written again that had arrived before: ignored. *)
ReceiveDuplicate(p) ==
    /\ Pop(p, "Regular")
    /\ TakeAck(p)
    /\ Head(Readable(p)).id <= incomingMsgId[p]
    /\ UNCHANGED <<isReconnecting, outgoingMsgId, recvVars, incomingAckId,
                   incomingAckTimeout, timerVars, replayRequested, socket,
                   writerVars, handshakeVars>>

(* A message beyond the next one: ask for a replay, at most once every 10 s. *)
ReceiveGap(p) ==
    /\ Pop(p, "Regular")
    /\ TakeAck(p)
    /\ Head(Readable(p)).id > incomingMsgId[p] + 1
    /\ Write(p, IF replayRequested[p] THEN <<>> ELSE <<Plain("ReplayRequest")>>)
    /\ replayRequested' = [replayRequested EXCEPT ![p] = TRUE]
    /\ UNCHANGED <<isReconnecting, outgoingMsgId, recvVars, incomingAckId,
                   incomingAckTimeout, timerVars, socket, isPaused, handshakeVars>>

(* Ten seconds have passed since the last replay request. *)
ReplayWindowEnds(p) ==
    /\ replayRequested[p]
    /\ replayRequested' = [replayRequested EXCEPT ![p] = FALSE]
    /\ UNCHANGED <<isReconnecting, sendVars, recvVars, incomingAckId, incomingAckTimeout,
                   timerVars, socket, writerVars, netVars, handshakeVars>>

ReceiveAck(p) ==
    /\ \E type \in {"Ack", "KeepAlive"} : Pop(p, type)
    /\ TakeAck(p)
    /\ UNCHANGED <<isReconnecting, outgoingMsgId, recvVars, incomingAckId,
                   incomingAckTimeout, timerVars, replayRequested, socket,
                   writerVars, handshakeVars>>

(* Write again all that is unacknowledged. *)
ReceiveReplayRequest(p) ==
    /\ Pop(p, "ReplayRequest")
    /\ TakeAck(p)
    /\ Write(p, outgoingUnackMsg'[p])
    /\ UNCHANGED <<isReconnecting, outgoingMsgId, socketTimeoutFired>>
    /\ RecvAckCheck(p)
    /\ UNCHANGED <<recvVars, incomingAckId, incomingAckTimeout, replayRequested,
                   socket, isPaused, handshakeVars>>

ReceivePause(p) ==
    /\ Pop(p, "Pause")
    /\ TakeAck(p)
    /\ isPaused' = [isPaused EXCEPT ![p] = TRUE]
    /\ UNCHANGED <<isReconnecting, outgoingMsgId, recvVars, incomingAckId,
                   incomingAckTimeout, timerVars, replayRequested, socket,
                   writerData, handshakeVars>>

ReceiveResume(p) ==
    /\ Pop(p, "Resume")
    /\ TakeAck(p)
    /\ isPaused' = [isPaused EXCEPT ![p] = FALSE]
    /\ UNCHANGED <<isReconnecting, outgoingMsgId, recvVars, incomingAckId,
                   incomingAckTimeout, timerVars, replayRequested, socket,
                   writerData, handshakeVars>>

(* The client's reader of control messages during the handshake. *)
ReceiveSign ==
    /\ Pop(Client, "Control")
    /\ TakeAck(Client)
    /\ clientState = "auth" /\ Head(Readable(Client)).data = "sign"
    /\ clientState' = "connectionType"
    /\ Write(Client, <<Control("connectionType")>>)
    /\ UNCHANGED <<isReconnecting, outgoingMsgId, recvVars, incomingAckId,
                   incomingAckTimeout, timerVars, replayRequested, socket,
                   isPaused, serverState>>

ReceiveOk ==
    /\ Pop(Client, "Control")
    /\ TakeAck(Client)
    /\ clientState = "connectionType" /\ Head(Readable(Client)).data = "ok"
    /\ clientState' = "ok"
    /\ UNCHANGED <<isReconnecting, outgoingMsgId, recvVars, incomingAckId,
                   incomingAckTimeout, timerVars, replayRequested, socket,
                   writerVars, serverState>>

-----------------------------------------------------------------------------
(* Reconnection *)

(* The old writer flushes what it may into the old socket, which is then    *)
(* disposed: its tail may be lost, and p reads no more of it.               *)
CloseOldSocket(p, links) ==
    LET old == socket[p]
        flushed == IF up[old] /\ ~isPaused[p]
                   THEN links[old][p] \o writerData[p] ELSE links[old][p]
    IN  /\ up' = [up EXCEPT ![old] = FALSE]
        /\ \E left \in Prefixes(flushed) :
             net' = [links EXCEPT ![old] =
                        [q \in Peers |-> IF q = p THEN left ELSE <<>>]]

(* beginAcceptReconnection: a fresh, unpaused writer on the new socket.     *)
(* links is what the sockets carry when it is called.                       *)
BeginAcceptReconnection(p, s, written, links) ==
    /\ isReconnecting' = [isReconnecting EXCEPT ![p] = TRUE]
    /\ CloseOldSocket(p, links)
    /\ replayRequested' = [replayRequested EXCEPT ![p] = FALSE]
    /\ socketTimeoutFired' = [socketTimeoutFired EXCEPT ![p] = FALSE]
    /\ socket' = [socket EXCEPT ![p] = s]
    /\ writerData' = [writerData EXCEPT ![p] = written]
    /\ isPaused' = [isPaused EXCEPT ![p] = FALSE]

(* What endAcceptReconnection writes: it tells again what was received and  *)
(* repeats what was not acknowledged.                                       *)
Repeated(p) == <<AckMsg(incomingMsgId[p])>> \o outgoingUnackMsg[p]

EndAcceptReconnection(p, after) ==
    /\ isReconnecting' = [isReconnecting EXCEPT ![p] = FALSE]
    /\ incomingAckId' = [incomingAckId EXCEPT ![p] = incomingMsgId[p]]
    /\ Write(p, Repeated(p) \o after)
    /\ UNCHANGED sendVars
    /\ RecvAckCheck(p)

(* The client opens a socket and starts the handshake over it.  It does so  *)
(* when its socket closed or timed out, when an attempt failed or timed     *)
(* out: the model lets it happen at any time.                               *)
ClientBegin ==
    /\ lastSocket < MaxSockets
    /\ lastSocket' = lastSocket + 1
    /\ BeginAcceptReconnection(Client, lastSocket + 1, <<Control("auth")>>, net)
    /\ clientState' = "auth"
    /\ UNCHANGED <<sendVars, recvVars, incomingAckId, incomingAckTimeout,
                   outgoingAckTimeout, serverState>>

ClientEnd ==
    /\ clientState = "ok"
    /\ clientState' = "connected"
    /\ EndAcceptReconnection(Client, <<>>)
    /\ UNCHANGED <<recvVars, incomingAckTimeout, socketTimeoutFired, replayRequested,
                   socket, isPaused, netVars, serverState>>

(* The throw-away protocol of the server has data to read on socket s; the  *)
(* links once it has read it and answered msgs, which a broken s loses.     *)
HandshakeReadable(s) ==
    /\ s <= lastSocket
    /\ net[s][Client] # <<>>

HandshakeReply(s, msgs) ==
    [net EXCEPT ![s] = [q \in Peers |->
        IF q = Client THEN Tail(@[q])
        ELSE IF up[s] THEN @[q] \o msgs ELSE @[q]]]

(* It has read the control message data on socket s, in this state. *)
HandshakeRead(s, state, data) ==
    /\ serverState[s] = state
    /\ HandshakeReadable(s)
    /\ Head(net[s][Client]) = Control(data)

handshakeUnchanged == <<isReconnecting, sendVars, recvVars, incomingAckId,
    incomingAckTimeout, timerVars, replayRequested, socket, writerVars,
    lastSocket, up, clientState>>

HandshakeAuth(s) ==
    /\ HandshakeRead(s, "WaitingForAuth", "auth")
    /\ net' = HandshakeReply(s, <<Control("sign")>>)
    /\ serverState' = [serverState EXCEPT ![s] = "WaitingForConnectionType"]
    /\ UNCHANGED handshakeUnchanged

(* A message that is not a control message is read and forgotten; while the *)
(* socket waits to be handed over, so is every message that still arrives.  *)
HandshakeIgnore(s) ==
    /\ serverState[s] # "Done"
    /\ HandshakeReadable(s)
    /\ Head(net[s][Client]).type = "Control" => serverState[s] = "HandedOver"
    /\ net' = HandshakeReply(s, <<>>)
    /\ UNCHANGED <<serverState, handshakeUnchanged>>

serverBeginUnchanged == <<sendVars, recvVars, incomingAckId, incomingAckTimeout,
    outgoingAckTimeout, lastSocket, clientState>>

(* A management connection: ok, and beginAcceptReconnection in the same     *)
(* turn.  What arrived behind the handshake (the initial chunk) is read by  *)
(* the long-lived protocol, possibly before ServerEnd.                      *)
AcceptManagement(s) ==
    /\ ~ExtensionHost
    /\ HandshakeRead(s, "WaitingForConnectionType", "connectionType")
    /\ serverState' = [serverState EXCEPT ![s] = "Done"]
    /\ BeginAcceptReconnection(Server, s, <<>>, HandshakeReply(s, <<Control("ok")>>))
    /\ UNCHANGED serverBeginUnchanged

(* An extension host connection: Pause and the first message, then the      *)
(* socket waits to be taken by the extension host process.                  *)
HandOverFaulty(s) ==
    /\ ExtensionHost
    /\ HandshakeRead(s, "WaitingForConnectionType", "connectionType")
    /\ serverState' = [serverState EXCEPT ![s] = "HandedOver"]
    /\ net' = HandshakeReply(s, <<Control("ok")>>)
    /\ UNCHANGED handshakeUnchanged

HandOver(s) ==
    /\ ExtensionHost
    /\ HandshakeRead(s, "WaitingForConnectionType", "connectionType")
    /\ serverState' = [serverState EXCEPT ![s] = "HandedOver"]
    /\ net' = HandshakeReply(s, <<Plain("Pause"), Control("ok")>>)
    /\ UNCHANGED handshakeUnchanged

AcceptExtensionHost(s) ==
    /\ serverState[s] = "HandedOver"
    /\ serverState' = [serverState EXCEPT ![s] = "Done"]
    /\ BeginAcceptReconnection(Server, s, <<>>, net)
    /\ UNCHANGED serverBeginUnchanged

(* endAcceptReconnection, and in the extension host process sendResume. *)
ServerEndFaulty ==
    /\ isReconnecting[Server]
    /\ EndAcceptReconnection(Server, <<>>)
    /\ UNCHANGED <<recvVars, incomingAckTimeout, socketTimeoutFired, replayRequested,
                   socket, isPaused, netVars, handshakeVars>>

ServerEnd ==
    /\ isReconnecting[Server]
    /\ EndAcceptReconnection(Server, IF ExtensionHost THEN <<Plain("Resume")>> ELSE <<>>)
    /\ UNCHANGED <<recvVars, incomingAckTimeout, socketTimeoutFired, replayRequested,
                   socket, isPaused, netVars, handshakeVars>>

-----------------------------------------------------------------------------
(* The environment *)

(* A socket breaks: each direction keeps some prefix of what is in flight.  *)
(* The last socket the bound allows does not break.                         *)
SocketBreaks(s) ==
    /\ s <= lastSocket /\ s < MaxSockets
    /\ up[s]
    /\ up' = [up EXCEPT ![s] = FALSE]
    /\ \E c \in Prefixes(net[s][Client]), d \in Prefixes(net[s][Server]) :
         net' = [net EXCEPT ![s][Client] = c, ![s][Server] = d]
    /\ UNCHANGED <<isReconnecting, sendVars, recvVars, incomingAckId, incomingAckTimeout,
                   timerVars, replayRequested, socket, writerVars, lastSocket, handshakeVars>>

(* "in case we missed some messages": the first one in flight disappears. *)
MessageLost(s, p) ==
    /\ LossyLink
    /\ net[s][p] # <<>>
    /\ net' = [net EXCEPT ![s][p] = Tail(@)]
    /\ UNCHANGED <<isReconnecting, sendVars, recvVars, incomingAckId, incomingAckTimeout,
                   timerVars, replayRequested, socket, writerVars, lastSocket, up,
                   handshakeVars>>

-----------------------------------------------------------------------------
PeerStep(p) ==
    \/ Send(p) \/ AckTimeout(p) \/ UnackTimeout(p) \/ KeepAlive(p) \/ Flush(p)
    \/ ReceiveRegular(p) \/ ReceiveDuplicate(p) \/ ReceiveGap(p)
    \/ ReplayWindowEnds(p) \/ ReceiveAck(p) \/ ReceiveReplayRequest(p)
    \/ ReceivePause(p) \/ ReceiveResume(p)

ClientStep == ReceiveSign \/ ReceiveOk \/ ClientBegin \/ ClientEnd

ServerStep(s) ==
    \/ HandshakeAuth(s) \/ HandshakeIgnore(s)
    \/ AcceptManagement(s) \/ HandOver(s) \/ AcceptExtensionHost(s)

Environment(s) == SocketBreaks(s) \/ \E p \in Peers : MessageLost(s, p)

Next ==
    \/ \E p \in Peers : PeerStep(p)
    \/ ClientStep
    \/ \E s \in Sockets : ServerStep(s)
    \/ ServerEnd
    \/ \E s \in Sockets : Environment(s)

Spec == Init /\ [][Next]_vars

(* What the event loops guarantee: a buffer is flushed, what arrived is     *)
(* read, the ack timer fires, a client whose socket is dead opens another,  *)
(* a handshake under way goes on.  Nothing is assumed of the applications,  *)
(* of the other timers, or of the sockets.                                  *)
Receive(p) ==
    \/ ReceiveRegular(p) \/ ReceiveDuplicate(p) \/ ReceiveGap(p) \/ ReceiveAck(p)
    \/ ReceiveReplayRequest(p) \/ ReceivePause(p) \/ ReceiveResume(p)
    \/ (p = Client /\ (ReceiveSign \/ ReceiveOk))

Fairness ==
    /\ \A p \in Peers :
          WF_vars(Flush(p)) /\ WF_vars(Receive(p)) /\ WF_vars(AckTimeout(p))
    /\ WF_vars(~up[socket[Client]] /\ ClientBegin)
    /\ WF_vars(ClientEnd) /\ WF_vars(ServerEnd)
    /\ \A s \in Sockets : WF_vars(ServerStep(s))

FairSpec == Spec /\ Fairness

-----------------------------------------------------------------------------
(* Properties *)

TypeOK ==
    /\ isReconnecting \in [Peers -> BOOLEAN]
    /\ outgoingUnackMsg \in [Peers -> Seq(ProtocolMessage)]
    /\ outgoingMsgId \in [Peers -> Nat]
    /\ outgoingAckId \in [Peers -> Nat]
    /\ outgoingAckTimeout \in [Peers -> BOOLEAN]
    /\ incomingMsgId \in [Peers -> Nat]
    /\ incomingAckId \in [Peers -> Nat]
    /\ incomingAckTimeout \in [Peers -> BOOLEAN]
    /\ replayRequested \in [Peers -> BOOLEAN]
    /\ socketTimeoutFired \in [Peers -> BOOLEAN]
    /\ socket \in [Peers -> Sockets]
    /\ writerData \in [Peers -> Seq(ProtocolMessage)]
    /\ isPaused \in [Peers -> BOOLEAN]
    /\ lastSocket \in Sockets
    /\ up \in [Sockets -> BOOLEAN]
    /\ net \in [Sockets -> [Peers -> Seq(ProtocolMessage)]]
    /\ clientState \in {"auth", "connectionType", "ok", "connected"}
    /\ serverState \in [Sockets ->
            {"WaitingForAuth", "WaitingForConnectionType", "HandedOver", "Done"}]
    /\ delivered \in [Peers -> Seq(Data)]

(* Nothing is lost, duplicated or reordered between the two applications:   *)
(* each has been handed exactly the first messages its peer sent.           *)
DeliveredInOrder ==
    \A p \in Peers :
        /\ Len(delivered[p]) = incomingMsgId[p]
        /\ incomingMsgId[p] <= outgoingMsgId[Other(p)]
        /\ \A i \in 1 .. incomingMsgId[p] : delivered[p][i] = Script[Other(p)][i]

(* _outgoingUnackMsg holds exactly the messages after outgoingAckId, in     *)
(* order: `peek()!` in _recvAckCheck is never undefined, a replay leaves    *)
(* nothing out.                                                             *)
UnackQueue ==
    \A p \in Peers :
        /\ Len(outgoingUnackMsg[p]) + outgoingAckId[p] = outgoingMsgId[p]
        /\ \A i \in 1 .. Len(outgoingUnackMsg[p]) :
              outgoingUnackMsg[p][i].id = outgoingAckId[p] + i

(* A message is dropped from the queue only once the peer delivered it,     *)
(* however late, repeated or lost the acks are.                             *)
AckedWasDelivered ==
    \A p \in Peers : outgoingAckId[p] <= Len(delivered[Other(p)])

(* Whatever the peer has not delivered can still be sent again. *)
ReplayIsPossible == UnackQueue /\ AckedWasDelivered

(* The peer is owed an acknowledgement only while the timer that will send  *)
(* it is running.                                                           *)
AckIsScheduled ==
    \A p \in Peers : incomingMsgId[p] > incomingAckId[p] => incomingAckTimeout[p]

(* An unacknowledged message is watched, unless its protocol reconnects or  *)
(* the socket has already been reported dead.                               *)
UnackedIsWatched ==
    \A p \in Peers :
        outgoingMsgId[p] > outgoingAckId[p] =>
            outgoingAckTimeout[p] \/ isReconnecting[p] \/ socketTimeoutFired[p]

(* Nothing is owed and nothing is awaited without a timer: no timer that    *)
(* runs for something else, or that a reconnection stopped, is taken for it. *)
NothingIsForgotten == AckIsScheduled /\ UnackedIsWatched

(* On a socket that loses no message in mid-stream no number is skipped, in *)
(* spite of lost tails, stale sockets and hand-overs: no replay is needed.  *)
NoGap ==
    \A p \in Peers :
        Readable(p) # <<>> => Head(Readable(p)).id <= incomingMsgId[p] + 1

(* The bytes that reach a socket between its handshake and the extension    *)
(* host process belong to nobody: Pause keeps regular messages out of them. *)
NoRegularInHandOver ==
    \A s \in Sockets : serverState[s] # "Done" =>
        \A i \in 1 .. Len(net[s][Client]) : net[s][Client][i].type # "Regular"

(* What a socket carries can be read as it comes: by the protocol, without  *)
(* a gap, and by the handshake, without a message that is not for it.       *)
SocketsAreReadable == NoGap /\ NoRegularInHandOver

(* Every message in flight, on any socket ever opened, tells the truth for  *)
(* ever: its number names the payload it carries, and its ack a message     *)
(* that its writer had received.  Replays carry old acks; stale sockets are *)
(* read late.                                                               *)
Truthful(p, m) ==
    /\ m.ack <= incomingMsgId[p]
    /\ m.type = "Regular" =>
          /\ m.id \in 1 .. outgoingMsgId[p]
          /\ m.data = Script[p][m.id]

AllTruthful(p, q) == \A i \in 1 .. Len(q) : Truthful(p, q[i])

InFlightIsTruthful ==
    \A p \in Peers :
        /\ AllTruthful(p, outgoingUnackMsg[p])
        /\ AllTruthful(p, writerData[p])
        /\ \A s \in Sockets : AllTruthful(p, net[s][p])

(* Once sockets stop breaking, everything sent is delivered and both sides  *)
(* know it, whatever was lost before.                                       *)
EventuallyConfirmed ==
    <>[]up[lastSocket] => <>[](\A p \in Peers : outgoingAckId[p] = outgoingMsgId[p])

(* The channel PersistentProtocol implements. *)
Channel == INSTANCE ReliableChannel WITH
    sent <- outgoingMsgId, confirmed <- outgoingAckId

ChannelSpec == Channel!Spec
=============================================================================
