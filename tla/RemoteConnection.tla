-------------------------- MODULE RemoteConnection --------------------------
(***************************************************************************)
(* Who still believes in a remote connection: the reconnecting loop of     *)
(* PersistentConnection on the client (remoteAgentConnection.ts), and the  *)
(* registry and grace times of the server (remoteExtensionHostAgentServer, *)
(* remoteExtensionManagement, extensionHostConnection,                     *)
(* extensionHostProcess).  PersistentProtocol models what such a           *)
(* connection carries; here a socket carries the handshake only.           *)
(*                                                                         *)
(* A management connection lives in the server process and its failure is  *)
(* fatal for the window.  An extension host connection lives in a process  *)
(* of its own, to which the server sends the socket.  Both keep a long     *)
(* (1) and a short (2) grace timer.  Time is abstracted: what may expire   *)
(* may do so at any moment.  The grace time is positive.                   *)
(*                                                                         *)
(* A definition whose name is that of the one that follows it, with a      *)
(* suffix, is a plausible mistake in it.  No action uses one; the README   *)
(* says which property tells it apart.                                     *)
(***************************************************************************)
EXTENDS Naturals

CONSTANTS
    Connections,        \* the connections of one window, by reconnection token
    Fatal,              \* the management connections among them
    MaxSockets          \* bound: sockets opened for one connection

Sockets == 1 .. MaxSockets

ASSUME FatalAssumption == Fatal \subseteq Connections
ASSUME BoundAssumption == MaxSockets \in Nat \ {0}

VARIABLES
    \* PersistentConnection, per connection
    loop,               \* where the reconnecting loop is; "idle": none runs
    graceExpired,       \* the client's grace time is over
    isDisposed,         \* its owner disposed it
    failed,             \* the permanent failure was announced
    permanentFailure,   \* the static flag, shared by all connections
    \* its protocol
    clientSocket,       \* the socket in use
    attached,           \* the protocol listens to that socket
    midHandshake,       \* PersistentProtocol._isReconnecting
    closeSeen,          \* the close of that socket was delivered
    \* sockets
    lastSocket, up,
    toServer, toClient, \* the handshake message in flight, or "none"
    \* the server
    handshake,          \* state of the handshake on each socket
    registered,         \* the token is in the server's table
    alive,              \* the connection, or its process, was not disposed
    serverSocket,       \* the socket it uses
    serverCloseSeen,    \* the close of that socket was delivered
    runner1, runner2,   \* the grace timers are scheduled
    reduceGrace         \* a request to shorten is on its way to the process

loopVars == <<loop, graceExpired>>
ownerVars == <<isDisposed, failed, permanentFailure>>
protocolVars == <<clientSocket, attached, midHandshake, closeSeen>>
clientVars == <<loopVars, ownerVars, protocolVars>>
messageVars == <<toServer, toClient>>
linkVars == <<lastSocket, up, messageVars>>
runnerVars == <<runner1, runner2>>
serverVars == <<registered, alive, serverSocket, serverCloseSeen, runnerVars, reduceGrace>>
vars == <<clientVars, linkVars, handshake, serverVars>>

Init ==
    /\ loop = [k \in Connections |-> "idle"]
    /\ graceExpired = [k \in Connections |-> FALSE]
    /\ isDisposed = [k \in Connections |-> FALSE]
    /\ failed = [k \in Connections |-> FALSE]
    /\ permanentFailure = FALSE
    /\ clientSocket = [k \in Connections |-> 1]
    /\ attached = [k \in Connections |-> TRUE]
    /\ midHandshake = [k \in Connections |-> FALSE]
    /\ closeSeen = [k \in Connections |-> FALSE]
    /\ lastSocket = [k \in Connections |-> 1]
    /\ up = [k \in Connections |-> [s \in Sockets |-> TRUE]]
    /\ toServer = [k \in Connections |-> [s \in Sockets |-> "none"]]
    /\ toClient = [k \in Connections |-> [s \in Sockets |-> "none"]]
    /\ handshake = [k \in Connections |->
                     [s \in Sockets |-> IF s = 1 THEN "Done" ELSE "WaitingForAuth"]]
    /\ registered = [k \in Connections |-> TRUE]
    /\ alive = [k \in Connections |-> TRUE]
    /\ serverSocket = [k \in Connections |-> 1]
    /\ serverCloseSeen = [k \in Connections |-> FALSE]
    /\ runner1 = [k \in Connections |-> FALSE]
    /\ runner2 = [k \in Connections |-> FALSE]
    /\ reduceGrace = [k \in Connections |-> FALSE]

-----------------------------------------------------------------------------
(* The client: the reconnecting loop *)

(* _beginReconnecting.  The first attempt does not wait. *)
BeginReconnectingAlways(k) ==
    IF loop[k] = "idle" /\ ~isDisposed[k]
    THEN /\ loop' = [loop EXCEPT ![k] = "connecting"]
         /\ graceExpired' = [graceExpired EXCEPT ![k] = FALSE]
    ELSE UNCHANGED loopVars

BeginReconnecting(k) ==
    IF loop[k] = "idle" /\ ~permanentFailure /\ ~isDisposed[k]
    THEN /\ loop' = [loop EXCEPT ![k] = "connecting"]
         /\ graceExpired' = [graceExpired EXCEPT ![k] = FALSE]
    ELSE UNCHANGED loopVars

SocketClosed(k) ==
    /\ attached[k] /\ ~up[k][clientSocket[k]] /\ ~closeSeen[k]
    /\ ~isDisposed[k]
    /\ closeSeen' = [closeSeen EXCEPT ![k] = TRUE]
    /\ BeginReconnecting(k)
    /\ UNCHANGED <<ownerVars, clientSocket, attached, midHandshake, linkVars, handshake,
                   serverVars>>

(* onSocketTimeout, from a timer of the protocol or from a send() that      *)
(* finds it silent; also after the protocol was disposed.                   *)
SocketTimesOut(k) ==
    /\ ~midHandshake[k] /\ ~isDisposed[k]
    /\ clientSocket[k] = MaxSockets => ~up[k][clientSocket[k]]
    /\ BeginReconnecting(k)
    /\ UNCHANGED <<ownerVars, protocolVars, linkVars, handshake, serverVars>>

(* _onReconnectionPermanentFailure: the loop of k ends.  A fatal failure    *)
(* fails every connection that is not disposed; their loops go on until     *)
(* they look at the flag.                                                   *)
PermanentFailure(k) ==
    LET victims == IF k \in Fatal THEN {j \in Connections : ~isDisposed[j]} ELSE {k}
    IN  /\ loop' = [loop EXCEPT ![k] = "idle"]
        /\ permanentFailure' = (permanentFailure \/ k \in Fatal)
        /\ failed' = [j \in Connections |-> failed[j] \/ j \in victims]
        /\ attached' = [j \in Connections |-> attached[j] /\ j \notin victims]
        /\ up' = [j \in Connections |-> [s \in Sockets |->
                    up[j][s] /\ ~(j \in victims /\ s = clientSocket[j])]]
        /\ UNCHANGED <<graceExpired, isDisposed, clientSocket, midHandshake, closeSeen>>

(* The end of an attempt that failed for lack of network or of time. *)
RetryOnce(k) ==
    /\ loop' = [loop EXCEPT ![k] = "idle"]
    /\ UNCHANGED <<graceExpired, ownerVars, protocolVars, up>>

Retry(k) ==
    IF graceExpired[k] THEN PermanentFailure(k)
    ELSE /\ loop' = [loop EXCEPT ![k] =
                       IF permanentFailure \/ isDisposed[k] THEN "idle" ELSE "waiting"]
         /\ UNCHANGED <<graceExpired, ownerVars, protocolVars, up>>

(* The sleep between two attempts ends, or the user skips it. *)
WaitEnds(k) ==
    /\ loop[k] = "waiting"
    /\ loop' = [loop EXCEPT ![k] = IF permanentFailure THEN "idle" ELSE "connecting"]
    /\ UNCHANGED <<graceExpired, ownerVars, protocolVars, linkVars, handshake, serverVars>>

(* The authority is not resolved, the socket is not opened. *)
ConnectFails(k) ==
    /\ loop[k] = "connecting"
    /\ Retry(k) \/ PermanentFailure(k)
    /\ UNCHANGED <<lastSocket, messageVars, handshake, serverVars>>

(* The socket is open: beginAcceptReconnection, and the auth message. *)
ConnectSucceeds(k) ==
    LET s == lastSocket[k] + 1 IN
    /\ loop[k] = "connecting"
    /\ s \in Sockets
    /\ lastSocket' = [lastSocket EXCEPT ![k] = s]
    /\ up' = [up EXCEPT ![k][clientSocket[k]] = FALSE]
    /\ toServer' = [toServer EXCEPT ![k][s] = "auth"]
    /\ clientSocket' = [clientSocket EXCEPT ![k] = s]
    /\ attached' = [attached EXCEPT ![k] = TRUE]
    /\ midHandshake' = [midHandshake EXCEPT ![k] = TRUE]
    /\ closeSeen' = [closeSeen EXCEPT ![k] = FALSE]
    /\ loop' = [loop EXCEPT ![k] = "auth"]
    /\ UNCHANGED <<graceExpired, ownerVars, toClient, handshake, serverVars>>

(* The client reads a message while its attempt waits for one. *)
ClientReads(k, message) ==
    LET s == clientSocket[k] IN
    /\ attached[k]
    /\ toClient[k][s] = message
    /\ toClient' = [toClient EXCEPT ![k][s] = "none"]

ReadSign(k) ==
    LET s == clientSocket[k] IN
    /\ loop[k] = "auth"
    /\ ClientReads(k, "sign")
    /\ toServer' = IF up[k][s] THEN [toServer EXCEPT ![k][s] = "connectionType"] ELSE toServer
    /\ loop' = [loop EXCEPT ![k] = "connectionType"]
    /\ UNCHANGED <<graceExpired, ownerVars, protocolVars, lastSocket, up, handshake, serverVars>>

(* endAcceptReconnection; the loop ends. *)
ReadOk(k) ==
    /\ loop[k] = "connectionType"
    /\ ClientReads(k, "ok")
    /\ midHandshake' = [midHandshake EXCEPT ![k] = FALSE]
    /\ loop' = [loop EXCEPT ![k] = "idle"]
    /\ UNCHANGED <<graceExpired, ownerVars, clientSocket, attached, closeSeen, lastSocket,
                   up, toServer, handshake, serverVars>>

ReadError(k) ==
    /\ loop[k] \in {"auth", "connectionType"}
    /\ ClientReads(k, "error")
    /\ PermanentFailure(k)
    /\ UNCHANGED <<lastSocket, toServer, handshake, serverVars>>

(* An attempt takes more than its time.  On the last socket of the bound    *)
(* only when that socket is dead.                                           *)
AttemptTimesOut(k) ==
    /\ loop[k] \in {"auth", "connectionType"}
    /\ clientSocket[k] = MaxSockets => ~up[k][clientSocket[k]]
    /\ Retry(k)
    /\ UNCHANGED <<lastSocket, messageVars, handshake, serverVars>>

(* The client's grace time ends while a loop runs. *)
GraceTimeEnds(k) ==
    /\ loop[k] # "idle" /\ ~graceExpired[k]
    /\ graceExpired' = [graceExpired EXCEPT ![k] = TRUE]
    /\ UNCHANGED <<loop, ownerVars, protocolVars, linkVars, handshake, serverVars>>

(* The owner disposes the connection and ends its socket. *)
Dispose(k) ==
    /\ ~isDisposed[k]
    /\ isDisposed' = [isDisposed EXCEPT ![k] = TRUE]
    /\ up' = [up EXCEPT ![k][clientSocket[k]] = FALSE]
    /\ UNCHANGED <<loopVars, failed, permanentFailure, protocolVars, lastSocket, messageVars,
                   handshake, serverVars>>

-----------------------------------------------------------------------------
(* The server *)

ServerReads(k, s, state, message) ==
    /\ handshake[k][s] = state
    /\ toServer[k][s] = message
    /\ toServer' = [toServer EXCEPT ![k][s] = "none"]

Reply(k, s, message) ==
    toClient' = IF up[k][s] THEN [toClient EXCEPT ![k][s] = message] ELSE toClient

SetHandshake(k, s, state) == handshake' = [handshake EXCEPT ![k][s] = state]

ReadAuth(k, s) ==
    /\ ServerReads(k, s, "WaitingForAuth", "auth")
    /\ Reply(k, s, "sign")
    /\ SetHandshake(k, s, "WaitingForConnectionType")
    /\ UNCHANGED <<clientVars, lastSocket, up, serverVars>>

(* shortenReconnectionGraceTimeIfNecessary, whose effect in the server      *)
(* process is immediate, in an extension host delayed.                      *)
Shortened(k) == runner2[k] \/ (k \in Fatal /\ registered[k] /\ runner1[k])
AskedToShortenRegistered == [k \in {j \in Connections : registered[j]} |-> k \notin Fatal]
AskedToShorten == [k \in Connections |-> reduceGrace[k] \/ (k \notin Fatal /\ registered[k])]

(* acceptReconnection: s replaces the socket, the grace timers stop.        *)
(* shortened is what runner2 was made by the same message.                  *)
AcceptForgettingShort(k, s, shortened) ==
    /\ runner1' = [runner1 EXCEPT ![k] = FALSE]
    /\ runner2' = shortened
    /\ up' = [up EXCEPT ![k][serverSocket[k]] = @ /\ serverSocket[k] = s]
    /\ serverSocket' = [serverSocket EXCEPT ![k] = s]
    /\ serverCloseSeen' = [serverCloseSeen EXCEPT ![k] = FALSE]

AcceptKeepingCloseSeen(k, s, shortened) ==
    /\ runner1' = [runner1 EXCEPT ![k] = FALSE]
    /\ runner2' = [shortened EXCEPT ![k] = FALSE]
    /\ up' = [up EXCEPT ![k][serverSocket[k]] = @ /\ serverSocket[k] = s]
    /\ serverSocket' = [serverSocket EXCEPT ![k] = s]
    /\ UNCHANGED serverCloseSeen

Accept(k, s, shortened) ==
    /\ runner1' = [runner1 EXCEPT ![k] = FALSE]
    /\ runner2' = [shortened EXCEPT ![k] = FALSE]
    /\ up' = [up EXCEPT ![k][serverSocket[k]] = @ /\ serverSocket[k] = s]
    /\ serverSocket' = [serverSocket EXCEPT ![k] = s]
    /\ serverCloseSeen' = [serverCloseSeen EXCEPT ![k] = FALSE]

(* _rejectWebSocketConnection: the error is drained, then the socket ends. *)
Reject(k, s) ==
    /\ Reply(k, s, "error")
    /\ up' = [up EXCEPT ![k][s] = FALSE]
    /\ SetHandshake(k, s, "Error")

(* The second message: every waiting connection has its grace shortened;    *)
(* then a management connection is found and accepted, or the token is      *)
(* unknown.  For an extension host the server first awaits a debug port.    *)
ReadConnectionType(k, s) ==
    LET shortened == [j \in Connections |-> Shortened(j)] IN
    /\ ServerReads(k, s, "WaitingForConnectionType", "connectionType")
    /\ reduceGrace' = AskedToShorten
    /\ \/ /\ k \in Fatal /\ registered[k]
          /\ Reply(k, s, "ok")
          /\ SetHandshake(k, s, "Done")
          /\ Accept(k, s, shortened)
       \/ /\ k \in Fatal /\ ~registered[k]
          /\ Reject(k, s)
          /\ runner2' = shortened
          /\ UNCHANGED <<runner1, serverSocket, serverCloseSeen>>
       \/ /\ k \notin Fatal
          /\ SetHandshake(k, s, "Awaiting")
          /\ runner2' = shortened
          /\ UNCHANGED <<toClient, up, runner1, serverSocket, serverCloseSeen>>
    /\ UNCHANGED <<clientVars, lastSocket, registered, alive>>

(* The debug port is found: Pause, the first message, and the socket is     *)
(* drained and sent to the process; or the token is unknown by now.         *)
PortFound(k, s) ==
    /\ handshake[k][s] = "Awaiting"
    /\ IF registered[k]
       THEN Reply(k, s, "ok") /\ SetHandshake(k, s, "Sent") /\ UNCHANGED up
       ELSE Reject(k, s)
    /\ UNCHANGED <<clientVars, lastSocket, toServer, serverVars>>

(* The process takes the socket; one that was closed before it was sent     *)
(* arrives without a handle and changes nothing.                            *)
ProcessTakesSocket(k, s) ==
    /\ handshake[k][s] = "Sent"
    /\ alive[k]
    /\ SetHandshake(k, s, "Done")
    /\ \/ Accept(k, s, runner2)
       \/ ~up[k][s] /\ UNCHANGED <<up, serverSocket, serverCloseSeen, runnerVars>>
    /\ UNCHANGED <<clientVars, lastSocket, messageVars, registered, alive, reduceGrace>>

(* onSocketClose on the server: the long grace timer starts. *)
ServerSocketClosedForgetting(k) ==
    /\ alive[k] /\ ~up[k][serverSocket[k]] /\ ~serverCloseSeen[k]
    /\ serverCloseSeen' = [serverCloseSeen EXCEPT ![k] = TRUE]
    /\ runner1' = [runner1 EXCEPT ![k] = TRUE]
    /\ registered' = [registered EXCEPT ![k] = FALSE]
    /\ UNCHANGED <<clientVars, linkVars, handshake, alive, serverSocket, runner2, reduceGrace>>

ServerSocketClosed(k) ==
    /\ alive[k] /\ ~up[k][serverSocket[k]] /\ ~serverCloseSeen[k]
    /\ serverCloseSeen' = [serverCloseSeen EXCEPT ![k] = TRUE]
    /\ runner1' = [runner1 EXCEPT ![k] = TRUE]
    /\ UNCHANGED <<clientVars, linkVars, handshake, registered, alive, serverSocket, runner2,
                   reduceGrace>>

(* VSCODE_EXTHOST_IPC_REDUCE_GRACE_TIME *)
ReduceGraceTime(k) ==
    /\ reduceGrace[k] /\ alive[k]
    /\ reduceGrace' = [reduceGrace EXCEPT ![k] = FALSE]
    /\ runner2' = [runner2 EXCEPT ![k] = @ \/ runner1[k]]
    /\ UNCHANGED <<clientVars, linkVars, handshake, registered, alive, serverSocket,
                   serverCloseSeen, runner1>>

(* _cleanResources of a management connection; the exit of an extension     *)
(* host, which the server notices later.                                    *)
CleanResources(k) ==
    /\ alive' = [alive EXCEPT ![k] = FALSE]
    /\ registered' = [registered EXCEPT ![k] = @ /\ k \notin Fatal]
    /\ runner1' = [runner1 EXCEPT ![k] = FALSE]
    /\ runner2' = [runner2 EXCEPT ![k] = FALSE]
    /\ up' = [up EXCEPT ![k][serverSocket[k]] = FALSE]
    /\ UNCHANGED <<clientVars, lastSocket, messageVars, handshake, serverSocket,
                   serverCloseSeen, reduceGrace>>

GraceTimerFires(k) ==
    /\ alive[k]
    /\ runner1[k] \/ runner2[k]
    /\ CleanResources(k)

ProcessExits(k) ==
    /\ k \notin Fatal
    /\ alive[k]
    /\ CleanResources(k)

ExitNoticed(k) ==
    /\ registered[k] /\ ~alive[k]
    /\ registered' = [registered EXCEPT ![k] = FALSE]
    /\ UNCHANGED <<clientVars, linkVars, handshake, alive, serverSocket, serverCloseSeen,
                   runnerVars, reduceGrace>>

(* Another window connects to the server. *)
AnotherClientConnects ==
    /\ runner2' = [k \in Connections |-> Shortened(k)]
    /\ reduceGrace' = AskedToShorten
    /\ UNCHANGED <<clientVars, linkVars, handshake, registered, alive, serverSocket,
                   serverCloseSeen, runner1>>

-----------------------------------------------------------------------------
(* The network *)

SocketBreaks(k, s) ==
    /\ s <= lastSocket[k] /\ s < MaxSockets
    /\ up[k][s]
    /\ up' = [up EXCEPT ![k][s] = FALSE]
    /\ UNCHANGED <<clientVars, lastSocket, messageVars, handshake, serverVars>>

(* What was in flight on a dead socket is lost, if it is not read. *)
MessageLost(k, s) ==
    /\ ~up[k][s]
    /\ \/ /\ toServer[k][s] # "none"
          /\ toServer' = [toServer EXCEPT ![k][s] = "none"]
          /\ UNCHANGED toClient
       \/ /\ toClient[k][s] # "none"
          /\ toClient' = [toClient EXCEPT ![k][s] = "none"]
          /\ UNCHANGED toServer
    /\ UNCHANGED <<clientVars, lastSocket, up, handshake, serverVars>>

-----------------------------------------------------------------------------
ClientStep(k) ==
    \/ SocketClosed(k) \/ SocketTimesOut(k) \/ WaitEnds(k)
    \/ ConnectFails(k) \/ ConnectSucceeds(k)
    \/ ReadSign(k) \/ ReadOk(k) \/ ReadError(k)
    \/ AttemptTimesOut(k) \/ GraceTimeEnds(k) \/ Dispose(k)

HandshakeStep(k, s) ==
    ReadAuth(k, s) \/ ReadConnectionType(k, s) \/ PortFound(k, s) \/ ProcessTakesSocket(k, s)

ServerStep(k) ==
    \/ ServerSocketClosed(k) \/ ReduceGraceTime(k)
    \/ GraceTimerFires(k) \/ ProcessExits(k) \/ ExitNoticed(k)
    \/ \E s \in Sockets : HandshakeStep(k, s)

NetworkStep(k) == \E s \in Sockets : SocketBreaks(k, s) \/ MessageLost(k, s)

Next ==
    \/ \E k \in Connections : ClientStep(k) \/ ServerStep(k) \/ NetworkStep(k)
    \/ AnotherClientConnects

Spec == Init /\ [][Next]_vars

(* The two ends of k use the same live socket. *)
Connected(k) ==
    /\ loop[k] = "idle" /\ alive[k]
    /\ clientSocket[k] = serverSocket[k] /\ up[k][clientSocket[k]]

(* The event loops deliver closes and messages; sleeps and attempts end; a  *)
(* socket whose other end is gone falls silent; connecting does not fail    *)
(* for ever; grace times end.                                               *)
Fairness ==
    \A k \in Connections :
        /\ WF_vars(SocketClosed(k)) /\ WF_vars(WaitEnds(k))
        /\ WF_vars(~Connected(k) /\ SocketTimesOut(k))
        /\ SF_vars(ConnectSucceeds(k))
        /\ WF_vars(ReadSign(k)) /\ WF_vars(ReadOk(k)) /\ WF_vars(ReadError(k))
        /\ WF_vars(AttemptTimesOut(k))
        /\ WF_vars(ServerSocketClosed(k)) /\ WF_vars(GraceTimerFires(k))
        /\ WF_vars(ExitNoticed(k))
        /\ \A s \in Sockets : WF_vars(HandshakeStep(k, s))

FairSpec == Spec /\ Fairness

-----------------------------------------------------------------------------
(* Properties *)

TypeOK ==
    /\ loop \in [Connections -> {"idle", "waiting", "connecting", "auth", "connectionType"}]
    /\ graceExpired \in [Connections -> BOOLEAN]
    /\ isDisposed \in [Connections -> BOOLEAN]
    /\ failed \in [Connections -> BOOLEAN]
    /\ permanentFailure \in BOOLEAN
    /\ clientSocket \in [Connections -> Sockets]
    /\ attached \in [Connections -> BOOLEAN]
    /\ midHandshake \in [Connections -> BOOLEAN]
    /\ closeSeen \in [Connections -> BOOLEAN]
    /\ lastSocket \in [Connections -> Sockets]
    /\ up \in [Connections -> [Sockets -> BOOLEAN]]
    /\ toServer \in [Connections -> [Sockets -> {"none", "auth", "connectionType"}]]
    /\ toClient \in [Connections -> [Sockets -> {"none", "sign", "ok", "error"}]]
    /\ handshake \in [Connections -> [Sockets ->
            {"WaitingForAuth", "WaitingForConnectionType", "Awaiting", "Sent", "Done", "Error"}]]
    /\ registered \in [Connections -> BOOLEAN]
    /\ alive \in [Connections -> BOOLEAN]
    /\ serverSocket \in [Connections -> Sockets]
    /\ serverCloseSeen \in [Connections -> BOOLEAN]
    /\ runner1 \in [Connections -> BOOLEAN]
    /\ runner2 \in [Connections -> BOOLEAN]
    /\ reduceGrace \in [Connections -> BOOLEAN]

(* No grace timer runs against a connection whose two ends use the same     *)
(* live socket, whichever messages and closes were delayed.                 *)
ConnectedIsSafe ==
    \A k \in Connections : Connected(k) => ~runner1[k] /\ ~runner2[k]

(* A connection whose socket is dead is on its way out: its grace timer     *)
(* runs, or the close is still to be delivered, even if the socket was dead *)
(* when it was accepted.                                                    *)
DeadIsWatched ==
    \A k \in Connections :
        alive[k] /\ ~up[k][serverSocket[k]] => runner1[k] \/ ~serverCloseSeen[k]

(* A client is refused only when its connection is gone for good. *)
RefusedOnlyIfGone ==
    \A k \in Connections, s \in Sockets :
        toClient[k][s] = "error" => ~registered[k] /\ ~alive[k]

(* After a fatal failure no connection of the window begins an attempt,     *)
(* whether its loop slept, was about to retry or is asked to start.         *)
NoNewAttempts ==
    [][permanentFailure =>
          \A k \in Connections : loop'[k] = "connecting" => loop[k] = "connecting"]_vars

(* A client that gave up and stays away is forgotten by the server. *)
EventuallyForgotten ==
    \A k \in Connections :
        <>[]((failed[k] \/ isDisposed[k]) /\ ~Connected(k)) => <>~alive[k]

(* A client finds its connection again, or is told that it cannot: it does  *)
(* not hang on a dead socket, nor does a swallowed close end its attempts.  *)
(* The last socket of the bound is one that lasts.                          *)
EventuallyReconnected ==
    \A k \in Connections :
        <>[](lastSocket[k] = MaxSockets => up[k][MaxSockets] /\ alive[k]) =>
            []<>(Connected(k) \/ failed[k] \/ isDisposed[k])
=============================================================================
