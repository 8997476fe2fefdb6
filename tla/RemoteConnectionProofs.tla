----------------------- MODULE RemoteConnectionProofs -----------------------
(* Theorems about RemoteConnection, for all connections and sockets. *)
EXTENDS RemoteConnection, TLAPS

-----------------------------------------------------------------------------
(* Types *)

(* What ends an attempt leaves the types of what it changes. *)
ClientTypes ==
    /\ loop \in [Connections -> {"idle", "waiting", "connecting", "auth", "connectionType"}]
    /\ failed \in [Connections -> BOOLEAN]
    /\ permanentFailure \in BOOLEAN
    /\ attached \in [Connections -> BOOLEAN]
    /\ up \in [Connections -> [Sockets -> BOOLEAN]]

LEMMA PermanentFailureTypes ==
    ASSUME TypeOK, NEW k \in Connections, PermanentFailure(k)
    PROVE  ClientTypes'
  BY DEF TypeOK, ClientTypes, PermanentFailure

LEMMA RetryTypes ==
    ASSUME TypeOK, NEW k \in Connections, Retry(k)
    PROVE  /\ ClientTypes'
           /\ UNCHANGED <<graceExpired, isDisposed, clientSocket, midHandshake, closeSeen>>
  <1>1. CASE PermanentFailure(k)
    BY <1>1, PermanentFailureTypes DEF PermanentFailure
  <1>2. CASE ~PermanentFailure(k)
    BY <1>2 DEF Retry, TypeOK, ClientTypes, ownerVars, protocolVars
  <1> QED BY <1>1, <1>2

LEMMA TypesOfClient ==
    ASSUME TypeOK, NEW k \in Connections, ClientStep(k)
    PROVE  TypeOK'
  <1>1. CASE SocketClosed(k)
    BY <1>1 DEF TypeOK, SocketClosed, BeginReconnecting, loopVars, ownerVars, linkVars,
                messageVars, serverVars, runnerVars
  <1>2. CASE SocketTimesOut(k)
    BY <1>2 DEF TypeOK, SocketTimesOut, BeginReconnecting, loopVars, ownerVars, protocolVars,
                linkVars, messageVars, serverVars, runnerVars
  <1>3. CASE WaitEnds(k)
    BY <1>3 DEF TypeOK, WaitEnds, ownerVars, protocolVars, linkVars, messageVars, serverVars,
                runnerVars
  <1>4. CASE ConnectFails(k)
    <2>1. /\ ClientTypes'
          /\ UNCHANGED <<graceExpired, isDisposed, clientSocket, midHandshake, closeSeen>>
      BY <1>4, RetryTypes, PermanentFailureTypes DEF ConnectFails, PermanentFailure
    <2> QED BY <1>4, <2>1 DEF ConnectFails, TypeOK, ClientTypes, messageVars, serverVars, runnerVars
  <1>5. CASE ConnectSucceeds(k)
    BY <1>5 DEF TypeOK, ConnectSucceeds, ownerVars, serverVars, runnerVars
  <1>6. CASE ReadSign(k)
    BY <1>6 DEF TypeOK, ReadSign, ClientReads, ownerVars, protocolVars, serverVars, runnerVars
  <1>7. CASE ReadOk(k)
    BY <1>7 DEF TypeOK, ReadOk, ClientReads, ownerVars, serverVars, runnerVars
  <1>8. CASE ReadError(k)
    <2>1. /\ ClientTypes'
          /\ UNCHANGED <<graceExpired, isDisposed, clientSocket, midHandshake, closeSeen>>
      BY <1>8, PermanentFailureTypes DEF ReadError, PermanentFailure
    <2> QED BY <1>8, <2>1 DEF ReadError, ClientReads, TypeOK, ClientTypes, serverVars, runnerVars
  <1>9. CASE AttemptTimesOut(k)
    <2>1. /\ ClientTypes'
          /\ UNCHANGED <<graceExpired, isDisposed, clientSocket, midHandshake, closeSeen>>
      BY <1>9, RetryTypes DEF AttemptTimesOut
    <2> QED BY <1>9, <2>1 DEF AttemptTimesOut, TypeOK, ClientTypes, messageVars, serverVars, runnerVars
  <1>10. CASE GraceTimeEnds(k)
    BY <1>10 DEF TypeOK, GraceTimeEnds, ownerVars, protocolVars, linkVars, messageVars,
                 serverVars, runnerVars
  <1>11. CASE Dispose(k)
    BY <1>11 DEF TypeOK, Dispose, loopVars, protocolVars, messageVars, serverVars, runnerVars
  <1> QED
    BY <1>1, <1>2, <1>3, <1>4, <1>5, <1>6, <1>7, <1>8, <1>9, <1>10, <1>11 DEF ClientStep

(* A handshake message of the server, and the three ways it goes on. *)
LEMMA ReplyTypes ==
    ASSUME TypeOK, NEW k \in Connections, NEW s \in Sockets,
           NEW message \in {"none", "sign", "ok", "error"}, Reply(k, s, message)
    PROVE  toClient' \in [Connections -> [Sockets -> {"none", "sign", "ok", "error"}]]
  BY DEF TypeOK, Reply

LEMMA AcceptTypes ==
    ASSUME TypeOK, NEW k \in Connections, NEW s \in Sockets,
           NEW shortened \in [Connections -> BOOLEAN], Accept(k, s, shortened)
    PROVE  /\ runner1' \in [Connections -> BOOLEAN]
           /\ runner2' \in [Connections -> BOOLEAN]
           /\ up' \in [Connections -> [Sockets -> BOOLEAN]]
           /\ serverSocket' \in [Connections -> Sockets]
           /\ serverCloseSeen' \in [Connections -> BOOLEAN]
  BY DEF TypeOK, Accept

LEMMA RejectTypes ==
    ASSUME TypeOK, NEW k \in Connections, NEW s \in Sockets, Reject(k, s)
    PROVE  /\ toClient' \in [Connections -> [Sockets -> {"none", "sign", "ok", "error"}]]
           /\ up' \in [Connections -> [Sockets -> BOOLEAN]]
           /\ handshake' = [handshake EXCEPT ![k][s] = "Error"]
  BY ReplyTypes DEF TypeOK, Reject, SetHandshake

LEMMA ShortenedTypes ==
    ASSUME TypeOK
    PROVE  /\ [j \in Connections |-> Shortened(j)] \in [Connections -> BOOLEAN]
           /\ AskedToShorten \in [Connections -> BOOLEAN]
  BY DEF TypeOK, Shortened, AskedToShorten

LEMMA TypesOfHandshake ==
    ASSUME TypeOK, NEW k \in Connections, NEW s \in Sockets, HandshakeStep(k, s)
    PROVE  TypeOK'
  <1>1. CASE ReadAuth(k, s)
    <2>1. toClient' \in [Connections -> [Sockets -> {"none", "sign", "ok", "error"}]]
      BY <1>1, ReplyTypes DEF ReadAuth
    <2> QED
      BY <1>1, <2>1 DEF TypeOK, ReadAuth, ServerReads, SetHandshake, clientVars, loopVars,
                        ownerVars, protocolVars, serverVars, runnerVars
  <1>2. CASE ReadConnectionType(k, s)
    <2> DEFINE shortened == [j \in Connections |-> Shortened(j)]
    <2>1. shortened \in [Connections -> BOOLEAN] /\ AskedToShorten \in [Connections -> BOOLEAN]
      BY ShortenedTypes
    <2> HIDE DEF shortened
    <2>2. /\ toServer' = [toServer EXCEPT ![k][s] = "none"]
          /\ reduceGrace' = AskedToShorten
          /\ UNCHANGED <<clientVars, lastSocket, registered, alive>>
      BY <1>2 DEF ReadConnectionType, ServerReads
    <2>3. /\ toClient' \in [Connections -> [Sockets -> {"none", "sign", "ok", "error"}]]
          /\ runner1' \in [Connections -> BOOLEAN]
          /\ runner2' \in [Connections -> BOOLEAN]
          /\ up' \in [Connections -> [Sockets -> BOOLEAN]]
          /\ serverSocket' \in [Connections -> Sockets]
          /\ serverCloseSeen' \in [Connections -> BOOLEAN]
          /\ \E state \in {"Done", "Error", "Awaiting"} :
                handshake' = [handshake EXCEPT ![k][s] = state]
      <3>1. CASE Reply(k, s, "ok") /\ SetHandshake(k, s, "Done") /\ Accept(k, s, shortened)
        BY <3>1, <2>1, ReplyTypes, AcceptTypes DEF SetHandshake
      <3>2. CASE /\ Reject(k, s) /\ runner2' = shortened
                 /\ UNCHANGED <<runner1, serverSocket, serverCloseSeen>>
        BY <3>2, <2>1, RejectTypes DEF TypeOK
      <3>3. CASE /\ SetHandshake(k, s, "Awaiting") /\ runner2' = shortened
                 /\ UNCHANGED <<toClient, up, runner1, serverSocket, serverCloseSeen>>
        BY <3>3, <2>1 DEF TypeOK, SetHandshake
      <3> QED BY <1>2, <3>1, <3>2, <3>3 DEF ReadConnectionType, shortened
    <2> QED
      BY <2>1, <2>2, <2>3 DEF TypeOK, clientVars, loopVars, ownerVars, protocolVars
  <1>3. CASE PortFound(k, s)
    <2>1. /\ toClient' \in [Connections -> [Sockets -> {"none", "sign", "ok", "error"}]]
          /\ up' \in [Connections -> [Sockets -> BOOLEAN]]
          /\ \E state \in {"Sent", "Error"} : handshake' = [handshake EXCEPT ![k][s] = state]
      BY <1>3, ReplyTypes, RejectTypes DEF PortFound, SetHandshake, TypeOK
    <2> QED
      BY <1>3, <2>1 DEF TypeOK, PortFound, clientVars, loopVars, ownerVars, protocolVars,
                        serverVars, runnerVars
  <1>4. CASE ProcessTakesSocket(k, s)
    <2>1. /\ runner1' \in [Connections -> BOOLEAN]
          /\ runner2' \in [Connections -> BOOLEAN]
          /\ up' \in [Connections -> [Sockets -> BOOLEAN]]
          /\ serverSocket' \in [Connections -> Sockets]
          /\ serverCloseSeen' \in [Connections -> BOOLEAN]
      <3>1. runner2 \in [Connections -> BOOLEAN]
        BY DEF TypeOK
      <3>2. CASE Accept(k, s, runner2)
        BY <3>1, <3>2, AcceptTypes
      <3>3. CASE UNCHANGED <<up, serverSocket, serverCloseSeen, runnerVars>>
        BY <3>3 DEF TypeOK, runnerVars
      <3> QED BY <1>4, <3>2, <3>3 DEF ProcessTakesSocket
    <2> QED
      BY <1>4, <2>1 DEF TypeOK, ProcessTakesSocket, SetHandshake, clientVars, loopVars,
                        ownerVars, protocolVars, messageVars
  <1> QED BY <1>1, <1>2, <1>3, <1>4 DEF HandshakeStep

LEMMA TypesOfServer ==
    ASSUME TypeOK, NEW k \in Connections, ServerStep(k)
    PROVE  TypeOK'
  <1>1. CASE ServerSocketClosed(k)
    BY <1>1 DEF TypeOK, ServerSocketClosed, clientVars, loopVars, ownerVars, protocolVars,
                linkVars, messageVars
  <1>2. CASE ReduceGraceTime(k)
    BY <1>2 DEF TypeOK, ReduceGraceTime, clientVars, loopVars, ownerVars, protocolVars,
                linkVars, messageVars
  <1>3. CASE CleanResources(k)
    BY <1>3 DEF TypeOK, CleanResources, clientVars, loopVars, ownerVars, protocolVars,
                messageVars
  <1>4. CASE ExitNoticed(k)
    BY <1>4 DEF TypeOK, ExitNoticed, clientVars, loopVars, ownerVars, protocolVars, linkVars,
                messageVars, runnerVars
  <1> QED
    BY <1>1, <1>2, <1>3, <1>4, TypesOfHandshake DEF ServerStep, GraceTimerFires, ProcessExits

LEMMA TypesOfRest ==
    ASSUME TypeOK, (\E k \in Connections : NetworkStep(k)) \/ AnotherClientConnects
    PROVE  TypeOK'
  <1>1. CASE AnotherClientConnects
    BY <1>1, ShortenedTypes
       DEF TypeOK, AnotherClientConnects, clientVars, loopVars, ownerVars, protocolVars,
           linkVars, messageVars
  <1>2. ASSUME NEW k \in Connections, NEW s \in Sockets, SocketBreaks(k, s)
        PROVE  TypeOK'
    BY <1>2 DEF TypeOK, SocketBreaks, clientVars, loopVars, ownerVars, protocolVars,
                messageVars, serverVars, runnerVars
  <1>3. ASSUME NEW k \in Connections, NEW s \in Sockets, MessageLost(k, s)
        PROVE  TypeOK'
    <2>1. /\ toServer' \in [Connections -> [Sockets -> {"none", "auth", "connectionType"}]]
          /\ toClient' \in [Connections -> [Sockets -> {"none", "sign", "ok", "error"}]]
      <3>1. CASE toServer' = [toServer EXCEPT ![k][s] = "none"] /\ UNCHANGED toClient
        BY <3>1 DEF TypeOK
      <3>2. CASE toClient' = [toClient EXCEPT ![k][s] = "none"] /\ UNCHANGED toServer
        BY <3>2 DEF TypeOK
      <3> QED BY <1>3, <3>1, <3>2 DEF MessageLost
    <2> QED
      BY <1>3, <2>1 DEF TypeOK, MessageLost, clientVars, loopVars, ownerVars, protocolVars,
                        serverVars, runnerVars
  <1> QED BY <1>1, <1>2, <1>3 DEF NetworkStep

LEMMA TypesInitially == Init => TypeOK
  <1> SUFFICES ASSUME Init PROVE TypeOK
    OBVIOUS
  <1>1. 1 \in Sockets
    BY BoundAssumption DEF Sockets
  <1>2. /\ clientSocket \in [Connections -> Sockets]
        /\ lastSocket \in [Connections -> Sockets]
        /\ serverSocket \in [Connections -> Sockets]
    BY <1>1 DEF Init
  <1>3. handshake \in [Connections -> [Sockets ->
            {"WaitingForAuth", "WaitingForConnectionType", "Awaiting", "Sent", "Done", "Error"}]]
    BY DEF Init
  <1>4. /\ toServer \in [Connections -> [Sockets -> {"none", "auth", "connectionType"}]]
        /\ toClient \in [Connections -> [Sockets -> {"none", "sign", "ok", "error"}]]
        /\ up \in [Connections -> [Sockets -> BOOLEAN]]
        /\ loop \in [Connections -> {"idle", "waiting", "connecting", "auth", "connectionType"}]
    BY DEF Init
  <1> QED BY <1>2, <1>3, <1>4 DEF Init, TypeOK

LEMMA TypesStay == TypeOK /\ [Next]_vars => TypeOK'
  <1> SUFFICES ASSUME TypeOK, [Next]_vars PROVE TypeOK'
    OBVIOUS
  <1>1. CASE Next
    BY <1>1, TypesOfClient, TypesOfServer, TypesOfRest DEF Next
  <1>2. CASE UNCHANGED vars
    BY <1>2 DEF TypeOK, vars, clientVars, loopVars, ownerVars, protocolVars, linkVars,
                messageVars, serverVars, runnerVars
  <1> QED BY <1>1, <1>2

(* Every reachable state is well typed, for any connections and sockets. *)
THEOREM TypeCorrect == Spec => []TypeOK
  BY TypesInitially, TypesStay, PTL DEF Spec

-----------------------------------------------------------------------------
(* The server's watch over its connections *)

(* A grace timer runs only after the close of the present socket was        *)
(* delivered, and then the socket is dead; the long timer runs from there   *)
(* on.  A token that is gone belongs to a connection that is gone, and only *)
(* such a token is refused.                                                 *)
Watched(k) ==
    /\ runner1[k] \/ runner2[k] => serverCloseSeen[k]
    /\ serverCloseSeen[k] => ~up[k][serverSocket[k]]
    /\ alive[k] /\ serverCloseSeen[k] => runner1[k]
    /\ alive[k] => registered[k]
    /\ \A s \in Sockets : toClient[k][s] = "error" => ~registered[k]

IInv == TypeOK /\ \A k \in Connections : Watched(k)

(* Sockets only die; an error is sent only to a client that is refused.     *)
SocketsDie == \A k \in Connections, s \in Sockets : up'[k][s] => up[k][s]
NoNewErrors ==
    \A k \in Connections, s \in Sockets :
        toClient'[k][s] = "error" => toClient[k][s] = "error"

LEMMA QuietStep ==
    ASSUME IInv, TypeOK', UNCHANGED serverVars, SocketsDie, NoNewErrors
    PROVE  IInv'
  <1> SUFFICES ASSUME NEW k \in Connections PROVE Watched(k)'
    BY DEF IInv
  <1>1. Watched(k) /\ serverSocket[k] \in Sockets
    BY DEF IInv, TypeOK
  <1> QED
    BY <1>1 DEF Watched, SocketsDie, NoNewErrors, serverVars, runnerVars

LEMMA PermanentFailureSockets ==
    ASSUME TypeOK, NEW k \in Connections, PermanentFailure(k)
    PROVE  SocketsDie
  BY DEF TypeOK, PermanentFailure, SocketsDie

LEMMA RetrySockets ==
    ASSUME TypeOK, NEW k \in Connections, Retry(k)
    PROVE  SocketsDie
  BY PermanentFailureSockets DEF Retry, SocketsDie

LEMMA ClientReadsSockets ==
    ASSUME TypeOK, NEW k \in Connections, NEW message, ClientReads(k, message)
    PROVE  NoNewErrors
  <1> SUFFICES ASSUME NEW j \in Connections, NEW s \in Sockets
               PROVE  toClient'[j][s] = "error" => toClient[j][s] = "error"
    BY DEF NoNewErrors
  <1>1. toClient'[j][s] = toClient[j][s] \/ toClient'[j][s] = "none"
    BY DEF ClientReads, TypeOK
  <1> QED BY <1>1

LEMMA ClientIsQuiet ==
    ASSUME IInv, NEW k \in Connections, ClientStep(k)
    PROVE  IInv'
  <1>1. TypeOK /\ TypeOK'
    BY TypesOfClient DEF IInv
  <1>2. UNCHANGED serverVars /\ SocketsDie /\ NoNewErrors
    <2>1. CASE SocketClosed(k) \/ SocketTimesOut(k) \/ WaitEnds(k) \/ GraceTimeEnds(k)
      BY <2>1 DEF SocketClosed, SocketTimesOut, WaitEnds, GraceTimeEnds, linkVars, messageVars,
                  SocketsDie, NoNewErrors
    <2>2. CASE ConnectFails(k)
      BY <1>1, <2>2, RetrySockets, PermanentFailureSockets
         DEF ConnectFails, messageVars, NoNewErrors
    <2>3. CASE ConnectSucceeds(k)
      BY <1>1, <2>3 DEF ConnectSucceeds, TypeOK, SocketsDie, NoNewErrors
    <2>4. CASE ReadSign(k) \/ ReadOk(k)
      BY <1>1, <2>4, ClientReadsSockets DEF ReadSign, ReadOk, protocolVars, SocketsDie
    <2>5. CASE ReadError(k)
      BY <1>1, <2>5, ClientReadsSockets, PermanentFailureSockets DEF ReadError
    <2>6. CASE AttemptTimesOut(k)
      BY <1>1, <2>6, RetrySockets DEF AttemptTimesOut, messageVars, NoNewErrors
    <2>7. CASE Dispose(k)
      BY <1>1, <2>7 DEF Dispose, messageVars, TypeOK, SocketsDie, NoNewErrors
    <2> QED BY <2>1, <2>2, <2>3, <2>4, <2>5, <2>6, <2>7 DEF ClientStep
  <1> QED BY <1>1, <1>2, QuietStep

(* Shortening starts a short timer only beside a long one.                  *)
LEMMA ShortenedIsWatched ==
    ASSUME IInv, NEW j \in Connections
    PROVE  Shortened(j) => serverCloseSeen[j]
  BY DEF IInv, Watched, Shortened

(* A rejected handshake and one that goes on leave the watch as it is; an   *)
(* accepted one begins it anew.                                             *)
LEMMA AcceptWatched ==
    ASSUME IInv, TypeOK', NEW k \in Connections, NEW s \in Sockets,
           NEW shortened, shortened \in [Connections -> BOOLEAN],
           \A j \in Connections : shortened[j] => serverCloseSeen[j],
           Accept(k, s, shortened),
           UNCHANGED <<registered, alive>>, NoNewErrors
    PROVE  IInv'
  <1> SUFFICES ASSUME NEW j \in Connections PROVE Watched(j)'
    BY DEF IInv
  <1>1. Watched(j) /\ TypeOK
    BY DEF IInv
  <1>2. CASE j = k
    BY <1>1, <1>2 DEF Watched, Accept, TypeOK, NoNewErrors
  <1>3. CASE j # k
    BY <1>1, <1>3 DEF Watched, Accept, TypeOK, NoNewErrors
  <1> QED BY <1>2, <1>3

LEMMA RejectWatched ==
    ASSUME IInv, TypeOK', NEW k \in Connections, NEW s \in Sockets,
           Reject(k, s), ~registered[k],
           \A j \in Connections : runner2'[j] => serverCloseSeen[j],
           UNCHANGED <<registered, alive, runner1, serverSocket, serverCloseSeen>>
    PROVE  IInv'
  <1> SUFFICES ASSUME NEW j \in Connections PROVE Watched(j)'
    BY DEF IInv
  <1>1. Watched(j) /\ TypeOK
    BY DEF IInv
  <1>2. up'[j][serverSocket[j]] => up[j][serverSocket[j]]
    BY <1>1 DEF Reject, TypeOK
  <1>3. ASSUME NEW r \in Sockets, toClient'[j][r] = "error" PROVE ~registered[j]
    BY <1>1, <1>3 DEF Watched, Reject, Reply, TypeOK
  <1> QED
    BY <1>1, <1>2, <1>3 DEF Watched

LEMMA ReplyIsNoError ==
    ASSUME TypeOK, NEW k \in Connections, NEW s \in Sockets,
           NEW message \in {"sign", "ok"}, Reply(k, s, message)
    PROVE  NoNewErrors
  <1> SUFFICES ASSUME NEW j \in Connections, NEW r \in Sockets
               PROVE  toClient'[j][r] = "error" => toClient[j][r] = "error"
    BY DEF NoNewErrors
  <1>1. toClient'[j][r] = toClient[j][r] \/ toClient'[j][r] = message
    BY DEF Reply, TypeOK
  <1> QED BY <1>1

LEMMA HandshakeIsWatched ==
    ASSUME IInv, NEW k \in Connections, NEW s \in Sockets, HandshakeStep(k, s)
    PROVE  IInv'
  <1>1. TypeOK /\ TypeOK'
    BY TypesOfHandshake DEF IInv
  <1>2. CASE ReadAuth(k, s)
    <2>1. NoNewErrors /\ SocketsDie /\ UNCHANGED serverVars
      BY <1>1, <1>2, ReplyIsNoError DEF ReadAuth, SocketsDie
    <2> QED BY <1>1, <2>1, QuietStep
  <1>3. CASE ReadConnectionType(k, s)
    <2> DEFINE shortened == [j \in Connections |-> Shortened(j)]
    <2>1. /\ shortened \in [Connections -> BOOLEAN]
          /\ \A j \in Connections : shortened[j] => serverCloseSeen[j]
      BY <1>1, ShortenedTypes, ShortenedIsWatched
    <2>2. UNCHANGED <<registered, alive>>
      BY <1>3 DEF ReadConnectionType
    <2> HIDE DEF shortened
    <2>3. CASE Reply(k, s, "ok") /\ Accept(k, s, shortened)
      BY <1>1, <2>1, <2>2, <2>3, ReplyIsNoError, AcceptWatched
    <2>4. CASE /\ Reject(k, s) /\ ~registered[k] /\ runner2' = shortened
               /\ UNCHANGED <<runner1, serverSocket, serverCloseSeen>>
      BY <1>1, <2>1, <2>2, <2>4, RejectWatched
    <2>5. CASE /\ runner2' = shortened
               /\ UNCHANGED <<toClient, up, runner1, serverSocket, serverCloseSeen>>
      BY <1>1, <2>1, <2>2, <2>5 DEF IInv, Watched
    <2> QED BY <1>3, <2>3, <2>4, <2>5 DEF ReadConnectionType, shortened
  <1>4. CASE PortFound(k, s)
    <2>1. UNCHANGED serverVars
      BY <1>4 DEF PortFound
    <2>2. CASE Reply(k, s, "ok") /\ UNCHANGED up
      BY <1>1, <2>1, <2>2, ReplyIsNoError, QuietStep DEF SocketsDie
    <2>3. CASE Reject(k, s) /\ ~registered[k]
      <3>1. \A j \in Connections : runner2'[j] => serverCloseSeen[j]
        BY <2>1 DEF serverVars, runnerVars, IInv, Watched
      <3> QED BY <1>1, <2>1, <2>3, <3>1, RejectWatched DEF serverVars, runnerVars
    <2> QED BY <1>4, <2>2, <2>3 DEF PortFound
  <1>5. CASE ProcessTakesSocket(k, s)
    <2>1. /\ UNCHANGED <<registered, alive, reduceGrace, toClient>>
          /\ NoNewErrors
      BY <1>5 DEF ProcessTakesSocket, messageVars, NoNewErrors
    <2>2. CASE Accept(k, s, runner2)
      <3>1. /\ runner2 \in [Connections -> BOOLEAN]
            /\ \A j \in Connections : runner2[j] => serverCloseSeen[j]
        BY DEF IInv, Watched, TypeOK
      <3> QED BY <1>1, <2>1, <2>2, <3>1, AcceptWatched
    <2>3. CASE UNCHANGED <<up, serverSocket, serverCloseSeen, runnerVars>>
      BY <1>1, <2>1, <2>3, QuietStep DEF serverVars, SocketsDie
    <2> QED BY <1>5, <2>2, <2>3 DEF ProcessTakesSocket
  <1> QED BY <1>2, <1>3, <1>4, <1>5 DEF HandshakeStep

LEMMA ServerIsWatched ==
    ASSUME IInv, NEW k \in Connections, ServerStep(k)
    PROVE  IInv'
  <1>1. TypeOK /\ TypeOK'
    BY TypesOfServer DEF IInv
  <1>2. CASE \E s \in Sockets : HandshakeStep(k, s)
    BY <1>2, HandshakeIsWatched
  <1>3. ASSUME NEW j \in Connections,
               \/ ServerSocketClosed(k) \/ ReduceGraceTime(k)
               \/ CleanResources(k) \/ ExitNoticed(k)
        PROVE  Watched(j)'
    <2>1. Watched(j) /\ serverSocket[j] \in Sockets
      BY <1>1 DEF IInv, TypeOK
    <2>2. CASE ServerSocketClosed(k)
      BY <1>1, <2>1, <2>2 DEF ServerSocketClosed, Watched, TypeOK, linkVars, messageVars
    <2>3. CASE ReduceGraceTime(k)
      BY <1>1, <2>1, <2>3 DEF ReduceGraceTime, Watched, TypeOK, linkVars, messageVars
    <2>4. CASE CleanResources(k)
      BY <1>1, <2>1, <2>4 DEF CleanResources, Watched, TypeOK, messageVars
    <2>5. CASE ExitNoticed(k)
      BY <1>1, <2>1, <2>5 DEF ExitNoticed, Watched, TypeOK, linkVars, messageVars, runnerVars
    <2> QED BY <1>3, <2>2, <2>3, <2>4, <2>5
  <1> QED
    BY <1>1, <1>2, <1>3 DEF ServerStep, GraceTimerFires, ProcessExits, IInv

LEMMA RestIsWatched ==
    ASSUME IInv, (\E k \in Connections : NetworkStep(k)) \/ AnotherClientConnects
    PROVE  IInv'
  <1>1. TypeOK /\ TypeOK'
    BY TypesOfRest DEF IInv
  <1>2. CASE AnotherClientConnects
    <2>1. \A j \in Connections : runner2'[j] => serverCloseSeen[j]
      BY <1>2, ShortenedIsWatched DEF AnotherClientConnects
    <2> QED BY <1>1, <1>2, <2>1 DEF AnotherClientConnects, IInv, Watched, linkVars, messageVars
  <1>3. ASSUME NEW k \in Connections, NEW s \in Sockets,
               SocketBreaks(k, s) \/ MessageLost(k, s)
        PROVE  UNCHANGED serverVars /\ SocketsDie /\ NoNewErrors
    <2>1. CASE SocketBreaks(k, s)
      BY <1>1, <2>1 DEF SocketBreaks, TypeOK, messageVars, SocketsDie, NoNewErrors
    <2>2. CASE MessageLost(k, s)
      <3>1. \A j \in Connections, r \in Sockets :
               toClient'[j][r] = toClient[j][r] \/ toClient'[j][r] = "none"
        <4>1. CASE toClient' = [toClient EXCEPT ![k][s] = "none"]
          BY <1>1, <4>1 DEF TypeOK
        <4>2. CASE UNCHANGED toClient
          BY <4>2
        <4> QED BY <2>2, <4>1, <4>2 DEF MessageLost
      <3> QED BY <2>2, <3>1 DEF MessageLost, SocketsDie, NoNewErrors
    <2> QED BY <1>3, <2>1, <2>2
  <1> QED BY <1>1, <1>2, <1>3, QuietStep DEF NetworkStep

LEMMA InvariantInitially == Init => IInv
  BY TypesInitially DEF Init, IInv, Watched

LEMMA InvariantIsInductive == IInv /\ [Next]_vars => IInv'
  <1> SUFFICES ASSUME IInv, [Next]_vars PROVE IInv'
    OBVIOUS
  <1>1. CASE Next
    BY <1>1, ClientIsQuiet, ServerIsWatched, RestIsWatched DEF Next
  <1>2. CASE UNCHANGED vars
    <2>1. TypeOK'
      BY TypesStay DEF IInv
    <2>2. UNCHANGED <<serverVars, up, toClient>>
      BY <1>2 DEF vars, linkVars, messageVars
    <2> QED BY <2>1, <2>2, QuietStep DEF SocketsDie, NoNewErrors
  <1> QED BY <1>1, <1>2

LEMMA InvariantHolds == Spec => []IInv
  BY InvariantInitially, InvariantIsInductive, PTL DEF Spec

(* No grace timer runs against a connection whose ends share a live socket: *)
(* acceptReconnection cancels both, and none can be started meanwhile.      *)
THEOREM ConnectedClientsAreSafe == Spec => []ConnectedIsSafe
  <1>1. IInv => ConnectedIsSafe
    BY DEF IInv, Watched, ConnectedIsSafe, Connected
  <1> QED BY <1>1, InvariantHolds, PTL

(* A connection that lives on a dead socket has its long grace timer, or    *)
(* the close that will start it is still to be delivered.                   *)
THEOREM DeadClientsAreWatched == Spec => []DeadIsWatched
  <1>1. IInv => DeadIsWatched
    BY DEF IInv, Watched, DeadIsWatched
  <1> QED BY <1>1, InvariantHolds, PTL

(* The handshake answers "error" only for a connection that is disposed and *)
(* out of the server's table.                                               *)
THEOREM OnlyGoneAreRefused == Spec => []RefusedOnlyIfGone
  <1>1. IInv => RefusedOnlyIfGone
    BY DEF IInv, Watched, RefusedOnlyIfGone
  <1> QED BY <1>1, InvariantHolds, PTL

-----------------------------------------------------------------------------
(* Attempts *)

(* No connection begins an attempt. *)
NoneBegins == \A k \in Connections : loop'[k] = "connecting" => loop[k] = "connecting"

(* What is done when an attempt ends begins no other. *)
LEMMA FailureBeginsNone ==
    ASSUME TypeOK, NEW k \in Connections, PermanentFailure(k)
    PROVE  NoneBegins
  BY DEF TypeOK, NoneBegins, PermanentFailure

LEMMA RetryBeginsNone ==
    ASSUME TypeOK, NEW k \in Connections, Retry(k)
    PROVE  NoneBegins
  <1>1. CASE PermanentFailure(k)
    BY <1>1, FailureBeginsNone
  <1>2. CASE ~PermanentFailure(k)
    BY <1>2 DEF TypeOK, NoneBegins, Retry
  <1> QED BY <1>1, <1>2

(* A close, a timeout and the end of a sleep look at the flag first. *)
LEMMA ClientBeginsNone ==
    ASSUME TypeOK, permanentFailure, NEW k \in Connections, ClientStep(k)
    PROVE  NoneBegins
  <1>1. CASE SocketClosed(k) \/ SocketTimesOut(k)
    <2>1. UNCHANGED loop
      BY <1>1 DEF SocketClosed, SocketTimesOut, BeginReconnecting, loopVars
    <2> QED BY <2>1 DEF NoneBegins
  <1>2. CASE WaitEnds(k)
    BY <1>2 DEF TypeOK, NoneBegins, WaitEnds
  <1>3. CASE ConnectFails(k) \/ ReadError(k) \/ AttemptTimesOut(k)
    BY <1>3, FailureBeginsNone, RetryBeginsNone DEF ConnectFails, ReadError, AttemptTimesOut
  <1>4. CASE ConnectSucceeds(k)
    BY <1>4 DEF TypeOK, NoneBegins, ConnectSucceeds
  <1>5. CASE ReadSign(k)
    BY <1>5 DEF TypeOK, NoneBegins, ReadSign
  <1>6. CASE ReadOk(k)
    BY <1>6 DEF TypeOK, NoneBegins, ReadOk
  <1>7. CASE GraceTimeEnds(k) \/ Dispose(k)
    BY <1>7 DEF NoneBegins, GraceTimeEnds, Dispose, loopVars
  <1> QED BY <1>1, <1>2, <1>3, <1>4, <1>5, <1>6, <1>7 DEF ClientStep

(* Server and network leave the loops alone. *)
LEMMA OthersBeginNone ==
    ASSUME NEW k \in Connections, ServerStep(k) \/ NetworkStep(k) \/ AnotherClientConnects
    PROVE  NoneBegins
  <1>1. UNCHANGED loop
    <2>1. CASE ServerStep(k)
      BY <2>1 DEF ServerStep, HandshakeStep, ReadAuth, ReadConnectionType, PortFound,
                  ProcessTakesSocket, ServerSocketClosed, ReduceGraceTime, GraceTimerFires,
                  ProcessExits, CleanResources, ExitNoticed, clientVars, loopVars
    <2>2. CASE NetworkStep(k) \/ AnotherClientConnects
      BY <2>2 DEF NetworkStep, SocketBreaks, MessageLost, AnotherClientConnects, clientVars,
                  loopVars
    <2> QED BY <2>1, <2>2
  <1> QED BY <1>1 DEF NoneBegins

(* Once one connection of the window failed for good and took the others    *)
(* with it (triggerPermanentFailure), none of them begins an attempt: not  *)
(* from its sleep, from a close, nor from a timeout.                        *)
THEOREM FailureEndsAllAttempts == Spec => NoNewAttempts
  <1>1. TypeOK /\ [Next]_vars => [permanentFailure => NoneBegins]_vars
    <2> SUFFICES ASSUME TypeOK, Next, permanentFailure PROVE NoneBegins
      BY DEF NoneBegins
    <2>1. CASE AnotherClientConnects
      BY <2>1 DEF NoneBegins, AnotherClientConnects, clientVars, loopVars
    <2>2. CASE \E k \in Connections : ClientStep(k) \/ ServerStep(k) \/ NetworkStep(k)
      BY <2>2, ClientBeginsNone, OthersBeginNone
    <2> QED BY <2>1, <2>2 DEF Next
  <1> QED BY <1>1, TypeCorrect, PTL DEF Spec, NoNewAttempts, NoneBegins
=============================================================================
