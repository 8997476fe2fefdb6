------------------------- MODULE AgentSubscription -------------------------
(***************************************************************************)
(* A session of the agent host as one client sees it (vs/platform/         *)
(* agentHost): SessionStateSubscription and its manager, the client's      *)
(* protocol with its reconnection, and the host's ProtocolServerHandler.   *)
(* The host numbers every action it carries out or rejects and sends it to *)
(* those who subscribe to the session; the client applies its own actions  *)
(* at once, keeps them as pending until they come back, and rebuilds the   *)
(* state from a snapshot and the actions that follow it.  After a break of *)
(* the transport the host replays what the client has missed, or sends     *)
(* snapshots if its buffer is too short, and the client sends its pending  *)
(* actions again.                                                          *)
(*                                                                         *)
(* A state is the sequence of the actions that made it: the reducer is     *)
(* whatever it is.  An action stands in the log by its number, serverSeq,  *)
(* and is known as the client's own by its clientSeq.                      *)
(*                                                                         *)
(* A definition named for what it does wrong or forgets is a plausible     *)
(* mistake in the definition that follows it.  No action uses one.         *)
(***************************************************************************)
EXTENDS Integers, Sequences, FiniteSets, SequencesExt, Subsequences

CONSTANTS
    Capacity,       \* REPLAY_BUFFER_CAPACITY
    MaxActions,     \* bound: the client's actions
    MaxOthers,      \* bound: the actions of the host and of other clients
    MaxRequests,    \* bound: subscribe requests
    MaxBreaks       \* bound: transports that break

ASSUME CapacityAssumption == Capacity \in Nat \ {0}
ASSUME BoundsAssumption ==
    /\ MaxActions \in Nat /\ MaxOthers \in Nat
    /\ MaxRequests \in Nat /\ MaxBreaks \in Nat

VARIABLES
    \* the client
    conn,           \* the client's state; "Asked": reconnect waits for its answer
    serverSeq,      \* _serverSeq
    clientSeq,      \* the number of the last action
    entry,          \* the manager's entry for the session
    outbox,         \* notifications that wait for the new transport
    gated,          \* subscribe requests that wait for the reconnection
    asked,          \* the number of the last subscribe request
    \* the transport, and what arrives late from those that broke
    toServer, toClient, late, breaks,
    \* the host
    log,            \* the actions that have a serverSeq
    queue,          \* _clientDispatchQueues
    attached,       \* the transport has said reconnect
    subscription,   \* the client's ChannelSubscription for the session
    requests,       \* subscribe requests that are carried out
    restoring,      \* _restoreReconnectSubscriptions
    answers,        \* answers that are ready and not yet sent
    \* history
    dropped,        \* the client's actions whose pending copy was cleared
    gap             \* the entry has met a known gap of the protocol

client == <<conn, serverSeq, clientSeq, entry, outbox, gated, asked>>
wire == <<toServer, toClient, late, breaks>>
host == <<log, queue, attached, subscription, requests, restoring, answers>>
vars == <<client, wire, host, dropped, gap>>

ClientSeqs == 1 .. MaxActions
Others == 0         \* the clientSeq of an action that is not the client's
Envelopes == [channel : {"root", "session"}, clientSeq : 0 .. MaxActions, rejected : BOOLEAN]

(* The numbers from first to last, as a sequence. *)
Interval(first, last) == [i \in 1 .. last - first + 1 |-> first + i - 1]

IsOfSession(k) == log[k].channel = "session"
OfSession(seqs) == Only(seqs, {k \in DOMAIN log : IsOfSession(k)})

(* The actions that change the session's state. *)
IsApplied(k) == IsOfSession(k) /\ ~log[k].rejected
Applied(seqs) == Only(seqs, {k \in DOMAIN log : IsApplied(k)})

Own(seqs) == {log[k].clientSeq : k \in {seqs[i] : i \in DOMAIN seqs}} \ {Others}
Without(pending, settled) == Only(pending, ClientSeqs \ settled)

-----------------------------------------------------------------------------
(* The client's subscription *)

NoSnapshot == 0
NoRequest == 0      \* the entry waits for no answer
NoEntry == [status |-> "none", request |-> NoRequest, confirmed |-> <<>>, fromSeq |-> NoSnapshot,
            buffered |-> <<>>, pending |-> <<>>]
NewEntry(request) == [NoEntry EXCEPT !.status = "pending", !.request = request]

IsHeld == entry.status # "none"
HasState == entry.status = "snapshot"

(* _reconcile as AnnotationsStateSubscription has it, where the actions of  *)
(* others are applied without a look at the reason of a rejection.          *)
ReceiveRejected(e, seqs) ==
    IF e.status = "snapshot"
    THEN [e EXCEPT !.confirmed = @ \o Only(seqs, {k \in DOMAIN log :
                        IsOfSession(k) /\ (log[k].rejected => log[k].clientSeq = Others)}),
                   !.pending = Without(@, Own(seqs))]
    ELSE [e EXCEPT !.buffered = @ \o OfSession(seqs)]

(* receiveEnvelope and _reconcile, for actions in this order. *)
Receive(e, seqs) ==
    IF e.status = "snapshot"
    THEN [e EXCEPT !.confirmed = @ \o Applied(seqs), !.pending = Without(@, Own(seqs))]
    ELSE IF e.status = "none" THEN e
    ELSE [e EXCEPT !.buffered = @ \o OfSession(seqs)]

(* handleSnapshot and _onSnapshotApplied: the buffered actions that the     *)
(* snapshot does not have are applied; all of them settle pending ones.     *)
Seat(e, fromSeq) ==
    [e EXCEPT !.status = "snapshot", !.fromSeq = fromSeq,
              !.confirmed = Applied(Interval(1, fromSeq))
                            \o Applied(Only(e.buffered, fromSeq + 1 .. Len(log))),
              !.buffered = <<>>,
              !.pending = Without(@, Own(e.buffered))]

-----------------------------------------------------------------------------
(* Messages *)

Dispatch(seq) == [type |-> "dispatchAction", clientSeq |-> seq]
Unsubscribe == [type |-> "unsubscribe"]
Subscribe(id) == [type |-> "subscribe", id |-> id]
Reconnect == [type |-> "reconnect", lastSeen |-> serverSeq, subscribed |-> IsHeld]

IsDispatch(msg) == msg.type = "dispatchAction"
Dispatched(msgs) ==
    LET sent == Only(msgs, {Dispatch(s) : s \in ClientSeqs})
    IN [i \in DOMAIN sent |-> sent[i].clientSeq]

(* _sendNotificationMessage and _dispatchRequest: while the client          *)
(* reconnects, notifications wait in the outbox and requests at the gate.   *)
SendNotifications(msgs) ==
    IF conn = "Connected"
    THEN toServer' = toServer \o msgs /\ UNCHANGED outbox
    ELSE outbox' = outbox \o msgs /\ UNCHANGED toServer

ReadFromServer == toClient # <<>> /\ toClient' = Tail(toClient)

(* From a snapshot to its answer the host runs microtasks only: it reads no *)
(* message, and sees no transport close.                                    *)
NotTaken == -1
IsAnswering == answers # {} \/ \E r \in requests : r.fromSeq # NotTaken

ReadFromClient == ~IsAnswering /\ toServer # <<>> /\ toServer' = Tail(toServer)

-----------------------------------------------------------------------------
(* Initially the handshake is over and nothing is subscribed but the root. *)

NoSubscription == [state |-> "none", id |-> 0]
NotRestoring == [on |-> FALSE, lastSeen |-> 0, canReplay |-> FALSE]

Init ==
    /\ conn = "Connected" /\ serverSeq = 0 /\ clientSeq = 0
    /\ entry = NoEntry
    /\ outbox = <<>> /\ gated = <<>> /\ asked = 0
    /\ toServer = <<>> /\ toClient = <<>> /\ late = <<>> /\ breaks = 0
    /\ log = <<>> /\ queue = <<>>
    /\ attached = TRUE
    /\ subscription = NoSubscription /\ requests = {}
    /\ restoring = NotRestoring /\ answers = {}
    /\ dropped = {} /\ gap = FALSE

Clear(e) == dropped' = dropped \cup ToSet(e.pending)

(* getSubscription: a new entry subscribes; one that failed is disposed of  *)
(* first.                                                                   *)
Acquire ==
    /\ asked < MaxRequests
    /\ entry.status \in {"none", "error"}
    /\ asked' = asked + 1
    /\ entry' = NewEntry(asked')
    /\ gap' = FALSE
    /\ Clear(entry)
    /\ LET evicted == IF IsHeld THEN <<Unsubscribe>> ELSE <<>> IN
       IF conn = "Connected"
       THEN /\ toServer' = toServer \o evicted \o <<Subscribe(asked')>>
            /\ UNCHANGED <<outbox, gated>>
       ELSE /\ outbox' = outbox \o evicted
            /\ gated' = Append(gated, Subscribe(asked'))
            /\ UNCHANGED toServer
    /\ UNCHANGED <<conn, serverSeq, clientSeq, toClient, late, breaks, host>>

(* The last reference is disposed.  Bound: not of the last entry, nor after *)
(* the last action.                                                         *)
Release ==
    /\ asked < MaxRequests /\ clientSeq < MaxActions
    /\ IsHeld
    /\ entry' = NoEntry
    /\ Clear(entry)
    /\ SendNotifications(<<Unsubscribe>>)
    /\ UNCHANGED <<conn, serverSeq, clientSeq, gated, asked, toClient, late, breaks, host, gap>>

(* dispatch of an action for the session. *)
Act ==
    /\ clientSeq < MaxActions
    /\ IsHeld
    /\ clientSeq' = clientSeq + 1
    /\ entry' = [entry EXCEPT !.pending = Append(@, clientSeq')]
    /\ SendNotifications(<<Dispatch(clientSeq')>>)
    /\ UNCHANGED <<conn, serverSeq, gated, asked, toClient, late, breaks, host, dropped, gap>>

-----------------------------------------------------------------------------
(* The client reads *)

(* A live action.  The host may send one before its answer to reconnect.   *)
ReadAction ==
    /\ ReadFromServer
    /\ Head(toClient).type = "action"
    /\ serverSeq' = Max({serverSeq, Head(toClient).serverSeq})
    /\ entry' = Receive(entry, <<Head(toClient).serverSeq>>)
    /\ gap' = (gap \/ (conn = "Asked" /\ HasState))
    /\ UNCHANGED <<conn, clientSeq, outbox, gated, asked, toServer, late, breaks, host, dropped>>

(* The answer to a subscribe request, which only the entry that has asked   *)
(* takes, and only while no other snapshot has come.                        *)
Settled(e) == [e EXCEPT !.request = NoRequest]
Fail(e) == [Settled(e) EXCEPT !.status = "error"]

ReadAnswer ==
    /\ ReadFromServer
    /\ LET msg == Head(toClient) IN
       /\ msg.type \in {"snapshot", "failure"}
       /\ entry' = IF entry.request # msg.id THEN entry
                   ELSE IF msg.type = "snapshot" THEN Seat(Settled(entry), msg.fromSeq)
                   ELSE Fail(entry)
    /\ UNCHANGED <<conn, serverSeq, clientSeq, outbox, gated, asked, toServer, late, breaks,
                   host, dropped, gap>>

(* _drainAfterReconnect, and the requests that waited at the gate.          *)
Unqueued(pending) == Without(pending, ToSet(Dispatched(outbox)))
DispatchAll(seqs) == [i \in DOMAIN seqs |-> Dispatch(seqs[i])]

DrainOutboxFirst(pending) == outbox \o DispatchAll(Unqueued(pending)) \o gated
DrainOutboxOnly(pending) == outbox \o gated
Drain(pending) == DispatchAll(Unqueued(pending)) \o outbox \o gated

ResumeKeepingOutbox(e) ==
    /\ conn' = "Connected"
    /\ toServer' = toServer \o Drain(e.pending)
    /\ gated' = <<>>
    /\ UNCHANGED <<outbox, clientSeq, asked, late, breaks, host>>

Resume(e) ==
    /\ conn' = "Connected"
    /\ toServer' = toServer \o Drain(e.pending)
    /\ outbox' = <<>> /\ gated' = <<>>
    /\ UNCHANGED <<clientSeq, asked, late, breaks, host>>

(* _applyReconnectResult of a replay.  The client's own accepted actions    *)
(* are no longer pending, whether or not the entry has a state yet.         *)
DropReplayed(e, seqs) == [e EXCEPT !.pending = Without(@, Own(Applied(seqs)))]

ReadReplay ==
    /\ ReadFromServer
    /\ Head(toClient).type = "replay"
    /\ LET seqs == Head(toClient).serverSeqs IN
       /\ serverSeq' = Max({serverSeq} \cup ToSet(seqs))
       /\ entry' = Receive(DropReplayed(entry, seqs), seqs)
       /\ gap' = (gap \/ (HasState /\ \E k \in ToSet(OfSession(seqs)) : k <= entry.fromSeq))
       /\ Resume(entry')
    /\ UNCHANGED dropped

(* _applyReconnectResult of snapshots: the one of the session takes the     *)
(* place of every other that is on its way, and nothing stays pending.  An  *)
(* action that came before them is in none of them.                         *)
ReadSnapshots ==
    /\ ReadFromServer
    /\ Head(toClient).type = "snapshots"
    /\ LET msg == Head(toClient)
           seated == msg.subscribed /\ IsHeld
       IN /\ serverSeq' = Max({serverSeq, msg.fromSeq})
          /\ entry' = IF seated
                      THEN Seat([Settled(entry) EXCEPT !.pending = <<>>], msg.fromSeq)
                      ELSE entry
          /\ dropped' = IF seated THEN dropped \cup ToSet(entry.pending) ELSE dropped
          /\ gap' = IF seated THEN \E k \in msg.fromSeq + 1 .. serverSeq : IsApplied(k)
                    ELSE gap
          /\ Resume(entry')

(* _attemptReconnect with a new transport. *)
Connect ==
    /\ conn = "Reconnecting"
    /\ conn' = "Asked"
    /\ toServer' = <<Reconnect>>
    /\ UNCHANGED <<serverSeq, clientSeq, entry, outbox, gated, asked, toClient, late, breaks,
                   host, dropped, gap>>

-----------------------------------------------------------------------------
(* The host *)

(* _isRelevantToClient: the root is always subscribed, and not active while *)
(* subscriptions are restored.                                              *)
IsActive(channel) ==
    /\ attached /\ ~restoring.on
    /\ channel = "session" => subscription.state = "active"

(* _recordAndBroadcastAction. *)
Publish(envelope) ==
    /\ log' = Append(log, envelope)
    /\ toClient' = IF IsActive(envelope.channel)
                   THEN Append(toClient, [type |-> "action", serverSeq |-> Len(log')])
                   ELSE toClient
    /\ gap' = (gap \/ (/\ attached /\ ~IsActive(envelope.channel) /\ ~restoring.on
                       /\ envelope.clientSeq \in ToSet(entry.pending)))

OwnEnvelope(seq, rejected) == [channel |-> "session", clientSeq |-> seq, rejected |-> rejected]

(* An action of the host or of another client. *)
ActOfOthers ==
    /\ Cardinality({k \in DOMAIN log : log[k].clientSeq = Others}) < MaxOthers
    /\ \E channel \in {"root", "session"}, rejected \in BOOLEAN :
          /\ channel = "root" => ~rejected
          /\ Publish([channel |-> channel, clientSeq |-> Others, rejected |-> rejected])
    /\ UNCHANGED <<client, toServer, late, breaks, queue, attached, subscription, requests,
                   restoring, answers, dropped>>

(* dispatchAction: some actions are rejected at once, the others are        *)
(* carried out one after the other.                                         *)
Take(seq) ==
    \/ queue' = Append(queue, seq) /\ UNCHANGED <<log, toClient, gap>>
    \/ Publish(OwnEnvelope(seq, TRUE)) /\ UNCHANGED queue

ReadDispatch ==
    /\ ReadFromClient
    /\ IsDispatch(Head(toServer))
    /\ Take(Head(toServer).clientSeq)
    /\ UNCHANGED <<client, late, breaks, attached, subscription, requests, restoring, answers,
                   dropped>>

(* The host reads what a broken transport still has. *)
ReadLate ==
    /\ ~IsAnswering
    /\ \E i \in DOMAIN late :
          /\ Take(Head(late[i]))
          /\ late' = IF Len(late[i]) = 1 THEN RemoveAt(late, i)
                     ELSE [late EXCEPT ![i] = Tail(@)]
    /\ UNCHANGED <<client, toServer, breaks, attached, subscription, requests, restoring,
                   answers, dropped>>

(* _dispatchActionNow. *)
Execute ==
    /\ queue # <<>>
    /\ queue' = Tail(queue)
    /\ \E rejected \in BOOLEAN : Publish(OwnEnvelope(Head(queue), rejected))
    /\ UNCHANGED <<client, toServer, late, breaks, attached, subscription, requests, restoring,
                   answers, dropped>>

(* _handleReconnect: whether a replay will do is decided before the         *)
(* subscriptions are restored.                                              *)
OldestBuffered == IF log = <<>> THEN 0 ELSE Max({1, Len(log) - Capacity + 1})

ReadReconnect ==
    /\ ReadFromClient
    /\ LET msg == Head(toServer) IN
       /\ msg.type = "reconnect"
       /\ attached' = TRUE
       /\ subscription' = IF msg.subscribed THEN [state |-> "pending", id |-> 0]
                          ELSE NoSubscription
       /\ restoring' = [on |-> TRUE, lastSeen |-> msg.lastSeen,
                        canReplay |-> msg.lastSeen >= OldestBuffered]
    /\ UNCHANGED <<client, toClient, late, breaks, log, queue, requests, answers, dropped, gap>>

(* An answer that is ready is sent a little later: actions may be sent      *)
(* before it.                                                               *)
Answer(msg) == answers' = answers \cup {msg}

SendAnswer ==
    /\ \E msg \in answers :
          /\ answers' = answers \ {msg}
          /\ toClient' = Append(toClient, msg)
    /\ UNCHANGED <<client, toServer, late, breaks, log, queue, attached, subscription, requests,
                   restoring, dropped, gap>>

(* _restoreReconnectSubscriptions, once all of them are restored.  What it  *)
(* does to sessions that the client no longer has is like ActOfOthers.      *)
IsSubscribed == subscription.state # "none"

Replayed == Interval(Max({restoring.lastSeen + 1, OldestBuffered}), Len(log))

RestoreEnds ==
    /\ restoring.on
    /\ restoring' = NotRestoring
    /\ subscription' = IF IsSubscribed THEN [subscription EXCEPT !.state = "active"]
                       ELSE subscription
    /\ IF restoring.canReplay
       THEN /\ Answer([type |-> "replay",
                       serverSeqs |-> IF IsSubscribed THEN Replayed
                                      ELSE Only(Replayed, {k \in DOMAIN log : ~IsOfSession(k)})])
            /\ gap' = (gap \/ restoring.lastSeen + 1 < OldestBuffered)
       ELSE /\ Answer([type |-> "snapshots", fromSeq |-> Len(log), subscribed |-> IsSubscribed])
            /\ UNCHANGED gap
    /\ UNCHANGED <<client, wire, log, queue, attached, requests, dropped>>

(* The subscribe handler: a request for a channel that is active keeps its  *)
(* subscription, another replaces it.                                       *)
ReadSubscribe ==
    /\ ReadFromClient
    /\ LET msg == Head(toServer) IN
       /\ msg.type = "subscribe"
       /\ subscription' = IF subscription.state = "active" THEN subscription
                          ELSE [state |-> "pending", id |-> msg.id]
       /\ requests' = requests \cup
             {[id |-> msg.id, subscription |-> subscription', fromSeq |-> NotTaken]}
    /\ UNCHANGED <<client, toClient, late, breaks, log, queue, attached, restoring, answers,
                   dropped, gap>>

(* AgentService.subscribe takes the snapshot, *)
IsCurrent(r) == r.subscription = subscription

TakeSnapshot ==
    /\ \E r \in requests :
          /\ IsCurrent(r) /\ r.fromSeq = NotTaken
          /\ requests' = (requests \ {r}) \cup {[r EXCEPT !.fromSeq = Len(log)]}
    /\ UNCHANGED <<client, wire, log, queue, attached, subscription, restoring, answers,
                   dropped, gap>>

(* and the handler activates the subscription when it has heard of it.      *)
EndRequest(r, msg, after) ==
    /\ requests' = requests \ {r}
    /\ Answer(msg)
    /\ subscription' = after
    /\ UNCHANGED <<client, wire, log, queue, attached, restoring, dropped>>

Failure(id) == [type |-> "failure", id |-> id]

SubscribeEnds ==
    \E r \in requests :
       /\ IsCurrent(r) /\ r.fromSeq # NotTaken
       /\ EndRequest(r, [type |-> "snapshot", id |-> r.id, fromSeq |-> r.fromSeq],
                     [state |-> "active", id |-> r.id])
       /\ gap' = (gap \/ (/\ subscription.state # "active" /\ entry.request = r.id
                          /\ \E k \in r.fromSeq + 1 .. Len(log) : IsApplied(k)))

(* The session cannot be restored. *)
SubscribeFails ==
    \E r \in requests :
       /\ IsCurrent(r) /\ r.fromSeq = NotTaken
       /\ EndRequest(r, Failure(r.id),
                     IF subscription.state = "pending" THEN NoSubscription ELSE subscription)
       /\ UNCHANGED gap

(* The subscription has gone, or is another's. *)
SubscribeIsCancelled ==
    \E r \in requests :
       /\ ~IsCurrent(r)
       /\ EndRequest(r, Failure(r.id), subscription)
       /\ UNCHANGED gap

(* _removeSubscription. *)
ReadUnsubscribe ==
    /\ ReadFromClient
    /\ Head(toServer).type = "unsubscribe"
    /\ subscription' = NoSubscription
    /\ gap' = (gap \/ HasState)
    /\ UNCHANGED <<client, toClient, late, breaks, log, queue, attached, requests, restoring,
                   answers, dropped>>

-----------------------------------------------------------------------------
(* The transport breaks: requests that were sent fail, what was not read is *)
(* lost but for a part of the actions, which the host reads some time.      *)
IsSent(request) == request # NoRequest /\ Subscribe(request) \notin ToSet(gated)

TransportBreaks ==
    /\ conn # "Reconnecting"
    /\ ~IsAnswering
    /\ breaks < MaxBreaks
    /\ breaks' = breaks + 1
    /\ conn' = "Reconnecting"
    /\ entry' = IF entry.status = "pending" /\ IsSent(entry.request)
                THEN Fail(entry) ELSE entry
    /\ toServer' = <<>> /\ toClient' = <<>>
    /\ \E n \in 0 .. Len(Dispatched(toServer)) :
          late' = IF n = 0 THEN late
                  ELSE Append(late, SubSeq(Dispatched(toServer), 1, n))
    /\ attached' = FALSE
    /\ subscription' = NoSubscription /\ requests' = {}
    /\ restoring' = NotRestoring /\ answers' = {}
    /\ UNCHANGED <<serverSeq, clientSeq, outbox, gated, asked, log, queue, dropped, gap>>

-----------------------------------------------------------------------------
User == Acquire \/ Release \/ Act
Client == ReadAction \/ ReadAnswer \/ ReadReplay \/ ReadSnapshots \/ Connect
Host ==
    \/ ReadDispatch \/ ReadLate \/ Execute
    \/ ReadReconnect \/ RestoreEnds \/ SendAnswer
    \/ ReadSubscribe \/ TakeSnapshot \/ SubscribeEnds \/ SubscribeFails \/ SubscribeIsCancelled
    \/ ReadUnsubscribe

Next == User \/ Client \/ Host \/ ActOfOthers \/ TransportBreaks

Spec == Init /\ [][Next]_vars

(* The client reads, and tries again when it has lost its transport; the    *)
(* host goes on as long as there is something for it to do.  Nothing is     *)
(* assumed of users, of other clients or of transports that break.          *)
FairSpec == Spec /\ WF_vars(Client) /\ WF_vars(Host)

-----------------------------------------------------------------------------
(* Properties                                                              *)
(*                                                                         *)
(* gap marks an entry that has met what the protocol does not provide for; *)
(* a new entry, or a snapshot of a reconnection, ends it:                  *)
(*   ReadReplay       a replay holds actions that the snapshot of the      *)
(*                    entry has, for subscribe does not move _serverSeq    *)
(*   RestoreEnds      the buffer was cut while subscriptions were restored *)
(*   ReadUnsubscribe  an unsubscribe of an older entry, from the outbox,   *)
(*                    comes after the snapshot of the reconnection         *)
(*   Publish          an action comes back while the subscription it needs *)
(*                    is not active, and the client does not hear of it    *)
(*   SubscribeEnds    an action comes between the snapshot and activation, *)
(*                    and the client does not hear of it                   *)
(*   ReadAction,      an action is sent live before the answer of the      *)
(*   ReadSnapshots    reconnection, which is older than it                 *)

ClientMessages ==
    [type : {"dispatchAction"}, clientSeq : ClientSeqs] \cup [type : {"unsubscribe"}]
    \cup [type : {"subscribe"}, id : 1 .. MaxRequests]
    \cup [type : {"reconnect"}, lastSeen : Nat, subscribed : BOOLEAN]
HostMessages ==
    [type : {"action"}, serverSeq : DOMAIN log]
    \cup [type : {"replay"}, serverSeqs : Seq(DOMAIN log)]
    \cup [type : {"snapshot"}, id : 1 .. MaxRequests, fromSeq : 0 .. Len(log)]
    \cup [type : {"snapshots"}, fromSeq : 0 .. Len(log), subscribed : BOOLEAN]
    \cup [type : {"failure"}, id : 1 .. MaxRequests]
Subscriptions == [state : {"none", "pending", "active"}, id : 0 .. MaxRequests]

(* Types; a client that is connected has drained its queues, nothing is     *)
(* pending for a session that is not held, and requests and restorations    *)
(* belong to a transport that lives.                                        *)
TypeOK ==
    /\ conn \in {"Connected", "Reconnecting", "Asked"}
    /\ serverSeq \in 0 .. Len(log) /\ clientSeq \in 0 .. MaxActions
    /\ entry \in [status : {"none", "pending", "snapshot", "error"},
                  request : 0 .. MaxRequests, confirmed : Seq(DOMAIN log),
                  fromSeq : 0 .. Len(log), buffered : Seq(DOMAIN log), pending : Seq(ClientSeqs)]
    /\ outbox \in Seq(ClientMessages) /\ gated \in Seq(ClientMessages)
    /\ toServer \in Seq(ClientMessages) /\ toClient \in Seq(HostMessages)
    /\ late \in Seq(Seq(ClientSeqs)) /\ breaks \in 0 .. MaxBreaks /\ asked \in 0 .. MaxRequests
    /\ log \in Seq(Envelopes) /\ queue \in Seq(ClientSeqs)
    /\ attached \in BOOLEAN /\ gap \in BOOLEAN
    /\ subscription \in Subscriptions
    /\ requests \subseteq [id : 1 .. MaxRequests, subscription : Subscriptions,
                           fromSeq : NotTaken .. Len(log)]
    /\ answers \subseteq HostMessages
    /\ restoring \in [on : BOOLEAN, lastSeen : Nat, canReplay : BOOLEAN]
    /\ dropped \subseteq ClientSeqs
    /\ conn = "Connected" => attached /\ outbox = <<>> /\ gated = <<>>
    /\ conn = "Reconnecting" => toServer = <<>> /\ toClient = <<>>
    /\ restoring.on => conn = "Asked" /\ attached
    /\ ~attached => requests = {} /\ answers = {} /\ ~IsSubscribed
    /\ ~IsHeld => entry = NoEntry

(* The client's confirmed state is the host's, up to the last action that   *)
(* the client has seen: none is missing, none is applied twice, and no      *)
(* rejected one is applied.                                                 *)
ConfirmedFollowsHost ==
    HasState /\ ~gap => entry.confirmed = Applied(Interval(1, Max({serverSeq, entry.fromSeq})))

(* The client's actions are carried out in the order in which the user      *)
(* took them, but for those that a new snapshot or a release has dropped.   *)
ActionsKeepTheirOrder ==
    \A k \in DOMAIN log : ~log[k].rejected =>
        \A s \in 1 .. log[k].clientSeq - 1 :
            s \in dropped \/ \E j \in 1 .. k - 1 : log[j].clientSeq = s

(* An action of the client is carried out, rejected or dropped, and what    *)
(* the user sees of it before does not stay for ever.                       *)
IsSettled(s) ==
    /\ s \in dropped \/ \E k \in DOMAIN log : log[k].clientSeq = s
    /\ s \notin ToSet(entry.pending) \/ gap \/ entry.status = "error"

EventuallySettled == []<>(\A s \in 1 .. clientSeq : IsSettled(s))
=============================================================================
