----------------------------- MODULE IpcChannel -----------------------------
(***************************************************************************)
(* ChannelClient and ChannelServer (vs/base/parts/ipc/common/ipc.ts): the  *)
(* client calls commands and subscribes to events of channels that the     *)
(* server registers, over a protocol that delivers in order.               *)
(*                                                                         *)
(* A call is made once, with an id of its own.  An event keeps its id for  *)
(* ever: each time the client's emitter gains its first listener it sends  *)
(* EventListen, each time it loses the last one EventDispose.  A request   *)
(* for a channel that is not registered waits in pendingRequests.          *)
(*                                                                         *)
(* One turn of an event loop, with the microtasks it starts, is one step.  *)
(* In particular the requests made before the client is initialized go out *)
(* in the turn that reads Initialize.  The application disposes a client   *)
(* last: it makes no call and no subscription afterwards.                  *)
(*                                                                         *)
(* A definition whose name ends in Faulty, or that is named for what it    *)
(* forgets, is a plausible mistake in the definition that follows it.  No  *)
(* action uses one.                                                        *)
(***************************************************************************)
EXTENDS Naturals, FiniteSets, SequencesExt, Subsequences

CONSTANTS
    Calls,              \* ids of the calls the client makes
    Events,             \* ids of the events it subscribes to
    Throwing,           \* events for which channel.listen throws
    Channels,           \* channel names
    ChannelOf,          \* [Ids -> Channels]
    MaxSubscriptions,   \* bound: times an event gains a first listener
    MaxFires,           \* bound: event messages on their way to the client
    MaxAborts           \* bound: flushes of a channel that a listen aborts

Ids == Calls \cup Events
NoId == "none"

ASSUME IdsAssumption ==
    Calls \cap Events = {} /\ Throwing \subseteq Events /\ NoId \notin Ids
ASSUME FiniteAssumption == IsFiniteSet(Ids)
ASSUME ChannelsAssumption == ChannelOf \in [Ids -> Channels]
ASSUME BoundsAssumption ==
    MaxSubscriptions \in Nat /\ MaxFires \in Nat /\ MaxAborts \in Nat

VARIABLES
    \* ChannelClient
    clientState,        \* "Uninitialized" or "Idle"
    clientDisposed,
    deferred,           \* requests that wait for Initialize, in order
    handlers,           \* ids in the map of response handlers
    clientRequests,     \* ids in activeRequests
    outcome,            \* the promise of each call
    subscriptions,      \* first listeners so far
    \* ChannelServer
    serverDisposed,
    early,              \* channels registered before any request arrives
    channels,           \* registered channels
    flushing,           \* channels whose setTimeout(flushPendingRequests) is armed
    pendingRequests,    \* [Channels -> Seq([id, timerOff])]
    serverRequests,     \* ids in activeRequests
    running,            \* runs <<c, n>> whose promise is not settled: the nth of c
    tokenCancelled,     \* runs whose token is cancelled while they run
    listeners,          \* listeners on the server's event, per event id
    called,             \* how many times channel.call ran, per call
    \* what the properties remember of the server
    aborts,             \* flushes that a listen that throws aborted, per channel
    unanswered,         \* calls of which a run ended and could not be answered
    \* the protocol below: both directions are FIFO
    toServer, toClient

clientVars == <<clientState, clientDisposed, deferred, handlers, clientRequests,
                outcome, subscriptions>>
executionVars == <<serverRequests, running, tokenCancelled, listeners, called, unanswered>>
registryVars == <<serverDisposed, early, channels, flushing, pendingRequests, aborts>>
serverVars == <<registryVars, executionVars>>
vars == <<clientVars, serverVars, toServer, toClient>>

-----------------------------------------------------------------------------
(* Messages and helpers *)

Message(type, id) == [type |-> type, id |-> id]

Request(id) == Message(IF id \in Calls THEN "Promise" ELSE "EventListen", id)
Abandon(id) == Message(IF id \in Calls THEN "PromiseCancel" ELSE "EventDispose", id)

Requests(ids) == [i \in DOMAIN ids |-> Request(ids[i])]
Abandons(ids) == [i \in DOMAIN ids |-> Abandon(ids[i])]

Occurrences(id, ids) == Cardinality({i \in DOMAIN ids : ids[i] = id})

Init ==
    /\ clientState = "Uninitialized"
    /\ clientDisposed = FALSE
    /\ deferred = <<>>
    /\ handlers = {}
    /\ clientRequests = {}
    /\ outcome = [c \in Calls |-> "none"]
    /\ subscriptions = 0
    /\ serverDisposed = FALSE
    /\ early \in SUBSET Channels
    /\ channels = early
    /\ flushing = {}
    /\ pendingRequests = [ch \in Channels |-> <<>>]
    /\ serverRequests = {}
    /\ running = {}
    /\ tokenCancelled = {}
    /\ listeners = [e \in Events |-> 0]
    /\ called = [c \in Calls |-> 0]
    /\ aborts = [ch \in Channels |-> 0]
    /\ unanswered = {}
    /\ toServer = <<>>
    /\ toClient = <<Message("Initialize", NoId)>>

-----------------------------------------------------------------------------
(* The client *)

(* requestPromise.  A call whose argument cannot be serialized is rejected. *)
Call(c) ==
    /\ ~clientDisposed
    /\ outcome[c] = "none"
    /\ \/ /\ clientState = "Uninitialized"
          /\ deferred' = Append(deferred, c)
          /\ clientRequests' = clientRequests \cup {c}
          /\ outcome' = [outcome EXCEPT ![c] = "pending"]
          /\ UNCHANGED <<handlers, toServer>>
       \/ /\ clientState = "Idle"
          /\ outcome' = [outcome EXCEPT ![c] = "error"]
          /\ UNCHANGED <<deferred, handlers, clientRequests, toServer>>
       \/ /\ clientState = "Idle"
          /\ handlers' = handlers \cup {c}
          /\ clientRequests' = clientRequests \cup {c}
          /\ outcome' = [outcome EXCEPT ![c] = "pending"]
          /\ toServer' = Append(toServer, Request(c))
          /\ UNCHANGED deferred
    /\ UNCHANGED <<clientState, clientDisposed, subscriptions, serverVars, toClient>>

(* The call's token is cancelled.  A handler in place stays: a response to  *)
(* the cancelled call is still expected.                                    *)
CancelCall(c) ==
    /\ c \in clientRequests
    /\ outcome' = [outcome EXCEPT ![c] = "cancelled"]
    /\ clientRequests' = clientRequests \ {c}
    /\ IF Contains(deferred, c)
       THEN deferred' = Only(deferred, Ids \ {c}) /\ UNCHANGED toServer
       ELSE toServer' = Append(toServer, Abandon(c)) /\ UNCHANGED deferred
    /\ UNCHANGED <<clientState, clientDisposed, handlers, subscriptions, serverVars,
                   toClient>>

(* requestEvent: onWillAddFirstListener. *)
Subscribe(e) ==
    /\ ~clientDisposed
    /\ e \notin handlers
    /\ subscriptions < MaxSubscriptions
    /\ subscriptions' = subscriptions + 1
    /\ handlers' = handlers \cup {e}
    /\ IF clientState = "Uninitialized"
       THEN deferred' = Append(deferred, e) /\ UNCHANGED <<clientRequests, toServer>>
       ELSE /\ clientRequests' = clientRequests \cup {e}
            /\ toServer' = Append(toServer, Request(e))
            /\ UNCHANGED deferred
    /\ UNCHANGED <<clientState, clientDisposed, outcome, serverVars, toClient>>

(* requestEvent: onDidRemoveLastListener. *)
UnsubscribeSilently(e) ==
    /\ ~clientDisposed
    /\ e \in handlers
    /\ handlers' = handlers \ {e}
    /\ deferred' = Only(deferred, Ids \ {e})
    /\ clientRequests' = clientRequests \ {e}
    /\ UNCHANGED <<clientState, clientDisposed, outcome, subscriptions, serverVars,
                   toServer, toClient>>

Unsubscribe(e) ==
    /\ ~clientDisposed
    /\ e \in handlers
    /\ handlers' = handlers \ {e}
    /\ IF Contains(deferred, e)
       THEN deferred' = Only(deferred, Ids \ {e}) /\ UNCHANGED <<clientRequests, toServer>>
       ELSE /\ clientRequests' = clientRequests \ {e}
            /\ toServer' = Append(toServer, Abandon(e))
            /\ UNCHANGED deferred
    /\ UNCHANGED <<clientState, clientDisposed, outcome, subscriptions, serverVars, toClient>>

(* ChannelClient.dispose: every active request is cancelled or disposed; no *)
(* message is read any more.  An event that still waits is not active.      *)
ClientDispose ==
    /\ ~clientDisposed
    /\ clientDisposed' = TRUE
    /\ outcome' = [c \in Calls |-> IF c \in clientRequests THEN "cancelled" ELSE outcome[c]]
    /\ deferred' = Only(deferred, Events)
    /\ toServer' = toServer \o Abandons(SetToSeq(clientRequests \ ToSet(deferred)))
    /\ handlers' = handlers \ (clientRequests \cap Events)
    /\ clientRequests' = {}
    /\ UNCHANGED <<clientState, subscriptions, serverVars, toClient>>

ReadByClient(types) ==
    /\ ~clientDisposed
    /\ toClient # <<>>
    /\ Head(toClient).type \in types
    /\ toClient' = Tail(toClient)
    /\ UNCHANGED <<clientDisposed, subscriptions, serverVars>>

(* onResponse of Initialize: the deferred requests go out, but for calls     *)
(* that turn out not to be serializable.                                    *)
InitializeBut(failed) ==
    LET sent == Only(deferred, Ids \ failed)
    IN  /\ ReadByClient({"Initialize"})
        /\ clientState' = "Idle"
        /\ deferred' = <<>>
        /\ toServer' = toServer \o Requests(sent)
        /\ handlers' = handlers \cup ToSet(sent)
        /\ clientRequests' = (clientRequests \cup ToSet(sent)) \ failed
        /\ outcome' = [c \in Calls |-> IF c \in failed THEN "error" ELSE outcome[c]]

Initialize == \E failed \in SUBSET (ToSet(deferred) \cap Calls) : InitializeBut(failed)

(* onResponse of a call: its handler, if there is one, settles the promise. *)
(* A promise that was cancelled stays so.                                   *)
ReceiveResponseKeeping ==
    LET c == Head(toClient).id IN
    /\ ReadByClient({"PromiseSuccess", "PromiseError"})
    /\ outcome' = [outcome EXCEPT ![c] = IF c \in handlers /\ @ = "pending"
            THEN IF Head(toClient).type = "PromiseSuccess" THEN "success" ELSE "error"
            ELSE @]
    /\ clientRequests' = clientRequests \ {c}
    /\ UNCHANGED <<clientState, deferred, handlers, toServer>>

ReceiveResponse ==
    LET c == Head(toClient).id IN
    /\ ReadByClient({"PromiseSuccess", "PromiseError"})
    /\ IF c \in handlers
       THEN /\ handlers' = handlers \ {c}
            /\ outcome' = [outcome EXCEPT ![c] = IF @ # "pending" THEN @
                    ELSE IF Head(toClient).type = "PromiseSuccess" THEN "success"
                    ELSE "error"]
            /\ clientRequests' = clientRequests \ {c}
       ELSE UNCHANGED <<handlers, outcome, clientRequests>>
    /\ UNCHANGED <<clientState, deferred, toServer>>

(* onResponse of an event: its handler, if there is one, fires the emitter. *)
ReceiveEvent ==
    /\ ReadByClient({"EventFire"})
    /\ UNCHANGED <<clientState, deferred, handlers, clientRequests, outcome, toServer>>

-----------------------------------------------------------------------------
(* The server *)

(* onPromise and onEventListen of ids, in order, their channels being       *)
(* registered and no listen throwing.  activeRequests keeps one disposable  *)
(* for each id: that of its latest run or listener.                         *)
Execute(ids) ==
    /\ running' = running \cup
            UNION {{c} \X (called[c] + 1 .. called[c] + Occurrences(c, ids)) : c \in Calls}
    /\ called' = [c \in Calls |-> called[c] + Occurrences(c, ids)]
    /\ listeners' = [e \in Events |-> listeners[e] + Occurrences(e, ids)]
    /\ serverRequests' = serverRequests \cup ToSet(ids)
    /\ UNCHANGED <<tokenCancelled, unanswered>>

(* The runs whose disposables activeRequests keeps for ids. *)
LatestRuns(ids) == {r \in running : r[1] \in ids /\ r[2] = called[r[1]]}

ReadByServer(types) ==
    /\ ~serverDisposed
    /\ toServer # <<>>
    /\ Head(toServer).type \in types
    /\ toServer' = Tail(toServer)
    /\ UNCHANGED <<clientVars, toClient>>

(* A listen that throws is caught by the protocol's emitter: the request is *)
(* dropped.                                                                 *)
ReceiveRequest ==
    LET id == Head(toServer).id IN
    /\ ReadByServer({"Promise", "EventListen"})
    /\ ChannelOf[id] \in channels
    /\ IF id \in Throwing THEN UNCHANGED executionVars ELSE Execute(<<id>>)
    /\ UNCHANGED registryVars

(* collectPendingRequest *)
ReceiveTooEarly ==
    LET id == Head(toServer).id IN
    /\ ReadByServer({"Promise", "EventListen"})
    /\ ChannelOf[id] \notin channels
    /\ pendingRequests' = [pendingRequests EXCEPT
            ![ChannelOf[id]] = Append(@, [id |-> id, timerOff |-> FALSE])]
    /\ UNCHANGED <<executionVars, serverDisposed, early, channels, flushing, aborts>>

(* disposeActiveRequest: what is not active, or not active yet, is left alone. *)
ReceiveAbandonKeeping ==
    LET id == Head(toServer).id IN
    /\ ReadByServer({"PromiseCancel", "EventDispose"})
    /\ tokenCancelled' = tokenCancelled \cup LatestRuns({id} \cap serverRequests)
    /\ listeners' = [e \in Events |->
            IF e = id /\ e \in serverRequests THEN listeners[e] - 1 ELSE listeners[e]]
    /\ UNCHANGED <<serverRequests, running, called, unanswered, registryVars>>

ReceiveAbandon ==
    LET id == Head(toServer).id IN
    /\ ReadByServer({"PromiseCancel", "EventDispose"})
    /\ IF id \in serverRequests
       THEN /\ serverRequests' = serverRequests \ {id}
            /\ tokenCancelled' = tokenCancelled \cup LatestRuns({id})
            /\ listeners' = [e \in Events |-> IF e = id THEN listeners[e] - 1 ELSE listeners[e]]
       ELSE UNCHANGED <<serverRequests, tokenCancelled, listeners>>
    /\ UNCHANGED <<running, called, unanswered, registryVars>>

(* The promise of the nth run of a call settles.  When the result cannot be *)
(* serialized, sendResponse throws in the fulfilled handler: onErr of the   *)
(* same then does not run, and no response is sent.  finally drops whatever *)
(* activeRequests has under the id.                                         *)
Complete(c, n) ==
    /\ <<c, n>> \in running
    /\ \/ /\ \E type \in {"PromiseSuccess", "PromiseError"} :
               toClient' = Append(toClient, Message(type, c))
          /\ UNCHANGED unanswered
       \/ /\ unanswered' = unanswered \cup {c}
          /\ UNCHANGED toClient
    /\ running' = running \ {<<c, n>>}
    /\ serverRequests' = serverRequests \ {c}
    /\ tokenCancelled' = tokenCancelled \ {<<c, n>>}
    /\ UNCHANGED <<listeners, called, registryVars, clientVars, toServer>>

(* The event of a channel fires: one message for each listener it has. *)
Fire(e) ==
    /\ listeners[e] > 0
    /\ Cardinality({i \in DOMAIN toClient : toClient[i].type = "EventFire"}) < MaxFires
    /\ toClient' = toClient \o [i \in 1 .. listeners[e] |-> Message("EventFire", e)]
    /\ UNCHANGED <<clientVars, serverVars, toServer>>

(* registerChannel, possibly again: the name is set, a flush is armed. *)
RegisterChannel(ch) ==
    /\ ch \notin flushing
    /\ aborts[ch] < MaxAborts
    /\ channels' = channels \cup {ch}
    /\ flushing' = flushing \cup {ch}
    /\ UNCHANGED <<serverDisposed, early, pendingRequests, aborts, executionVars, clientVars,
                   toServer, toClient>>

PendingIds(ch) == [i \in DOMAIN pendingRequests[ch] |-> pendingRequests[ch][i].id]

FlushAndKeep(ch) ==
    /\ ch \in flushing
    /\ ToSet(PendingIds(ch)) \cap Throwing = {}
    /\ flushing' = flushing \ {ch}
    /\ Execute(PendingIds(ch))
    /\ UNCHANGED <<pendingRequests, serverDisposed, early, channels, aborts, clientVars, toServer,
                   toClient>>

FlushAll(ch) ==
    /\ ch \in flushing
    /\ ToSet(PendingIds(ch)) \cap Throwing = {}
    /\ flushing' = flushing \ {ch}
    /\ Execute(PendingIds(ch))
    /\ pendingRequests' = [pendingRequests EXCEPT ![ch] = <<>>]
    /\ UNCHANGED <<serverDisposed, early, channels, aborts, clientVars, toServer, toClient>>

(* A queue after clearTimeout of its first k requests. *)
Cleared(queue, k) ==
    [i \in DOMAIN queue |-> [queue[i] EXCEPT !.timerOff = @ \/ i <= k]]

(* The listen of the kth request throws: the loop ends there and the queue  *)
(* is not deleted.  The requests before the kth have run, the timers up to  *)
(* it are cleared; the others are left as they are.                         *)
FlushUpTo(ch, k) ==
    LET ran == SubSeq(PendingIds(ch), 1, k - 1) IN
    /\ ch \in flushing
    /\ PendingIds(ch)[k] \in Throwing
    /\ ToSet(ran) \cap Throwing = {}
    /\ flushing' = flushing \ {ch}
    /\ Execute(ran)
    /\ pendingRequests' = [pendingRequests EXCEPT ![ch] = Cleared(@, k)]
    /\ aborts' = [aborts EXCEPT ![ch] = @ + 1]
    /\ UNCHANGED <<serverDisposed, early, channels, clientVars, toServer, toClient>>

FlushPendingRequests(ch) ==
    FlushAll(ch) \/ \E k \in DOMAIN pendingRequests[ch] : FlushUpTo(ch, k)

(* The timer of a pending request, unless it has fired or was cleared: a    *)
(* call is answered, an event is not.  The request stays in the queue.      *)
TimeoutSilently(ch, i) ==
    /\ i \in DOMAIN pendingRequests[ch]
    /\ ~pendingRequests[ch][i].timerOff
    /\ pendingRequests' = [pendingRequests EXCEPT ![ch][i].timerOff = TRUE]
    /\ UNCHANGED <<executionVars, serverDisposed, early, channels, flushing, aborts, clientVars,
                   toServer, toClient>>

PendingTimeout(ch, i) ==
    /\ i \in DOMAIN pendingRequests[ch]
    /\ ~pendingRequests[ch][i].timerOff
    /\ pendingRequests' = [pendingRequests EXCEPT ![ch][i].timerOff = TRUE]
    /\ toClient' = IF pendingRequests[ch][i].id \in Calls
                   THEN Append(toClient, Message("PromiseError", pendingRequests[ch][i].id))
                   ELSE toClient
    /\ UNCHANGED <<executionVars, serverDisposed, early, channels, flushing, aborts, clientVars,
                   toServer>>

(* ChannelServer.dispose: every active request is cancelled or disposed.    *)
(* The timers of pending requests and of flushes are not cleared.           *)
ServerDispose ==
    /\ ~serverDisposed
    /\ serverDisposed' = TRUE
    /\ tokenCancelled' = tokenCancelled \cup LatestRuns(serverRequests)
    /\ listeners' = [e \in Events |->
            IF e \in serverRequests THEN listeners[e] - 1 ELSE listeners[e]]
    /\ serverRequests' = {}
    /\ UNCHANGED <<running, called, unanswered, early, channels, flushing, pendingRequests,
                   aborts, clientVars, toServer, toClient>>

-----------------------------------------------------------------------------
ClientStep ==
    \/ \E c \in Calls : Call(c) \/ CancelCall(c)
    \/ \E e \in Events : Subscribe(e) \/ Unsubscribe(e)
    \/ ClientDispose
    \/ Initialize \/ ReceiveResponse \/ ReceiveEvent

PendingStep(ch) ==
    FlushPendingRequests(ch) \/ \E i \in DOMAIN pendingRequests[ch] : PendingTimeout(ch, i)

Settle(c) == \E n \in 1 .. called[c] : Complete(c, n)

ServerStep ==
    \/ ReceiveRequest \/ ReceiveTooEarly \/ ReceiveAbandon
    \/ \E c \in Calls : Settle(c)
    \/ \E e \in Events : Fire(e)
    \/ \E ch \in Channels : RegisterChannel(ch) \/ PendingStep(ch)
    \/ ServerDispose

Next == ClientStep \/ ServerStep

Spec == Init /\ [][Next]_vars

(* The event loops read what arrives and run their timers; the promises of  *)
(* the calls that run settle.  Channels need never be registered.           *)
Fairness ==
    /\ WF_vars(Initialize) /\ WF_vars(ReceiveResponse) /\ WF_vars(ReceiveEvent)
    /\ WF_vars(ReceiveRequest) /\ WF_vars(ReceiveTooEarly) /\ WF_vars(ReceiveAbandon)
    /\ \A c \in Calls : WF_vars(Settle(c))
    /\ \A ch \in Channels : WF_vars(PendingStep(ch))

FairSpec == Spec /\ Fairness

-----------------------------------------------------------------------------
(* Properties *)

RawRequest == {Request(id) : id \in Ids} \cup {Abandon(id) : id \in Ids}
RawResponse ==
    [type : {"PromiseSuccess", "PromiseError"}, id : Calls] \cup [type : {"EventFire"}, id : Events]
        \cup {Message("Initialize", NoId)}

(* Types, and that the disposables of activeRequests never remove more      *)
(* listeners than there are.                                                *)
TypeOK ==
    /\ clientState \in {"Uninitialized", "Idle"}
    /\ clientDisposed \in BOOLEAN /\ serverDisposed \in BOOLEAN
    /\ deferred \in Seq(Ids)
    /\ handlers \subseteq Ids /\ clientRequests \subseteq Ids /\ serverRequests \subseteq Ids
    /\ outcome \in [Calls -> {"none", "pending", "success", "error", "cancelled"}]
    /\ subscriptions \in Nat
    /\ early \subseteq channels /\ channels \subseteq Channels /\ flushing \subseteq channels
    /\ pendingRequests \in [Channels -> Seq([id : Ids, timerOff : BOOLEAN])]
    /\ running \subseteq Calls \X (Nat \ {0}) /\ tokenCancelled \subseteq running
    /\ aborts \in [Channels -> Nat] /\ unanswered \subseteq Calls
    /\ listeners \in [Events -> Nat]
    /\ called \in [Calls -> Nat]
    /\ toServer \in Seq(RawRequest)
    /\ toClient \in Seq(RawResponse)

RunsOf(c) == {r \in running : r[1] = c}

(* A command runs at most once, however its channel is registered, its      *)
(* request delayed, cancelled or timed out.  The exception is a flush that  *)
(* a listen aborts: it leaves the requests that have run in the queue, and  *)
(* a command runs no more often than that has happened to its channel.  A   *)
(* promise that was fulfilled stands for a run that has ended.              *)
CalledOnce ==
    \A c \in Calls :
        /\ called[c] <= 1 \/ called[c] <= aborts[ChannelOf[c]]
        /\ outcome[c] = "success" => \E n \in 1 .. called[c] : <<c, n>> \notin running

(* A handler is kept only while a response can still come, also for a call  *)
(* that was cancelled, timed out, runs late or waits behind a request that  *)
(* aborts each flush; except for a call of which a run could not be         *)
(* answered.                                                                *)
HandlerIsAwaited ==
    \A c \in handlers \cap Calls :
        \/ clientDisposed \/ serverDisposed
        \/ Contains(toServer, Request(c))
        \/ \E i \in DOMAIN pendingRequests[ChannelOf[c]] :
              pendingRequests[ChannelOf[c]][i] = [id |-> c, timerOff |-> FALSE]
        \/ RunsOf(c) # {}
        \/ \E i \in DOMAIN toClient : toClient[i].id = c
        \/ c \in unanswered

(* A promise is pending only while the call can still be cancelled and a    *)
(* handler, or a deferred request, can still settle it.                     *)
PendingIsHandled ==
    \A c \in Calls : outcome[c] = "pending" =>
        /\ c \in clientRequests
        /\ c \in handlers \/ Contains(deferred, c)

(* Neither leaks: handlers whose response cannot come, and promises that    *)
(* no handler can settle.                                                   *)
HandlersMatchCalls == HandlerIsAwaited /\ PendingIsHandled

(* A call that runs can be cancelled or was: activeRequests forgets no call *)
(* before its promise settles, and remembers none afterwards.  Of a call    *)
(* that an aborted flush left in the queue it knows the latest run only,    *)
(* and forgets it when any run of the call ends.                            *)
RunningIsCancellable ==
    \A c \in Calls :
        /\ c \in serverRequests => <<c, called[c]>> \in running \ tokenCancelled
        /\ called[c] = 1 /\ <<c, 1>> \in running \ tokenCancelled => c \in serverRequests

(* For channels registered in time: once all the client's messages are      *)
(* read, the server listens to exactly the events the client listens to,    *)
(* once each, but for those it cannot listen to, and no cancelled call runs *)
(* with a live token.                                                       *)
InTime(ids) == {id \in ids : ChannelOf[id] \in early}

EventsAndTokensAgree ==
    toServer = <<>> /\ ~clientDisposed /\ ~serverDisposed =>
        /\ \A e \in InTime(Events) : listeners[e] =
              IF e \in handlers \ Throwing /\ ~Contains(deferred, e) THEN 1 ELSE 0
        /\ \A c \in InTime(Calls) : outcome[c] = "cancelled" => RunsOf(c) \subseteq tokenCancelled

(* What is active on the server is what the client has asked for and not    *)
(* taken back.                                                              *)
SidesAgree == RunningIsCancellable /\ EventsAndTokensAgree

(* Every call is settled in the end, even one whose channel is never        *)
(* registered or never flushed to its end, unless the server goes away or   *)
(* the result of the call cannot be serialized: that caller may wait for    *)
(* ever.                                                                    *)
EventuallySettled ==
    \A c \in Calls : outcome[c] = "pending" ~>
        (outcome[c] # "pending" \/ serverDisposed \/ c \in unanswered)
=============================================================================
