-------------------------- MODULE IpcChannelProofs --------------------------
(***************************************************************************)
(* Theorems about IpcChannel, for any calls, events and channels: its      *)
(* types, when a command runs again, that handlers and calls match, and   *)
(* that the two sides agree.                                               *)
(***************************************************************************)
EXTENDS IpcChannel, SubsequenceTheorems

(* A flush that is aborted leaves the request that aborted it in the queue. *)
IsBlocked(ch) == \E e \in Throwing : Contains(PendingIds(ch), e)

(* What TypeOK leaves out: a request waits at its own channel, and only at  *)
(* one that was registered late; an event that is active has a listener,    *)
(* one whose listen throws never has; runs are counted.                     *)
Typed ==
    /\ TypeOK
    /\ \A ch \in Channels : aborts[ch] > 0 => IsBlocked(ch)
    /\ \A e \in Throwing : e \notin serverRequests /\ listeners[e] = 0
    /\ \A c \in Calls : \A n : <<c, n>> \in running => n \in 1 .. called[c]
    /\ \A ch \in Channels : \A i \in DOMAIN pendingRequests[ch] :
          ChannelOf[pendingRequests[ch][i].id] = ch
    /\ \A ch \in early : pendingRequests[ch] = <<>>
    /\ \A e \in Events : e \in serverRequests => listeners[e] > 0

(* Where the request of a call may be. *)
IsDeferred(id) == Contains(deferred, id)
IsSent(id) == Contains(toServer, Request(id))
Waits(id) == Contains(PendingIds(ChannelOf[id]), id)

IsFresh(c) == ~IsSent(c) /\ ~Waits(c) /\ called[c] = 0 /\ c \notin handlers

HasEnded(c) == \E n \in 1 .. called[c] : <<c, n>> \notin running

(* It is in one place at most, once, and it goes forward; but it stays in a *)
(* queue whose flushes are aborted, whether it has run or not.              *)
IsOnce(c) ==
    /\ Unique(deferred, c)
    /\ Unique(toServer, Request(c))
    /\ Unique(PendingIds(ChannelOf[c]), c)
    /\ outcome[c] = "none" => ~IsDeferred(c) /\ IsFresh(c)
    /\ IsDeferred(c) => outcome[c] = "pending" /\ IsFresh(c)
    /\ IsSent(c) => ~Waits(c) /\ called[c] = 0
    /\ Waits(c) => called[c] <= aborts[ChannelOf[c]]
    /\ called[c] <= 1 \/ called[c] <= aborts[ChannelOf[c]]

(* A promise is fulfilled by a run that has ended. *)
IsFulfilled(c) == Contains(toClient, Message("PromiseSuccess", c))

IsEarned(c) ==
    IsFulfilled(c) \/ outcome[c] = "success" => HasEnded(c)

EventIsDeferredOnce(e) ==
    Unique(deferred, e) /\ (IsDeferred(e) /\ ~clientDisposed => e \in handlers)

(* Between what the server listens to and what the client wants, listens    *)
(* and disposals alternate.                                                 *)
Wants(e) == IF e \in handlers /\ ~IsDeferred(e) THEN 1 ELSE 0

Leads(msgs, e, from, to) ==
    \E f \in [0 .. Len(msgs) -> {0, 1}] :
        /\ f[0] = from /\ f[Len(msgs)] = to
        /\ \A i \in 1 .. Len(msgs) :
              /\ msgs[i].id # e => f[i] = f[i - 1]
              /\ msgs[i].id = e => f[i] # f[i - 1] /\ (msgs[i] = Request(e) <=> f[i] = 1)

EventFollows(e) ==
    /\ listeners[e] = IF e \in serverRequests THEN 1 ELSE 0
    /\ Leads(toServer, e, listeners[e], Wants(e))

(* A call that was cancelled has its cancellation behind it. *)
Behind(msgs, c) ==
    \A i \in DOMAIN msgs : msgs[i] = Request(c) =>
        \E j \in DOMAIN msgs : i < j /\ msgs[j] = Abandon(c)

IsCancelSent(c) == Contains(toServer, Abandon(c))

IsLive(c) == \E n : <<c, n>> \in running /\ <<c, n>> \notin tokenCancelled

CancelFollows(c) ==
    outcome[c] = "cancelled" =>
        /\ IsLive(c) => IsCancelSent(c)
        /\ Behind(toServer, c)

SidesFollow ==
    ~clientDisposed /\ ~serverDisposed =>
        /\ \A e \in InTime(Events \ Throwing) : EventFollows(e)
        /\ \A c \in InTime(Calls) : CancelFollows(c)

CallsAreOnce == \A c \in Calls : IsOnce(c) /\ IsEarned(c)
EventsAreDeferredOnce == \A e \in Events : EventIsDeferredOnce(e)

IpcInv ==
    /\ Typed /\ CallsAreOnce /\ EventsAreDeferredOnce
    /\ HandlersMatchCalls /\ RunningIsCancellable /\ SidesFollow

-----------------------------------------------------------------------------
(* Messages *)

LEMMA RequestIs ==
    ASSUME NEW id \in Ids
    PROVE  /\ Request(id) \in RawRequest /\ Request(id).id = id
           /\ Abandon(id) \in RawRequest /\ Abandon(id).id = id
           /\ Request(id).type \in {"Promise", "EventListen"}
           /\ Abandon(id).type \in {"PromiseCancel", "EventDispose"}
  BY DEF Request, Abandon, Message, RawRequest

LEMMA RequestsDiffer ==
    ASSUME NEW id \in Ids, NEW other \in Ids
    PROVE  /\ Request(id) = Request(other) => id = other
           /\ Abandon(id) = Abandon(other) => id = other
           /\ Request(id) # Abandon(other)
  BY DEF Request, Abandon, Message

LEMMA MessageToServer ==
    ASSUME NEW m \in RawRequest
    PROVE  /\ m.id \in Ids
           /\ m.type \in {"Promise", "EventListen"} => m = Request(m.id)
           /\ m.type \in {"PromiseCancel", "EventDispose"} => m = Abandon(m.id)
  BY DEF RawRequest, Request, Abandon, Message

LEMMA MessageToClient ==
    ASSUME NEW m \in RawResponse
    PROVE  /\ m.type \in {"PromiseSuccess", "PromiseError"} =>
                 m.id \in Calls /\ m = Message(m.type, m.id)
           /\ m.type = "EventFire" => m.id \in Events
           /\ m.type = "Initialize" => m.id = NoId
           /\ m.type \in {"PromiseSuccess", "PromiseError", "EventFire", "Initialize"}
  BY DEF RawResponse, Message

LEMMA Responses ==
    /\ \A c \in Calls, type \in {"PromiseSuccess", "PromiseError"} : Message(type, c) \in RawResponse
    /\ \A e \in Events : Message("EventFire", e) \in RawResponse
    /\ Message("Initialize", NoId) \in RawResponse
  BY DEF RawResponse, Message

LEMMA RequestsFacts ==
    ASSUME NEW ids \in Seq(Ids)
    PROVE  /\ Requests(ids) \in Seq(RawRequest) /\ Len(Requests(ids)) = Len(ids)
           /\ \A i \in 1 .. Len(ids) : Requests(ids)[i] = Request(ids[i]) /\ ids[i] \in Ids
           /\ \A id \in Ids : /\ Contains(Requests(ids), Request(id)) <=> Contains(ids, id)
                              /\ Unique(ids, id) => Unique(Requests(ids), Request(id))
                              /\ ~Contains(Requests(ids), Abandon(id))
  <1>1. DOMAIN ids = 1 .. Len(ids) /\ Len(ids) \in Nat /\ \A i \in 1 .. Len(ids) : ids[i] \in Ids
    OBVIOUS
  <1>2. \A i \in 1 .. Len(ids) : Requests(ids)[i] = Request(ids[i])
    BY <1>1 DEF Requests
  <1>3. Requests(ids) \in Seq(RawRequest) /\ Len(Requests(ids)) = Len(ids)
        /\ DOMAIN Requests(ids) = 1 .. Len(ids)
    <2>1. \A i \in 1 .. Len(ids) : Request(ids[i]) \in RawRequest
      BY <1>1, RequestIs
    <2> QED BY <1>1, <2>1 DEF Requests
  <1>4. ASSUME NEW id \in Ids
        PROVE  /\ Contains(Requests(ids), Request(id)) <=> Contains(ids, id)
               /\ Unique(ids, id) => Unique(Requests(ids), Request(id))
               /\ ~Contains(Requests(ids), Abandon(id))
    <2>1. \A i \in 1 .. Len(ids) : /\ Requests(ids)[i] = Request(id) <=> ids[i] = id
                                   /\ Requests(ids)[i] # Abandon(id)
      BY <1>1, <1>2, RequestsDiffer
    <2> QED BY <1>1, <1>3, <2>1 DEF Contains, Unique
  <1> QED BY <1>1, <1>2, <1>3, <1>4

LEMMA AbandonsFacts ==
    ASSUME NEW ids \in Seq(Ids)
    PROVE  /\ Abandons(ids) \in Seq(RawRequest)
           /\ \A id \in Ids : ~Contains(Abandons(ids), Request(id))
  <1>1. DOMAIN ids = 1 .. Len(ids) /\ Len(ids) \in Nat /\ \A i \in 1 .. Len(ids) : ids[i] \in Ids
    OBVIOUS
  <1>2. \A i \in 1 .. Len(ids) : Abandons(ids)[i] = Abandon(ids[i])
    BY <1>1 DEF Abandons
  <1>3. Abandons(ids) \in Seq(RawRequest) /\ Len(Abandons(ids)) = Len(ids)
    <2>1. \A i \in 1 .. Len(ids) : Abandon(ids[i]) \in RawRequest
      BY <1>1, RequestIs
    <2> QED BY <1>1, <2>1 DEF Abandons
  <1>4. ASSUME NEW id \in Ids, NEW i \in 1 .. Len(ids) PROVE Abandons(ids)[i] # Request(id)
    BY <1>1, <1>2, RequestsDiffer
  <1> QED BY <1>3, <1>4 DEF Contains

-----------------------------------------------------------------------------
(* Types, part by part *)

ClientIsTyped ==
    /\ clientState \in {"Uninitialized", "Idle"} /\ clientDisposed \in BOOLEAN
    /\ deferred \in Seq(Ids) /\ handlers \subseteq Ids /\ clientRequests \subseteq Ids
    /\ outcome \in [Calls -> {"none", "pending", "success", "error", "cancelled"}]
    /\ subscriptions \in Nat

RegistryIsTyped ==
    /\ serverDisposed \in BOOLEAN
    /\ early \subseteq channels /\ channels \subseteq Channels /\ flushing \subseteq channels
    /\ pendingRequests \in [Channels -> Seq([id : Ids, timerOff : BOOLEAN])]
    /\ \A ch \in Channels : \A i \in DOMAIN pendingRequests[ch] :
          ChannelOf[pendingRequests[ch][i].id] = ch
    /\ \A ch \in early : pendingRequests[ch] = <<>>
    /\ aborts \in [Channels -> Nat]
    /\ \A ch \in Channels : aborts[ch] > 0 => IsBlocked(ch)

ExecutionIsTyped ==
    /\ serverRequests \subseteq Ids
    /\ running \subseteq Calls \X (Nat \ {0}) /\ tokenCancelled \subseteq running
    /\ listeners \in [Events -> Nat]
    /\ called \in [Calls -> Nat]
    /\ unanswered \subseteq Calls
    /\ \A e \in Throwing : e \notin serverRequests /\ listeners[e] = 0
    /\ \A c \in Calls : \A n : <<c, n>> \in running => n \in 1 .. called[c]
    /\ \A e \in Events : e \in serverRequests => listeners[e] > 0

LinkIsTyped == toServer \in Seq(RawRequest) /\ toClient \in Seq(RawResponse)

LEMMA TypedParts == Typed <=> ClientIsTyped /\ RegistryIsTyped /\ ExecutionIsTyped /\ LinkIsTyped
  BY DEF Typed, TypeOK, ClientIsTyped, RegistryIsTyped, ExecutionIsTyped, LinkIsTyped

LEMMA TypedPartsNext ==
    Typed' <=> ClientIsTyped' /\ RegistryIsTyped' /\ ExecutionIsTyped' /\ LinkIsTyped'
  BY DEF Typed, TypeOK, ClientIsTyped, RegistryIsTyped, ExecutionIsTyped, LinkIsTyped

LEMMA ServerStaysTyped ==
    ASSUME RegistryIsTyped, ExecutionIsTyped, UNCHANGED serverVars
    PROVE  RegistryIsTyped' /\ ExecutionIsTyped'
  BY DEF RegistryIsTyped, ExecutionIsTyped, serverVars, registryVars, executionVars, IsBlocked,
     PendingIds

LEMMA ClientStaysTyped ==
    ASSUME ClientIsTyped, UNCHANGED clientVars PROVE ClientIsTyped'
  BY DEF ClientIsTyped, clientVars

LEMMA RegistryStaysTyped ==
    ASSUME RegistryIsTyped, UNCHANGED registryVars PROVE RegistryIsTyped'
  BY DEF RegistryIsTyped, registryVars, IsBlocked, PendingIds

LEMMA ExecutionStaysTyped ==
    ASSUME ExecutionIsTyped, UNCHANGED executionVars PROVE ExecutionIsTyped'
  BY DEF ExecutionIsTyped, executionVars

LEMMA HeadOfResponses ==
    ASSUME LinkIsTyped, NEW types, ReadByClient(types)
    PROVE  /\ Head(toClient) \in RawResponse /\ toClient' \in Seq(RawResponse)
           /\ toClient \in Seq(RawResponse) /\ toClient # <<>> /\ toClient' = Tail(toClient)
           /\ Head(toClient).type \in types
  BY DEF LinkIsTyped, ReadByClient

LEMMA HeadOfRequests ==
    ASSUME LinkIsTyped, NEW types, ReadByServer(types)
    PROVE  /\ Head(toServer) \in RawRequest /\ toServer' \in Seq(RawRequest)
           /\ toServer \in Seq(RawRequest) /\ toServer # <<>> /\ toServer' = Tail(toServer)
           /\ Head(toServer).type \in types
           /\ LinkIsTyped'
  BY DEF LinkIsTyped, ReadByServer

LEMMA CancelledAreFinite ==
    ASSUME clientRequests \subseteq Ids
    PROVE  SetToSeq(clientRequests \ ToSet(deferred)) \in Seq(Ids)
  <1> DEFINE ids == clientRequests \ ToSet(deferred)
  <1>1. IsFiniteSet(ids)
    BY FiniteAssumption, FS_Subset
  <1>2. SetToSeq(ids) \in Seq(ids)
    BY <1>1, SetToSeqFacts
  <1> QED BY <1>2

LEMMA OnlyIsTyped ==
    ASSUME ClientIsTyped, NEW kept PROVE Only(deferred, kept) \in Seq(Ids)
  BY OnlyFacts DEF ClientIsTyped

(* What of the deferred requests goes out when the client is initialized. *)
LEMMA SentFacts ==
    ASSUME ClientIsTyped, NEW failed, NEW sent, sent = Only(deferred, Ids \ failed)
    PROVE  /\ sent \in Seq(Ids)
           /\ \A id \in Ids : /\ Contains(sent, id) <=> IsDeferred(id) /\ id \notin failed
                              /\ id \in ToSet(sent) <=> IsDeferred(id) /\ id \notin failed
                              /\ Unique(deferred, id) => Unique(sent, id)
           /\ ToSet(sent) \subseteq Ids
           /\ \A id : id \in ToSet(deferred) <=> IsDeferred(id)
  <1>1. deferred \in Seq(Ids) /\ sent \in Seq(Ids)
    BY OnlyIsTyped DEF ClientIsTyped
  <1>2. \A id : /\ Contains(sent, id) <=> Contains(deferred, id) /\ id \in Ids \ failed
                /\ Unique(deferred, id) => Unique(sent, id)
    BY <1>1, OnlyFacts
  <1>3. ToSet(sent) \subseteq Ids
    BY <1>1 DEF ToSet
  <1> QED BY <1>1, <1>2, <1>3, ContainsIsMember DEF IsDeferred

LEMMA ClientTyped ==
    ASSUME Typed, ClientStep PROVE Typed'
  <1>0. ClientIsTyped /\ RegistryIsTyped /\ ExecutionIsTyped /\ LinkIsTyped
    BY TypedParts
  <1>1. UNCHANGED serverVars
    BY DEF ClientStep, Call, CancelCall, Subscribe, Unsubscribe, ClientDispose, Initialize,
       InitializeBut, ReceiveResponse, ReceiveEvent, ReadByClient
  <1>2. ASSUME ClientIsTyped', LinkIsTyped' PROVE Typed'
    BY <1>0, <1>1, <1>2, ServerStaysTyped, TypedPartsNext
  <1>3. ASSUME NEW id \in Ids PROVE id \in Calls <=> id \notin Events
    BY IdsAssumption DEF Ids
  <1>4. ASSUME NEW c \in Calls, Call(c) PROVE Typed'
    <2>1. c \in Ids /\ Request(c) \in RawRequest
      BY RequestIs DEF Ids
    <2>2. ClientIsTyped'
      BY <1>0, <1>4, <2>1 DEF Call, ClientIsTyped
    <2>3. LinkIsTyped'
      <3>1. /\ toServer' = toServer \/ toServer' = Append(toServer, Request(c))
            /\ toClient' = toClient
        BY <1>4 DEF Call
      <3> QED BY <1>0, <2>1, <3>1 DEF LinkIsTyped
    <2> QED BY <1>2, <2>2, <2>3
  <1>5. ASSUME NEW c \in Calls, CancelCall(c) PROVE Typed'
    <2>1. c \in Ids /\ Abandon(c) \in RawRequest
      BY RequestIs DEF Ids
    <2>2. deferred' \in Seq(Ids)
      BY <1>0, <1>5, OnlyIsTyped DEF CancelCall, ClientIsTyped
    <2>3. ClientIsTyped'
      BY <1>0, <1>5, <2>2 DEF CancelCall, ClientIsTyped
    <2>4. LinkIsTyped'
      BY <1>0, <1>5, <2>1 DEF CancelCall, LinkIsTyped
    <2> QED BY <1>2, <2>3, <2>4
  <1>6. ASSUME NEW e \in Events, Subscribe(e) PROVE Typed'
    <2>1. e \in Ids /\ Request(e) \in RawRequest
      BY RequestIs DEF Ids
    <2>2. ClientIsTyped'
      <3>1. /\ deferred' = deferred \/ deferred' = Append(deferred, e)
            /\ clientRequests' = clientRequests \/ clientRequests' = clientRequests \cup {e}
            /\ handlers' = handlers \cup {e} /\ subscriptions' = subscriptions + 1
            /\ UNCHANGED <<clientState, clientDisposed, outcome>>
        BY <1>6 DEF Subscribe
      <3>2. deferred' \in Seq(Ids) /\ clientRequests' \subseteq Ids /\ handlers' \subseteq Ids
        BY <1>0, <2>1, <3>1 DEF ClientIsTyped
      <3>3. subscriptions' \in Nat
        BY <1>0, <3>1 DEF ClientIsTyped
      <3> QED BY <1>0, <3>1, <3>2, <3>3 DEF ClientIsTyped
    <2>3. LinkIsTyped'
      <3>1. /\ toServer' = toServer \/ toServer' = Append(toServer, Request(e))
            /\ toClient' = toClient
        BY <1>6 DEF Subscribe
      <3> QED BY <1>0, <2>1, <3>1 DEF LinkIsTyped
    <2> QED BY <1>2, <2>2, <2>3
  <1>7. ASSUME NEW e \in Events, Unsubscribe(e) PROVE Typed'
    <2>1. e \in Ids /\ Abandon(e) \in RawRequest
      BY RequestIs DEF Ids
    <2>2. deferred' \in Seq(Ids)
      BY <1>0, <1>7, OnlyIsTyped DEF Unsubscribe, ClientIsTyped
    <2>3. ClientIsTyped'
      BY <1>0, <1>7, <2>2 DEF Unsubscribe, ClientIsTyped
    <2>4. LinkIsTyped'
      BY <1>0, <1>7, <2>1 DEF Unsubscribe, LinkIsTyped
    <2> QED BY <1>2, <2>3, <2>4
  <1>8. ASSUME ClientDispose PROVE Typed'
    <2>1. deferred' \in Seq(Ids)
      BY <1>0, <1>8, OnlyIsTyped DEF ClientDispose
    <2>2. ClientIsTyped'
      BY <1>0, <1>8, <2>1 DEF ClientDispose, ClientIsTyped
    <2>3. Abandons(SetToSeq(clientRequests \ ToSet(deferred))) \in Seq(RawRequest)
      BY <1>0, CancelledAreFinite, AbandonsFacts DEF ClientIsTyped
    <2>4. LinkIsTyped'
      BY <1>0, <1>8, <2>3, ConcatFacts DEF ClientDispose, LinkIsTyped
    <2> QED BY <1>2, <2>2, <2>4
  <1>9. ASSUME Initialize PROVE Typed'
    <2>0. PICK failed : InitializeBut(failed)
      BY <1>9 DEF Initialize
    <2>1. PICK sent : sent = Only(deferred, Ids \ failed)
      OBVIOUS
    <2>2. /\ ReadByClient({"Initialize"}) /\ clientState' = "Idle" /\ deferred' = <<>>
          /\ toServer' = toServer \o Requests(sent) /\ handlers' = handlers \cup ToSet(sent)
          /\ clientRequests' = (clientRequests \cup ToSet(sent)) \ failed
          /\ outcome' = [c \in Calls |-> IF c \in failed THEN "error" ELSE outcome[c]]
      BY <2>0, <2>1 DEF InitializeBut
    <2>3. sent \in Seq(Ids) /\ ToSet(sent) \subseteq Ids
      BY <1>0, <2>1, SentFacts
    <2>4. ClientIsTyped'
      BY <1>0, <2>2, <2>3 DEF ClientIsTyped, ReadByClient
    <2>5. LinkIsTyped'
      BY <1>0, <2>2, <2>3, HeadOfResponses, RequestsFacts, ConcatFacts DEF LinkIsTyped
    <2> QED BY <1>2, <2>4, <2>5
  <1>10. ASSUME ReceiveResponse PROVE Typed'
    <2>1. Head(toClient).id \in Calls /\ toClient' \in Seq(RawResponse)
      BY <1>0, <1>10, HeadOfResponses, MessageToClient DEF ReceiveResponse
    <2>2. ClientIsTyped'
      BY <1>0, <1>10, <2>1 DEF ReceiveResponse, ReadByClient, ClientIsTyped
    <2>3. LinkIsTyped'
      BY <1>0, <1>10, <2>1 DEF ReceiveResponse, LinkIsTyped
    <2> QED BY <1>2, <2>2, <2>3
  <1>11. ASSUME ReceiveEvent PROVE Typed'
    <2>1. ClientIsTyped'
      BY <1>0, <1>11 DEF ReceiveEvent, ReadByClient, ClientIsTyped
    <2>2. LinkIsTyped'
      BY <1>0, <1>11, HeadOfResponses DEF ReceiveEvent, LinkIsTyped
    <2> QED BY <1>2, <2>1, <2>2
  <1> QED BY <1>4, <1>5, <1>6, <1>7, <1>8, <1>9, <1>10, <1>11 DEF ClientStep

LEMMA NoneIsEmpty ==
    ASSUME NEW T, NEW seq \in Seq(T), DOMAIN seq = {} PROVE seq = <<>>
  <1>1. DOMAIN seq = 1 .. Len(seq) /\ Len(seq) \in Nat
    OBVIOUS
  <1>2. Len(seq) > 0 => 1 \in 1 .. Len(seq)
    BY <1>1
  <1>3. Len(seq) = 0
    BY <1>1, <1>2
  <1> QED BY <1>3

Waiting == [id : Ids, timerOff : BOOLEAN]

LEMMA PendingIdsFacts ==
    ASSUME RegistryIsTyped, NEW ch \in Channels
    PROVE  /\ PendingIds(ch) \in Seq(Ids)
           /\ Len(PendingIds(ch)) = Len(pendingRequests[ch])
           /\ \A i \in 1 .. Len(PendingIds(ch)) :
                 PendingIds(ch)[i] = pendingRequests[ch][i].id /\ ChannelOf[PendingIds(ch)[i]] = ch
           /\ \A id : Contains(PendingIds(ch), id) =>
                 ChannelOf[id] = ch /\ id \in Ids /\ ch \notin early
  <1>1. pendingRequests[ch] \in Seq(Waiting)
    BY DEF RegistryIsTyped, Waiting
  <1>2. /\ DOMAIN pendingRequests[ch] = 1 .. Len(pendingRequests[ch])
        /\ Len(pendingRequests[ch]) \in Nat
        /\ \A i \in 1 .. Len(pendingRequests[ch]) : pendingRequests[ch][i] \in Waiting
    BY <1>1
  <1>3. \A i \in 1 .. Len(pendingRequests[ch]) : pendingRequests[ch][i].id \in Ids
    BY <1>2 DEF Waiting
  <1>4. PendingIds(ch) \in Seq(Ids) /\ Len(PendingIds(ch)) = Len(pendingRequests[ch])
    BY <1>2, <1>3 DEF PendingIds
  <1>5. \A i \in 1 .. Len(PendingIds(ch)) :
            PendingIds(ch)[i] = pendingRequests[ch][i].id /\ ChannelOf[PendingIds(ch)[i]] = ch
    BY <1>2, <1>4 DEF PendingIds, RegistryIsTyped
  <1>6. ASSUME NEW id, Contains(PendingIds(ch), id)
        PROVE  ChannelOf[id] = ch /\ id \in Ids /\ ch \notin early
    <2>1. PICK i \in 1 .. Len(PendingIds(ch)) : PendingIds(ch)[i] = id
      BY <1>6 DEF Contains
    <2>2. ch \notin early
      BY <1>2, <1>4, <2>1 DEF RegistryIsTyped
    <2> QED BY <1>3, <1>4, <1>5, <2>1, <2>2
  <1> QED BY <1>4, <1>5, <1>6

LEMMA OccurrencesFacts ==
    ASSUME NEW ids \in Seq(Ids), NEW id
    PROVE  /\ Occurrences(id, ids) \in Nat
           /\ ~Contains(ids, id) => Occurrences(id, ids) = 0
           /\ Contains(ids, id) => Occurrences(id, ids) > 0
           /\ Contains(ids, id) /\ Unique(ids, id) => Occurrences(id, ids) = 1
  <1>1. PICK n : n = Cardinality({i \in DOMAIN ids : ids[i] = id})
    OBVIOUS
  <1> QED BY <1>1, CountFacts DEF Occurrences

(* A queue without the requests that are not reached. *)
LEMMA PrefixFacts ==
    ASSUME NEW T, NEW seq \in Seq(T), NEW k \in 1 .. Len(seq), NEW ran \in Seq(T),
           Len(ran) = k - 1, \A i \in 1 .. k - 1 : ran[i] = seq[i], NEW e
    PROVE  /\ Contains(ran, e) => Contains(seq, e)
           /\ Unique(seq, e) => Unique(ran, e)
  <1>1. Len(seq) \in Nat /\ k \in Nat /\ k - 1 \in 0 .. Len(seq) /\ DOMAIN seq = 1 .. Len(seq)
    OBVIOUS
  <1>2. ran \in Seq(T) /\ Len(ran) = k - 1 /\ \A i \in 1 .. k - 1 : ran[i] = seq[i]
    OBVIOUS
  <1>3. DOMAIN ran = 1 .. k - 1 /\ 1 .. k - 1 \subseteq 1 .. Len(seq)
    BY <1>1, <1>2
  <1>4. Contains(ran, e) => Contains(seq, e)
    BY <1>1, <1>2, <1>3 DEF Contains
  <1>5. Unique(seq, e) => Unique(ran, e)
    BY <1>1, <1>2, <1>3 DEF Unique
  <1> QED BY <1>2, <1>4, <1>5

(* What the server runs and listens to afterwards, one by one. *)
LEMMA ExecuteFacts ==
    ASSUME ExecutionIsTyped, NEW ids \in Seq(Ids), Execute(ids),
           \A e \in Throwing : ~Contains(ids, e)
    PROVE  /\ \A c \in Calls :
                 /\ called'[c] \in Nat /\ called'[c] >= called[c]
                 /\ \A n : <<c, n>> \in running' <=>
                             <<c, n>> \in running \/ n \in called[c] + 1 .. called'[c]
                 /\ ~Contains(ids, c) => called'[c] = called[c]
                 /\ Contains(ids, c) => called'[c] > called[c]
                 /\ Contains(ids, c) /\ Unique(ids, c) => called'[c] = called[c] + 1
           /\ \A e \in Events :
                 /\ listeners'[e] \in Nat /\ listeners'[e] >= listeners[e]
                 /\ ~Contains(ids, e) => listeners'[e] = listeners[e]
                 /\ Contains(ids, e) => listeners'[e] > listeners[e]
                 /\ Contains(ids, e) /\ Unique(ids, e) => listeners'[e] = listeners[e] + 1
           /\ \A id : id \in serverRequests' <=> id \in serverRequests \/ Contains(ids, id)
           /\ tokenCancelled' = tokenCancelled /\ unanswered' = unanswered
           /\ ExecutionIsTyped'
  <1>1. \A id : id \in ToSet(ids) <=> Contains(ids, id)
    BY ContainsIsMember
  <1>2. \A id : Contains(ids, id) => id \in Ids
    BY DEF Contains
  <1>3. ASSUME NEW c \in Calls
        PROVE  /\ called'[c] \in Nat /\ called'[c] >= called[c]
               /\ ~Contains(ids, c) => called'[c] = called[c]
               /\ Contains(ids, c) => called'[c] > called[c]
               /\ Contains(ids, c) /\ Unique(ids, c) => called'[c] = called[c] + 1
    <2>1. called'[c] = called[c] + Occurrences(c, ids) /\ called[c] \in Nat
      BY DEF Execute, ExecutionIsTyped
    <2> QED BY <2>1, OccurrencesFacts
  <1>4. ASSUME NEW e \in Events
        PROVE  /\ listeners'[e] \in Nat /\ listeners'[e] >= listeners[e]
               /\ ~Contains(ids, e) => listeners'[e] = listeners[e]
               /\ Contains(ids, e) => listeners'[e] > listeners[e]
               /\ Contains(ids, e) /\ Unique(ids, e) => listeners'[e] = listeners[e] + 1
    <2>1. listeners'[e] = listeners[e] + Occurrences(e, ids) /\ listeners[e] \in Nat
      BY DEF Execute, ExecutionIsTyped
    <2> QED BY <2>1, OccurrencesFacts
  <1>5. \A id : id \in serverRequests' <=> id \in serverRequests \/ Contains(ids, id)
    BY <1>1 DEF Execute
  <1>6. tokenCancelled' = tokenCancelled /\ unanswered' = unanswered
    BY DEF Execute
  <1>7. \A r : r \in running' <=>
            r \in running \/ \E c \in Calls : r \in {c} \X (called[c] + 1 .. called'[c])
    <2>1. \A c \in Calls : called'[c] = called[c] + Occurrences(c, ids)
      BY DEF Execute
    <2>2. running' = running \cup UNION {{c} \X (called[c] + 1 .. called'[c]) : c \in Calls}
      <3>1. {{c} \X (called[c] + 1 .. called[c] + Occurrences(c, ids)) : c \in Calls}
              = {{c} \X (called[c] + 1 .. called'[c]) : c \in Calls}
        BY <2>1
      <3> QED BY <3>1 DEF Execute
    <2> QED BY <2>2
  <1>8. ASSUME NEW c \in Calls, NEW n
        PROVE  <<c, n>> \in running' <=> <<c, n>> \in running \/ n \in called[c] + 1 .. called'[c]
    BY <1>7
  <1>9. ExecutionIsTyped'
    <2>1. running' \subseteq Calls \X (Nat \ {0})
      <3> SUFFICES ASSUME NEW r \in running' PROVE r \in Calls \X (Nat \ {0})
        OBVIOUS
      <3>1. CASE r \in running
        BY <3>1 DEF ExecutionIsTyped
      <3>2. ASSUME NEW c \in Calls, r \in {c} \X (called[c] + 1 .. called'[c])
            PROVE  r \in Calls \X (Nat \ {0})
        <4>1. called[c] \in Nat /\ called'[c] \in Nat
          BY <1>3 DEF ExecutionIsTyped
        <4>2. called[c] + 1 .. called'[c] \subseteq Nat \ {0}
          BY <4>1
        <4> QED BY <3>2, <4>2
      <3> QED BY <1>7, <3>1, <3>2
    <2>2. tokenCancelled' \subseteq running'
      BY <1>6, <1>7 DEF ExecutionIsTyped
    <2>3. serverRequests' \subseteq Ids
      BY <1>2, <1>5 DEF ExecutionIsTyped
    <2>4. called' \in [Calls -> Nat]
      <3>1. called' = [c \in Calls |-> called'[c]]
        BY DEF Execute
      <3> QED BY <1>3, <3>1
    <2>5. listeners' \in [Events -> Nat]
      <3>1. listeners' = [e \in Events |-> listeners'[e]]
        BY DEF Execute
      <3> QED BY <1>4, <3>1
    <2>6. \A e \in Events : e \in serverRequests' => listeners'[e] > 0
      <3>1. \A e \in Events : listeners[e] \in Nat
        BY DEF ExecutionIsTyped
      <3> QED BY <1>4, <1>5, <3>1 DEF ExecutionIsTyped
    <2>7. \A e \in Throwing : e \notin serverRequests' /\ listeners'[e] = 0
      BY <1>4, <1>5, IdsAssumption DEF ExecutionIsTyped
    <2>8. \A c \in Calls : \A n : <<c, n>> \in running' => n \in 1 .. called'[c]
      <3> SUFFICES ASSUME NEW c \in Calls, NEW n, <<c, n>> \in running' PROVE n \in 1 .. called'[c]
        OBVIOUS
      <3>1. called[c] \in Nat /\ called'[c] \in Nat /\ called'[c] >= called[c]
        BY <1>3 DEF ExecutionIsTyped
      <3>2. n \in 1 .. called[c] \/ n \in called[c] + 1 .. called'[c]
        BY <1>8 DEF ExecutionIsTyped
      <3> QED BY <3>1, <3>2
    <2> QED BY <1>6, <2>1, <2>2, <2>3, <2>4, <2>5, <2>6, <2>7, <2>8 DEF ExecutionIsTyped
  <1> QED BY <1>3, <1>4, <1>5, <1>6, <1>8, <1>9

(* The timer of a request changes that it has timed out, and no id. *)
LEMMA TimeoutFacts ==
    ASSUME RegistryIsTyped, NEW ch \in Channels, NEW i \in DOMAIN pendingRequests[ch],
           pendingRequests' = [pendingRequests EXCEPT ![ch][i].timerOff = TRUE]
    PROVE  /\ pendingRequests' \in [Channels -> Seq(Waiting)]
           /\ \A other \in Channels :
                 /\ DOMAIN pendingRequests'[other] = DOMAIN pendingRequests[other]
                 /\ \A j \in DOMAIN pendingRequests[other] :
                       /\ pendingRequests'[other][j].id = pendingRequests[other][j].id
                       /\ other # ch \/ i # j =>
                             pendingRequests'[other][j] = pendingRequests[other][j]
           /\ pendingRequests[ch][i].id \in Ids
  <1>1. pendingRequests \in [Channels -> Seq(Waiting)] /\ pendingRequests[ch] \in Seq(Waiting)
    BY DEF RegistryIsTyped, Waiting
  <1>2. pendingRequests[ch][i] \in Waiting
    BY <1>1
  <1>3. PICK timed : timed = [pendingRequests[ch][i] EXCEPT !.timerOff = TRUE]
    OBVIOUS
  <1>4. timed \in Waiting /\ timed.id = pendingRequests[ch][i].id /\ timed.id \in Ids
    BY <1>2, <1>3 DEF Waiting
  <1>5. PICK queue : queue = [pendingRequests[ch] EXCEPT ![i] = timed]
    OBVIOUS
  <1>6. /\ queue \in Seq(Waiting) /\ DOMAIN queue = DOMAIN pendingRequests[ch]
        /\ \A j \in DOMAIN queue : queue[j] = IF i = j THEN timed ELSE pendingRequests[ch][j]
    BY <1>1, <1>4, <1>5
  <1>7. pendingRequests' = [pendingRequests EXCEPT ![ch] = queue]
    BY <1>3, <1>5
  <1> QED BY <1>1, <1>4, <1>6, <1>7

(* What the server runs when it flushes a channel, and what is left in the  *)
(* queue: nothing, or everything, when a listen aborts the flush.           *)
FlushedAll(ch, ids) ==
    /\ ids = PendingIds(ch) /\ ~IsBlocked(ch)
    /\ aborts' = aborts
    /\ pendingRequests' = [pendingRequests EXCEPT ![ch] = <<>>]

FlushedUpTo(ch, ids) ==
    /\ IsBlocked(ch)
    /\ aborts' = [aborts EXCEPT ![ch] = @ + 1]
    /\ pendingRequests' \in [Channels -> Seq(Waiting)]
    /\ \A other \in Channels : DOMAIN pendingRequests'[other] = DOMAIN pendingRequests[other]
    /\ \A other \in Channels : \A i \in DOMAIN pendingRequests[other] :
          /\ pendingRequests'[other][i].id = pendingRequests[other][i].id
          /\ \/ pendingRequests'[other][i] = pendingRequests[other][i]
             \/ other = ch /\ pendingRequests[other][i].id \in Throwing
             \/ other = ch /\ Contains(ids, pendingRequests[other][i].id)

LEMMA FlushFacts ==
    ASSUME RegistryIsTyped, NEW ch \in Channels, FlushPendingRequests(ch)
    PROVE  \E ids \in Seq(Ids) :
              /\ Execute(ids)
              /\ \A e \in Throwing : ~Contains(ids, e)
              /\ \A id : Contains(ids, id) => Contains(PendingIds(ch), id)
              /\ \A id : Unique(PendingIds(ch), id) => Unique(ids, id)
              /\ FlushedAll(ch, ids) \/ FlushedUpTo(ch, ids)
  <1>0. /\ PendingIds(ch) \in Seq(Ids)
        /\ Len(PendingIds(ch)) = Len(pendingRequests[ch])
        /\ \A i \in 1 .. Len(PendingIds(ch)) : PendingIds(ch)[i] = pendingRequests[ch][i].id
    BY PendingIdsFacts
  <1>1. \A ids \in Seq(Ids) : \A id : id \in ToSet(ids) <=> Contains(ids, id)
    BY ContainsIsMember
  <1>2. CASE FlushAll(ch)
    <2>1. \A e \in Throwing : ~Contains(PendingIds(ch), e)
      BY <1>0, <1>1, <1>2 DEF FlushAll
    <2>2. FlushedAll(ch, PendingIds(ch))
      BY <1>2, <2>1 DEF FlushAll, FlushedAll, IsBlocked
    <2> QED BY <1>0, <1>2, <2>1, <2>2 DEF FlushAll
  <1>3. ASSUME NEW k \in DOMAIN pendingRequests[ch], FlushUpTo(ch, k)
        PROVE  \E ids \in Seq(Ids) :
                  /\ Execute(ids)
                  /\ \A e \in Throwing : ~Contains(ids, e)
                  /\ \A id : Contains(ids, id) => Contains(PendingIds(ch), id)
                  /\ \A id : Unique(PendingIds(ch), id) => Unique(ids, id)
                  /\ FlushedUpTo(ch, ids)
    <2>1. PICK queue \in Seq(Waiting) : queue = pendingRequests[ch]
      BY DEF RegistryIsTyped, Waiting
    <2>2. DOMAIN queue = 1 .. Len(queue) /\ Len(queue) \in Nat /\ k \in 1 .. Len(queue)
          /\ \A i \in 1 .. Len(queue) : queue[i] \in Waiting
      BY <1>3, <2>1
    <2>3. PICK names \in Seq(Ids) : names = PendingIds(ch)
      BY <1>0
    <2>4. Len(names) = Len(queue) /\ \A i \in 1 .. Len(queue) : names[i] = queue[i].id
      BY <1>0, <2>1, <2>3
    <2>5. PICK ran : ran = SubSeq(names, 1, k - 1)
      OBVIOUS
    <2>6. k \in 1 .. Len(names)
      BY <2>2, <2>4
    <2>7. /\ ran \in Seq(Ids) /\ Len(ran) = k - 1 /\ \A i \in 1 .. k - 1 : ran[i] = names[i]
          /\ \A e : Contains(ran, e) => Contains(names, e)
          /\ \A e : Unique(names, e) => Unique(ran, e)
      <3>1. ran \in Seq(Ids) /\ Len(ran) = k - 1
        BY <2>5, <2>6
      <3>2. \A i \in 1 .. k - 1 : ran[i] = names[i]
        BY <2>5, <2>6
      <3> QED BY <2>6, <3>1, <3>2, PrefixFacts
    <2>8. /\ names[k] \in Throwing /\ ToSet(ran) \cap Throwing = {} /\ Execute(ran)
          /\ pendingRequests' = [pendingRequests EXCEPT ![ch] = Cleared(@, k)]
          /\ aborts' = [aborts EXCEPT ![ch] = @ + 1]
      BY <1>3, <2>3, <2>5 DEF FlushUpTo
    <2>9. \A e \in Throwing : ~Contains(ran, e)
      BY <1>1, <2>7, <2>8
    <2>10. IsBlocked(ch)
      BY <2>3, <2>6, <2>8 DEF IsBlocked, Contains
    <2>11. PICK left : left = Cleared(queue, k)
      OBVIOUS
    <2>12. pendingRequests' = [pendingRequests EXCEPT ![ch] = left]
      BY <2>1, <2>8, <2>11
    <2>13. ASSUME NEW i \in 1 .. Len(queue)
           PROVE  /\ left[i] \in Waiting /\ left[i].id = queue[i].id
                  /\ left[i] = queue[i] \/ i <= k
      <3>1. queue[i] \in Waiting
        BY <2>2
      <3>2. left[i] = [queue[i] EXCEPT !.timerOff = @ \/ i <= k]
        BY <2>2, <2>11 DEF Cleared
      <3>3. left[i].id = queue[i].id
        BY <3>1, <3>2 DEF Waiting
      <3>4. left[i] \in Waiting
        <4>1. left[i] = [id |-> queue[i].id, timerOff |-> queue[i].timerOff \/ i <= k]
          BY <3>1, <3>2 DEF Waiting
        <4>2. (queue[i].timerOff \/ i <= k) \in BOOLEAN
          OBVIOUS
        <4>3. queue[i].id \in Ids
          BY <3>1 DEF Waiting
        <4> QED BY <4>1, <4>2, <4>3 DEF Waiting
      <3>5. left[i] = queue[i] \/ i <= k
        <4> SUFFICES ASSUME ~(i <= k) PROVE left[i] = queue[i]
          OBVIOUS
        <4>1. PICK r \in Waiting : r = queue[i]
          BY <3>1
        <4>2. (r.timerOff \/ i <= k) = r.timerOff
          BY <4>1 DEF Waiting
        <4>3. r = [id |-> r.id, timerOff |-> r.timerOff]
          BY DEF Waiting
        <4>4. left[i] = [id |-> r.id, timerOff |-> r.timerOff \/ i <= k]
          BY <3>2, <4>1 DEF Waiting
        <4> QED BY <4>1, <4>2, <4>3, <4>4
      <3> QED BY <3>3, <3>4, <3>5
    <2>14. left \in Seq(Waiting) /\ DOMAIN left = 1 .. Len(queue)
      BY <2>2, <2>11, <2>13 DEF Cleared
    <2>15. /\ pendingRequests \in [Channels -> Seq(Waiting)]
           /\ pendingRequests' \in [Channels -> Seq(Waiting)]
           /\ pendingRequests'[ch] = left
           /\ \A other \in Channels : other # ch => pendingRequests'[other] = pendingRequests[other]
      BY <2>12, <2>14 DEF RegistryIsTyped, Waiting
    <2>16. ASSUME NEW i \in 1 .. Len(queue), i <= k
           PROVE  queue[i].id \in Throwing \/ Contains(ran, queue[i].id)
      <3>1. CASE i = k
        BY <2>4, <2>8, <3>1
      <3>2. CASE i # k
        <4>1. i \in 1 .. k - 1
          BY <2>2, <2>16, <3>2
        <4> QED BY <2>4, <2>7, <4>1 DEF Contains
      <3> QED BY <3>1, <3>2
    <2>17. FlushedUpTo(ch, ran)
      <3>1. \A other \in Channels : DOMAIN pendingRequests'[other] = DOMAIN pendingRequests[other]
        BY <2>1, <2>2, <2>14, <2>15
      <3>2. ASSUME NEW other \in Channels, NEW i \in DOMAIN pendingRequests[other]
            PROVE  /\ pendingRequests'[other][i].id = pendingRequests[other][i].id
                   /\ \/ pendingRequests'[other][i] = pendingRequests[other][i]
                      \/ other = ch /\ pendingRequests[other][i].id \in Throwing
                      \/ other = ch /\ Contains(ran, pendingRequests[other][i].id)
        <4>1. CASE other # ch
          BY <2>15, <4>1
        <4>2. CASE other = ch
          <5>1. i \in 1 .. Len(queue) /\ pendingRequests[other] = queue
                /\ pendingRequests'[other] = left
            BY <2>1, <2>2, <2>15, <4>2
          <5> QED BY <2>13, <2>16, <4>2, <5>1
        <4> QED BY <4>1, <4>2
      <3> QED BY <2>8, <2>10, <2>15, <3>1, <3>2 DEF FlushedUpTo
    <2> QED BY <2>3, <2>7, <2>8, <2>9, <2>17
  <1> QED BY <1>2, <1>3 DEF FlushPendingRequests

LEMMA FlushKeepsRest ==
    ASSUME NEW ch, FlushPendingRequests(ch)
    PROVE  /\ UNCHANGED clientVars /\ UNCHANGED <<toServer, toClient>>
           /\ UNCHANGED <<serverDisposed, early, channels>> /\ flushing' \subseteq flushing
  BY DEF FlushPendingRequests, FlushAll, FlushUpTo

(* The ids that wait for a channel, one by one, when only timers change. *)
LEMMA SameIds ==
    ASSUME NEW ch, DOMAIN pendingRequests'[ch] = DOMAIN pendingRequests[ch],
           \A i \in DOMAIN pendingRequests[ch] :
               pendingRequests'[ch][i].id = pendingRequests[ch][i].id
    PROVE  PendingIds(ch)' = PendingIds(ch)
  BY DEF PendingIds

LEMMA SameBlocked ==
    ASSUME NEW ch, PendingIds(ch)' = PendingIds(ch)
    PROVE  IsBlocked(ch)' <=> IsBlocked(ch)
  BY DEF IsBlocked

LEMMA FlushedUpToIds ==
    ASSUME NEW ch, NEW ids, FlushedUpTo(ch, ids)
    PROVE  \A other \in Channels : PendingIds(other)' = PendingIds(other)
  BY SameIds DEF FlushedUpTo

LEMMA ServerTyped ==
    ASSUME Typed, ServerStep PROVE Typed'
  <1>0. ClientIsTyped /\ RegistryIsTyped /\ ExecutionIsTyped /\ LinkIsTyped
    BY TypedParts
  <1>1. UNCHANGED clientVars
    BY DEF ServerStep, PendingStep, ReceiveRequest, ReceiveTooEarly, ReceiveAbandon, Settle, Complete,
       Fire, RegisterChannel, FlushPendingRequests, FlushAll, FlushUpTo, PendingTimeout, ServerDispose,
       ReadByServer
  <1>2. ASSUME RegistryIsTyped', ExecutionIsTyped', LinkIsTyped' PROVE Typed'
    BY <1>0, <1>1, <1>2, ClientStaysTyped, TypedPartsNext
  <1>3. ASSUME NEW types, ReadByServer(types) PROVE Head(toServer).id \in Ids /\ LinkIsTyped'
    BY <1>0, <1>3, HeadOfRequests, MessageToServer
  <1>4. ASSUME ReceiveRequest PROVE Typed'
    <2>1. Head(toServer).id \in Ids /\ LinkIsTyped'
      BY <1>3, <1>4 DEF ReceiveRequest
    <2>2. <<Head(toServer).id>> \in Seq(Ids)
      BY <2>1
    <2>3. ExecutionIsTyped'
      <3>1. CASE Head(toServer).id \in Throwing
        BY <1>0, <1>4, <3>1, ExecutionStaysTyped DEF ReceiveRequest
      <3>2. CASE Head(toServer).id \notin Throwing
        <4>1. \A e \in Throwing : ~Contains(<<Head(toServer).id>>, e)
          BY <3>2 DEF Contains
        <4> QED BY <1>0, <1>4, <2>2, <3>2, <4>1, ExecuteFacts DEF ReceiveRequest
      <3> QED BY <3>1, <3>2
    <2>4. RegistryIsTyped'
      BY <1>0, <1>4, RegistryStaysTyped DEF ReceiveRequest
    <2> QED BY <1>2, <2>1, <2>3, <2>4
  <1>5. ASSUME ReceiveTooEarly PROVE Typed'
    <2>1. PICK id \in Ids : id = Head(toServer).id
      BY <1>3, <1>5 DEF ReceiveTooEarly
    <2>2. PICK r \in Waiting : r = [id |-> id, timerOff |-> FALSE]
      BY DEF Waiting
    <2>3. PICK ch \in Channels : ch = ChannelOf[id]
      BY ChannelsAssumption
    <2>4. /\ pendingRequests' = [pendingRequests EXCEPT ![ch] = Append(@, r)]
          /\ ch \notin channels /\ UNCHANGED <<serverDisposed, early, channels, flushing, aborts>>
      BY <1>5, <2>1, <2>2, <2>3 DEF ReceiveTooEarly
    <2>5. pendingRequests \in [Channels -> Seq(Waiting)]
      BY <1>0 DEF RegistryIsTyped, Waiting
    <2>6. pendingRequests' \in [Channels -> Seq(Waiting)]
      BY <2>2, <2>4, <2>5
    <2>7. \A other \in Channels : other # ch => pendingRequests'[other] = pendingRequests[other]
      BY <2>4, <2>5
    <2>8. \A i \in DOMAIN pendingRequests'[ch] : ChannelOf[pendingRequests'[ch][i].id] = ch
      <3>1. pendingRequests'[ch] = Append(pendingRequests[ch], r) /\ pendingRequests[ch] \in Seq(Waiting)
        BY <2>4, <2>5
      <3> SUFFICES ASSUME NEW i \in DOMAIN pendingRequests'[ch]
                   PROVE  ChannelOf[pendingRequests'[ch][i].id] = ch
        OBVIOUS
      <3>2. pendingRequests'[ch][i] = r \/ (i \in DOMAIN pendingRequests[ch]
                      /\ pendingRequests'[ch][i] = pendingRequests[ch][i])
        BY <2>2, <3>1
      <3>3. CASE pendingRequests'[ch][i] = r
        BY <2>2, <2>3, <3>3
      <3>4. CASE i \in DOMAIN pendingRequests[ch] /\ pendingRequests'[ch][i] = pendingRequests[ch][i]
        BY <1>0, <3>4 DEF RegistryIsTyped
      <3> QED BY <3>2, <3>3, <3>4
    <2>9. RegistryIsTyped'
      <3>1. ASSUME NEW other \in Channels, aborts'[other] > 0 PROVE IsBlocked(other)'
        <4>1. IsBlocked(other)
          BY <1>0, <2>4, <3>1 DEF RegistryIsTyped
        <4>2. CASE other # ch
          <5>1. PendingIds(other)' = PendingIds(other)
            BY <2>7, <4>2 DEF PendingIds
          <5> QED BY <4>1, <5>1, SameBlocked
        <4>3. CASE other = ch
          <5>1. PICK queue \in Seq(Waiting) : queue = pendingRequests[ch]
            BY <2>5
          <5>2. pendingRequests'[ch] = Append(queue, r)
            BY <2>4, <2>5, <5>1
          <5>3. /\ PendingIds(ch) = [i \in DOMAIN queue |-> queue[i].id]
                /\ PendingIds(ch)' = [i \in DOMAIN Append(queue, r) |-> Append(queue, r)[i].id]
            BY <5>1, <5>2 DEF PendingIds
          <5>4. /\ DOMAIN queue = 1 .. Len(queue) /\ Len(queue) \in Nat
                /\ DOMAIN Append(queue, r) = 1 .. Len(queue) + 1
                /\ \A i \in 1 .. Len(queue) : Append(queue, r)[i] = queue[i]
            BY <2>2, <5>1
          <5>5. PICK e \in Throwing : Contains(PendingIds(ch), e)
            BY <4>1, <4>3 DEF IsBlocked
          <5>6. PICK i \in 1 .. Len(queue) : queue[i].id = e
            <6>1. PICK i \in 1 .. Len(PendingIds(ch)) : PendingIds(ch)[i] = e
              BY <5>5 DEF Contains
            <6>2. PendingIds(ch) \in Seq(Ids) /\ Len(PendingIds(ch)) = Len(queue)
              BY <1>0, <5>1, PendingIdsFacts
            <6> QED BY <5>3, <5>4, <6>1, <6>2
          <5>7. \A j \in 1 .. Len(queue) + 1 : Append(queue, r)[j].id \in Ids
            <6>1. Append(queue, r) \in Seq(Waiting)
              BY <2>2, <5>1
            <6>2. \A j \in 1 .. Len(queue) + 1 : Append(queue, r)[j] \in Waiting
              BY <5>4, <6>1
            <6> QED BY <6>2 DEF Waiting
          <5>8. PICK more : more = PendingIds(ch)'
            OBVIOUS
          <5>9. more \in Seq(Ids) /\ Len(more) = Len(queue) + 1 /\ more[i] = e
            BY <5>3, <5>4, <5>6, <5>7, <5>8
          <5>10. Contains(more, e)
            <6>1. i \in 1 .. Len(more)
              BY <5>4, <5>6, <5>9
            <6> QED BY <5>9, <6>1 DEF Contains
          <5> QED BY <4>3, <5>8, <5>10 DEF IsBlocked
        <4> QED BY <4>2, <4>3
      <3>2. /\ serverDisposed' \in BOOLEAN /\ early' \subseteq channels'
            /\ channels' \subseteq Channels /\ flushing' \subseteq channels'
            /\ aborts' \in [Channels -> Nat]
        BY <1>0, <2>4 DEF RegistryIsTyped
      <3>3. \A other \in Channels : \A i \in DOMAIN pendingRequests'[other] :
                ChannelOf[pendingRequests'[other][i].id] = other
        BY <1>0, <2>7, <2>8 DEF RegistryIsTyped
      <3>4. \A other \in early' : pendingRequests'[other] = <<>>
        BY <1>0, <2>4, <2>7 DEF RegistryIsTyped
      <3> QED BY <2>6, <3>1, <3>2, <3>3, <3>4 DEF RegistryIsTyped, Waiting
    <2>10. ExecutionIsTyped'
      BY <1>0, <1>5, ExecutionStaysTyped DEF ReceiveTooEarly
    <2> QED BY <1>2, <1>3, <1>5, <2>9, <2>10 DEF ReceiveTooEarly
  <1>6. ASSUME ReceiveAbandon PROVE Typed'
    <2>1. PICK id \in Ids : id = Head(toServer).id
      BY <1>3, <1>6 DEF ReceiveAbandon
    <2>2. /\ UNCHANGED <<running, called, unanswered>> /\ UNCHANGED registryVars
          /\ \/ /\ id \in serverRequests /\ serverRequests' = serverRequests \ {id}
                /\ tokenCancelled' = tokenCancelled \cup LatestRuns({id})
                /\ listeners' = [e \in Events |-> IF e = id THEN listeners[e] - 1 ELSE listeners[e]]
             \/ UNCHANGED <<serverRequests, tokenCancelled, listeners>>
      BY <1>6, <2>1 DEF ReceiveAbandon
    <2>3. ExecutionIsTyped'
      <3>1. LatestRuns({id}) \subseteq running
        BY DEF LatestRuns
      <3>2. /\ serverRequests' \subseteq serverRequests
            /\ tokenCancelled' = tokenCancelled \/ tokenCancelled' = tokenCancelled \cup LatestRuns({id})
            /\ running' = running /\ called' = called /\ unanswered' = unanswered
            /\ \/ listeners' = listeners
               \/ /\ id \in serverRequests /\ id \notin serverRequests'
                  /\ listeners' = [e \in Events |-> IF e = id THEN listeners[e] - 1 ELSE listeners[e]]
        BY <2>2
      <3>3. /\ listeners' \in [Events -> Nat]
            /\ \A e \in Throwing : e \notin serverRequests' /\ listeners'[e] = 0
            /\ \A e \in Events : e \in serverRequests' => listeners'[e] > 0
        BY <1>0, <3>2, IdsAssumption DEF ExecutionIsTyped
      <3>4. tokenCancelled' \subseteq running'
        BY <1>0, <3>1, <3>2 DEF ExecutionIsTyped
      <3> QED BY <1>0, <3>2, <3>3, <3>4 DEF ExecutionIsTyped
    <2>4. RegistryIsTyped'
      BY <1>0, <2>2, RegistryStaysTyped
    <2> QED BY <1>2, <1>3, <1>6, <2>3, <2>4 DEF ReceiveAbandon
  <1>7. ASSUME NEW c \in Calls, NEW n, Complete(c, n) PROVE Typed'
    <2>1. ExecutionIsTyped'
      BY <1>0, <1>7 DEF Complete, ExecutionIsTyped
    <2>2. RegistryIsTyped'
      BY <1>0, <1>7, RegistryStaysTyped DEF Complete
    <2>3. LinkIsTyped'
      <3>1. toClient' = toClient \/ \E m \in RawResponse : toClient' = Append(toClient, m)
        BY <1>7, Responses DEF Complete
      <3> QED BY <1>0, <1>7, <3>1 DEF Complete, LinkIsTyped
    <2> QED BY <1>2, <2>1, <2>2, <2>3
  <1>8. ASSUME NEW e \in Events, Fire(e) PROVE Typed'
    <2>1. PICK fires : fires = [i \in 1 .. listeners[e] |-> Message("EventFire", e)]
      OBVIOUS
    <2>2. fires \in Seq(RawResponse)
      BY <1>0, <2>1, Responses DEF ExecutionIsTyped
    <2>3. LinkIsTyped'
      BY <1>0, <1>8, <2>1, <2>2, ConcatFacts DEF Fire, LinkIsTyped
    <2>4. UNCHANGED serverVars
      BY <1>8 DEF Fire
    <2> QED BY <1>0, <1>2, <2>3, <2>4, ServerStaysTyped
  <1>9. ASSUME NEW ch \in Channels, RegisterChannel(ch) PROVE Typed'
    <2>1. RegistryIsTyped'
      <3>1. \A other \in Channels : IsBlocked(other)' <=> IsBlocked(other)
        BY <1>9 DEF RegisterChannel, IsBlocked, PendingIds
      <3> QED BY <1>0, <1>9, <3>1 DEF RegisterChannel, RegistryIsTyped
    <2>2. ExecutionIsTyped' /\ LinkIsTyped'
      BY <1>0, <1>9, ExecutionStaysTyped DEF RegisterChannel, LinkIsTyped
    <2> QED BY <1>2, <2>1, <2>2
  <1>10. ASSUME NEW ch \in Channels, FlushPendingRequests(ch) PROVE Typed'
    <2>1. PICK ids \in Seq(Ids) :
              /\ Execute(ids) /\ \A e \in Throwing : ~Contains(ids, e)
              /\ FlushedAll(ch, ids) \/ FlushedUpTo(ch, ids)
      BY <1>0, <1>10, FlushFacts
    <2>2. ExecutionIsTyped'
      BY <1>0, <2>1, ExecuteFacts
    <2>3. /\ UNCHANGED <<toServer, toClient>>
          /\ UNCHANGED <<serverDisposed, early, channels>> /\ flushing' \subseteq flushing
      BY <1>10, FlushKeepsRest
    <2>4. pendingRequests \in [Channels -> Seq(Waiting)] /\ aborts \in [Channels -> Nat]
      BY <1>0 DEF RegistryIsTyped, Waiting
    <2>5. ASSUME pendingRequests' \in [Channels -> Seq(Waiting)], aborts' \in [Channels -> Nat],
                 \A other \in Channels : \A i \in DOMAIN pendingRequests'[other] :
                     ChannelOf[pendingRequests'[other][i].id] = other,
                 \A other \in early : pendingRequests'[other] = <<>>,
                 \A other \in Channels : aborts'[other] > 0 => IsBlocked(other)'
          PROVE  RegistryIsTyped'
      <3>1. /\ serverDisposed' \in BOOLEAN /\ early' \subseteq channels' /\ early' = early
            /\ channels' \subseteq Channels /\ flushing' \subseteq channels'
        BY <1>0, <2>3 DEF RegistryIsTyped
      <3> QED BY <2>5, <3>1 DEF RegistryIsTyped, Waiting
    <2>6. ASSUME FlushedAll(ch, ids) PROVE RegistryIsTyped'
      <3>1. <<>> \in Seq(Waiting) /\ DOMAIN <<>> = {}
        OBVIOUS
      <3>2. /\ pendingRequests' \in [Channels -> Seq(Waiting)]
            /\ \A other \in Channels : pendingRequests'[other] = IF other = ch THEN <<>>
                                                                 ELSE pendingRequests[other]
        BY <2>4, <2>6, <3>1 DEF FlushedAll
      <3>3. \A other \in Channels : \A i \in DOMAIN pendingRequests'[other] :
                ChannelOf[pendingRequests'[other][i].id] = other
        BY <1>0, <3>1, <3>2 DEF RegistryIsTyped
      <3>4. \A other \in early : pendingRequests'[other] = <<>>
        BY <1>0, <3>2 DEF RegistryIsTyped
      <3>5. ASSUME NEW other \in Channels, aborts'[other] > 0 PROVE IsBlocked(other)'
        <4>1. IsBlocked(other) /\ other # ch
          BY <1>0, <2>6, <3>5 DEF FlushedAll, RegistryIsTyped
        <4>2. PendingIds(other)' = PendingIds(other)
          BY <3>2, <4>1 DEF PendingIds
        <4> QED BY <4>1, <4>2, SameBlocked
      <3>6. aborts' \in [Channels -> Nat]
        BY <2>4, <2>6 DEF FlushedAll
      <3> QED BY <2>5, <3>2, <3>3, <3>4, <3>5, <3>6
    <2>7. ASSUME FlushedUpTo(ch, ids) PROVE RegistryIsTyped'
      <3>1. \A other \in Channels : PendingIds(other)' = PendingIds(other)
        BY <2>7, FlushedUpToIds
      <3>2. aborts' \in [Channels -> Nat]
        BY <2>4, <2>7 DEF FlushedUpTo
      <3>3. ASSUME NEW other \in Channels, aborts'[other] > 0 PROVE IsBlocked(other)'
        <4>1. IsBlocked(other)
          BY <1>0, <2>4, <2>7, <3>3 DEF FlushedUpTo, RegistryIsTyped
        <4> QED BY <3>1, <4>1, SameBlocked
      <3>4. \A other \in Channels : \A i \in DOMAIN pendingRequests'[other] :
                ChannelOf[pendingRequests'[other][i].id] = other
        BY <1>0, <2>7 DEF FlushedUpTo, RegistryIsTyped
      <3>5. ASSUME NEW other \in early PROVE pendingRequests'[other] = <<>>
        <4>1. other \in Channels /\ pendingRequests[other] = <<>>
          BY <1>0 DEF RegistryIsTyped
        <4>2. DOMAIN pendingRequests'[other] = {} /\ pendingRequests'[other] \in Seq(Waiting)
          BY <2>7, <4>1 DEF FlushedUpTo
        <4> QED BY <4>2, NoneIsEmpty
      <3>6. pendingRequests' \in [Channels -> Seq(Waiting)]
        BY <2>7 DEF FlushedUpTo
      <3> QED BY <2>5, <3>2, <3>3, <3>4, <3>5, <3>6
    <2>8. RegistryIsTyped'
      BY <2>1, <2>6, <2>7
    <2>9. LinkIsTyped'
      BY <1>0, <2>3 DEF LinkIsTyped
    <2> QED BY <1>2, <2>2, <2>8, <2>9
  <1>11. ASSUME NEW ch \in Channels, NEW i \in DOMAIN pendingRequests[ch], PendingTimeout(ch, i)
         PROVE  Typed'
    <2>1. /\ pendingRequests' = [pendingRequests EXCEPT ![ch][i].timerOff = TRUE]
          /\ UNCHANGED executionVars
          /\ UNCHANGED <<serverDisposed, early, channels, flushing, aborts, toServer>>
      BY <1>11 DEF PendingTimeout
    <2>2. /\ pendingRequests' \in [Channels -> Seq(Waiting)]
          /\ \A other \in Channels :
                /\ DOMAIN pendingRequests'[other] = DOMAIN pendingRequests[other]
                /\ \A j \in DOMAIN pendingRequests[other] :
                      pendingRequests'[other][j].id = pendingRequests[other][j].id
      BY <1>0, <2>1, TimeoutFacts
    <2>3. \A other \in early : pendingRequests'[other] = <<>>
      <3>1. ASSUME NEW other \in early PROVE pendingRequests'[other] = <<>>
        <4>1. other \in Channels /\ pendingRequests[other] = <<>>
          BY <1>0, <2>1 DEF RegistryIsTyped
        <4>2. DOMAIN pendingRequests'[other] = DOMAIN pendingRequests[other]
              /\ pendingRequests'[other] \in Seq(Waiting)
          BY <2>2, <4>1
        <4>3. DOMAIN pendingRequests'[other] = {}
          BY <4>1, <4>2
        <4> QED BY <4>2, <4>3, NoneIsEmpty
      <3> QED BY <3>1
    <2>4. RegistryIsTyped'
      <3>1. \A other \in Channels : \A j \in DOMAIN pendingRequests'[other] :
                ChannelOf[pendingRequests'[other][j].id] = other
        BY <1>0, <2>2 DEF RegistryIsTyped
      <3>2. /\ serverDisposed' \in BOOLEAN /\ early' \subseteq channels'
            /\ channels' \subseteq Channels /\ flushing' \subseteq channels' /\ early' = early
            /\ aborts' \in [Channels -> Nat]
        BY <1>0, <2>1 DEF RegistryIsTyped
      <3>3. \A other \in Channels : aborts'[other] > 0 => IsBlocked(other)'
        BY <1>0, <2>1, <2>2, SameIds, SameBlocked DEF RegistryIsTyped
      <3> QED BY <2>2, <2>3, <3>1, <3>2, <3>3 DEF RegistryIsTyped, Waiting
    <2>5. ExecutionIsTyped'
      BY <1>0, <2>1, ExecutionStaysTyped
    <2>6. LinkIsTyped'
      <3>1. \/ toClient' = toClient
            \/ /\ pendingRequests[ch][i].id \in Calls
               /\ toClient' = Append(toClient, Message("PromiseError", pendingRequests[ch][i].id))
        BY <1>11 DEF PendingTimeout
      <3>2. toClient' \in Seq(RawResponse)
        BY <1>0, <3>1, Responses DEF LinkIsTyped
      <3> QED BY <1>0, <2>1, <3>2 DEF LinkIsTyped
    <2> QED BY <1>2, <2>4, <2>5, <2>6
  <1>12. ASSUME ServerDispose PROVE Typed'
    <2>1. ExecutionIsTyped'
      <3>1. LatestRuns(serverRequests) \subseteq running
        BY DEF LatestRuns
      <3> QED BY <1>0, <1>12, <3>1, IdsAssumption DEF ServerDispose, ExecutionIsTyped
    <2>2. RegistryIsTyped' /\ LinkIsTyped'
      <3>1. \A other \in Channels : IsBlocked(other)' <=> IsBlocked(other)
        BY <1>12 DEF ServerDispose, IsBlocked, PendingIds
      <3> QED BY <1>0, <1>12, <3>1 DEF ServerDispose, RegistryIsTyped, LinkIsTyped
    <2> QED BY <1>2, <2>1, <2>2
  <1> QED BY <1>4, <1>5, <1>6, <1>7, <1>8, <1>9, <1>10, <1>11, <1>12
     DEF ServerStep, PendingStep, Settle

LEMMA TypedInitially == Init => Typed
  <1> SUFFICES ASSUME Init PROVE Typed
    OBVIOUS
  <1>0. <<>> \in Seq(Ids) /\ <<>> \in Seq(Waiting) /\ DOMAIN <<>> = {}
    OBVIOUS
  <1>1. ClientIsTyped
    BY <1>0 DEF Init, ClientIsTyped
  <1>2. RegistryIsTyped
    <2>1. /\ pendingRequests = [ch \in Channels |-> <<>>] /\ aborts = [ch \in Channels |-> 0]
          /\ early \subseteq Channels /\ channels = early /\ flushing = {} /\ serverDisposed = FALSE
      BY DEF Init
    <2>2. \A ch \in Channels : ~(aborts[ch] > 0)
      BY <2>1
    <2>3. /\ pendingRequests \in [Channels -> Seq(Waiting)]
          /\ \A ch \in Channels : pendingRequests[ch] = <<>>
      BY <1>0, <2>1
    <2>4. \A ch \in Channels : \A i \in DOMAIN pendingRequests[ch] :
             ChannelOf[pendingRequests[ch][i].id] = ch
      BY <1>0, <2>3
    <2> QED BY <2>1, <2>2, <2>3, <2>4 DEF RegistryIsTyped, Waiting
  <1>3. ExecutionIsTyped
    <2>1. /\ serverRequests = {} /\ running = {} /\ tokenCancelled = {} /\ unanswered = {}
          /\ listeners = [e \in Events |-> 0] /\ called = [c \in Calls |-> 0]
      BY DEF Init
    <2>2. \A e \in Throwing : listeners[e] = 0
      BY <2>1, IdsAssumption
    <2> QED BY <2>1, <2>2 DEF ExecutionIsTyped
  <1>4. LinkIsTyped
    <2>1. PICK m \in RawResponse : m = Message("Initialize", NoId)
      BY Responses
    <2> QED BY <2>1 DEF Init, LinkIsTyped
  <1> QED BY <1>1, <1>2, <1>3, <1>4, TypedParts

LEMMA StutterIsTyped ==
    ASSUME Typed, UNCHANGED vars PROVE Typed'
  <1>1. UNCHANGED clientVars /\ UNCHANGED serverVars /\ UNCHANGED <<toServer, toClient>>
    BY DEF vars
  <1>2. LinkIsTyped'
    BY <1>1, TypedParts DEF LinkIsTyped
  <1> QED BY <1>1, <1>2, TypedParts, TypedPartsNext, ClientStaysTyped, ServerStaysTyped

LEMMA NextIsTyped ==
    ASSUME Typed, [Next]_vars PROVE Typed'
  BY ClientTyped, ServerTyped, StutterIsTyped DEF Next

-----------------------------------------------------------------------------
(* Where a request is after a step *)

LEMMA IdKinds == \A id \in Ids : id \in Calls <=> id \notin Events
  BY IdsAssumption DEF Ids

LEMMA DeferMore ==
    ASSUME ClientIsTyped, NEW id \in Ids, deferred' = Append(deferred, id), NEW k
    PROVE  /\ IsDeferred(k)' <=> IsDeferred(k) \/ k = id
           /\ Unique(deferred, k) /\ (k = id => ~IsDeferred(k)) => Unique(deferred', k)
  BY ContainsAppend, UniqueAppend DEF ClientIsTyped, IsDeferred

LEMMA DeferLess ==
    ASSUME ClientIsTyped, NEW kept, deferred' = Only(deferred, kept), NEW k
    PROVE  /\ IsDeferred(k)' <=> IsDeferred(k) /\ k \in kept
           /\ Unique(deferred, k) => Unique(deferred', k)
  BY OnlyFacts DEF ClientIsTyped, IsDeferred

LEMMA SendMore ==
    ASSUME LinkIsTyped, NEW m \in RawRequest, toServer' = Append(toServer, m), NEW k \in Ids
    PROVE  /\ IsSent(k)' <=> IsSent(k) \/ m = Request(k)
           /\ Unique(toServer, Request(k)) /\ (m = Request(k) => ~IsSent(k)) =>
                 Unique(toServer', Request(k))
  <1>1. PICK r : r = Request(k)
    OBVIOUS
  <1>2. toServer \in Seq(RawRequest)
    BY DEF LinkIsTyped
  <1>3. Contains(toServer', r) <=> Contains(toServer, r) \/ r = m
    BY <1>2, ContainsAppend
  <1>4. Unique(toServer, r) /\ (r = m => ~Contains(toServer, r)) => Unique(toServer', r)
    BY <1>2, UniqueAppend
  <1> QED BY <1>1, <1>3, <1>4 DEF IsSent

LEMMA SendAll ==
    ASSUME LinkIsTyped, NEW ms \in Seq(RawRequest), toServer' = toServer \o ms, NEW k \in Ids
    PROVE  /\ IsSent(k)' <=> IsSent(k) \/ Contains(ms, Request(k))
           /\ /\ Unique(toServer, Request(k)) /\ Unique(ms, Request(k))
              /\ ~(IsSent(k) /\ Contains(ms, Request(k)))
              => Unique(toServer', Request(k))
  <1>1. PICK r : r = Request(k)
    OBVIOUS
  <1>2. toServer \in Seq(RawRequest)
    BY DEF LinkIsTyped
  <1>3. Contains(toServer', r) <=> Contains(toServer, r) \/ Contains(ms, r)
    BY <1>2, ContainsConcat
  <1>4. Unique(toServer, r) /\ Unique(ms, r) /\ ~(Contains(toServer, r) /\ Contains(ms, r)) =>
            Unique(toServer', r)
    BY <1>2, UniqueConcat
  <1> QED BY <1>1, <1>3, <1>4 DEF IsSent

LEMMA ReadOne ==
    ASSUME LinkIsTyped, NEW types, ReadByServer(types), NEW k \in Ids
    PROVE  /\ IsSent(k) <=> Request(k) = Head(toServer) \/ IsSent(k)'
           /\ Unique(toServer, Request(k)) =>
                 Unique(toServer', Request(k)) /\ (Request(k) = Head(toServer) => ~IsSent(k)')
  <1>1. PICK r : r = Request(k)
    OBVIOUS
  <1>2. toServer \in Seq(RawRequest) /\ toServer # <<>> /\ toServer' = Tail(toServer)
    BY HeadOfRequests
  <1>3. Contains(toServer, r) <=> r = Head(toServer) \/ Contains(toServer', r)
    BY <1>2, ContainsTail
  <1>4. Unique(toServer, r) => Unique(toServer', r) /\ (r = Head(toServer) => ~Contains(toServer', r))
    BY <1>2, UniqueTail
  <1> QED BY <1>1, <1>3, <1>4 DEF IsSent

(* The request that the server reads, if it is one. *)
LEMMA HeadIs ==
    ASSUME LinkIsTyped, NEW types, ReadByServer(types)
    PROVE  /\ Head(toServer).id \in Ids
           /\ types = {"Promise", "EventListen"} => Head(toServer) = Request(Head(toServer).id)
           /\ types = {"PromiseCancel", "EventDispose"} => Head(toServer) = Abandon(Head(toServer).id)
  BY HeadOfRequests, MessageToServer

LEMMA AnswerMore ==
    ASSUME LinkIsTyped, NEW m \in RawResponse, toClient' = Append(toClient, m), NEW k
    PROVE  IsFulfilled(k)' <=> IsFulfilled(k) \/ m = Message("PromiseSuccess", k)
  <1>1. PICK r : r = Message("PromiseSuccess", k)
    OBVIOUS
  <1>2. Contains(toClient', r) <=> Contains(toClient, r) \/ r = m
    BY ContainsAppend DEF LinkIsTyped
  <1> QED BY <1>1, <1>2 DEF IsFulfilled

LEMMA AnswerLess ==
    ASSUME LinkIsTyped, NEW types, ReadByClient(types), NEW k
    PROVE  IsFulfilled(k) <=> Message("PromiseSuccess", k) = Head(toClient) \/ IsFulfilled(k)'
  <1>1. PICK r : r = Message("PromiseSuccess", k)
    OBVIOUS
  <1>2. toClient \in Seq(RawResponse) /\ toClient # <<>> /\ toClient' = Tail(toClient)
    BY HeadOfResponses
  <1>3. Contains(toClient, r) <=> r = Head(toClient) \/ Contains(toClient', r)
    BY <1>2, ContainsTail
  <1> QED BY <1>1, <1>3 DEF IsFulfilled

LEMMA ServerKeeps ==
    ASSUME UNCHANGED serverVars, NEW k
    PROVE  /\ Waits(k)' <=> Waits(k)
           /\ PendingIds(ChannelOf[k])' = PendingIds(ChannelOf[k])
           /\ called' = called /\ running' = running /\ serverDisposed' = serverDisposed
           /\ pendingRequests' = pendingRequests /\ tokenCancelled' = tokenCancelled
           /\ serverRequests' = serverRequests /\ listeners' = listeners /\ early' = early
           /\ aborts' = aborts /\ unanswered' = unanswered
  BY DEF serverVars, registryVars, executionVars, Waits, PendingIds

LEMMA ClientKeeps ==
    ASSUME UNCHANGED clientVars, NEW k
    PROVE  /\ IsDeferred(k)' <=> IsDeferred(k)
           /\ deferred' = deferred /\ outcome' = outcome /\ handlers' = handlers
           /\ clientRequests' = clientRequests /\ clientDisposed' = clientDisposed
  BY DEF clientVars, IsDeferred

-----------------------------------------------------------------------------
(* A command runs at most once *)

(* IsOnce and IsEarned of one call, step by step. *)
LEMMA CallKeepsOnce ==
    ASSUME Typed, NEW k \in Calls, IsOnce(k), IsEarned(k), NEW c \in Calls, Call(c)
    PROVE  IsOnce(k)' /\ IsEarned(k)'
  <1>0. ClientIsTyped /\ LinkIsTyped /\ c \in Ids /\ k \in Ids
    BY TypedParts DEF Ids
  <1>1. UNCHANGED serverVars /\ toClient' = toClient /\ outcome[c] = "none"
    BY DEF Call
  <1>2. outcome' \in [Calls -> {"none", "pending", "success", "error", "cancelled"}]
        /\ (k # c => outcome'[k] = outcome[k]) /\ outcome'[c] \in {"pending", "error"}
    BY <1>0 DEF Call, ClientIsTyped
  <1>3. /\ Waits(k)' <=> Waits(k)
        /\ PendingIds(ChannelOf[k])' = PendingIds(ChannelOf[k])
        /\ called' = called /\ running' = running /\ aborts' = aborts
    BY <1>1, ServerKeeps
  <1>4. IsFulfilled(k)' <=> IsFulfilled(k)
    BY <1>1 DEF IsFulfilled
  <1>5. IsEarned(k)'
    BY <1>2, <1>3, <1>4 DEF IsEarned, HasEnded
  <1>6. CASE clientState = "Uninitialized"
    <2>1. deferred' = Append(deferred, c) /\ handlers' = handlers /\ toServer' = toServer
          /\ outcome'[c] = "pending"
      BY <1>0, <1>6 DEF Call, ClientIsTyped
    <2>2. /\ IsDeferred(k)' <=> IsDeferred(k) \/ k = c
          /\ Unique(deferred, k) /\ (k = c => ~IsDeferred(k)) => Unique(deferred', k)
      BY <1>0, <2>1, DeferMore
    <2>3. IsSent(k)' <=> IsSent(k)
      BY <2>1 DEF IsSent
    <2> QED BY <1>1, <1>2, <1>3, <1>5, <2>1, <2>2, <2>3 DEF IsOnce, IsFresh
  <1>7. CASE deferred' = deferred /\ handlers' = handlers /\ toServer' = toServer
    <2>1. deferred' = deferred /\ handlers' = handlers /\ toServer' = toServer
      BY <1>7
    <2>2. (IsDeferred(k)' <=> IsDeferred(k)) /\ (IsSent(k)' <=> IsSent(k))
      BY <2>1 DEF IsDeferred, IsSent
    <2> QED BY <1>1, <1>2, <1>3, <1>5, <2>1, <2>2 DEF IsOnce, IsFresh
  <1>8. CASE deferred' = deferred /\ handlers' = handlers \cup {c}
          /\ toServer' = Append(toServer, Request(c))
    <2>1. deferred' = deferred /\ handlers' = handlers \cup {c}
          /\ toServer' = Append(toServer, Request(c))
      BY <1>8
    <2>2. IsDeferred(k)' <=> IsDeferred(k)
      BY <2>1 DEF IsDeferred
    <2>3. Request(c) \in RawRequest /\ (Request(c) = Request(k) => c = k)
      BY <1>0, RequestIs, RequestsDiffer
    <2>4. /\ IsSent(k)' => IsSent(k) \/ k = c
          /\ Unique(toServer, Request(k)) /\ (k = c => ~IsSent(k)) => Unique(toServer', Request(k))
      BY <1>0, <2>1, <2>3, SendMore
    <2> QED BY <1>1, <1>2, <1>3, <1>5, <2>1, <2>2, <2>4 DEF IsOnce, IsFresh
  <1> QED BY <1>0, <1>6, <1>7, <1>8 DEF Call, ClientIsTyped

LEMMA CancelKeepsOnce ==
    ASSUME Typed, NEW k \in Calls, IsOnce(k), IsEarned(k), NEW c \in Calls, CancelCall(c)
    PROVE  IsOnce(k)' /\ IsEarned(k)'
  <1>0. ClientIsTyped /\ LinkIsTyped /\ c \in Ids /\ k \in Ids
    BY TypedParts DEF Ids
  <1>1. UNCHANGED serverVars /\ toClient' = toClient /\ handlers' = handlers
    BY DEF CancelCall
  <1>2. (k # c => outcome'[k] = outcome[k]) /\ outcome'[c] = "cancelled"
    BY <1>0 DEF CancelCall, ClientIsTyped
  <1>3. /\ Waits(k)' <=> Waits(k)
        /\ PendingIds(ChannelOf[k])' = PendingIds(ChannelOf[k])
        /\ called' = called /\ running' = running /\ aborts' = aborts
    BY <1>1, ServerKeeps
  <1>4. IsFulfilled(k)' <=> IsFulfilled(k)
    BY <1>1 DEF IsFulfilled
  <1>5. IsEarned(k)'
    BY <1>2, <1>3, <1>4 DEF IsEarned, HasEnded
  <1>6. CASE IsDeferred(c)
    <2>1. deferred' = Only(deferred, Ids \ {c}) /\ toServer' = toServer
      BY <1>6 DEF CancelCall, IsDeferred
    <2>2. /\ IsDeferred(k)' <=> IsDeferred(k) /\ k # c
          /\ Unique(deferred, k) => Unique(deferred', k)
      BY <1>0, <2>1, DeferLess
    <2>3. IsSent(k)' <=> IsSent(k)
      BY <2>1 DEF IsSent
    <2> QED BY <1>1, <1>2, <1>3, <1>5, <2>1, <2>2, <2>3 DEF IsOnce, IsFresh
  <1>7. CASE ~IsDeferred(c)
    <2>1. deferred' = deferred /\ toServer' = Append(toServer, Abandon(c))
      BY <1>7 DEF CancelCall, IsDeferred
    <2>2. IsDeferred(k)' <=> IsDeferred(k)
      BY <2>1 DEF IsDeferred
    <2>3. Abandon(c) \in RawRequest /\ Abandon(c) # Request(k)
      BY <1>0, RequestIs, RequestsDiffer
    <2>4. (IsSent(k)' <=> IsSent(k))
          /\ (Unique(toServer, Request(k)) => Unique(toServer', Request(k)))
      BY <1>0, <2>1, <2>3, SendMore
    <2> QED BY <1>1, <1>2, <1>3, <1>5, <1>7, <2>1, <2>2, <2>4 DEF IsOnce, IsFresh
  <1> QED BY <1>6, <1>7

LEMMA EventsKeepOnce ==
    ASSUME Typed, NEW k \in Calls, IsOnce(k), IsEarned(k), NEW e \in Events,
           Subscribe(e) \/ Unsubscribe(e)
    PROVE  IsOnce(k)' /\ IsEarned(k)'
  <1>0. ClientIsTyped /\ LinkIsTyped /\ e \in Ids /\ k \in Ids /\ k # e
    BY TypedParts, IdKinds DEF Ids
  <1>1. UNCHANGED serverVars /\ toClient' = toClient /\ outcome' = outcome
        /\ (k \in handlers' <=> k \in handlers)
    BY <1>0 DEF Subscribe, Unsubscribe
  <1>2. /\ Waits(k)' <=> Waits(k)
        /\ PendingIds(ChannelOf[k])' = PendingIds(ChannelOf[k])
        /\ called' = called /\ running' = running /\ aborts' = aborts
    BY <1>1, ServerKeeps
  <1>3. IsEarned(k)'
    BY <1>1, <1>2 DEF IsEarned, HasEnded, IsFulfilled
  <1>4. \/ deferred' = deferred
        \/ deferred' = Append(deferred, e)
        \/ deferred' = Only(deferred, Ids \ {e})
    BY DEF Subscribe, Unsubscribe
  <1>5. (IsDeferred(k)' <=> IsDeferred(k)) /\ (Unique(deferred, k) => Unique(deferred', k))
    <2>1. CASE deferred' = deferred
      BY <2>1 DEF IsDeferred
    <2>2. CASE deferred' = Append(deferred, e)
      BY <1>0, <2>2, DeferMore
    <2>3. CASE deferred' = Only(deferred, Ids \ {e})
      BY <1>0, <2>3, DeferLess
    <2> QED BY <1>4, <2>1, <2>2, <2>3
  <1>6. (IsSent(k)' <=> IsSent(k)) /\ (Unique(toServer, Request(k)) => Unique(toServer', Request(k)))
    <2>1. /\ Request(e) \in RawRequest /\ Request(e) # Request(k)
          /\ Abandon(e) \in RawRequest /\ Abandon(e) # Request(k)
      BY <1>0, RequestIs, RequestsDiffer
    <2>2. toServer' = toServer \/ \E m \in {Request(e), Abandon(e)} : toServer' = Append(toServer, m)
      BY DEF Subscribe, Unsubscribe
    <2>3. CASE toServer' = toServer
      BY <2>3 DEF IsSent
    <2>4. CASE \E m \in {Request(e), Abandon(e)} : toServer' = Append(toServer, m)
      BY <1>0, <2>1, <2>4, SendMore
    <2> QED BY <2>2, <2>3, <2>4
  <1> QED BY <1>1, <1>2, <1>3, <1>5, <1>6 DEF IsOnce, IsFresh

LEMMA ClientDisposeKeepsOnce ==
    ASSUME Typed, NEW k \in Calls, IsOnce(k), IsEarned(k), ClientDispose
    PROVE  IsOnce(k)' /\ IsEarned(k)'
  <1>0. ClientIsTyped /\ LinkIsTyped /\ k \in Ids /\ k \notin Events
    BY TypedParts, IdKinds DEF Ids
  <1>1. UNCHANGED serverVars /\ toClient' = toClient /\ handlers' \subseteq handlers
    BY DEF ClientDispose
  <1>2. outcome'[k] = outcome[k] \/ outcome'[k] = "cancelled"
    BY DEF ClientDispose
  <1>3. /\ Waits(k)' <=> Waits(k)
        /\ PendingIds(ChannelOf[k])' = PendingIds(ChannelOf[k])
        /\ called' = called /\ running' = running /\ aborts' = aborts
    BY <1>1, ServerKeeps
  <1>4. IsEarned(k)'
    BY <1>1, <1>2, <1>3 DEF IsEarned, HasEnded, IsFulfilled
  <1>5. ~IsDeferred(k)' /\ (Unique(deferred, k) => Unique(deferred', k))
    BY <1>0, DeferLess DEF ClientDispose
  <1>6. (IsSent(k)' <=> IsSent(k)) /\ (Unique(toServer, Request(k)) => Unique(toServer', Request(k)))
    <2>1. PICK ids \in Seq(Ids) : toServer' = toServer \o Abandons(ids)
      BY <1>0, CancelledAreFinite DEF ClientDispose, ClientIsTyped
    <2>2. Abandons(ids) \in Seq(RawRequest) /\ ~Contains(Abandons(ids), Request(k))
      BY <1>0, <2>1, AbandonsFacts
    <2>3. Unique(Abandons(ids), Request(k))
      BY <2>2 DEF Unique, Contains
    <2> QED BY <1>0, <2>1, <2>2, <2>3, SendAll
  <1> QED BY <1>1, <1>2, <1>3, <1>4, <1>5, <1>6 DEF IsOnce, IsFresh

(* What Initialize does to one id. *)
LEMMA InitializeFacts ==
    ASSUME Typed, NEW failed \in SUBSET (ToSet(deferred) \cap Calls), InitializeBut(failed),
           NEW k \in Ids
    PROVE  /\ ~IsDeferred(k)' /\ Unique(deferred', k)
           /\ IsSent(k)' <=> IsSent(k) \/ (IsDeferred(k) /\ k \notin failed)
           /\ /\ Unique(toServer, Request(k)) /\ Unique(deferred, k)
              /\ ~(IsSent(k) /\ IsDeferred(k))
              => Unique(toServer', Request(k))
           /\ k \in handlers' <=> k \in handlers \/ (IsDeferred(k) /\ k \notin failed)
           /\ k \in clientRequests' <=>
                 (k \in clientRequests /\ ~IsDeferred(k)) \/ (k \notin failed /\
                     (k \in clientRequests \/ IsDeferred(k)))
           /\ k \in Calls => outcome'[k] = IF IsDeferred(k) /\ k \in failed THEN "error"
                                           ELSE outcome[k]
           /\ UNCHANGED serverVars /\ UNCHANGED clientDisposed
           /\ ~clientDisposed /\ toClient' = Tail(toClient)
           /\ \E types : ReadByClient(types) /\ types = {"Initialize"}
  <1>0. ClientIsTyped /\ LinkIsTyped
    BY TypedParts
  <1>1. PICK sent : sent = Only(deferred, Ids \ failed)
    OBVIOUS
  <1>2. /\ ReadByClient({"Initialize"}) /\ deferred' = <<>>
        /\ toServer' = toServer \o Requests(sent) /\ handlers' = handlers \cup ToSet(sent)
        /\ clientRequests' = (clientRequests \cup ToSet(sent)) \ failed
        /\ outcome' = [c \in Calls |-> IF c \in failed THEN "error" ELSE outcome[c]]
    BY <1>1 DEF InitializeBut
  <1>3. /\ sent \in Seq(Ids)
        /\ Contains(sent, k) <=> IsDeferred(k) /\ k \notin failed
        /\ k \in ToSet(sent) <=> IsDeferred(k) /\ k \notin failed
        /\ Unique(deferred, k) => Unique(sent, k)
        /\ k \in ToSet(deferred) <=> IsDeferred(k)
    BY <1>0, <1>1, SentFacts
  <1>4. /\ Requests(sent) \in Seq(RawRequest)
        /\ Contains(Requests(sent), Request(k)) <=> Contains(sent, k)
        /\ Unique(sent, k) => Unique(Requests(sent), Request(k))
    BY <1>3, RequestsFacts
  <1>5. ~IsDeferred(k)' /\ Unique(deferred', k)
    BY <1>2, EmptyFacts DEF IsDeferred
  <1>6. /\ IsSent(k)' <=> IsSent(k) \/ Contains(Requests(sent), Request(k))
        /\ /\ Unique(toServer, Request(k)) /\ Unique(Requests(sent), Request(k))
           /\ ~(IsSent(k) /\ Contains(Requests(sent), Request(k)))
           => Unique(toServer', Request(k))
    BY <1>0, <1>2, <1>4, SendAll
  <1>7. k \in handlers' <=> k \in handlers \/ (IsDeferred(k) /\ k \notin failed)
    BY <1>2, <1>3
  <1>8. k \in clientRequests' <=>
            (k \in clientRequests /\ ~IsDeferred(k)) \/ (k \notin failed /\
                (k \in clientRequests \/ IsDeferred(k)))
    BY <1>2, <1>3
  <1>9. k \in Calls => outcome'[k] = IF IsDeferred(k) /\ k \in failed THEN "error" ELSE outcome[k]
    BY <1>2, <1>3
  <1>10. /\ UNCHANGED serverVars /\ UNCHANGED clientDisposed
         /\ ~clientDisposed /\ toClient' = Tail(toClient)
    BY <1>2 DEF ReadByClient
  <1> QED BY <1>2, <1>3, <1>4, <1>5, <1>6, <1>7, <1>8, <1>9, <1>10

LEMMA InitializeKeepsOnce ==
    ASSUME Typed, NEW k \in Calls, IsOnce(k), IsEarned(k), Initialize
    PROVE  IsOnce(k)' /\ IsEarned(k)'
  <1>0. ClientIsTyped /\ LinkIsTyped /\ k \in Ids
    BY TypedParts DEF Ids
  <1>4. PICK failed \in SUBSET (ToSet(deferred) \cap Calls) : InitializeBut(failed)
    BY DEF Initialize
  <1>1. /\ ~IsDeferred(k)' /\ Unique(deferred', k)
        /\ IsSent(k)' <=> IsSent(k) \/ (IsDeferred(k) /\ k \notin failed)
        /\ /\ Unique(toServer, Request(k)) /\ Unique(deferred, k)
           /\ ~(IsSent(k) /\ IsDeferred(k))
           => Unique(toServer', Request(k))
        /\ k \in handlers' <=> k \in handlers \/ (IsDeferred(k) /\ k \notin failed)
        /\ outcome'[k] = IF IsDeferred(k) /\ k \in failed THEN "error" ELSE outcome[k]
        /\ UNCHANGED serverVars
    BY <1>0, <1>4, InitializeFacts
  <1>2. /\ Waits(k)' <=> Waits(k)
        /\ PendingIds(ChannelOf[k])' = PendingIds(ChannelOf[k])
        /\ called' = called /\ running' = running /\ aborts' = aborts
    BY <1>1, ServerKeeps
  <1>3. IsFulfilled(k)' => IsFulfilled(k)
    BY <1>0, <1>4, AnswerLess DEF InitializeBut
  <1> QED BY <1>1, <1>2, <1>3 DEF IsOnce, IsFresh, IsEarned, HasEnded

LEMMA ResponseKeepsOnce ==
    ASSUME Typed, NEW k \in Calls, IsOnce(k), IsEarned(k), ReceiveResponse \/ ReceiveEvent
    PROVE  IsOnce(k)' /\ IsEarned(k)'
  <1>0. ClientIsTyped /\ LinkIsTyped
    BY TypedParts
  <1>1. UNCHANGED serverVars /\ deferred' = deferred /\ toServer' = toServer
        /\ handlers' \subseteq handlers
    BY DEF ReceiveResponse, ReceiveEvent, ReadByClient
  <1>2. PICK types : ReadByClient(types)
    BY DEF ReceiveResponse, ReceiveEvent
  <1>3. /\ Waits(k)' <=> Waits(k)
        /\ PendingIds(ChannelOf[k])' = PendingIds(ChannelOf[k])
        /\ called' = called /\ running' = running /\ aborts' = aborts
    BY <1>1, ServerKeeps
  <1>4. (IsSent(k)' <=> IsSent(k)) /\ (IsDeferred(k)' <=> IsDeferred(k))
    BY <1>1 DEF IsSent, IsDeferred
  <1>5. IsFulfilled(k) <=> Message("PromiseSuccess", k) = Head(toClient) \/ IsFulfilled(k)'
    BY <1>0, <1>2, AnswerLess
  <1>6. \/ outcome'[k] = outcome[k]
        \/ /\ k \in handlers /\ outcome[k] = "pending" /\ outcome'[k] \in {"success", "error"}
           /\ outcome'[k] = "success" => Message("PromiseSuccess", k) = Head(toClient)
    <2>1. CASE ReceiveEvent
      BY <2>1 DEF ReceiveEvent
    <2>2. CASE ReceiveResponse
      <3>1. PICK c : c = Head(toClient).id
        OBVIOUS
      <3>2. c \in Calls /\ Head(toClient) = Message(Head(toClient).type, c)
        BY <1>0, <2>2, <3>1, HeadOfResponses, MessageToClient DEF ReceiveResponse
      <3>3. \/ outcome' = outcome
            \/ /\ c \in handlers
               /\ outcome' = [outcome EXCEPT ![c] = IF @ # "pending" THEN @
                       ELSE IF Head(toClient).type = "PromiseSuccess" THEN "success" ELSE "error"]
        BY <2>2, <3>1 DEF ReceiveResponse
      <3> QED BY <1>0, <3>2, <3>3 DEF ClientIsTyped
    <2> QED BY <2>1, <2>2
  <1>7. IsEarned(k)'
    BY <1>3, <1>5, <1>6 DEF IsEarned, HasEnded
  <1> QED BY <1>1, <1>3, <1>4, <1>6, <1>7 DEF IsOnce, IsFresh

LEMMA ClientKeepsOnce ==
    ASSUME Typed, NEW k \in Calls, IsOnce(k), IsEarned(k), ClientStep
    PROVE  IsOnce(k)' /\ IsEarned(k)'
  BY CallKeepsOnce, CancelKeepsOnce, EventsKeepOnce, ClientDisposeKeepsOnce, InitializeKeepsOnce,
     ResponseKeepsOnce DEF ClientStep

(* One more request waits, or one that waits has timed out. *)
LEMMA WaitMore ==
    ASSUME Typed, ReceiveTooEarly, NEW id \in Ids, id = Head(toServer).id, NEW k \in Ids
    PROVE  /\ Waits(k)' <=> Waits(k) \/ k = id
           /\ Unique(PendingIds(ChannelOf[k]), k) /\ (k = id => ~Waits(k)) =>
                 Unique(PendingIds(ChannelOf[k])', k)
  <1>0. RegistryIsTyped
    BY TypedParts
  <1>1. PICK ch \in Channels : ch = ChannelOf[id]
    BY ChannelsAssumption
  <1>2. PICK r \in Waiting : r = [id |-> id, timerOff |-> FALSE]
    BY DEF Waiting
  <1>3. pendingRequests' = [pendingRequests EXCEPT ![ch] = Append(@, r)]
    BY <1>1, <1>2 DEF ReceiveTooEarly
  <1>4. pendingRequests \in [Channels -> Seq(Waiting)] /\ ChannelOf[k] \in Channels
    BY <1>0, ChannelsAssumption DEF RegistryIsTyped, Waiting
  <1>5. CASE ChannelOf[k] # ch
    <2>1. pendingRequests'[ChannelOf[k]] = pendingRequests[ChannelOf[k]]
      BY <1>3, <1>4, <1>5
    <2> QED BY <1>1, <1>5, <2>1 DEF Waits, PendingIds
  <1>6. CASE ChannelOf[k] = ch
    <2>1. PICK queue \in Seq(Waiting) : queue = pendingRequests[ch]
      BY <1>4
    <2>2. pendingRequests'[ch] = Append(queue, r)
      BY <1>3, <1>4, <2>1
    <2>3. /\ PendingIds(ch) \in Seq(Ids) /\ Len(PendingIds(ch)) = Len(queue)
          /\ PendingIds(ch) = [i \in DOMAIN queue |-> queue[i].id]
      BY <1>0, <2>1, PendingIdsFacts DEF PendingIds
    <2>4. PendingIds(ch)' = [i \in DOMAIN Append(queue, r) |-> Append(queue, r)[i].id]
      BY <2>2 DEF PendingIds
    <2>5. /\ DOMAIN Append(queue, r) = 1 .. Len(queue) + 1 /\ Len(queue) \in Nat
          /\ Append(queue, r)[Len(queue) + 1].id = id
          /\ \A i \in 1 .. Len(queue) : Append(queue, r)[i] = queue[i]
          /\ DOMAIN queue = 1 .. Len(queue)
      BY <1>2, <2>1
    <2>6. PendingIds(ch)' = Append(PendingIds(ch), id)
      <3>1. PICK more : more = Append(PendingIds(ch), id)
        OBVIOUS
      <3>2. /\ more = [i \in 1 .. Len(queue) + 1 |-> more[i]]
            /\ more[Len(queue) + 1] = id
            /\ \A i \in 1 .. Len(queue) : more[i] = PendingIds(ch)[i]
        BY <2>3, <3>1
      <3>3. \A i \in 1 .. Len(queue) + 1 : more[i] = Append(queue, r)[i].id
        <4> SUFFICES ASSUME NEW i \in 1 .. Len(queue) + 1 PROVE more[i] = Append(queue, r)[i].id
          OBVIOUS
        <4>1. CASE i = Len(queue) + 1
          BY <2>5, <3>2, <4>1
        <4>2. CASE i \in 1 .. Len(queue)
          BY <2>3, <2>5, <3>2, <4>2
        <4> QED BY <2>5, <4>1, <4>2
      <3> QED BY <2>4, <2>5, <3>1, <3>2, <3>3
    <2> QED BY <1>6, <2>3, <2>6, ContainsAppend, UniqueAppend DEF Waits
  <1> QED BY <1>5, <1>6

LEMMA WaitSame ==
    ASSUME Typed, NEW ch \in Channels, NEW i \in DOMAIN pendingRequests[ch], PendingTimeout(ch, i)
    PROVE  \A other \in Channels : PendingIds(other)' = PendingIds(other)
  <1>0. RegistryIsTyped
    BY TypedParts
  <1>1. \A other \in Channels :
            /\ DOMAIN pendingRequests'[other] = DOMAIN pendingRequests[other]
            /\ \A j \in DOMAIN pendingRequests[other] :
                  pendingRequests'[other][j].id = pendingRequests[other][j].id
    BY <1>0, TimeoutFacts DEF PendingTimeout
  <1> QED BY <1>1 DEF PendingIds

(* Flushing a channel to its end: its requests run and wait no more. *)
LEMMA WaitLess ==
    ASSUME Typed, NEW ch \in Channels, NEW ids, FlushedAll(ch, ids), NEW k \in Ids
    PROVE  /\ Contains(ids, k) <=> ChannelOf[k] = ch /\ Waits(k)
           /\ Waits(k)' <=> Waits(k) /\ ChannelOf[k] # ch
           /\ Unique(PendingIds(ChannelOf[k]), k) => Unique(PendingIds(ChannelOf[k])', k)
  <1>0. RegistryIsTyped /\ ChannelOf[k] \in Channels
    BY TypedParts, ChannelsAssumption
  <1>1. Contains(ids, k) <=> ChannelOf[k] = ch /\ Waits(k)
    BY <1>0, PendingIdsFacts DEF Waits, FlushedAll
  <1>2. pendingRequests'[ChannelOf[k]] = IF ChannelOf[k] = ch THEN <<>>
                                         ELSE pendingRequests[ChannelOf[k]]
    BY <1>0 DEF FlushedAll, RegistryIsTyped
  <1>3. CASE ChannelOf[k] # ch
    BY <1>1, <1>2, <1>3 DEF Waits, PendingIds
  <1>4. CASE ChannelOf[k] = ch
    <2>1. PendingIds(ChannelOf[k])' = <<>>
      BY <1>2, <1>4 DEF PendingIds
    <2> QED BY <1>1, <1>4, <2>1, EmptyFacts DEF Waits
  <1> QED BY <1>3, <1>4

(* A flush that is aborted: every request still waits. *)
LEMMA WaitAgain ==
    ASSUME Typed, NEW ch, NEW ids, FlushedUpTo(ch, ids), NEW k \in Ids
    PROVE  /\ Waits(k)' <=> Waits(k)
           /\ PendingIds(ChannelOf[k])' = PendingIds(ChannelOf[k])
  <1>1. ChannelOf[k] \in Channels
    BY ChannelsAssumption
  <1>2. PendingIds(ChannelOf[k])' = PendingIds(ChannelOf[k])
    BY <1>1, FlushedUpToIds
  <1> QED BY <1>2 DEF Waits

(* A run that has ended stays so, whatever runs next. *)
LEMMA EndedStays ==
    ASSUME NEW k, called[k] \in Nat, called'[k] \in Nat, called'[k] >= called[k],
           \A n : <<k, n>> \in running' => <<k, n>> \in running \/ n \in called[k] + 1 .. called'[k],
           HasEnded(k)
    PROVE  HasEnded(k)'
  <1>1. PICK n \in 1 .. called[k] : <<k, n>> \notin running
    BY DEF HasEnded
  <1>2. n \in 1 .. called'[k] /\ n \notin called[k] + 1 .. called'[k]
    BY <1>1
  <1> QED BY <1>1, <1>2 DEF HasEnded

LEMMA RequestKeepsOnce ==
    ASSUME Typed, NEW k \in Calls, IsOnce(k), IsEarned(k), ReceiveRequest
    PROVE  IsOnce(k)' /\ IsEarned(k)'
  <1>0. ExecutionIsTyped /\ LinkIsTyped /\ k \in Ids
    BY TypedParts DEF Ids
  <1>1. PICK types : types = {"Promise", "EventListen"} /\ ReadByServer(types)
    BY DEF ReceiveRequest
  <1>2. PICK id \in Ids : id = Head(toServer).id /\ Head(toServer) = Request(id)
    BY <1>0, <1>1, HeadIs
  <1>3. Request(k) = Head(toServer) <=> k = id
    BY <1>0, <1>2, RequestsDiffer
  <1>4. /\ IsSent(k) <=> k = id \/ IsSent(k)'
        /\ Unique(toServer, Request(k)) => Unique(toServer', Request(k)) /\ (k = id => ~IsSent(k)')
    BY <1>0, <1>1, <1>3, ReadOne
  <1>5. /\ IF id \in Throwing THEN UNCHANGED executionVars ELSE Execute(<<id>>)
        /\ UNCHANGED registryVars /\ UNCHANGED clientVars /\ toClient' = toClient
    BY <1>2 DEF ReceiveRequest, ReadByServer
  <1>6. <<id>> \in Seq(Ids) /\ \A other : Unique(<<id>>, other) /\ (Contains(<<id>>, other) <=> other = id)
    BY <1>2 DEF Unique, Contains
  <1>7. /\ called'[k] = IF k = id THEN called[k] + 1 ELSE called[k]
        /\ \A n : <<k, n>> \in running' => <<k, n>> \in running \/ n \in called[k] + 1 .. called'[k]
    <2>1. CASE id \in Throwing
      BY <1>0, <1>5, <2>1, IdKinds, IdsAssumption DEF executionVars
    <2>2. CASE id \notin Throwing
      BY <1>0, <1>5, <1>6, <2>2, ExecuteFacts
    <2> QED BY <2>1, <2>2
  <1>8. /\ Waits(k)' <=> Waits(k)
        /\ aborts' = aborts
        /\ PendingIds(ChannelOf[k])' = PendingIds(ChannelOf[k])
    BY <1>5 DEF registryVars, Waits, PendingIds
  <1>9. /\ IsDeferred(k)' <=> IsDeferred(k)
        /\ deferred' = deferred /\ outcome' = outcome /\ handlers' = handlers
    BY <1>5, ClientKeeps
  <1>10. IsFulfilled(k)' <=> IsFulfilled(k)
    BY <1>5 DEF IsFulfilled
  <1>11. called[k] \in Nat
    BY <1>0 DEF ExecutionIsTyped
  <1>12. HasEnded(k) => HasEnded(k)'
    BY <1>7, <1>11, EndedStays
  <1>13. IsEarned(k)'
    BY <1>9, <1>10, <1>12 DEF IsEarned
  <1>14. Unique(deferred', k) /\ Unique(toServer', Request(k)) /\ Unique(PendingIds(ChannelOf[k])', k)
    BY <1>4, <1>8, <1>9 DEF IsOnce
  <1>15. /\ outcome'[k] = "none" => ~IsDeferred(k)' /\ IsFresh(k)'
         /\ IsDeferred(k)' => outcome'[k] = "pending" /\ IsFresh(k)'
    BY <1>4, <1>7, <1>8, <1>9 DEF IsOnce, IsFresh
  <1>16. /\ IsSent(k)' => ~Waits(k)' /\ called'[k] = 0
         /\ Waits(k)' => called'[k] <= aborts[ChannelOf[k]]
         /\ called'[k] <= 1 \/ called'[k] <= aborts[ChannelOf[k]]
    BY <1>4, <1>7, <1>8, <1>11 DEF IsOnce
  <1> QED BY <1>8, <1>13, <1>14, <1>15, <1>16 DEF IsOnce

LEMMA TooEarlyKeepsOnce ==
    ASSUME Typed, NEW k \in Calls, IsOnce(k), IsEarned(k), ReceiveTooEarly
    PROVE  IsOnce(k)' /\ IsEarned(k)'
  <1>0. LinkIsTyped /\ k \in Ids
    BY TypedParts DEF Ids
  <1>1. PICK types : types = {"Promise", "EventListen"} /\ ReadByServer(types)
    BY DEF ReceiveTooEarly
  <1>2. PICK id \in Ids : id = Head(toServer).id /\ Head(toServer) = Request(id)
    BY <1>0, <1>1, HeadIs
  <1>3. Request(k) = Head(toServer) <=> k = id
    BY <1>0, <1>2, RequestsDiffer
  <1>4. /\ IsSent(k) <=> k = id \/ IsSent(k)'
        /\ Unique(toServer, Request(k)) => Unique(toServer', Request(k)) /\ (k = id => ~IsSent(k)')
    BY <1>0, <1>1, <1>3, ReadOne
  <1>5. /\ UNCHANGED executionVars /\ UNCHANGED clientVars /\ toClient' = toClient
    BY DEF ReceiveTooEarly, ReadByServer
  <1>6. /\ Waits(k)' <=> Waits(k) \/ k = id
        /\ Unique(PendingIds(ChannelOf[k]), k) /\ (k = id => ~Waits(k)) =>
              Unique(PendingIds(ChannelOf[k])', k)
    BY <1>0, <1>2, WaitMore
  <1>7. called' = called /\ running' = running /\ aborts' = aborts
    BY <1>5 DEF executionVars, ReceiveTooEarly
  <1>8. /\ IsDeferred(k)' <=> IsDeferred(k)
        /\ deferred' = deferred /\ outcome' = outcome /\ handlers' = handlers
    BY <1>5, ClientKeeps
  <1>9. IsFulfilled(k)' <=> IsFulfilled(k)
    BY <1>5 DEF IsFulfilled
  <1>10. IsEarned(k)'
    BY <1>7, <1>8, <1>9 DEF IsEarned, HasEnded
  <1>11. aborts[ChannelOf[k]] \in Nat
    BY <1>0, ChannelsAssumption, TypedParts DEF RegistryIsTyped
  <1> QED BY <1>4, <1>6, <1>7, <1>8, <1>10, <1>11 DEF IsOnce, IsFresh

LEMMA AbandonKeepsOnce ==
    ASSUME Typed, NEW k \in Calls, IsOnce(k), IsEarned(k), ReceiveAbandon
    PROVE  IsOnce(k)' /\ IsEarned(k)'
  <1>0. LinkIsTyped /\ k \in Ids
    BY TypedParts DEF Ids
  <1>1. PICK types : types = {"PromiseCancel", "EventDispose"} /\ ReadByServer(types)
    BY DEF ReceiveAbandon
  <1>2. PICK id \in Ids : Head(toServer) = Abandon(id)
    BY <1>0, <1>1, HeadIs
  <1>3. /\ IsSent(k) <=> IsSent(k)'
        /\ Unique(toServer, Request(k)) => Unique(toServer', Request(k))
    BY <1>0, <1>1, <1>2, ReadOne, RequestsDiffer
  <1>4. /\ UNCHANGED clientVars /\ toClient' = toClient /\ UNCHANGED registryVars
        /\ called' = called /\ running' = running
    BY DEF ReceiveAbandon, ReadByServer
  <1>5. /\ Waits(k)' <=> Waits(k)
        /\ aborts' = aborts
        /\ PendingIds(ChannelOf[k])' = PendingIds(ChannelOf[k])
    BY <1>4 DEF registryVars, Waits, PendingIds
  <1>6. /\ IsDeferred(k)' <=> IsDeferred(k)
        /\ deferred' = deferred /\ outcome' = outcome /\ handlers' = handlers
    BY <1>4, ClientKeeps
  <1>7. IsFulfilled(k)' <=> IsFulfilled(k)
    BY <1>4 DEF IsFulfilled
  <1>8. IsEarned(k)'
    BY <1>4, <1>6, <1>7 DEF IsEarned, HasEnded
  <1> QED BY <1>3, <1>4, <1>5, <1>6, <1>8 DEF IsOnce, IsFresh

LEMMA FlushKeepsOnce ==
    ASSUME Typed, NEW k \in Calls, IsOnce(k), IsEarned(k), NEW ch \in Channels,
           FlushPendingRequests(ch)
    PROVE  IsOnce(k)' /\ IsEarned(k)'
  <1>0. ExecutionIsTyped /\ RegistryIsTyped /\ k \in Ids /\ ChannelOf[k] \in Channels
    BY TypedParts, ChannelsAssumption DEF Ids
  <1>1. PICK ids \in Seq(Ids) :
            /\ Execute(ids) /\ \A e \in Throwing : ~Contains(ids, e)
            /\ \A id : Contains(ids, id) => Contains(PendingIds(ch), id)
            /\ \A id : Unique(PendingIds(ch), id) => Unique(ids, id)
            /\ FlushedAll(ch, ids) \/ FlushedUpTo(ch, ids)
    BY <1>0, FlushFacts
  <1>2. UNCHANGED clientVars /\ toServer' = toServer /\ toClient' = toClient
    BY FlushKeepsRest
  <1>3. called[k] \in Nat /\ aborts[ChannelOf[k]] \in Nat
    BY <1>0 DEF ExecutionIsTyped, RegistryIsTyped
  <1>4. /\ called'[k] \in Nat /\ called'[k] >= called[k]
        /\ \A n : <<k, n>> \in running' => <<k, n>> \in running \/ n \in called[k] + 1 .. called'[k]
        /\ ~Contains(ids, k) => called'[k] = called[k]
        /\ Contains(ids, k) /\ Unique(ids, k) => called'[k] = called[k] + 1
    BY <1>0, <1>1, ExecuteFacts
  <1>5. Contains(ids, k) => ChannelOf[k] = ch /\ Waits(k) /\ called'[k] = called[k] + 1
    <2>1. Contains(ids, k) => ChannelOf[k] = ch
      BY <1>0, <1>1, PendingIdsFacts
    <2>2. Contains(ids, k) => Waits(k) /\ Unique(ids, k)
      BY <1>1, <2>1 DEF Waits, IsOnce
    <2> QED BY <1>4, <2>1, <2>2
  <1>6. /\ IsDeferred(k)' <=> IsDeferred(k)
        /\ deferred' = deferred /\ outcome' = outcome /\ handlers' = handlers
    BY <1>2, ClientKeeps
  <1>7. (IsFulfilled(k)' <=> IsFulfilled(k)) /\ (IsSent(k)' <=> IsSent(k))
    BY <1>2 DEF IsFulfilled, IsSent
  <1>8. HasEnded(k) => HasEnded(k)'
    BY <1>3, <1>4, EndedStays
  <1>9. IsEarned(k)'
    BY <1>6, <1>7, <1>8 DEF IsEarned
  <1>10. CASE FlushedAll(ch, ids)
    <2>1. /\ Contains(ids, k) <=> ChannelOf[k] = ch /\ Waits(k)
          /\ Waits(k)' <=> Waits(k) /\ ChannelOf[k] # ch
          /\ Unique(PendingIds(ChannelOf[k]), k) => Unique(PendingIds(ChannelOf[k])', k)
      BY <1>0, <1>10, WaitLess
    <2>2. aborts' = aborts /\ (ChannelOf[k] = ch => aborts[ChannelOf[k]] = 0)
      <3>1. aborts' = aborts /\ ~IsBlocked(ch)
        BY <1>10 DEF FlushedAll
      <3> QED BY <1>0, <1>3, <3>1 DEF RegistryIsTyped
    <2> QED BY <1>2, <1>3, <1>4, <1>5, <1>6, <1>7, <1>9, <2>1, <2>2 DEF IsOnce, IsFresh
  <1>11. CASE FlushedUpTo(ch, ids)
    <2>1. /\ Waits(k)' <=> Waits(k)
          /\ PendingIds(ChannelOf[k])' = PendingIds(ChannelOf[k])
      BY <1>0, <1>11, WaitAgain
    <2>2. aborts'[ChannelOf[k]] = IF ChannelOf[k] = ch THEN aborts[ChannelOf[k]] + 1
                                  ELSE aborts[ChannelOf[k]]
      BY <1>0, <1>11 DEF FlushedUpTo, RegistryIsTyped
    <2> QED BY <1>2, <1>3, <1>4, <1>5, <1>6, <1>7, <1>9, <2>1, <2>2 DEF IsOnce, IsFresh
  <1> QED BY <1>1, <1>10, <1>11

(* The steps of the server that run no call. *)
LEMMA AnswersKeepOnce ==
    ASSUME Typed, NEW k \in Calls, IsOnce(k), IsEarned(k), UNCHANGED clientVars,
           toServer' = toServer, called' = called, running' \subseteq running, aborts' = aborts,
           \A ch \in Channels : PendingIds(ch)' = PendingIds(ch),
           IsFulfilled(k)' => IsFulfilled(k) \/ HasEnded(k)'
    PROVE  IsOnce(k)' /\ IsEarned(k)'
  <1>1. ChannelOf[k] \in Channels
    BY ChannelsAssumption DEF Ids
  <1>2. /\ IsDeferred(k)' <=> IsDeferred(k)
        /\ deferred' = deferred /\ outcome' = outcome /\ handlers' = handlers
    BY ClientKeeps
  <1>3. IsSent(k)' <=> IsSent(k)
    BY DEF IsSent
  <1>4. PendingIds(ChannelOf[k])' = PendingIds(ChannelOf[k])
    BY <1>1
  <1>5. Waits(k)' <=> Waits(k)
    BY <1>4 DEF Waits
  <1> QED BY <1>2, <1>3, <1>4, <1>5 DEF IsOnce, IsFresh, IsEarned, HasEnded

LEMMA OthersKeepOnce ==
    ASSUME Typed, NEW k \in Calls, IsOnce(k), IsEarned(k),
           \/ \E c \in Calls : Settle(c)
           \/ \E e \in Events : Fire(e)
           \/ \E ch \in Channels : RegisterChannel(ch)
           \/ \E ch \in Channels : \E i \in DOMAIN pendingRequests[ch] : PendingTimeout(ch, i)
           \/ ServerDispose
    PROVE  IsOnce(k)' /\ IsEarned(k)'
  <1>0. ExecutionIsTyped /\ RegistryIsTyped /\ LinkIsTyped
    BY TypedParts
  <1>1. UNCHANGED clientVars /\ toServer' = toServer /\ called' = called /\ aborts' = aborts
    BY DEF Settle, Complete, Fire, RegisterChannel, PendingTimeout, ServerDispose, serverVars,
       executionVars, registryVars
  <1>2. ASSUME UNCHANGED pendingRequests, NEW ch \in Channels PROVE PendingIds(ch)' = PendingIds(ch)
    BY <1>2 DEF PendingIds
  <1>3. ASSUME toClient' = toClient PROVE IsFulfilled(k)' <=> IsFulfilled(k)
    BY <1>3 DEF IsFulfilled
  <1>4. ASSUME NEW c \in Calls, NEW n \in 1 .. called[c], Complete(c, n)
        PROVE  IsOnce(k)' /\ IsEarned(k)'
    <2>1. running' = running \ {<<c, n>>} /\ UNCHANGED pendingRequests
      BY <1>4 DEF Complete, registryVars
    <2>2. HasEnded(c)'
      <3>1. n \in 1 .. called'[c] /\ <<c, n>> \notin running'
        BY <1>1, <1>4, <2>1
      <3> QED BY <3>1 DEF HasEnded
    <2>3. IsFulfilled(k)' => IsFulfilled(k) \/ k = c
      <3>1. CASE toClient' = toClient
        BY <1>3, <3>1
      <3>2. ASSUME NEW type \in {"PromiseSuccess", "PromiseError"},
                   toClient' = Append(toClient, Message(type, c))
            PROVE  IsFulfilled(k)' => IsFulfilled(k) \/ k = c
        <4>1. Message(type, c) \in RawResponse
          BY Responses
        <4>2. Message(type, c) = Message("PromiseSuccess", k) => k = c
          BY DEF Message
        <4> QED BY <1>0, <3>2, <4>1, <4>2, AnswerMore
      <3> QED BY <1>4, <3>1, <3>2 DEF Complete
    <2> QED BY <1>1, <1>2, <2>1, <2>2, <2>3, AnswersKeepOnce
  <1>5. ASSUME NEW e \in Events, Fire(e) PROVE IsOnce(k)' /\ IsEarned(k)'
    <2>1. PICK fires : fires = [i \in 1 .. listeners[e] |-> Message("EventFire", e)]
      OBVIOUS
    <2>2. fires \in Seq(RawResponse) /\ DOMAIN fires = 1 .. Len(fires)
          /\ \A i \in 1 .. Len(fires) : fires[i] = Message("EventFire", e)
      BY <1>0, <2>1, Responses DEF ExecutionIsTyped
    <2>3. PICK r : r = Message("PromiseSuccess", k)
      OBVIOUS
    <2>4. ~Contains(fires, r)
      BY <2>2, <2>3 DEF Contains, Message
    <2>5. Contains(toClient', r) <=> Contains(toClient, r)
      BY <1>0, <1>5, <2>1, <2>2, <2>4, ContainsConcat DEF Fire, LinkIsTyped
    <2>6. IsFulfilled(k)' <=> IsFulfilled(k)
      BY <2>3, <2>5 DEF IsFulfilled
    <2>7. running' = running /\ UNCHANGED pendingRequests
      BY <1>5 DEF Fire, serverVars, registryVars, executionVars
    <2> QED BY <1>1, <1>2, <2>6, <2>7, AnswersKeepOnce
  <1>6. ASSUME NEW ch \in Channels, RegisterChannel(ch) PROVE IsOnce(k)' /\ IsEarned(k)'
    <2>1. running' = running /\ UNCHANGED pendingRequests /\ toClient' = toClient
      BY <1>6 DEF RegisterChannel, executionVars
    <2> QED BY <1>1, <1>2, <1>3, <2>1, AnswersKeepOnce
  <1>7. ASSUME NEW ch \in Channels, NEW i \in DOMAIN pendingRequests[ch], PendingTimeout(ch, i)
        PROVE  IsOnce(k)' /\ IsEarned(k)'
    <2>1. running' = running
      BY <1>7 DEF PendingTimeout, executionVars
    <2>2. IsFulfilled(k)' => IsFulfilled(k)
      <3>1. PICK c : c = pendingRequests[ch][i].id
        OBVIOUS
      <3>2. \/ toClient' = toClient
            \/ c \in Calls /\ toClient' = Append(toClient, Message("PromiseError", c))
        BY <1>7, <3>1 DEF PendingTimeout
      <3>3. c \in Calls => Message("PromiseError", c) \in RawResponse
        BY Responses
      <3>4. Message("PromiseError", c) # Message("PromiseSuccess", k)
        BY DEF Message
      <3> QED BY <1>0, <1>3, <3>2, <3>3, <3>4, AnswerMore
    <2>3. \A other \in Channels : PendingIds(other)' = PendingIds(other)
      BY <1>7, WaitSame
    <2> QED BY <1>1, <2>1, <2>2, <2>3, AnswersKeepOnce
  <1>8. ASSUME ServerDispose PROVE IsOnce(k)' /\ IsEarned(k)'
    <2>1. running' = running /\ UNCHANGED pendingRequests /\ toClient' = toClient
      BY <1>8 DEF ServerDispose
    <2> QED BY <1>1, <1>2, <1>3, <2>1, AnswersKeepOnce
  <1> QED BY <1>4, <1>5, <1>6, <1>7, <1>8 DEF Settle

LEMMA ServerKeepsOnce ==
    ASSUME Typed, NEW k \in Calls, IsOnce(k), IsEarned(k), ServerStep
    PROVE  IsOnce(k)' /\ IsEarned(k)'
  BY RequestKeepsOnce, TooEarlyKeepsOnce, AbandonKeepsOnce, FlushKeepsOnce, OthersKeepOnce
     DEF ServerStep, PendingStep, Settle

LEMMA CallsAreOnceInitially == Init => CallsAreOnce
  <1> SUFFICES ASSUME Init, NEW k \in Calls PROVE IsOnce(k) /\ IsEarned(k)
    BY DEF CallsAreOnce
  <1>1. ~IsDeferred(k) /\ Unique(deferred, k) /\ ~IsSent(k) /\ Unique(toServer, Request(k))
    BY EmptyFacts DEF Init, IsDeferred, IsSent
  <1>2. PendingIds(ChannelOf[k]) = <<>>
    BY ChannelsAssumption DEF Init, PendingIds, Ids
  <1>3. ~Waits(k) /\ Unique(PendingIds(ChannelOf[k]), k)
    BY <1>2, EmptyFacts DEF Waits
  <1>4. ~IsFulfilled(k)
    BY DEF Init, IsFulfilled, Contains, Message
  <1> QED BY <1>1, <1>3, <1>4 DEF Init, IsOnce, IsFresh, IsEarned

LEMMA StutterKeepsOnce ==
    ASSUME NEW k \in Calls, IsOnce(k), IsEarned(k), UNCHANGED vars
    PROVE  IsOnce(k)' /\ IsEarned(k)'
  BY DEF vars, clientVars, serverVars, registryVars, executionVars, IsOnce, IsEarned, IsFresh,
     HasEnded, IsDeferred, IsSent, Waits, PendingIds, IsFulfilled

LEMMA NextKeepsOnce ==
    ASSUME Typed, CallsAreOnce, [Next]_vars PROVE CallsAreOnce'
  BY ClientKeepsOnce, ServerKeepsOnce, StutterKeepsOnce DEF Next, CallsAreOnce

-----------------------------------------------------------------------------
(* Handlers match calls *)

WaitsInTime(id) ==
    \E i \in DOMAIN pendingRequests[ChannelOf[id]] :
        pendingRequests[ChannelOf[id]][i] = [id |-> id, timerOff |-> FALSE]

IsAnswered(id) == \E i \in DOMAIN toClient : toClient[i].id = id

IsRunning(c) == \E n : <<c, n>> \in running

IsAwaited(c) ==
    c \in handlers =>
        \/ clientDisposed \/ serverDisposed
        \/ IsSent(c) \/ WaitsInTime(c) \/ IsRunning(c) \/ IsAnswered(c)
        \/ c \in unanswered

IsHandled(c) ==
    outcome[c] = "pending" => c \in clientRequests /\ (c \in handlers \/ IsDeferred(c))

(* The runs of a call, as pairs and as numbers. *)
LEMMA RunFacts ==
    ASSUME NEW runs, runs \subseteq Calls \X (Nat \ {0}), NEW c, NEW cancelled
    PROVE  /\ {r \in runs : r[1] = c} # {} <=> \E n : <<c, n>> \in runs
           /\ {r \in runs : r[1] = c} \subseteq cancelled <=>
                 ~\E n : <<c, n>> \in runs /\ <<c, n>> \notin cancelled
  <1>1. \A r \in runs : r = <<r[1], r[2]>>
    OBVIOUS
  <1>2. \A n : <<c, n>> \in runs => <<c, n>>[1] = c
    OBVIOUS
  <1> QED BY <1>1, <1>2

LEMMA MatchParts ==
    ASSUME Typed PROVE HandlersMatchCalls <=> \A c \in Calls : IsAwaited(c) /\ IsHandled(c)
  <1>1. \A c : RunsOf(c) # {} <=> IsRunning(c)
    BY TypedParts, RunFacts DEF ExecutionIsTyped, RunsOf, IsRunning
  <1>2. PendingIsHandled <=> \A c \in Calls : IsHandled(c)
    BY DEF PendingIsHandled, IsHandled, IsDeferred
  <1>3. HandlerIsAwaited <=> \A c \in Calls : IsAwaited(c)
    BY <1>1 DEF HandlerIsAwaited, IsAwaited, IsSent, WaitsInTime, IsAnswered
  <1> QED BY <1>2, <1>3 DEF HandlersMatchCalls

LEMMA MatchPartsNext ==
    ASSUME Typed' PROVE HandlersMatchCalls' <=> \A c \in Calls : IsAwaited(c)' /\ IsHandled(c)'
  <1>1. \A c : RunsOf(c)' # {} <=> IsRunning(c)'
    BY TypedPartsNext, RunFacts DEF ExecutionIsTyped, RunsOf, IsRunning
  <1>2. PendingIsHandled' <=> \A c \in Calls : IsHandled(c)'
    BY DEF PendingIsHandled, IsHandled, IsDeferred
  <1>3. HandlerIsAwaited' <=> \A c \in Calls : IsAwaited(c)'
    BY <1>1 DEF HandlerIsAwaited, IsAwaited, IsSent, WaitsInTime, IsAnswered
  <1> QED BY <1>2, <1>3 DEF HandlersMatchCalls

LEMMA AnsweredLess ==
    ASSUME LinkIsTyped, NEW types, ReadByClient(types), NEW k, IsAnswered(k), Head(toClient).id # k
    PROVE  IsAnswered(k)'
  <1>1. toClient \in Seq(RawResponse) /\ toClient # <<>> /\ toClient' = Tail(toClient)
    BY HeadOfResponses
  <1>2. PICK i \in DOMAIN toClient : toClient[i].id = k
    BY DEF IsAnswered
  <1>3. i # 1 /\ i \in 1 .. Len(toClient) /\ Head(toClient) = toClient[1] /\ Len(toClient) \in Nat
    BY <1>1, <1>2
  <1>4. i - 1 \in DOMAIN toClient' /\ toClient'[i - 1] = toClient[i]
    BY <1>1, <1>3
  <1> QED BY <1>2, <1>4 DEF IsAnswered

LEMMA AnsweredMore ==
    ASSUME LinkIsTyped, NEW m \in RawResponse, toClient' = Append(toClient, m), NEW k
    PROVE  /\ IsAnswered(k) => IsAnswered(k)'
           /\ m.id = k => IsAnswered(k)'
  <1>1. /\ toClient' \in Seq(RawResponse) /\ DOMAIN toClient' = 1 .. Len(toClient) + 1
        /\ DOMAIN toClient = 1 .. Len(toClient) /\ Len(toClient) \in Nat
        /\ \A i \in 1 .. Len(toClient) : toClient'[i] = toClient[i]
        /\ toClient'[Len(toClient) + 1] = m
    BY DEF LinkIsTyped
  <1> QED BY <1>1 DEF IsAnswered

(* The client forgets no request that it has sent. *)
LEMMA ClientSends ==
    ASSUME Typed, ClientStep, NEW k \in Ids, IsSent(k) PROVE IsSent(k)'
  <1>0. ClientIsTyped /\ LinkIsTyped
    BY TypedParts
  <1>1. ASSUME NEW m \in RawRequest, toServer' = Append(toServer, m) PROVE IsSent(k)'
    BY <1>0, <1>1, SendMore
  <1>2. ASSUME toServer' = toServer PROVE IsSent(k)'
    BY <1>2 DEF IsSent
  <1>3. ASSUME NEW id \in Ids, toServer' \in {toServer, Append(toServer, Request(id)),
                                              Append(toServer, Abandon(id))}
        PROVE  IsSent(k)'
    BY <1>1, <1>2, <1>3, RequestIs
  <1>4. ASSUME NEW c \in Calls, Call(c) \/ CancelCall(c) PROVE IsSent(k)'
    BY <1>3, <1>4 DEF Call, CancelCall, Ids
  <1>5. ASSUME NEW e \in Events, Subscribe(e) \/ Unsubscribe(e) PROVE IsSent(k)'
    BY <1>3, <1>5 DEF Subscribe, Unsubscribe, Ids
  <1>6. ASSUME ClientDispose PROVE IsSent(k)'
    <2>1. PICK ids \in Seq(Ids) : toServer' = toServer \o Abandons(ids)
      BY <1>0, <1>6, CancelledAreFinite DEF ClientDispose, ClientIsTyped
    <2>2. Abandons(ids) \in Seq(RawRequest)
      BY <2>1, AbandonsFacts
    <2> QED BY <1>0, <2>1, <2>2, SendAll
  <1>7. ASSUME Initialize PROVE IsSent(k)'
    BY <1>7, InitializeFacts DEF Initialize
  <1>8. ASSUME ReceiveResponse \/ ReceiveEvent PROVE IsSent(k)'
    BY <1>2, <1>8 DEF ReceiveResponse, ReceiveEvent
  <1> QED BY <1>4, <1>5, <1>6, <1>7, <1>8 DEF ClientStep

LEMMA ClientKeepsAwaited ==
    ASSUME Typed, NEW k \in Calls, IsAwaited(k), ClientStep PROVE IsAwaited(k)'
  <1>0. ClientIsTyped /\ LinkIsTyped /\ k \in Ids /\ k \notin Events
    BY TypedParts, IdKinds DEF Ids
  <1>1. UNCHANGED serverVars /\ (clientDisposed => clientDisposed')
    <2>1. UNCHANGED serverVars
      BY DEF ClientStep, Call, CancelCall, Subscribe, Unsubscribe, ClientDispose, Initialize,
         InitializeBut, ReceiveResponse, ReceiveEvent, ReadByClient
    <2>2. clientDisposed' = clientDisposed \/ clientDisposed' = TRUE
      BY DEF ClientStep, Call, CancelCall, Subscribe, Unsubscribe, ClientDispose, Initialize,
         InitializeBut, ReceiveResponse, ReceiveEvent, ReadByClient
    <2> QED BY <2>1, <2>2
  <1>2. IsSent(k) => IsSent(k)'
    BY <1>0, ClientSends
  <1>3. /\ WaitsInTime(k)' <=> WaitsInTime(k)
        /\ IsRunning(k)' <=> IsRunning(k)
        /\ unanswered' = unanswered /\ serverDisposed' = serverDisposed
    BY <1>1 DEF serverVars, registryVars, executionVars, WaitsInTime, IsRunning
  <1>4. ASSUME toClient' = toClient PROVE IsAnswered(k)' <=> IsAnswered(k)
    BY <1>4 DEF IsAnswered
  <1>5. CASE \E c \in Calls : Call(c)
    <2>1. PICK c \in Calls : Call(c)
      BY <1>5
    <2>2. toClient' = toClient
      BY <2>1 DEF Call
    <2>3. k \in handlers' => k \in handlers \/ IsSent(k)'
      <3>1. CASE handlers' = handlers
        BY <3>1
      <3>2. CASE handlers' # handlers
        <4>1. handlers' = handlers \cup {c} /\ toServer' = Append(toServer, Request(c))
          BY <2>1, <3>2 DEF Call
        <4>2. c \in Ids /\ Request(c) \in RawRequest
          BY RequestIs DEF Ids
        <4> QED BY <1>0, <4>1, <4>2, SendMore
      <3> QED BY <3>1, <3>2
    <2> QED BY <1>1, <1>2, <1>3, <1>4, <2>2, <2>3 DEF IsAwaited
  <1>6. CASE \/ \E c \in Calls : CancelCall(c)
             \/ \E e \in Events : Subscribe(e) \/ Unsubscribe(e)
             \/ ClientDispose
    <2>1. toClient' = toClient /\ (k \in handlers' => k \in handlers)
      BY <1>0, <1>6 DEF CancelCall, Subscribe, Unsubscribe, ClientDispose
    <2> QED BY <1>1, <1>2, <1>3, <1>4, <2>1 DEF IsAwaited
  <1>7. CASE Initialize
    <2>1. k \in handlers' => k \in handlers \/ IsSent(k)'
      BY <1>0, <1>7, InitializeFacts DEF Initialize
    <2>2. ReadByClient({"Initialize"}) /\ Head(toClient).id # k
      <3>1. Head(toClient) \in RawResponse /\ Head(toClient).type = "Initialize"
        BY <1>0, <1>7, HeadOfResponses DEF Initialize, InitializeBut
      <3> QED BY <1>0, <1>7, <3>1, MessageToClient, IdsAssumption DEF Initialize, InitializeBut
    <2>3. IsAnswered(k) => IsAnswered(k)'
      BY <1>0, <2>2, AnsweredLess
    <2> QED BY <1>1, <1>2, <1>3, <2>1, <2>3 DEF IsAwaited
  <1>8. CASE ReceiveResponse
    <2>1. handlers' \subseteq handlers /\ (k = Head(toClient).id => k \notin handlers')
      BY <1>8 DEF ReceiveResponse
    <2>2. k \in handlers' /\ IsAnswered(k) => IsAnswered(k)'
      BY <1>0, <1>8, <2>1, AnsweredLess DEF ReceiveResponse
    <2> QED BY <1>1, <1>2, <1>3, <2>1, <2>2 DEF IsAwaited
  <1>9. CASE ReceiveEvent
    <2>1. ReadByClient({"EventFire"}) /\ Head(toClient).id # k /\ handlers' = handlers
      <3>1. Head(toClient) \in RawResponse /\ Head(toClient).type = "EventFire"
        BY <1>0, <1>9, HeadOfResponses DEF ReceiveEvent
      <3> QED BY <1>0, <1>9, <3>1, MessageToClient DEF ReceiveEvent
    <2>2. IsAnswered(k) => IsAnswered(k)'
      BY <1>0, <2>1, AnsweredLess
    <2> QED BY <1>1, <1>2, <1>3, <2>1, <2>2 DEF IsAwaited
  <1> QED BY <1>5, <1>6, <1>7, <1>8, <1>9 DEF ClientStep

(* A request that waits in time: it comes, it times out and is answered, or it runs. *)
LEMMA WaitsInTimeFacts ==
    ASSUME RegistryIsTyped, NEW k \in Ids, WaitsInTime(k)
    PROVE  Waits(k)
  <1>1. PICK i \in DOMAIN pendingRequests[ChannelOf[k]] :
            pendingRequests[ChannelOf[k]][i] = [id |-> k, timerOff |-> FALSE]
    BY DEF WaitsInTime
  <1>2. ChannelOf[k] \in Channels
    BY ChannelsAssumption
  <1>3. i \in 1 .. Len(PendingIds(ChannelOf[k])) /\ PendingIds(ChannelOf[k])[i] = k
    <2>1. DOMAIN pendingRequests[ChannelOf[k]] = 1 .. Len(pendingRequests[ChannelOf[k]])
      BY <1>2 DEF RegistryIsTyped
    <2> QED BY <1>1, <1>2, <2>1, PendingIdsFacts
  <1> QED BY <1>3 DEF Waits, Contains

LEMMA ServerKeepsAwaited ==
    ASSUME Typed, NEW k \in Calls, IsAwaited(k), ServerStep PROVE IsAwaited(k)'
  <1>0. RegistryIsTyped /\ ExecutionIsTyped /\ LinkIsTyped /\ k \in Ids /\ k \notin Events
    BY TypedParts, IdKinds DEF Ids
  <1>1. UNCHANGED clientVars /\ (serverDisposed => serverDisposed')
    <2>1. UNCHANGED clientVars
      BY DEF ServerStep, PendingStep, ReceiveRequest, ReceiveTooEarly, ReceiveAbandon, Settle, Complete,
         Fire, RegisterChannel, FlushPendingRequests, FlushAll, FlushUpTo, PendingTimeout,
         ServerDispose, ReadByServer
    <2>2. serverDisposed' = serverDisposed \/ serverDisposed' = TRUE
      BY DEF ServerStep, PendingStep, ReceiveRequest, ReceiveTooEarly, ReceiveAbandon, Settle, Complete,
         Fire, RegisterChannel, FlushPendingRequests, FlushAll, FlushUpTo, PendingTimeout,
         ServerDispose, serverVars, registryVars
    <2> QED BY <2>1, <2>2
  <1>2. handlers' = handlers /\ clientDisposed' = clientDisposed
    BY <1>1, ClientKeeps
  <1>3. ASSUME toClient' = toClient PROVE IsAnswered(k)' <=> IsAnswered(k)
    BY <1>3 DEF IsAnswered
  <1>4. ASSUME pendingRequests' = pendingRequests PROVE WaitsInTime(k)' <=> WaitsInTime(k)
    BY <1>4 DEF WaitsInTime
  <1>5. ASSUME toServer' = toServer PROVE IsSent(k)' <=> IsSent(k)
    BY <1>5 DEF IsSent
  <1>15. ASSUME running' = running, unanswered' = unanswered
        PROVE  (IsRunning(k)' <=> IsRunning(k)) /\ (k \in unanswered' <=> k \in unanswered)
    BY <1>15 DEF IsRunning
  <1>6. CASE ReceiveRequest
    <2>1. PICK types : types = {"Promise", "EventListen"} /\ ReadByServer(types)
      BY <1>6 DEF ReceiveRequest
    <2>2. PICK id \in Ids : id = Head(toServer).id /\ Head(toServer) = Request(id)
      BY <1>0, <2>1, HeadIs
    <2>3. IsSent(k) <=> k = id \/ IsSent(k)'
      BY <1>0, <2>1, <2>2, ReadOne, RequestsDiffer
    <2>4. /\ pendingRequests' = pendingRequests /\ toClient' = toClient
          /\ IF id \in Throwing THEN UNCHANGED executionVars ELSE Execute(<<id>>)
      BY <1>6, <2>2 DEF ReceiveRequest, ReadByServer, registryVars
    <2>5. unanswered' = unanswered /\ (IsRunning(k) \/ k = id => IsRunning(k)')
      <3>1. CASE id \in Throwing
        BY <1>0, <2>4, <3>1, IdsAssumption DEF executionVars, IsRunning
      <3>2. CASE id \notin Throwing
        <4>1. <<id>> \in Seq(Ids) /\ \A other : Contains(<<id>>, other) <=> other = id
          BY <2>2 DEF Contains
        <4>2. /\ \A n : <<k, n>> \in running' <=>
                          <<k, n>> \in running \/ n \in called[k] + 1 .. called'[k]
              /\ k = id => called'[k] > called[k]
              /\ called'[k] \in Nat /\ unanswered' = unanswered
          BY <1>0, <2>4, <3>2, <4>1, ExecuteFacts
        <4>3. called[k] \in Nat
          BY <1>0 DEF ExecutionIsTyped
        <4>4. k = id => called'[k] \in called[k] + 1 .. called'[k]
          BY <4>2, <4>3
        <4> QED BY <4>2, <4>4 DEF IsRunning
      <3> QED BY <3>1, <3>2
    <2> QED BY <1>1, <1>2, <1>3, <1>4, <2>3, <2>4, <2>5 DEF IsAwaited
  <1>7. CASE ReceiveTooEarly
    <2>1. PICK types : types = {"Promise", "EventListen"} /\ ReadByServer(types)
      BY <1>7 DEF ReceiveTooEarly
    <2>2. PICK id \in Ids : id = Head(toServer).id /\ Head(toServer) = Request(id)
      BY <1>0, <2>1, HeadIs
    <2>3. IsSent(k) <=> k = id \/ IsSent(k)'
      BY <1>0, <2>1, <2>2, ReadOne, RequestsDiffer
    <2>4. running' = running /\ unanswered' = unanswered /\ toClient' = toClient
      BY <1>7 DEF ReceiveTooEarly, ReadByServer, executionVars
    <2>5. (WaitsInTime(k) => WaitsInTime(k)') /\ (k = id => WaitsInTime(k)')
      <3>1. PICK r \in Waiting : r = [id |-> id, timerOff |-> FALSE]
        BY DEF Waiting
      <3>2. pendingRequests' = [pendingRequests EXCEPT ![ChannelOf[id]] = Append(@, r)]
        BY <1>7, <2>2, <3>1 DEF ReceiveTooEarly
      <3>3. PICK queue \in Seq(Waiting) : queue = pendingRequests[ChannelOf[k]]
        BY <1>0, ChannelsAssumption DEF RegistryIsTyped, Waiting
      <3>4. /\ ChannelOf[k] # ChannelOf[id] => pendingRequests'[ChannelOf[k]] = queue
            /\ ChannelOf[k] = ChannelOf[id] => pendingRequests'[ChannelOf[k]] = Append(queue, r)
        BY <1>0, <3>2, <3>3, ChannelsAssumption DEF RegistryIsTyped
      <3>5. /\ \A i \in DOMAIN queue : i \in DOMAIN Append(queue, r) /\ Append(queue, r)[i] = queue[i]
            /\ Len(queue) + 1 \in DOMAIN Append(queue, r) /\ Append(queue, r)[Len(queue) + 1] = r
        BY <3>3
      <3> QED BY <3>1, <3>3, <3>4, <3>5 DEF WaitsInTime
    <2> QED BY <1>1, <1>2, <1>3, <1>15, <2>3, <2>4, <2>5 DEF IsAwaited
  <1>8. CASE ReceiveAbandon
    <2>1. PICK types : types = {"PromiseCancel", "EventDispose"} /\ ReadByServer(types)
      BY <1>8 DEF ReceiveAbandon
    <2>2. PICK id \in Ids : Head(toServer) = Abandon(id)
      BY <1>0, <2>1, HeadIs
    <2>3. IsSent(k) <=> IsSent(k)'
      BY <1>0, <2>1, <2>2, ReadOne, RequestsDiffer
    <2>4. /\ running' = running /\ unanswered' = unanswered /\ pendingRequests' = pendingRequests
          /\ toClient' = toClient
      BY <1>8 DEF ReceiveAbandon, ReadByServer, registryVars
    <2> QED BY <1>1, <1>2, <1>3, <1>4, <1>15, <2>3, <2>4 DEF IsAwaited
  <1>9. ASSUME NEW c \in Calls, NEW n, Complete(c, n) PROVE IsAwaited(k)'
    <2>1. /\ running' = running \ {<<c, n>>} /\ pendingRequests' = pendingRequests
          /\ toServer' = toServer
      BY <1>9 DEF Complete, registryVars
    <2>2. IsRunning(k) => k = c \/ IsRunning(k)'
      BY <2>1 DEF IsRunning
    <2>3. CASE toClient' = toClient /\ unanswered' = unanswered \cup {c}
      BY <1>1, <1>2, <1>3, <1>4, <1>5, <2>1, <2>2, <2>3 DEF IsAwaited
    <2>4. CASE unanswered' = unanswered /\ \E type \in {"PromiseSuccess", "PromiseError"} :
                   toClient' = Append(toClient, Message(type, c))
      <3>1. PICK m \in RawResponse : m.id = c /\ toClient' = Append(toClient, m)
        BY <2>4, Responses DEF Message
      <3>2. (IsAnswered(k) => IsAnswered(k)') /\ (k = c => IsAnswered(k)')
        BY <1>0, <3>1, AnsweredMore
      <3> QED BY <1>1, <1>2, <1>4, <1>5, <2>1, <2>2, <2>4, <3>2 DEF IsAwaited
    <2> QED BY <1>9, <2>3, <2>4 DEF Complete
  <1>10. ASSUME NEW e \in Events, Fire(e) PROVE IsAwaited(k)'
    <2>1. PICK fires : fires = [i \in 1 .. listeners[e] |-> Message("EventFire", e)]
      OBVIOUS
    <2>2. fires \in Seq(RawResponse)
      BY <1>0, <2>1, Responses DEF ExecutionIsTyped
    <2>3. \A i \in DOMAIN toClient : i \in DOMAIN toClient' /\ toClient'[i] = toClient[i]
      <3>1. toClient' = toClient \o fires /\ toClient \in Seq(RawResponse)
        BY <1>0, <1>10, <2>1 DEF Fire, LinkIsTyped
      <3>2. DOMAIN toClient = 1 .. Len(toClient)
        BY <3>1
      <3> QED BY <2>2, <3>1, <3>2, ConcatFacts
    <2>4. IsAnswered(k) => IsAnswered(k)'
      BY <2>3 DEF IsAnswered
    <2>5. /\ running' = running /\ unanswered' = unanswered /\ pendingRequests' = pendingRequests
          /\ toServer' = toServer
      BY <1>10 DEF Fire, serverVars, registryVars, executionVars
    <2> QED BY <1>1, <1>2, <1>4, <1>5, <1>15, <2>4, <2>5 DEF IsAwaited
  <1>11. ASSUME NEW ch \in Channels, RegisterChannel(ch) PROVE IsAwaited(k)'
    <2>1. /\ running' = running /\ pendingRequests' = pendingRequests /\ toServer' = toServer
          /\ toClient' = toClient /\ unanswered' = unanswered
      BY <1>11 DEF RegisterChannel, executionVars
    <2> QED BY <1>1, <1>2, <1>3, <1>4, <1>5, <1>15, <2>1 DEF IsAwaited
  <1>12. ASSUME NEW ch \in Channels, FlushPendingRequests(ch) PROVE IsAwaited(k)'
    <2>1. PICK ids \in Seq(Ids) :
              /\ Execute(ids) /\ \A e \in Throwing : ~Contains(ids, e)
              /\ FlushedAll(ch, ids) \/ FlushedUpTo(ch, ids)
      BY <1>0, <1>12, FlushFacts
    <2>2. toServer' = toServer /\ toClient' = toClient
      BY <1>12, FlushKeepsRest
    <2>3. unanswered' = unanswered /\ (IsRunning(k) \/ Contains(ids, k) => IsRunning(k)')
      <3>1. /\ \A n : <<k, n>> \in running' <=>
                        <<k, n>> \in running \/ n \in called[k] + 1 .. called'[k]
            /\ Contains(ids, k) => called'[k] > called[k]
            /\ called'[k] \in Nat /\ unanswered' = unanswered
        BY <1>0, <2>1, ExecuteFacts
      <3>2. called[k] \in Nat
        BY <1>0 DEF ExecutionIsTyped
      <3>3. Contains(ids, k) => called'[k] \in called[k] + 1 .. called'[k]
        BY <3>1, <3>2
      <3> QED BY <3>1, <3>3 DEF IsRunning
    <2>4. WaitsInTime(k) => WaitsInTime(k)' \/ Contains(ids, k)
      <3> SUFFICES ASSUME WaitsInTime(k), ~Contains(ids, k) PROVE WaitsInTime(k)'
        OBVIOUS
      <3>1. ChannelOf[k] \in Channels /\ Waits(k)
        BY <1>0, WaitsInTimeFacts, ChannelsAssumption
      <3>2. PICK j \in DOMAIN pendingRequests[ChannelOf[k]] :
                pendingRequests[ChannelOf[k]][j] = [id |-> k, timerOff |-> FALSE]
        BY DEF WaitsInTime
      <3>3. CASE FlushedAll(ch, ids)
        <4>1. ChannelOf[k] # ch
          BY <3>1, <3>3 DEF FlushedAll, Waits
        <4>2. pendingRequests'[ChannelOf[k]] = pendingRequests[ChannelOf[k]]
          BY <1>0, <3>1, <3>3, <4>1 DEF FlushedAll, RegistryIsTyped
        <4> QED BY <4>2 DEF WaitsInTime
      <3>4. CASE FlushedUpTo(ch, ids)
        <4>1. k \notin Throwing
          BY <1>0, IdsAssumption
        <4>2. /\ pendingRequests'[ChannelOf[k]][j] = pendingRequests[ChannelOf[k]][j]
              /\ j \in DOMAIN pendingRequests'[ChannelOf[k]]
          BY <3>1, <3>2, <3>4, <4>1 DEF FlushedUpTo
        <4> QED BY <3>2, <4>2 DEF WaitsInTime
      <3> QED BY <2>1, <3>3, <3>4
    <2> QED BY <1>1, <1>2, <1>3, <1>5, <2>2, <2>3, <2>4 DEF IsAwaited
  <1>13. ASSUME NEW ch \in Channels, NEW i \in DOMAIN pendingRequests[ch], PendingTimeout(ch, i)
         PROVE  IsAwaited(k)'
    <2>1. running' = running /\ unanswered' = unanswered /\ toServer' = toServer
          /\ pendingRequests' = [pendingRequests EXCEPT ![ch][i].timerOff = TRUE]
      BY <1>13 DEF PendingTimeout, executionVars
    <2>2. PICK c : c = pendingRequests[ch][i].id
      OBVIOUS
    <2>3. \/ c \notin Calls /\ toClient' = toClient
          \/ c \in Calls /\ toClient' = Append(toClient, Message("PromiseError", c))
      BY <1>13, <2>2 DEF PendingTimeout
    <2>4. (IsAnswered(k) => IsAnswered(k)') /\ (k = c => IsAnswered(k)')
      <3>1. c \in Calls => Message("PromiseError", c) \in RawResponse
        BY Responses
      <3>2. Message("PromiseError", c).id = c
        BY DEF Message
      <3> QED BY <1>0, <1>3, <2>3, <3>1, <3>2, AnsweredMore
    <2>5. WaitsInTime(k) => WaitsInTime(k)' \/ k = c
      <3> SUFFICES ASSUME WaitsInTime(k), k # c PROVE WaitsInTime(k)'
        OBVIOUS
      <3>1. PICK j \in DOMAIN pendingRequests[ChannelOf[k]] :
                pendingRequests[ChannelOf[k]][j] = [id |-> k, timerOff |-> FALSE]
        BY DEF WaitsInTime
      <3>2. ChannelOf[k] # ch \/ i # j
        BY <2>2, <3>1
      <3>3. /\ DOMAIN pendingRequests'[ChannelOf[k]] = DOMAIN pendingRequests[ChannelOf[k]]
            /\ pendingRequests'[ChannelOf[k]][j] = pendingRequests[ChannelOf[k]][j]
        BY <1>0, <2>1, <3>1, <3>2, TimeoutFacts, ChannelsAssumption
      <3> QED BY <3>1, <3>3 DEF WaitsInTime
    <2> QED BY <1>1, <1>2, <1>5, <1>15, <2>1, <2>4, <2>5 DEF IsAwaited
  <1>14. CASE ServerDispose
    BY <1>14 DEF ServerDispose, IsAwaited
  <1> QED BY <1>6, <1>7, <1>8, <1>9, <1>10, <1>11, <1>12, <1>13, <1>14
     DEF ServerStep, PendingStep, Settle

LEMMA ClientKeepsHandled ==
    ASSUME Typed, NEW k \in Calls, IsHandled(k), ClientStep PROVE IsHandled(k)'
  <1>0. ClientIsTyped /\ LinkIsTyped /\ k \in Ids /\ k \notin Events
    BY TypedParts, IdKinds DEF Ids
  <1>1. ASSUME NEW c \in Calls, Call(c) PROVE IsHandled(k)'
    <2>1. c \in Ids
      BY DEF Ids
    <2>2. k # c => outcome'[k] = outcome[k]
      BY <1>0, <1>1 DEF Call, ClientIsTyped
    <2>3. CASE clientState = "Uninitialized"
      <3>1. deferred' = Append(deferred, c) /\ handlers' = handlers
            /\ clientRequests' = clientRequests \cup {c}
        BY <1>0, <1>1, <2>3 DEF Call, ClientIsTyped
      <3>2. IsDeferred(k)' <=> IsDeferred(k) \/ k = c
        BY <1>0, <2>1, <3>1, DeferMore
      <3> QED BY <2>2, <3>1, <3>2 DEF IsHandled
    <2>4. CASE /\ deferred' = deferred /\ handlers' = handlers /\ clientRequests' = clientRequests
               /\ outcome'[c] = "error"
      BY <2>2, <2>4 DEF IsHandled, IsDeferred
    <2>5. CASE /\ deferred' = deferred /\ handlers' = handlers \cup {c}
               /\ clientRequests' = clientRequests \cup {c}
      BY <2>2, <2>5 DEF IsHandled, IsDeferred
    <2> QED BY <1>0, <1>1, <2>3, <2>4, <2>5 DEF Call, ClientIsTyped
  <1>2. ASSUME NEW c \in Calls, CancelCall(c) PROVE IsHandled(k)'
    <2>1. /\ outcome'[k] = IF k = c THEN "cancelled" ELSE outcome[k]
          /\ clientRequests' = clientRequests \ {c} /\ handlers' = handlers
          /\ deferred' = deferred \/ deferred' = Only(deferred, Ids \ {c})
      BY <1>0, <1>2 DEF CancelCall, ClientIsTyped
    <2>2. IsDeferred(k) /\ k # c => IsDeferred(k)'
      BY <1>0, <2>1, DeferLess DEF IsDeferred
    <2> QED BY <2>1, <2>2 DEF IsHandled
  <1>3. ASSUME NEW e \in Events, Subscribe(e) \/ Unsubscribe(e) PROVE IsHandled(k)'
    <2>1. e \in Ids /\ k # e
      BY <1>0 DEF Ids
    <2>2. /\ outcome' = outcome /\ (k \in handlers => k \in handlers')
          /\ k \in clientRequests => k \in clientRequests'
          /\ deferred' = deferred \/ deferred' = Append(deferred, e)
             \/ deferred' = Only(deferred, Ids \ {e})
      BY <1>3, <2>1 DEF Subscribe, Unsubscribe
    <2>3. IsDeferred(k) => IsDeferred(k)'
      <3>1. CASE deferred' = deferred
        BY <3>1 DEF IsDeferred
      <3>2. CASE deferred' = Append(deferred, e)
        BY <1>0, <2>1, <3>2, DeferMore
      <3>3. CASE deferred' = Only(deferred, Ids \ {e})
        BY <1>0, <2>1, <3>3, DeferLess
      <3> QED BY <2>2, <3>1, <3>2, <3>3
    <2> QED BY <2>2, <2>3 DEF IsHandled
  <1>4. ASSUME ClientDispose PROVE IsHandled(k)'
    <2>1. outcome'[k] = IF k \in clientRequests THEN "cancelled" ELSE outcome[k]
      BY <1>4 DEF ClientDispose
    <2> QED BY <2>1 DEF IsHandled
  <1>5. ASSUME Initialize PROVE IsHandled(k)'
    <2>0. PICK failed \in SUBSET (ToSet(deferred) \cap Calls) : InitializeBut(failed)
      BY <1>5 DEF Initialize
    <2>1. /\ ~IsDeferred(k)'
          /\ k \in handlers' <=> k \in handlers \/ (IsDeferred(k) /\ k \notin failed)
          /\ k \in clientRequests' <=>
                (k \in clientRequests /\ ~IsDeferred(k)) \/ (k \notin failed /\
                    (k \in clientRequests \/ IsDeferred(k)))
          /\ outcome'[k] = IF IsDeferred(k) /\ k \in failed THEN "error" ELSE outcome[k]
      BY <1>0, <2>0, InitializeFacts
    <2> QED BY <2>1 DEF IsHandled
  <1>6. ASSUME ReceiveResponse PROVE IsHandled(k)'
    <2>1. PICK c : c = Head(toClient).id
      OBVIOUS
    <2>2. c \in Calls
      BY <1>0, <1>6, <2>1, HeadOfResponses, MessageToClient DEF ReceiveResponse
    <2>3. CASE c \in handlers
      <3>1. /\ handlers' = handlers \ {c} /\ clientRequests' = clientRequests \ {c}
            /\ outcome'[c] # "pending" /\ (k # c => outcome'[k] = outcome[k])
            /\ deferred' = deferred
        BY <1>0, <1>6, <2>1, <2>2, <2>3 DEF ReceiveResponse, ClientIsTyped
      <3> QED BY <3>1 DEF IsHandled, IsDeferred
    <2>4. CASE c \notin handlers
      <3>1. UNCHANGED <<handlers, clientRequests, outcome, deferred>>
        BY <1>6, <2>1, <2>4 DEF ReceiveResponse
      <3> QED BY <3>1 DEF IsHandled, IsDeferred
    <2> QED BY <2>3, <2>4
  <1>7. ASSUME ReceiveEvent PROVE IsHandled(k)'
    BY <1>7 DEF ReceiveEvent, IsHandled, IsDeferred
  <1> QED BY <1>1, <1>2, <1>3, <1>4, <1>5, <1>6, <1>7 DEF ClientStep

LEMMA NextKeepsMatch ==
    ASSUME Typed, HandlersMatchCalls, [Next]_vars PROVE HandlersMatchCalls'
  <1>1. ASSUME NEW k \in Calls PROVE IsAwaited(k)' /\ IsHandled(k)'
    <2>1. IsAwaited(k) /\ IsHandled(k)
      BY MatchParts
    <2>2. CASE ClientStep
      BY <2>1, <2>2, ClientKeepsAwaited, ClientKeepsHandled
    <2>3. CASE ServerStep
      <3>1. UNCHANGED clientVars
        BY <2>3 DEF ServerStep, PendingStep, ReceiveRequest, ReceiveTooEarly, ReceiveAbandon,
           Settle, Complete, Fire, RegisterChannel, FlushPendingRequests, FlushAll, FlushUpTo,
           PendingTimeout, ServerDispose, ReadByServer
      <3>2. IsHandled(k)'
        BY <2>1, <3>1 DEF clientVars, IsHandled, IsDeferred
      <3> QED BY <2>1, <2>3, <3>2, ServerKeepsAwaited
    <2>4. CASE UNCHANGED vars
      BY <2>1, <2>4 DEF vars, clientVars, serverVars, registryVars, executionVars, IsAwaited,
         IsHandled, IsDeferred, IsSent, WaitsInTime, IsAnswered, IsRunning
    <2> QED BY <2>2, <2>3, <2>4 DEF Next
  <1> QED BY <1>1, MatchPartsNext, NextIsTyped

LEMMA MatchInitially == Init => HandlersMatchCalls
  BY DEF Init, HandlersMatchCalls, HandlerIsAwaited, PendingIsHandled

-----------------------------------------------------------------------------
(* A call that runs can be cancelled *)

IsCancellable(c) ==
    /\ c \in serverRequests =>
          <<c, called[c]>> \in running /\ <<c, called[c]>> \notin tokenCancelled
    /\ called[c] = 1 /\ <<c, 1>> \in running /\ <<c, 1>> \notin tokenCancelled =>
          c \in serverRequests

LEMMA CancellableParts ==
    RunningIsCancellable <=> \A c \in Calls : IsCancellable(c)
  BY DEF RunningIsCancellable, IsCancellable

LEMMA CancellablePartsNext ==
    RunningIsCancellable' <=> \A c \in Calls : IsCancellable(c)'
  BY DEF RunningIsCancellable, IsCancellable

(* What begins to run has a number of its own, so nothing has cancelled its token. *)
LEMMA ExecuteKeepsCancellable ==
    ASSUME ExecutionIsTyped, NEW ids \in Seq(Ids), Execute(ids),
           \A e \in Throwing : ~Contains(ids, e), NEW k \in Calls, IsCancellable(k)
    PROVE  IsCancellable(k)'
  <1>1. /\ called'[k] \in Nat
        /\ \A n : <<k, n>> \in running' <=>
                    <<k, n>> \in running \/ n \in called[k] + 1 .. called'[k]
        /\ ~Contains(ids, k) => called'[k] = called[k]
        /\ Contains(ids, k) => called'[k] > called[k]
        /\ k \in serverRequests' <=> k \in serverRequests \/ Contains(ids, k)
        /\ tokenCancelled' = tokenCancelled
    BY ExecuteFacts DEF Ids
  <1>2. called[k] \in Nat /\ \A n : <<k, n>> \in tokenCancelled => n \in 1 .. called[k]
    BY DEF ExecutionIsTyped
  <1>3. CASE Contains(ids, k)
    <2>1. called'[k] \in called[k] + 1 .. called'[k] /\ called'[k] \notin 1 .. called[k]
      BY <1>1, <1>2, <1>3
    <2>2. <<k, called'[k]>> \in running' /\ <<k, called'[k]>> \notin tokenCancelled'
      BY <1>1, <1>2, <2>1
    <2> QED BY <1>1, <1>3, <2>2 DEF IsCancellable
  <1>4. CASE ~Contains(ids, k)
    <2>1. called[k] + 1 .. called'[k] = {}
      BY <1>1, <1>2, <1>4
    <2> QED BY <1>1, <1>4, <2>1 DEF IsCancellable
  <1> QED BY <1>3, <1>4

LEMMA ServerKeepsCancellable ==
    ASSUME Typed, NEW k \in Calls, IsCancellable(k), ServerStep
    PROVE  IsCancellable(k)'
  <1>0. RegistryIsTyped /\ ExecutionIsTyped /\ LinkIsTyped /\ k \in Ids /\ k \notin Events
    BY TypedParts, IdKinds DEF Ids
  <1>1. CASE ReceiveRequest
    <2>1. PICK types : types = {"Promise", "EventListen"} /\ ReadByServer(types)
      BY <1>1 DEF ReceiveRequest
    <2>2. PICK id \in Ids : id = Head(toServer).id /\ Head(toServer) = Request(id)
      BY <1>0, <2>1, HeadIs
    <2>3. /\ IF id \in Throwing THEN UNCHANGED executionVars ELSE Execute(<<id>>)
          /\ <<id>> \in Seq(Ids) /\ \A e : Contains(<<id>>, e) <=> e = id
      BY <1>1, <2>2 DEF ReceiveRequest, Contains
    <2>4. CASE id \in Throwing
      BY <2>3, <2>4 DEF executionVars, IsCancellable
    <2>5. CASE id \notin Throwing
      BY <1>0, <2>3, <2>5, ExecuteKeepsCancellable
    <2> QED BY <2>4, <2>5
  <1>2. CASE ReceiveTooEarly
    BY <1>2 DEF ReceiveTooEarly, executionVars, IsCancellable
  <1>3. CASE ReceiveAbandon
    <2>1. PICK id : id = Head(toServer).id
      OBVIOUS
    <2>2. /\ running' = running /\ called' = called
          /\ \/ /\ id \in serverRequests /\ serverRequests' = serverRequests \ {id}
                /\ tokenCancelled' = tokenCancelled \cup LatestRuns({id})
             \/ UNCHANGED <<serverRequests, tokenCancelled>>
      BY <1>3, <2>1 DEF ReceiveAbandon
    <2>3. CASE UNCHANGED <<serverRequests, tokenCancelled>>
      BY <2>2, <2>3 DEF IsCancellable
    <2>4. CASE /\ id \in serverRequests /\ serverRequests' = serverRequests \ {id}
               /\ tokenCancelled' = tokenCancelled \cup LatestRuns({id})
      <3>1. CASE k = id
        <4>1. <<k, called[k]>> \in running => <<k, called[k]>> \in LatestRuns({id})
          BY <3>1 DEF LatestRuns
        <4> QED BY <2>2, <2>4, <3>1, <4>1 DEF IsCancellable
      <3>2. CASE k # id
        <4>1. \A n : <<k, n>> \notin LatestRuns({id})
          BY <3>2 DEF LatestRuns
        <4> QED BY <2>2, <2>4, <3>2, <4>1 DEF IsCancellable
      <3> QED BY <3>1, <3>2
    <2> QED BY <2>2, <2>3, <2>4
  <1>4. ASSUME NEW c \in Calls, NEW n \in 1 .. called[c], Complete(c, n) PROVE IsCancellable(k)'
    <2>1. /\ running' = running \ {<<c, n>>} /\ tokenCancelled' = tokenCancelled \ {<<c, n>>}
          /\ serverRequests' = serverRequests \ {c} /\ called' = called
      BY <1>4 DEF Complete
    <2>2. CASE k = c
      <3>1. called[c] = 1 => n = 1
        BY <1>4
      <3> QED BY <2>1, <2>2, <3>1 DEF IsCancellable
    <2>3. CASE k # c
      BY <2>1, <2>3 DEF IsCancellable
    <2> QED BY <2>2, <2>3
  <1>5. ASSUME NEW e \in Events, Fire(e) PROVE IsCancellable(k)'
    BY <1>5 DEF Fire, serverVars, executionVars, IsCancellable
  <1>6. ASSUME NEW ch \in Channels, RegisterChannel(ch) PROVE IsCancellable(k)'
    BY <1>6 DEF RegisterChannel, executionVars, IsCancellable
  <1>7. ASSUME NEW ch \in Channels, FlushPendingRequests(ch) PROVE IsCancellable(k)'
    <2>1. PICK ids \in Seq(Ids) : Execute(ids) /\ \A e \in Throwing : ~Contains(ids, e)
      BY <1>0, <1>7, FlushFacts
    <2> QED BY <1>0, <2>1, ExecuteKeepsCancellable
  <1>8. ASSUME NEW ch \in Channels, NEW i \in DOMAIN pendingRequests[ch], PendingTimeout(ch, i)
        PROVE  IsCancellable(k)'
    BY <1>8 DEF PendingTimeout, executionVars, IsCancellable
  <1>9. CASE ServerDispose
    <2>1. /\ serverRequests' = {} /\ running' = running /\ called' = called
          /\ tokenCancelled' = tokenCancelled \cup LatestRuns(serverRequests)
      BY <1>9 DEF ServerDispose
    <2>2. k \in serverRequests /\ <<k, called[k]>> \in running =>
              <<k, called[k]>> \in LatestRuns(serverRequests)
      BY DEF LatestRuns
    <2> QED BY <2>1, <2>2 DEF IsCancellable
  <1> QED BY <1>1, <1>2, <1>3, <1>4, <1>5, <1>6, <1>7, <1>8, <1>9
     DEF ServerStep, PendingStep, Settle

LEMMA NextKeepsCancellable ==
    ASSUME Typed, RunningIsCancellable, [Next]_vars PROVE RunningIsCancellable'
  <1>1. ASSUME NEW k \in Calls PROVE IsCancellable(k)'
    <2>1. IsCancellable(k)
      BY CancellableParts
    <2>2. CASE ServerStep
      BY <2>1, <2>2, ServerKeepsCancellable
    <2>3. CASE ClientStep \/ UNCHANGED vars
      <3>1. UNCHANGED serverVars
        BY <2>3 DEF ClientStep, Call, CancelCall, Subscribe, Unsubscribe, ClientDispose, Initialize,
           InitializeBut, ReceiveResponse, ReceiveEvent, ReadByClient, vars
      <3> QED BY <2>1, <3>1 DEF serverVars, executionVars, IsCancellable
    <2> QED BY <2>2, <2>3 DEF Next
  <1> QED BY <1>1, CancellablePartsNext

LEMMA CancellableInitially == Init => RunningIsCancellable
  BY DEF Init, RunningIsCancellable

-----------------------------------------------------------------------------
(* Messages about one event, and the two messages about one call *)

LEMMA LeadsNone ==
    ASSUME NEW e, NEW from \in {0, 1}, NEW to
    PROVE  Leads(<<>>, e, from, to) <=> from = to
  <1>1. Len(<<>>) = 0 /\ 0 .. 0 = {0} /\ 1 .. 0 = {}
    OBVIOUS
  <1>2. Leads(<<>>, e, from, to) => from = to
    BY <1>1 DEF Leads
  <1>3. from = to => Leads(<<>>, e, from, to)
    <2> SUFFICES ASSUME from = to PROVE Leads(<<>>, e, from, to)
      OBVIOUS
    <2>1. PICK f : f = [i \in 0 .. 0 |-> from]
      OBVIOUS
    <2>2. f \in [0 .. 0 -> {0, 1}] /\ f[0] = from
      BY <2>1
    <2> QED BY <1>1, <2>2 DEF Leads
  <1> QED BY <1>2, <1>3

LEMMA LeadsFirst ==
    ASSUME NEW msgs \in Seq(RawRequest), msgs # <<>>, NEW e \in Ids, NEW from, NEW to,
           Leads(msgs, e, from, to)
    PROVE  /\ Head(msgs).id # e => Leads(Tail(msgs), e, from, to)
           /\ Head(msgs) = Request(e) => from = 0 /\ Leads(Tail(msgs), e, 1, to)
           /\ Head(msgs) = Abandon(e) => from = 1 /\ Leads(Tail(msgs), e, 0, to)
  <1>1. PICK f \in [0 .. Len(msgs) -> {0, 1}] :
            /\ f[0] = from /\ f[Len(msgs)] = to
            /\ \A i \in 1 .. Len(msgs) :
                  /\ msgs[i].id # e => f[i] = f[i - 1]
                  /\ msgs[i].id = e => f[i] # f[i - 1] /\ (msgs[i] = Request(e) <=> f[i] = 1)
    BY DEF Leads
  <1>2. PICK n \in Nat : n = Len(msgs) /\ n > 0
    OBVIOUS
  <1>3. /\ Head(msgs) = msgs[1] /\ Len(Tail(msgs)) = n - 1
        /\ \A i \in 1 .. n - 1 : Tail(msgs)[i] = msgs[i + 1]
    BY <1>2
  <1>4. PICK g : g = [i \in 0 .. n - 1 |-> f[i + 1]]
    OBVIOUS
  <1>5. g \in [0 .. n - 1 -> {0, 1}] /\ g[0] = f[1] /\ g[n - 1] = to
    BY <1>1, <1>2, <1>4
  <1>6. \A i \in 1 .. n - 1 :
            /\ Tail(msgs)[i].id # e => g[i] = g[i - 1]
            /\ Tail(msgs)[i].id = e => g[i] # g[i - 1] /\ (Tail(msgs)[i] = Request(e) <=> g[i] = 1)
    <2> SUFFICES ASSUME NEW i \in 1 .. n - 1
                 PROVE  /\ Tail(msgs)[i].id # e => g[i] = g[i - 1]
                        /\ Tail(msgs)[i].id = e =>
                              g[i] # g[i - 1] /\ (Tail(msgs)[i] = Request(e) <=> g[i] = 1)
      OBVIOUS
    <2>1. i + 1 \in 1 .. n /\ (i + 1) - 1 = i /\ i \in 0 .. n - 1 /\ i - 1 \in 0 .. n - 1
          /\ (i - 1) + 1 = i
      BY <1>2
    <2>2. g[i] = f[i + 1] /\ g[i - 1] = f[i] /\ Tail(msgs)[i] = msgs[i + 1]
      BY <1>3, <1>4, <2>1
    <2>3. PICK m : m = msgs[i + 1]
      OBVIOUS
    <2>4. /\ m.id # e => f[i + 1] = f[i]
          /\ m.id = e => f[i + 1] # f[i] /\ (m = Request(e) <=> f[i + 1] = 1)
      BY <1>1, <1>2, <2>1, <2>3
    <2> QED BY <2>2, <2>3, <2>4
  <1>7. Leads(Tail(msgs), e, f[1], to)
    <2>1. PICK rest : rest = Tail(msgs)
      OBVIOUS
    <2>2. Len(rest) = n - 1
      BY <1>3, <2>1
    <2>3. Leads(rest, e, f[1], to)
      <3>1. g \in [0 .. Len(rest) -> {0, 1}] /\ g[0] = f[1] /\ g[Len(rest)] = to
        BY <1>5, <2>2
      <3>2. \A i \in 1 .. Len(rest) :
                /\ rest[i].id # e => g[i] = g[i - 1]
                /\ rest[i].id = e => g[i] # g[i - 1] /\ (rest[i] = Request(e) <=> g[i] = 1)
        BY <1>6, <2>1, <2>2
      <3> QED BY <3>1, <3>2, Zenon DEF Leads
    <2> QED BY <2>1, <2>3
  <1>8. 1 \in 1 .. n /\ 1 - 1 = 0 /\ f[1] \in {0, 1} /\ f[0] \in {0, 1}
    BY <1>1, <1>2
  <1>9. /\ msgs[1].id # e => f[1] = from
        /\ msgs[1].id = e => f[1] # from /\ (msgs[1] = Request(e) <=> f[1] = 1)
    BY <1>1, <1>2, <1>8
  <1>10. Request(e).id = e /\ Abandon(e).id = e /\ Request(e) # Abandon(e)
    BY RequestIs, RequestsDiffer
  <1>11. CASE msgs[1].id # e
    BY <1>3, <1>7, <1>9, <1>10, <1>11
  <1>12. CASE msgs[1] = Request(e)
    <2>1. f[1] = 1 /\ from = 0
      BY <1>1, <1>8, <1>9, <1>10, <1>12
    <2> QED BY <1>3, <1>7, <1>10, <1>12, <2>1
  <1>13. CASE msgs[1] = Abandon(e)
    <2>1. f[1] = 0 /\ from = 1
      BY <1>1, <1>8, <1>9, <1>10, <1>13
    <2> QED BY <1>3, <1>7, <1>10, <1>13, <2>1
  <1>14. CASE msgs[1].id = e /\ msgs[1] # Request(e) /\ msgs[1] # Abandon(e)
    BY <1>3, <1>14
  <1> QED BY <1>11, <1>12, <1>13, <1>14

(* Where the messages that follow first change what is wanted. *)
LEMMA LeadsMore ==
    ASSUME NEW msgs \in Seq(RawRequest), NEW ms \in Seq(RawRequest), NEW e, NEW from, NEW to,
           NEW last \in {0, 1}, Leads(msgs, e, from, to), NEW at \in 1 .. Len(ms) + 1,
           \A i \in 1 .. Len(ms) : ms[i].id = e <=> i = at,
           IF at = Len(ms) + 1 THEN last = to
           ELSE last # to /\ (ms[at] = Request(e) <=> last = 1)
    PROVE  Leads(msgs \o ms, e, from, last)
  <1>1. PICK f \in [0 .. Len(msgs) -> {0, 1}] :
            /\ f[0] = from /\ f[Len(msgs)] = to
            /\ \A i \in 1 .. Len(msgs) :
                  /\ msgs[i].id # e => f[i] = f[i - 1]
                  /\ msgs[i].id = e => f[i] # f[i - 1] /\ (msgs[i] = Request(e) <=> f[i] = 1)
    BY DEF Leads
  <1>2. PICK n \in Nat, k \in Nat : n = Len(msgs) /\ k = Len(ms)
    OBVIOUS
  <1>3. /\ Len(msgs \o ms) = n + k
        /\ \A i \in 1 .. n : (msgs \o ms)[i] = msgs[i]
        /\ \A i \in 1 .. k : (msgs \o ms)[n + i] = ms[i]
    BY <1>2, ConcatFacts
  <1>4. PICK all : all = msgs \o ms
    OBVIOUS
  <1>5. PICK g : g = [i \in 0 .. n + k |-> IF i <= n THEN f[i] ELSE IF i < n + at THEN to ELSE last]
    OBVIOUS
  <1>6. to \in {0, 1}
    BY <1>1, <1>2
  <1>7. /\ g \in [0 .. n + k -> {0, 1}] /\ g[0] = from
        /\ \A i \in 0 .. n : g[i] = f[i]
        /\ \A i \in 0 .. k : g[n + i] = IF i < at THEN to ELSE last
    BY <1>1, <1>2, <1>5, <1>6
  <1>8. g[n + k] = last
    BY <1>2, <1>7
  <1>9. ASSUME NEW i \in 1 .. n + k
        PROVE  /\ all[i].id # e => g[i] = g[i - 1]
               /\ all[i].id = e => g[i] # g[i - 1] /\ (all[i] = Request(e) <=> g[i] = 1)
    <2>1. CASE i <= n
      <3>1. i \in 1 .. n /\ i \in 0 .. n /\ i - 1 \in 0 .. n
        BY <1>2, <2>1
      <3>2. all[i] = msgs[i] /\ g[i] = f[i] /\ g[i - 1] = f[i - 1]
        BY <1>3, <1>4, <1>7, <3>1
      <3>3. PICK m : m = msgs[i]
        OBVIOUS
      <3>4. /\ m.id # e => f[i] = f[i - 1]
            /\ m.id = e => f[i] # f[i - 1] /\ (m = Request(e) <=> f[i] = 1)
        BY <1>1, <1>2, <3>1, <3>3
      <3> QED BY <3>2, <3>3, <3>4
    <2>2. CASE i > n
      <3>1. PICK j \in 1 .. k : i = n + j
        <4>1. i - n \in 1 .. k /\ i = n + (i - n)
          BY <1>2, <2>2
        <4> QED BY <4>1
      <3>2. j \in 0 .. k /\ j - 1 \in 0 .. k /\ i - 1 = n + (j - 1)
        BY <1>2, <3>1
      <3>3. /\ all[i] = ms[j] /\ g[i] = IF j < at THEN to ELSE last
            /\ g[i - 1] = IF j - 1 < at THEN to ELSE last
        BY <1>3, <1>4, <1>7, <3>1, <3>2
      <3>4. ms[j].id = e <=> j = at
        BY <1>2, <3>1
      <3>5. CASE j = at
        <4>1. g[i] = last /\ g[i - 1] = to /\ last # to /\ (ms[j] = Request(e) <=> last = 1)
          BY <1>2, <3>1, <3>3, <3>5
        <4> QED BY <3>3, <3>4, <3>5, <4>1
      <3>6. CASE j # at
        <4>1. g[i] = g[i - 1]
          BY <1>2, <3>1, <3>3, <3>6
        <4> QED BY <3>3, <3>4, <3>6, <4>1
      <3> QED BY <3>5, <3>6
    <2> QED BY <1>2, <2>1, <2>2
  <1>10. Len(all) = n + k
    BY <1>3, <1>4
  <1>11. Leads(all, e, from, last)
    <2>1. g \in [0 .. Len(all) -> {0, 1}] /\ g[0] = from /\ g[Len(all)] = last
      BY <1>7, <1>8, <1>10
    <2>2. \A i \in 1 .. Len(all) :
              /\ all[i].id # e => g[i] = g[i - 1]
              /\ all[i].id = e => g[i] # g[i - 1] /\ (all[i] = Request(e) <=> g[i] = 1)
      BY <1>9, <1>10
    <2> QED BY <2>1, <2>2, Zenon DEF Leads
  <1> QED BY <1>4, <1>11

LEMMA AppendIsConcat ==
    ASSUME NEW T, NEW seq \in Seq(T), NEW x \in T
    PROVE  Append(seq, x) = seq \o <<x>> /\ <<x>> \in Seq(T) /\ Len(<<x>>) = 1 /\ <<x>>[1] = x
  OBVIOUS

LEMMA LeadsNext ==
    ASSUME NEW msgs \in Seq(RawRequest), NEW m \in RawRequest, NEW e \in Ids, NEW from, NEW to,
           Leads(msgs, e, from, to)
    PROVE  /\ m.id # e => Leads(Append(msgs, m), e, from, to)
           /\ m = Request(e) /\ to = 0 => Leads(Append(msgs, m), e, from, 1)
           /\ m = Abandon(e) /\ to = 1 => Leads(Append(msgs, m), e, from, 0)
  <1>1. PICK ms \in Seq(RawRequest) : /\ Append(msgs, m) = msgs \o ms
                                      /\ Len(ms) = 1 /\ ms[1] = m
    <2>1. PICK ms : ms = <<m>>
      OBVIOUS
    <2>2. ms \in Seq(RawRequest) /\ Append(msgs, m) = msgs \o ms /\ Len(ms) = 1 /\ ms[1] = m
      BY <2>1, AppendIsConcat
    <2> QED BY <2>2
  <1>2. 1 .. Len(ms) = {1} /\ 1 \in 1 .. Len(ms) + 1 /\ 2 \in 1 .. Len(ms) + 1
    BY <1>1
  <1>3. Request(e).id = e /\ Abandon(e).id = e /\ Request(e) # Abandon(e)
    BY RequestIs, RequestsDiffer
  <1>4. to \in {0, 1}
    <2>1. Len(msgs) \in 0 .. Len(msgs)
      OBVIOUS
    <2> QED BY <2>1 DEF Leads
  <1>5. ASSUME m.id # e PROVE Leads(Append(msgs, m), e, from, to)
    <2>1. \A i \in 1 .. Len(ms) : ms[i].id = e <=> i = 2
      BY <1>1, <1>2, <1>5
    <2> QED BY <1>1, <1>2, <1>4, <2>1, LeadsMore
  <1>6. ASSUME m = Request(e), to = 0 PROVE Leads(Append(msgs, m), e, from, 1)
    <2>1. \A i \in 1 .. Len(ms) : ms[i].id = e <=> i = 1
      BY <1>1, <1>2, <1>3, <1>6
    <2> QED BY <1>1, <1>2, <1>6, <2>1, LeadsMore
  <1>7. ASSUME m = Abandon(e), to = 1 PROVE Leads(Append(msgs, m), e, from, 0)
    <2>1. \A i \in 1 .. Len(ms) : ms[i].id = e <=> i = 1
      BY <1>1, <1>2, <1>3, <1>7
    <2> QED BY <1>1, <1>2, <1>3, <1>7, <2>1, LeadsMore
  <1> QED BY <1>5, <1>6, <1>7

LEMMA BehindMore ==
    ASSUME NEW msgs \in Seq(RawRequest), NEW ms \in Seq(RawRequest), NEW c,
           Behind(msgs, c), ~Contains(ms, Request(c))
    PROVE  Behind(msgs \o ms, c)
  <1>1. PICK all : all = msgs \o ms
    OBVIOUS
  <1>2. PICK r, a : r = Request(c) /\ a = Abandon(c)
    OBVIOUS
  <1>3. /\ DOMAIN all = 1 .. Len(msgs) + Len(ms) /\ Len(msgs) \in Nat /\ Len(ms) \in Nat
        /\ DOMAIN msgs = 1 .. Len(msgs)
        /\ \A i \in 1 .. Len(msgs) : all[i] = msgs[i]
        /\ \A i \in 1 .. Len(ms) : all[Len(msgs) + i] = ms[i]
    BY <1>1, ConcatFacts
  <1>4. ASSUME NEW i \in DOMAIN all, all[i] = r
        PROVE  \E j \in DOMAIN all : i < j /\ all[j] = a
    <2>1. i <= Len(msgs)
      <3> SUFFICES ASSUME i > Len(msgs) PROVE FALSE
        BY <1>3
      <3>1. i - Len(msgs) \in 1 .. Len(ms) /\ Len(msgs) + (i - Len(msgs)) = i
        BY <1>3
      <3>2. ms[i - Len(msgs)] = r
        BY <1>3, <1>4, <3>1
      <3> QED BY <1>2, <3>1, <3>2 DEF Contains
    <2>2. i \in DOMAIN msgs /\ msgs[i] = r
      BY <1>3, <1>4, <2>1
    <2>3. PICK j \in DOMAIN msgs : i < j /\ msgs[j] = a
      BY <1>2, <2>2 DEF Behind
    <2> QED BY <1>3, <2>3
  <1> QED BY <1>1, <1>2, <1>4 DEF Behind

LEMMA BehindAppend ==
    ASSUME NEW msgs \in Seq(RawRequest), NEW c \in Ids, NEW m \in RawRequest
    PROVE  /\ m = Abandon(c) => Behind(Append(msgs, m), c)
           /\ m # Request(c) /\ Behind(msgs, c) => Behind(Append(msgs, m), c)
  <1>1. PICK ms \in Seq(RawRequest) : /\ Append(msgs, m) = msgs \o ms
                                      /\ Len(ms) = 1 /\ ms[1] = m
    <2>1. PICK ms : ms = <<m>>
      OBVIOUS
    <2>2. ms \in Seq(RawRequest) /\ Append(msgs, m) = msgs \o ms /\ Len(ms) = 1 /\ ms[1] = m
      BY <2>1, AppendIsConcat
    <2> QED BY <2>2
  <1>2. m # Request(c) => ~Contains(ms, Request(c))
    BY <1>1 DEF Contains
  <1>3. m = Abandon(c) => Behind(Append(msgs, m), c)
    <2> SUFFICES ASSUME m = Abandon(c), NEW i \in DOMAIN Append(msgs, m),
                        Append(msgs, m)[i] = Request(c)
                 PROVE  \E j \in DOMAIN Append(msgs, m) : i < j /\ Append(msgs, m)[j] = Abandon(c)
      BY DEF Behind
    <2>1. /\ DOMAIN Append(msgs, m) = 1 .. Len(msgs) + 1 /\ Len(msgs) \in Nat
          /\ Append(msgs, m)[Len(msgs) + 1] = m
      OBVIOUS
    <2>2. i # Len(msgs) + 1
      BY <2>1, RequestsDiffer
    <2> QED BY <2>1, <2>2
  <1> QED BY <1>1, <1>2, <1>3, BehindMore

LEMMA BehindFirst ==
    ASSUME NEW msgs \in Seq(RawRequest), msgs # <<>>, NEW c \in Ids, Behind(msgs, c)
    PROVE  /\ Behind(Tail(msgs), c)
           /\ Head(msgs) = Request(c) => Contains(Tail(msgs), Abandon(c))
  <1>1. PICK rest : rest = Tail(msgs)
    OBVIOUS
  <1>2. PICK r, a : r = Request(c) /\ a = Abandon(c)
    OBVIOUS
  <1>3. /\ DOMAIN rest = 1 .. Len(msgs) - 1 /\ Len(rest) = Len(msgs) - 1 /\ Len(msgs) \in Nat
        /\ Len(msgs) > 0 /\ DOMAIN msgs = 1 .. Len(msgs) /\ Head(msgs) = msgs[1]
        /\ \A i \in 1 .. Len(msgs) - 1 : rest[i] = msgs[i + 1]
    BY <1>1
  <1>4. ASSUME NEW i \in DOMAIN msgs, msgs[i] = r
        PROVE  \E j \in DOMAIN rest : i < j + 1 /\ rest[j] = a
    <2>1. PICK j \in DOMAIN msgs : i < j /\ msgs[j] = a
      BY <1>2, <1>4 DEF Behind
    <2>2. j - 1 \in DOMAIN rest /\ (j - 1) + 1 = j
      BY <1>3, <2>1
    <2> QED BY <1>3, <2>1, <2>2
  <1>5. ASSUME NEW i \in DOMAIN rest, rest[i] = r
        PROVE  \E j \in DOMAIN rest : i < j /\ rest[j] = a
    <2>1. i + 1 \in DOMAIN msgs /\ msgs[i + 1] = r
      BY <1>3, <1>5
    <2>2. PICK j \in DOMAIN rest : i + 1 < j + 1 /\ rest[j] = a
      BY <1>4, <2>1
    <2> QED BY <1>3, <2>2
  <1>6. msgs[1] = r => \E j \in 1 .. Len(rest) : rest[j] = a
    BY <1>3, <1>4
  <1> QED BY <1>1, <1>2, <1>3, <1>5, <1>6 DEF Behind, Contains

-----------------------------------------------------------------------------
(* An event is deferred once *)

LEMMA NextKeepsDeferredOnce ==
    ASSUME Typed, EventsAreDeferredOnce, [Next]_vars PROVE EventsAreDeferredOnce'
  <1> SUFFICES ASSUME NEW k \in Events PROVE EventIsDeferredOnce(k)'
    BY DEF EventsAreDeferredOnce
  <1>0. /\ ClientIsTyped /\ LinkIsTyped /\ k \in Ids /\ k \notin Calls
        /\ EventIsDeferredOnce(k)
    BY TypedParts, IdKinds DEF Ids, EventsAreDeferredOnce
  <1>1. CASE UNCHANGED clientVars
    BY <1>0, <1>1 DEF clientVars, EventIsDeferredOnce, IsDeferred
  <1>2. CASE \E c \in Calls : Call(c)
    <2>1. PICK c \in Calls : Call(c)
      BY <1>2
    <2>2. c \in Ids /\ k # c
      BY <1>0 DEF Ids
    <2>3. /\ deferred' = deferred \/ deferred' = Append(deferred, c)
          /\ k \in handlers => k \in handlers'
          /\ clientDisposed' = clientDisposed
      BY <2>1 DEF Call
    <2>4. CASE deferred' = deferred
      BY <1>0, <2>3, <2>4 DEF EventIsDeferredOnce, IsDeferred
    <2>5. CASE deferred' = Append(deferred, c)
      BY <1>0, <2>2, <2>3, <2>5, DeferMore DEF EventIsDeferredOnce
    <2> QED BY <2>3, <2>4, <2>5
  <1>3. CASE \E c \in Calls : CancelCall(c)
    <2>1. PICK c \in Calls : CancelCall(c)
      BY <1>3
    <2>2. /\ deferred' = deferred \/ deferred' = Only(deferred, Ids \ {c})
          /\ handlers' = handlers /\ clientDisposed' = clientDisposed
      BY <2>1 DEF CancelCall
    <2>3. CASE deferred' = deferred
      BY <1>0, <2>2, <2>3 DEF EventIsDeferredOnce, IsDeferred
    <2>4. CASE deferred' = Only(deferred, Ids \ {c})
      BY <1>0, <2>2, <2>4, DeferLess DEF EventIsDeferredOnce
    <2> QED BY <2>2, <2>3, <2>4
  <1>4. CASE \E e \in Events : Subscribe(e)
    <2>1. PICK e \in Events : Subscribe(e)
      BY <1>4
    <2>2. e \in Ids
      BY DEF Ids
    <2>3. /\ deferred' = deferred \/ deferred' = Append(deferred, e)
          /\ handlers' = handlers \cup {e} /\ clientDisposed' = clientDisposed
          /\ ~clientDisposed /\ e \notin handlers
      BY <2>1 DEF Subscribe
    <2>4. CASE deferred' = deferred
      BY <1>0, <2>3, <2>4 DEF EventIsDeferredOnce, IsDeferred
    <2>5. CASE deferred' = Append(deferred, e)
      BY <1>0, <2>2, <2>3, <2>5, DeferMore DEF EventIsDeferredOnce
    <2> QED BY <2>3, <2>4, <2>5
  <1>5. CASE \E e \in Events : Unsubscribe(e)
    <2>1. PICK e \in Events : Unsubscribe(e)
      BY <1>5
    <2>2. /\ handlers' = handlers \ {e} /\ clientDisposed' = clientDisposed
          /\ \/ ~IsDeferred(e) /\ deferred' = deferred
             \/ deferred' = Only(deferred, Ids \ {e})
      BY <2>1 DEF Unsubscribe, IsDeferred
    <2>3. CASE ~IsDeferred(e) /\ deferred' = deferred
      BY <1>0, <2>2, <2>3 DEF EventIsDeferredOnce, IsDeferred
    <2>4. CASE deferred' = Only(deferred, Ids \ {e})
      BY <1>0, <2>2, <2>4, DeferLess DEF EventIsDeferredOnce
    <2> QED BY <2>2, <2>3, <2>4
  <1>6. CASE ClientDispose
    BY <1>0, <1>6, DeferLess DEF ClientDispose, EventIsDeferredOnce
  <1>7. CASE Initialize
    BY <1>0, <1>7, InitializeFacts DEF Initialize, EventIsDeferredOnce
  <1>8. CASE ReceiveResponse
    <2>1. k # Head(toClient).id
      BY <1>0, <1>8, HeadOfResponses, MessageToClient DEF ReceiveResponse
    <2>2. /\ deferred' = deferred /\ clientDisposed' = clientDisposed
          /\ k \in handlers => k \in handlers'
      BY <1>8, <2>1 DEF ReceiveResponse, ReadByClient
    <2> QED BY <1>0, <2>2 DEF EventIsDeferredOnce, IsDeferred
  <1>9. CASE ReceiveEvent
    BY <1>0, <1>9 DEF ReceiveEvent, ReadByClient, EventIsDeferredOnce, IsDeferred
  <1>10. CASE ServerStep
    <2>1. UNCHANGED clientVars
      BY <1>10 DEF ServerStep, PendingStep, ReceiveRequest, ReceiveTooEarly, ReceiveAbandon,
         Settle, Complete, Fire, RegisterChannel, FlushPendingRequests, FlushAll, FlushUpTo,
         PendingTimeout, ServerDispose, ReadByServer
    <2> QED BY <1>1, <2>1
  <1>11. UNCHANGED vars => UNCHANGED clientVars
    BY DEF vars
  <1> QED BY <1>1, <1>2, <1>3, <1>4, <1>5, <1>6, <1>7, <1>8, <1>9, <1>10, <1>11
         DEF Next, ClientStep

LEMMA DeferredOnceInitially == Init => EventsAreDeferredOnce
  <1> SUFFICES ASSUME Init, NEW e \in Events PROVE EventIsDeferredOnce(e)
    BY DEF EventsAreDeferredOnce
  <1> QED BY EmptyFacts DEF Init, EventIsDeferredOnce, IsDeferred

-----------------------------------------------------------------------------
(* The sides follow each other *)

Together == ~clientDisposed /\ ~serverDisposed

LEMMA TogetherBefore ==
    ASSUME Next, Together' PROVE Together /\ early' = early
  <1>1. clientDisposed' = clientDisposed \/ clientDisposed' = TRUE
    BY DEF Next, ClientStep, Call, CancelCall, Subscribe, Unsubscribe, ClientDispose, Initialize,
       ReceiveResponse, ReceiveEvent, ReadByClient, ServerStep, PendingStep, ReceiveRequest,
       ReceiveTooEarly, ReceiveAbandon, Settle, Complete, Fire, RegisterChannel, FlushPendingRequests,
       FlushAll, FlushUpTo, InitializeBut, PendingTimeout, ServerDispose, ReadByServer, clientVars
  <1>2. serverDisposed' = serverDisposed \/ serverDisposed' = TRUE
    BY DEF Next, ClientStep, Call, CancelCall, Subscribe, Unsubscribe, ClientDispose, Initialize,
       ReceiveResponse, ReceiveEvent, ReadByClient, ServerStep, PendingStep, ReceiveRequest,
       ReceiveTooEarly, ReceiveAbandon, Settle, Complete, Fire, RegisterChannel, FlushPendingRequests,
       FlushAll, FlushUpTo, InitializeBut, PendingTimeout, ServerDispose, ReadByServer, serverVars, registryVars
  <1>3. early' = early
    BY DEF Next, ClientStep, Call, CancelCall, Subscribe, Unsubscribe, ClientDispose, Initialize,
       ReceiveResponse, ReceiveEvent, ReadByClient, ServerStep, PendingStep, ReceiveRequest,
       ReceiveTooEarly, ReceiveAbandon, Settle, Complete, Fire, RegisterChannel, FlushPendingRequests,
       FlushAll, FlushUpTo, InitializeBut, PendingTimeout, ServerDispose, ReadByServer, serverVars, registryVars
  <1> QED BY <1>1, <1>2, <1>3 DEF Together

(* What goes out when the client is initialized asks once for an event that *)
(* was deferred, and says nothing of another.                               *)
LEMMA RequestsAsk ==
    ASSUME NEW ids \in Seq(Ids), NEW e \in Ids, Unique(ids, e)
    PROVE  /\ Contains(ids, e) => \E at \in 1 .. Len(Requests(ids)) :
                 /\ Requests(ids)[at] = Request(e)
                 /\ \A i \in 1 .. Len(Requests(ids)) : Requests(ids)[i].id = e <=> i = at
           /\ ~Contains(ids, e) => \A i \in 1 .. Len(Requests(ids)) : Requests(ids)[i].id # e
  <1>1. /\ Len(Requests(ids)) = Len(ids)
        /\ \A i \in 1 .. Len(ids) : Requests(ids)[i] = Request(ids[i]) /\ ids[i] \in Ids
    BY RequestsFacts
  <1>2. \A i \in 1 .. Len(ids) : Requests(ids)[i].id = ids[i]
    BY <1>1, RequestIs
  <1>3. ASSUME Contains(ids, e)
        PROVE  \E at \in 1 .. Len(Requests(ids)) :
                 /\ Requests(ids)[at] = Request(e)
                 /\ \A i \in 1 .. Len(Requests(ids)) : Requests(ids)[i].id = e <=> i = at
    <2>1. PICK at \in 1 .. Len(ids) : ids[at] = e
      BY <1>3 DEF Contains
    <2>2. \A i \in 1 .. Len(ids) : ids[i] = e => i = at
      <3>1. DOMAIN ids = 1 .. Len(ids)
        OBVIOUS
      <3> QED BY <2>1, <3>1 DEF Unique
    <2>3. Requests(ids)[at] = Request(e)
      BY <1>1, <2>1
    <2> QED BY <1>1, <1>2, <2>1, <2>2, <2>3
  <1> QED BY <1>1, <1>2, <1>3 DEF Contains

LEMMA WantsIsBit == \A e : Wants(e) \in {0, 1}
  BY DEF Wants

LEMMA ClientKeepsEvents ==
    ASSUME Typed, NEW e \in Events, EventIsDeferredOnce(e), EventFollows(e), ClientStep,
           Together, Together'
    PROVE  EventFollows(e)'
  <1>0. /\ ClientIsTyped /\ ExecutionIsTyped /\ LinkIsTyped /\ e \in Ids /\ e \notin Calls
        /\ toServer \in Seq(RawRequest)
    BY TypedParts, IdKinds DEF Ids, LinkIsTyped
  <1>1. listeners' = listeners /\ serverRequests' = serverRequests
    BY DEF ClientStep, Call, CancelCall, Subscribe, Unsubscribe, ClientDispose, Initialize,
       InitializeBut, ReceiveResponse, ReceiveEvent, ReadByClient, serverVars, executionVars
  <1>2. ASSUME Leads(toServer', e, listeners[e], Wants(e)') PROVE EventFollows(e)'
    BY <1>1, <1>2 DEF EventFollows
  <1>3. ASSUME NEW id \in Ids, id # e, NEW m \in RawRequest, m.id = id,
               toServer' = toServer \/ toServer' = Append(toServer, m), Wants(e)' = Wants(e)
        PROVE  EventFollows(e)'
    <2>1. Leads(toServer, e, listeners[e], Wants(e))
      BY DEF EventFollows
    <2>2. Leads(Append(toServer, m), e, listeners[e], Wants(e))
      BY <1>0, <1>3, <2>1, LeadsNext
    <2> QED BY <1>2, <1>3, <2>1, <2>2
  <1>4. ASSUME NEW c \in Calls, Call(c) \/ CancelCall(c) PROVE EventFollows(e)'
    <2>1. c \in Ids /\ c # e
      BY <1>0 DEF Ids
    <2>2. /\ deferred' = deferred \/ deferred' = Append(deferred, c)
             \/ deferred' = Only(deferred, Ids \ {c})
          /\ handlers' = handlers \/ handlers' = handlers \cup {c}
          /\ \/ toServer' = toServer
             \/ toServer' = Append(toServer, Request(c))
             \/ toServer' = Append(toServer, Abandon(c))
      BY <1>4 DEF Call, CancelCall
    <2>3. IsDeferred(e)' <=> IsDeferred(e)
      <3>1. CASE deferred' = deferred
        BY <3>1 DEF IsDeferred
      <3>2. CASE deferred' = Append(deferred, c)
        BY <1>0, <2>1, <3>2, DeferMore
      <3>3. CASE deferred' = Only(deferred, Ids \ {c})
        BY <1>0, <2>1, <3>3, DeferLess
      <3> QED BY <2>2, <3>1, <3>2, <3>3
    <2>4. Wants(e)' = Wants(e)
      BY <2>1, <2>2, <2>3 DEF Wants
    <2> QED BY <1>3, <2>1, <2>2, <2>4, RequestIs
  <1>5. ASSUME NEW d \in Events, Subscribe(d) \/ Unsubscribe(d), d # e PROVE EventFollows(e)'
    <2>1. d \in Ids
      BY DEF Ids
    <2>2. /\ deferred' = deferred \/ deferred' = Append(deferred, d)
             \/ deferred' = Only(deferred, Ids \ {d})
          /\ handlers' = handlers \ {d} \/ handlers' = handlers \cup {d}
          /\ \/ toServer' = toServer
             \/ toServer' = Append(toServer, Request(d))
             \/ toServer' = Append(toServer, Abandon(d))
      BY <1>5 DEF Subscribe, Unsubscribe
    <2>3. IsDeferred(e)' <=> IsDeferred(e)
      <3>1. CASE deferred' = deferred
        BY <3>1 DEF IsDeferred
      <3>2. CASE deferred' = Append(deferred, d)
        BY <1>0, <1>5, <2>1, <3>2, DeferMore
      <3>3. CASE deferred' = Only(deferred, Ids \ {d})
        BY <1>0, <1>5, <2>1, <3>3, DeferLess
      <3> QED BY <2>2, <3>1, <3>2, <3>3
    <2>4. Wants(e)' = Wants(e)
      BY <1>5, <2>2, <2>3 DEF Wants
    <2> QED BY <1>3, <1>5, <2>1, <2>2, <2>4, RequestIs
  <1>6. ASSUME Subscribe(e) PROVE EventFollows(e)'
    <2>1. e \notin handlers /\ handlers' = handlers \cup {e} /\ Wants(e) = 0 /\ ~IsDeferred(e)
      BY <1>6 DEF Subscribe, Wants, Together, EventIsDeferredOnce
    <2>2. CASE clientState = "Uninitialized"
      <3>1. deferred' = Append(deferred, e) /\ toServer' = toServer
        BY <1>6, <2>2 DEF Subscribe
      <3>2. IsDeferred(e)'
        BY <1>0, <3>1, DeferMore
      <3>3. Wants(e)' = 0
        BY <3>2 DEF Wants
      <3> QED BY <1>2, <2>1, <3>1, <3>3 DEF EventFollows
    <2>3. CASE clientState # "Uninitialized"
      <3>1. deferred' = deferred /\ toServer' = Append(toServer, Request(e))
        BY <1>6, <2>3 DEF Subscribe
      <3>2. Wants(e)' = 1
        BY <2>1, <3>1 DEF Wants, IsDeferred
      <3>3. Leads(Append(toServer, Request(e)), e, listeners[e], 1)
        BY <1>0, <2>1, LeadsNext, RequestIs DEF EventFollows
      <3> QED BY <1>2, <3>1, <3>2, <3>3
    <2> QED BY <2>2, <2>3
  <1>7. ASSUME Unsubscribe(e) PROVE EventFollows(e)'
    <2>1. e \in handlers /\ handlers' = handlers \ {e} /\ Wants(e)' = 0
      BY <1>7 DEF Unsubscribe, Wants
    <2>2. CASE IsDeferred(e)
      <3>1. toServer' = toServer /\ Wants(e) = 0
        BY <1>7, <2>2 DEF Unsubscribe, IsDeferred, Wants
      <3> QED BY <1>2, <2>1, <3>1 DEF EventFollows
    <2>3. CASE ~IsDeferred(e)
      <3>1. toServer' = Append(toServer, Abandon(e)) /\ Wants(e) = 1
        BY <1>7, <2>1, <2>3 DEF Unsubscribe, IsDeferred, Wants
      <3>2. Leads(Append(toServer, Abandon(e)), e, listeners[e], 0)
        BY <1>0, <3>1, LeadsNext, RequestIs DEF EventFollows
      <3> QED BY <1>2, <2>1, <3>1, <3>2
    <2> QED BY <2>2, <2>3
  <1>8. ASSUME ClientDispose PROVE EventFollows(e)'
    BY <1>8 DEF ClientDispose, Together
  <1>9. ASSUME Initialize PROVE EventFollows(e)'
    <2>0. PICK failed \in SUBSET (ToSet(deferred) \cap Calls) : InitializeBut(failed)
      BY <1>9 DEF Initialize
    <2>1. PICK sent : sent = Only(deferred, Ids \ failed)
      OBVIOUS
    <2>2. toServer' = toServer \o Requests(sent)
      BY <2>0, <2>1 DEF InitializeBut
    <2>3. e \notin failed
      BY <1>0
    <2>4. /\ sent \in Seq(Ids) /\ (Contains(sent, e) <=> IsDeferred(e)) /\ Unique(sent, e)
      BY <1>0, <2>1, <2>3, SentFacts DEF EventIsDeferredOnce
    <2>5. PICK ms \in Seq(RawRequest) : ms = Requests(sent)
      BY <2>4, RequestsFacts
    <2>6. ~IsDeferred(e)' /\ (e \in handlers' <=> e \in handlers \/ IsDeferred(e))
      BY <1>0, <2>0, <2>3, InitializeFacts
    <2>7. IsDeferred(e) => e \in handlers
      BY DEF EventIsDeferredOnce, Together
    <2>8. Leads(toServer, e, listeners[e], Wants(e)) /\ Len(ms) \in Nat
      BY DEF EventFollows
    <2>9. CASE IsDeferred(e)
      <3>1. Wants(e) = 0 /\ Wants(e)' = 1
        BY <2>6, <2>7, <2>9 DEF Wants
      <3>2. PICK at \in 1 .. Len(ms) : /\ ms[at] = Request(e)
                                       /\ \A i \in 1 .. Len(ms) : ms[i].id = e <=> i = at
        BY <1>0, <2>4, <2>5, <2>9, RequestsAsk
      <3>3. at \in 1 .. Len(ms) + 1 /\ at # Len(ms) + 1
        BY <2>8
      <3>4. Leads(toServer \o ms, e, listeners[e], 1)
        BY <1>0, <2>8, <3>1, <3>2, <3>3, LeadsMore
      <3> QED BY <1>2, <2>2, <2>5, <3>1, <3>4
    <2>10. CASE ~IsDeferred(e)
      <3>1. Wants(e)' = Wants(e) /\ Wants(e) \in {0, 1}
        BY <2>6, <2>10 DEF Wants
      <3>2. \A i \in 1 .. Len(ms) : ms[i].id # e
        BY <1>0, <2>4, <2>5, <2>10, RequestsAsk
      <3>3. Len(ms) + 1 \in 1 .. Len(ms) + 1 /\ \A i \in 1 .. Len(ms) : i # Len(ms) + 1
        BY <2>8
      <3>4. Leads(toServer \o ms, e, listeners[e], Wants(e))
        BY <1>0, <2>8, <3>1, <3>2, <3>3, LeadsMore
      <3> QED BY <1>2, <2>2, <2>5, <3>1, <3>4
    <2> QED BY <2>9, <2>10
  <1>10. ASSUME ReceiveResponse PROVE EventFollows(e)'
    <2>1. e # Head(toClient).id
      BY <1>0, <1>10, HeadOfResponses, MessageToClient DEF ReceiveResponse
    <2>2. /\ deferred' = deferred /\ (e \in handlers' <=> e \in handlers) /\ toServer' = toServer
      BY <1>10, <2>1 DEF ReceiveResponse
    <2>3. Wants(e)' = Wants(e)
      BY <2>2 DEF Wants, IsDeferred
    <2> QED BY <1>2, <2>2, <2>3 DEF EventFollows
  <1>11. ASSUME ReceiveEvent PROVE EventFollows(e)'
    <2>1. toServer' = toServer /\ Wants(e)' = Wants(e)
      BY <1>11 DEF ReceiveEvent, Wants, IsDeferred
    <2> QED BY <1>2, <2>1 DEF EventFollows
  <1> QED BY <1>4, <1>5, <1>6, <1>7, <1>8, <1>9, <1>10, <1>11 DEF ClientStep

(* A request for a channel that was registered in time never waits. *)
LEMMA NeverWaits ==
    ASSUME RegistryIsTyped, NEW id \in InTime(Ids)
    PROVE  /\ ChannelOf[id] \in channels
           /\ \A ch \in Channels : ~Contains(PendingIds(ch), id)
  BY PendingIdsFacts DEF InTime, RegistryIsTyped

LEMMA ServerKeepsEvents ==
    ASSUME Typed, NEW e \in InTime(Events \ Throwing), EventFollows(e), ServerStep, Together, Together'
    PROVE  EventFollows(e)'
  <1>0. /\ RegistryIsTyped /\ ExecutionIsTyped /\ LinkIsTyped /\ e \in Ids /\ e \notin Calls
        /\ toServer \in Seq(RawRequest) /\ e \in Events \ Throwing /\ e \in InTime(Ids)
    BY TypedParts, IdKinds DEF Ids, LinkIsTyped, InTime
  <1>1. Wants(e)' = Wants(e)
    <2>1. UNCHANGED clientVars
      BY DEF ServerStep, PendingStep, ReceiveRequest, ReceiveTooEarly, ReceiveAbandon, Settle, Complete,
         Fire, RegisterChannel, FlushPendingRequests, FlushAll, FlushUpTo, PendingTimeout,
         ServerDispose, ReadByServer
    <2> QED BY <2>1 DEF clientVars, Wants, IsDeferred
  <1>2. /\ listeners[e] = IF e \in serverRequests THEN 1 ELSE 0
        /\ Leads(toServer, e, listeners[e], Wants(e))
    BY DEF EventFollows
  <1>3. ASSUME toServer' = toServer, listeners'[e] = listeners[e],
               e \in serverRequests' <=> e \in serverRequests
        PROVE  EventFollows(e)'
    BY <1>1, <1>2, <1>3 DEF EventFollows
  <1>4. CASE ReceiveRequest
    <2>1. PICK types : types = {"Promise", "EventListen"} /\ ReadByServer(types)
      BY <1>4 DEF ReceiveRequest
    <2>2. PICK id \in Ids : id = Head(toServer).id /\ Head(toServer) = Request(id)
      BY <1>0, <2>1, HeadIs
    <2>3. /\ IF id \in Throwing THEN UNCHANGED executionVars ELSE Execute(<<id>>)
          /\ <<id>> \in Seq(Ids) /\ Unique(<<id>>, e) /\ \A d : Contains(<<id>>, d) <=> d = id
      BY <1>4, <2>2 DEF ReceiveRequest, Unique, Contains
    <2>4. /\ e \in serverRequests' <=> e \in serverRequests \/ e = id
          /\ e # id => listeners'[e] = listeners[e]
          /\ e = id => listeners'[e] = listeners[e] + 1
      <3>1. CASE id \in Throwing
        BY <1>0, <2>3, <3>1 DEF executionVars
      <3>2. CASE id \notin Throwing
        BY <1>0, <2>3, <3>2, ExecuteFacts
      <3> QED BY <3>1, <3>2
    <2>5. toServer # <<>> /\ toServer' = Tail(toServer)
      BY <2>1 DEF ReadByServer
    <2>6. CASE e # id
      <3>1. Leads(toServer', e, listeners[e], Wants(e))
        BY <1>0, <1>2, <2>2, <2>5, <2>6, LeadsFirst
      <3> QED BY <1>1, <1>2, <2>4, <2>6, <3>1 DEF EventFollows
    <2>7. CASE e = id
      <3>1. listeners[e] = 0 /\ Leads(toServer', e, 1, Wants(e))
        BY <1>0, <1>2, <2>2, <2>5, <2>7, LeadsFirst
      <3> QED BY <1>1, <2>4, <2>7, <3>1 DEF EventFollows
    <2> QED BY <2>6, <2>7
  <1>5. CASE ReceiveTooEarly
    <2>1. PICK types : types = {"Promise", "EventListen"} /\ ReadByServer(types)
      BY <1>5 DEF ReceiveTooEarly
    <2>2. Head(toServer).id # e /\ toServer # <<>> /\ toServer' = Tail(toServer)
      BY <1>0, <1>5, <2>1, NeverWaits DEF ReceiveTooEarly, ReadByServer
    <2>3. Leads(toServer', e, listeners[e], Wants(e))
      BY <1>0, <1>2, <2>2, LeadsFirst
    <2>4. listeners' = listeners /\ serverRequests' = serverRequests
      BY <1>5 DEF ReceiveTooEarly, executionVars
    <2> QED BY <1>1, <1>2, <2>3, <2>4 DEF EventFollows
  <1>6. CASE ReceiveAbandon
    <2>1. PICK types : types = {"PromiseCancel", "EventDispose"} /\ ReadByServer(types)
      BY <1>6 DEF ReceiveAbandon
    <2>2. PICK id \in Ids : id = Head(toServer).id /\ Head(toServer) = Abandon(id)
      BY <1>0, <2>1, HeadIs
    <2>3. toServer # <<>> /\ toServer' = Tail(toServer)
      BY <2>1 DEF ReadByServer
    <2>4. CASE e # id
      <3>1. Leads(toServer', e, listeners[e], Wants(e))
        BY <1>0, <1>2, <2>2, <2>3, <2>4, LeadsFirst
      <3>2. listeners'[e] = listeners[e] /\ (e \in serverRequests' <=> e \in serverRequests)
        BY <1>0, <1>6, <2>2, <2>4 DEF ReceiveAbandon
      <3> QED BY <1>1, <1>2, <3>1, <3>2 DEF EventFollows
    <2>5. CASE e = id
      <3>1. listeners[e] = 1 /\ Leads(toServer', e, 0, Wants(e))
        BY <1>0, <1>2, <2>2, <2>3, <2>5, LeadsFirst
      <3>2. e \in serverRequests
        BY <1>2, <3>1
      <3>3. listeners'[e] = listeners[e] - 1 /\ e \notin serverRequests'
        BY <1>0, <1>6, <2>2, <2>5, <3>2 DEF ReceiveAbandon
      <3>4. listeners'[e] = 0
        BY <3>1, <3>3
      <3> QED BY <1>1, <3>1, <3>3, <3>4 DEF EventFollows
    <2> QED BY <2>4, <2>5
  <1>7. ASSUME NEW c \in Calls, NEW n, Complete(c, n) PROVE EventFollows(e)'
    BY <1>0, <1>3, <1>7 DEF Complete
  <1>8. ASSUME NEW d \in Events, Fire(d) PROVE EventFollows(e)'
    BY <1>3, <1>8 DEF Fire, serverVars, executionVars
  <1>9. ASSUME NEW ch \in Channels, RegisterChannel(ch) PROVE EventFollows(e)'
    BY <1>3, <1>9 DEF RegisterChannel, executionVars
  <1>10. ASSUME NEW ch \in Channels, FlushPendingRequests(ch) PROVE EventFollows(e)'
    <2>1. PICK ids \in Seq(Ids) :
              /\ Execute(ids) /\ \A d \in Throwing : ~Contains(ids, d)
              /\ \A id : Contains(ids, id) => Contains(PendingIds(ch), id)
      BY <1>0, <1>10, FlushFacts
    <2>2. ~Contains(ids, e) /\ toServer' = toServer
      BY <1>0, <1>10, <2>1, NeverWaits, FlushKeepsRest
    <2> QED BY <1>0, <1>3, <2>1, <2>2, ExecuteFacts
  <1>11. ASSUME NEW ch \in Channels, NEW i \in DOMAIN pendingRequests[ch], PendingTimeout(ch, i)
         PROVE  EventFollows(e)'
    BY <1>3, <1>11 DEF PendingTimeout, executionVars
  <1>12. ASSUME ServerDispose PROVE EventFollows(e)'
    BY <1>12 DEF ServerDispose, Together
  <1> QED BY <1>4, <1>5, <1>6, <1>7, <1>8, <1>9, <1>10, <1>11, <1>12
     DEF ServerStep, PendingStep, Settle

LEMMA ClientKeepsCancels ==
    ASSUME Typed, NEW c \in Calls, IsOnce(c), CancelFollows(c), ClientStep, Together'
    PROVE  CancelFollows(c)'
  <1>0. /\ ClientIsTyped /\ ExecutionIsTyped /\ LinkIsTyped /\ c \in Ids /\ c \notin Events
        /\ toServer \in Seq(RawRequest)
    BY TypedParts, IdKinds DEF Ids, LinkIsTyped
  <1>1. IsLive(c)' <=> IsLive(c)
    BY DEF IsLive, ClientStep, Call, CancelCall, Subscribe, Unsubscribe, ClientDispose, Initialize,
       InitializeBut, ReceiveResponse, ReceiveEvent, ReadByClient, serverVars, executionVars
  <1>2. ASSUME outcome'[c] = "cancelled" => outcome[c] = "cancelled",
               NEW m \in RawRequest, toServer' = toServer \/ toServer' = Append(toServer, m),
               outcome[c] = "cancelled" => m # Request(c)
        PROVE  CancelFollows(c)'
    <2> SUFFICES ASSUME outcome'[c] = "cancelled"
                 PROVE  /\ IsLive(c) => IsCancelSent(c)'
                        /\ Behind(toServer', c)
      BY <1>1 DEF CancelFollows
    <2>1. /\ IsLive(c) => IsCancelSent(c)
          /\ Behind(toServer, c) /\ m # Request(c)
      BY <1>2 DEF CancelFollows
    <2>2. CASE toServer' = toServer
      BY <2>1, <2>2 DEF IsCancelSent
    <2>3. CASE toServer' = Append(toServer, m)
      <3>1. Behind(toServer', c)
        BY <1>0, <2>1, <2>3, BehindAppend
      <3>2. PICK a : a = Abandon(c)
        OBVIOUS
      <3>3. Contains(toServer, a) => Contains(toServer', a)
        BY <1>0, <2>3, ContainsAppend
      <3> QED BY <2>1, <3>1, <3>2, <3>3 DEF IsCancelSent
    <2> QED BY <1>2, <2>2, <2>3
  <1>3. ASSUME NEW k \in Calls, Call(k) PROVE CancelFollows(c)'
    <2>1. k \in Ids /\ Request(k) \in RawRequest
      BY RequestIs DEF Ids
    <2>2. toServer' = toServer \/ toServer' = Append(toServer, Request(k))
      BY <1>3 DEF Call
    <2>3. outcome'[c] = "cancelled" => outcome[c] = "cancelled"
      BY <1>0, <1>3 DEF Call, ClientIsTyped
    <2>4. outcome[c] = "cancelled" => Request(k) # Request(c)
      <3>1. outcome[k] = "none"
        BY <1>3 DEF Call
      <3> QED BY <1>0, <2>1, <3>1, RequestsDiffer
    <2> QED BY <1>2, <2>1, <2>2, <2>3, <2>4
  <1>4. ASSUME NEW k \in Calls, CancelCall(k) PROVE CancelFollows(c)'
    <2>1. /\ k \in Ids /\ Abandon(k) \in RawRequest
          /\ Abandon(k) # Request(c)
      BY <1>0, RequestIs, RequestsDiffer DEF Ids
    <2>2. CASE k # c
      <3>1. toServer' = toServer \/ toServer' = Append(toServer, Abandon(k))
        BY <1>4 DEF CancelCall
      <3>2. outcome'[c] = outcome[c]
        BY <1>0, <1>4, <2>2 DEF CancelCall, ClientIsTyped
      <3> QED BY <1>2, <2>1, <3>1, <3>2
    <2>3. CASE k = c /\ IsDeferred(c)
      <3>1. toServer' = toServer
        BY <1>4, <2>3 DEF CancelCall, IsDeferred
      <3>2. ~IsSent(c) /\ ~IsLive(c)
        <4>1. called[c] = 0 /\ ~IsSent(c)
          BY <2>3 DEF IsOnce, IsFresh
        <4>2. \A n : <<c, n>> \in running => n \in 1 .. called[c]
          BY <1>0 DEF ExecutionIsTyped
        <4>3. 1 .. called[c] = {}
          BY <4>1
        <4> QED BY <4>1, <4>2, <4>3 DEF IsLive
      <3>3. \A i \in DOMAIN toServer' : toServer'[i] # Request(c)
        <4>1. DOMAIN toServer = 1 .. Len(toServer)
          BY <1>0
        <4> QED BY <3>1, <3>2, <4>1 DEF IsSent, Contains
      <3> QED BY <1>1, <3>2, <3>3 DEF CancelFollows, Behind
    <2>4. CASE k = c /\ ~IsDeferred(c)
      <3>1. toServer' = Append(toServer, Abandon(c))
        BY <1>4, <2>4 DEF CancelCall, IsDeferred
      <3>2. Behind(toServer', c)
        BY <1>0, <2>1, <2>4, <3>1, BehindAppend
      <3>3. PICK a \in RawRequest : a = Abandon(c)
        BY <2>1, <2>4
      <3>4. Contains(toServer', a)
        BY <1>0, <3>1, <3>3, ContainsAppend
      <3> QED BY <3>2, <3>3, <3>4 DEF CancelFollows, IsCancelSent
    <2> QED BY <2>2, <2>3, <2>4
  <1>5. ASSUME NEW e \in Events, Subscribe(e) \/ Unsubscribe(e) PROVE CancelFollows(c)'
    <2>1. /\ e \in Ids /\ Request(e) \in RawRequest /\ Abandon(e) \in RawRequest
          /\ Request(e) # Request(c) /\ Abandon(e) # Request(c)
      <3>1. e \in Ids /\ e # c
        BY <1>0 DEF Ids
      <3> QED BY <1>0, <3>1, RequestIs, RequestsDiffer
    <2>2. outcome' = outcome
      BY <1>5 DEF Subscribe, Unsubscribe
    <2>3. \/ toServer' = toServer
          \/ toServer' = Append(toServer, Request(e))
          \/ toServer' = Append(toServer, Abandon(e))
      BY <1>5 DEF Subscribe, Unsubscribe
    <2> QED BY <1>2, <2>1, <2>2, <2>3
  <1>6. ASSUME ClientDispose PROVE CancelFollows(c)'
    BY <1>6 DEF ClientDispose, Together
  <1>7. ASSUME Initialize PROVE CancelFollows(c)'
    <2> SUFFICES ASSUME outcome'[c] = "cancelled"
                 PROVE  /\ IsLive(c) => IsCancelSent(c)'
                        /\ Behind(toServer', c)
      BY <1>1 DEF CancelFollows
    <2>0. PICK failed \in SUBSET (ToSet(deferred) \cap Calls) : InitializeBut(failed)
      BY <1>7 DEF Initialize
    <2>1. PICK sent : sent = Only(deferred, Ids \ failed)
      OBVIOUS
    <2>2. toServer' = toServer \o Requests(sent)
      BY <2>0, <2>1 DEF InitializeBut
    <2>3. outcome[c] = "cancelled" /\ ~IsDeferred(c)
      <3>1. outcome'[c] = IF IsDeferred(c) /\ c \in failed THEN "error" ELSE outcome[c]
        BY <1>0, <2>0, InitializeFacts
      <3> QED BY <3>1 DEF IsOnce
    <2>4. sent \in Seq(Ids) /\ ~Contains(sent, c)
      BY <1>0, <2>1, <2>3, SentFacts
    <2>5. PICK ms \in Seq(RawRequest) : ms = Requests(sent) /\ ~Contains(ms, Request(c))
      BY <1>0, <2>4, RequestsFacts
    <2>6. Behind(toServer', c)
      BY <1>0, <2>2, <2>3, <2>5, BehindMore DEF CancelFollows
    <2>7. PICK a : a = Abandon(c)
      OBVIOUS
    <2>8. Contains(toServer, a) => Contains(toServer', a)
      BY <1>0, <2>2, <2>5, ContainsConcat
    <2> QED BY <2>3, <2>6, <2>7, <2>8 DEF CancelFollows, IsCancelSent
  <1>8. ASSUME ReceiveResponse PROVE CancelFollows(c)'
    <2>1. PICK k : k = Head(toClient).id
      OBVIOUS
    <2>2. \/ outcome' = outcome
          \/ outcome' = [outcome EXCEPT ![k] = IF @ # "pending" THEN @
                    ELSE IF Head(toClient).type = "PromiseSuccess" THEN "success" ELSE "error"]
      BY <1>8, <2>1 DEF ReceiveResponse
    <2>3. outcome'[c] = "cancelled" => outcome[c] = "cancelled"
      BY <1>0, <2>2 DEF ClientIsTyped
    <2>4. toServer' = toServer
      BY <1>8 DEF ReceiveResponse
    <2> QED BY <1>1, <2>3, <2>4 DEF CancelFollows, IsCancelSent
  <1>9. ASSUME ReceiveEvent PROVE CancelFollows(c)'
    BY <1>1, <1>9 DEF ReceiveEvent, CancelFollows, IsCancelSent
  <1> QED BY <1>3, <1>4, <1>5, <1>6, <1>7, <1>8, <1>9 DEF ClientStep

(* A channel that was registered in time aborts no flush: nothing waits. *)
LEMMA InTimeIsNotAborted ==
    ASSUME RegistryIsTyped, NEW id \in InTime(Ids)
    PROVE  aborts[ChannelOf[id]] = 0
  <1>1. ChannelOf[id] \in Channels /\ ChannelOf[id] \in early
    BY ChannelsAssumption DEF InTime
  <1>2. \A e : ~Contains(PendingIds(ChannelOf[id]), e)
    BY <1>1, PendingIdsFacts
  <1>3. ~IsBlocked(ChannelOf[id])
    BY <1>2 DEF IsBlocked
  <1>4. aborts[ChannelOf[id]] \in Nat
    BY <1>1 DEF RegistryIsTyped
  <1> QED BY <1>1, <1>3, <1>4 DEF RegistryIsTyped

LEMMA RunsOnly ==
    ASSUME ExecutionIsTyped, NEW ids \in Seq(Ids), Execute(ids),
           \A e \in Throwing : ~Contains(ids, e), NEW c \in Calls, ~Contains(ids, c), IsLive(c)'
    PROVE  IsLive(c)
  <1>1. /\ \A n : <<c, n>> \in running' <=>
                    <<c, n>> \in running \/ n \in called[c] + 1 .. called'[c]
        /\ called'[c] = called[c] /\ tokenCancelled' = tokenCancelled
    BY ExecuteFacts
  <1>2. called[c] + 1 .. called'[c] = {}
    BY <1>1 DEF ExecutionIsTyped
  <1> QED BY <1>1, <1>2 DEF IsLive

LEMMA ServerKeepsCancels ==
    ASSUME Typed, NEW c \in InTime(Calls), IsOnce(c), IsCancellable(c), CancelFollows(c),
           ServerStep, Together'
    PROVE  CancelFollows(c)'
  <1>0. /\ RegistryIsTyped /\ ExecutionIsTyped /\ LinkIsTyped /\ c \in Ids /\ c \in InTime(Ids)
        /\ toServer \in Seq(RawRequest) /\ c \in Calls
    BY TypedParts DEF Ids, LinkIsTyped, InTime
  <1>1. outcome' = outcome
    BY DEF ServerStep, PendingStep, ReceiveRequest, ReceiveTooEarly, ReceiveAbandon, Settle, Complete,
       Fire, RegisterChannel, FlushPendingRequests, FlushAll, FlushUpTo, PendingTimeout,
       ServerDispose, ReadByServer, clientVars
  <1>2. SUFFICES ASSUME outcome[c] = "cancelled"
                 PROVE  /\ IsLive(c)' => IsCancelSent(c)'
                        /\ Behind(toServer', c)
    BY <1>1 DEF CancelFollows
  <1>3. /\ IsLive(c) => IsCancelSent(c)
        /\ Behind(toServer, c)
    BY <1>2 DEF CancelFollows
  (* The cancellation stays sent, unless it is what the server reads. *)
  <1>4. ASSUME NEW types, ReadByServer(types)
        PROVE  /\ Behind(toServer', c)
               /\ Head(toServer) = Request(c) => IsCancelSent(c)'
               /\ IsCancelSent(c) /\ Head(toServer) # Abandon(c) => IsCancelSent(c)'
    <2>1. toServer # <<>> /\ toServer' = Tail(toServer)
      BY <1>4 DEF ReadByServer
    <2>2. PICK a : a = Abandon(c)
      OBVIOUS
    <2>3. Contains(toServer, a) => a = Head(toServer) \/ Contains(toServer', a)
      BY <1>0, <2>1, ContainsTail
    <2>4. Behind(toServer', c) /\ (Head(toServer) = Request(c) => Contains(toServer', a))
      BY <1>0, <1>3, <2>1, <2>2, BehindFirst
    <2> QED BY <2>2, <2>3, <2>4 DEF IsCancelSent
  <1>5. ASSUME toServer' = toServer, IsLive(c)' => IsLive(c)
        PROVE  /\ IsLive(c)' => IsCancelSent(c)'
               /\ Behind(toServer', c)
    BY <1>3, <1>5 DEF IsCancelSent
  <1>6. CASE ReceiveRequest
    <2>1. PICK types : types = {"Promise", "EventListen"} /\ ReadByServer(types)
      BY <1>6 DEF ReceiveRequest
    <2>2. PICK id \in Ids : id = Head(toServer).id /\ Head(toServer) = Request(id)
      BY <1>0, <2>1, HeadIs
    <2>3. /\ IF id \in Throwing THEN UNCHANGED executionVars ELSE Execute(<<id>>)
          /\ <<id>> \in Seq(Ids) /\ \A d : Contains(<<id>>, d) <=> d = id
      BY <1>6, <2>2 DEF ReceiveRequest, Contains
    <2>4. IsLive(c)' => IsLive(c) \/ c = id
      <3>1. CASE id \in Throwing
        <4>1. running' = running /\ tokenCancelled' = tokenCancelled
          BY <2>3, <3>1 DEF executionVars
        <4> QED BY <4>1 DEF IsLive
      <3>2. CASE id \notin Throwing
        <4> SUFFICES ASSUME c # id PROVE IsLive(c)' => IsLive(c)
          OBVIOUS
        <4>1. /\ Execute(<<id>>) /\ ~Contains(<<id>>, c)
              /\ \A e \in Throwing : ~Contains(<<id>>, e)
          BY <2>3, <3>2
        <4> QED BY <1>0, <2>3, <4>1, RunsOnly
      <3> QED BY <3>1, <3>2
    <2>5. Head(toServer) # Abandon(c)
      BY <1>0, <2>2, RequestsDiffer
    <2> QED BY <1>3, <1>4, <2>1, <2>2, <2>4, <2>5
  <1>7. CASE ReceiveTooEarly
    <2>1. PICK types : types = {"Promise", "EventListen"} /\ ReadByServer(types)
      BY <1>7 DEF ReceiveTooEarly
    <2>2. PICK id \in Ids : id = Head(toServer).id /\ Head(toServer) = Request(id)
      BY <1>0, <2>1, HeadIs
    <2>3. Head(toServer) # Abandon(c)
      BY <1>0, <2>2, RequestsDiffer
    <2>4. IsLive(c)' <=> IsLive(c)
      BY <1>7 DEF ReceiveTooEarly, executionVars, IsLive
    <2> QED BY <1>3, <1>4, <2>1, <2>3, <2>4
  <1>8. CASE ReceiveAbandon
    <2>1. PICK types : types = {"PromiseCancel", "EventDispose"} /\ ReadByServer(types)
      BY <1>8 DEF ReceiveAbandon
    <2>2. PICK id \in Ids : id = Head(toServer).id /\ Head(toServer) = Abandon(id)
      BY <1>0, <2>1, HeadIs
    <2>3. /\ running' = running /\ tokenCancelled \subseteq tokenCancelled'
          /\ id \in serverRequests => tokenCancelled' = tokenCancelled \cup LatestRuns({id})
      BY <1>8, <2>2 DEF ReceiveAbandon
    <2>4. CASE id = c
      (* What runs with a live token is active: the cancellation finds it. *)
      <3>1. ASSUME NEW n, <<c, n>> \in running, <<c, n>> \notin tokenCancelled
            PROVE  <<c, n>> \in tokenCancelled'
        <4>1. called[c] = 1 /\ n = 1
          <5>1. n \in 1 .. called[c] /\ called[c] \in Nat
            BY <1>0, <3>1 DEF ExecutionIsTyped
          <5>2. called[c] <= 1
            BY <1>0, <5>1, InTimeIsNotAborted DEF IsOnce
          <5> QED BY <5>1, <5>2
        <4>2. c \in serverRequests
          BY <3>1, <4>1 DEF IsCancellable
        <4>3. <<c, n>> \in LatestRuns({id})
          BY <2>4, <3>1, <4>1 DEF LatestRuns
        <4> QED BY <2>3, <2>4, <4>2, <4>3
      <3>2. ~IsLive(c)'
        BY <2>3, <3>1 DEF IsLive
      <3> QED BY <1>4, <2>1, <3>2
    <2>5. CASE id # c
      <3>1. Head(toServer) # Abandon(c)
        BY <1>0, <2>2, <2>5, RequestsDiffer
      <3>2. IsLive(c)' => IsLive(c)
        BY <2>3 DEF IsLive
      <3> QED BY <1>3, <1>4, <2>1, <3>1, <3>2
    <2> QED BY <2>4, <2>5
  <1>9. ASSUME NEW k \in Calls, NEW n, Complete(k, n)
        PROVE  /\ IsLive(c)' => IsCancelSent(c)'
               /\ Behind(toServer', c)
    <2>1. /\ running' = running \ {<<k, n>>} /\ tokenCancelled' = tokenCancelled \ {<<k, n>>}
          /\ toServer' = toServer
      BY <1>9 DEF Complete
    <2>2. IsLive(c)' => IsLive(c)
      BY <2>1 DEF IsLive
    <2> QED BY <1>5, <2>1, <2>2
  <1>10. ASSUME NEW d \in Events, Fire(d)
         PROVE  /\ IsLive(c)' => IsCancelSent(c)'
                /\ Behind(toServer', c)
    BY <1>5, <1>10 DEF Fire, serverVars, executionVars, IsLive
  <1>11. ASSUME NEW ch \in Channels, RegisterChannel(ch)
         PROVE  /\ IsLive(c)' => IsCancelSent(c)'
                /\ Behind(toServer', c)
    BY <1>5, <1>11 DEF RegisterChannel, executionVars, IsLive
  <1>12. ASSUME NEW ch \in Channels, FlushPendingRequests(ch)
         PROVE  /\ IsLive(c)' => IsCancelSent(c)'
                /\ Behind(toServer', c)
    <2>1. PICK ids \in Seq(Ids) :
              /\ Execute(ids) /\ \A d \in Throwing : ~Contains(ids, d)
              /\ \A id : Contains(ids, id) => Contains(PendingIds(ch), id)
      BY <1>0, <1>12, FlushFacts
    <2>2. ~Contains(ids, c) /\ toServer' = toServer
      BY <1>0, <1>12, <2>1, NeverWaits, FlushKeepsRest
    <2>3. IsLive(c)' => IsLive(c)
      BY <1>0, <2>1, <2>2, RunsOnly
    <2> QED BY <1>5, <2>2, <2>3
  <1>13. ASSUME NEW ch \in Channels, NEW i \in DOMAIN pendingRequests[ch], PendingTimeout(ch, i)
         PROVE  /\ IsLive(c)' => IsCancelSent(c)'
                /\ Behind(toServer', c)
    BY <1>5, <1>13 DEF PendingTimeout, executionVars, IsLive
  <1>14. CASE ServerDispose
    BY <1>14 DEF ServerDispose, Together
  <1> QED BY <1>6, <1>7, <1>8, <1>9, <1>10, <1>11, <1>12, <1>13, <1>14
     DEF ServerStep, PendingStep, Settle

LEMMA NextKeepsFollowing ==
    ASSUME Typed, CallsAreOnce, EventsAreDeferredOnce, RunningIsCancellable, SidesFollow,
           [Next]_vars
    PROVE  SidesFollow'
  <1>1. CASE UNCHANGED vars
    <2>1. /\ UNCHANGED <<clientDisposed, serverDisposed, early, handlers, deferred, outcome>>
          /\ UNCHANGED <<serverRequests, running, tokenCancelled, listeners, toServer>>
      BY <1>1 DEF vars, clientVars, serverVars, registryVars, executionVars
    <2> QED BY <2>1 DEF SidesFollow, InTime, EventFollows, CancelFollows, Wants, IsDeferred,
               IsCancelSent, IsLive
  <1>2. CASE Next
    <2> SUFFICES ASSUME Together'
                 PROVE  /\ \A e \in InTime(Events \ Throwing)' : EventFollows(e)'
                        /\ \A c \in InTime(Calls)' : CancelFollows(c)'
      BY DEF SidesFollow, Together
    <2>1. Together /\ early' = early
      BY <1>2, TogetherBefore
    <2>2. InTime(Events \ Throwing)' = InTime(Events \ Throwing) /\ InTime(Calls)' = InTime(Calls)
      BY <2>1 DEF InTime
    <2>3. ASSUME NEW e \in InTime(Events \ Throwing) PROVE EventFollows(e)'
      <3>1. e \in Events \ Throwing /\ EventIsDeferredOnce(e) /\ EventFollows(e)
        BY <2>1 DEF InTime, EventsAreDeferredOnce, SidesFollow, Together
      <3> QED BY <1>2, <2>1, <3>1, ClientKeepsEvents, ServerKeepsEvents DEF Next
    <2>4. ASSUME NEW c \in InTime(Calls) PROVE CancelFollows(c)'
      <3>1. c \in Calls
        BY DEF InTime
      <3>2. IsOnce(c) /\ IsCancellable(c) /\ CancelFollows(c)
        BY <2>1, <3>1, CancellableParts DEF CallsAreOnce, SidesFollow, Together
      <3> QED BY <1>2, <3>1, <3>2, ClientKeepsCancels, ServerKeepsCancels DEF Next
    <2> QED BY <2>2, <2>3, <2>4
  <1> QED BY <1>1, <1>2

LEMMA FollowingInitially == Init => SidesFollow
  <1> SUFFICES ASSUME Init PROVE SidesFollow
    OBVIOUS
  <1>1. ASSUME NEW e \in Events PROVE EventFollows(e)
    <2>1. listeners[e] = 0 /\ serverRequests = {} /\ toServer = <<>> /\ Wants(e) = 0
      BY DEF Init, Wants
    <2> QED BY <2>1, LeadsNone DEF EventFollows
  <1>2. ASSUME NEW c \in Calls PROVE CancelFollows(c)
    BY DEF Init, CancelFollows, IsLive
  <1> QED BY <1>1, <1>2 DEF SidesFollow, InTime

-----------------------------------------------------------------------------
(* Theorems *)

LEMMA IpcInvInitially == Init => IpcInv
  BY TypedInitially, CallsAreOnceInitially, DeferredOnceInitially, MatchInitially,
     CancellableInitially, FollowingInitially DEF IpcInv

LEMMA NextKeepsIpcInv ==
    ASSUME IpcInv, [Next]_vars PROVE IpcInv'
  <1>1. /\ Typed /\ CallsAreOnce /\ EventsAreDeferredOnce
        /\ HandlersMatchCalls /\ RunningIsCancellable /\ SidesFollow
    BY DEF IpcInv
  <1>2. Typed' /\ CallsAreOnce'
    BY <1>1, NextIsTyped, NextKeepsOnce
  <1>3. EventsAreDeferredOnce' /\ HandlersMatchCalls'
    BY <1>1, NextKeepsDeferredOnce, NextKeepsMatch
  <1>4. RunningIsCancellable' /\ SidesFollow'
    BY <1>1, NextKeepsCancellable, NextKeepsFollowing
  <1> QED BY <1>2, <1>3, <1>4 DEF IpcInv

(* What holds between any two messages: where a request is, what the queue   *)
(* to the server still says of an event, what follows a request that was     *)
(* cancelled.                                                                *)
THEOREM IpcInvIsInvariant == Spec => []IpcInv
  <1>1. Init => IpcInv
    BY IpcInvInitially
  <1>2. IpcInv /\ [Next]_vars => IpcInv'
    BY NextKeepsIpcInv
  <1> QED BY <1>1, <1>2, PTL DEF Spec

(* The variables of both sides keep their types; in particular the          *)
(* disposables of activeRequests never remove more listeners from an event  *)
(* than the server has added.                                               *)
THEOREM IpcTypesAreKept == Spec => []TypeOK
  <1>1. IpcInv => TypeOK
    BY DEF IpcInv, Typed
  <1> QED BY <1>1, IpcInvIsInvariant, PTL

(* channel.call runs once at most for a requestPromise, however often its   *)
(* channel is registered and its request is deferred, collected in          *)
(* pendingRequests, timed out or cancelled; but once more for each flush    *)
(* that a listen of the same channel aborts, since the loop then leaves     *)
(* what it has run in the queue.  And a promise that is fulfilled is that   *)
(* of a run that has ended.                                                 *)
THEOREM CommandsRunOnce == Spec => []CalledOnce
  <1>1. IpcInv => CalledOnce
    BY DEF IpcInv, CallsAreOnce, IsOnce, IsEarned, HasEnded, CalledOnce
  <1> QED BY <1>1, IpcInvIsInvariant, PTL

(* The map of response handlers leaks nothing: while both sides live, a     *)
(* handler is kept for a response that is still to come, unless a result of *)
(* the call could not be serialized and no response was sent; and a promise *)
(* that is pending has a handler or a deferred request, and can be          *)
(* cancelled.                                                               *)
THEOREM HandlersAreAwaited == Spec => []HandlersMatchCalls
  <1>1. IpcInv => HandlersMatchCalls
    BY DEF IpcInv
  <1> QED BY <1>1, IpcInvIsInvariant, PTL

(* The activeRequests of the server are what the client has asked for and   *)
(* not taken back, once the requests it has sent are read.                  *)
THEOREM SidesAreInAgreement == Spec => []SidesAgree
  <1>1. ASSUME IpcInv PROVE SidesAgree
    <2>1. Typed /\ RunningIsCancellable /\ SidesFollow
      BY <1>1 DEF IpcInv
    <2>2. ASSUME toServer = <<>>, ~clientDisposed, ~serverDisposed
          PROVE  /\ \A e \in InTime(Events) : listeners[e] =
                       IF e \in handlers \ Throwing /\ ~Contains(deferred, e) THEN 1 ELSE 0
                 /\ \A c \in InTime(Calls) :
                       outcome[c] = "cancelled" => RunsOf(c) \subseteq tokenCancelled
      <3>1. ASSUME NEW e \in InTime(Events), e \notin Throwing PROVE listeners[e] = Wants(e)
        <4>1. e \in InTime(Events \ Throwing)
          BY <3>1 DEF InTime
        <4>2. /\ listeners[e] \in {0, 1} /\ Leads(<<>>, e, listeners[e], Wants(e))
          BY <2>1, <2>2, <4>1 DEF SidesFollow, EventFollows
        <4> QED BY <4>2, LeadsNone
      <3>2. ASSUME NEW e \in InTime(Events), e \in Throwing PROVE listeners[e] = 0
        BY <2>1, <3>2 DEF Typed
      <3>3. ASSUME NEW c \in InTime(Calls), outcome[c] = "cancelled"
            PROVE  RunsOf(c) \subseteq tokenCancelled
        <4>1. ~IsCancelSent(c)
          BY <2>2, EmptyFacts DEF IsCancelSent
        <4>2. ~IsLive(c)
          BY <2>1, <2>2, <3>3, <4>1 DEF SidesFollow, CancelFollows
        <4>3. running \subseteq Calls \X (Nat \ {0})
          BY <2>1, TypedParts DEF ExecutionIsTyped
        <4> QED BY <4>2, <4>3, RunFacts DEF RunsOf, IsLive
      <3> QED BY <3>1, <3>2, <3>3 DEF Wants, IsDeferred
    <2> QED BY <2>1, <2>2 DEF SidesAgree, EventsAndTokensAgree
  <1> QED BY <1>1, IpcInvIsInvariant, PTL
=============================================================================
