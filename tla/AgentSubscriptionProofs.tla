---------------------- MODULE AgentSubscriptionProofs ----------------------
(***************************************************************************)
(* Theorems about AgentSubscription, for any replay buffer and any number  *)
(* of actions, requests and transports: its types, that the client's       *)
(* actions keep their order, and that what the client takes for the        *)
(* confirmed state is the host's.                                          *)
(***************************************************************************)
EXTENDS AgentSubscription, SubsequenceTheorems

-----------------------------------------------------------------------------
(* The phases of a reconnection *)

Results == {"replay", "snapshots"}
Answers == {"snapshot", "failure"}
Has(msgs, types) == \E i \in DOMAIN msgs : msgs[i].type \in types
OnlyActions(msgs) == \A i \in DOMAIN msgs : msgs[i].type = "action"
IsAmongActions(msgs, p) ==
    msgs[p].type \in Results /\ \A i \in DOMAIN msgs : i # p => msgs[i].type = "action"

(* The reconnect request is on its way, and holds what the client has seen. *)
IsAsking ==
    /\ ~attached
    /\ Len(toServer) = 1 /\ toServer[1].type = "reconnect"
    /\ toServer[1].lastSeen = serverSeq
    /\ HasState => toServer[1].subscribed

(* The host restores the subscriptions, and sends nothing meanwhile. *)
IsRestoring ==
    /\ attached /\ restoring.on
    /\ toServer = <<>> /\ toClient = <<>> /\ answers = {}
    /\ restoring.lastSeen = serverSeq
    /\ HasState => IsSubscribed

(* The replay or the snapshots are ready, and actions are sent before them. *)
IsReady ==
    /\ attached /\ ~restoring.on
    /\ toServer = <<>>
    /\ \E msg : answers = {msg} /\ msg.type \in Results
    /\ OnlyActions(toClient)

(* The replay or the snapshots are on their way, among actions. *)
IsAnswered ==
    /\ attached /\ ~restoring.on
    /\ toServer = <<>> /\ answers = {}
    /\ \E p \in DOMAIN toClient : IsAmongActions(toClient, p)

Phases ==
    /\ conn = "Connected" =>
          /\ ~restoring.on
          /\ ~Has(toServer, {"reconnect"}) /\ ~Has(toClient, Results)
          /\ \A msg \in answers : msg.type \in Answers
    /\ conn = "Reconnecting" => ~attached
    /\ conn = "Asked" =>
          requests = {} /\ (IsAsking \/ IsRestoring \/ IsReady \/ IsAnswered)
    /\ ~attached => toClient = <<>> /\ ~restoring.on

(* What TypeOK leaves out: which messages wait where, and that only a       *)
(* pending entry waits for an answer.                                       *)
Typed ==
    /\ TypeOK
    /\ \A i \in DOMAIN outbox : outbox[i].type \in {"dispatchAction", "unsubscribe"}
    /\ \A i \in DOMAIN gated : gated[i].type = "subscribe"
    /\ \A i \in DOMAIN late : late[i] # <<>>
    /\ entry.request # NoRequest => entry.status = "pending"

-----------------------------------------------------------------------------
(* The order of the client's actions *)

Logged == {log[k].clientSeq : k \in DOMAIN log}
Done == dropped \cup Logged
Taken == Done \cup ToSet(queue)

(* Whatever comes before one of these actions was there before, or comes    *)
(* earlier.                                                                 *)
InOrder(actions, before) ==
    \A i \in DOMAIN actions : \A s \in 1 .. actions[i] - 1 :
        s \in before \/ \E j \in 1 .. i - 1 : actions[j] = s

QueuesAreInOrder ==
    /\ InOrder(queue, Done)
    /\ InOrder(Dispatched(toServer), Taken)
    /\ \A i \in DOMAIN late : InOrder(late[i], Taken)

(* No action is forgotten: it is done or pending; and if the transport      *)
(* works, it is on its way.                                                 *)
NothingIsForgotten ==
    /\ \A s \in 1 .. clientSeq : s \in Done \/ Contains(entry.pending, s)
    /\ conn = "Connected" =>
          \A s \in 1 .. clientSeq : s \in Taken \/ Contains(Dispatched(toServer), s)

(* The actions in the outbox are the last ones. *)
OutboxIsLatest ==
    \E first \in 1 .. clientSeq + 1 : Dispatched(outbox) = Interval(first, clientSeq)

PendingAscends ==
    IsAscending(entry.pending) /\ \A s \in ClientSeqs : Contains(entry.pending, s) => s <= clientSeq

OrderInv ==
    /\ QueuesAreInOrder /\ NothingIsForgotten /\ OutboxIsLatest /\ PendingAscends
    /\ ActionsKeepTheirOrder

-----------------------------------------------------------------------------
(* Sequences *)

LEMMA SameSequence ==
    ASSUME NEW T, NEW s \in Seq(T), NEW t \in Seq(T), Len(s) = Len(t),
           \A i \in 1 .. Len(s) : s[i] = t[i]
    PROVE  s = t
  <1>1. s = [i \in 1 .. Len(s) |-> s[i]] /\ t = [i \in 1 .. Len(t) |-> t[i]]
    OBVIOUS
  <1> QED BY <1>1

LEMMA IntervalFacts ==
    ASSUME NEW first \in Int, NEW last \in Int
    PROVE  /\ Interval(first, last) \in Seq(Int)
           /\ first <= last + 1 => Len(Interval(first, last)) = last - first + 1
           /\ first > last => Interval(first, last) = <<>>
           /\ DOMAIN Interval(first, last) = 1 .. last - first + 1
           /\ \A i \in 1 .. last - first + 1 : Interval(first, last)[i] = first + i - 1
  <1>1. DOMAIN Interval(first, last) = 1 .. last - first + 1
        /\ \A i \in 1 .. last - first + 1 : Interval(first, last)[i] = first + i - 1
    BY DEF Interval
  <1>2. CASE first <= last + 1
    <2>1. last - first + 1 \in Nat
      BY <1>2
    <2>2. Interval(first, last) \in [1 .. last - first + 1 -> Int]
      BY DEF Interval
    <2> QED BY <1>1, <1>2, <2>1, <2>2
  <1>3. CASE first > last + 1
    <2>1. 1 .. last - first + 1 = {}
      BY <1>3
    <2>2. Interval(first, last) = <<>>
      BY <2>1 DEF Interval
    <2> QED BY <1>1, <1>3, <2>2
  <1> QED BY <1>2, <1>3

LEMMA IntervalContains ==
    ASSUME NEW first \in Int, NEW last \in Int
    PROVE  /\ \A n : Contains(Interval(first, last), n) <=> n \in first .. last
           /\ \A S : first .. last \subseteq S => Interval(first, last) \in Seq(S)
  <1>1. CASE first <= last
    <2>1. /\ Interval(first, last) \in Seq(Int) /\ Len(Interval(first, last)) = last - first + 1
          /\ \A i \in 1 .. last - first + 1 : Interval(first, last)[i] = first + i - 1
      BY <1>1, IntervalFacts
    <2>2. ASSUME NEW n \in first .. last PROVE Contains(Interval(first, last), n)
      <3>1. n - first + 1 \in 1 .. last - first + 1 /\ first + (n - first + 1) - 1 = n
        BY <1>1
      <3> QED BY <2>1, <3>1 DEF Contains
    <2>3. \A i \in 1 .. last - first + 1 : Interval(first, last)[i] \in first .. last
      BY <2>1
    <2>4. \A n : Contains(Interval(first, last), n) <=> n \in first .. last
      BY <2>1, <2>2, <2>3 DEF Contains
    <2>5. ASSUME NEW S, first .. last \subseteq S PROVE Interval(first, last) \in Seq(S)
      BY <2>1, <2>3, <2>5
    <2> QED BY <2>4, <2>5
  <1>2. CASE first > last
    <2>1. Interval(first, last) = <<>> /\ first .. last = {}
      BY <1>2, IntervalFacts
    <2> QED BY <2>1, EmptyFacts
  <1> QED BY <1>1, <1>2

LEMMA IntervalAppend ==
    ASSUME NEW first \in Int, NEW last \in Int, first <= last + 1
    PROVE  Append(Interval(first, last), last + 1) = Interval(first, last + 1)
  <1>1. /\ Interval(first, last) \in Seq(Int) /\ Len(Interval(first, last)) = last - first + 1
        /\ \A i \in 1 .. last - first + 1 : Interval(first, last)[i] = first + i - 1
    BY IntervalFacts
  <1>2. /\ Interval(first, last + 1) \in Seq(Int)
        /\ Len(Interval(first, last + 1)) = (last + 1) - first + 1
        /\ \A i \in 1 .. (last + 1) - first + 1 : Interval(first, last + 1)[i] = first + i - 1
    BY IntervalFacts
  <1> QED BY <1>1, <1>2

LEMMA IntervalConcat ==
    ASSUME NEW first \in Int, NEW middle \in Int, NEW last \in Int,
           first <= middle + 1, middle <= last
    PROVE  Interval(first, last) = Interval(first, middle) \o Interval(middle + 1, last)
  <1> DEFINE a == Interval(first, middle)
             b == Interval(middle + 1, last)
             c == Interval(first, last)
  <1>1. /\ a \in Seq(Int) /\ Len(a) = middle - first + 1
        /\ \A i \in 1 .. middle - first + 1 : a[i] = first + i - 1
    BY IntervalFacts
  <1>2. /\ b \in Seq(Int) /\ Len(b) = last - middle
        /\ \A i \in 1 .. last - middle : b[i] = middle + i
    <2> DEFINE next == middle + 1
    <2>1. next \in Int /\ next <= last + 1 /\ last - next + 1 = last - middle
          /\ \A i \in Int : next + i - 1 = middle + i
      OBVIOUS
    <2> HIDE DEF next
    <2>2. /\ Interval(next, last) \in Seq(Int) /\ Len(Interval(next, last)) = last - next + 1
          /\ \A i \in 1 .. last - next + 1 : Interval(next, last)[i] = next + i - 1
      BY <2>1, IntervalFacts
    <2>3. \A i \in 1 .. last - middle : Interval(next, last)[i] = middle + i
      BY <2>1, <2>2
    <2> QED BY <2>1, <2>2, <2>3 DEF next
  <1>3. /\ c \in Seq(Int) /\ Len(c) = last - first + 1
        /\ \A i \in 1 .. last - first + 1 : c[i] = first + i - 1
    BY IntervalFacts
  <1> HIDE DEF a, b, c
  <1>4. /\ a \o b \in Seq(Int) /\ Len(a \o b) = Len(a) + Len(b)
        /\ \A i \in 1 .. Len(a) : (a \o b)[i] = a[i]
        /\ \A i \in 1 .. Len(b) : (a \o b)[Len(a) + i] = b[i]
    <2>1. a \in Seq(Int) /\ b \in Seq(Int)
      BY <1>1, <1>2
    <2>2. a \o b \in Seq(Int) /\ Len(a \o b) = Len(a) + Len(b)
      BY <2>1
    <2> QED BY <2>1, <2>2, ConcatFacts
  <1>5. ASSUME NEW i \in 1 .. Len(c) PROVE (a \o b)[i] = c[i]
    <2>1. CASE i <= Len(a)
      <3>1. i \in 1 .. Len(a)
        BY <1>1, <1>3, <2>1
      <3> QED BY <1>1, <1>3, <1>4, <3>1
    <2>2. CASE i > Len(a)
      <3>1. i - Len(a) \in 1 .. Len(b) /\ Len(a) + (i - Len(a)) = i
            /\ middle + (i - Len(a)) = first + i - 1
        BY <1>1, <1>2, <1>3, <2>2
      <3> DEFINE k == i - Len(a)
      <3> HIDE DEF k
      <3>2. (a \o b)[Len(a) + k] = b[k]
        BY <1>4, <3>1 DEF k
      <3>3. b[k] = middle + k /\ c[i] = first + i - 1
        <4>1. k \in 1 .. last - middle /\ i \in 1 .. last - first + 1
          BY <1>2, <1>3, <3>1 DEF k
        <4> QED BY <1>2, <1>3, <4>1
      <3>4. Len(a) + k = i /\ middle + k = first + i - 1
        BY <3>1 DEF k
      <3> QED BY <3>2, <3>3, <3>4
    <2>3. i <= Len(a) \/ i > Len(a)
      BY <1>1, <1>3
    <2> QED BY <2>1, <2>2, <2>3, Zenon
  <1>6. c = a \o b
    <2>1. Len(c) = Len(a \o b)
      BY <1>1, <1>2, <1>3, <1>4
    <2>2. c \in Seq(Int) /\ a \o b \in Seq(Int)
      BY <1>3, <1>4
    <2>3. \A i \in 1 .. Len(c) : c[i] = (a \o b)[i]
      BY <1>5
    <2> DEFINE ab == a \o b
    <2> HIDE DEF ab
    <2>4. c \in Seq(Int) /\ ab \in Seq(Int) /\ Len(c) = Len(ab)
          /\ \A i \in 1 .. Len(c) : c[i] = ab[i]
      BY <2>1, <2>2, <2>3 DEF ab
    <2>5. c = ab
      BY <2>4, SameSequence
    <2> QED BY <2>5 DEF ab
  <1> QED BY <1>6 DEF a, b, c

LEMMA MaxOfTwo ==
    ASSUME NEW a \in Int, NEW b \in Int
    PROVE  /\ Max({a, b}) = IF a >= b THEN a ELSE b
           /\ Max({a, b}) \in Int
  BY DEF Max

(* A set of numbers with a bound has a greatest one. *)
LEMMA MaxOfSet ==
    ASSUME NEW n \in Nat, NEW S \in SUBSET (0 .. n), S # {}
    PROVE  Max(S) \in S /\ \A m \in S : m <= Max(S)
  <1> DEFINE R == {n - m : m \in S}
  <1>1. R \in SUBSET Nat /\ R # {}
    <2>1. \A m \in S : n - m \in Nat
      OBVIOUS
    <2>2. PICK m \in S : TRUE
      OBVIOUS
    <2>3. n - m \in R
      BY <2>2
    <2> QED BY <2>1, <2>3
  <1>2. PICK r \in R : \A q \in R : r <= q
    BY <1>1, LeastNumber
  <1>3. PICK x \in S : r = n - x
    BY <1>2
  <1>4. \A m \in S : x >= m
    BY <1>2, <1>3
  <1>5. Max(S) \in S /\ \A m \in S : Max(S) >= m
    BY <1>4 DEF Max
  <1> QED BY <1>5

-----------------------------------------------------------------------------
(* The actions among the messages to the host *)

Dispatches == {Dispatch(s) : s \in ClientSeqs}
SeqsOf(sent) == [i \in DOMAIN sent |-> sent[i].clientSeq]

LEMMA DispatchIs ==
    /\ \A s \in ClientSeqs : Dispatch(s) \in ClientMessages /\ Dispatch(s).clientSeq = s
                             /\ IsDispatch(Dispatch(s))
    /\ \A m \in ClientMessages : IsDispatch(m) <=> m \in Dispatches
    /\ \A m \in ClientMessages : IsDispatch(m) => m.clientSeq \in ClientSeqs
                                                  /\ m = Dispatch(m.clientSeq)
    /\ \A s, t : Dispatch(s) = Dispatch(t) => s = t
    /\ Dispatches \subseteq ClientMessages
  BY DEF Dispatch, Dispatches, ClientMessages, IsDispatch

LEMMA DispatchedIs ==
    ASSUME NEW msgs
    PROVE  Dispatched(msgs) = SeqsOf(Only(msgs, Dispatches))
  BY DEF Dispatched, SeqsOf, Dispatches

LEMMA OnlyOfKept ==
    ASSUME NEW T, NEW s \in Seq(T), NEW kept, kept \subseteq T
    PROVE  Only(s, kept) \in Seq(kept)
  <1>1. Only(s, kept) \in Seq(T) /\ \A x : Contains(Only(s, kept), x) => x \in kept
    BY OnlyFacts
  <1>2. \A i \in 1 .. Len(Only(s, kept)) : Only(s, kept)[i] \in kept
    BY <1>1 DEF Contains
  <1> QED BY <1>1, <1>2

LEMMA SeqsOfFacts ==
    ASSUME NEW sent \in Seq(Dispatches)
    PROVE  /\ SeqsOf(sent) \in Seq(ClientSeqs) /\ Len(SeqsOf(sent)) = Len(sent)
           /\ \A i \in 1 .. Len(sent) : SeqsOf(sent)[i] = sent[i].clientSeq
                                        /\ sent[i] = Dispatch(SeqsOf(sent)[i])
           /\ \A s \in ClientSeqs : Contains(SeqsOf(sent), s) <=> Contains(sent, Dispatch(s))
  <1>1. /\ DOMAIN sent = 1 .. Len(sent) /\ Len(sent) \in Nat
        /\ \A i \in 1 .. Len(sent) : sent[i] \in Dispatches
    OBVIOUS
  <1>2. \A i \in 1 .. Len(sent) :
            sent[i].clientSeq \in ClientSeqs /\ sent[i] = Dispatch(sent[i].clientSeq)
    BY <1>1, DispatchIs
  <1>3. SeqsOf(sent) \in [1 .. Len(sent) -> ClientSeqs]
        /\ \A i \in 1 .. Len(sent) : SeqsOf(sent)[i] = sent[i].clientSeq
    BY <1>1, <1>2 DEF SeqsOf
  <1>4. SeqsOf(sent) \in Seq(ClientSeqs) /\ Len(SeqsOf(sent)) = Len(sent)
    BY <1>1, <1>3
  <1>5. ASSUME NEW s \in ClientSeqs
        PROVE  Contains(SeqsOf(sent), s) <=> Contains(sent, Dispatch(s))
    BY <1>2, <1>3, <1>4, DispatchIs DEF Contains
  <1> QED BY <1>2, <1>3, <1>4, <1>5

LEMMA DispatchedType ==
    ASSUME NEW msgs \in Seq(ClientMessages)
    PROVE  /\ Dispatched(msgs) \in Seq(ClientSeqs)
           /\ \A s \in ClientSeqs : Contains(Dispatched(msgs), s) <=> Contains(msgs, Dispatch(s))
  <1>1. Only(msgs, Dispatches) \in Seq(Dispatches)
    BY DispatchIs, OnlyOfKept
  <1>2. \A s \in ClientSeqs : Dispatch(s) \in Dispatches
    BY DEF Dispatches
  <1> QED BY <1>1, <1>2, DispatchedIs, SeqsOfFacts, OnlyFacts

LEMMA DispatchedConcat ==
    ASSUME NEW a \in Seq(ClientMessages), NEW b \in Seq(ClientMessages)
    PROVE  Dispatched(a \o b) = Dispatched(a) \o Dispatched(b)
  <1> DEFINE c == Only(a, Dispatches)
             d == Only(b, Dispatches)
  <1>1. Only(a \o b, Dispatches) = c \o d
    BY OnlyConcat
  <1>2. c \in Seq(Dispatches) /\ d \in Seq(Dispatches)
    BY DispatchIs, OnlyOfKept
  <1>3. Dispatched(a \o b) = SeqsOf(c \o d) /\ Dispatched(a) = SeqsOf(c)
        /\ Dispatched(b) = SeqsOf(d)
    BY <1>1, DispatchedIs
  <1> HIDE DEF c, d
  <1> DEFINE cd == c \o d
             f == SeqsOf(c) \o SeqsOf(d)
  <1>4. /\ cd \in Seq(Dispatches) /\ Len(cd) = Len(c) + Len(d)
        /\ Len(c) \in Nat /\ Len(d) \in Nat
        /\ \A i \in 1 .. Len(c) : cd[i] = c[i]
        /\ \A i \in 1 .. Len(d) : cd[Len(c) + i] = d[i]
    BY <1>2, ConcatFacts
  <1>5. /\ SeqsOf(c) \in Seq(ClientSeqs) /\ Len(SeqsOf(c)) = Len(c)
        /\ \A i \in 1 .. Len(c) : SeqsOf(c)[i] = c[i].clientSeq
        /\ SeqsOf(d) \in Seq(ClientSeqs) /\ Len(SeqsOf(d)) = Len(d)
        /\ \A i \in 1 .. Len(d) : SeqsOf(d)[i] = d[i].clientSeq
    BY <1>2, SeqsOfFacts
  <1>6. /\ f \in Seq(ClientSeqs) /\ Len(f) = Len(c) + Len(d)
        /\ \A i \in 1 .. Len(c) : f[i] = SeqsOf(c)[i]
        /\ \A i \in 1 .. Len(d) : f[Len(c) + i] = SeqsOf(d)[i]
    <2>1. SeqsOf(c) \in Seq(ClientSeqs) /\ SeqsOf(d) \in Seq(ClientSeqs)
      BY <1>5
    <2>2. Len(f) = Len(SeqsOf(c)) + Len(SeqsOf(d))
      BY <2>1
    <2> QED BY <1>5, <2>1, <2>2, ConcatFacts
  <1> HIDE DEF cd, f
  <1>7. /\ SeqsOf(cd) \in Seq(ClientSeqs) /\ Len(SeqsOf(cd)) = Len(cd)
        /\ \A i \in 1 .. Len(cd) : SeqsOf(cd)[i] = cd[i].clientSeq
    BY <1>4, SeqsOfFacts
  <1>8. ASSUME NEW i \in 1 .. Len(cd) PROVE SeqsOf(cd)[i] = f[i]
    <2>1. CASE i <= Len(c)
      <3>1. i \in 1 .. Len(c)
        BY <1>4, <2>1
      <3> QED BY <1>4, <1>5, <1>6, <1>7, <3>1
    <2>2. CASE i > Len(c)
      <3> DEFINE k == i - Len(c)
      <3>1. k \in 1 .. Len(d) /\ Len(c) + k = i
        BY <1>4, <2>2
      <3> HIDE DEF k
      <3>2. cd[Len(c) + k] = d[k] /\ f[Len(c) + k] = d[k].clientSeq
        BY <1>4, <1>5, <1>6, <3>1
      <3>3. SeqsOf(cd)[i] = cd[i].clientSeq
        BY <1>7
      <3> QED BY <3>1, <3>2, <3>3
    <2>3. i <= Len(c) \/ i > Len(c)
      BY <1>4
    <2> QED BY <2>1, <2>2, <2>3, Zenon
  <1>9. SeqsOf(cd) = f
    <2>1. Len(SeqsOf(cd)) = Len(f)
      BY <1>4, <1>6, <1>7
    <2>2. \A i \in 1 .. Len(SeqsOf(cd)) : SeqsOf(cd)[i] = f[i]
      BY <1>7, <1>8
    <2>3. SeqsOf(cd) \in Seq(ClientSeqs) /\ f \in Seq(ClientSeqs)
      BY <1>6, <1>7
    <2> QED BY <2>1, <2>2, <2>3, SameSequence
  <1> QED BY <1>3, <1>9 DEF cd, f

LEMMA DispatchedNone ==
    ASSUME NEW msgs \in Seq(ClientMessages), \A i \in DOMAIN msgs : ~IsDispatch(msgs[i])
    PROVE  Dispatched(msgs) = <<>>
  <1>1. \A x : Contains(msgs, x) => x \notin Dispatches
    BY DispatchIs DEF Contains
  <1>2. Only(msgs, Dispatches) = <<>>
    BY <1>1, OnlyNone
  <1> QED BY <1>2, DispatchedIs DEF SeqsOf

LEMMA DispatchedOne ==
    ASSUME NEW m \in ClientMessages
    PROVE  /\ IsDispatch(m) => Dispatched(<<m>>) = <<m.clientSeq>>
           /\ ~IsDispatch(m) => Dispatched(<<m>>) = <<>>
  <1>1. Only(<<m>>, Dispatches) = IF IsDispatch(m) THEN <<m>> ELSE <<>>
    BY OnlyOfOne, DispatchIs
  <1>2. SeqsOf(<<m>>) = <<m.clientSeq>>
    BY DEF SeqsOf
  <1>3. SeqsOf(<<>>) = <<>>
    BY DEF SeqsOf
  <1> QED BY <1>1, <1>2, <1>3, DispatchedIs

LEMMA DispatchedAppend ==
    ASSUME NEW msgs \in Seq(ClientMessages), NEW m \in ClientMessages
    PROVE  /\ IsDispatch(m) => Dispatched(Append(msgs, m)) = Append(Dispatched(msgs), m.clientSeq)
           /\ ~IsDispatch(m) => Dispatched(Append(msgs, m)) = Dispatched(msgs)
           /\ Append(msgs, m) = msgs \o <<m>> /\ <<m>> \in Seq(ClientMessages)
  <1> DEFINE one == <<m>>
  <1>1. Append(msgs, m) = msgs \o one /\ one \in Seq(ClientMessages)
    OBVIOUS
  <1>2. /\ IsDispatch(m) => Dispatched(one) = <<m.clientSeq>>
        /\ ~IsDispatch(m) => Dispatched(one) = <<>>
    BY DispatchedOne
  <1> HIDE DEF one
  <1>3. Dispatched(msgs \o one) = Dispatched(msgs) \o Dispatched(one)
    BY <1>1, DispatchedConcat
  <1>4. Dispatched(msgs) \in Seq(ClientSeqs)
    BY DispatchedType
  <1>5. Dispatched(msgs) \o <<>> = Dispatched(msgs)
        /\ Dispatched(msgs) \o <<m.clientSeq>> = Append(Dispatched(msgs), m.clientSeq)
    BY <1>4
  <1>6. one = <<m>>
    BY DEF one
  <1> QED BY <1>1, <1>2, <1>3, <1>5, <1>6

LEMMA DispatchedTail ==
    ASSUME NEW msgs \in Seq(ClientMessages), msgs # <<>>
    PROVE  /\ IsDispatch(Head(msgs)) =>
                /\ Dispatched(msgs) # <<>>
                /\ Head(Dispatched(msgs)) = Head(msgs).clientSeq
                /\ Tail(Dispatched(msgs)) = Dispatched(Tail(msgs))
           /\ ~IsDispatch(Head(msgs)) => Dispatched(msgs) = Dispatched(Tail(msgs))
  <1> DEFINE m == Head(msgs)
             one == <<m>>
             rest == Tail(msgs)
  <1>1. msgs = one \o rest /\ m \in ClientMessages /\ rest \in Seq(ClientMessages)
        /\ one \in Seq(ClientMessages)
    BY HeadAndTail
  <1>2. /\ IsDispatch(m) => Dispatched(one) = <<m.clientSeq>>
        /\ ~IsDispatch(m) => Dispatched(one) = <<>>
    BY <1>1, DispatchedOne
  <1> HIDE DEF one, m, rest
  <1>3. Dispatched(one \o rest) = Dispatched(one) \o Dispatched(rest)
    BY <1>1, DispatchedConcat
  <1>4. Dispatched(rest) \in Seq(ClientSeqs)
    BY <1>1, DispatchedType
  <1>5. <<>> \o Dispatched(rest) = Dispatched(rest)
    BY <1>4
  <1>6. /\ <<m.clientSeq>> \o Dispatched(rest) # <<>>
        /\ Head(<<m.clientSeq>> \o Dispatched(rest)) = m.clientSeq
        /\ Tail(<<m.clientSeq>> \o Dispatched(rest)) = Dispatched(rest)
    <2> DEFINE d == Dispatched(rest)
    <2>1. d \in Seq(ClientSeqs)
      BY <1>4
    <2> HIDE DEF d
    <2>2. /\ <<m.clientSeq>> \o d # <<>> /\ Head(<<m.clientSeq>> \o d) = m.clientSeq
          /\ Tail(<<m.clientSeq>> \o d) = d
      BY <2>1
    <2> QED BY <2>2 DEF d
  <1>7. m = Head(msgs) /\ rest = Tail(msgs)
    BY DEF m, rest
  <1> QED BY <1>1, <1>2, <1>3, <1>5, <1>6, <1>7

LEMMA DispatchAllFacts ==
    ASSUME NEW seqs \in Seq(ClientSeqs)
    PROVE  /\ DispatchAll(seqs) \in Seq(ClientMessages)
           /\ Dispatched(DispatchAll(seqs)) = seqs
           /\ \A i \in DOMAIN DispatchAll(seqs) : IsDispatch(DispatchAll(seqs)[i])
  <1> DEFINE msgs == DispatchAll(seqs)
  <1>1. DOMAIN seqs = 1 .. Len(seqs) /\ Len(seqs) \in Nat /\ \A i \in 1 .. Len(seqs) : seqs[i] \in ClientSeqs
    OBVIOUS
  <1>2. DOMAIN msgs = 1 .. Len(seqs) /\ \A i \in 1 .. Len(seqs) : msgs[i] = Dispatch(seqs[i])
    BY <1>1 DEF DispatchAll
  <1>3. \A i \in 1 .. Len(seqs) : msgs[i] \in Dispatches
    BY <1>1, <1>2 DEF Dispatches
  <1>4. msgs \in Seq(Dispatches) /\ Len(msgs) = Len(seqs)
    BY <1>1, <1>2, <1>3 DEF DispatchAll
  <1>5. \A i \in 1 .. Len(seqs) : IsDispatch(msgs[i]) /\ msgs[i].clientSeq = seqs[i]
    BY <1>1, <1>2, DispatchIs
  <1>6. msgs \in Seq(ClientMessages)
    BY <1>4, DispatchIs
  <1> HIDE DEF msgs
  <1>7. Only(msgs, Dispatches) = msgs
    BY <1>3, <1>4, OnlyAll
  <1>8. SeqsOf(msgs) = seqs
    <2>1. /\ SeqsOf(msgs) \in Seq(ClientSeqs) /\ Len(SeqsOf(msgs)) = Len(seqs)
          /\ \A i \in 1 .. Len(seqs) : SeqsOf(msgs)[i] = seqs[i]
      BY <1>4, <1>5, SeqsOfFacts
    <2> QED BY <2>1, SameSequence
  <1> QED BY <1>2, <1>5, <1>6, <1>7, <1>8, DispatchedIs DEF msgs

-----------------------------------------------------------------------------
(* Actions in order *)

LEMMA InOrderMore ==
    ASSUME NEW actions, NEW before, NEW after, InOrder(actions, before), before \subseteq after
    PROVE  InOrder(actions, after)
  BY DEF InOrder

LEMMA InOrderEmpty ==
    ASSUME NEW before PROVE InOrder(<<>>, before)
  BY DEF InOrder

LEMMA InOrderTail ==
    ASSUME NEW actions \in Seq(ClientSeqs), actions # <<>>, NEW before, NEW after,
           InOrder(actions, before), before \subseteq after, Head(actions) \in after
    PROVE  InOrder(Tail(actions), after)
  <1>1. /\ Len(actions) \in Nat \ {0} /\ DOMAIN actions = 1 .. Len(actions)
        /\ DOMAIN Tail(actions) = 1 .. Len(actions) - 1 /\ Head(actions) = actions[1]
        /\ \A i \in 1 .. Len(actions) - 1 : Tail(actions)[i] = actions[i + 1]
    OBVIOUS
  <1> SUFFICES ASSUME NEW i \in DOMAIN Tail(actions), NEW s \in 1 .. Tail(actions)[i] - 1,
                      s \notin after
               PROVE  \E j \in 1 .. i - 1 : Tail(actions)[j] = s
    BY DEF InOrder
  <1>2. i + 1 \in DOMAIN actions /\ i \in Int /\ s \in 1 .. actions[i + 1] - 1
        /\ i \in 1 .. Len(actions) - 1
    BY <1>1
  <1>3. PICK j \in 1 .. (i + 1) - 1 : actions[j] = s
    BY <1>2 DEF InOrder
  <1>4. j # 1
    BY <1>1, <1>3
  <1>5. j - 1 \in 1 .. i - 1 /\ j - 1 \in 1 .. Len(actions) - 1 /\ (j - 1) + 1 = j
    BY <1>1, <1>2, <1>3, <1>4
  <1>6. Tail(actions)[j - 1] = s
    BY <1>1, <1>3, <1>5
  <1> QED BY <1>5, <1>6

LEMMA InOrderConcat ==
    ASSUME NEW a \in Seq(ClientSeqs), NEW b \in Seq(ClientSeqs), NEW before, NEW after,
           InOrder(a, before), InOrder(b, after),
           \A s \in ClientSeqs : s \in after => s \in before \/ Contains(a, s)
    PROVE  InOrder(a \o b, before)
  <1> DEFINE ab == a \o b
  <1>1. /\ DOMAIN ab = 1 .. Len(a) + Len(b) /\ Len(a) \in Nat /\ Len(b) \in Nat
        /\ \A i \in 1 .. Len(a) : ab[i] = a[i]
        /\ \A i \in 1 .. Len(b) : ab[Len(a) + i] = b[i]
        /\ DOMAIN a = 1 .. Len(a) /\ DOMAIN b = 1 .. Len(b)
        /\ \A i \in 1 .. Len(b) : b[i] \in ClientSeqs
    BY ConcatFacts
  <1> HIDE DEF ab
  <1>2. ASSUME NEW i \in DOMAIN ab, NEW s \in 1 .. ab[i] - 1, s \notin before
        PROVE  \E j \in 1 .. i - 1 : ab[j] = s
    <2>1. CASE i <= Len(a)
      <3>1. i \in 1 .. Len(a) /\ ab[i] = a[i] /\ i \in DOMAIN a
        BY <1>1, <2>1
      <3>2. PICK j \in 1 .. i - 1 : a[j] = s
        BY <1>2, <3>1 DEF InOrder
      <3>3. j \in 1 .. Len(a)
        BY <1>1, <3>1
      <3> QED BY <1>1, <3>2, <3>3
    <2>2. CASE i > Len(a)
      <3> DEFINE k == i - Len(a)
      <3>1. k \in 1 .. Len(b) /\ Len(a) + k = i
        BY <1>1, <2>2
      <3> HIDE DEF k
      <3>2. ab[i] = b[k] /\ k \in DOMAIN b /\ b[k] \in ClientSeqs
        BY <1>1, <3>1
      <3>3. s \in 1 .. b[k] - 1 /\ s \in ClientSeqs
        BY <3>2, BoundsAssumption DEF ClientSeqs
      <3>4. s \in after \/ \E j \in 1 .. k - 1 : b[j] = s
        BY <3>2, <3>3 DEF InOrder
      <3>5. CASE s \in after
        <4>1. PICK j \in 1 .. Len(a) : a[j] = s
          BY <1>2, <3>3, <3>5 DEF Contains
        <4>2. j \in 1 .. i - 1 /\ ab[j] = s
          BY <1>1, <2>2, <4>1
        <4> QED BY <4>2
      <3>6. CASE \E j \in 1 .. k - 1 : b[j] = s
        <4>1. PICK j \in 1 .. k - 1 : b[j] = s
          BY <3>6
        <4>2. j \in 1 .. Len(b) /\ Len(a) + j \in 1 .. i - 1
          BY <1>1, <3>1
        <4>3. ab[Len(a) + j] = s
          BY <1>1, <4>1, <4>2
        <4> QED BY <4>2, <4>3
      <3> QED BY <3>4, <3>5, <3>6
    <2>3. i <= Len(a) \/ i > Len(a)
      BY <1>1
    <2> QED BY <2>1, <2>2, <2>3, Zenon
  <1>3. InOrder(ab, before)
    BY <1>2 DEF InOrder
  <1> QED BY <1>3 DEF ab

LEMMA InOrderAppend ==
    ASSUME NEW a \in Seq(ClientSeqs), NEW c \in ClientSeqs, NEW before, InOrder(a, before),
           \A s \in 1 .. c - 1 : s \in before \/ Contains(a, s)
    PROVE  InOrder(Append(a, c), before)
  <1>1. /\ DOMAIN Append(a, c) = 1 .. Len(a) + 1 /\ Len(a) \in Nat
        /\ \A i \in 1 .. Len(a) : Append(a, c)[i] = a[i]
        /\ Append(a, c)[Len(a) + 1] = c /\ DOMAIN a = 1 .. Len(a)
    OBVIOUS
  <1> SUFFICES ASSUME NEW i \in 1 .. Len(a) + 1, NEW s \in 1 .. Append(a, c)[i] - 1,
                      s \notin before
               PROVE  \E j \in 1 .. i - 1 : Append(a, c)[j] = s
    BY <1>1 DEF InOrder
  <1>2. CASE i = Len(a) + 1
    <2>1. s \in 1 .. c - 1
      BY <1>1, <1>2
    <2>2. PICK j \in 1 .. Len(a) : a[j] = s
      BY <2>1 DEF Contains
    <2>3. j \in 1 .. i - 1 /\ Append(a, c)[j] = s
      BY <1>1, <1>2, <2>2
    <2> QED BY <2>3
  <1>3. CASE i # Len(a) + 1
    <2>1. i \in 1 .. Len(a) /\ i \in DOMAIN a /\ s \in 1 .. a[i] - 1
      BY <1>1, <1>3
    <2>2. PICK j \in 1 .. i - 1 : a[j] = s
      BY <2>1 DEF InOrder
    <2>3. j \in 1 .. Len(a)
      BY <1>1, <2>1
    <2> QED BY <1>1, <2>2, <2>3
  <1> QED BY <1>2, <1>3

LEMMA PrefixFacts ==
    ASSUME NEW T, NEW s \in Seq(T), NEW n \in 1 .. Len(s)
    PROVE  /\ SubSeq(s, 1, n) \in Seq(T) /\ Len(SubSeq(s, 1, n)) = n
           /\ SubSeq(s, 1, n) # <<>>
           /\ \A i \in 1 .. n : SubSeq(s, 1, n)[i] = s[i] /\ i \in DOMAIN s
  OBVIOUS

LEMMA InOrderPrefix ==
    ASSUME NEW a \in Seq(ClientSeqs), NEW n \in 1 .. Len(a), NEW before, InOrder(a, before)
    PROVE  InOrder(SubSeq(a, 1, n), before)
  <1> DEFINE p == SubSeq(a, 1, n)
  <1>1. DOMAIN p = 1 .. n /\ \A i \in 1 .. n : p[i] = a[i] /\ i \in DOMAIN a
    <2>1. p \in Seq(ClientSeqs) /\ Len(p) = n
      BY PrefixFacts
    <2> QED BY <2>1, PrefixFacts
  <1> HIDE DEF p
  <1>2. \A i \in 1 .. n : \A j \in 1 .. i - 1 : j \in 1 .. n
    OBVIOUS
  <1>3. InOrder(p, before)
    BY <1>1, <1>2 DEF InOrder
  <1> QED BY <1>3 DEF p

(* An interval is in order after what is below it. *)
LEMMA IntervalInOrder ==
    ASSUME NEW first \in 1 .. MaxActions + 1, NEW last \in 0 .. MaxActions
    PROVE  /\ Interval(first, last) \in Seq(ClientSeqs)
           /\ InOrder(Interval(first, last), 1 .. first - 1)
  <1>1. first \in Int /\ last \in Int /\ first .. last \subseteq ClientSeqs
    BY BoundsAssumption DEF ClientSeqs
  <1>2. Interval(first, last) \in Seq(ClientSeqs)
    BY <1>1, IntervalContains
  <1>3. /\ DOMAIN Interval(first, last) = 1 .. last - first + 1
        /\ \A i \in 1 .. last - first + 1 : Interval(first, last)[i] = first + i - 1
    BY <1>1, IntervalFacts
  <1>4. ASSUME NEW i \in DOMAIN Interval(first, last),
               NEW s \in 1 .. Interval(first, last)[i] - 1, s \notin 1 .. first - 1
        PROVE  \E j \in 1 .. i - 1 : Interval(first, last)[j] = s
    <2>1. i \in 1 .. last - first + 1 /\ s \in 1 .. first + i - 2 /\ s >= first
      BY <1>1, <1>3, <1>4
    <2>2. s - first + 1 \in 1 .. i - 1 /\ s - first + 1 \in 1 .. last - first + 1
          /\ first + (s - first + 1) - 1 = s
      BY <1>1, <2>1
    <2> QED BY <1>3, <2>2
  <1> QED BY <1>2, <1>4 DEF InOrder

-----------------------------------------------------------------------------
(* Pending actions *)

LEMMA WithoutFacts ==
    ASSUME NEW pending \in Seq(ClientSeqs), NEW settled
    PROVE  /\ Without(pending, settled) \in Seq(ClientSeqs)
           /\ \A s : Contains(Without(pending, settled), s) <=>
                        Contains(pending, s) /\ s \notin settled
           /\ IsAscending(pending) => IsAscending(Without(pending, settled))
  <1>1. Without(pending, settled) \in Seq(ClientSeqs)
        /\ \A s : Contains(Without(pending, settled), s) <=>
                    Contains(pending, s) /\ s \in ClientSeqs \ settled
    BY OnlyFacts DEF Without
  <1>2. \A s : Contains(pending, s) => s \in ClientSeqs
    BY DEF Contains
  <1>3. pending \in Seq(Nat)
    <2>1. \A s \in ClientSeqs : s \in Nat
      BY DEF ClientSeqs
    <2>2. \A i \in 1 .. Len(pending) : pending[i] \in ClientSeqs
      OBVIOUS
    <2>3. \A i \in 1 .. Len(pending) : pending[i] \in Nat
      BY <2>1, <2>2
    <2> QED BY <2>3
  <1>4. IsAscending(pending) => IsAscending(Without(pending, settled))
    BY <1>3, OnlyAscends DEF Without
  <1> QED BY <1>1, <1>2, <1>4

(* Pending actions that ascend are in order, if those before each are.      *)
LEMMA AscendingInOrder ==
    ASSUME NEW a \in Seq(ClientSeqs), IsAscending(a), NEW before,
           \A c, s \in ClientSeqs : Contains(a, c) /\ s < c => s \in before \/ Contains(a, s)
    PROVE  InOrder(a, before)
  <1>1. DOMAIN a = 1 .. Len(a) /\ Len(a) \in Nat /\ \A i \in 1 .. Len(a) : a[i] \in ClientSeqs
    OBVIOUS
  <1>2. ASSUME NEW i \in DOMAIN a, NEW s \in 1 .. a[i] - 1, s \notin before
        PROVE  \E j \in 1 .. i - 1 : a[j] = s
    <2>1. a[i] \in ClientSeqs /\ Contains(a, a[i])
      BY <1>1 DEF Contains
    <2>2. s \in ClientSeqs /\ s < a[i]
      BY <2>1, BoundsAssumption DEF ClientSeqs
    <2>3. PICK j \in 1 .. Len(a) : a[j] = s
      BY <1>2, <2>1, <2>2 DEF Contains
    <2>4. ~(i < j) /\ i # j
      <3>1. s \in Int /\ a[i] \in Int
        BY <2>1, <2>2 DEF ClientSeqs
      <3> QED BY <1>1, <2>2, <2>3, <3>1 DEF IsAscending
    <2>5. j \in 1 .. i - 1
      BY <1>1, <2>3, <2>4
    <2> QED BY <2>3, <2>5
  <1> QED BY <1>2 DEF InOrder

(* What is drained after a reconnection: first the actions that are pending *)
(* and not in the outbox, which all come before those in the outbox.        *)
LEMMA DrainIs ==
    ASSUME NEW pending \in Seq(ClientSeqs), Typed
    PROVE  /\ Drain(pending) \in Seq(ClientMessages)
           /\ Dispatched(Drain(pending)) = Unqueued(pending) \o Dispatched(outbox)
           /\ Unqueued(pending) \in Seq(ClientSeqs) /\ Dispatched(outbox) \in Seq(ClientSeqs)
           /\ ~Has(Drain(pending), {"reconnect"})
  <1>1. outbox \in Seq(ClientMessages) /\ gated \in Seq(ClientMessages)
    BY DEF Typed, TypeOK
  <1>2. Unqueued(pending) \in Seq(ClientSeqs)
    BY WithoutFacts DEF Unqueued
  <1> DEFINE a == DispatchAll(Unqueued(pending))
  <1>3. a \in Seq(ClientMessages) /\ Dispatched(a) = Unqueued(pending)
        /\ \A i \in DOMAIN a : IsDispatch(a[i])
    BY <1>2, DispatchAllFacts
  <1>4. Dispatched(gated) = <<>>
    BY <1>1, DispatchedNone DEF Typed, IsDispatch
  <1>5. Dispatched(outbox) \in Seq(ClientSeqs)
    BY <1>1, DispatchedType
  <1>6. Drain(pending) = (a \o outbox) \o gated
    BY DEF Drain
  <1> HIDE DEF a
  <1> DEFINE b == a \o outbox
  <1>7. b \in Seq(ClientMessages) /\ Dispatched(b) = Unqueued(pending) \o Dispatched(outbox)
        /\ DOMAIN b = 1 .. Len(a) + Len(outbox)
    BY <1>1, <1>3, DispatchedConcat, ConcatFacts
  <1>8. \A i \in DOMAIN b : b[i].type # "reconnect"
    <2>1. /\ Len(a) \in Nat /\ Len(outbox) \in Nat
          /\ DOMAIN a = 1 .. Len(a) /\ DOMAIN outbox = 1 .. Len(outbox)
          /\ \A i \in 1 .. Len(a) : b[i] = a[i]
          /\ \A i \in 1 .. Len(outbox) : b[Len(a) + i] = outbox[i]
      BY <1>1, <1>3, ConcatFacts
    <2>2. \A i \in 1 .. Len(a) : a[i].type # "reconnect"
      BY <1>3, <2>1 DEF IsDispatch
    <2>3. \A i \in 1 .. Len(outbox) : outbox[i].type # "reconnect"
      BY <2>1 DEF Typed
    <2> HIDE DEF b
    <2> SUFFICES ASSUME NEW i \in 1 .. Len(a) + Len(outbox) PROVE b[i].type # "reconnect"
      BY <1>7
    <2>4. CASE i \in 1 .. Len(a)
      BY <2>1, <2>2, <2>4
    <2>5. CASE i \notin 1 .. Len(a)
      <3>1. i - Len(a) \in 1 .. Len(outbox) /\ Len(a) + (i - Len(a)) = i
        BY <2>1, <2>5
      <3> QED BY <2>1, <2>3, <3>1
    <2> QED BY <2>4, <2>5
  <1> HIDE DEF b
  <1>9. b \o gated \in Seq(ClientMessages) /\ Dispatched(b \o gated) = Dispatched(b) \o Dispatched(gated)
    BY <1>1, <1>7, DispatchedConcat, ConcatFacts
  <1>10. Dispatched(b) \o <<>> = Dispatched(b)
    BY <1>7, DispatchedType
  <1>11. \A i \in DOMAIN (b \o gated) : (b \o gated)[i].type # "reconnect"
    <2> DEFINE bg == b \o gated
    <2>1. /\ Len(b) \in Nat /\ Len(gated) \in Nat /\ DOMAIN bg = 1 .. Len(b) + Len(gated)
          /\ DOMAIN b = 1 .. Len(b) /\ DOMAIN gated = 1 .. Len(gated)
          /\ \A i \in 1 .. Len(b) : bg[i] = b[i]
          /\ \A i \in 1 .. Len(gated) : bg[Len(b) + i] = gated[i]
      BY <1>1, <1>7, ConcatFacts
    <2>2. \A i \in 1 .. Len(gated) : gated[i].type # "reconnect"
      BY <2>1 DEF Typed
    <2> HIDE DEF bg
    <2> SUFFICES ASSUME NEW i \in 1 .. Len(b) + Len(gated) PROVE bg[i].type # "reconnect"
      BY <2>1 DEF bg
    <2>3. CASE i \in 1 .. Len(b)
      BY <1>8, <2>1, <2>3
    <2>4. CASE i \notin 1 .. Len(b)
      <3>1. i - Len(b) \in 1 .. Len(gated) /\ Len(b) + (i - Len(b)) = i
        BY <2>1, <2>4
      <3> QED BY <2>1, <2>2, <3>1
    <2> QED BY <2>3, <2>4
  <1>12. Drain(pending) = b \o gated
    BY <1>6 DEF b
  <1> QED BY <1>2, <1>4, <1>5, <1>7, <1>9, <1>10, <1>11, <1>12 DEF Has

LEMMA DrainInOrder ==
    ASSUME NEW pending \in Seq(ClientSeqs), IsAscending(pending), Typed, OutboxIsLatest,
           NEW before, \A s \in 1 .. clientSeq : s \in before \/ Contains(pending, s),
           \A s \in ClientSeqs : Contains(pending, s) => s <= clientSeq
    PROVE  /\ InOrder(Dispatched(Drain(pending)), before)
           /\ \A s \in 1 .. clientSeq : s \in before \/ Contains(Dispatched(Drain(pending)), s)
  <1>1. PICK first \in 1 .. clientSeq + 1 : Dispatched(outbox) = Interval(first, clientSeq)
    BY DEF OutboxIsLatest
  <1>2. clientSeq \in 0 .. MaxActions /\ MaxActions \in Nat
    BY BoundsAssumption DEF Typed, TypeOK
  <1> DEFINE a == Unqueued(pending)
             b == Dispatched(outbox)
  <1>3. a \in Seq(ClientSeqs) /\ b \in Seq(ClientSeqs) /\ Dispatched(Drain(pending)) = a \o b
    BY DrainIs
  <1>4. \A s \in ClientSeqs : Contains(b, s) <=> s \in first .. clientSeq
    BY <1>1, <1>2, IntervalContains
  <1>5. IsAscending(a) /\ \A s \in ClientSeqs : Contains(a, s) <=> Contains(pending, s) /\ ~Contains(b, s)
    <2>1. \A s \in ClientSeqs : s \in ToSet(b) <=> Contains(b, s)
      BY <1>3, ContainsIsMember
    <2> QED BY <2>1, WithoutFacts DEF Unqueued
  <1>6. InOrder(b, 1 .. first - 1)
    <2>1. first \in 1 .. MaxActions + 1
      BY <1>2
    <2> QED BY <1>1, <1>2, <2>1, IntervalInOrder
  <1> HIDE DEF a, b
  <1>7. ASSUME NEW s \in 1 .. first - 1 PROVE s \in before \/ Contains(a, s)
    <2>1. s \in 1 .. clientSeq /\ s \in ClientSeqs /\ s \notin first .. clientSeq
      BY <1>2 DEF ClientSeqs
    <2> QED BY <1>4, <1>5, <2>1
  <1>8. InOrder(a, before)
    <2>1. ASSUME NEW c \in ClientSeqs, NEW s \in ClientSeqs, Contains(a, c), s < c
          PROVE  s \in before \/ Contains(a, s)
      <3>1. c <= clientSeq /\ c \notin first .. clientSeq
        BY <1>4, <1>5, <2>1
      <3>2. s \in 1 .. first - 1
        BY <1>2, <2>1, <3>1 DEF ClientSeqs
      <3> QED BY <1>7, <3>2
    <2> QED BY <1>3, <1>5, <2>1, AscendingInOrder
  <1>9. InOrder(a \o b, before)
    <2>1. \A s \in ClientSeqs : s \in 1 .. first - 1 => s \in before \/ Contains(a, s)
      BY <1>7
    <2> QED BY <1>3, <1>6, <1>8, <2>1, InOrderConcat
  <1>10. \A s \in 1 .. clientSeq : s \in before \/ Contains(a \o b, s)
    <2>1. \A s : Contains(a \o b, s) <=> Contains(a, s) \/ Contains(b, s)
      BY <1>3, ContainsConcat
    <2>2. \A s \in 1 .. clientSeq : s \in ClientSeqs /\ (s \in 1 .. first - 1 \/ s \in first .. clientSeq)
      BY <1>2 DEF ClientSeqs
    <2> QED BY <1>4, <1>7, <2>1, <2>2
  <1> QED BY <1>3, <1>9, <1>10

-----------------------------------------------------------------------------
(* Types, as the log grows *)

Entries(n) ==
    [status : {"none", "pending", "snapshot", "error"}, request : 0 .. MaxRequests,
     confirmed : Seq(1 .. n), fromSeq : 0 .. n, buffered : Seq(1 .. n), pending : Seq(ClientSeqs)]
Messages(n) ==
    [type : {"action"}, serverSeq : 1 .. n]
    \cup [type : {"replay"}, serverSeqs : Seq(1 .. n)]
    \cup [type : {"snapshot"}, id : 1 .. MaxRequests, fromSeq : 0 .. n]
    \cup [type : {"snapshots"}, fromSeq : 0 .. n, subscribed : BOOLEAN]
    \cup [type : {"failure"}, id : 1 .. MaxRequests]
RequestsTo(n) == [id : 1 .. MaxRequests, subscription : Subscriptions, fromSeq : NotTaken .. n]

LogType == log \in Seq(Envelopes)
ClientTypes ==
    /\ conn \in {"Connected", "Reconnecting", "Asked"}
    /\ serverSeq \in 0 .. Len(log) /\ clientSeq \in 0 .. MaxActions
    /\ entry \in Entries(Len(log))
    /\ outbox \in Seq(ClientMessages) /\ gated \in Seq(ClientMessages) /\ asked \in 0 .. MaxRequests
    /\ \A i \in DOMAIN outbox : outbox[i].type \in {"dispatchAction", "unsubscribe"}
    /\ \A i \in DOMAIN gated : gated[i].type = "subscribe"
    /\ ~IsHeld => entry = NoEntry
    /\ entry.request # NoRequest => entry.status = "pending"
WireTypes ==
    /\ toServer \in Seq(ClientMessages) /\ toClient \in Seq(Messages(Len(log)))
    /\ late \in Seq(Seq(ClientSeqs)) /\ breaks \in 0 .. MaxBreaks
    /\ \A i \in DOMAIN late : late[i] # <<>>
HostTypes ==
    /\ LogType /\ queue \in Seq(ClientSeqs)
    /\ attached \in BOOLEAN
    /\ subscription \in Subscriptions
    /\ requests \subseteq RequestsTo(Len(log))
    /\ answers \subseteq Messages(Len(log))
    /\ restoring \in [on : BOOLEAN, lastSeen : Nat, canReplay : BOOLEAN]
    /\ ~attached => requests = {} /\ answers = {} /\ ~IsSubscribed
HistoryTypes == dropped \subseteq ClientSeqs /\ gap \in BOOLEAN
Connections ==
    /\ conn = "Connected" => attached /\ outbox = <<>> /\ gated = <<>>
    /\ conn = "Reconnecting" => toServer = <<>> /\ toClient = <<>>
    /\ restoring.on => conn = "Asked" /\ attached

LEMMA DomainOfLog ==
    ASSUME LogType
    PROVE  DOMAIN log = 1 .. Len(log) /\ Len(log) \in Nat
  BY DEF LogType

LEMMA TypedParts ==
    Typed <=> ClientTypes /\ WireTypes /\ HostTypes /\ HistoryTypes /\ Connections
  <1>1. LogType => DOMAIN log = 1 .. Len(log)
    BY DomainOfLog
  <1>2. LogType => HostMessages = Messages(Len(log))
    BY <1>1 DEF HostMessages, Messages
  <1> QED BY <1>1, <1>2 DEF Typed, TypeOK, ClientTypes, WireTypes, HostTypes, HistoryTypes,
                            Connections, LogType, Entries, RequestsTo

LEMMA TypedPartsNext ==
    Typed' <=> ClientTypes' /\ WireTypes' /\ HostTypes' /\ HistoryTypes' /\ Connections'
  <1>1. LogType' => DOMAIN log' = 1 .. Len(log')
    BY DEF LogType
  <1>2. LogType' => HostMessages' = Messages(Len(log'))
    BY <1>1 DEF HostMessages, Messages
  <1> QED BY <1>1, <1>2 DEF Typed, TypeOK, ClientTypes, WireTypes, HostTypes, HistoryTypes,
                            Connections, LogType, Entries, ClientMessages, RequestsTo,
                            Subscriptions

LEMMA SeqsGrow ==
    ASSUME NEW S, NEW T, \A x \in S : x \in T, NEW s \in Seq(S)
    PROVE  s \in Seq(T)
  <1>1. \A i \in 1 .. Len(s) : s[i] \in S
    OBVIOUS
  <1> QED BY <1>1

LEMMA TypesGrow ==
    ASSUME NEW m \in Nat, NEW n \in Nat, m <= n
    PROVE  /\ \A e \in Entries(m) : e \in Entries(n)
           /\ \A msg \in Messages(m) : msg \in Messages(n)
           /\ \A r \in RequestsTo(m) : r \in RequestsTo(n)
           /\ \A s \in Seq(Messages(m)) : s \in Seq(Messages(n))
  <1>1. \A x \in 1 .. m : x \in 1 .. n
    OBVIOUS
  <1>2. \A s \in Seq(1 .. m) : s \in Seq(1 .. n)
    BY <1>1, SeqsGrow
  <1>3. \A x \in 0 .. m : x \in 0 .. n
    OBVIOUS
  <1>4. \A e \in Entries(m) : e \in Entries(n)
    BY <1>2, <1>3 DEF Entries
  <1>5. \A msg \in Messages(m) : msg \in Messages(n)
    BY <1>1, <1>2, <1>3 DEF Messages
  <1>6. \A s \in Seq(Messages(m)) : s \in Seq(Messages(n))
    BY <1>5, SeqsGrow
  <1>7. \A r \in RequestsTo(m) : r \in RequestsTo(n)
    <2>1. \A x \in NotTaken .. m : x \in NotTaken .. n
      BY DEF NotTaken
    <2> QED BY <2>1 DEF RequestsTo
  <1> QED BY <1>4, <1>5, <1>6, <1>7

(* The state with an action more in the log. *)
LogGrows(envelope) == log' = Append(log, envelope)

LEMMA LogGrowsFacts ==
    ASSUME LogType, NEW envelope \in Envelopes, LogGrows(envelope)
    PROVE  /\ LogType' /\ Len(log') = Len(log) + 1 /\ Len(log) \in Nat
           /\ DOMAIN log = 1 .. Len(log) /\ DOMAIN log' = 1 .. Len(log) + 1
           /\ \A k \in DOMAIN log : k \in DOMAIN log' /\ log'[k] = log[k]
           /\ log'[Len(log) + 1] = envelope
  BY DEF LogType, LogGrows

LEMMA PublishTypes ==
    ASSUME Typed, Phases, NEW envelope \in Envelopes, Publish(envelope),
           UNCHANGED <<conn, serverSeq, clientSeq, entry, outbox, gated, asked>>
    PROVE  /\ LogType' /\ ClientTypes'
           /\ toClient' \in Seq(Messages(Len(log')))
           /\ requests \subseteq RequestsTo(Len(log')) /\ answers \subseteq Messages(Len(log'))
           /\ gap' \in BOOLEAN
           /\ LogGrows(envelope)
  <1>1. LogGrows(envelope)
    BY DEF Publish, LogGrows
  <1>2. /\ LogType' /\ Len(log') = Len(log) + 1 /\ Len(log) \in Nat
    BY <1>1, TypedParts, LogGrowsFacts DEF HostTypes
  <1>3. ClientTypes'
    <2>1. ClientTypes
      BY TypedParts
    <2>2. entry \in Entries(Len(log'))
      BY <1>2, <2>1, TypesGrow DEF ClientTypes
    <2>3. serverSeq \in 0 .. Len(log')
      BY <1>2, <2>1 DEF ClientTypes
    <2> QED BY <2>1, <2>2, <2>3 DEF ClientTypes, IsHeld, ClientMessages
  <1>4. toClient \in Seq(Messages(Len(log')))
    BY <1>2, TypedParts, TypesGrow DEF WireTypes
  <1>5. [type |-> "action", serverSeq |-> Len(log')] \in Messages(Len(log'))
    BY <1>2 DEF Messages
  <1>6. toClient' \in Seq(Messages(Len(log')))
    <2>1. toClient' = toClient
          \/ toClient' = Append(toClient, [type |-> "action", serverSeq |-> Len(log')])
      BY DEF Publish
    <2> QED BY <1>4, <1>5, <2>1
  <1>7. gap' \in BOOLEAN
    BY TypedParts DEF Publish, HistoryTypes
  <1>8. requests \subseteq RequestsTo(Len(log')) /\ answers \subseteq Messages(Len(log'))
    BY <1>2, TypedParts, TypesGrow DEF HostTypes
  <1> QED BY <1>1, <1>2, <1>3, <1>6, <1>7, <1>8

-----------------------------------------------------------------------------
(* What the client's operations do to its entry *)

(* f has lost pending actions only that are in the log. *)
KeepsPending(e, f) ==
    /\ \A s : Contains(f.pending, s) => Contains(e.pending, s)
    /\ \A s : Contains(e.pending, s) => Contains(f.pending, s) \/ s \in Logged
    /\ IsAscending(e.pending) => IsAscending(f.pending)

LEMMA KeepsPendingOn ==
    ASSUME NEW e, NEW f, NEW g, KeepsPending(e, f), KeepsPending(f, g)
    PROVE  KeepsPending(e, g)
  BY DEF KeepsPending

LEMMA AppliedFacts ==
    ASSUME LogType, NEW seqs \in Seq(1 .. Len(log))
    PROVE  /\ Applied(seqs) \in Seq(1 .. Len(log)) /\ OfSession(seqs) \in Seq(1 .. Len(log))
           /\ \A k : Contains(Applied(seqs), k) <=>
                        Contains(seqs, k) /\ k \in DOMAIN log /\ IsApplied(k)
           /\ \A k : Contains(OfSession(seqs), k) <=>
                        Contains(seqs, k) /\ k \in DOMAIN log /\ IsOfSession(k)
           /\ Own(seqs) \subseteq Logged
  <1>1. Own(seqs) \subseteq Logged
    <2>1. \A i \in DOMAIN seqs : seqs[i] \in DOMAIN log
      BY DomainOfLog
    <2> QED BY <2>1 DEF Own, Logged
  <1>2. /\ Only(seqs, {k \in DOMAIN log : IsApplied(k)}) \in Seq(1 .. Len(log))
        /\ \A k : Contains(Only(seqs, {l \in DOMAIN log : IsApplied(l)}), k) <=>
                    Contains(seqs, k) /\ k \in {l \in DOMAIN log : IsApplied(l)}
    BY OnlyFacts
  <1>3. /\ Only(seqs, {k \in DOMAIN log : IsOfSession(k)}) \in Seq(1 .. Len(log))
        /\ \A k : Contains(Only(seqs, {l \in DOMAIN log : IsOfSession(l)}), k) <=>
                    Contains(seqs, k) /\ k \in {l \in DOMAIN log : IsOfSession(l)}
    BY OnlyFacts
  <1> QED BY <1>1, <1>2, <1>3 DEF Applied, OfSession

LEMMA SettlesPending ==
    ASSUME NEW e, e.pending \in Seq(ClientSeqs), NEW settled, settled \subseteq Logged, NEW f,
           f.pending = Without(e.pending, settled)
    PROVE  KeepsPending(e, f)
  BY WithoutFacts DEF KeepsPending

LEMMA SeqsConcat ==
    ASSUME NEW T, NEW s \in Seq(T), NEW t \in Seq(T) PROVE s \o t \in Seq(T)
  OBVIOUS

LEMMA ReceiveFacts ==
    ASSUME LogType, NEW e \in Entries(Len(log)), NEW seqs \in Seq(1 .. Len(log))
    PROVE  LET f == Receive(e, seqs) IN
           /\ f \in Entries(Len(log)) /\ KeepsPending(e, f)
           /\ f.status = e.status /\ f.request = e.request /\ f.fromSeq = e.fromSeq
           /\ e.status = "none" => f = e
           /\ e.status = "snapshot" => f.confirmed = e.confirmed \o Applied(seqs)
                                       /\ f.buffered = e.buffered
           /\ f.buffered = e.buffered \/ f.buffered = e.buffered \o OfSession(seqs)
  <1> DEFINE f == Receive(e, seqs)
  <1>0. /\ e.status \in {"none", "pending", "snapshot", "error"} /\ e.pending \in Seq(ClientSeqs)
        /\ e.confirmed \in Seq(1 .. Len(log)) /\ e.buffered \in Seq(1 .. Len(log))
    BY DEF Entries
  <1>1. CASE e.status = "snapshot"
    <2>1. e.confirmed \o Applied(seqs) \in Seq(1 .. Len(log))
      BY <1>0, AppliedFacts, SeqsConcat
    <2>2. Without(e.pending, Own(seqs)) \in Seq(ClientSeqs)
      BY <1>0, WithoutFacts
    <2>3. f = [e EXCEPT !.confirmed = e.confirmed \o Applied(seqs),
                        !.pending = Without(e.pending, Own(seqs))]
      BY <1>1 DEF Receive
    <2>4. f \in Entries(Len(log)) /\ f.pending = Without(e.pending, Own(seqs))
      BY <2>1, <2>2, <2>3 DEF Entries
    <2>5. KeepsPending(e, f)
      BY <1>0, <2>4, AppliedFacts, SettlesPending
    <2> QED BY <1>1, <2>3, <2>4, <2>5 DEF Entries
  <1>2. CASE e.status = "none"
    <2>1. f = e
      BY <1>2 DEF Receive
    <2> QED BY <1>2, <2>1 DEF KeepsPending
  <1>3. CASE e.status \in {"pending", "error"}
    <2>1. e.buffered \o OfSession(seqs) \in Seq(1 .. Len(log))
      BY <1>0, AppliedFacts, SeqsConcat
    <2>2. f = [e EXCEPT !.buffered = e.buffered \o OfSession(seqs)]
      BY <1>3 DEF Receive
    <2>3. f \in Entries(Len(log)) /\ f.pending = e.pending
      BY <2>1, <2>2 DEF Entries
    <2> QED BY <1>3, <2>2, <2>3 DEF Entries, KeepsPending
  <1> QED BY <1>0, <1>1, <1>2, <1>3

LEMMA SeatFacts ==
    ASSUME LogType, NEW e \in Entries(Len(log)), NEW from \in 0 .. Len(log)
    PROVE  LET f == Seat(e, from) IN
           /\ f \in Entries(Len(log)) /\ KeepsPending(e, f)
           /\ f.status = "snapshot" /\ f.request = e.request /\ f.fromSeq = from
           /\ f.buffered = <<>>
           /\ f.confirmed = Applied(Interval(1, from))
                            \o Applied(Only(e.buffered, from + 1 .. Len(log)))
  <1> DEFINE f == Seat(e, from)
  <1>0. e.pending \in Seq(ClientSeqs) /\ e.buffered \in Seq(1 .. Len(log)) /\ Len(log) \in Nat
    BY DomainOfLog DEF Entries
  <1>1. Interval(1, from) \in Seq(1 .. Len(log))
    <2>1. from \in Int /\ 1 .. from \subseteq 1 .. Len(log)
      BY <1>0
    <2> QED BY <2>1, IntervalContains
  <1>2. Only(e.buffered, from + 1 .. Len(log)) \in Seq(1 .. Len(log))
    BY <1>0, OnlyFacts
  <1> DEFINE confirmed == Applied(Interval(1, from))
                          \o Applied(Only(e.buffered, from + 1 .. Len(log)))
  <1>3. confirmed \in Seq(1 .. Len(log))
    BY <1>1, <1>2, AppliedFacts, SeqsConcat
  <1>4. Without(e.pending, Own(e.buffered)) \in Seq(ClientSeqs)
    BY <1>0, WithoutFacts
  <1>5. f = [e EXCEPT !.status = "snapshot", !.fromSeq = from, !.confirmed = confirmed,
                      !.buffered = <<>>, !.pending = Without(e.pending, Own(e.buffered))]
    BY DEF Seat
  <1> HIDE DEF confirmed
  <1>6. <<>> \in Seq(1 .. Len(log))
    OBVIOUS
  <1>7. f \in Entries(Len(log)) /\ f.pending = Without(e.pending, Own(e.buffered))
        /\ f.status = "snapshot" /\ f.request = e.request /\ f.fromSeq = from
        /\ f.buffered = <<>> /\ f.confirmed = confirmed
    BY <1>3, <1>4, <1>5, <1>6 DEF Entries
  <1>8. KeepsPending(e, f)
    BY <1>0, <1>7, AppliedFacts, SettlesPending
  <1> QED BY <1>7, <1>8 DEF confirmed

LEMMA DropFacts ==
    ASSUME LogType, NEW e \in Entries(Len(log)), NEW seqs \in Seq(1 .. Len(log))
    PROVE  LET f == DropReplayed(e, seqs) IN
           /\ f \in Entries(Len(log)) /\ KeepsPending(e, f)
           /\ f = [e EXCEPT !.pending = f.pending]
           /\ e = NoEntry => f = NoEntry
  <1> DEFINE f == DropReplayed(e, seqs)
             settled == Own(Applied(seqs))
  <1>0. e.pending \in Seq(ClientSeqs)
    BY DEF Entries
  <1>1. settled \subseteq Logged
    BY AppliedFacts
  <1>2. f = [e EXCEPT !.pending = Without(e.pending, settled)]
    BY DEF DropReplayed
  <1>3. Without(e.pending, settled) \in Seq(ClientSeqs)
    BY <1>0, WithoutFacts
  <1>4. f \in Entries(Len(log)) /\ f.pending = Without(e.pending, settled)
    BY <1>2, <1>3 DEF Entries
  <1>5. KeepsPending(e, f)
    BY <1>0, <1>1, <1>4, SettlesPending
  <1>6. e = NoEntry => f = NoEntry
    <2> SUFFICES ASSUME e = NoEntry PROVE f = NoEntry
      OBVIOUS
    <2>1. Without(<<>>, settled) = <<>>
      BY OnlyOfOne DEF Without
    <2> QED BY <1>2, <2>1 DEF NoEntry
  <1> QED BY <1>2, <1>4, <1>5, <1>6

-----------------------------------------------------------------------------
(* Phases *)

LEMMA HasConcat ==
    ASSUME NEW T, NEW s \in Seq(T), NEW t \in Seq(T), NEW types
    PROVE  Has(s \o t, types) => Has(s, types) \/ Has(t, types)
  <1> DEFINE st == s \o t
  <1>1. /\ DOMAIN st = 1 .. Len(s) + Len(t) /\ Len(s) \in Nat /\ Len(t) \in Nat
        /\ DOMAIN s = 1 .. Len(s) /\ DOMAIN t = 1 .. Len(t)
        /\ \A i \in 1 .. Len(s) : st[i] = s[i]
        /\ \A i \in 1 .. Len(t) : st[Len(s) + i] = t[i]
    BY ConcatFacts
  <1> HIDE DEF st
  <1>2. ASSUME NEW i \in DOMAIN st, st[i].type \in types PROVE Has(s, types) \/ Has(t, types)
    <2>1. CASE i \in 1 .. Len(s)
      BY <1>1, <1>2, <2>1 DEF Has
    <2>2. CASE i \notin 1 .. Len(s)
      <3>1. i - Len(s) \in 1 .. Len(t) /\ Len(s) + (i - Len(s)) = i
        BY <1>1, <2>2
      <3>2. t[i - Len(s)].type \in types
        BY <1>1, <1>2, <3>1
      <3> QED BY <1>1, <3>1, <3>2 DEF Has
    <2> QED BY <2>1, <2>2
  <1>3. Has(st, types) => Has(s, types) \/ Has(t, types)
    BY <1>2 DEF Has
  <1> QED BY <1>3 DEF st

LEMMA HasAppend ==
    ASSUME NEW T, NEW s \in Seq(T), NEW m \in T, NEW types
    PROVE  Has(Append(s, m), types) => Has(s, types) \/ m.type \in types
  <1>1. /\ DOMAIN Append(s, m) = 1 .. Len(s) + 1 /\ DOMAIN s = 1 .. Len(s)
        /\ \A i \in 1 .. Len(s) : Append(s, m)[i] = s[i]
        /\ Append(s, m)[Len(s) + 1] = m
    OBVIOUS
  <1> QED BY <1>1 DEF Has

LEMMA HasTail ==
    ASSUME NEW T, NEW s \in Seq(T), s # <<>>, NEW types
    PROVE  /\ Has(Tail(s), types) => Has(s, types)
           /\ Head(s).type \in types => Has(s, types)
           /\ Tail(s) \in Seq(T) /\ Head(s) \in T
  <1>1. /\ DOMAIN s = 1 .. Len(s) /\ Len(s) \in Nat \ {0} /\ Head(s) = s[1]
        /\ DOMAIN Tail(s) = 1 .. Len(s) - 1
        /\ \A i \in 1 .. Len(s) - 1 : Tail(s)[i] = s[i + 1] /\ i + 1 \in 1 .. Len(s)
    OBVIOUS
  <1>2. 1 \in DOMAIN s
    BY <1>1
  <1> QED BY <1>1, <1>2, HeadAndTail DEF Has

LEMMA PhaseTypes ==
    ASSUME Typed, Phases
    PROVE  /\ conn \in {"Connected", "Reconnecting", "Asked"}
           /\ conn = "Reconnecting" =>
                 ~attached /\ toServer = <<>> /\ toClient = <<>> /\ answers = {} /\ requests = {}
           /\ conn = "Connected" => attached /\ ~restoring.on
           /\ restoring.on => conn = "Asked" /\ attached
           /\ toServer \in Seq(ClientMessages) /\ toClient \in Seq(HostMessages)
  <1>1. /\ conn \in {"Connected", "Reconnecting", "Asked"}
        /\ conn = "Reconnecting" => toServer = <<>> /\ toClient = <<>>
        /\ conn = "Connected" => attached
        /\ restoring.on => conn = "Asked" /\ attached
        /\ ~attached => requests = {} /\ answers = {}
        /\ toServer \in Seq(ClientMessages) /\ toClient \in Seq(HostMessages)
    BY DEF Typed, TypeOK
  <1> QED BY <1>1 DEF Phases

(* In the phases of a reconnection. *)
LEMMA AskedPhases ==
    ASSUME Typed, Phases, conn = "Asked"
    PROVE  /\ requests = {}
           /\ \/ IsAsking /\ ~restoring.on /\ toClient = <<>> /\ answers = {}
              \/ IsRestoring
              \/ IsReady
              \/ IsAnswered
           /\ IsReady => OnlyActions(toClient) /\ toServer = <<>> /\ ~restoring.on
                         /\ \A msg \in answers : msg.type \in Results
           /\ answers # {} => IsReady
  <1>1. IsAsking => toClient = <<>> /\ ~restoring.on /\ answers = {}
    BY DEF Phases, IsAsking, Typed, TypeOK
  <1> QED BY <1>1 DEF Phases, IsRestoring, IsReady, IsAnswered

LEMMA WhileConnected ==
    ASSUME Typed, Phases
    PROVE  /\ requests # {} => conn = "Connected"
           /\ toServer # <<>> /\ Head(toServer).type # "reconnect" => conn = "Connected"
           /\ toClient # <<>> /\ Head(toClient).type \in Answers => conn = "Connected"
           /\ \A msg \in answers : msg.type \in Answers => conn = "Connected"
           /\ Has(toClient, Answers) => conn = "Connected"
  <1>1. IsAsking => Head(toServer).type = "reconnect"
    BY DEF IsAsking
  <1>2. IsRestoring \/ IsReady \/ IsAnswered => toServer = <<>>
    BY DEF IsRestoring, IsReady, IsAnswered
  <1>3. "action" \notin Answers /\ \A t \in Results : t \notin Answers
    BY DEF Answers, Results
  <1>4. conn = "Asked" => ~Has(toClient, Answers)
    <2>1. IsAsking \/ IsRestoring => toClient = <<>>
      BY DEF Phases, IsAsking, IsRestoring
    <2>2. toClient = <<>> => ~Has(toClient, Answers)
      BY DEF Has
    <2>3. IsReady => ~Has(toClient, Answers)
      BY <1>3 DEF IsReady, OnlyActions, Has
    <2>4. IsAnswered => ~Has(toClient, Answers)
      BY <1>3 DEF IsAnswered, IsAmongActions, Has
    <2> QED BY <2>1, <2>2, <2>3, <2>4 DEF Phases
  <1>5. conn = "Asked" => \A msg \in answers : msg.type \notin Answers
    BY <1>3, AskedPhases
  <1>6. toClient # <<>> /\ Head(toClient).type \in Answers => Has(toClient, Answers)
    BY PhaseTypes, HasTail
  <1>7. conn = "Asked" => requests = {}
    BY DEF Phases
  <1>8. conn = "Reconnecting" => ~Has(toClient, Answers)
    BY PhaseTypes DEF Has
  <1>9. conn = "Asked" => IsAsking \/ toServer = <<>>
    BY <1>2 DEF Phases
  <1>10. conn \in {"Connected", "Reconnecting", "Asked"}
    BY PhaseTypes
  <1>11. conn = "Reconnecting" => toServer = <<>> /\ answers = {} /\ requests = {}
    BY PhaseTypes
  <1> QED BY <1>1, <1>4, <1>5, <1>6, <1>7, <1>8, <1>9, <1>10, <1>11

LEMMA TailOfOne ==
    ASSUME NEW T, NEW s \in Seq(T), Len(s) = 1
    PROVE  s # <<>> /\ Tail(s) = <<>>
  <1>1. s # <<>>
    <2>1. Len(<<>>) = 0 /\ 0 # 1
      OBVIOUS
    <2> QED BY <2>1, Zenon
  <1>2. Tail(s) \in Seq(T) /\ Len(Tail(s)) = 0
    BY <1>1
  <1>3. <<>> \in Seq(T) /\ Len(<<>>) = 0
    OBVIOUS
  <1>4. Tail(s) = <<>>
    <2> DEFINE t == Tail(s)
               none == <<>>
    <2>1. t \in Seq(T) /\ none \in Seq(T) /\ Len(t) = Len(none) /\ Len(t) = 0
      BY <1>2, <1>3
    <2> HIDE DEF t, none
    <2>2. \A i \in 1 .. Len(t) : t[i] = none[i]
      BY <2>1
    <2>3. t = none
      BY <2>1, <2>2, SameSequence
    <2> QED BY <2>3 DEF t, none
  <1> QED BY <1>1, <1>4

LEMMA WhileAsked ==
    ASSUME Typed, Phases
    PROVE  /\ toServer # <<>> /\ Head(toServer).type = "reconnect" =>
                conn = "Asked" /\ IsAsking /\ Tail(toServer) = <<>> /\ requests = {}
           /\ restoring.on => conn = "Asked" /\ IsRestoring /\ requests = {}
           /\ toClient # <<>> /\ Head(toClient).type \in Results =>
                conn = "Asked" /\ IsAnswered /\ answers = {} /\ requests = {}
                /\ OnlyActions(Tail(toClient))
           /\ \A msg \in answers : msg.type \in Results => conn = "Asked"
           /\ Has(toClient, Results) => conn = "Asked" /\ IsAnswered
  <1>1. /\ toServer \in Seq(ClientMessages) /\ toClient \in Seq(HostMessages)
        /\ conn \in {"Connected", "Reconnecting", "Asked"}
        /\ conn = "Reconnecting" =>
                 ~attached /\ toServer = <<>> /\ toClient = <<>> /\ answers = {} /\ requests = {}
        /\ restoring.on => conn = "Asked"
    BY PhaseTypes
  <1>2. toServer # <<>> /\ Head(toServer).type = "reconnect" => Has(toServer, {"reconnect"})
    BY <1>1, HasTail
  <1>3. toClient # <<>> /\ Head(toClient).type \in Results => Has(toClient, Results)
    BY <1>1, HasTail
  <1>4. "action" \notin Results /\ \A t \in Answers : t \notin Results
    BY DEF Answers, Results
  <1>5. Len(toServer) = 1 => Tail(toServer) = <<>>
    BY <1>1, TailOfOne
  <1>6. Has(toClient, Results) => conn = "Asked" /\ IsAnswered
    <2>1. toClient = <<>> => ~Has(toClient, Results)
      BY DEF Has
    <2>2. (conn # "Connected" /\ conn # "Reconnecting") \/ ~Has(toClient, Results)
      BY <1>1, <2>1 DEF Phases
    <2>3. IsReady => ~Has(toClient, Results)
      BY <1>4 DEF IsReady, OnlyActions, Has
    <2>4. IsAsking \/ IsRestoring => toClient = <<>>
      BY DEF Phases, IsAsking, IsRestoring
    <2> QED BY <1>1, <2>1, <2>2, <2>3, <2>4 DEF Phases
  <1>7. ASSUME toClient # <<>>, Head(toClient).type \in Results
        PROVE  OnlyActions(Tail(toClient))
    <2>1. PICK p \in DOMAIN toClient : IsAmongActions(toClient, p)
      BY <1>3, <1>6, <1>7 DEF IsAnswered
    <2>2. /\ DOMAIN toClient = 1 .. Len(toClient) /\ Head(toClient) = toClient[1]
          /\ Len(toClient) \in Nat \ {0} /\ DOMAIN Tail(toClient) = 1 .. Len(toClient) - 1
          /\ \A i \in 1 .. Len(toClient) - 1 :
                Tail(toClient)[i] = toClient[i + 1] /\ i + 1 \in 1 .. Len(toClient) /\ i + 1 # 1
      BY <1>1, <1>7
    <2>3. p = 1
      BY <1>4, <1>7, <2>1, <2>2 DEF IsAmongActions
    <2> QED BY <2>1, <2>2, <2>3 DEF IsAmongActions, OnlyActions
  <1>8. \A msg \in answers : msg.type \in Results => conn = "Asked"
    BY <1>1, <1>4 DEF Phases
  <1>9. conn = "Asked" /\ toServer # <<>> => IsAsking
    BY DEF Phases, IsRestoring, IsReady, IsAnswered
  <1>10. conn = "Asked" /\ restoring.on => IsRestoring
    BY DEF Phases, IsAsking, IsReady, IsAnswered
  <1>11. conn = "Asked" => requests = {}
    BY DEF Phases
  <1>12. conn = "Connected" => ~Has(toServer, {"reconnect"})
    BY DEF Phases
  <1>13. IsAsking => Len(toServer) = 1
    BY DEF IsAsking
  <1>14. IsAnswered => answers = {}
    BY DEF IsAnswered
  <1> QED BY <1>1, <1>2, <1>3, <1>5, <1>6, <1>7, <1>8, <1>9, <1>10, <1>11, <1>12, <1>13, <1>14

LEMMA PhasesStay ==
    ASSUME Phases, UNCHANGED <<conn, attached, restoring, requests, answers, subscription, toClient,
                               serverSeq>>,
           toServer' = toServer \/ (conn = "Connected" /\ ~Has(toServer', {"reconnect"})),
           HasState' => HasState
    PROVE  Phases'
  BY DEF Phases, Has, IsAsking, IsRestoring, IsReady, IsAnswered, IsAmongActions, OnlyActions,
         IsSubscribed

LEMMA SendTypes ==
    ASSUME Typed, Phases, NEW msgs \in Seq(ClientMessages),
           \A i \in DOMAIN msgs : msgs[i].type \in {"dispatchAction", "unsubscribe"},
           SendNotifications(msgs)
    PROVE  /\ toServer' \in Seq(ClientMessages) /\ outbox' \in Seq(ClientMessages)
           /\ \A i \in DOMAIN outbox' : outbox'[i].type \in {"dispatchAction", "unsubscribe"}
           /\ conn = "Connected" =>
                /\ toServer' = toServer \o msgs /\ outbox' = outbox
                /\ ~Has(toServer', {"reconnect"})
           /\ conn # "Connected" => toServer' = toServer /\ outbox' = outbox \o msgs
  <1>1. toServer \in Seq(ClientMessages) /\ outbox \in Seq(ClientMessages)
        /\ \A i \in DOMAIN outbox : outbox[i].type \in {"dispatchAction", "unsubscribe"}
    BY DEF Typed, TypeOK
  <1>2. CASE conn = "Connected"
    <2>1. toServer' = toServer \o msgs /\ outbox' = outbox
      BY <1>2 DEF SendNotifications
    <2>2. ~Has(msgs, {"reconnect"})
      BY DEF Has
    <2>3. ~Has(toServer', {"reconnect"})
      BY <1>1, <1>2, <2>1, <2>2, HasConcat DEF Phases
    <2> QED BY <1>1, <1>2, <2>1, <2>3, SeqsConcat
  <1>3. CASE conn # "Connected"
    <2>1. toServer' = toServer /\ outbox' = outbox \o msgs
      BY <1>3 DEF SendNotifications
    <2>2. /\ DOMAIN (outbox \o msgs) = 1 .. Len(outbox) + Len(msgs)
          /\ Len(outbox) \in Nat /\ Len(msgs) \in Nat
          /\ DOMAIN outbox = 1 .. Len(outbox) /\ DOMAIN msgs = 1 .. Len(msgs)
          /\ \A i \in 1 .. Len(outbox) : (outbox \o msgs)[i] = outbox[i]
          /\ \A i \in 1 .. Len(msgs) : (outbox \o msgs)[Len(outbox) + i] = msgs[i]
      BY <1>1, ConcatFacts
    <2> DEFINE all == outbox \o msgs
    <2> HIDE DEF all
    <2>3. ASSUME NEW i \in DOMAIN all PROVE all[i].type \in {"dispatchAction", "unsubscribe"}
      <3>1. CASE i \in 1 .. Len(outbox)
        BY <1>1, <2>2, <3>1 DEF all
      <3>2. CASE i \notin 1 .. Len(outbox)
        <4>1. i - Len(outbox) \in 1 .. Len(msgs) /\ Len(outbox) + (i - Len(outbox)) = i
          BY <2>2, <3>2 DEF all
        <4> QED BY <2>2, <4>1 DEF all
      <3> QED BY <3>1, <3>2
    <2>4. outbox \o msgs \in Seq(ClientMessages)
      BY <1>1, SeqsConcat
    <2> QED BY <1>1, <1>3, <2>1, <2>3, <2>4 DEF all
  <1> QED BY <1>2, <1>3

LEMMA SubscribeIs ==
    /\ \A id \in 1 .. MaxRequests : Subscribe(id) \in ClientMessages
                                    /\ Subscribe(id).type = "subscribe" /\ Subscribe(id).id = id
    /\ \A i, j : Subscribe(i) = Subscribe(j) => i = j
    /\ Unsubscribe \in ClientMessages /\ Unsubscribe.type = "unsubscribe"
    /\ \A m \in ClientMessages :
          /\ m.type \in {"dispatchAction", "unsubscribe", "subscribe", "reconnect"}
          /\ m.type = "subscribe" => m.id \in 1 .. MaxRequests /\ m = Subscribe(m.id)
          /\ m.type = "unsubscribe" => m = Unsubscribe
          /\ m.type = "reconnect" => m.lastSeen \in Nat /\ m.subscribed \in BOOLEAN
          /\ IsDispatch(m) <=> m.type = "dispatchAction"
  BY DEF Subscribe, Unsubscribe, ClientMessages, IsDispatch

LEMMA EntryIs ==
    /\ NoEntry \in Entries(0) /\ \A n \in Nat : NoEntry \in Entries(n)
    /\ NoEntry.status = "none" /\ NoEntry.pending = <<>> /\ NoEntry.buffered = <<>>
    /\ NoEntry.request = 0
    /\ \A id \in 1 .. MaxRequests :
          /\ \A n \in Nat : NewEntry(id) \in Entries(n)
          /\ NewEntry(id).status = "pending" /\ NewEntry(id).pending = <<>>
          /\ NewEntry(id).buffered = <<>> /\ NewEntry(id).request = id
  <1>1. \A T : <<>> \in Seq(T)
    OBVIOUS
  <1>2. MaxRequests \in Nat
    BY BoundsAssumption
  <1>3. \A n \in Nat : NoEntry \in Entries(n)
    BY <1>1, <1>2 DEF NoEntry, Entries, NoSnapshot, NoRequest
  <1>4. /\ NoEntry.status = "none" /\ NoEntry.pending = <<>> /\ NoEntry.buffered = <<>>
        /\ NoEntry.request = 0
    BY DEF NoEntry, NoRequest
  <1>5. ASSUME NEW id \in 1 .. MaxRequests
        PROVE  /\ \A n \in Nat : NewEntry(id) \in Entries(n)
               /\ NewEntry(id).status = "pending" /\ NewEntry(id).pending = <<>>
               /\ NewEntry(id).buffered = <<>> /\ NewEntry(id).request = id
    <2>1. /\ NewEntry(id).status = "pending" /\ NewEntry(id).request = id
          /\ NewEntry(id).pending = <<>> /\ NewEntry(id).buffered = <<>>
      BY DEF NewEntry, NoEntry
    <2>2. id \in 0 .. MaxRequests
      BY <1>2
    <2>3. ASSUME NEW n \in Nat PROVE NewEntry(id) \in Entries(n)
      BY <1>3, <2>2, <2>3 DEF NewEntry, Entries
    <2> QED BY <2>1, <2>3
  <1> QED BY <1>3, <1>4, <1>5

LEMMA ToSetType ==
    ASSUME NEW T, NEW s \in Seq(T) PROVE ToSet(s) \subseteq T
  BY DEF ToSet

-----------------------------------------------------------------------------
(* Types and phases are kept *)

(* A step that changes the client's entry and sends to the host.            *)
LEMMA UserTypes ==
    ASSUME Typed, Phases,
           UNCHANGED <<conn, serverSeq, toClient, late, breaks, host>>,
           clientSeq' \in 0 .. MaxActions, asked' \in 0 .. MaxRequests,
           entry' \in Entries(Len(log)), IsHeld' \/ entry' = NoEntry, HasState' => HasState,
           entry'.request # NoRequest => entry'.status = "pending",
           outbox' \in Seq(ClientMessages), gated' \in Seq(ClientMessages),
           toServer' \in Seq(ClientMessages),
           \A i \in DOMAIN outbox' : outbox'[i].type \in {"dispatchAction", "unsubscribe"},
           \A i \in DOMAIN gated' : gated'[i].type = "subscribe",
           conn = "Connected" =>
               outbox' = outbox /\ gated' = gated /\ ~Has(toServer', {"reconnect"}),
           conn # "Connected" => toServer' = toServer,
           dropped' \subseteq ClientSeqs, gap' \in BOOLEAN
    PROVE  Typed' /\ Phases'
  <1>1. ClientTypes /\ WireTypes /\ HostTypes /\ Connections
    BY TypedParts
  <1>2. ClientTypes'
    BY <1>1 DEF ClientTypes, host, ClientMessages
  <1>3. WireTypes'
    BY <1>1 DEF WireTypes, host, ClientMessages
  <1>4. HostTypes'
    BY <1>1 DEF HostTypes, LogType, IsSubscribed, host
  <1>5. Connections' /\ HistoryTypes'
    BY <1>1 DEF Connections, HistoryTypes, host
  <1>6. Phases'
    BY PhasesStay DEF host
  <1> QED BY <1>2, <1>3, <1>4, <1>5, <1>6, TypedPartsNext

LEMMA AcquireTypes ==
    ASSUME Typed, Phases, Acquire
    PROVE  /\ Typed' /\ Phases'
           /\ asked' = asked + 1 /\ asked' \in 1 .. MaxRequests /\ asked \in Nat
           /\ toServer' \in Seq(ClientMessages) /\ Dispatched(toServer') = Dispatched(toServer)
           /\ outbox' \in Seq(ClientMessages) /\ Dispatched(outbox') = Dispatched(outbox)
  <1>1. ClientTypes /\ WireTypes /\ HostTypes /\ HistoryTypes
    BY TypedParts
  <1>2. asked' = asked + 1 /\ asked' \in 1 .. MaxRequests /\ entry' = NewEntry(asked')
        /\ asked' \in 0 .. MaxRequests /\ asked \in Nat
    BY <1>1, BoundsAssumption DEF ClientTypes, Acquire
  <1>3. entry' \in Entries(Len(log)) /\ IsHeld' /\ ~HasState' /\ entry'.status = "pending"
    BY <1>1, <1>2, EntryIs, DomainOfLog DEF HostTypes, IsHeld, HasState
  <1> DEFINE evicted == IF IsHeld THEN <<Unsubscribe>> ELSE <<>>
             one == <<Subscribe(asked')>>
  <1>4. /\ evicted \in Seq(ClientMessages) /\ one \in Seq(ClientMessages)
        /\ Append(gated, Subscribe(asked')) \in Seq(ClientMessages)
    <2>1. Unsubscribe \in ClientMessages /\ Subscribe(asked') \in ClientMessages
      BY <1>2, SubscribeIs
    <2> QED BY <1>1, <2>1 DEF ClientTypes
  <1>5. /\ \A i \in DOMAIN evicted : evicted[i].type = "unsubscribe"
        /\ \A i \in DOMAIN one : one[i].type = "subscribe"
    BY <1>2, SubscribeIs
  <1>6. Dispatched(evicted) = <<>> /\ Dispatched(one) = <<>>
    <2>1. \A i \in DOMAIN evicted : ~IsDispatch(evicted[i])
      BY <1>5 DEF IsDispatch
    <2>2. \A i \in DOMAIN one : ~IsDispatch(one[i])
      BY <1>5 DEF IsDispatch
    <2> HIDE DEF evicted, one
    <2> QED BY <1>4, <2>1, <2>2, DispatchedNone
  <1>7. CASE conn = "Connected"
    <2>1. toServer' = (toServer \o evicted) \o one /\ UNCHANGED <<outbox, gated>>
      BY <1>7 DEF Acquire
    <2> HIDE DEF evicted, one
    <2> DEFINE first == toServer \o evicted
    <2>2. first \in Seq(ClientMessages) /\ Dispatched(first) = Dispatched(toServer) \o <<>>
      BY <1>1, <1>4, <1>6, SeqsConcat, DispatchedConcat DEF WireTypes
    <2>3. Dispatched(toServer) \o <<>> = Dispatched(toServer)
      BY <1>1, DispatchedType DEF WireTypes
    <2>4. ~Has(first, {"reconnect"})
      <3>1. ~Has(evicted, {"reconnect"})
        BY <1>5 DEF Has
      <3>2. ~Has(toServer, {"reconnect"})
        BY <1>7 DEF Phases
      <3> QED BY <1>1, <1>4, <3>1, <3>2, HasConcat DEF WireTypes
    <2>5. toServer' = first \o one
      BY <2>1
    <2> HIDE DEF first
    <2>6. toServer' \in Seq(ClientMessages) /\ Dispatched(toServer') = Dispatched(first) \o <<>>
      BY <1>4, <1>6, <2>2, <2>5, SeqsConcat, DispatchedConcat
    <2>7. Dispatched(first) \o <<>> = Dispatched(first)
      BY <2>2, DispatchedType
    <2>8. ~Has(toServer', {"reconnect"})
      <3>1. ~Has(one, {"reconnect"})
        BY <1>5 DEF Has
      <3> QED BY <1>4, <2>2, <2>4, <2>5, <3>1, HasConcat
    <2>9. dropped' \subseteq ClientSeqs /\ gap' \in BOOLEAN
      <3>1. ToSet(entry.pending) \subseteq ClientSeqs
        BY <1>1, ToSetType DEF ClientTypes, Entries
      <3> QED BY <1>1, <3>1 DEF Acquire, Clear, HistoryTypes
    <2>10. UNCHANGED <<conn, serverSeq, clientSeq, toClient, late, breaks, host>>
      BY DEF Acquire
    <2>11. Typed' /\ Phases'
      BY <1>1, <1>2, <1>3, <1>7, <2>1, <2>6, <2>8, <2>9, <2>10, UserTypes DEF ClientTypes
    <2> QED BY <1>1, <1>2, <2>1, <2>2, <2>3, <2>6, <2>7, <2>11 DEF ClientTypes
  <1>8. CASE conn # "Connected"
    <2>1. /\ outbox' = outbox \o evicted /\ gated' = Append(gated, Subscribe(asked'))
          /\ toServer' = toServer
      BY <1>8 DEF Acquire
    <2>2. \A i \in DOMAIN gated' : gated'[i].type = "subscribe"
      <3>1. gated \in Seq(ClientMessages) /\ \A i \in DOMAIN gated : gated[i].type = "subscribe"
        BY <1>1 DEF ClientTypes
      <3>2. Subscribe(asked').type = "subscribe"
        BY <1>2, SubscribeIs
      <3> QED BY <2>1, <3>1, <3>2
    <2> HIDE DEF evicted, one
    <2>3. outbox' \in Seq(ClientMessages) /\ Dispatched(outbox') = Dispatched(outbox) \o <<>>
      BY <1>1, <1>4, <1>6, <2>1, SeqsConcat, DispatchedConcat DEF ClientTypes
    <2>4. Dispatched(outbox) \o <<>> = Dispatched(outbox)
      BY <1>1, DispatchedType DEF ClientTypes
    <2>5. \A i \in DOMAIN outbox' : outbox'[i].type \in {"dispatchAction", "unsubscribe"}
      <3>1. outbox \in Seq(ClientMessages)
            /\ \A i \in DOMAIN outbox : outbox[i].type \in {"dispatchAction", "unsubscribe"}
        BY <1>1 DEF ClientTypes
      <3>2. \A i \in DOMAIN evicted : evicted[i].type \in {"dispatchAction", "unsubscribe"}
        BY <1>5
      <3>3. SendNotifications(evicted) => \A i \in DOMAIN outbox' :
                outbox'[i].type \in {"dispatchAction", "unsubscribe"}
        BY <1>4, <3>2, SendTypes
      <3>4. SendNotifications(evicted)
        BY <1>8, <2>1 DEF SendNotifications
      <3> QED BY <3>3, <3>4
    <2>6. dropped' \subseteq ClientSeqs /\ gap' \in BOOLEAN
      <3>1. ToSet(entry.pending) \subseteq ClientSeqs
        BY <1>1, ToSetType DEF ClientTypes, Entries
      <3> QED BY <1>1, <3>1 DEF Acquire, Clear, HistoryTypes
    <2>7. UNCHANGED <<conn, serverSeq, clientSeq, toClient, late, breaks, host>>
      BY DEF Acquire
    <2>8. toServer \in Seq(ClientMessages)
      BY <1>1 DEF WireTypes
    <2>9. Typed' /\ Phases'
      BY <1>1, <1>2, <1>3, <1>4, <1>8, <2>1, <2>2, <2>3, <2>5, <2>6, <2>7, <2>8, UserTypes
         DEF ClientTypes
    <2> QED BY <1>2, <2>1, <2>3, <2>4, <2>8, <2>9
  <1> QED BY <1>7, <1>8

LEMMA ReleaseTypes ==
    ASSUME Typed, Phases, Release
    PROVE  /\ Typed' /\ Phases'
           /\ Dispatched(toServer') = Dispatched(toServer)
           /\ Dispatched(outbox') = Dispatched(outbox)
  <1>1. ClientTypes /\ WireTypes /\ HostTypes /\ HistoryTypes
    BY TypedParts
  <1> DEFINE msgs == <<Unsubscribe>>
  <1>2. /\ msgs \in Seq(ClientMessages) /\ SendNotifications(msgs)
        /\ \A i \in DOMAIN msgs : msgs[i].type \in {"dispatchAction", "unsubscribe"}
                                  /\ ~IsDispatch(msgs[i])
    BY SubscribeIs DEF Release, IsDispatch
  <1>3. Dispatched(msgs) = <<>>
    <2> HIDE DEF msgs
    <2> QED BY <1>2, DispatchedNone
  <1> HIDE DEF msgs
  <1>4. /\ toServer' \in Seq(ClientMessages) /\ outbox' \in Seq(ClientMessages)
        /\ \A i \in DOMAIN outbox' : outbox'[i].type \in {"dispatchAction", "unsubscribe"}
        /\ conn = "Connected" =>
             /\ toServer' = toServer \o msgs /\ outbox' = outbox
             /\ ~Has(toServer', {"reconnect"})
        /\ conn # "Connected" => toServer' = toServer /\ outbox' = outbox \o msgs
    BY <1>2, SendTypes
  <1>5. Dispatched(toServer \o msgs) = Dispatched(toServer)
        /\ Dispatched(outbox \o msgs) = Dispatched(outbox)
    <2>1. toServer \in Seq(ClientMessages) /\ outbox \in Seq(ClientMessages)
      BY <1>1 DEF WireTypes, ClientTypes
    <2>2. Dispatched(toServer \o msgs) = Dispatched(toServer) \o <<>>
          /\ Dispatched(outbox \o msgs) = Dispatched(outbox) \o <<>>
      BY <1>2, <1>3, <2>1, DispatchedConcat
    <2> QED BY <2>1, <2>2, DispatchedType
  <1>6. /\ entry' = NoEntry /\ NoEntry \in Entries(Len(log)) /\ ~HasState'
        /\ entry'.request = NoRequest
    BY <1>1, EntryIs, DomainOfLog DEF Release, HostTypes, HasState, NoRequest
  <1>7. dropped' \subseteq ClientSeqs /\ gap' \in BOOLEAN
    <2>1. ToSet(entry.pending) \subseteq ClientSeqs
      BY <1>1, ToSetType DEF ClientTypes, Entries
    <2> QED BY <1>1, <2>1 DEF Release, Clear, HistoryTypes
  <1>8. UNCHANGED <<conn, serverSeq, clientSeq, gated, asked, toClient, late, breaks, host>>
    BY DEF Release
  <1>9. Typed' /\ Phases'
    BY <1>1, <1>4, <1>6, <1>7, <1>8, UserTypes DEF ClientTypes
  <1> QED BY <1>4, <1>5, <1>9

LEMMA ActTypes ==
    ASSUME Typed, Phases, Act
    PROVE  /\ Typed' /\ Phases'
           /\ clientSeq' = clientSeq + 1 /\ clientSeq' \in ClientSeqs /\ clientSeq \in Nat
           /\ entry'.pending = Append(entry.pending, clientSeq')
           /\ conn = "Connected" =>
                /\ Dispatched(toServer') = Append(Dispatched(toServer), clientSeq')
                /\ outbox' = outbox
           /\ conn # "Connected" =>
                /\ Dispatched(outbox') = Append(Dispatched(outbox), clientSeq')
                /\ toServer' = toServer
  <1>1. ClientTypes /\ WireTypes /\ HostTypes /\ HistoryTypes
    BY TypedParts
  <1>2. clientSeq' = clientSeq + 1 /\ clientSeq' \in ClientSeqs /\ clientSeq' \in 0 .. MaxActions
        /\ clientSeq \in Nat
    BY <1>1, BoundsAssumption DEF Act, ClientTypes, ClientSeqs
  <1> DEFINE m == Dispatch(clientSeq')
             msgs == <<m>>
  <1>3. m \in ClientMessages /\ IsDispatch(m) /\ m.clientSeq = clientSeq'
    BY <1>2, DispatchIs
  <1>4. /\ msgs \in Seq(ClientMessages) /\ SendNotifications(msgs)
        /\ \A i \in DOMAIN msgs : msgs[i].type \in {"dispatchAction", "unsubscribe"}
    BY <1>3 DEF Act, IsDispatch
  <1>5. \A s \in Seq(ClientMessages) :
            s \o msgs = Append(s, m) /\ Dispatched(s \o msgs) = Append(Dispatched(s), clientSeq')
    BY <1>3, DispatchedAppend
  <1> HIDE DEF m, msgs
  <1>6. /\ toServer' \in Seq(ClientMessages) /\ outbox' \in Seq(ClientMessages)
        /\ \A i \in DOMAIN outbox' : outbox'[i].type \in {"dispatchAction", "unsubscribe"}
        /\ conn = "Connected" =>
             /\ toServer' = toServer \o msgs /\ outbox' = outbox
             /\ ~Has(toServer', {"reconnect"})
        /\ conn # "Connected" => toServer' = toServer /\ outbox' = outbox \o msgs
    BY <1>4, SendTypes
  <1>7. /\ entry' \in Entries(Len(log)) /\ entry'.pending = Append(entry.pending, clientSeq')
        /\ entry'.status = entry.status /\ entry'.request = entry.request
    <2>1. entry \in Entries(Len(log)) /\ entry.pending \in Seq(ClientSeqs)
      BY <1>1 DEF ClientTypes, Entries
    <2>2. Append(entry.pending, clientSeq') \in Seq(ClientSeqs)
      BY <1>2, <2>1
    <2>3. entry' = [entry EXCEPT !.pending = Append(entry.pending, clientSeq')]
      BY DEF Act
    <2> QED BY <2>1, <2>2, <2>3 DEF Entries
  <1>8. IsHeld' /\ (HasState' => HasState)
    BY <1>7 DEF Act, IsHeld, HasState
  <1>9. UNCHANGED <<conn, serverSeq, gated, asked, toClient, late, breaks, host, dropped, gap>>
    BY DEF Act
  <1>10. Typed' /\ Phases'
    BY <1>1, <1>2, <1>6, <1>7, <1>8, <1>9, UserTypes DEF ClientTypes, HistoryTypes
  <1> QED BY <1>1, <1>2, <1>5, <1>6, <1>7, <1>10 DEF ClientTypes, WireTypes

-----------------------------------------------------------------------------
LEMMA MessageIs ==
    ASSUME NEW n \in Nat, NEW m \in Messages(n)
    PROVE  /\ m.type \in {"action", "replay", "snapshot", "snapshots", "failure"}
           /\ m.type = "action" => m.serverSeq \in 1 .. n
           /\ m.type = "replay" => m.serverSeqs \in Seq(1 .. n)
           /\ m.type = "snapshot" => m.fromSeq \in 0 .. n /\ m.id \in 1 .. MaxRequests
           /\ m.type = "failure" => m.id \in 1 .. MaxRequests
           /\ m.type = "snapshots" => m.fromSeq \in 0 .. n /\ m.subscribed \in BOOLEAN
  BY DEF Messages

LEMMA ReadIs ==
    ASSUME Typed, ReadFromServer
    PROVE  /\ Head(toClient) \in Messages(Len(log)) /\ toClient' \in Seq(Messages(Len(log)))
           /\ toClient \in Seq(Messages(Len(log))) /\ toClient # <<>> /\ toClient' = Tail(toClient)
           /\ Len(log) \in Nat
           /\ \A types : Has(toClient', types) => Has(toClient, types)
  <1>1. toClient \in Seq(Messages(Len(log))) /\ toClient # <<>> /\ toClient' = Tail(toClient)
        /\ Len(log) \in Nat
    BY TypedParts, DomainOfLog DEF WireTypes, HostTypes, ReadFromServer
  <1> QED BY <1>1, HasTail

(* The head of these messages is an action. *)
LEMMA ActionIsRead ==
    ASSUME NEW msgs \in Seq(HostMessages), msgs # <<>>, Head(msgs).type = "action"
    PROVE  /\ OnlyActions(msgs) => OnlyActions(Tail(msgs))
           /\ (\E p \in DOMAIN msgs : IsAmongActions(msgs, p)) =>
                 \E p \in DOMAIN Tail(msgs) : IsAmongActions(Tail(msgs), p)
  <1>1. /\ DOMAIN msgs = 1 .. Len(msgs) /\ Head(msgs) = msgs[1] /\ Len(msgs) \in Nat \ {0}
        /\ DOMAIN Tail(msgs) = 1 .. Len(msgs) - 1
        /\ \A i \in 1 .. Len(msgs) - 1 : Tail(msgs)[i] = msgs[i + 1] /\ i + 1 \in 1 .. Len(msgs)
    OBVIOUS
  <1>2. ASSUME NEW p \in DOMAIN msgs, IsAmongActions(msgs, p)
        PROVE  p - 1 \in DOMAIN Tail(msgs) /\ IsAmongActions(Tail(msgs), p - 1)
    <2>1. p # 1
      BY <1>1, <1>2 DEF IsAmongActions, Results
    <2>2. p - 1 \in 1 .. Len(msgs) - 1 /\ (p - 1) + 1 = p
      BY <1>1, <2>1
    <2>3. \A i \in 1 .. Len(msgs) - 1 : i # p - 1 => i + 1 # p
      BY <1>1
    <2> QED BY <1>1, <1>2, <2>2, <2>3 DEF IsAmongActions
  <1> QED BY <1>1, <1>2 DEF OnlyActions

(* A step that reads without ending a reconnection. *)
LEMMA ReadTypes ==
    ASSUME Typed, Phases, ReadFromServer,
           conn = "Connected" \/ Head(toClient).type = "action",
           UNCHANGED <<conn, clientSeq, outbox, gated, asked, toServer, late, breaks, host,
                       dropped>>,
           gap' \in BOOLEAN,
           serverSeq' \in 0 .. Len(log), entry' \in Entries(Len(log)), IsHeld' \/ entry' = NoEntry,
           entry'.request # NoRequest => entry'.status = "pending"
    PROVE  Typed' /\ Phases'
  <1>1. ClientTypes /\ WireTypes /\ HostTypes /\ HistoryTypes /\ Connections
    BY TypedParts
  <1>2. /\ toClient' \in Seq(Messages(Len(log))) /\ (Has(toClient', Results) => Has(toClient, Results))
        /\ toClient # <<>> /\ toClient' = Tail(toClient) /\ toClient \in Seq(HostMessages)
    BY ReadIs, PhaseTypes
  <1>3. ClientTypes' /\ WireTypes' /\ HostTypes' /\ HistoryTypes'
    BY <1>1, <1>2 DEF ClientTypes, WireTypes, HostTypes, HistoryTypes, LogType, IsSubscribed, host,
                      ClientMessages, RequestsTo, Subscriptions
  <1>4. conn = "Connected" \/ (conn = "Asked" /\ (IsReady \/ IsAnswered))
    <2>1. IsAsking \/ IsRestoring => toClient = <<>>
      BY DEF Phases, IsAsking, IsRestoring
    <2> QED BY <1>2, <2>1, PhaseTypes DEF Phases
  <1>5. Connections'
    BY <1>1, <1>4 DEF Connections, host
  <1>6. Phases'
    <2>1. CASE conn = "Connected"
      <3>1. /\ attached' /\ conn' = "Connected" /\ ~restoring'.on /\ ~Has(toServer', {"reconnect"})
            /\ ~Has(toClient', Results) /\ answers' = answers
            /\ \A msg \in answers : msg.type \in Answers
        BY <1>1, <1>2, <2>1 DEF Connections, host, Phases
      <3> QED BY <3>1 DEF Phases
    <2>2. CASE conn # "Connected"
      <3>1. /\ conn' = "Asked" /\ UNCHANGED <<attached, restoring, toServer, answers, requests>>
            /\ requests = {} /\ attached /\ Head(toClient).type = "action"
        BY <1>4, <2>2 DEF host, Phases, IsReady, IsAnswered
      <3>2. IsReady \/ IsAnswered
        BY <1>4, <2>2
      <3>3. /\ OnlyActions(toClient) => OnlyActions(toClient')
            /\ (\E p \in DOMAIN toClient : IsAmongActions(toClient, p)) =>
                   \E p \in DOMAIN toClient' : IsAmongActions(toClient', p)
        BY <1>2, <3>1, ActionIsRead
      <3>4. IsReady' \/ IsAnswered'
        BY <3>1, <3>2, <3>3 DEF IsReady, IsAnswered
      <3> QED BY <3>1, <3>4 DEF Phases
    <2> QED BY <2>1, <2>2
  <1> QED BY <1>3, <1>5, <1>6, TypedPartsNext

LEMMA ReadActionTypes ==
    ASSUME Typed, Phases, ReadAction
    PROVE  /\ Typed' /\ Phases' /\ conn # "Reconnecting"
           /\ entry'.status = entry.status /\ entry'.request = entry.request
           /\ Head(toClient).serverSeq \in 1 .. Len(log)
           /\ serverSeq' = IF serverSeq >= Head(toClient).serverSeq THEN serverSeq
                           ELSE Head(toClient).serverSeq
           /\ KeepsPending(entry, entry')
           /\ <<Head(toClient).serverSeq>> \in Seq(1 .. Len(log))
  <1>1. ClientTypes /\ WireTypes /\ HostTypes /\ HistoryTypes /\ LogType
    BY TypedParts DEF HostTypes
  <1>2. conn # "Reconnecting"
    BY PhaseTypes DEF ReadAction, ReadFromServer
  <1> DEFINE k == Head(toClient).serverSeq
             seqs == <<k>>
  <1>3. k \in 1 .. Len(log) /\ Len(log) \in Nat
    BY ReadIs, MessageIs DEF ReadAction
  <1>4. serverSeq' = IF serverSeq >= k THEN serverSeq ELSE k
    <2>1. serverSeq \in Int /\ k \in Int
      BY <1>1, <1>3 DEF ClientTypes
    <2> QED BY <2>1, MaxOfTwo DEF ReadAction
  <1>5. serverSeq' \in 0 .. Len(log)
    BY <1>1, <1>3, <1>4 DEF ClientTypes
  <1>6. seqs \in Seq(1 .. Len(log))
    BY <1>3
  <1>7. entry' = Receive(entry, seqs)
    BY DEF ReadAction
  <1> HIDE DEF k, seqs
  <1>8. entry' \in Entries(Len(log)) /\ KeepsPending(entry, entry')
        /\ (IsHeld' \/ entry' = NoEntry)
        /\ entry'.status = entry.status /\ entry'.request = entry.request
        /\ (entry'.request # NoRequest => entry'.status = "pending")
    <2>1. entry \in Entries(Len(log)) /\ (~IsHeld => entry = NoEntry)
          /\ (entry.request # NoRequest => entry.status = "pending")
      BY <1>1 DEF ClientTypes
    <2>2. /\ entry' \in Entries(Len(log)) /\ KeepsPending(entry, entry')
          /\ entry'.status = entry.status /\ (entry.status = "none" => entry' = entry)
          /\ entry'.request = entry.request
      BY <1>1, <1>6, <1>7, <2>1, ReceiveFacts
    <2> QED BY <2>1, <2>2 DEF IsHeld
  <1>9. gap' \in BOOLEAN /\ ReadFromServer /\ Head(toClient).type = "action"
        /\ UNCHANGED <<conn, clientSeq, outbox, gated, asked, toServer, late, breaks, host, dropped>>
    BY <1>1 DEF ReadAction, HistoryTypes
  <1>10. Typed' /\ Phases'
    BY <1>5, <1>8, <1>9, ReadTypes
  <1> QED BY <1>2, <1>3, <1>4, <1>6, <1>8, <1>10 DEF k, seqs

IsAwaited(msg) == entry.request = msg.id

LEMMA SettledFacts ==
    ASSUME NEW n \in Nat, NEW e \in Entries(n)
    PROVE  /\ Settled(e) \in Entries(n) /\ Fail(e) \in Entries(n)
           /\ Settled(e).status = e.status /\ Fail(e).status = "error"
           /\ Settled(e).request = 0 /\ Fail(e).request = 0
           /\ Settled(e).pending = e.pending /\ Fail(e).pending = e.pending
           /\ Settled(e).buffered = e.buffered /\ Fail(e).buffered = e.buffered
           /\ Settled(e).confirmed = e.confirmed /\ Fail(e).confirmed = e.confirmed
           /\ Settled(e).fromSeq = e.fromSeq /\ Fail(e).fromSeq = e.fromSeq
           /\ KeepsPending(e, Settled(e)) /\ KeepsPending(e, Fail(e))
  <1>1. 0 \in 0 .. MaxRequests
    BY BoundsAssumption
  <1>2. /\ Settled(e) = [e EXCEPT !.request = 0]
        /\ Fail(e) = [Settled(e) EXCEPT !.status = "error"]
    BY DEF Settled, Fail, NoRequest
  <1>3. /\ Settled(e) \in Entries(n)
        /\ Settled(e).status = e.status /\ Settled(e).request = 0
        /\ Settled(e).pending = e.pending /\ Settled(e).buffered = e.buffered
        /\ Settled(e).confirmed = e.confirmed /\ Settled(e).fromSeq = e.fromSeq
    BY <1>1, <1>2 DEF Entries
  <1> DEFINE s == Settled(e)
  <1> HIDE DEF s
  <1>4. Fail(e) = [s EXCEPT !.status = "error"] /\ s \in Entries(n)
    BY <1>2, <1>3 DEF s
  <1>5. /\ Fail(e) \in Entries(n)
        /\ Fail(e).status = "error" /\ Fail(e).request = s.request
        /\ Fail(e).pending = s.pending /\ Fail(e).buffered = s.buffered
        /\ Fail(e).confirmed = s.confirmed /\ Fail(e).fromSeq = s.fromSeq
    BY <1>4 DEF Entries
  <1> QED BY <1>3, <1>5 DEF s, KeepsPending

LEMMA ReadAnswerTypes ==
    ASSUME Typed, Phases, ReadAnswer
    PROVE  /\ Typed' /\ Phases' /\ conn = "Connected"
           /\ KeepsPending(entry, entry')
           /\ LET msg == Head(toClient) IN
              /\ ~IsAwaited(msg) => entry' = entry
              /\ IsAwaited(msg) /\ msg.type = "snapshot" =>
                    /\ entry' = Seat(Settled(entry), msg.fromSeq) /\ msg.fromSeq \in 0 .. Len(log)
                    /\ Settled(entry) \in Entries(Len(log)) /\ entry.status = "pending"
              /\ IsAwaited(msg) /\ msg.type # "snapshot" => entry' = Fail(entry)
              /\ msg.type \in Answers /\ msg.id \in 1 .. MaxRequests
  <1>1. ClientTypes /\ WireTypes /\ HostTypes /\ HistoryTypes /\ LogType
    BY TypedParts DEF HostTypes
  <1>2. conn = "Connected"
    BY WhileConnected DEF ReadAnswer, ReadFromServer, Answers
  <1> DEFINE msg == Head(toClient)
  <1>3. /\ msg.type \in {"snapshot", "failure"}
        /\ msg.type = "snapshot" => msg.fromSeq \in 0 .. Len(log)
        /\ msg.id \in 1 .. MaxRequests
    BY ReadIs, MessageIs DEF ReadAnswer
  <1>4. entry' = IF ~IsAwaited(msg) THEN entry
                 ELSE IF msg.type = "snapshot" THEN Seat(Settled(entry), msg.fromSeq)
                 ELSE Fail(entry)
    BY DEF ReadAnswer, IsAwaited
  <1>5. entry \in Entries(Len(log)) /\ (~IsHeld => entry = NoEntry)
        /\ (entry.request # NoRequest => entry.status = "pending") /\ Len(log) \in Nat
    BY <1>1, DomainOfLog DEF ClientTypes
  <1>9. IsAwaited(msg) => entry.status = "pending"
    BY <1>3, <1>5 DEF IsAwaited, NoRequest
  <1>10. /\ Settled(entry) \in Entries(Len(log)) /\ Fail(entry) \in Entries(Len(log))
         /\ Settled(entry).request = 0 /\ Fail(entry).request = 0 /\ Fail(entry).status = "error"
         /\ KeepsPending(entry, Settled(entry)) /\ KeepsPending(entry, Fail(entry))
    BY <1>5, SettledFacts
  <1> HIDE DEF msg
  <1>6. entry' \in Entries(Len(log)) /\ KeepsPending(entry, entry') /\ (IsHeld' \/ entry' = NoEntry)
        /\ (entry'.request # NoRequest => entry'.status = "pending")
    <2>1. CASE ~IsAwaited(msg)
      BY <1>4, <1>5, <2>1 DEF KeepsPending, IsHeld
    <2>2. CASE IsAwaited(msg) /\ msg.type = "snapshot"
      <3> DEFINE settled == Settled(entry)
      <3>1. entry' = Seat(settled, msg.fromSeq)
        BY <1>4, <2>2
      <3>2. settled \in Entries(Len(log)) /\ settled.request = 0 /\ KeepsPending(entry, settled)
        BY <1>10
      <3> HIDE DEF settled
      <3>3. /\ entry' \in Entries(Len(log)) /\ KeepsPending(settled, entry')
            /\ entry'.status = "snapshot" /\ entry'.request = settled.request
        BY <1>1, <1>3, <2>2, <3>1, <3>2, SeatFacts
      <3> QED BY <3>2, <3>3, KeepsPendingOn DEF IsHeld, NoRequest
    <2>3. CASE IsAwaited(msg) /\ msg.type # "snapshot"
      <3>1. entry' = Fail(entry)
        BY <1>4, <2>3
      <3> QED BY <1>10, <3>1 DEF IsHeld, NoRequest
    <2> QED BY <2>1, <2>2, <2>3
  <1>7. serverSeq' \in 0 .. Len(log)
    BY <1>1 DEF ReadAnswer, ClientTypes
  <1>11. gap' \in BOOLEAN
    BY <1>1 DEF ReadAnswer, HistoryTypes
  <1>8. Typed' /\ Phases'
    BY <1>2, <1>6, <1>7, <1>11, ReadTypes DEF ReadAnswer
  <1> QED BY <1>2, <1>3, <1>4, <1>6, <1>8, <1>9, <1>10 DEF msg, Answers

(* The end of a reconnection. *)
LEMMA ResumeTypes ==
    ASSUME Typed, Phases, ReadFromServer, Head(toClient).type \in Results, Resume(entry'),
           serverSeq' \in 0 .. Len(log), entry' \in Entries(Len(log)), IsHeld' \/ entry' = NoEntry,
           entry'.request # NoRequest => entry'.status = "pending",
           dropped' \subseteq ClientSeqs, gap' \in BOOLEAN
    PROVE  /\ Typed' /\ Phases' /\ conn = "Asked" /\ IsAnswered
           /\ requests' = {} /\ answers' = {}
           /\ toServer' = Drain(entry'.pending) /\ conn' = "Connected"
           /\ outbox' = <<>> /\ UNCHANGED <<clientSeq, late, log, queue>>
           /\ \A i \in DOMAIN toClient' : toClient'[i].type = "action"
  <1>1. ClientTypes /\ WireTypes /\ HostTypes /\ HistoryTypes /\ LogType
    BY TypedParts DEF HostTypes
  <1>2. conn = "Asked" /\ IsAnswered /\ requests = {} /\ answers = {} /\ OnlyActions(Tail(toClient))
    BY WhileAsked DEF ReadFromServer
  <1>3. entry'.pending \in Seq(ClientSeqs)
    BY DEF Entries
  <1>4. toServer' = Drain(entry'.pending) /\ toServer' \in Seq(ClientMessages)
        /\ ~Has(toServer', {"reconnect"})
    <2>1. toServer' = <<>> \o Drain(entry'.pending)
      BY <1>2 DEF Resume, IsAnswered
    <2>2. Drain(entry'.pending) \in Seq(ClientMessages) /\ ~Has(Drain(entry'.pending), {"reconnect"})
      BY <1>3, DrainIs
    <2> DEFINE d == Drain(entry'.pending)
    <2> HIDE DEF d
    <2>3. d \in Seq(ClientMessages) => <<>> \o d = d
      OBVIOUS
    <2>4. <<>> \o Drain(entry'.pending) = Drain(entry'.pending)
      BY <2>2, <2>3 DEF d
    <2> QED BY <2>1, <2>2, <2>4
  <1>5. /\ toClient' \in Seq(Messages(Len(log)))
        /\ \A i \in DOMAIN toClient' : toClient'[i].type = "action"
    <2>1. /\ toClient \in Seq(Messages(Len(log))) /\ toClient # <<>>
          /\ toClient' = Tail(toClient) /\ toClient' \in Seq(Messages(Len(log)))
      BY ReadIs
    <2> QED BY <1>2, <2>1 DEF OnlyActions
  <1>6. ~Has(toClient', Results)
    BY <1>5 DEF Has, Results
  <1>7. /\ conn' = "Connected" /\ outbox' = <<>> /\ gated' = <<>>
        /\ UNCHANGED <<clientSeq, asked, late, breaks, log, queue, attached, subscription,
                       requests, restoring, answers>>
    BY DEF Resume, host
  <1>8. ClientTypes'
    <2>1. <<>> \in Seq(ClientMessages)
      OBVIOUS
    <2> QED BY <1>1, <1>7, <2>1 DEF ClientTypes, ClientMessages
  <1>9. WireTypes' /\ HostTypes' /\ HistoryTypes'
    BY <1>1, <1>4, <1>5, <1>7 DEF WireTypes, HostTypes, HistoryTypes, LogType, IsSubscribed,
                                  ClientMessages, RequestsTo, Subscriptions
  <1>10. attached' /\ ~restoring'.on
    BY <1>2, <1>7 DEF IsAnswered
  <1>11. Connections' /\ Phases'
    BY <1>2, <1>4, <1>6, <1>7, <1>10 DEF Connections, Phases
  <1> QED BY <1>2, <1>4, <1>5, <1>7, <1>8, <1>9, <1>11, TypedPartsNext

LEMMA ReadReplayTypes ==
    ASSUME Typed, Phases, ReadReplay
    PROVE  LET seqs == Head(toClient).serverSeqs
               kept == DropReplayed(entry, seqs) IN
           /\ Typed' /\ Phases' /\ conn = "Asked" /\ IsAnswered
           /\ requests' = {} /\ answers' = {}
           /\ toServer' = Drain(entry'.pending) /\ conn' = "Connected"
           /\ outbox' = <<>> /\ UNCHANGED <<clientSeq, late, log, queue, dropped>>
           /\ \A i \in DOMAIN toClient' : toClient'[i].type = "action"
           /\ KeepsPending(entry, entry')
           /\ seqs \in Seq(1 .. Len(log))
           /\ kept \in Entries(Len(log)) /\ kept = [entry EXCEPT !.pending = kept.pending]
           /\ entry' = Receive(kept, seqs)
           /\ serverSeq <= serverSeq'
           /\ \A k : Contains(seqs, k) => k <= serverSeq'
           /\ serverSeq' = serverSeq \/ Contains(seqs, serverSeq')
  <1>1. ClientTypes /\ WireTypes /\ HostTypes /\ HistoryTypes /\ LogType
    BY TypedParts DEF HostTypes
  <1> DEFINE seqs == Head(toClient).serverSeqs
             kept == DropReplayed(entry, seqs)
  <1>2. seqs \in Seq(1 .. Len(log)) /\ Len(log) \in Nat
    BY ReadIs, MessageIs DEF ReadReplay
  <1>3. entry' = Receive(kept, seqs) /\ serverSeq' = Max({serverSeq} \cup ToSet(seqs))
    BY DEF ReadReplay
  <1>4. ReadFromServer /\ Head(toClient).type \in Results /\ Resume(entry') /\ dropped' = dropped
        /\ gap' \in BOOLEAN
    BY <1>1 DEF ReadReplay, Results, HistoryTypes
  <1> HIDE DEF seqs, kept
  <1>5. entry \in Entries(Len(log)) /\ (~IsHeld => entry = NoEntry)
        /\ (entry.request # NoRequest => entry.status = "pending")
    BY <1>1 DEF ClientTypes
  <1>6. /\ kept \in Entries(Len(log)) /\ KeepsPending(entry, kept)
        /\ kept = [entry EXCEPT !.pending = kept.pending]
        /\ entry = NoEntry => kept = NoEntry
    BY <1>1, <1>2, <1>5, DropFacts DEF kept
  <1>7. /\ entry' \in Entries(Len(log)) /\ KeepsPending(kept, entry')
        /\ entry'.status = kept.status /\ (kept.status = "none" => entry' = kept)
        /\ entry'.request = kept.request
    BY <1>1, <1>2, <1>3, <1>6, ReceiveFacts
  <1>8. kept.status = entry.status /\ kept.request = entry.request
    BY <1>5, <1>6 DEF Entries
  <1>9. /\ IsHeld' \/ entry' = NoEntry
        /\ entry'.request # NoRequest => entry'.status = "pending"
    BY <1>5, <1>6, <1>7, <1>8 DEF IsHeld
  <1>10. KeepsPending(entry, entry')
    BY <1>6, <1>7, KeepsPendingOn
  <1>11. /\ serverSeq' \in 0 .. Len(log) /\ serverSeq <= serverSeq'
         /\ \A k \in ToSet(seqs) : k <= serverSeq'
         /\ serverSeq' = serverSeq \/ serverSeq' \in ToSet(seqs)
    <2> DEFINE S == {serverSeq} \cup ToSet(seqs)
    <2>1. S \in SUBSET (0 .. Len(log)) /\ S # {}
      <3>1. ToSet(seqs) \subseteq 1 .. Len(log)
        BY <1>2, ToSetType
      <3>2. serverSeq \in 0 .. Len(log)
        BY <1>1 DEF ClientTypes
      <3> QED BY <1>2, <3>1, <3>2
    <2> HIDE DEF S
    <2>2. Max(S) \in S /\ \A k \in S : k <= Max(S)
      BY <1>2, <2>1, MaxOfSet
    <2> QED BY <1>3, <2>1, <2>2 DEF S
  <1>12. \A k : Contains(seqs, k) <=> k \in ToSet(seqs)
    BY <1>2, ContainsIsMember
  <1>13. /\ Typed' /\ Phases' /\ conn = "Asked" /\ IsAnswered
         /\ requests' = {} /\ answers' = {}
         /\ toServer' = Drain(entry'.pending) /\ conn' = "Connected"
         /\ outbox' = <<>> /\ UNCHANGED <<clientSeq, late, log, queue>>
         /\ \A i \in DOMAIN toClient' : toClient'[i].type = "action"
    BY <1>1, <1>4, <1>7, <1>9, <1>11, ResumeTypes DEF HistoryTypes
  <1> QED BY <1>2, <1>3, <1>4, <1>6, <1>10, <1>11, <1>12, <1>13 DEF seqs, kept

LEMMA ReadSnapshotsTypes ==
    ASSUME Typed, Phases, ReadSnapshots
    PROVE  LET msg == Head(toClient)
               old == [Settled(entry) EXCEPT !.pending = <<>>] IN
           /\ Typed' /\ Phases' /\ conn = "Asked" /\ IsAnswered
           /\ requests' = {} /\ answers' = {}
           /\ toServer' = Drain(entry'.pending) /\ conn' = "Connected"
           /\ outbox' = <<>> /\ UNCHANGED <<clientSeq, late, log, queue>>
           /\ \A i \in DOMAIN toClient' : toClient'[i].type = "action"
           /\ msg.fromSeq \in 0 .. Len(log)
           /\ serverSeq' = IF serverSeq >= msg.fromSeq THEN serverSeq ELSE msg.fromSeq
           /\ ~(msg.subscribed /\ IsHeld) => entry' = entry /\ dropped' = dropped /\ gap' = gap
           /\ msg.subscribed /\ IsHeld =>
                /\ old \in Entries(Len(log)) /\ entry' = Seat(old, msg.fromSeq)
                /\ old.pending = <<>> /\ old.request = 0 /\ old.buffered = entry.buffered
                /\ entry'.pending \in Seq(ClientSeqs) /\ \A s : ~Contains(entry'.pending, s)
                /\ dropped' = dropped \cup ToSet(entry.pending)
                /\ entry'.request = 0
                /\ ~gap' => \A k \in msg.fromSeq + 1 .. serverSeq : ~IsApplied(k)
  <1>1. ClientTypes /\ WireTypes /\ HostTypes /\ HistoryTypes /\ LogType
    BY TypedParts DEF HostTypes
  <1> DEFINE msg == Head(toClient)
             old == [Settled(entry) EXCEPT !.pending = <<>>]
             seated == msg.subscribed /\ IsHeld
  <1>2. msg.fromSeq \in 0 .. Len(log) /\ Len(log) \in Nat /\ msg.subscribed \in BOOLEAN
    BY ReadIs, MessageIs DEF ReadSnapshots
  <1>3. /\ ReadFromServer /\ Head(toClient).type \in Results /\ Resume(entry')
        /\ serverSeq' = Max({serverSeq, msg.fromSeq})
        /\ entry' = IF seated THEN Seat(old, msg.fromSeq) ELSE entry
        /\ dropped' = IF seated THEN dropped \cup ToSet(entry.pending) ELSE dropped
        /\ gap' = IF seated THEN \E k \in msg.fromSeq + 1 .. serverSeq : IsApplied(k) ELSE gap
    BY DEF ReadSnapshots, Results
  <1>4. entry \in Entries(Len(log)) /\ (~IsHeld => entry = NoEntry)
        /\ (entry.request # NoRequest => entry.status = "pending")
    BY <1>1 DEF ClientTypes
  <1>5. /\ old \in Entries(Len(log)) /\ old.pending = <<>> /\ old.request = 0
        /\ old.buffered = entry.buffered
    <2> DEFINE settled == Settled(entry)
    <2>1. <<>> \in Seq(ClientSeqs)
      OBVIOUS
    <2>2. settled \in Entries(Len(log)) /\ settled.request = 0 /\ settled.buffered = entry.buffered
      BY <1>2, <1>4, SettledFacts
    <2>3. old = [settled EXCEPT !.pending = <<>>]
      OBVIOUS
    <2> HIDE DEF settled, old
    <2> QED BY <2>1, <2>2, <2>3 DEF Entries
  <1> HIDE DEF msg, old
  <1>6. seated => /\ entry' \in Entries(Len(log)) /\ entry'.status = "snapshot"
                  /\ entry'.request = 0 /\ \A s : ~Contains(entry'.pending, s)
    <2> SUFFICES ASSUME seated
                 PROVE  /\ entry' \in Entries(Len(log)) /\ entry'.status = "snapshot"
                        /\ entry'.request = 0 /\ \A s : ~Contains(entry'.pending, s)
      OBVIOUS
    <2>1. entry' = Seat(old, msg.fromSeq)
      BY <1>3
    <2>2. entry' \in Entries(Len(log)) /\ entry'.status = "snapshot" /\ KeepsPending(old, entry')
          /\ entry'.request = old.request
      BY <1>1, <1>2, <1>5, <2>1, SeatFacts
    <2> QED BY <1>5, <2>2, EmptyFacts DEF KeepsPending
  <1>7. entry' \in Entries(Len(log)) /\ (IsHeld' \/ entry' = NoEntry)
        /\ (entry'.request # NoRequest => entry'.status = "pending")
    BY <1>3, <1>4, <1>6 DEF IsHeld, NoRequest
  <1>8. serverSeq' = IF serverSeq >= msg.fromSeq THEN serverSeq ELSE msg.fromSeq
    <2>1. serverSeq \in Int /\ msg.fromSeq \in Int
      BY <1>1, <1>2 DEF ClientTypes
    <2> QED BY <1>3, <2>1, MaxOfTwo
  <1>9. serverSeq' \in 0 .. Len(log)
    BY <1>1, <1>2, <1>8 DEF ClientTypes
  <1>10. dropped' \subseteq ClientSeqs /\ gap' \in BOOLEAN
    <2>1. ToSet(entry.pending) \subseteq ClientSeqs
      BY <1>4, ToSetType DEF Entries
    <2> QED BY <1>1, <1>3, <2>1 DEF HistoryTypes
  <1>11. /\ Typed' /\ Phases' /\ conn = "Asked" /\ IsAnswered
         /\ requests' = {} /\ answers' = {}
         /\ toServer' = Drain(entry'.pending) /\ conn' = "Connected"
         /\ outbox' = <<>> /\ UNCHANGED <<clientSeq, late, log, queue>>
         /\ \A i \in DOMAIN toClient' : toClient'[i].type = "action"
    BY <1>3, <1>7, <1>9, <1>10, ResumeTypes
  <1>12. ~seated => gap' = gap
    BY <1>1, <1>3 DEF HistoryTypes
  <1>13. entry'.pending \in Seq(ClientSeqs)
    BY <1>7 DEF Entries
  <1> QED BY <1>2, <1>3, <1>5, <1>6, <1>8, <1>11, <1>12, <1>13 DEF msg, old

LEMMA ConnectTypes ==
    ASSUME Typed, Phases, Connect
    PROVE  /\ Typed' /\ Phases'
           /\ Dispatched(toServer') = <<>> /\ ~attached /\ requests = {} /\ answers = {}
  <1>1. ClientTypes /\ WireTypes /\ HostTypes /\ HistoryTypes /\ LogType /\ Connections
    BY TypedParts DEF HostTypes
  <1>2. ~attached /\ requests = {} /\ answers = {} /\ ~restoring.on /\ toClient = <<>>
    BY <1>1 DEF Connect, Phases, HostTypes
  <1>3. Reconnect \in ClientMessages /\ Reconnect.type = "reconnect"
        /\ Reconnect.lastSeen = serverSeq /\ (HasState => Reconnect.subscribed)
    <2>1. serverSeq \in Nat /\ IsHeld \in BOOLEAN
      BY <1>1, DomainOfLog DEF ClientTypes, IsHeld
    <2>2. HasState => IsHeld
      BY DEF HasState, IsHeld
    <2> QED BY <2>1, <2>2 DEF Reconnect, ClientMessages
  <1> DEFINE msgs == <<Reconnect>>
  <1>4. msgs \in Seq(ClientMessages) /\ Len(msgs) = 1 /\ msgs[1] = Reconnect
    BY <1>3
  <1>5. Dispatched(msgs) = <<>>
    <2>1. \A i \in DOMAIN msgs : ~IsDispatch(msgs[i])
      BY <1>3 DEF IsDispatch
    <2> HIDE DEF msgs
    <2> QED BY <1>4, <2>1, DispatchedNone
  <1>6. toServer' = msgs /\ conn' = "Asked"
        /\ UNCHANGED <<serverSeq, clientSeq, entry, outbox, gated, asked, toClient, late, breaks,
                       host, dropped, gap>>
    BY DEF Connect
  <1> HIDE DEF msgs
  <1>7. ClientTypes' /\ WireTypes' /\ HostTypes' /\ HistoryTypes' /\ Connections'
    BY <1>1, <1>2, <1>4, <1>6 DEF ClientTypes, WireTypes, HostTypes, HistoryTypes, LogType,
       IsSubscribed, host, IsHeld, ClientMessages, Connections, RequestsTo, Subscriptions
  <1>8. IsAsking'
    BY <1>2, <1>3, <1>4, <1>6 DEF IsAsking, host, HasState
  <1>9. Phases'
    BY <1>2, <1>6, <1>8 DEF Phases, host
  <1> QED BY <1>2, <1>5, <1>6, <1>7, <1>9, TypedPartsNext

-----------------------------------------------------------------------------
(* An action more among actions. *)
LEMMA ActionIsSent ==
    ASSUME NEW T, NEW msgs \in Seq(T), NEW m \in T, m.type = "action"
    PROVE  /\ OnlyActions(msgs) => OnlyActions(Append(msgs, m))
           /\ (\E p \in DOMAIN msgs : IsAmongActions(msgs, p)) =>
                 \E p \in DOMAIN Append(msgs, m) : IsAmongActions(Append(msgs, m), p)
  <1>1. /\ DOMAIN msgs = 1 .. Len(msgs) /\ Len(msgs) \in Nat
        /\ DOMAIN Append(msgs, m) = 1 .. Len(msgs) + 1
        /\ \A i \in 1 .. Len(msgs) : Append(msgs, m)[i] = msgs[i]
        /\ Append(msgs, m)[Len(msgs) + 1] = m
    OBVIOUS
  <1>2. \A i \in 1 .. Len(msgs) + 1 : i \in 1 .. Len(msgs) \/ i = Len(msgs) + 1
    BY <1>1
  <1> DEFINE more == Append(msgs, m)
  <1> HIDE DEF more
  <1>3. OnlyActions(msgs) => OnlyActions(more)
    BY <1>1, <1>2 DEF OnlyActions, more
  <1>4. ASSUME NEW p \in DOMAIN msgs, IsAmongActions(msgs, p)
        PROVE  p \in DOMAIN more /\ IsAmongActions(more, p)
    BY <1>1, <1>2, <1>4 DEF IsAmongActions, more
  <1> QED BY <1>3, <1>4 DEF more

(* The answer of a reconnection behind actions. *)
LEMMA ResultIsSent ==
    ASSUME NEW T, NEW msgs \in Seq(T), NEW m \in T, m.type \in Results, OnlyActions(msgs)
    PROVE  \E p \in DOMAIN Append(msgs, m) : IsAmongActions(Append(msgs, m), p)
  <1>1. /\ DOMAIN msgs = 1 .. Len(msgs) /\ Len(msgs) \in Nat
        /\ DOMAIN Append(msgs, m) = 1 .. Len(msgs) + 1
        /\ \A i \in 1 .. Len(msgs) : Append(msgs, m)[i] = msgs[i]
        /\ Append(msgs, m)[Len(msgs) + 1] = m
    OBVIOUS
  <1>2. \A i \in 1 .. Len(msgs) + 1 : i \in 1 .. Len(msgs) \/ i = Len(msgs) + 1
    BY <1>1
  <1>3. Len(msgs) + 1 \in DOMAIN Append(msgs, m)
    BY <1>1
  <1> DEFINE more == Append(msgs, m)
             last == Len(msgs) + 1
  <1> HIDE DEF more, last
  <1>4. IsAmongActions(more, last) /\ last \in DOMAIN more
    BY <1>1, <1>2, <1>3 DEF IsAmongActions, OnlyActions, more, last
  <1> QED BY <1>4 DEF more

(* An action that is published does not come among the steps of a           *)
(* reconnection but before or after its answer.                             *)
LEMMA PublishPhases ==
    ASSUME Typed, Phases, NEW envelope, Publish(envelope),
           UNCHANGED <<conn, serverSeq, entry, attached, restoring, requests, answers, subscription>>,
           toServer' = toServer \/ (conn = "Connected" /\ ~Has(toServer', {"reconnect"}))
    PROVE  Phases'
  <1> DEFINE m == [type |-> "action", serverSeq |-> Len(log')]
             T == HostMessages \cup {m}
  <1>1. toClient \in Seq(T) /\ m \in T
    <2>1. toClient \in Seq(HostMessages)
      BY DEF Typed, TypeOK
    <2> QED BY <2>1
  <1>2. m.type = "action"
    OBVIOUS
  <1>3. toClient' = toClient \/ (toClient' = Append(toClient, m) /\ attached /\ ~restoring.on)
    BY DEF Publish, IsActive
  <1> HIDE DEF m, T
  <1>4. CASE toClient' = toClient
    BY <1>4 DEF Phases, Has, IsAsking, IsRestoring, IsReady, IsAnswered, IsSubscribed, HasState,
                OnlyActions, IsAmongActions
  <1>5. CASE toClient' = Append(toClient, m) /\ attached /\ ~restoring.on
    <2>1. conn = "Connected" => ~Has(toClient', Results)
      <3>1. Has(toClient', Results) => Has(toClient, Results) \/ m.type \in Results
        BY <1>1, <1>5, HasAppend
      <3> QED BY <1>2, <3>1 DEF Phases, Results
    <2>2. conn = "Asked" => (IsReady \/ IsAnswered) /\ requests = {}
      BY <1>5 DEF Phases, IsAsking, IsRestoring
    <2>3. /\ OnlyActions(toClient) => OnlyActions(toClient')
          /\ (\E p \in DOMAIN toClient : IsAmongActions(toClient, p)) =>
                 \E p \in DOMAIN toClient' : IsAmongActions(toClient', p)
      BY <1>1, <1>2, <1>5, ActionIsSent
    <2>4. conn = "Asked" => toServer' = toServer
      OBVIOUS
    <2>5. conn = "Asked" => IsReady' \/ IsAnswered'
      BY <1>5, <2>2, <2>3, <2>4 DEF IsReady, IsAnswered
    <2>6. conn = "Connected" => ~Has(toServer', {"reconnect"})
      BY DEF Phases
    <2>7. conn # "Reconnecting" /\ attached'
      BY <1>5 DEF Phases
    <2> QED BY <1>5, <2>1, <2>2, <2>5, <2>6, <2>7 DEF Phases
  <1> QED BY <1>3, <1>4, <1>5

LEMMA OwnEnvelopeType ==
    ASSUME NEW seq \in ClientSeqs, NEW rejected \in BOOLEAN
    PROVE  OwnEnvelope(seq, rejected) \in Envelopes /\ OwnEnvelope(seq, rejected).clientSeq = seq
           /\ OwnEnvelope(seq, rejected).rejected = rejected
  BY DEF OwnEnvelope, Envelopes, ClientSeqs

(* A step of the host that changes neither its subscriptions nor the client. *)
LEMMA HostWorkTypes ==
    ASSUME Typed, Phases,
           \/ UNCHANGED <<log, toClient, gap>>
           \/ \E envelope \in Envelopes : Publish(envelope),
           UNCHANGED <<client, breaks, attached, subscription, requests, restoring, answers,
                       dropped>>,
           toServer' = toServer \/ (conn = "Connected" /\ ~Has(toServer', {"reconnect"})),
           toServer' \in Seq(ClientMessages),
           late' \in Seq(Seq(ClientSeqs)), \A i \in DOMAIN late' : late'[i] # <<>>,
           queue' \in Seq(ClientSeqs)
    PROVE  Typed' /\ Phases'
  <1>1. ClientTypes /\ WireTypes /\ HostTypes /\ HistoryTypes /\ LogType /\ Connections
    BY TypedParts DEF HostTypes
  <1>2. UNCHANGED <<conn, serverSeq, clientSeq, entry, outbox, gated, asked>>
    BY DEF client
  <1>3. /\ LogType' /\ ClientTypes' /\ toClient' \in Seq(Messages(Len(log'))) /\ gap' \in BOOLEAN
        /\ requests \subseteq RequestsTo(Len(log')) /\ answers \subseteq Messages(Len(log'))
        /\ Phases'
    <2>1. CASE UNCHANGED <<log, toClient, gap>>
      <3>1. Phases'
        <4>1. HasState' => HasState
          BY <1>2 DEF HasState
        <4> QED BY <1>2, <2>1, <4>1, PhasesStay
      <3>2. LogType' /\ ClientTypes' /\ toClient' \in Seq(Messages(Len(log'))) /\ gap' \in BOOLEAN
            /\ requests \subseteq RequestsTo(Len(log')) /\ answers \subseteq Messages(Len(log'))
        BY <1>1, <1>2, <2>1 DEF LogType, ClientTypes, WireTypes, HistoryTypes, IsHeld, HostTypes,
                                ClientMessages
      <3> QED BY <3>1, <3>2
    <2>2. CASE \E envelope \in Envelopes : Publish(envelope)
      <3>1. PICK envelope \in Envelopes : Publish(envelope)
        BY <2>2
      <3>2. LogType' /\ ClientTypes' /\ toClient' \in Seq(Messages(Len(log'))) /\ gap' \in BOOLEAN
            /\ requests \subseteq RequestsTo(Len(log')) /\ answers \subseteq Messages(Len(log'))
        BY <1>2, <3>1, PublishTypes
      <3>3. Phases'
        BY <1>2, <3>1, PublishPhases
      <3> QED BY <3>2, <3>3
    <2> QED BY <2>1, <2>2
  <1>4. WireTypes'
    BY <1>1, <1>3 DEF WireTypes, ClientMessages
  <1>5. HostTypes' /\ HistoryTypes'
    BY <1>1, <1>3 DEF HostTypes, HistoryTypes, IsSubscribed, RequestsTo, Subscriptions
  <1>6. Connections'
    <2>1. conn = "Reconnecting" => toServer' = <<>> /\ toClient' = <<>>
      <3>1. conn = "Reconnecting" => ~attached' /\ conn' = "Reconnecting"
        BY <1>2 DEF Phases
      <3> QED BY <1>1, <1>3, <3>1 DEF Connections, Phases
    <2> QED BY <1>1, <1>2, <2>1 DEF Connections
  <1> QED BY <1>3, <1>4, <1>5, <1>6, TypedPartsNext

(* The head of what waits for the host. *)
LEMMA ReadClientIs ==
    ASSUME Typed, Phases, ReadFromClient
    PROVE  /\ toServer \in Seq(ClientMessages) /\ toServer # <<>> /\ toServer' = Tail(toServer)
           /\ Head(toServer) \in ClientMessages /\ toServer' \in Seq(ClientMessages)
           /\ Head(toServer).type # "reconnect" => 
                conn = "Connected" /\ ~Has(toServer', {"reconnect"}) /\ attached
  <1>1. toServer \in Seq(ClientMessages) /\ toServer # <<>> /\ toServer' = Tail(toServer)
    BY DEF Typed, TypeOK, ReadFromClient
  <1>2. Head(toServer) \in ClientMessages /\ toServer' \in Seq(ClientMessages)
        /\ (Has(toServer', {"reconnect"}) => Has(toServer, {"reconnect"}))
    BY <1>1, HasTail
  <1>3. conn = "Connected" => attached
    BY DEF Typed, TypeOK
  <1> QED BY <1>1, <1>2, <1>3, WhileConnected DEF Phases

LEMMA TakeIs ==
    ASSUME Typed, NEW seq \in ClientSeqs, Take(seq)
    PROVE  /\ \/ UNCHANGED <<log, toClient, gap>>
              \/ \E envelope \in Envelopes : Publish(envelope)
           /\ \/ queue' = Append(queue, seq) /\ log' = log
              \/ queue' = queue /\ LogGrows(OwnEnvelope(seq, TRUE))
           /\ queue' \in Seq(ClientSeqs)
  <1>1. queue \in Seq(ClientSeqs)
    BY DEF Typed, TypeOK
  <1>2. CASE queue' = Append(queue, seq) /\ UNCHANGED <<log, toClient, gap>>
    <2>1. Append(queue, seq) \in Seq(ClientSeqs)
      BY <1>1
    <2> QED BY <1>2, <2>1
  <1>3. CASE Publish(OwnEnvelope(seq, TRUE)) /\ UNCHANGED queue
    <2>1. OwnEnvelope(seq, TRUE) \in Envelopes
      BY OwnEnvelopeType
    <2>2. LogGrows(OwnEnvelope(seq, TRUE))
      BY <1>3 DEF Publish, LogGrows
    <2> QED BY <1>1, <1>3, <2>1, <2>2, Zenon
  <1> QED BY <1>2, <1>3 DEF Take

LEMMA ReadDispatchTypes ==
    ASSUME Typed, Phases, ReadDispatch
    PROVE  Typed' /\ Phases'
  <1>1. /\ toServer' \in Seq(ClientMessages) /\ Head(toServer) \in ClientMessages
        /\ conn = "Connected" /\ ~Has(toServer', {"reconnect"})
    BY ReadClientIs DEF ReadDispatch, IsDispatch
  <1>2. Head(toServer).clientSeq \in ClientSeqs
    BY <1>1, DispatchIs DEF ReadDispatch
  <1> DEFINE seq == Head(toServer).clientSeq
  <1>3. seq \in ClientSeqs /\ Take(seq)
    BY <1>2 DEF ReadDispatch
  <1> HIDE DEF seq
  <1>4. UNCHANGED <<client, late, breaks, attached, subscription, requests, restoring, answers,
                    dropped>>
    BY DEF ReadDispatch
  <1>5. late' \in Seq(Seq(ClientSeqs)) /\ \A i \in DOMAIN late' : late'[i] # <<>>
    BY <1>4 DEF Typed, TypeOK
  <1> QED BY <1>1, <1>3, <1>4, <1>5, TakeIs, HostWorkTypes

(* What is left in the broken transports after one action is read. *)
ReadOfLate(i) ==
    late' = IF Len(late[i]) = 1 THEN RemoveAt(late, i) ELSE [late EXCEPT ![i] = Tail(@)]

LEMMA RemoveAtFacts ==
    ASSUME NEW T, NEW s \in Seq(T), NEW i \in DOMAIN s
    PROVE  /\ RemoveAt(s, i) \in Seq(T)
           /\ \A j \in DOMAIN RemoveAt(s, i) : \E k \in DOMAIN s : RemoveAt(s, i)[j] = s[k]
  <1> DEFINE a == SubSeq(s, 1, i - 1)
             b == SubSeq(s, i + 1, Len(s))
             ab == a \o b
  <1>1. /\ a \in Seq(T) /\ Len(a) = i - 1 /\ \A j \in 1 .. i - 1 : a[j] = s[j]
        /\ DOMAIN s = 1 .. Len(s) /\ Len(s) \in Nat /\ i \in 1 .. Len(s)
    OBVIOUS
  <1>2. b \in Seq(T) /\ Len(b) = Len(s) - i /\ \A j \in 1 .. Len(s) - i : b[j] = s[i + j]
    OBVIOUS
  <1>3. RemoveAt(s, i) = ab
    BY DEF RemoveAt
  <1> HIDE DEF a, b
  <1>4. /\ ab \in Seq(T) /\ DOMAIN ab = 1 .. Len(a) + Len(b)
        /\ \A j \in 1 .. Len(a) : ab[j] = a[j]
        /\ \A j \in 1 .. Len(b) : ab[Len(a) + j] = b[j]
    <2>1. a \in Seq(T) /\ b \in Seq(T)
      BY <1>1, <1>2
    <2> QED BY <2>1, ConcatFacts
  <1> HIDE DEF ab
  <1>5. ASSUME NEW j \in DOMAIN ab PROVE \E k \in DOMAIN s : ab[j] = s[k]
    <2>1. CASE j <= i - 1
      <3>1. j \in 1 .. Len(a) /\ j \in DOMAIN s
        BY <1>1, <1>4, <2>1
      <3> QED BY <1>1, <1>4, <3>1
    <2>2. CASE j > i - 1
      <3>1. j - Len(a) \in 1 .. Len(b) /\ Len(a) + (j - Len(a)) = j
            /\ i + (j - Len(a)) \in DOMAIN s /\ j - Len(a) \in 1 .. Len(s) - i
        BY <1>1, <1>2, <1>4, <2>2
      <3> DEFINE k == j - Len(a)
      <3> HIDE DEF k
      <3>2. k \in 1 .. Len(b) /\ Len(a) + k = j /\ i + k \in DOMAIN s /\ k \in 1 .. Len(s) - i
        BY <3>1 DEF k
      <3>3. ab[j] = b[k] /\ b[k] = s[i + k]
        BY <1>2, <1>4, <3>2
      <3> QED BY <3>2, <3>3
    <2>3. j <= i - 1 \/ j > i - 1
      BY <1>1, <1>4
    <2> QED BY <2>1, <2>2, <2>3, Zenon
  <1> QED BY <1>3, <1>4, <1>5

LEMMA ReadOfLateFacts ==
    ASSUME Typed, NEW i \in DOMAIN late, ReadOfLate(i)
    PROVE  /\ late' \in Seq(Seq(ClientSeqs)) /\ \A j \in DOMAIN late' : late'[j] # <<>>
           /\ \A j \in DOMAIN late' :
                 (\E k \in DOMAIN late : late'[j] = late[k]) \/ late'[j] = Tail(late[i])
           /\ late[i] \in Seq(ClientSeqs) /\ late[i] # <<>> /\ Head(late[i]) \in ClientSeqs
  <1>1. late \in Seq(Seq(ClientSeqs)) /\ \A j \in DOMAIN late : late[j] # <<>>
    BY DEF Typed, TypeOK
  <1>2. late[i] \in Seq(ClientSeqs) /\ late[i] # <<>>
    BY <1>1
  <1>3. Head(late[i]) \in ClientSeqs /\ Tail(late[i]) \in Seq(ClientSeqs)
    BY <1>2
  <1>4. CASE Len(late[i]) = 1
    <2>1. late' = RemoveAt(late, i)
      BY <1>4 DEF ReadOfLate
    <2>2. /\ late' \in Seq(Seq(ClientSeqs))
          /\ \A j \in DOMAIN late' : \E k \in DOMAIN late : late'[j] = late[k]
      BY <1>1, <2>1, RemoveAtFacts
    <2> QED BY <1>1, <1>2, <1>3, <2>2
  <1>5. CASE Len(late[i]) # 1
    <2> DEFINE rest == Tail(late[i])
    <2>1. late' = [late EXCEPT ![i] = rest]
      BY <1>5 DEF ReadOfLate
    <2>2. rest \in Seq(ClientSeqs) /\ rest # <<>>
      <3>1. Len(rest) = Len(late[i]) - 1 /\ Len(late[i]) \in Nat \ {0}
        BY <1>2
      <3>2. Len(rest) # 0
        BY <1>5, <3>1
      <3>3. Len(<<>>) = 0
        OBVIOUS
      <3>4. rest \in Seq(ClientSeqs)
        BY <1>3
      <3> HIDE DEF rest
      <3> QED BY <3>2, <3>3, <3>4, Zenon
    <2> HIDE DEF rest
    <2>3. /\ late' \in Seq(Seq(ClientSeqs)) /\ DOMAIN late' = DOMAIN late
          /\ \A j \in DOMAIN late' : late'[j] = IF j = i THEN rest ELSE late[j]
      BY <1>1, <2>1, <2>2
    <2>4. \A j \in DOMAIN late' : late'[j] # <<>>
      BY <1>1, <2>2, <2>3
    <2>5. \A j \in DOMAIN late' : (\E k \in DOMAIN late : late'[j] = late[k]) \/ late'[j] = rest
      BY <2>3
    <2> QED BY <1>2, <1>3, <2>3, <2>4, <2>5 DEF rest
  <1> QED BY <1>4, <1>5

LEMMA ReadLateTypes ==
    ASSUME Typed, Phases, ReadLate
    PROVE  Typed' /\ Phases'
  <1>1. PICK i \in DOMAIN late : Take(Head(late[i])) /\ ReadOfLate(i)
    BY DEF ReadLate, ReadOfLate
  <1>2. /\ late' \in Seq(Seq(ClientSeqs)) /\ \A j \in DOMAIN late' : late'[j] # <<>>
        /\ Head(late[i]) \in ClientSeqs
    BY <1>1, ReadOfLateFacts
  <1>3. UNCHANGED <<client, toServer, breaks, attached, subscription, requests, restoring,
                    answers, dropped>>
    BY DEF ReadLate
  <1>4. toServer' \in Seq(ClientMessages)
    BY <1>3 DEF Typed, TypeOK
  <1> DEFINE seq == Head(late[i])
  <1>5. seq \in ClientSeqs /\ Take(seq)
    BY <1>1, <1>2
  <1> HIDE DEF seq
  <1> QED BY <1>2, <1>3, <1>4, <1>5, TakeIs, HostWorkTypes

LEMMA ExecuteTypes ==
    ASSUME Typed, Phases, Execute
    PROVE  /\ Typed' /\ Phases' /\ queue # <<>> /\ queue' = Tail(queue)
           /\ queue \in Seq(ClientSeqs) /\ Head(queue) \in ClientSeqs
           /\ \E rejected \in BOOLEAN : LogGrows(OwnEnvelope(Head(queue), rejected))
  <1>1. queue # <<>> /\ queue' = Tail(queue) /\ queue \in Seq(ClientSeqs)
    BY DEF Execute, Typed, TypeOK
  <1>2. Head(queue) \in ClientSeqs /\ queue' \in Seq(ClientSeqs)
    BY <1>1
  <1>3. PICK rejected \in BOOLEAN : Publish(OwnEnvelope(Head(queue), rejected))
    BY DEF Execute
  <1>4. OwnEnvelope(Head(queue), rejected) \in Envelopes
    BY <1>2, OwnEnvelopeType
  <1>5. LogGrows(OwnEnvelope(Head(queue), rejected))
    BY <1>3 DEF Publish, LogGrows
  <1>6. UNCHANGED <<client, toServer, late, breaks, attached, subscription, requests, restoring,
                    answers, dropped>>
    BY DEF Execute
  <1>7. /\ toServer' \in Seq(ClientMessages) /\ late' \in Seq(Seq(ClientSeqs))
        /\ \A j \in DOMAIN late' : late'[j] # <<>>
    BY <1>6 DEF Typed, TypeOK
  <1>8. Typed' /\ Phases'
    <2>1. \E envelope \in Envelopes : Publish(envelope)
      BY <1>3, <1>4
    <2> QED BY <1>2, <1>6, <1>7, <2>1, HostWorkTypes
  <1> QED BY <1>1, <1>2, <1>5, <1>8

LEMMA ActOfOthersTypes ==
    ASSUME Typed, Phases, ActOfOthers
    PROVE  /\ Typed' /\ Phases' /\ UNCHANGED <<client, toServer, late, queue, dropped>>
           /\ \E envelope \in Envelopes : LogGrows(envelope) /\ envelope.clientSeq = Others
  <1>1. PICK channel \in {"root", "session"}, rejected \in BOOLEAN :
            Publish([channel |-> channel, clientSeq |-> Others, rejected |-> rejected])
    BY DEF ActOfOthers
  <1> DEFINE envelope == [channel |-> channel, clientSeq |-> Others, rejected |-> rejected]
  <1>2. envelope \in Envelopes /\ envelope.clientSeq = Others
    BY BoundsAssumption DEF Envelopes, Others
  <1>3. Publish(envelope)
    BY <1>1
  <1> HIDE DEF envelope
  <1>4. LogGrows(envelope)
    BY <1>3 DEF Publish, LogGrows
  <1>5. UNCHANGED <<client, toServer, late, breaks, queue, attached, subscription, requests,
                    restoring, answers, dropped>>
    BY DEF ActOfOthers
  <1>6. /\ toServer' \in Seq(ClientMessages) /\ late' \in Seq(Seq(ClientSeqs))
        /\ \A j \in DOMAIN late' : late'[j] # <<>>
        /\ queue' \in Seq(ClientSeqs)
    BY <1>5 DEF Typed, TypeOK
  <1>7. Typed' /\ Phases'
    BY <1>2, <1>3, <1>5, <1>6, HostWorkTypes
  <1> QED BY <1>2, <1>4, <1>5, <1>7

(* A step of the host that concerns its subscriptions. *)
LEMMA HostTalkTypes ==
    ASSUME Typed, UNCHANGED <<client, late, breaks, log, queue, dropped>>,
           toServer' \in Seq(ClientMessages), toClient' \in Seq(Messages(Len(log))),
           attached' \in BOOLEAN, subscription' \in Subscriptions,
           requests' \subseteq RequestsTo(Len(log)), answers' \subseteq Messages(Len(log)),
           restoring' \in [on : BOOLEAN, lastSeen : Nat, canReplay : BOOLEAN],
           gap' \in BOOLEAN,
           attached', conn # "Reconnecting", restoring'.on => conn = "Asked"
    PROVE  Typed'
  <1>1. ClientTypes /\ WireTypes /\ HostTypes /\ HistoryTypes /\ Connections
    BY TypedParts
  <1>2. UNCHANGED <<conn, serverSeq, clientSeq, entry, outbox, gated, asked>>
    BY DEF client
  <1>3. ClientTypes'
    BY <1>1, <1>2 DEF ClientTypes, IsHeld, ClientMessages
  <1>4. WireTypes'
    BY <1>1 DEF WireTypes, ClientMessages
  <1>5. HostTypes' /\ HistoryTypes'
    BY <1>1 DEF HostTypes, LogType, HistoryTypes, IsSubscribed, RequestsTo, Subscriptions, Messages
  <1>6. Connections'
    BY <1>1, <1>2 DEF Connections
  <1> QED BY <1>3, <1>4, <1>5, <1>6, TypedPartsNext

LEMMA SubscriptionIs ==
    /\ NoSubscription \in Subscriptions /\ NoSubscription.state = "none"
    /\ \A id \in 0 .. MaxRequests, state \in {"none", "pending", "active"} :
          [state |-> state, id |-> id] \in Subscriptions
    /\ \A s \in Subscriptions : [s EXCEPT !.state = "active"] \in Subscriptions
    /\ NotRestoring \in [on : BOOLEAN, lastSeen : Nat, canReplay : BOOLEAN] /\ ~NotRestoring.on
  BY BoundsAssumption DEF NoSubscription, Subscriptions, NotRestoring

LEMMA ReadReconnectTypes ==
    ASSUME Typed, Phases, ReadReconnect
    PROVE  /\ Typed' /\ Phases' /\ conn = "Asked" /\ IsAsking /\ IsRestoring'
           /\ toServer' = <<>>
  <1>1. ClientTypes /\ WireTypes /\ HostTypes /\ HistoryTypes /\ LogType
    BY TypedParts DEF HostTypes
  <1> DEFINE msg == Head(toServer)
  <1>2. conn = "Asked" /\ IsAsking /\ Tail(toServer) = <<>> /\ requests = {} /\ toClient = <<>>
        /\ answers = {}
    <2>1. conn = "Asked" /\ IsAsking /\ Tail(toServer) = <<>>
      BY WhileAsked DEF ReadReconnect, ReadFromClient
    <2> QED BY <1>1, <2>1 DEF IsAsking, Phases, HostTypes
  <1>3. toServer' = <<>>
    BY <1>2 DEF ReadReconnect, ReadFromClient
  <1>4. /\ msg.lastSeen = serverSeq /\ (HasState => msg.subscribed)
        /\ msg \in ClientMessages /\ msg.type = "reconnect"
    <2>1. msg = toServer[1]
      BY <1>1, <1>2 DEF IsAsking, WireTypes
    <2> QED BY <1>2, <2>1, ReadClientIs DEF IsAsking, ReadReconnect
  <1>5. /\ attached' = TRUE
        /\ subscription' = IF msg.subscribed THEN [state |-> "pending", id |-> 0]
                           ELSE NoSubscription
        /\ restoring' = [on |-> TRUE, lastSeen |-> msg.lastSeen,
                         canReplay |-> msg.lastSeen >= OldestBuffered]
        /\ UNCHANGED <<client, toClient, late, breaks, log, queue, requests, answers, dropped, gap>>
    BY DEF ReadReconnect
  <1>6. subscription' \in Subscriptions
    <2>1. 0 \in 0 .. MaxRequests
      BY BoundsAssumption
    <2>2. [state |-> "pending", id |-> 0] \in Subscriptions
      BY <2>1 DEF Subscriptions
    <2>3. NoSubscription \in Subscriptions
      BY SubscriptionIs
    <2> QED BY <1>5, <2>2, <2>3
  <1>7. restoring' \in [on : BOOLEAN, lastSeen : Nat, canReplay : BOOLEAN] /\ restoring'.on
        /\ restoring'.lastSeen = serverSeq
    <2>1. msg.lastSeen \in Nat /\ (msg.lastSeen >= OldestBuffered) \in BOOLEAN
      BY <1>4, SubscribeIs
    <2> QED BY <1>4, <1>5, <2>1
  <1>8. HasState => subscription'.state # "none"
    BY <1>4, <1>5
  <1> HIDE DEF msg
  <1>9. UNCHANGED <<conn, serverSeq, entry>>
    BY <1>5 DEF client
  <1>10. Typed'
    <2>1. toServer' \in Seq(ClientMessages)
      BY <1>3
    <2> QED BY <1>1, <1>2, <1>5, <1>6, <1>7, <2>1, HostTalkTypes
            DEF WireTypes, HostTypes, HistoryTypes
  <1>11. IsRestoring'
    BY <1>2, <1>3, <1>5, <1>7, <1>8, <1>9 DEF IsRestoring, IsSubscribed, HasState
  <1>12. Phases'
    BY <1>2, <1>5, <1>9, <1>11 DEF Phases
  <1> QED BY <1>2, <1>3, <1>10, <1>11, <1>12

LEMMA RestoreEndsTypes ==
    ASSUME Typed, Phases, RestoreEnds
    PROVE  /\ Typed' /\ Phases' /\ conn = "Asked" /\ IsRestoring /\ IsReady'
           /\ toClient' = <<>>
  <1>1. ClientTypes /\ WireTypes /\ HostTypes /\ HistoryTypes /\ LogType /\ Len(log) \in Nat
    BY TypedParts, DomainOfLog DEF HostTypes
  <1>2. conn = "Asked" /\ IsRestoring /\ requests = {}
    BY WhileAsked DEF RestoreEnds
  <1> DEFINE seqs == IF IsSubscribed THEN Replayed
                     ELSE Only(Replayed, {k \in DOMAIN log : ~IsOfSession(k)})
             m == IF restoring.canReplay THEN [type |-> "replay", serverSeqs |-> seqs]
                  ELSE [type |-> "snapshots", fromSeq |-> Len(log), subscribed |-> IsSubscribed]
  <1>3. /\ restoring' = NotRestoring
        /\ subscription' = IF IsSubscribed THEN [subscription EXCEPT !.state = "active"]
                           ELSE subscription
        /\ UNCHANGED <<client, wire, log, queue, attached, requests, dropped>>
        /\ answers' = answers \cup {m}
        /\ gap' \in BOOLEAN
    BY <1>1 DEF RestoreEnds, Answer, HistoryTypes
  <1>4. OldestBuffered \in Nat
    <2>1. CASE log = <<>>
      BY <2>1 DEF OldestBuffered
    <2>2. CASE log # <<>>
      <3>1. Max({1, Len(log) - Capacity + 1}) \in Nat
        <4>1. Len(log) - Capacity + 1 \in Int /\ 1 \in Int
          BY <1>1, CapacityAssumption
        <4>2. Max({1, Len(log) - Capacity + 1}) =
                 IF 1 >= Len(log) - Capacity + 1 THEN 1 ELSE Len(log) - Capacity + 1
          BY <4>1, MaxOfTwo
        <4> QED BY <4>1, <4>2
      <3> QED BY <2>2, <3>1 DEF OldestBuffered
    <2> QED BY <2>1, <2>2
  <1>5. Replayed \in Seq(1 .. Len(log))
    <2> DEFINE first == Max({restoring.lastSeen + 1, OldestBuffered})
    <2>1. restoring.lastSeen \in Nat
      BY <1>1 DEF HostTypes
    <2>2. first = IF restoring.lastSeen + 1 >= OldestBuffered THEN restoring.lastSeen + 1
                  ELSE OldestBuffered
      BY <1>4, <2>1, MaxOfTwo
    <2>3. first \in Int /\ first >= 1
      BY <1>4, <2>1, <2>2
    <2> HIDE DEF first
    <2>4. first .. Len(log) \subseteq 1 .. Len(log)
      BY <1>1, <2>3
    <2>5. Interval(first, Len(log)) \in Seq(1 .. Len(log))
      BY <1>1, <2>3, <2>4, IntervalContains
    <2> QED BY <2>5 DEF Replayed, first
  <1>6. seqs \in Seq(1 .. Len(log))
    BY <1>5, OnlyFacts
  <1> HIDE DEF seqs
  <1>7. m \in Messages(Len(log)) /\ m.type \in Results
    <2>1. Len(log) \in 0 .. Len(log) /\ IsSubscribed \in BOOLEAN
      BY <1>1 DEF IsSubscribed
    <2> QED BY <1>6, <2>1 DEF Messages, Results
  <1> HIDE DEF m
  <1>8. toClient' = <<>> /\ answers' = {m}
    BY <1>2, <1>3 DEF IsRestoring, wire
  <1>9. /\ toClient' \in Seq(Messages(Len(log))) /\ answers' \subseteq Messages(Len(log))
        /\ OnlyActions(toClient')
    BY <1>7, <1>8 DEF OnlyActions
  <1>10. subscription' \in Subscriptions /\ ~restoring'.on
         /\ restoring' \in [on : BOOLEAN, lastSeen : Nat, canReplay : BOOLEAN]
    BY <1>1, <1>3, SubscriptionIs DEF HostTypes
  <1>11. attached' /\ toServer' = <<>> /\ requests' = {} /\ UNCHANGED <<late, breaks>>
    BY <1>2, <1>3 DEF IsRestoring, wire
  <1>12. Typed'
    <2>1. toServer' \in Seq(ClientMessages)
      BY <1>11
    <2>2. attached' \in BOOLEAN
      BY <1>1, <1>3 DEF HostTypes
    <2> QED BY <1>2, <1>3, <1>9, <1>10, <1>11, <2>1, <2>2, HostTalkTypes
  <1>13. IsReady'
    BY <1>7, <1>8, <1>9, <1>10, <1>11 DEF IsReady
  <1>14. Phases'
    <2>1. conn' = "Asked"
      BY <1>2, <1>3 DEF client
    <2> QED BY <1>11, <1>13, <2>1 DEF Phases
  <1> QED BY <1>2, <1>8, <1>12, <1>13, <1>14

(* A step of the host that talks to a client that is connected. *)
LEMMA HostTalkPhases ==
    ASSUME Typed, Phases, conn = "Connected", attached',
           UNCHANGED <<conn, restoring>>,
           toServer' = toServer \/ ~Has(toServer', {"reconnect"}),
           toClient' = toClient \/ \E m \in HostMessages :
                                      toClient' = Append(toClient, m) /\ m.type \notin Results,
           \A m \in answers' : m.type \in Answers
    PROVE  Phases'
  <1>1. ~Has(toClient', Results)
    <2>1. toClient \in Seq(HostMessages)
      BY DEF Typed, TypeOK
    <2>2. CASE toClient' = toClient
      BY <2>2 DEF Phases, Has
    <2>3. CASE \E m \in HostMessages : toClient' = Append(toClient, m) /\ m.type \notin Results
      BY <2>1, <2>3, HasAppend DEF Phases
    <2> QED BY <2>2, <2>3
  <1>2. ~Has(toServer', {"reconnect"})
    BY DEF Phases, Has
  <1> QED BY <1>1, <1>2 DEF Phases

LEMMA SendAnswerTypes ==
    ASSUME Typed, Phases, SendAnswer
    PROVE  /\ Typed' /\ Phases' /\ conn # "Reconnecting"
           /\ conn = "Asked" => IsReady
           /\ \E msg \in answers :
                 /\ answers' = answers \ {msg} /\ toClient' = Append(toClient, msg)
                 /\ msg \in Messages(Len(log)) /\ msg.type \in Answers \cup Results
           /\ toClient \in Seq(Messages(Len(log)))
           /\ UNCHANGED <<client, toServer, late, breaks, log, queue, attached, subscription,
                          requests, restoring, dropped, gap>>
  <1>1. ClientTypes /\ WireTypes /\ HostTypes /\ HistoryTypes /\ LogType
    BY TypedParts DEF HostTypes
  <1>2. PICK msg \in answers : answers' = answers \ {msg} /\ toClient' = Append(toClient, msg)
    BY DEF SendAnswer
  <1>3. UNCHANGED <<client, toServer, late, breaks, log, queue, attached, subscription, requests,
                    restoring, dropped, gap>>
    BY DEF SendAnswer
  <1>4. /\ msg \in Messages(Len(log)) /\ toClient \in Seq(Messages(Len(log))) /\ attached
        /\ answers # {}
    BY <1>1, <1>2 DEF HostTypes, WireTypes
  <1>5. toClient' \in Seq(Messages(Len(log))) /\ answers' \subseteq Messages(Len(log))
    BY <1>1, <1>2, <1>4 DEF HostTypes
  <1>6. conn # "Reconnecting" /\ (conn = "Asked" => IsReady) /\ conn \in {"Connected", "Asked"}
    BY <1>4, PhaseTypes, AskedPhases
  <1>7. conn' = conn /\ UNCHANGED <<serverSeq, entry>>
    BY <1>3 DEF client
  <1>8. Typed'
    BY <1>1, <1>3, <1>4, <1>5, <1>6, <1>7, PhaseTypes, HostTalkTypes
       DEF HostTypes, WireTypes, HistoryTypes
  <1>9. conn = "Connected" => Phases' /\ msg.type \in Answers
    <2> SUFFICES ASSUME conn = "Connected" PROVE Phases' /\ msg.type \in Answers
      OBVIOUS
    <2>1. \A m \in answers : m.type \in Answers
      BY DEF Phases
    <2>2. msg \in HostMessages /\ msg.type \in Answers /\ msg.type \notin Results
      <3>1. HostMessages = Messages(Len(log))
        BY <1>1, DomainOfLog DEF HostMessages, Messages
      <3>2. msg.type \in Answers
        BY <1>2, <2>1
      <3> QED BY <1>4, <3>1, <3>2 DEF Answers, Results
    <2>3. \A m \in answers' : m.type \in Answers
      BY <1>2, <2>1
    <2>4. \E m \in HostMessages : toClient' = Append(toClient, m) /\ m.type \notin Results
      BY <1>2, <2>2
    <2> QED BY <1>3, <1>4, <1>7, <2>2, <2>3, <2>4, HostTalkPhases
  <1>10. conn = "Asked" => Phases' /\ msg.type \in Results
    <2> SUFFICES ASSUME conn = "Asked" PROVE Phases' /\ msg.type \in Results
      OBVIOUS
    <2>1. /\ attached /\ ~restoring.on /\ toServer = <<>> /\ OnlyActions(toClient)
          /\ \E m : answers = {m} /\ m.type \in Results
      BY <1>6 DEF IsReady
    <2>2. answers' = {} /\ msg.type \in Results
      BY <1>2, <2>1
    <2>3. \E p \in DOMAIN toClient' : IsAmongActions(toClient', p)
      BY <1>2, <1>4, <2>1, <2>2, ResultIsSent
    <2>4. IsAnswered'
      BY <1>3, <2>1, <2>2, <2>3 DEF IsAnswered
    <2>5. requests' = {} /\ attached' /\ conn' = "Asked"
      BY <1>3, <1>7, <2>1 DEF Phases
    <2> QED BY <2>2, <2>4, <2>5 DEF Phases
  <1> QED BY <1>2, <1>3, <1>4, <1>6, <1>8, <1>9, <1>10

LEMMA ReadSubscribeTypes ==
    ASSUME Typed, Phases, ReadSubscribe
    PROVE  Typed' /\ Phases' /\ conn = "Connected" /\ Head(toServer).id \in 1 .. MaxRequests
  <1>1. ClientTypes /\ WireTypes /\ HostTypes /\ HistoryTypes /\ LogType
    BY TypedParts DEF HostTypes
  <1> DEFINE msg == Head(toServer)
  <1>2. /\ conn = "Connected" /\ toServer' \in Seq(ClientMessages) /\ attached
        /\ ~Has(toServer', {"reconnect"}) /\ msg \in ClientMessages /\ msg.type = "subscribe"
    BY ReadClientIs DEF ReadSubscribe
  <1>3. msg.id \in 1 .. MaxRequests
    BY <1>2, SubscribeIs
  <1>4. /\ subscription' = IF subscription.state = "active" THEN subscription
                           ELSE [state |-> "pending", id |-> msg.id]
        /\ requests' = requests \cup
              {[id |-> msg.id, subscription |-> subscription', fromSeq |-> NotTaken]}
        /\ UNCHANGED <<client, toClient, late, breaks, log, queue, attached, restoring, answers,
                       dropped, gap>>
    BY DEF ReadSubscribe
  <1> HIDE DEF msg
  <1>5. subscription' \in Subscriptions
    <2>1. msg.id \in 0 .. MaxRequests
      BY <1>3
    <2> QED BY <1>1, <1>4, <2>1, SubscriptionIs DEF HostTypes
  <1>6. requests' \subseteq RequestsTo(Len(log))
    <2>1. NotTaken \in NotTaken .. Len(log)
      BY <1>1, DomainOfLog DEF NotTaken
    <2>2. [id |-> msg.id, subscription |-> subscription', fromSeq |-> NotTaken]
            \in RequestsTo(Len(log))
      BY <1>3, <1>5, <2>1 DEF RequestsTo
    <2> QED BY <1>1, <1>4, <2>2 DEF HostTypes
  <1>7. conn' = conn /\ ~restoring'.on
    BY <1>2, <1>4 DEF Phases, client
  <1>8. Typed'
    BY <1>1, <1>2, <1>4, <1>5, <1>6, <1>7, HostTalkTypes DEF HostTypes, WireTypes, HistoryTypes
  <1>9. Phases'
    <2>1. \A m \in answers' : m.type \in Answers
      BY <1>2, <1>4 DEF Phases
    <2> QED BY <1>2, <1>4, <1>7, <2>1, HostTalkPhases
  <1> QED BY <1>2, <1>3, <1>8, <1>9 DEF msg

LEMMA TakeSnapshotTypes ==
    ASSUME Typed, Phases, TakeSnapshot
    PROVE  /\ Typed' /\ Phases' /\ conn = "Connected"
           /\ UNCHANGED <<client, wire, log, queue, attached, subscription, restoring, answers,
                          dropped, gap>>
  <1>1. ClientTypes /\ WireTypes /\ HostTypes /\ HistoryTypes /\ LogType /\ Len(log) \in Nat
    BY TypedParts, DomainOfLog DEF HostTypes
  <1>2. PICK r \in requests : requests' = (requests \ {r}) \cup {[r EXCEPT !.fromSeq = Len(log)]}
    BY DEF TakeSnapshot
  <1>3. UNCHANGED <<client, wire, log, queue, attached, subscription, restoring, answers, dropped,
                    gap>>
    BY DEF TakeSnapshot
  <1>4. conn = "Connected" /\ attached
    BY <1>1, <1>2, WhileConnected DEF HostTypes
  <1> DEFINE taken == [r EXCEPT !.fromSeq = Len(log)]
  <1>5. taken \in RequestsTo(Len(log)) /\ requests' = (requests \ {r}) \cup {taken}
    <2>1. Len(log) \in NotTaken .. Len(log)
      BY <1>1 DEF NotTaken
    <2>2. r \in RequestsTo(Len(log))
      BY <1>1 DEF HostTypes
    <2> QED BY <1>2, <2>1, <2>2 DEF RequestsTo
  <1> HIDE DEF taken
  <1>6. requests' \subseteq RequestsTo(Len(log))
    BY <1>1, <1>5 DEF HostTypes
  <1>7. /\ conn' = conn /\ ~restoring'.on
        /\ UNCHANGED <<toServer, toClient, late, breaks, serverSeq, entry>>
    BY <1>3, <1>4 DEF Phases, client, wire
  <1>8. Typed'
    BY <1>1, <1>3, <1>4, <1>6, <1>7, HostTalkTypes DEF HostTypes, WireTypes, HistoryTypes
  <1>9. Phases'
    <2>1. \A m \in answers' : m.type \in Answers
      BY <1>3, <1>4 DEF Phases
    <2> QED BY <1>3, <1>4, <1>7, <2>1, HostTalkPhases
  <1> QED BY <1>3, <1>4, <1>8, <1>9

LEMMA EndRequestTypes ==
    ASSUME Typed, Phases, NEW r \in requests, NEW m \in Messages(Len(log)), m.type \in Answers,
           NEW after \in Subscriptions, EndRequest(r, m, after), gap' \in BOOLEAN
    PROVE  /\ Typed' /\ Phases' /\ conn = "Connected"
           /\ UNCHANGED <<client, wire, log, queue, dropped>>
  <1>1. ClientTypes /\ WireTypes /\ HostTypes /\ HistoryTypes /\ LogType
    BY TypedParts DEF HostTypes
  <1>2. conn = "Connected" /\ attached
    BY <1>1, WhileConnected DEF HostTypes
  <1>3. /\ requests' = requests \ {r} /\ answers' = answers \cup {m} /\ subscription' = after
        /\ UNCHANGED <<client, wire, log, queue, attached, restoring, dropped>>
    BY DEF EndRequest, Answer
  <1>4. answers' \subseteq Messages(Len(log)) /\ requests' \subseteq RequestsTo(Len(log))
    BY <1>1, <1>3 DEF HostTypes
  <1>5. conn' = conn /\ ~restoring'.on /\ UNCHANGED <<toServer, toClient, late, breaks>>
    BY <1>2, <1>3 DEF Phases, client, wire
  <1>6. Typed'
    BY <1>1, <1>2, <1>3, <1>4, <1>5, HostTalkTypes DEF HostTypes, WireTypes, HistoryTypes
  <1>8. Phases'
    <2>1. \A x \in answers' : x.type \in Answers
      BY <1>2, <1>3 DEF Phases
    <2> QED BY <1>2, <1>3, <1>5, <2>1, HostTalkPhases
  <1> QED BY <1>2, <1>3, <1>6, <1>8

LEMMA AnswerIs ==
    ASSUME NEW id \in 1 .. MaxRequests, NEW n \in Nat
    PROVE  /\ Failure(id) \in Messages(n) /\ Failure(id).type = "failure"
           /\ Failure(id).id = id
           /\ \A from \in 0 .. n :
                 [type |-> "snapshot", id |-> id, fromSeq |-> from] \in Messages(n)
  BY DEF Failure, Messages

LEMMA SubscribeEndsTypes ==
    ASSUME Typed, Phases, SubscribeEnds
    PROVE  Typed' /\ Phases' /\ conn = "Connected" /\ UNCHANGED <<client, wire, log, queue, dropped>>
  <1>1. HostTypes /\ LogType /\ HistoryTypes /\ Len(log) \in Nat
    BY TypedParts, DomainOfLog DEF HostTypes
  <1>2. PICK r \in requests :
            /\ r.fromSeq # NotTaken
            /\ EndRequest(r, [type |-> "snapshot", id |-> r.id, fromSeq |-> r.fromSeq],
                          [state |-> "active", id |-> r.id])
            /\ gap' = (gap \/ (/\ subscription.state # "active" /\ entry.request = r.id
                               /\ \E k \in r.fromSeq + 1 .. Len(log) : IsApplied(k)))
    BY DEF SubscribeEnds
  <1>3. r.id \in 1 .. MaxRequests /\ r.fromSeq \in 0 .. Len(log)
    <2>1. r \in RequestsTo(Len(log))
      BY <1>1 DEF HostTypes
    <2> QED BY <1>1, <1>2, <2>1 DEF RequestsTo, NotTaken
  <1> DEFINE m == [type |-> "snapshot", id |-> r.id, fromSeq |-> r.fromSeq]
             active == [state |-> "active", id |-> r.id]
  <1>4. m \in Messages(Len(log)) /\ m.type \in Answers
    BY <1>1, <1>3, AnswerIs DEF Answers
  <1>5. active \in Subscriptions
    <2>1. r.id \in 0 .. MaxRequests
      BY <1>3
    <2> QED BY <2>1, SubscriptionIs
  <1>6. gap' \in BOOLEAN
    BY <1>1, <1>2 DEF HistoryTypes
  <1>7. EndRequest(r, m, active)
    BY <1>2
  <1> HIDE DEF m, active
  <1> QED BY <1>4, <1>5, <1>6, <1>7, EndRequestTypes

LEMMA SubscribeFailsTypes ==
    ASSUME Typed, Phases, SubscribeFails \/ SubscribeIsCancelled
    PROVE  /\ Typed' /\ Phases' /\ conn = "Connected"
           /\ UNCHANGED <<client, wire, log, queue, dropped, gap>>
           /\ \E r \in requests, after \in {NoSubscription, subscription} :
                 EndRequest(r, Failure(r.id), after) /\ Failure(r.id) \in Messages(Len(log))
  <1>1. HostTypes /\ LogType /\ HistoryTypes /\ Len(log) \in Nat
    BY TypedParts, DomainOfLog DEF HostTypes
  <1>2. PICK r \in requests, after \in {NoSubscription, subscription} :
            EndRequest(r, Failure(r.id), after) /\ gap' = gap
    <2>1. CASE SubscribeFails
      <3>1. PICK r \in requests :
               EndRequest(r, Failure(r.id),
                          IF subscription.state = "pending" THEN NoSubscription ELSE subscription)
               /\ gap' = gap
        BY <2>1 DEF SubscribeFails
      <3>2. CASE subscription.state = "pending"
        BY <3>1, <3>2
      <3>3. CASE subscription.state # "pending"
        BY <3>1, <3>3
      <3> QED BY <3>2, <3>3
    <2>2. CASE SubscribeIsCancelled
      BY <2>2 DEF SubscribeIsCancelled
    <2> QED BY <2>1, <2>2
  <1> DEFINE m == Failure(r.id)
  <1>3. r.id \in 1 .. MaxRequests /\ after \in Subscriptions
    <2>1. r \in RequestsTo(Len(log)) /\ subscription \in Subscriptions
      BY <1>1 DEF HostTypes
    <2> QED BY <2>1, SubscriptionIs DEF RequestsTo
  <1>4. m \in Messages(Len(log)) /\ m.type \in Answers
    BY <1>1, <1>3, AnswerIs DEF Answers
  <1>5. EndRequest(r, m, after) /\ gap' \in BOOLEAN
    BY <1>1, <1>2 DEF HistoryTypes
  <1>6. Typed' /\ Phases' /\ conn = "Connected" /\ UNCHANGED <<client, wire, log, queue, dropped>>
    <2> HIDE DEF m
    <2> QED BY <1>3, <1>4, <1>5, EndRequestTypes
  <1> QED BY <1>2, <1>4, <1>6

LEMMA ReadUnsubscribeTypes ==
    ASSUME Typed, Phases, ReadUnsubscribe
    PROVE  Typed' /\ Phases' /\ conn = "Connected"
  <1>1. ClientTypes /\ WireTypes /\ HostTypes /\ HistoryTypes
    BY TypedParts
  <1>2. /\ conn = "Connected" /\ toServer' \in Seq(ClientMessages) /\ attached
        /\ ~Has(toServer', {"reconnect"})
    BY ReadClientIs DEF ReadUnsubscribe
  <1>3. /\ subscription' = NoSubscription /\ gap' = (gap \/ HasState)
        /\ UNCHANGED <<client, toClient, late, breaks, log, queue, attached, requests, restoring,
                       answers, dropped>>
    BY DEF ReadUnsubscribe
  <1>4. subscription' \in Subscriptions
    BY <1>3, SubscriptionIs
  <1>5. conn' = conn /\ ~restoring'.on
    BY <1>2, <1>3 DEF Phases, client
  <1>6. gap' \in BOOLEAN
    BY <1>1, <1>3 DEF HistoryTypes, HasState
  <1>7. Typed'
    BY <1>1, <1>2, <1>3, <1>4, <1>5, <1>6, HostTalkTypes DEF HostTypes, WireTypes
  <1>8. Phases'
    <2>1. \A m \in answers' : m.type \in Answers
      BY <1>2, <1>3 DEF Phases
    <2> QED BY <1>2, <1>3, <1>5, <2>1, HostTalkPhases
  <1> QED BY <1>2, <1>7, <1>8

LEMMA TransportBreaksTypes ==
    ASSUME Typed, Phases, TransportBreaks
    PROVE  /\ Typed' /\ Phases' /\ toServer' = <<>> /\ conn' # "Connected"
           /\ entry'.pending = entry.pending
           /\ UNCHANGED <<clientSeq, outbox, log, queue, dropped, gap>>
           /\ \/ late' = late
              \/ \E n \in 1 .. Len(Dispatched(toServer)) :
                    late' = Append(late, SubSeq(Dispatched(toServer), 1, n))
           /\ Dispatched(toServer) \in Seq(ClientSeqs) /\ late \in Seq(Seq(ClientSeqs))
  <1>1. ClientTypes /\ WireTypes /\ HostTypes /\ HistoryTypes /\ LogType
    BY TypedParts DEF HostTypes
  <1> DEFINE sent == Dispatched(toServer)
  <1>2. sent \in Seq(ClientSeqs) /\ late \in Seq(Seq(ClientSeqs)) /\ Len(sent) \in Nat
    BY <1>1, DispatchedType DEF WireTypes
  <1>3. \/ late' = late
        \/ \E n \in 1 .. Len(sent) : late' = Append(late, SubSeq(sent, 1, n))
    <2>1. PICK n \in 0 .. Len(sent) :
              late' = IF n = 0 THEN late ELSE Append(late, SubSeq(sent, 1, n))
      BY DEF TransportBreaks
    <2>2. n # 0 => n \in 1 .. Len(sent)
      BY <1>2
    <2> QED BY <2>1, <2>2
  <1> HIDE DEF sent
  <1>4. late' \in Seq(Seq(ClientSeqs)) /\ \A i \in DOMAIN late' : late'[i] # <<>>
    <2>1. CASE late' = late
      BY <1>1, <2>1 DEF WireTypes
    <2>2. CASE \E n \in 1 .. Len(sent) : late' = Append(late, SubSeq(sent, 1, n))
      <3>1. PICK n \in 1 .. Len(sent) : late' = Append(late, SubSeq(sent, 1, n))
        BY <2>2
      <3> DEFINE prefix == SubSeq(sent, 1, n)
      <3>2. prefix \in Seq(ClientSeqs) /\ prefix # <<>> /\ late' = Append(late, prefix)
        BY <1>2, <3>1, PrefixFacts
      <3> HIDE DEF prefix
      <3>3. late' \in Seq(Seq(ClientSeqs)) /\ DOMAIN late' = 1 .. Len(late) + 1
            /\ late'[Len(late) + 1] = prefix /\ \A i \in 1 .. Len(late) : late'[i] = late[i]
            /\ DOMAIN late = 1 .. Len(late) /\ Len(late) \in Nat
        BY <1>2, <3>2
      <3>4. \A i \in DOMAIN late : late[i] # <<>>
        BY <1>1 DEF WireTypes
      <3> QED BY <3>2, <3>3, <3>4
    <2> QED BY <1>3, <2>1, <2>2
  <1>5. /\ breaks < MaxBreaks /\ breaks' = breaks + 1 /\ conn' = "Reconnecting"
        /\ entry' = entry \/ entry' = Fail(entry)
        /\ toServer' = <<>> /\ toClient' = <<>>
        /\ ~attached' /\ attached' = FALSE
        /\ subscription' = NoSubscription /\ requests' = {} /\ restoring' = NotRestoring
        /\ answers' = {}
        /\ UNCHANGED <<serverSeq, clientSeq, outbox, gated, asked, log, queue, dropped, gap>>
    BY DEF TransportBreaks
  <1>6. /\ entry' \in Entries(Len(log)) /\ entry'.pending = entry.pending
        /\ IsHeld' \/ entry' = NoEntry
        /\ entry'.request # NoRequest => entry'.status = "pending"
    <2>1. entry \in Entries(Len(log)) /\ (~IsHeld => entry = NoEntry) /\ Len(log) \in Nat
          /\ (entry.request # NoRequest => entry.status = "pending")
      BY <1>1, DomainOfLog DEF ClientTypes
    <2>2. CASE entry' = entry
      BY <2>1, <2>2 DEF IsHeld
    <2>3. CASE entry' = Fail(entry)
      BY <2>1, <2>3, SettledFacts DEF IsHeld, NoRequest
    <2> QED BY <1>5, <2>2, <2>3
  <1>7. breaks' \in 0 .. MaxBreaks
    BY <1>1, <1>5, BoundsAssumption DEF WireTypes
  <1>8. ClientTypes'
    BY <1>1, <1>5, <1>6 DEF ClientTypes, ClientMessages, Entries
  <1>9. WireTypes'
    <2>1. toServer' \in Seq(ClientMessages)' /\ toClient' \in Seq(Messages(Len(log)))'
      BY <1>5
    <2> QED BY <1>4, <1>7, <2>1 DEF WireTypes
  <1>10. HostTypes' /\ HistoryTypes'
    BY <1>1, <1>5, SubscriptionIs DEF HostTypes, HistoryTypes, LogType, IsSubscribed
  <1>11. Connections'
    BY <1>5, SubscriptionIs DEF Connections
  <1>12. Typed'
    BY <1>8, <1>9, <1>10, <1>11, TypedPartsNext
  <1>13. Phases'
    BY <1>5, SubscriptionIs DEF Phases
  <1> QED BY <1>2, <1>3, <1>5, <1>6, <1>12, <1>13 DEF sent

LEMMA InitTypes ==
    ASSUME Init PROVE Typed /\ Phases
  <1>1. \A T : <<>> \in Seq(T)
    OBVIOUS
  <1>2. Len(log) = 0 /\ 0 \in 0 .. Len(log)
    BY DEF Init
  <1>3. /\ MaxActions \in Nat /\ MaxRequests \in Nat /\ MaxBreaks \in Nat
        /\ 0 \in 0 .. MaxActions /\ 0 \in 0 .. MaxRequests /\ 0 \in 0 .. MaxBreaks
    BY BoundsAssumption
  <1>4. entry \in Entries(Len(log)) /\ entry = NoEntry
    BY <1>2, EntryIs DEF Init
  <1>5. ClientTypes
    BY <1>1, <1>2, <1>3, <1>4, EntryIs DEF Init, ClientTypes, NoRequest
  <1>6. WireTypes
    BY <1>1, <1>3 DEF Init, WireTypes
  <1>7. HostTypes
    BY <1>1, SubscriptionIs DEF Init, HostTypes, LogType
  <1>8. HistoryTypes /\ Connections
    BY SubscriptionIs DEF Init, HistoryTypes, Connections
  <1>9. Phases
    BY SubscriptionIs DEF Init, Phases, Has
  <1> QED BY <1>5, <1>6, <1>7, <1>8, <1>9, TypedParts

LEMMA StutterTypes ==
    ASSUME Typed, Phases, UNCHANGED vars PROVE Typed' /\ Phases'
  <1>1. ClientTypes /\ WireTypes /\ HostTypes /\ HistoryTypes /\ Connections
    BY TypedParts
  <1>2. ClientTypes' /\ WireTypes' /\ HostTypes' /\ HistoryTypes' /\ Connections'
    BY <1>1 DEF ClientTypes, WireTypes, HostTypes, HistoryTypes, Connections, LogType, IsHeld,
                IsSubscribed, ClientMessages, vars, client, wire, host, RequestsTo, Subscriptions
  <1>3. Phases'
    BY DEF Phases, Has, IsAsking, IsRestoring, IsReady, IsAnswered, OnlyActions, IsAmongActions,
           IsSubscribed, HasState, vars, client, wire, host
  <1> QED BY <1>2, <1>3, TypedPartsNext

LEMMA NextTypes ==
    ASSUME Typed, Phases, [Next]_vars PROVE Typed' /\ Phases'
  <1>1. CASE User
    BY <1>1, AcquireTypes, ReleaseTypes, ActTypes DEF User
  <1>2. CASE Client
    BY <1>2, ReadActionTypes, ReadAnswerTypes, ReadReplayTypes, ReadSnapshotsTypes, ConnectTypes
       DEF Client
  <1>3. CASE Host
    BY <1>3, ReadDispatchTypes, ReadLateTypes, ExecuteTypes, ReadReconnectTypes, RestoreEndsTypes,
       SendAnswerTypes, ReadSubscribeTypes, TakeSnapshotTypes, SubscribeEndsTypes,
       SubscribeFailsTypes, ReadUnsubscribeTypes DEF Host
  <1>4. CASE ActOfOthers
    BY <1>4, ActOfOthersTypes
  <1>5. CASE TransportBreaks
    BY <1>5, TransportBreaksTypes
  <1>6. CASE UNCHANGED vars
    BY <1>6, StutterTypes
  <1> QED BY <1>1, <1>2, <1>3, <1>4, <1>5, <1>6 DEF Next

(* The types of SessionStateSubscription, of the client's protocol and of  *)
(* ProtocolServerHandler; and a reconnection goes through its phases: the  *)
(* request, the restoration of the subscriptions, the answer that is ready *)
(* and the answer that is sent, with nothing but actions around it.        *)
THEOREM TypesAreKept == Spec => [](TypeOK /\ Phases)
  <1>1. Init => Typed /\ Phases
    BY InitTypes
  <1>2. Typed /\ Phases /\ [Next]_vars => Typed' /\ Phases'
    BY NextTypes
  <1>3. Typed /\ Phases => TypeOK /\ Phases
    BY DEF Typed
  <1> QED BY <1>1, <1>2, <1>3, PTL DEF Spec

-----------------------------------------------------------------------------
(* The order of the client's actions is kept *)

(* What the state must hold of the actions, part by part. *)
OrderFacts ==
    /\ clientSeq \in 0 .. MaxActions /\ MaxActions \in Nat
    /\ toServer \in Seq(ClientMessages) /\ outbox \in Seq(ClientMessages)
    /\ queue \in Seq(ClientSeqs) /\ late \in Seq(Seq(ClientSeqs))
    /\ entry.pending \in Seq(ClientSeqs)
    /\ Dispatched(toServer) \in Seq(ClientSeqs) /\ Dispatched(outbox) \in Seq(ClientSeqs)
    /\ LogType

LEMMA OrderTypes ==
    ASSUME Typed PROVE OrderFacts
  <1>1. ClientTypes /\ WireTypes /\ HostTypes
    BY TypedParts
  <1>2. entry.pending \in Seq(ClientSeqs)
    BY <1>1 DEF ClientTypes, Entries
  <1>3. toServer \in Seq(ClientMessages) /\ outbox \in Seq(ClientMessages)
    BY <1>1 DEF ClientTypes, WireTypes
  <1>4. Dispatched(toServer) \in Seq(ClientSeqs) /\ Dispatched(outbox) \in Seq(ClientSeqs)
    BY <1>3, DispatchedType
  <1> QED BY <1>1, <1>2, <1>3, <1>4, BoundsAssumption
          DEF OrderFacts, ClientTypes, WireTypes, HostTypes

LEMMA EmptyIsInterval ==
    ASSUME NEW n \in Nat PROVE Interval(n + 1, n) = <<>> /\ n + 1 \in 1 .. n + 1
  <1> DEFINE first == n + 1
  <1>1. first \in Int /\ n \in Int /\ first > n
    OBVIOUS
  <1> HIDE DEF first
  <1>2. Interval(first, n) = <<>>
    BY <1>1, IntervalFacts
  <1> QED BY <1>2 DEF first

(* A step in which the host takes no action. *)
LEMMA OrderWithoutHost ==
    ASSUME Typed, OrderInv, UNCHANGED <<clientSeq, log, queue>>,
           dropped \subseteq dropped',
           \A i \in DOMAIN late' : InOrder(late'[i], Taken),
           IsAscending(entry'.pending),
           \A s : Contains(entry'.pending, s) => Contains(entry.pending, s),
           \A s : Contains(entry.pending, s) =>
                    Contains(entry'.pending, s) \/ s \in Logged \/ s \in dropped',
           Dispatched(outbox') = Dispatched(outbox) \/ Dispatched(outbox') = <<>>,
           InOrder(Dispatched(toServer'), Taken'),
           conn' = "Connected" =>
               \A s \in 1 .. clientSeq : s \in Taken' \/ Contains(Dispatched(toServer'), s)
    PROVE  OrderInv'
  <1>1. Logged' = Logged /\ Done \subseteq Done' /\ Taken \subseteq Taken'
    BY DEF Logged, Done, Taken, ToSet
  <1>2. QueuesAreInOrder'
    <2>1. InOrder(queue', Done')
      BY <1>1, InOrderMore DEF OrderInv, QueuesAreInOrder
    <2>2. \A i \in DOMAIN late' : InOrder(late'[i], Taken')
      BY <1>1, InOrderMore
    <2>3. Dispatched(toServer)' = Dispatched(toServer')
      BY DEF Dispatched
    <2> QED BY <2>1, <2>2, <2>3 DEF QueuesAreInOrder, InOrder
  <1>3. NothingIsForgotten'
    <2>1. \A s \in 1 .. clientSeq' : s \in Done' \/ Contains(entry'.pending, s)
      BY <1>1 DEF OrderInv, NothingIsForgotten, Done
    <2> QED BY <2>1 DEF NothingIsForgotten, Dispatched, Contains
  <1>4. OutboxIsLatest'
    <2>1. \E first \in 1 .. clientSeq + 1 : Dispatched(outbox') = Interval(first, clientSeq)
      <3>1. CASE Dispatched(outbox') = Dispatched(outbox)
        BY <3>1 DEF OrderInv, OutboxIsLatest
      <3>2. CASE Dispatched(outbox') = <<>>
        <4>1. clientSeq \in Nat
          BY OrderTypes DEF OrderFacts
        <4> QED BY <3>2, <4>1, EmptyIsInterval
      <3> QED BY <3>1, <3>2
    <2> QED BY <2>1 DEF OutboxIsLatest, Dispatched, Interval
  <1>5. PendingAscends'
    BY DEF OrderInv, PendingAscends, IsAscending, Contains
  <1>6. ActionsKeepTheirOrder'
    BY DEF OrderInv, ActionsKeepTheirOrder
  <1> QED BY <1>2, <1>3, <1>4, <1>5, <1>6 DEF OrderInv

(* A user who gives up the entry drops what is pending. *)
LEMMA DropOrder ==
    ASSUME Typed, OrderInv, UNCHANGED <<conn, clientSeq, late, log, queue>>, Clear(entry),
           entry'.pending = <<>>,
           Dispatched(toServer') = Dispatched(toServer), Dispatched(outbox') = Dispatched(outbox)
    PROVE  OrderInv'
  <1>1. dropped' = dropped \cup ToSet(entry.pending) /\ entry.pending \in Seq(ClientSeqs)
    BY OrderTypes DEF Clear, OrderFacts
  <1>2. \A s : Contains(entry.pending, s) => s \in dropped'
    BY <1>1, ContainsIsMember
  <1>3. dropped \subseteq dropped' /\ Taken \subseteq Taken'
    BY <1>1 DEF Taken, Done, Logged, ToSet
  <1>4. IsAscending(entry'.pending) /\ \A s : ~Contains(entry'.pending, s)
    BY EmptyFacts DEF IsAscending
  <1>5. InOrder(Dispatched(toServer'), Taken')
    BY <1>3, InOrderMore DEF OrderInv, QueuesAreInOrder
  <1>6. \A i \in DOMAIN late' : InOrder(late'[i], Taken)
    BY DEF OrderInv, QueuesAreInOrder
  <1>7. conn' = "Connected" =>
            \A s \in 1 .. clientSeq : s \in Taken' \/ Contains(Dispatched(toServer'), s)
    BY <1>3 DEF OrderInv, NothingIsForgotten
  <1> QED BY <1>2, <1>3, <1>4, <1>5, <1>6, <1>7, OrderWithoutHost

LEMMA AcquireOrder ==
    ASSUME Typed, Phases, OrderInv, Acquire PROVE OrderInv'
  <1>1. /\ Dispatched(toServer') = Dispatched(toServer) /\ Dispatched(outbox') = Dispatched(outbox)
        /\ asked' \in 1 .. MaxRequests
    BY AcquireTypes
  <1>2. entry' = NewEntry(asked') /\ Clear(entry)
        /\ UNCHANGED <<conn, clientSeq, late, log, queue>>
    BY DEF Acquire, host
  <1>3. entry'.pending = <<>>
    BY <1>1, <1>2, EntryIs
  <1> QED BY <1>1, <1>2, <1>3, DropOrder

LEMMA ReleaseOrder ==
    ASSUME Typed, Phases, OrderInv, Release PROVE OrderInv'
  <1>1. Dispatched(toServer') = Dispatched(toServer) /\ Dispatched(outbox') = Dispatched(outbox)
    BY ReleaseTypes
  <1>2. entry' = NoEntry /\ Clear(entry) /\ UNCHANGED <<conn, clientSeq, late, log, queue>>
    BY DEF Release, host
  <1>3. entry'.pending = <<>>
    BY <1>2, EntryIs
  <1> QED BY <1>1, <1>2, <1>3, DropOrder

(* A step of the client that settles what the log has. *)
LEMMA SettleOrder ==
    ASSUME Typed, OrderInv, KeepsPending(entry, entry'),
           UNCHANGED <<conn, clientSeq, outbox, toServer, late, log, queue, dropped>>
    PROVE  OrderInv'
  <1>1. Taken' = Taken
    BY DEF Taken, Done, Logged, ToSet
  <1>2. /\ IsAscending(entry'.pending)
        /\ \A s : Contains(entry'.pending, s) => Contains(entry.pending, s)
        /\ \A s : Contains(entry.pending, s) => Contains(entry'.pending, s) \/ s \in Logged
    BY DEF KeepsPending, OrderInv, PendingAscends
  <1>3. Dispatched(toServer') = Dispatched(toServer) /\ Dispatched(outbox') = Dispatched(outbox)
    OBVIOUS
  <1>4. /\ InOrder(Dispatched(toServer'), Taken')
        /\ \A i \in DOMAIN late' : InOrder(late'[i], Taken)
        /\ conn' = "Connected" =>
             \A s \in 1 .. clientSeq : s \in Taken' \/ Contains(Dispatched(toServer'), s)
    BY <1>1, <1>3 DEF OrderInv, QueuesAreInOrder, NothingIsForgotten
  <1> QED BY <1>2, <1>3, <1>4, OrderWithoutHost

LEMMA ReadActionOrder ==
    ASSUME Typed, Phases, OrderInv, ReadAction PROVE OrderInv'
  <1>1. KeepsPending(entry, entry')
    BY ReadActionTypes
  <1>2. UNCHANGED <<conn, clientSeq, outbox, toServer, late, log, queue, dropped>>
    BY DEF ReadAction, host
  <1> QED BY <1>1, <1>2, SettleOrder

LEMMA ReadAnswerOrder ==
    ASSUME Typed, Phases, OrderInv, ReadAnswer PROVE OrderInv'
  <1>1. KeepsPending(entry, entry')
    BY ReadAnswerTypes
  <1>2. UNCHANGED <<conn, clientSeq, outbox, toServer, late, log, queue, dropped>>
    BY DEF ReadAnswer, host
  <1> QED BY <1>1, <1>2, SettleOrder

(* What is sent again has no holes: what is pending, and then the outbox,   *)
(* which are the last actions.                                              *)
LEMMA DrainOrder ==
    ASSUME Typed, OrderInv, UNCHANGED <<clientSeq, late, log, queue>>, dropped \subseteq dropped',
           entry'.pending \in Seq(ClientSeqs), IsAscending(entry'.pending),
           \A s : Contains(entry'.pending, s) => Contains(entry.pending, s),
           \A s : Contains(entry.pending, s) =>
                    Contains(entry'.pending, s) \/ s \in Logged \/ s \in dropped',
           toServer' = Drain(entry'.pending), outbox' = <<>>
    PROVE  OrderInv'
  <1> DEFINE pending == entry'.pending
             before == Taken'
  <1>1. Done \subseteq before /\ Logged \subseteq before /\ dropped' \subseteq before
    BY DEF Taken, Done, Logged
  <1>2. pending \in Seq(ClientSeqs) /\ IsAscending(pending)
    OBVIOUS
  <1>3. \A s \in 1 .. clientSeq : s \in before \/ Contains(pending, s)
    BY <1>1 DEF OrderInv, NothingIsForgotten
  <1>4. \A s \in ClientSeqs : Contains(pending, s) => s <= clientSeq
    BY DEF OrderInv, PendingAscends
  <1>5. toServer' = Drain(pending)
    OBVIOUS
  <1>6. OutboxIsLatest
    BY DEF OrderInv
  <1> HIDE DEF pending, before
  <1>7. /\ InOrder(Dispatched(Drain(pending)), before)
        /\ \A s \in 1 .. clientSeq : s \in before \/ Contains(Dispatched(Drain(pending)), s)
    BY <1>2, <1>3, <1>4, <1>6, DrainInOrder
  <1>8. InOrder(Dispatched(toServer'), Taken')
        /\ \A s \in 1 .. clientSeq : s \in Taken' \/ Contains(Dispatched(toServer'), s)
    BY <1>5, <1>7 DEF before
  <1>9. Dispatched(outbox') = <<>>
    <2> DEFINE none == <<>>
    <2>1. none \in Seq(ClientMessages) /\ \A i \in DOMAIN none : ~IsDispatch(none[i])
      OBVIOUS
    <2> HIDE DEF none
    <2>2. Dispatched(none) = <<>>
      BY <2>1, DispatchedNone
    <2> QED BY <2>2 DEF none
  <1>10. \A i \in DOMAIN late' : InOrder(late'[i], Taken)
    BY DEF OrderInv, QueuesAreInOrder
  <1> QED BY <1>8, <1>9, <1>10, OrderWithoutHost

LEMMA ReadReplayOrder ==
    ASSUME Typed, Phases, OrderInv, ReadReplay PROVE OrderInv'
  <1>1. /\ Typed' /\ toServer' = Drain(entry'.pending) /\ outbox' = <<>>
        /\ UNCHANGED <<clientSeq, late, log, queue, dropped>> /\ KeepsPending(entry, entry')
    BY ReadReplayTypes
  <1>2. entry'.pending \in Seq(ClientSeqs)
    BY <1>1 DEF Typed, TypeOK
  <1>3. /\ IsAscending(entry'.pending)
        /\ \A s : Contains(entry'.pending, s) => Contains(entry.pending, s)
        /\ \A s : Contains(entry.pending, s) => Contains(entry'.pending, s) \/ s \in Logged
    BY <1>1 DEF KeepsPending, OrderInv, PendingAscends
  <1> QED BY <1>1, <1>2, <1>3, DrainOrder

LEMMA ReadSnapshotsOrder ==
    ASSUME Typed, Phases, OrderInv, ReadSnapshots PROVE OrderInv'
  <1> DEFINE seated == Head(toClient).subscribed /\ IsHeld
  <1>1. /\ Typed' /\ toServer' = Drain(entry'.pending) /\ outbox' = <<>>
        /\ UNCHANGED <<clientSeq, late, log, queue>>
        /\ ~seated => entry' = entry /\ dropped' = dropped
        /\ seated => /\ \A s : ~Contains(entry'.pending, s)
                     /\ dropped' = dropped \cup ToSet(entry.pending)
    BY ReadSnapshotsTypes
  <1> HIDE DEF seated
  <1>2. entry'.pending \in Seq(ClientSeqs) /\ entry.pending \in Seq(ClientSeqs)
    BY <1>1 DEF Typed, TypeOK
  <1>3. IsAscending(entry'.pending)
    <2>1. CASE seated
      <3>1. \A i \in DOMAIN entry'.pending : Contains(entry'.pending, entry'.pending[i])
        BY <1>2 DEF Contains
      <3> QED BY <1>1, <2>1, <3>1 DEF IsAscending
    <2>2. CASE ~seated
      BY <1>1, <2>2 DEF OrderInv, PendingAscends
    <2> QED BY <2>1, <2>2
  <1>4. dropped \subseteq dropped'
    BY <1>1
  <1>5. \A s : Contains(entry.pending, s) => Contains(entry'.pending, s) \/ s \in dropped'
    <2>1. CASE seated
      BY <1>1, <1>2, <2>1, ContainsIsMember
    <2> QED BY <1>1, <2>1
  <1>6. \A s : Contains(entry'.pending, s) => Contains(entry.pending, s)
    BY <1>1
  <1> QED BY <1>1, <1>2, <1>3, <1>4, <1>5, <1>6, DrainOrder

LEMMA ActOrder ==
    ASSUME Typed, Phases, OrderInv, Act PROVE OrderInv'
  <1>1. OrderFacts
    BY OrderTypes
  <1>2. /\ clientSeq' = clientSeq + 1 /\ clientSeq' \in ClientSeqs /\ clientSeq \in Nat
        /\ entry'.pending = Append(entry.pending, clientSeq')
        /\ conn = "Connected" =>
             /\ Dispatched(toServer') = Append(Dispatched(toServer), clientSeq')
             /\ outbox' = outbox
        /\ conn # "Connected" =>
             /\ Dispatched(outbox') = Append(Dispatched(outbox), clientSeq')
             /\ toServer' = toServer
    BY ActTypes
  <1>3. UNCHANGED <<conn, late, log, queue, dropped>>
    BY DEF Act, host
  <1>4. Done' = Done /\ Taken' = Taken /\ Logged' = Logged
    BY <1>3 DEF Done, Taken, Logged, ToSet
  <1>5. 1 .. clientSeq' - 1 = 1 .. clientSeq /\ 1 .. clientSeq' = (1 .. clientSeq) \cup {clientSeq'}
        /\ clientSeq' \in Nat
    BY <1>2
  <1>6. QueuesAreInOrder'
    <2>1. InOrder(Dispatched(toServer'), Taken)
      <3>1. CASE conn = "Connected"
        <4>1. \A s \in 1 .. clientSeq' - 1 : s \in Taken \/ Contains(Dispatched(toServer), s)
          BY <1>5, <3>1 DEF OrderInv, NothingIsForgotten
        <4> DEFINE sent == Dispatched(toServer)
                   c == clientSeq'
        <4>2. sent \in Seq(ClientSeqs) /\ InOrder(sent, Taken) /\ c \in ClientSeqs
              /\ \A s \in 1 .. c - 1 : s \in Taken \/ Contains(sent, s)
          BY <1>1, <1>2, <4>1 DEF OrderFacts, OrderInv, QueuesAreInOrder
        <4> HIDE DEF sent, c
        <4>3. InOrder(Append(sent, c), Taken)
          BY <4>2, InOrderAppend
        <4> QED BY <1>2, <3>1, <4>3 DEF sent, c
      <3>2. CASE conn # "Connected"
        BY <1>2, <3>2 DEF OrderInv, QueuesAreInOrder
      <3> QED BY <3>1, <3>2
    <2>2. InOrder(queue', Done') /\ \A i \in DOMAIN late' : InOrder(late'[i], Taken')
      BY <1>3, <1>4 DEF OrderInv, QueuesAreInOrder
    <2>3. Dispatched(toServer)' = Dispatched(toServer')
      BY DEF Dispatched
    <2> QED BY <1>4, <2>1, <2>2, <2>3 DEF QueuesAreInOrder, InOrder
  <1>7. NothingIsForgotten'
    <2>1. \A s : Contains(entry'.pending, s) <=> Contains(entry.pending, s) \/ s = clientSeq'
      <3> DEFINE c == clientSeq'
      <3>1. entry.pending \in Seq(ClientSeqs) /\ c \in ClientSeqs
            /\ entry'.pending = Append(entry.pending, c)
        BY <1>1, <1>2 DEF OrderFacts
      <3> HIDE DEF c
      <3>2. \A s : Contains(entry'.pending, s) <=> Contains(entry.pending, s) \/ s = c
        BY <3>1, ContainsAppend
      <3> QED BY <3>2 DEF c
    <2>2. \A s \in 1 .. clientSeq' : s \in Done' \/ Contains(entry'.pending, s)
      BY <1>4, <1>5, <2>1 DEF OrderInv, NothingIsForgotten
    <2>3. conn' = "Connected" =>
              \A s \in 1 .. clientSeq' : s \in Taken' \/ Contains(Dispatched(toServer'), s)
      <3> SUFFICES ASSUME conn = "Connected"
                   PROVE  \A s \in 1 .. clientSeq' :
                              s \in Taken' \/ Contains(Dispatched(toServer'), s)
        BY <1>3
      <3> DEFINE sent == Dispatched(toServer)
                 c == clientSeq'
      <3>1. sent \in Seq(ClientSeqs) /\ c \in ClientSeqs /\ Dispatched(toServer') = Append(sent, c)
            /\ \A s \in 1 .. clientSeq : s \in Taken \/ Contains(sent, s)
        BY <1>1, <1>2 DEF OrderFacts, OrderInv, NothingIsForgotten
      <3>2. 1 .. clientSeq' = (1 .. clientSeq) \cup {c}
        BY <1>5
      <3> HIDE DEF sent, c
      <3>3. \A s : Contains(Append(sent, c), s) <=> Contains(sent, s) \/ s = c
        BY <3>1, ContainsAppend
      <3> QED BY <1>4, <3>1, <3>2, <3>3
    <2>4. Dispatched(toServer)' = Dispatched(toServer')
      BY DEF Dispatched
    <2> QED BY <2>2, <2>3, <2>4 DEF NothingIsForgotten, Contains
  <1>8. OutboxIsLatest'
    <2>1. \E first \in 1 .. clientSeq' + 1 : Dispatched(outbox') = Interval(first, clientSeq')
      <3>1. CASE conn = "Connected"
        <4>1. outbox' = <<>>
          BY <1>2, <3>1 DEF Typed, TypeOK
        <4> DEFINE none == <<>>
        <4>2. none \in Seq(ClientMessages) /\ \A i \in DOMAIN none : ~IsDispatch(none[i])
          OBVIOUS
        <4> HIDE DEF none
        <4>3. Dispatched(none) = <<>>
          BY <4>2, DispatchedNone
        <4>4. Dispatched(outbox') = <<>>
          BY <4>1, <4>3 DEF none
        <4> DEFINE c == clientSeq'
        <4>5. c \in Nat
          BY <1>5
        <4> HIDE DEF c
        <4>6. Interval(c + 1, c) = <<>> /\ c + 1 \in 1 .. c + 1
          BY <4>5, EmptyIsInterval
        <4> QED BY <4>4, <4>6 DEF c
      <3>2. CASE conn # "Connected"
        <4>1. PICK first \in 1 .. clientSeq + 1 :
                  Dispatched(outbox) = Interval(first, clientSeq)
          BY DEF OrderInv, OutboxIsLatest
        <4>2. first \in Int /\ clientSeq \in Int /\ first <= clientSeq + 1
          BY <1>2, <4>1
        <4>3. Append(Interval(first, clientSeq), clientSeq + 1) = Interval(first, clientSeq + 1)
          BY <4>2, IntervalAppend
        <4>4. Dispatched(outbox') = Interval(first, clientSeq')
          BY <1>2, <3>2, <4>1, <4>3
        <4>5. first \in 1 .. clientSeq' + 1
          BY <1>2, <4>1
        <4> QED BY <4>4, <4>5
      <3> QED BY <3>1, <3>2
    <2>2. Dispatched(outbox)' = Dispatched(outbox')
      BY DEF Dispatched
    <2> QED BY <2>1, <2>2 DEF OutboxIsLatest, Interval
  <1>9. PendingAscends'
    <2> DEFINE pending == entry.pending
               c == clientSeq'
    <2>1. pending \in Seq(ClientSeqs) /\ c \in ClientSeqs /\ entry'.pending = Append(pending, c)
          /\ IsAscending(pending) /\ c = clientSeq + 1
          /\ \A s \in ClientSeqs : Contains(pending, s) => s <= clientSeq
      BY <1>1, <1>2 DEF OrderFacts, OrderInv, PendingAscends
    <2> HIDE DEF pending, c
    <2>2. \A s \in ClientSeqs : s \in Nat
      BY DEF ClientSeqs
    <2>3. pending \in Seq(Nat) /\ c \in Nat
      BY <2>1, <2>2, SeqsGrow
    <2>4. \A m \in Nat : Contains(pending, m) => m < c
      <3>1. \A m : Contains(pending, m) => m \in ClientSeqs
        BY <2>1 DEF Contains
      <3> QED BY <1>2, <2>1, <3>1
    <2>5. IsAscending(Append(pending, c))
      BY <2>1, <2>3, <2>4, AscendingAppend
    <2>6. \A s : Contains(Append(pending, c), s) <=> Contains(pending, s) \/ s = c
      BY <2>1, ContainsAppend
    <2>7. ASSUME NEW s \in ClientSeqs, Contains(entry'.pending, s) PROVE s <= clientSeq'
      <3>1. Contains(pending, s) \/ s = c
        BY <2>1, <2>6, <2>7
      <3>2. s <= clientSeq \/ s = clientSeq + 1
        BY <2>1, <3>1
      <3>3. s \in Nat /\ clientSeq \in Nat /\ clientSeq' = clientSeq + 1
        BY <1>2, <2>2
      <3> QED BY <3>2, <3>3
    <2>8. IsAscending(entry'.pending)
      BY <2>1, <2>5
    <2> QED BY <2>7, <2>8 DEF PendingAscends, IsAscending, Contains
  <1>10. ActionsKeepTheirOrder'
    BY <1>3 DEF OrderInv, ActionsKeepTheirOrder
  <1> QED BY <1>6, <1>7, <1>8, <1>9, <1>10 DEF OrderInv

(* A step that leaves the actions where they are. *)
LEMMA StayOrder ==
    ASSUME Typed, OrderInv, UNCHANGED <<clientSeq, outbox, log, queue, dropped>>,
           entry'.pending = entry.pending, conn' = conn \/ conn' # "Connected",
           \A i \in DOMAIN late' : InOrder(late'[i], Taken),
           \/ Dispatched(toServer') = Dispatched(toServer)
           \/ Dispatched(toServer') = <<>> /\ conn' # "Connected"
    PROVE  OrderInv'
  <1>1. Taken' = Taken
    BY DEF Taken, Done, Logged, ToSet
  <1>2. InOrder(Dispatched(toServer'), Taken')
    BY <1>1, InOrderEmpty DEF OrderInv, QueuesAreInOrder
  <1>3. conn' = "Connected" =>
            \A s \in 1 .. clientSeq : s \in Taken' \/ Contains(Dispatched(toServer'), s)
    BY <1>1 DEF OrderInv, NothingIsForgotten
  <1>4. Dispatched(outbox') = Dispatched(outbox)
    OBVIOUS
  <1>5. IsAscending(entry'.pending)
    BY DEF OrderInv, PendingAscends
  <1> QED BY <1>2, <1>3, <1>4, <1>5, OrderWithoutHost

LEMMA DispatchedEmpty == Dispatched(<<>>) = <<>>
  <1> DEFINE none == <<>>
  <1>1. none \in Seq(ClientMessages) /\ \A i \in DOMAIN none : ~IsDispatch(none[i])
    OBVIOUS
  <1> HIDE DEF none
  <1>2. Dispatched(none) = <<>>
    BY <1>1, DispatchedNone
  <1> QED BY <1>2 DEF none

LEMMA TalkOrder ==
    ASSUME Typed, Phases, OrderInv,
           \/ Connect \/ ReadReconnect \/ RestoreEnds \/ SendAnswer
           \/ ReadSubscribe \/ TakeSnapshot \/ SubscribeEnds \/ SubscribeFails
           \/ SubscribeIsCancelled \/ ReadUnsubscribe \/ TransportBreaks
    PROVE  OrderInv'
  <1>1. \A i \in DOMAIN late : InOrder(late[i], Taken)
    BY DEF OrderInv, QueuesAreInOrder
  <1>2. CASE Connect
    <2>1. Dispatched(toServer') = <<>>
      BY <1>2, ConnectTypes
    <2>2. UNCHANGED <<clientSeq, outbox, log, queue, dropped, entry, late>> /\ conn' # "Connected"
      BY <1>2 DEF Connect, host
    <2> QED BY <1>1, <2>1, <2>2, StayOrder
  <1>3. CASE ReadReconnect
    <2>1. toServer' = <<>> /\ conn = "Asked"
      BY <1>3, ReadReconnectTypes
    <2>2. UNCHANGED <<clientSeq, outbox, log, queue, dropped, entry, late, conn>>
      BY <1>3 DEF ReadReconnect, client
    <2> QED BY <1>1, <2>1, <2>2, DispatchedEmpty, StayOrder
  <1>4. CASE \/ RestoreEnds \/ SendAnswer \/ TakeSnapshot
             \/ SubscribeEnds \/ SubscribeFails \/ SubscribeIsCancelled
    <2>1. UNCHANGED <<clientSeq, outbox, log, queue, dropped, entry, late, conn, toServer>>
      <3>1. CASE RestoreEnds
        BY <3>1 DEF RestoreEnds, client, wire
      <3>2. CASE SubscribeEnds
        BY <3>2, SubscribeEndsTypes DEF client, wire
      <3>3. CASE SubscribeFails \/ SubscribeIsCancelled
        BY <3>3, SubscribeFailsTypes DEF client, wire
      <3>4. CASE SendAnswer
        BY <3>4, SendAnswerTypes DEF client
      <3>5. CASE TakeSnapshot
        BY <3>5, TakeSnapshotTypes DEF client, wire
      <3> QED BY <1>4, <3>1, <3>2, <3>3, <3>4, <3>5
    <2> QED BY <1>1, <2>1, StayOrder
  <1>5. CASE ReadSubscribe \/ ReadUnsubscribe
    <2>1. UNCHANGED <<clientSeq, outbox, log, queue, dropped, entry, late, conn>>
          /\ ReadFromClient /\ Head(toServer).type \in {"subscribe", "unsubscribe"}
      BY <1>5 DEF ReadSubscribe, ReadUnsubscribe, client
    <2>2. toServer \in Seq(ClientMessages) /\ toServer # <<>> /\ toServer' = Tail(toServer)
          /\ ~IsDispatch(Head(toServer))
      BY <2>1, ReadClientIs DEF IsDispatch
    <2>3. Dispatched(toServer') = Dispatched(toServer)
      BY <2>2, DispatchedTail
    <2> QED BY <1>1, <2>1, <2>3, StayOrder
  <1>6. CASE TransportBreaks
    <2> DEFINE sent == Dispatched(toServer)
    <2>1. /\ toServer' = <<>> /\ conn' # "Connected" /\ entry'.pending = entry.pending
          /\ UNCHANGED <<clientSeq, outbox, log, queue, dropped>>
          /\ \/ late' = late
             \/ \E n \in 1 .. Len(sent) : late' = Append(late, SubSeq(sent, 1, n))
          /\ sent \in Seq(ClientSeqs) /\ late \in Seq(Seq(ClientSeqs))
      BY <1>6, TransportBreaksTypes
    <2>2. InOrder(sent, Taken)
      BY DEF OrderInv, QueuesAreInOrder
    <2> HIDE DEF sent
    <2>3. \A i \in DOMAIN late' : InOrder(late'[i], Taken)
      <3>1. CASE late' = late
        BY <1>1, <3>1
      <3>2. CASE \E n \in 1 .. Len(sent) : late' = Append(late, SubSeq(sent, 1, n))
        <4>1. PICK n \in 1 .. Len(sent) : late' = Append(late, SubSeq(sent, 1, n))
          BY <3>2
        <4> DEFINE prefix == SubSeq(sent, 1, n)
        <4>2. prefix \in Seq(ClientSeqs) /\ InOrder(prefix, Taken) /\ late' = Append(late, prefix)
          BY <2>1, <2>2, <4>1, PrefixFacts, InOrderPrefix
        <4> HIDE DEF prefix
        <4>3. DOMAIN late' = 1 .. Len(late) + 1 /\ late'[Len(late) + 1] = prefix
              /\ \A i \in 1 .. Len(late) : late'[i] = late[i]
              /\ DOMAIN late = 1 .. Len(late) /\ Len(late) \in Nat
          BY <2>1, <4>2
        <4> QED BY <1>1, <4>2, <4>3
      <3> QED BY <2>1, <3>1, <3>2
    <2> QED BY <2>1, <2>3, DispatchedEmpty, StayOrder
  <1> QED BY <1>2, <1>3, <1>4, <1>5, <1>6

(* A step of the host that takes an action from one of the queues. *)
LEMMA LoggedGrows ==
    ASSUME LogType, NEW envelope \in Envelopes, LogGrows(envelope), dropped' = dropped
    PROVE  Logged' = Logged \cup {envelope.clientSeq} /\ Done' = Done \cup {envelope.clientSeq}
  <1>1. /\ DOMAIN log' = DOMAIN log \cup {Len(log) + 1}
        /\ \A k \in DOMAIN log : log'[k] = log[k]
        /\ log'[Len(log) + 1] = envelope
    <2>1. /\ DOMAIN log' = 1 .. Len(log) + 1 /\ DOMAIN log = 1 .. Len(log) /\ Len(log) \in Nat
          /\ \A k \in DOMAIN log : log'[k] = log[k]
          /\ log'[Len(log) + 1] = envelope
      BY LogGrowsFacts
    <2>2. 1 .. Len(log) + 1 = (1 .. Len(log)) \cup {Len(log) + 1}
      BY <2>1
    <2> QED BY <2>1, <2>2
  <1>2. Logged' = Logged \cup {envelope.clientSeq}
    BY <1>1 DEF Logged
  <1> QED BY <1>2 DEF Done

LEMMA LogKeepsOrder ==
    ASSUME LogType, ActionsKeepTheirOrder, NEW envelope \in Envelopes, LogGrows(envelope),
           dropped' = dropped,
           envelope.rejected \/ \A s \in 1 .. envelope.clientSeq - 1 : s \in Done
    PROVE  ActionsKeepTheirOrder'
  <1>1. /\ DOMAIN log' = 1 .. Len(log) + 1 /\ DOMAIN log = 1 .. Len(log) /\ Len(log) \in Nat
        /\ \A k \in DOMAIN log : log'[k] = log[k]
        /\ log'[Len(log) + 1] = envelope
    BY LogGrowsFacts
  <1>2. ASSUME NEW k \in DOMAIN log', ~log'[k].rejected, NEW s \in 1 .. log'[k].clientSeq - 1
        PROVE  s \in dropped' \/ \E j \in 1 .. k - 1 : log'[j].clientSeq = s
    <2>1. CASE k \in DOMAIN log
      <3>1. s \in dropped \/ \E j \in 1 .. k - 1 : log[j].clientSeq = s
        BY <1>1, <1>2, <2>1 DEF ActionsKeepTheirOrder
      <3>2. \A j \in 1 .. k - 1 : j \in DOMAIN log
        BY <1>1, <2>1
      <3> QED BY <1>1, <3>1, <3>2
    <2>2. CASE k \notin DOMAIN log
      <3>1. k = Len(log) + 1 /\ log'[k] = envelope
        BY <1>1, <2>2
      <3>2. s \in Done
        BY <1>2, <3>1
      <3>3. s \in dropped \/ \E j \in DOMAIN log : log[j].clientSeq = s
        BY <3>2 DEF Done, Logged
      <3>4. \A j \in DOMAIN log : j \in 1 .. k - 1
        BY <1>1, <3>1
      <3> QED BY <1>1, <3>3, <3>4
    <2> QED BY <2>1, <2>2
  <1> QED BY <1>2 DEF ActionsKeepTheirOrder

(* The action seq is taken: it is in the queue, or rejected at once. *)
LEMMA TakeOrder ==
    ASSUME Typed, OrderInv, NEW seq \in ClientSeqs, Take(seq), dropped' = dropped,
           \A s \in 1 .. seq - 1 : s \in Taken
    PROVE  /\ InOrder(queue', Done') /\ Done \subseteq Done' /\ Taken' = Taken \cup {seq}
           /\ ActionsKeepTheirOrder'
  <1>1. OrderFacts
    BY OrderTypes
  <1>2. CASE queue' = Append(queue, seq) /\ log' = log
    <2>1. Done' = Done
      BY <1>2 DEF Done, Logged
    <2>2. Taken' = Taken \cup {seq}
      <3>1. ToSet(queue') = ToSet(queue) \cup {seq}
        <4>1. \A s : Contains(Append(queue, seq), s) <=> Contains(queue, s) \/ s = seq
          BY <1>1, ContainsAppend DEF OrderFacts
        <4>2. Append(queue, seq) \in Seq(ClientSeqs)
          BY <1>1 DEF OrderFacts
        <4>3. \A s : s \in ToSet(queue) <=> Contains(queue, s)
          BY <1>1, ContainsIsMember DEF OrderFacts
        <4>4. \A s : s \in ToSet(Append(queue, seq)) <=> Contains(Append(queue, seq), s)
          BY <4>2, ContainsIsMember
        <4> QED BY <1>2, <4>1, <4>3, <4>4
      <3> QED BY <2>1, <3>1 DEF Taken
    <2>3. InOrder(Append(queue, seq), Done)
      <3>1. \A s \in 1 .. seq - 1 : s \in Done \/ Contains(queue, s)
        BY <1>1, ContainsIsMember DEF Taken, OrderFacts
      <3> QED BY <1>1, <3>1, InOrderAppend DEF OrderFacts, OrderInv, QueuesAreInOrder
    <2>4. ActionsKeepTheirOrder'
      BY <1>2 DEF OrderInv, ActionsKeepTheirOrder
    <2> QED BY <1>2, <2>1, <2>2, <2>3, <2>4
  <1>3. CASE queue' = queue /\ LogGrows(OwnEnvelope(seq, TRUE))
    <2> DEFINE envelope == OwnEnvelope(seq, TRUE)
    <2>1. envelope \in Envelopes /\ envelope.clientSeq = seq /\ envelope.rejected
          /\ LogGrows(envelope)
      BY <1>3, OwnEnvelopeType
    <2> HIDE DEF envelope
    <2>2. Done' = Done \cup {seq}
      BY <1>1, <2>1, LoggedGrows DEF OrderFacts
    <2>3. Taken' = Taken \cup {seq}
      BY <1>3, <2>2 DEF Taken
    <2>4. ActionsKeepTheirOrder'
      BY <1>1, <2>1, LogKeepsOrder DEF OrderFacts, OrderInv
    <2>5. InOrder(queue', Done')
      BY <1>3, <2>2, InOrderMore DEF OrderInv, QueuesAreInOrder
    <2> QED BY <2>2, <2>3, <2>4, <2>5
  <1> QED BY <1>2, <1>3, TakeIs

(* The rest of the invariant, when the host has taken an action. *)
LEMMA HostOrder ==
    ASSUME Typed, OrderInv, UNCHANGED <<client, dropped>>, Done \subseteq Done',
           InOrder(queue', Done'), ActionsKeepTheirOrder',
           InOrder(Dispatched(toServer'), Taken'),
           \A i \in DOMAIN late' : InOrder(late'[i], Taken'),
           \A s : s \in Taken \/ Contains(Dispatched(toServer), s) =>
                    s \in Taken' \/ Contains(Dispatched(toServer'), s)
    PROVE  OrderInv'
  <1>1. UNCHANGED <<conn, clientSeq, entry, outbox>>
    BY DEF client
  <1>2. Dispatched(toServer)' = Dispatched(toServer') /\ Dispatched(outbox)' = Dispatched(outbox)
    BY <1>1 DEF Dispatched
  <1>3. QueuesAreInOrder'
    BY <1>2 DEF QueuesAreInOrder, InOrder
  <1>4. NothingIsForgotten'
    <2>1. \A s \in 1 .. clientSeq' : s \in Done' \/ Contains(entry'.pending, s)
      BY <1>1 DEF OrderInv, NothingIsForgotten
    <2>2. conn' = "Connected" =>
              \A s \in 1 .. clientSeq' : s \in Taken' \/ Contains(Dispatched(toServer'), s)
      BY <1>1 DEF OrderInv, NothingIsForgotten
    <2> QED BY <1>2, <2>1, <2>2 DEF NothingIsForgotten, Contains
  <1>5. OutboxIsLatest' /\ PendingAscends'
    BY <1>1, <1>2 DEF OrderInv, OutboxIsLatest, PendingAscends, IsAscending, Contains, Interval
  <1> QED BY <1>3, <1>4, <1>5 DEF OrderInv

LEMMA ReadDispatchOrder ==
    ASSUME Typed, Phases, OrderInv, ReadDispatch PROVE OrderInv'
  <1>1. OrderFacts
    BY OrderTypes
  <1>2. toServer \in Seq(ClientMessages) /\ toServer # <<>> /\ toServer' = Tail(toServer)
        /\ Head(toServer) \in ClientMessages /\ IsDispatch(Head(toServer))
        /\ Take(Head(toServer).clientSeq)
        /\ UNCHANGED <<client, late, dropped>>
    BY ReadClientIs DEF ReadDispatch
  <1> DEFINE seq == Head(toServer).clientSeq
             sent == Dispatched(toServer)
             rest == Dispatched(toServer')
  <1>3. /\ seq \in ClientSeqs /\ sent # <<>> /\ Head(sent) = seq /\ Tail(sent) = rest
        /\ sent \in Seq(ClientSeqs) /\ Take(seq)
    BY <1>1, <1>2, DispatchIs, DispatchedTail DEF OrderFacts
  <1>4. InOrder(sent, Taken) /\ \A i \in DOMAIN late : InOrder(late[i], Taken)
    BY DEF OrderInv, QueuesAreInOrder
  <1> HIDE DEF seq, sent, rest
  <1>5. \A s \in 1 .. seq - 1 : s \in Taken
    <2>1. 1 \in DOMAIN sent /\ sent[1] = seq
      BY <1>3
    <2> QED BY <1>4, <2>1 DEF InOrder
  <1>6. /\ InOrder(queue', Done') /\ Done \subseteq Done' /\ Taken' = Taken \cup {seq}
        /\ ActionsKeepTheirOrder'
    BY <1>2, <1>3, <1>5, TakeOrder
  <1>7. InOrder(rest, Taken')
    <2> DEFINE after == Taken'
    <2>1. Taken \subseteq after /\ Head(sent) \in after
      BY <1>3, <1>6
    <2> HIDE DEF after
    <2>2. InOrder(Tail(sent), after)
      BY <1>3, <1>4, <2>1, InOrderTail
    <2> QED BY <1>3, <2>2 DEF after
  <1>8. \A i \in DOMAIN late' : InOrder(late'[i], Taken')
    BY <1>2, <1>4, <1>6, InOrderMore
  <1>9. \A s : s \in Taken \/ Contains(sent, s) => s \in Taken' \/ Contains(rest, s)
    <2>1. \A s : Contains(sent, s) <=> s = Head(sent) \/ Contains(Tail(sent), s)
      BY <1>3, ContainsTail
    <2> QED BY <1>3, <1>6, <2>1
  <1>10. UNCHANGED <<client, dropped>>
    BY <1>2
  <1> QED BY <1>6, <1>7, <1>8, <1>9, <1>10, HostOrder DEF sent, rest

LEMMA ReadLateOrder ==
    ASSUME Typed, Phases, OrderInv, ReadLate PROVE OrderInv'
  <1>1. PICK i \in DOMAIN late : Take(Head(late[i])) /\ ReadOfLate(i)
    BY DEF ReadLate, ReadOfLate
  <1>2. UNCHANGED <<client, toServer, dropped>>
    BY DEF ReadLate
  <1> DEFINE sent == late[i]
             seq == Head(sent)
  <1>3. /\ sent \in Seq(ClientSeqs) /\ sent # <<>> /\ seq \in ClientSeqs /\ Take(seq)
        /\ \A j \in DOMAIN late' :
              (\E k \in DOMAIN late : late'[j] = late[k]) \/ late'[j] = Tail(sent)
    BY <1>1, ReadOfLateFacts
  <1>4. /\ InOrder(sent, Taken) /\ \A k \in DOMAIN late : InOrder(late[k], Taken)
        /\ InOrder(Dispatched(toServer), Taken)
    BY <1>1 DEF OrderInv, QueuesAreInOrder
  <1>5. \A s \in 1 .. seq - 1 : s \in Taken
    <2>1. 1 \in DOMAIN sent /\ sent[1] = seq
      BY <1>3
    <2> QED BY <1>4, <2>1 DEF InOrder
  <1> HIDE DEF sent
  <1>6. Head(sent) = seq
    OBVIOUS
  <1> HIDE DEF seq
  <1>7. /\ InOrder(queue', Done') /\ Done \subseteq Done' /\ Taken' = Taken \cup {seq}
        /\ ActionsKeepTheirOrder'
    BY <1>2, <1>3, <1>5, TakeOrder
  <1>8. InOrder(Tail(sent), Taken')
    <2> DEFINE after == Taken'
    <2>1. Taken \subseteq after /\ Head(sent) \in after
      BY <1>6, <1>7
    <2> HIDE DEF after
    <2>2. InOrder(Tail(sent), after)
      BY <1>3, <1>4, <2>1, InOrderTail
    <2> QED BY <2>2 DEF after
  <1>9. \A k \in DOMAIN late : InOrder(late[k], Taken')
    BY <1>4, <1>7, InOrderMore
  <1>10. \A j \in DOMAIN late' : InOrder(late'[j], Taken')
    BY <1>3, <1>8, <1>9
  <1>11. InOrder(Dispatched(toServer'), Taken') /\ Dispatched(toServer') = Dispatched(toServer)
    BY <1>2, <1>4, <1>7, InOrderMore
  <1>12. \A s : s \in Taken \/ Contains(Dispatched(toServer), s) =>
                  s \in Taken' \/ Contains(Dispatched(toServer'), s)
    BY <1>7, <1>11
  <1>13. UNCHANGED <<client, dropped>>
    BY <1>2
  <1> QED BY <1>7, <1>10, <1>11, <1>12, <1>13, HostOrder

LEMMA ExecuteOrder ==
    ASSUME Typed, Phases, OrderInv, Execute PROVE OrderInv'
  <1>1. OrderFacts
    BY OrderTypes
  <1> DEFINE seq == Head(queue)
  <1>2. PICK rejected \in BOOLEAN :
            /\ queue # <<>> /\ queue' = Tail(queue)
            /\ queue \in Seq(ClientSeqs) /\ seq \in ClientSeqs
            /\ LogGrows(OwnEnvelope(seq, rejected))
    BY ExecuteTypes
  <1>3. UNCHANGED <<client, toServer, late, dropped>>
    BY DEF Execute
  <1> DEFINE envelope == OwnEnvelope(seq, rejected)
  <1>4. envelope \in Envelopes /\ envelope.clientSeq = seq /\ LogGrows(envelope)
    BY <1>2, OwnEnvelopeType
  <1>5. Head(queue) = seq
    OBVIOUS
  <1> HIDE DEF seq, envelope
  <1>6. Done' = Done \cup {seq}
    BY <1>1, <1>3, <1>4, LoggedGrows DEF OrderFacts
  <1>7. Taken' = Taken
    <2>1. \A s : Contains(queue, s) <=> s = seq \/ Contains(queue', s)
      BY <1>2, <1>5, ContainsTail
    <2>2. queue' \in Seq(ClientSeqs)
      BY <1>2
    <2>3. \A s : s \in ToSet(queue) <=> Contains(queue, s)
      BY <1>2, ContainsIsMember
    <2>4. \A s : s \in ToSet(queue') <=> Contains(queue', s)
      BY <2>2, ContainsIsMember
    <2>5. ToSet(queue) = {seq} \cup ToSet(queue')
      BY <2>1, <2>3, <2>4
    <2>6. Taken' = Done' \cup ToSet(queue')
      BY DEF Taken, ToSet
    <2> QED BY <1>6, <2>5, <2>6 DEF Taken
  <1>8. InOrder(queue', Done')
    <2> DEFINE after == Done'
    <2>1. InOrder(queue, Done) /\ Done \subseteq after /\ Head(queue) \in after
      BY <1>5, <1>6 DEF OrderInv, QueuesAreInOrder
    <2> HIDE DEF after
    <2>2. InOrder(Tail(queue), after)
      BY <1>2, <2>1, InOrderTail
    <2> QED BY <1>2, <2>2 DEF after
  <1>9. ActionsKeepTheirOrder'
    <2>1. \A s \in 1 .. seq - 1 : s \in Done
      <3>1. 1 \in DOMAIN queue /\ queue[1] = seq
        BY <1>2, <1>5
      <3> QED BY <3>1 DEF OrderInv, QueuesAreInOrder, InOrder
    <2> QED BY <1>1, <1>3, <1>4, <2>1, LogKeepsOrder DEF OrderFacts, OrderInv
  <1>10. InOrder(Dispatched(toServer'), Taken') /\ Dispatched(toServer') = Dispatched(toServer)
         /\ \A i \in DOMAIN late' : InOrder(late'[i], Taken')
    BY <1>3, <1>7 DEF OrderInv, QueuesAreInOrder
  <1>11. Done \subseteq Done'
    BY <1>6
  <1>12. \A s : s \in Taken \/ Contains(Dispatched(toServer), s) =>
                  s \in Taken' \/ Contains(Dispatched(toServer'), s)
    BY <1>7, <1>10
  <1>13. UNCHANGED <<client, dropped>>
    BY <1>3
  <1> QED BY <1>8, <1>9, <1>10, <1>11, <1>12, <1>13, HostOrder

LEMMA ActOfOthersOrder ==
    ASSUME Typed, Phases, OrderInv, ActOfOthers PROVE OrderInv'
  <1>1. OrderFacts
    BY OrderTypes
  <1>2. PICK envelope \in Envelopes : LogGrows(envelope) /\ envelope.clientSeq = Others
    BY ActOfOthersTypes
  <1>3. UNCHANGED <<client, toServer, late, queue, dropped>>
    BY DEF ActOfOthers
  <1>4. Done' = Done \cup {Others}
    BY <1>1, <1>2, <1>3, LoggedGrows DEF OrderFacts
  <1>5. Taken' = Taken \cup {Others}
    BY <1>3, <1>4 DEF Taken
  <1>6. ActionsKeepTheirOrder'
    <2>1. \A s \in 1 .. envelope.clientSeq - 1 : s \in Done
      BY <1>2 DEF Others
    <2> QED BY <1>1, <1>2, <1>3, <2>1, LogKeepsOrder DEF OrderFacts, OrderInv
  <1>7. InOrder(queue', Done') /\ Done \subseteq Done'
    BY <1>3, <1>4, InOrderMore DEF OrderInv, QueuesAreInOrder
  <1>8. InOrder(Dispatched(toServer'), Taken') /\ \A i \in DOMAIN late' : InOrder(late'[i], Taken')
    BY <1>3, <1>5, InOrderMore DEF OrderInv, QueuesAreInOrder
  <1>9. \A s : s \in Taken \/ Contains(Dispatched(toServer), s) =>
                 s \in Taken' \/ Contains(Dispatched(toServer'), s)
    BY <1>3, <1>5
  <1>10. UNCHANGED <<client, dropped>>
    BY <1>3
  <1> QED BY <1>6, <1>7, <1>8, <1>9, <1>10, HostOrder

LEMMA InitOrder ==
    ASSUME Init PROVE OrderInv
  <1>1. entry = NoEntry /\ clientSeq = 0 /\ outbox = <<>> /\ toServer = <<>> /\ late = <<>>
        /\ log = <<>> /\ queue = <<>>
    BY DEF Init
  <1>2. entry.pending = <<>>
    BY <1>1, EntryIs
  <1>3. QueuesAreInOrder
    BY <1>1, DispatchedEmpty, InOrderEmpty DEF QueuesAreInOrder
  <1>4. NothingIsForgotten
    BY <1>1 DEF NothingIsForgotten
  <1>5. OutboxIsLatest
    <2>1. Interval(0 + 1, 0) = <<>> /\ 0 + 1 \in 1 .. 0 + 1
      BY EmptyIsInterval
    <2> QED BY <1>1, <2>1, DispatchedEmpty DEF OutboxIsLatest
  <1>6. PendingAscends
    BY <1>2, EmptyFacts DEF PendingAscends, IsAscending
  <1>7. ActionsKeepTheirOrder
    BY <1>1 DEF ActionsKeepTheirOrder
  <1> QED BY <1>3, <1>4, <1>5, <1>6, <1>7 DEF OrderInv

LEMMA StutterOrder ==
    ASSUME Typed, OrderInv, UNCHANGED vars PROVE OrderInv'
  <1>1. UNCHANGED <<conn, clientSeq, entry, outbox, toServer, late, log, queue, dropped>>
    BY DEF vars, client, wire, host
  <1>2. \A i \in DOMAIN late' : InOrder(late'[i], Taken)
    BY <1>1 DEF OrderInv, QueuesAreInOrder
  <1> QED BY <1>1, <1>2, StayOrder

LEMMA NextOrder ==
    ASSUME Typed, Phases, OrderInv, [Next]_vars PROVE OrderInv'
  <1>1. CASE User
    BY <1>1, AcquireOrder, ReleaseOrder, ActOrder DEF User
  <1>2. CASE Client
    BY <1>2, ReadActionOrder, ReadAnswerOrder, ReadReplayOrder, ReadSnapshotsOrder, TalkOrder
       DEF Client
  <1>3. CASE Host
    BY <1>3, ReadDispatchOrder, ReadLateOrder, ExecuteOrder, TalkOrder DEF Host
  <1>4. CASE ActOfOthers
    BY <1>4, ActOfOthersOrder
  <1>5. CASE TransportBreaks
    BY <1>5, TalkOrder
  <1>6. CASE UNCHANGED vars
    BY <1>6, StutterOrder
  <1> QED BY <1>1, <1>2, <1>3, <1>4, <1>5, <1>6 DEF Next

(* The host carries out the client's actions in the order of their         *)
(* clientSeq, whatever transports break and whatever is read late: what    *)
(* _drainAfterReconnect sends again comes before the outbox and has no     *)
(* holes, and an action leaves the pending ones only when the log has it.  *)
THEOREM OrderIsKept == Spec => []ActionsKeepTheirOrder
  <1>1. Init => Typed /\ Phases /\ OrderInv
    BY InitTypes, InitOrder
  <1>2. (Typed /\ Phases /\ OrderInv) /\ [Next]_vars => (Typed /\ Phases /\ OrderInv)'
    BY NextTypes, NextOrder
  <1>3. Typed /\ Phases /\ OrderInv => ActionsKeepTheirOrder
    BY DEF OrderInv
  <1> QED BY <1>1, <1>2, <1>3, PTL DEF Spec

(* Every action of the client is in the log, dropped, or still shown as    *)
(* pending: none is lost without a trace, also while the transport is down *)
(* and while an entry waits for its state.                                 *)
THEOREM NoActionIsLost == Spec => []NothingIsForgotten
  <1>1. Init => Typed /\ Phases /\ OrderInv
    BY InitTypes, InitOrder
  <1>2. (Typed /\ Phases /\ OrderInv) /\ [Next]_vars => (Typed /\ Phases /\ OrderInv)'
    BY NextTypes, NextOrder
  <1>3. Typed /\ Phases /\ OrderInv => NothingIsForgotten
    BY DEF OrderInv
  <1> QED BY <1>1, <1>2, <1>3, PTL DEF Spec

-----------------------------------------------------------------------------
(* The client's confirmed state *)

Action(k) == [type |-> "action", serverSeq |-> k]
Snapshots == {"snapshot", "snapshots"}

(* What the host has done up to k is known from the message. *)
Tells(msg, k) ==
    \/ msg.type = "action" /\ k = msg.serverSeq
    \/ msg.type \in Snapshots /\ k = msg.fromSeq
    \/ msg.type = "replay" /\ Contains(msg.serverSeqs, k)

(* The message is news to whom knows what the host has done up to k. *)
IsNews(msg, k) == msg.type = "action" => k < msg.serverSeq

IsOrdered(msgs) ==
    \A i, j \in DOMAIN msgs : i < j =>
        \A k \in Nat : Tells(msgs[i], k) => IsNews(msgs[j], k)

(* What the client has buffered is behind it, and what it will read ahead. *)
NewsIsAhead ==
    /\ \A i \in DOMAIN entry.buffered : entry.buffered[i] <= serverSeq
    /\ \A i \in DOMAIN toClient :
          /\ IsNews(toClient[i], serverSeq)
          /\ HasState /\ toClient[i].type = "action" => entry.fromSeq < toClient[i].serverSeq
    /\ IsOrdered(toClient)

(* What the host has answered or sent, and the client has not read. *)
Coming == answers \cup {toClient[i] : i \in DOMAIN toClient}

(* Requests are numbered in the order in which they are made, *)
IdsArePast ==
    /\ entry.request <= asked
    /\ \A i \in DOMAIN gated : gated[i].id <= asked
    /\ \A i \in DOMAIN toServer : toServer[i].type = "subscribe" => toServer[i].id <= asked
    /\ \A r \in requests : r.id <= asked
    /\ \A msg \in Coming : msg.type \in Answers => msg.id <= asked

(* and no unsubscribe comes behind the request of the entry. *)
IsRequested == \E r \in requests : r.id = entry.request
IsReplied == \E msg \in Coming : msg.type \in Answers /\ msg.id = entry.request
UnsubscribesAreOlder ==
    /\ \A i, j \in DOMAIN toServer :
          i < j /\ toServer[i].type = "subscribe" /\ toServer[i].id = entry.request =>
             toServer[j].type # "unsubscribe"
    /\ IsRequested \/ IsReplied =>
          \A j \in DOMAIN toServer : toServer[j].type # "unsubscribe"

RequestInv == IdsArePast /\ UnsubscribesAreOlder

(* Whatever changes the session after from is on its way to the client. *)
Follows(from) ==
    \A k \in DOMAIN log : from < k /\ IsApplied(k) => Contains(toClient, Action(k))
IsFed == subscription.state = "active"

PlaceOf(from) == IF serverSeq >= from THEN serverSeq ELSE from
Place == PlaceOf(entry.fromSeq)
StateIsFed == conn = "Connected" /\ HasState /\ ~gap => IsFed /\ Follows(Place)

(* A snapshot that the entry will have, for no action can be missed any     *)
(* more: with what is buffered it makes the state at its place.             *)
SnapshotOf(from) == [type |-> "snapshot", id |-> entry.request, fromSeq |-> from]
IsPromised(from) ==
    \/ SnapshotOf(from) \in Coming
    \/ \E r \in requests :
          r.id = entry.request /\ r.subscription.state = "active" /\ r.fromSeq = from
WithBuffered(from) ==
    Applied(Interval(1, from)) \o Applied(Only(entry.buffered, from + 1 .. Len(log)))
IsWhole(from) ==
    Follows(PlaceOf(from)) /\ WithBuffered(from) = Applied(Interval(1, PlaceOf(from)))
SnapshotIsFed == ~gap => \A from \in 0 .. Len(log) : IsPromised(from) => IsFed /\ IsWhole(from)

ReplayIsWhole(seqs) ==
    \E last \in 0 .. Len(log) :
        /\ serverSeq <= last /\ entry.fromSeq <= last
        /\ seqs = Interval(serverSeq + 1, last)
        /\ Follows(last)
SnapshotsAreFed(msg) ==
    /\ HasState => msg.subscribed
    /\ msg.subscribed => IsFed /\ Follows(PlaceOf(msg.fromSeq))
ReplayIsFed(msg) == HasState => IsFed /\ (gap \/ ReplayIsWhole(msg.serverSeqs))
AnswerIsFed ==
    conn = "Asked" =>
        \A msg \in Coming :
            /\ msg.type = "snapshots" => SnapshotsAreFed(msg)
            /\ msg.type = "replay" => ReplayIsFed(msg)

(* The confirmed state, with Place for the last action that was seen. *)
StateIsPlaced == HasState /\ ~gap => entry.confirmed = Applied(Interval(1, Place))

FeedInv == StateIsFed /\ SnapshotIsFed /\ AnswerIsFed /\ StateIsPlaced

-----------------------------------------------------------------------------
(* What the messages tell comes in order *)

LEMMA TellsType ==
    ASSUME NEW n \in Nat, NEW m \in Messages(n), NEW k, Tells(m, k)
    PROVE  k \in 0 .. n
  <1>1. ASSUME NEW seqs \in Seq(1 .. n), Contains(seqs, k) PROVE k \in 0 .. n
    BY <1>1 DEF Contains
  <1> QED BY <1>1, MessageIs DEF Tells, Snapshots

LEMMA OrderedTail ==
    ASSUME NEW n \in Nat, NEW msgs \in Seq(Messages(n)), msgs # <<>>, IsOrdered(msgs)
    PROVE  /\ IsOrdered(Tail(msgs))
           /\ \A i \in DOMAIN Tail(msgs) : \A k \in Nat :
                 Tells(Head(msgs), k) => IsNews(Tail(msgs)[i], k)
           /\ \A i \in DOMAIN Tail(msgs) : \E j \in DOMAIN msgs : Tail(msgs)[i] = msgs[j]
           /\ 1 \in DOMAIN msgs /\ Head(msgs) = msgs[1]
  <1>1. /\ DOMAIN msgs = 1 .. Len(msgs) /\ Len(msgs) \in Nat \ {0} /\ Head(msgs) = msgs[1]
        /\ DOMAIN Tail(msgs) = 1 .. Len(msgs) - 1
        /\ \A i \in 1 .. Len(msgs) - 1 : Tail(msgs)[i] = msgs[i + 1] /\ i + 1 \in 1 .. Len(msgs)
    OBVIOUS
  <1> DEFINE rest == Tail(msgs)
  <1> HIDE DEF rest
  <1>2. ASSUME NEW i \in DOMAIN rest, NEW j \in DOMAIN rest, i < j, NEW k \in Nat,
               Tells(rest[i], k)
        PROVE  IsNews(rest[j], k)
    <2>1. i + 1 \in DOMAIN msgs /\ j + 1 \in DOMAIN msgs /\ i + 1 < j + 1
          /\ rest[i] = msgs[i + 1] /\ rest[j] = msgs[j + 1]
      BY <1>1, <1>2 DEF rest
    <2> QED BY <1>2, <2>1 DEF IsOrdered
  <1>3. ASSUME NEW i \in DOMAIN rest, NEW k \in Nat, Tells(Head(msgs), k)
        PROVE  IsNews(rest[i], k)
    <2>1. 1 \in DOMAIN msgs /\ i + 1 \in DOMAIN msgs /\ 1 < i + 1 /\ rest[i] = msgs[i + 1]
      BY <1>1, <1>3 DEF rest
    <2> QED BY <1>1, <1>3, <2>1 DEF IsOrdered
  <1>4. \A i \in DOMAIN rest : \E j \in DOMAIN msgs : rest[i] = msgs[j]
    BY <1>1 DEF rest
  <1>5. 1 \in DOMAIN msgs
    BY <1>1
  <1> QED BY <1>1, <1>2, <1>3, <1>4, <1>5 DEF IsOrdered, rest

LEMMA OrderedAppend ==
    ASSUME NEW n \in Nat, NEW msgs \in Seq(Messages(n)), NEW m, IsOrdered(msgs),
           \A k \in 0 .. n : IsNews(m, k)
    PROVE  IsOrdered(Append(msgs, m))
  <1>1. /\ DOMAIN msgs = 1 .. Len(msgs) /\ Len(msgs) \in Nat
        /\ DOMAIN Append(msgs, m) = 1 .. Len(msgs) + 1
        /\ \A i \in 1 .. Len(msgs) : Append(msgs, m)[i] = msgs[i] /\ msgs[i] \in Messages(n)
        /\ Append(msgs, m)[Len(msgs) + 1] = m
    OBVIOUS
  <1> DEFINE all == Append(msgs, m)
  <1> HIDE DEF all
  <1>2. ASSUME NEW i \in DOMAIN all, NEW j \in DOMAIN all, i < j, NEW k \in Nat, Tells(all[i], k)
        PROVE  IsNews(all[j], k)
    <2>1. i \in DOMAIN msgs /\ all[i] = msgs[i] /\ msgs[i] \in Messages(n)
      BY <1>1, <1>2 DEF all
    <2>2. CASE j \in DOMAIN msgs
      <3>1. all[j] = msgs[j]
        BY <1>1, <2>2 DEF all
      <3> QED BY <1>2, <2>1, <2>2, <3>1 DEF IsOrdered
    <2>3. CASE j \notin DOMAIN msgs
      <3>1. all[j] = m
        BY <1>1, <1>2, <2>3 DEF all
      <3>2. k \in 0 .. n
        BY <1>2, <2>1, TellsType
      <3> QED BY <3>1, <3>2
    <2> QED BY <2>2, <2>3
  <1> QED BY <1>2 DEF IsOrdered, all

(* A message about all of the log is news. *)
LEMMA LastIsNews ==
    ASSUME NEW n \in Nat, NEW k \in 0 .. n, NEW m
    PROVE  /\ m.type = "action" /\ m.serverSeq = n + 1 => IsNews(m, k)
           /\ m.type # "action" => IsNews(m, k)
  BY DEF IsNews

(* Who knows more finds less news. *)
LEMMA NewsOfMore ==
    ASSUME NEW n \in Nat, NEW m \in Messages(n), NEW k \in Nat, NEW l \in Nat, k <= l, IsNews(m, l)
    PROVE  IsNews(m, k)
  <1>1. m.type = "action" => m.serverSeq \in 1 .. n
    BY MessageIs
  <1> QED BY <1>1 DEF IsNews

-----------------------------------------------------------------------------
(* What the client reads is ahead of what it has seen *)

LEMMA NewsKept ==
    ASSUME \A i \in DOMAIN entry'.buffered : entry'.buffered[i] <= serverSeq',
           IsOrdered(toClient'),
           \A i \in DOMAIN toClient' : IsNews(toClient'[i], serverSeq'),
           HasState' => \A i \in DOMAIN toClient' :
               toClient'[i].type = "action" => entry'.fromSeq < toClient'[i].serverSeq
    PROVE  NewsIsAhead'
  BY DEF NewsIsAhead, IsOrdered, IsNews, Tells, Contains

(* The rest, once a message is read. *)
LEMMA NewsOfRest ==
    ASSUME Typed, NewsIsAhead, ReadFromServer
    PROVE  LET msg == Head(toClient) IN
           /\ IsOrdered(toClient') /\ IsNews(msg, serverSeq)
           /\ \A i \in DOMAIN toClient' :
                 /\ toClient'[i] \in Messages(Len(log))
                 /\ IsNews(toClient'[i], serverSeq)
                 /\ \A k \in Nat : Tells(msg, k) => IsNews(toClient'[i], k)
                 /\ HasState /\ toClient'[i].type = "action" =>
                       entry.fromSeq < toClient'[i].serverSeq
           /\ HasState /\ msg.type = "action" => entry.fromSeq < msg.serverSeq
  <1>1. /\ toClient' \in Seq(Messages(Len(log))) /\ toClient \in Seq(Messages(Len(log)))
        /\ toClient # <<>> /\ toClient' = Tail(toClient) /\ Len(log) \in Nat
    BY ReadIs
  <1>2. IsOrdered(toClient)
    BY DEF NewsIsAhead
  <1>3. /\ IsOrdered(toClient')
        /\ \A i \in DOMAIN toClient' : \A k \in Nat :
              Tells(Head(toClient), k) => IsNews(toClient'[i], k)
        /\ \A i \in DOMAIN toClient' : \E j \in DOMAIN toClient : toClient'[i] = toClient[j]
        /\ 1 \in DOMAIN toClient /\ Head(toClient) = toClient[1]
    BY <1>1, <1>2, OrderedTail
  <1>4. \A i \in DOMAIN toClient' : toClient'[i] \in Messages(Len(log))
    BY <1>1
  <1> QED BY <1>3, <1>4 DEF NewsIsAhead

LEMMA BufferedFacts ==
    ASSUME LogType, NEW e \in Entries(Len(log)), NEW seqs \in Seq(1 .. Len(log)), NEW n \in Nat,
           \A i \in DOMAIN e.buffered : e.buffered[i] <= n,
           \A k \in 1 .. Len(log) : Contains(seqs, k) => k <= n
    PROVE  \A i \in DOMAIN Receive(e, seqs).buffered : Receive(e, seqs).buffered[i] <= n
  <1> DEFINE f == Receive(e, seqs)
             news == OfSession(seqs)
             old == e.buffered
  <1>1. f.buffered = old \/ f.buffered = old \o news
    BY ReceiveFacts
  <1>2. old \in Seq(1 .. Len(log)) /\ news \in Seq(1 .. Len(log))
        /\ \A k : Contains(news, k) => Contains(seqs, k)
    BY AppliedFacts DEF Entries
  <1>3. \A i \in 1 .. Len(news) : news[i] \in 1 .. Len(log) /\ Contains(news, news[i])
    BY <1>2 DEF Contains
  <1> HIDE DEF f, news, old
  <1>4. \A i \in 1 .. Len(news) : news[i] <= n
    BY <1>2, <1>3
  <1>5. /\ DOMAIN (old \o news) = 1 .. Len(old) + Len(news) /\ Len(old) \in Nat
        /\ Len(news) \in Nat /\ DOMAIN old = 1 .. Len(old)
        /\ \A i \in 1 .. Len(old) : (old \o news)[i] = old[i]
        /\ \A i \in 1 .. Len(news) : (old \o news)[Len(old) + i] = news[i]
    BY <1>2, ConcatFacts
  <1> DEFINE all == old \o news
  <1> HIDE DEF all
  <1>6. \A i \in DOMAIN old : old[i] <= n
    BY DEF old
  <1>7. ASSUME NEW i \in DOMAIN all PROVE all[i] <= n
    <2>1. CASE i \in DOMAIN old
      BY <1>5, <1>6, <2>1 DEF all
    <2>2. CASE i \notin DOMAIN old
      <3>1. i - Len(old) \in 1 .. Len(news) /\ Len(old) + (i - Len(old)) = i
        BY <1>5, <2>2 DEF all
      <3>2. all[i] = news[i - Len(old)]
        BY <1>5, <3>1 DEF all
      <3> QED BY <1>4, <3>1, <3>2
    <2> QED BY <2>1, <2>2
  <1>8. \A i \in DOMAIN f.buffered : f.buffered[i] <= n
    BY <1>1, <1>6, <1>7 DEF all
  <1> QED BY <1>8 DEF f

LEMMA ReadActionNews ==
    ASSUME Typed, Phases, NewsIsAhead, ReadAction PROVE NewsIsAhead'
  <1> DEFINE msg == Head(toClient)
             k == msg.serverSeq
             seqs == <<k>>
  <1>1. k \in 1 .. Len(log) /\ seqs \in Seq(1 .. Len(log))
        /\ serverSeq' = IF serverSeq >= k THEN serverSeq ELSE k
    BY ReadActionTypes
  <1>2. entry' = Receive(entry, seqs) /\ msg.type = "action" /\ ReadFromServer
    BY DEF ReadAction
  <1>3. LogType /\ entry \in Entries(Len(log)) /\ serverSeq \in Nat
    BY TypedParts, DomainOfLog DEF HostTypes, ClientTypes
  <1>4. Tells(msg, k)
    BY <1>2 DEF Tells
  <1> HIDE DEF seqs
  <1>5. /\ IsOrdered(toClient') /\ IsNews(msg, serverSeq)
        /\ \A i \in DOMAIN toClient' :
              /\ IsNews(toClient'[i], k)
              /\ HasState /\ toClient'[i].type = "action" => entry.fromSeq < toClient'[i].serverSeq
    BY <1>1, <1>2, <1>4, NewsOfRest
  <1>6. serverSeq' = k
    BY <1>1, <1>2, <1>3, <1>5 DEF IsNews
  <1>7. \A i \in DOMAIN entry'.buffered : entry'.buffered[i] <= serverSeq'
    <2>1. \A i \in DOMAIN entry.buffered : entry.buffered[i] <= k
      <3>1. entry.buffered \in Seq(1 .. Len(log))
        BY <1>3 DEF Entries
      <3>2. \A i \in DOMAIN entry.buffered : entry.buffered[i] \in Nat
        BY <3>1
      <3> QED BY <1>1, <1>2, <1>3, <1>5, <3>2 DEF NewsIsAhead, IsNews
    <2>2. \A l \in 1 .. Len(log) : Contains(seqs, l) => l <= k
      BY <1>1 DEF Contains, seqs
    <2>3. k \in Nat
      BY <1>1
    <2> HIDE DEF k
    <2> QED BY <1>1, <1>2, <1>3, <1>6, <2>1, <2>2, <2>3, BufferedFacts
  <1>8. HasState' => HasState /\ entry'.fromSeq = entry.fromSeq
    BY <1>1, <1>2, <1>3, ReceiveFacts DEF HasState
  <1> QED BY <1>5, <1>6, <1>7, <1>8, NewsKept


(* A step that reads, and leaves the entry or seats or ends it. *)
LEMMA ReadAnswerNews ==
    ASSUME Typed, Phases, NewsIsAhead, ReadAnswer PROVE NewsIsAhead'
  <1> DEFINE msg == Head(toClient)
  <1>1. LogType /\ entry \in Entries(Len(log)) /\ serverSeq \in Nat
    BY TypedParts, DomainOfLog DEF HostTypes, ClientTypes
  <1>2. ReadFromServer /\ serverSeq' = serverSeq
    BY DEF ReadAnswer
  <1>3. /\ IsOrdered(toClient')
        /\ \A i \in DOMAIN toClient' :
              /\ IsNews(toClient'[i], serverSeq)
              /\ \A k \in Nat : Tells(msg, k) => IsNews(toClient'[i], k)
              /\ HasState /\ toClient'[i].type = "action" =>
                    entry.fromSeq < toClient'[i].serverSeq
    BY <1>2, NewsOfRest
  <1>4. \A i \in DOMAIN entry.buffered : entry.buffered[i] <= serverSeq
    BY DEF NewsIsAhead
  <1>5. /\ ~IsAwaited(msg) => entry' = entry
        /\ IsAwaited(msg) /\ msg.type = "snapshot" =>
              /\ entry' = Seat(Settled(entry), msg.fromSeq) /\ msg.fromSeq \in 0 .. Len(log)
              /\ Settled(entry) \in Entries(Len(log))
        /\ IsAwaited(msg) /\ msg.type # "snapshot" => entry' = Fail(entry)
    BY ReadAnswerTypes
  <1>6. CASE ~IsAwaited(msg)
    <2>1. entry' = entry
      BY <1>5, <1>6
    <2> QED BY <1>2, <1>3, <1>4, <2>1, NewsKept DEF HasState
  <1>7. CASE IsAwaited(msg) /\ msg.type = "snapshot"
    <2> DEFINE settled == Settled(entry)
    <2>1. entry' = Seat(settled, msg.fromSeq) /\ msg.fromSeq \in 0 .. Len(log)
          /\ settled \in Entries(Len(log))
      BY <1>5, <1>7
    <2> HIDE DEF settled
    <2>2. entry'.buffered = <<>> /\ entry'.fromSeq = msg.fromSeq
      BY <1>1, <2>1, SeatFacts
    <2>3. Tells(msg, msg.fromSeq) /\ msg.fromSeq \in Nat
      BY <1>1, <1>7, <2>1, DomainOfLog DEF Tells, Snapshots
    <2>4. \A i \in DOMAIN toClient' :
              toClient'[i].type = "action" => entry'.fromSeq < toClient'[i].serverSeq
      BY <1>3, <2>2, <2>3 DEF IsNews
    <2>5. \A i \in DOMAIN entry'.buffered : entry'.buffered[i] <= serverSeq'
      BY <2>2
    <2> QED BY <1>2, <1>3, <2>4, <2>5, NewsKept
  <1>8. CASE IsAwaited(msg) /\ msg.type # "snapshot"
    <2>1. entry' = Fail(entry)
      BY <1>5, <1>8
    <2>2. entry'.buffered = entry.buffered /\ entry'.status = "error"
      BY <1>1, <2>1, DomainOfLog, SettledFacts
    <2> QED BY <1>2, <1>3, <1>4, <2>2, NewsKept DEF HasState
  <1> QED BY <1>6, <1>7, <1>8

LEMMA ReadReplayNews ==
    ASSUME Typed, Phases, NewsIsAhead, ReadReplay PROVE NewsIsAhead'
  <1> DEFINE msg == Head(toClient)
             seqs == msg.serverSeqs
             kept == DropReplayed(entry, seqs)
  <1>1. LogType /\ entry \in Entries(Len(log)) /\ serverSeq \in Nat
    BY TypedParts, DomainOfLog DEF HostTypes, ClientTypes
  <1>2. ReadFromServer /\ msg.type = "replay"
    BY DEF ReadReplay
  <1>3. /\ seqs \in Seq(1 .. Len(log)) /\ kept \in Entries(Len(log))
        /\ kept = [entry EXCEPT !.pending = kept.pending]
        /\ entry' = Receive(kept, seqs)
        /\ serverSeq <= serverSeq'
        /\ \A k : Contains(seqs, k) => k <= serverSeq'
        /\ serverSeq' = serverSeq \/ Contains(seqs, serverSeq')
    BY ReadReplayTypes
  <1>4. /\ IsOrdered(toClient')
        /\ \A i \in DOMAIN toClient' :
              /\ IsNews(toClient'[i], serverSeq)
              /\ \A k \in Nat : Tells(msg, k) => IsNews(toClient'[i], k)
              /\ HasState /\ toClient'[i].type = "action" =>
                    entry.fromSeq < toClient'[i].serverSeq
    BY <1>2, NewsOfRest
  <1>5. serverSeq' \in Nat
    <2>1. Typed'
      BY ReadReplayTypes
    <2>2. ClientTypes' /\ LogType'
      BY <2>1, TypedPartsNext DEF HostTypes
    <2>3. Len(log') \in Nat
      BY <2>2 DEF LogType
    <2> QED BY <2>2, <2>3 DEF ClientTypes
  <1>6. \A i \in DOMAIN toClient' : IsNews(toClient'[i], serverSeq')
    <2>1. CASE serverSeq' = serverSeq
      BY <1>4, <2>1
    <2>2. CASE Contains(seqs, serverSeq')
      <3>1. Tells(msg, serverSeq')
        BY <1>2, <2>2 DEF Tells
      <3> QED BY <1>4, <1>5, <3>1
    <2> QED BY <1>3, <2>1, <2>2
  <1> HIDE DEF seqs, kept
  <1>7. kept.buffered = entry.buffered /\ kept.status = entry.status /\ kept.fromSeq = entry.fromSeq
    BY <1>1, <1>3 DEF Entries
  <1>8. \A i \in DOMAIN kept.buffered : kept.buffered[i] <= serverSeq'
    <2>1. entry.buffered \in Seq(1 .. Len(log))
      BY <1>1 DEF Entries
    <2>2. \A i \in DOMAIN entry.buffered : entry.buffered[i] \in Nat
      BY <2>1
    <2> QED BY <1>1, <1>3, <1>5, <1>7, <2>2 DEF NewsIsAhead
  <1>9. \A i \in DOMAIN entry'.buffered : entry'.buffered[i] <= serverSeq'
    <2> DEFINE n == serverSeq'
    <2>1. n \in Nat /\ (\A i \in DOMAIN kept.buffered : kept.buffered[i] <= n)
          /\ (\A k \in 1 .. Len(log) : Contains(seqs, k) => k <= n)
      BY <1>3, <1>5, <1>8
    <2> HIDE DEF n
    <2>2. \A i \in DOMAIN Receive(kept, seqs).buffered : Receive(kept, seqs).buffered[i] <= n
      BY <1>1, <1>3, <2>1, BufferedFacts
    <2> QED BY <1>3, <2>2 DEF n
  <1>10. entry'.status = entry.status /\ entry'.fromSeq = entry.fromSeq
    BY <1>1, <1>3, <1>7, ReceiveFacts
  <1>11. HasState' => \A i \in DOMAIN toClient' :
            toClient'[i].type = "action" => entry'.fromSeq < toClient'[i].serverSeq
    BY <1>4, <1>10 DEF HasState
  <1> QED BY <1>4, <1>6, <1>9, <1>11, NewsKept

LEMMA ReadSnapshotsNews ==
    ASSUME Typed, Phases, NewsIsAhead, ReadSnapshots PROVE NewsIsAhead'
  <1> DEFINE msg == Head(toClient)
             old == [Settled(entry) EXCEPT !.pending = <<>>]
             seated == msg.subscribed /\ IsHeld
  <1>1. LogType /\ entry \in Entries(Len(log)) /\ serverSeq \in Nat
    BY TypedParts, DomainOfLog DEF HostTypes, ClientTypes
  <1>2. ReadFromServer /\ msg.type = "snapshots"
    BY DEF ReadSnapshots
  <1>3. /\ msg.fromSeq \in 0 .. Len(log)
        /\ serverSeq' = IF serverSeq >= msg.fromSeq THEN serverSeq ELSE msg.fromSeq
        /\ ~seated => entry' = entry
        /\ seated => /\ old \in Entries(Len(log)) /\ entry' = Seat(old, msg.fromSeq)
                     /\ old.buffered = entry.buffered
    BY ReadSnapshotsTypes
  <1>4. /\ IsOrdered(toClient')
        /\ \A i \in DOMAIN toClient' :
              /\ IsNews(toClient'[i], serverSeq)
              /\ \A k \in Nat : Tells(msg, k) => IsNews(toClient'[i], k)
              /\ HasState /\ toClient'[i].type = "action" =>
                    entry.fromSeq < toClient'[i].serverSeq
    BY <1>2, NewsOfRest
  <1>5. Tells(msg, msg.fromSeq) /\ msg.fromSeq \in Nat
    BY <1>1, <1>2, <1>3, DomainOfLog DEF Tells, Snapshots
  <1>6. \A i \in DOMAIN toClient' : IsNews(toClient'[i], serverSeq') /\ IsNews(toClient'[i], msg.fromSeq)
    BY <1>3, <1>4, <1>5
  <1>7. CASE ~seated
    <2>1. entry' = entry
      BY <1>3, <1>7
    <2>2. \A i \in DOMAIN entry.buffered : entry.buffered[i] <= serverSeq'
      <3>1. entry.buffered \in Seq(1 .. Len(log))
        BY <1>1 DEF Entries
      <3>2. \A i \in DOMAIN entry.buffered : entry.buffered[i] \in Nat
        BY <3>1
      <3> QED BY <1>1, <1>3, <1>5, <3>2 DEF NewsIsAhead
    <2> QED BY <1>4, <1>6, <2>1, <2>2, NewsKept DEF HasState
  <1>8. CASE seated
    <2>0. old \in Entries(Len(log)) /\ entry' = Seat(old, msg.fromSeq)
      BY <1>3, <1>8
    <2> HIDE DEF old
    <2>1. entry'.buffered = <<>> /\ entry'.fromSeq = msg.fromSeq
      BY <1>1, <1>3, <2>0, SeatFacts
    <2>2. \A i \in DOMAIN toClient' :
              toClient'[i].type = "action" => entry'.fromSeq < toClient'[i].serverSeq
      BY <1>6, <2>1 DEF IsNews
    <2>3. \A i \in DOMAIN entry'.buffered : entry'.buffered[i] <= serverSeq'
      BY <2>1
    <2> QED BY <1>4, <1>6, <2>2, <2>3, NewsKept
  <1> QED BY <1>7, <1>8


(* A step that lets the client see nothing new. *)
LEMMA QuietNews ==
    ASSUME NewsIsAhead, serverSeq' = serverSeq, toClient' = toClient \/ toClient' = <<>>,
           entry'.buffered = entry.buffered \/ entry'.buffered = <<>>,
           HasState' => HasState /\ entry'.fromSeq = entry.fromSeq
    PROVE  NewsIsAhead'
  <1>1. \A i \in DOMAIN entry'.buffered : entry'.buffered[i] <= serverSeq'
    BY DEF NewsIsAhead
  <1>2. CASE toClient' = toClient
    BY <1>1, <1>2, NewsKept DEF NewsIsAhead
  <1>3. CASE toClient' = <<>>
    BY <1>1, <1>3, NewsKept DEF IsOrdered
  <1> QED BY <1>2, <1>3

(* An action that is published is news, and comes last. *)
LEMMA LastNews ==
    ASSUME Typed, NewsIsAhead, NEW m, toClient' = Append(toClient, m),
           UNCHANGED <<serverSeq, entry>>,
           m.type = "action" => m.serverSeq = Len(log) + 1
    PROVE  NewsIsAhead'
  <1>1. /\ serverSeq \in 0 .. Len(log) /\ entry.fromSeq \in 0 .. Len(log) /\ Len(log) \in Nat
        /\ toClient \in Seq(Messages(Len(log)))
    BY TypedParts, DomainOfLog DEF HostTypes, ClientTypes, WireTypes, Entries
  <1>2. \A k \in 0 .. Len(log) : IsNews(m, k)
    <2> TAKE k \in 0 .. Len(log)
    <2> DEFINE n == Len(log)
    <2>1. n \in Nat /\ k \in 0 .. n
      BY <1>1
    <2>2. m.type = "action" => m.serverSeq = n + 1
      OBVIOUS
    <2> HIDE DEF n
    <2> QED BY <2>1, <2>2, LastIsNews
  <1>3. IsOrdered(toClient')
    <2> DEFINE n == Len(log)
    <2>1. n \in Nat /\ toClient \in Seq(Messages(n)) /\ \A k \in 0 .. n : IsNews(m, k)
      BY <1>1, <1>2
    <2>2. IsOrdered(toClient)
      BY DEF NewsIsAhead
    <2> HIDE DEF n
    <2>3. IsOrdered(Append(toClient, m))
      BY <2>1, <2>2, OrderedAppend
    <2> QED BY <2>3
  <1>4. \A i \in DOMAIN toClient' : (i \in DOMAIN toClient /\ toClient'[i] = toClient[i])
                                    \/ toClient'[i] = m
    BY <1>1
  <1>5. \A i \in DOMAIN toClient' : IsNews(toClient'[i], serverSeq')
    BY <1>1, <1>2, <1>4 DEF NewsIsAhead
  <1>6. HasState => \A i \in DOMAIN toClient' :
            toClient'[i].type = "action" => entry.fromSeq < toClient'[i].serverSeq
    <2>1. m.type = "action" => entry.fromSeq < m.serverSeq
      BY <1>1
    <2> QED BY <1>4, <2>1 DEF NewsIsAhead
  <1> QED BY <1>3, <1>5, <1>6, NewsKept DEF NewsIsAhead, HasState

LEMMA PublishNews ==
    ASSUME Typed, Phases, NewsIsAhead, UNCHANGED <<serverSeq, entry>>,
           \/ UNCHANGED <<log, toClient, gap>>
           \/ \E envelope \in Envelopes : Publish(envelope)
    PROVE  NewsIsAhead'
  <1>1. CASE toClient' = toClient
    BY <1>1, QuietNews DEF HasState
  <1>2. CASE toClient' # toClient
    <2>1. PICK envelope \in Envelopes : Publish(envelope)
      BY <1>2
    <2>2. LogType
      BY TypedParts DEF HostTypes
    <2>3. LogGrows(envelope)
      BY <2>1 DEF Publish, LogGrows
    <2>4. Len(log') = Len(log) + 1
      BY <2>2, <2>3, LogGrowsFacts
    <2>5. toClient' = Append(toClient, [type |-> "action", serverSeq |-> Len(log) + 1])
      BY <1>2, <2>1, <2>4 DEF Publish
    <2> QED BY <2>5, LastNews
  <1> QED BY <1>1, <1>2

LEMMA HostNews ==
    ASSUME Typed, Phases, NewsIsAhead, ReadDispatch \/ ReadLate \/ Execute \/ ActOfOthers
    PROVE  NewsIsAhead'
  <1>1. UNCHANGED <<serverSeq, entry>>
    BY DEF ReadDispatch, ReadLate, Execute, ActOfOthers, client
  <1>2. CASE ReadDispatch
    <2>1. Head(toServer).clientSeq \in ClientSeqs
      BY <1>2, ReadClientIs, DispatchIs DEF ReadDispatch
    <2>2. Take(Head(toServer).clientSeq)
      BY <1>2 DEF ReadDispatch
    <2>3. UNCHANGED <<log, toClient, gap>> \/ \E envelope \in Envelopes : Publish(envelope)
      BY <2>1, <2>2, TakeIs
    <2> QED BY <1>1, <2>3, PublishNews
  <1>3. CASE ReadLate
    <2>1. PICK i \in DOMAIN late : Take(Head(late[i]))
      BY <1>3 DEF ReadLate
    <2>2. Head(late[i]) \in ClientSeqs
      BY <2>1, TypedParts DEF WireTypes
    <2>3. UNCHANGED <<log, toClient, gap>> \/ \E envelope \in Envelopes : Publish(envelope)
      BY <2>1, <2>2, TakeIs
    <2> QED BY <1>1, <2>3, PublishNews
  <1>4. CASE Execute
    <2>1. Head(queue) \in ClientSeqs
      BY <1>4, ExecuteTypes
    <2>2. PICK rejected \in BOOLEAN : Publish(OwnEnvelope(Head(queue), rejected))
      BY <1>4 DEF Execute
    <2>3. OwnEnvelope(Head(queue), rejected) \in Envelopes
      BY <2>1, OwnEnvelopeType
    <2> QED BY <1>1, <2>2, <2>3, PublishNews
  <1>5. CASE ActOfOthers
    <2>1. PICK channel \in {"root", "session"}, rejected \in BOOLEAN :
             Publish([channel |-> channel, clientSeq |-> Others, rejected |-> rejected])
      BY <1>5 DEF ActOfOthers
    <2>2. [channel |-> channel, clientSeq |-> Others, rejected |-> rejected] \in Envelopes
      BY BoundsAssumption DEF Envelopes, Others
    <2> QED BY <1>1, <2>1, <2>2, PublishNews
  <1> QED BY <1>2, <1>3, <1>4, <1>5

LEMMA SendAnswerNews ==
    ASSUME Typed, Phases, NewsIsAhead, SendAnswer
    PROVE  NewsIsAhead'
  <1>1. UNCHANGED <<serverSeq, entry>>
    BY DEF SendAnswer, client
  <1>2. PICK m \in answers : toClient' = Append(toClient, m) /\ m.type # "action"
    BY SendAnswerTypes DEF Results, Answers
  <1> QED BY <1>1, <1>2, LastNews

LEMMA UserNews ==
    ASSUME Typed, Phases, NewsIsAhead,
           \/ Acquire \/ Release \/ Act \/ Connect \/ TransportBreaks
           \/ ReadReconnect \/ RestoreEnds \/ ReadSubscribe \/ TakeSnapshot \/ SubscribeEnds
           \/ SubscribeFails \/ SubscribeIsCancelled \/ ReadUnsubscribe \/ UNCHANGED vars
    PROVE  NewsIsAhead'
  <1>1. entry \in Entries(Len(log)) /\ Len(log) \in Nat
    BY TypedParts, DomainOfLog DEF HostTypes, ClientTypes
  <1>2. CASE Acquire \/ Release
    <2>1. serverSeq' = serverSeq /\ toClient' = toClient
      BY <1>2 DEF Acquire, Release
    <2>2. entry' = NoEntry \/ entry' = NewEntry(asked')
      BY <1>2 DEF Acquire, Release
    <2>3. CASE entry' = NoEntry
      BY <2>1, <2>3, QuietNews DEF HasState, NoEntry
    <2>4. CASE entry' = NewEntry(asked')
      BY <2>1, <2>4, QuietNews DEF HasState, NewEntry, NoEntry
    <2> QED BY <2>2, <2>3, <2>4
  <1>3. CASE Act
    <2>1. serverSeq' = serverSeq /\ toClient' = toClient
      BY <1>3 DEF Act
    <2>2. entry' = [entry EXCEPT !.pending = Append(@, clientSeq')]
      BY <1>3 DEF Act
    <2>3. entry'.buffered = entry.buffered /\ entry'.status = entry.status
          /\ entry'.fromSeq = entry.fromSeq
      BY <1>1, <2>2 DEF Entries
    <2> QED BY <2>1, <2>3, QuietNews DEF HasState
  <1>4. CASE TransportBreaks
    <2>1. serverSeq' = serverSeq /\ toClient' = <<>>
          /\ (entry' = Fail(entry) \/ entry' = entry)
      BY <1>4 DEF TransportBreaks
    <2>2. entry'.buffered = entry.buffered /\ (entry'.status = entry.status \/ entry'.status = "error")
          /\ entry'.fromSeq = entry.fromSeq
      BY <1>1, <2>1, SettledFacts
    <2> QED BY <2>1, <2>2, QuietNews DEF HasState
  <1>5. CASE Connect \/ ReadReconnect \/ RestoreEnds \/ ReadSubscribe \/ TakeSnapshot
             \/ ReadUnsubscribe \/ UNCHANGED vars
    <2>1. UNCHANGED <<serverSeq, entry, toClient>>
      BY <1>5 DEF Connect, ReadReconnect, RestoreEnds, ReadSubscribe, TakeSnapshot, ReadUnsubscribe,
                  vars, client, wire
    <2> QED BY <2>1, QuietNews DEF HasState
  <1>6. CASE SubscribeEnds \/ SubscribeFails \/ SubscribeIsCancelled
    <2>1. UNCHANGED <<serverSeq, entry, toClient>>
      BY <1>6, SubscribeEndsTypes, SubscribeFailsTypes DEF client, wire
    <2> QED BY <2>1, QuietNews DEF HasState
  <1> QED BY <1>2, <1>3, <1>4, <1>5, <1>6

LEMMA NextNews ==
    ASSUME Typed, Phases, NewsIsAhead, [Next]_vars PROVE NewsIsAhead'
  BY ReadActionNews, ReadAnswerNews, ReadReplayNews, ReadSnapshotsNews, HostNews, SendAnswerNews,
     UserNews DEF Next, User, Client, Host

LEMMA InitNews == Init => NewsIsAhead
  BY DEF Init, NewsIsAhead, NoEntry, IsOrdered, HasState


-----------------------------------------------------------------------------
(* Requests and unsubscribes *)

(* Of the requests and unsubscribes in new, all were in old in this order. *)
Remains(old, new) ==
    /\ \A i \in DOMAIN new : new[i].type \in {"subscribe", "unsubscribe"} =>
          \E k \in DOMAIN old : old[k] = new[i]
    /\ \A i, j \in DOMAIN new :
          i < j /\ new[i].type = "subscribe" /\ new[j].type = "unsubscribe" =>
             \E k, l \in DOMAIN old : k < l /\ old[k] = new[i] /\ old[l] = new[j]

LEMMA RemainsFacts ==
    ASSUME NEW T, NEW s \in Seq(T)
    PROVE  /\ Remains(s, s) /\ Remains(s, <<>>)
           /\ s # <<>> => Remains(s, Tail(s))
           /\ \A m \in T : m.type = "dispatchAction" => Remains(s, Append(s, m))
  <1>1. Remains(s, s) /\ Remains(s, <<>>)
    BY DEF Remains
  <1>2. ASSUME s # <<>> PROVE Remains(s, Tail(s))
    <2> DEFINE t == Tail(s)
    <2>1. /\ DOMAIN s = 1 .. Len(s) /\ Len(s) \in Nat \ {0} /\ DOMAIN t = 1 .. Len(s) - 1
          /\ \A i \in 1 .. Len(s) - 1 : t[i] = s[i + 1] /\ i + 1 \in 1 .. Len(s)
      BY <1>2
    <2> HIDE DEF t
    <2>2. \A i \in DOMAIN t : i + 1 \in DOMAIN s /\ s[i + 1] = t[i] /\ i \in Nat
      BY <2>1
    <2>3. \A i, j \in DOMAIN t : i < j => i + 1 < j + 1
      BY <2>2
    <2>4. Remains(s, t)
      BY <2>2, <2>3 DEF Remains
    <2> QED BY <2>4 DEF t
  <1>3. ASSUME NEW m \in T, m.type = "dispatchAction" PROVE Remains(s, Append(s, m))
    <2> DEFINE t == Append(s, m)
    <2>1. \A i \in DOMAIN t : (i \in DOMAIN s /\ t[i] = s[i]) \/ t[i] = m
      OBVIOUS
    <2> HIDE DEF t
    <2>2. Remains(s, t)
      BY <1>3, <2>1 DEF Remains
    <2> QED BY <2>2 DEF t
  <1> QED BY <1>1, <1>2, <1>3

RequestTypes ==
    /\ asked \in Nat /\ entry.request \in 0 .. MaxRequests
    /\ toServer \in Seq(ClientMessages) /\ toClient \in Seq(Messages(Len(log)))
    /\ gated \in Seq(ClientMessages) /\ Len(log) \in Nat
    /\ \A r \in requests : r.id \in 1 .. MaxRequests
    /\ \A i \in DOMAIN toServer :
          toServer[i] \in ClientMessages
          /\ (toServer[i].type = "subscribe" => toServer[i].id \in 1 .. MaxRequests)
    /\ \A msg \in Coming :
          msg \in Messages(Len(log)) /\ (msg.type \in Answers => msg.id \in 1 .. MaxRequests)

LEMMA RequestsTyped ==
    ASSUME Typed PROVE RequestTypes
  <1>1. ClientTypes /\ WireTypes /\ HostTypes /\ LogType
    BY TypedParts DEF HostTypes
  <1>2. entry.request \in 0 .. MaxRequests /\ asked \in Nat /\ Len(log) \in Nat
    BY <1>1, BoundsAssumption, DomainOfLog DEF ClientTypes, Entries
  <1>3. \A i \in DOMAIN toServer :
          toServer[i] \in ClientMessages
          /\ (toServer[i].type = "subscribe" => toServer[i].id \in 1 .. MaxRequests)
    BY <1>1, SubscribeIs DEF WireTypes
  <1>4. \A msg \in Coming :
          msg \in Messages(Len(log)) /\ (msg.type \in Answers => msg.id \in 1 .. MaxRequests)
    <2>1. \A msg \in Coming : msg \in Messages(Len(log))
      BY <1>1 DEF WireTypes, HostTypes, Coming
    <2> QED BY <1>2, <2>1, MessageIs DEF Answers
  <1>5. \A r \in requests : r.id \in 1 .. MaxRequests
    BY <1>1 DEF HostTypes, RequestsTo
  <1> QED BY <1>1, <1>2, <1>3, <1>4, <1>5 DEF RequestTypes, ClientTypes, WireTypes

(* What is coming when a message is read, sent or answered. *)
LEMMA ComingRest ==
    ASSUME Typed, ReadFromServer, answers' \subseteq answers
    PROVE  Head(toClient) \in Coming /\ \A msg \in Coming' : msg \in Coming
  <1>1. toClient \in Seq(Messages(Len(log))) /\ toClient # <<>> /\ toClient' = Tail(toClient)
    BY ReadIs
  <1>2. 1 \in DOMAIN toClient /\ Head(toClient) = toClient[1]
    BY <1>1
  <1>3. \A i \in DOMAIN toClient' : i + 1 \in DOMAIN toClient /\ toClient'[i] = toClient[i + 1]
    BY <1>1
  <1> QED BY <1>2, <1>3 DEF Coming

LEMMA ComingMore ==
    ASSUME Typed, NEW m, toClient' = Append(toClient, m)
    PROVE  /\ answers' = answers => Coming' = Coming \cup {m}
           /\ m \in answers /\ answers' = answers \ {m} => Coming' = Coming
  <1>1. toClient \in Seq(Messages(Len(log)))
    BY TypedParts DEF WireTypes
  <1> DEFINE sent == {toClient[i] : i \in DOMAIN toClient}
             next == {toClient'[i] : i \in DOMAIN toClient'}
  <1>2. \A i \in DOMAIN toClient' : (i \in DOMAIN toClient /\ toClient'[i] = toClient[i])
                                    \/ toClient'[i] = m
    BY <1>1
  <1>3. \A i \in DOMAIN toClient : i \in DOMAIN toClient' /\ toClient'[i] = toClient[i]
    BY <1>1
  <1>4. Len(toClient) + 1 \in DOMAIN toClient' /\ toClient'[Len(toClient) + 1] = m
    BY <1>1
  <1>5. next = sent \cup {m}
    BY <1>2, <1>3, <1>4
  <1>6. Coming = answers \cup sent /\ Coming' = answers' \cup next
    BY DEF Coming
  <1> HIDE DEF sent, next
  <1> QED BY <1>5, <1>6

(* A step that makes no request. *)
LEMMA RequestsMove ==
    ASSUME Typed, RequestInv, asked' = asked,
           entry'.request = entry.request \/ entry'.request = 0,
           gated' = gated \/ gated' = <<>>,
           Remains(toServer, toServer'),
           \A r \in requests' : \E q \in requests : q.id = r.id,
           \A msg \in Coming' : msg.type \in Answers =>
               msg \in Coming \/ \E r \in requests : r.id = msg.id
    PROVE  RequestInv'
  <1>1. RequestTypes
    BY RequestsTyped
  <1>2. IdsArePast /\ UnsubscribesAreOlder
    BY DEF RequestInv
  <1>3. entry'.request <= asked'
    BY <1>1, <1>2 DEF IdsArePast, RequestTypes
  <1>4. \A i \in DOMAIN gated' : gated'[i].id <= asked'
    BY <1>2 DEF IdsArePast
  <1>5. \A i \in DOMAIN toServer' : toServer'[i].type = "subscribe" =>
            toServer'[i].id <= asked' /\ toServer'[i].id # 0
    BY <1>1, <1>2 DEF IdsArePast, Remains, RequestTypes
  <1>6. \A r \in requests' : r.id <= asked' /\ r.id # 0
    BY <1>1, <1>2 DEF IdsArePast, RequestTypes
  <1>7. \A msg \in Coming' : msg.type \in Answers => msg.id <= asked' /\ msg.id # 0
    BY <1>1, <1>2 DEF IdsArePast, RequestTypes
  <1>8. IdsArePast'
    BY <1>3, <1>4, <1>5, <1>6, <1>7 DEF IdsArePast
  <1>9. CASE entry'.request = 0
    BY <1>5, <1>6, <1>7, <1>8, <1>9
       DEF RequestInv, UnsubscribesAreOlder, IsRequested, IsReplied
  <1>10. CASE entry'.request = entry.request
    <2>1. ASSUME NEW i \in DOMAIN toServer', NEW j \in DOMAIN toServer', i < j,
                 toServer'[i].type = "subscribe", toServer'[i].id = entry.request,
                 toServer'[j].type = "unsubscribe"
          PROVE  FALSE
      <3>1. PICK k \in DOMAIN toServer, l \in DOMAIN toServer :
               k < l /\ toServer[k] = toServer'[i] /\ toServer[l] = toServer'[j]
        BY <2>1 DEF Remains
      <3> QED BY <1>2, <2>1, <3>1 DEF UnsubscribesAreOlder
    <2>2. IsRequested' \/ IsReplied' => IsRequested \/ IsReplied
      BY <1>10 DEF IsRequested, IsReplied
    <2>3. \A j \in DOMAIN toServer' : toServer'[j].type = "unsubscribe" =>
              \E k \in DOMAIN toServer : toServer[k].type = "unsubscribe"
      BY DEF Remains
    <2>4. IsRequested' \/ IsReplied' =>
              \A j \in DOMAIN toServer' : toServer'[j].type # "unsubscribe"
      BY <1>2, <2>2, <2>3 DEF UnsubscribesAreOlder
    <2> QED BY <1>8, <1>10, <2>1, <2>4 DEF RequestInv, UnsubscribesAreOlder
  <1> QED BY <1>9, <1>10


LEMMA AcquireRequests ==
    ASSUME Typed, Phases, RequestInv, Acquire PROVE RequestInv'
  <1>1. RequestTypes
    BY RequestsTyped
  <1>2. asked' = asked + 1 /\ asked' \in 1 .. MaxRequests /\ asked \in Nat
    BY AcquireTypes
  <1>3. /\ entry' = NewEntry(asked') /\ UNCHANGED <<toClient, answers, requests>>
        /\ \/ UNCHANGED <<gated, toServer>>
           \/ UNCHANGED toServer /\ gated' = Append(gated, Subscribe(asked'))
           \/ /\ UNCHANGED gated
              /\ toServer' = toServer \o (IF IsHeld THEN <<Unsubscribe>> ELSE <<>>)
                             \o <<Subscribe(asked')>>
    BY DEF Acquire, host
  <1>4. entry'.request = asked'
    BY <1>3 DEF NewEntry, NoEntry
  <1> DEFINE m == Subscribe(asked')
             a == asked
  <1>5. m \in ClientMessages /\ m.type = "subscribe" /\ m.id = asked'
    BY <1>2, SubscribeIs
  <1> HIDE DEF m
  <1>6. \A i \in DOMAIN gated' : (i \in DOMAIN gated /\ gated'[i] = gated[i]) \/ gated'[i] = m
    <2>1. gated' = gated \/ gated' = Append(gated, m)
      BY <1>3 DEF m
    <2>2. gated \in Seq(ClientMessages)
      BY <1>1 DEF RequestTypes
    <2> QED BY <1>5, <2>1, <2>2
  <1>7. \A i, j \in DOMAIN toServer' : i < j =>
            \/ i \in DOMAIN toServer /\ toServer'[i] = toServer[i]
            \/ toServer'[i].type = "unsubscribe"
    <2>1. CASE toServer' = toServer
      BY <2>1
    <2>2. CASE toServer' # toServer
      <3> DEFINE evicted == IF IsHeld THEN <<Unsubscribe>> ELSE <<>>
                 old == toServer \o evicted
      <3>1. evicted \in Seq(ClientMessages) /\ \A i \in DOMAIN evicted : evicted[i].type = "unsubscribe"
        BY SubscribeIs
      <3>2. toServer \in Seq(ClientMessages)
        BY <1>1 DEF RequestTypes
      <3>3. toServer' = old \o <<m>>
        BY <1>3, <2>2 DEF m
      <3> HIDE DEF evicted
      <3>4. /\ old \in Seq(ClientMessages) /\ DOMAIN old = 1 .. Len(toServer) + Len(evicted)
            /\ Len(toServer) \in Nat /\ Len(evicted) \in Nat
            /\ \A i \in 1 .. Len(toServer) : old[i] = toServer[i]
            /\ \A i \in 1 .. Len(evicted) : old[Len(toServer) + i] = evicted[i]
        BY <3>1, <3>2, ConcatFacts
      <3> HIDE DEF old
      <3>5. /\ DOMAIN toServer' = 1 .. Len(old) + 1 /\ Len(old) \in Nat
            /\ \A i \in 1 .. Len(old) : toServer'[i] = old[i]
            /\ DOMAIN old = 1 .. Len(old)
            /\ DOMAIN toServer = 1 .. Len(toServer) /\ DOMAIN evicted = 1 .. Len(evicted)
        BY <1>5, <3>1, <3>2, <3>3, <3>4
      <3> SUFFICES ASSUME NEW i \in DOMAIN toServer', NEW j \in DOMAIN toServer', i < j
                   PROVE  \/ i \in DOMAIN toServer /\ toServer'[i] = toServer[i]
                          \/ toServer'[i].type = "unsubscribe"
        OBVIOUS
      <3>6. i \in 1 .. Len(old) /\ toServer'[i] = old[i]
        BY <3>5
      <3>7. CASE i \in 1 .. Len(toServer)
        BY <3>4, <3>5, <3>6, <3>7
      <3>8. CASE i \notin 1 .. Len(toServer)
        <4>1. i - Len(toServer) \in 1 .. Len(evicted) /\ Len(toServer) + (i - Len(toServer)) = i
          BY <3>4, <3>5, <3>6, <3>8
        <4>2. old[i] = evicted[i - Len(toServer)]
          BY <3>4, <4>1
        <4> QED BY <3>1, <3>5, <3>6, <4>1, <4>2
      <3> QED BY <3>7, <3>8
    <2> QED BY <2>1, <2>2
  <1>8. \A i \in DOMAIN toServer' : toServer'[i].type = "subscribe" =>
            (i \in DOMAIN toServer /\ toServer'[i] = toServer[i]) \/ toServer'[i] = m
    <2>1. CASE toServer' = toServer
      BY <2>1
    <2>2. CASE toServer' # toServer
      <3> DEFINE old == toServer \o (IF IsHeld THEN <<Unsubscribe>> ELSE <<>>)
      <3>1. toServer' = old \o <<m>> /\ old \in Seq(ClientMessages)
        BY <1>1, <1>3, <2>2, SubscribeIs DEF m, RequestTypes
      <3> HIDE DEF old
      <3>2. DOMAIN toServer' = 1 .. Len(old) + 1 /\ toServer'[Len(old) + 1] = m /\ Len(old) \in Nat
        BY <1>5, <3>1
      <3> SUFFICES ASSUME NEW i \in DOMAIN toServer', toServer'[i].type = "subscribe"
                   PROVE  (i \in DOMAIN toServer /\ toServer'[i] = toServer[i]) \/ toServer'[i] = m
        OBVIOUS
      <3>3. CASE i = Len(old) + 1
        BY <3>2, <3>3
      <3>4. CASE i # Len(old) + 1
        <4>1. i < Len(old) + 1 /\ Len(old) + 1 \in DOMAIN toServer'
          BY <3>2, <3>4
        <4> QED BY <1>7, <4>1
      <3> QED BY <3>3, <3>4
    <2> QED BY <2>1, <2>2
  <1>12. Coming' = Coming
    BY <1>3 DEF Coming
  <1>9. IdsArePast'
    <2>1. \A i \in DOMAIN gated' : gated'[i].id <= asked'
      <3>1. \A i \in DOMAIN gated : gated[i] \in ClientMessages
        BY <1>1 DEF RequestTypes
      <3>2. \A i \in DOMAIN gated : gated[i].id \in Nat
        BY <3>1, SubscribeIs DEF Typed
      <3> QED BY <1>1, <1>2, <1>5, <1>6, <3>2 DEF RequestInv, IdsArePast, RequestTypes
    <2>2. \A i \in DOMAIN toServer' : toServer'[i].type = "subscribe" => toServer'[i].id <= asked'
      BY <1>1, <1>2, <1>5, <1>8 DEF RequestInv, IdsArePast, RequestTypes
    <2>3. \A r \in requests' : r.id <= asked'
      BY <1>1, <1>2, <1>3 DEF RequestInv, IdsArePast, RequestTypes
    <2>4. \A msg \in Coming' : msg.type \in Answers => msg.id <= asked'
      BY <1>1, <1>2, <1>3, <1>12 DEF RequestInv, IdsArePast, RequestTypes
    <2> QED BY <1>2, <1>4, <2>1, <2>2, <2>3, <2>4 DEF IdsArePast
  <1>10. ~IsRequested' /\ ~IsReplied'
    BY <1>1, <1>2, <1>3, <1>4, <1>12
       DEF IsRequested, IsReplied, RequestInv, IdsArePast, RequestTypes
  <1>11. \A i, j \in DOMAIN toServer' : i < j => ~(toServer'[i].type = "subscribe" /\ toServer'[i].id = asked')
    BY <1>1, <1>2, <1>7 DEF RequestInv, IdsArePast, RequestTypes
  <1> QED BY <1>4, <1>9, <1>10, <1>11 DEF RequestInv, UnsubscribesAreOlder


LEMMA ReleaseRequests ==
    ASSUME Typed, Phases, RequestInv, Release PROVE RequestInv'
  <1>1. RequestTypes
    BY RequestsTyped
  <1>2. /\ entry' = NoEntry /\ UNCHANGED <<toClient, answers, requests, asked, gated>>
        /\ toServer' = toServer \/ toServer' = toServer \o <<Unsubscribe>>
    BY DEF Release, SendNotifications, host
  <1>3. entry'.request = 0
    BY <1>2 DEF NoEntry, NoRequest
  <1>4. \A i \in DOMAIN toServer' : toServer'[i].type = "subscribe" =>
            i \in DOMAIN toServer /\ toServer'[i] = toServer[i]
    <2>1. toServer \in Seq(ClientMessages) /\ Unsubscribe.type = "unsubscribe"
      BY <1>1, SubscribeIs DEF RequestTypes
    <2> DEFINE m == Unsubscribe
    <2>2. m.type = "unsubscribe" /\ (toServer' = toServer \/ toServer' = toServer \o <<m>>)
      BY <1>2, <2>1
    <2> HIDE DEF m
    <2> QED BY <2>1, <2>2
  <1>5. \A i \in DOMAIN toServer' : toServer'[i].type = "subscribe" =>
            toServer'[i].id <= asked' /\ toServer'[i].id # 0
    BY <1>1, <1>2, <1>4 DEF RequestInv, IdsArePast, RequestTypes
  <1>8. Coming' = Coming
    BY <1>2 DEF Coming
  <1>6. IdsArePast'
    BY <1>1, <1>2, <1>3, <1>5, <1>8 DEF RequestInv, IdsArePast, RequestTypes
  <1>7. ~IsRequested' /\ ~IsReplied'
    BY <1>1, <1>2, <1>3, <1>8 DEF IsRequested, IsReplied, RequestTypes
  <1> QED BY <1>3, <1>5, <1>6, <1>7 DEF RequestInv, UnsubscribesAreOlder

LEMMA ActRequests ==
    ASSUME Typed, Phases, RequestInv, Act PROVE RequestInv'
  <1>1. RequestTypes
    BY RequestsTyped
  <1>2. /\ entry' = [entry EXCEPT !.pending = Append(@, clientSeq')]
        /\ UNCHANGED <<toClient, answers, requests, asked, gated>>
        /\ toServer' = toServer \/ toServer' = toServer \o <<Dispatch(clientSeq')>>
    BY DEF Act, SendNotifications, host
  <1>3. entry \in Entries(Len(log))
    BY TypedParts DEF ClientTypes
  <1>4. entry'.request = entry.request
    BY <1>2, <1>3 DEF Entries
  <1>5. Remains(toServer, toServer')
    <2> DEFINE m == Dispatch(clientSeq')
    <2>1. m \in ClientMessages /\ m.type = "dispatchAction"
      <3>1. clientSeq' \in ClientSeqs
        BY ActTypes
      <3> QED BY <3>1, DispatchIs DEF IsDispatch
    <2>2. toServer' = toServer \/ toServer' = toServer \o <<m>>
      BY <1>2
    <2> HIDE DEF m
    <2>3. toServer \in Seq(ClientMessages)
      BY <1>1 DEF RequestTypes
    <2>4. toServer' = toServer \/ toServer' = Append(toServer, m)
      BY <2>1, <2>2, <2>3
    <2> QED BY <2>1, <2>3, <2>4, RemainsFacts
  <1>6. Coming' = Coming
    BY <1>2 DEF Coming
  <1> QED BY <1>2, <1>4, <1>5, <1>6, RequestsMove

(* A read message leaves the entry's request, or ends it. *)
LEMMA ReadRequests ==
    ASSUME Typed, Phases, RequestInv, ReadAction \/ ReadAnswer PROVE RequestInv'
  <1>1. RequestTypes
    BY RequestsTyped
  <1>2. LogType /\ entry \in Entries(Len(log))
    BY TypedParts DEF HostTypes, ClientTypes
  <1>3. ReadFromServer /\ UNCHANGED <<asked, gated, toServer, requests, answers>>
    BY DEF ReadAction, ReadAnswer, host
  <1>4. entry'.request = entry.request \/ entry'.request = 0
    <2>1. CASE ReadAction
      BY <2>1, ReadActionTypes
    <2>2. CASE ReadAnswer
      <3> DEFINE from == Head(toClient).fromSeq
                 old == Settled(entry)
      <3>1. \/ entry' = entry \/ entry' = Fail(entry)
            \/ entry' = Seat(old, from) /\ from \in 0 .. Len(log)
        BY <2>2, ReadAnswerTypes DEF Answers
      <3>2. old \in Entries(Len(log)) /\ old.request = 0 /\ Fail(entry).request = 0
        BY <1>2, SettledFacts, DomainOfLog
      <3> HIDE DEF from, old
      <3>3. CASE entry' = Seat(old, from) /\ from \in 0 .. Len(log)
        BY <1>2, <3>2, <3>3, SeatFacts
      <3> QED BY <3>1, <3>2, <3>3
    <2> QED BY <2>1, <2>2
  <1>5. \A msg \in Coming' : msg \in Coming
    BY <1>3, ComingRest
  <1>6. Remains(toServer, toServer')
    BY <1>1, <1>3, RemainsFacts DEF RequestTypes
  <1> QED BY <1>3, <1>4, <1>5, <1>6, RequestsMove

(* What is drained after a reconnection ends with the requests. *)
LEMMA DrainParts ==
    ASSUME NEW pending \in Seq(ClientSeqs), Typed
    PROVE  LET all == Drain(pending) IN
           /\ \A i \in DOMAIN all : all[i].type = "subscribe" => \E k \in DOMAIN gated : all[i] = gated[k]
           /\ \A i, j \in DOMAIN all : i < j /\ all[i].type = "subscribe" => all[j].type = "subscribe"
  <1>1. outbox \in Seq(ClientMessages) /\ gated \in Seq(ClientMessages)
    BY DEF Typed, TypeOK
  <1> DEFINE a == DispatchAll(Unqueued(pending))
             b == a \o outbox
             all == b \o gated
  <1>2. a \in Seq(ClientMessages) /\ \A i \in DOMAIN a : IsDispatch(a[i])
    <2>1. Unqueued(pending) \in Seq(ClientSeqs)
      BY WithoutFacts DEF Unqueued
    <2> QED BY <2>1, DispatchAllFacts
  <1>3. Drain(pending) = all
    BY DEF Drain
  <1> HIDE DEF a
  <1>4. /\ b \in Seq(ClientMessages) /\ DOMAIN b = 1 .. Len(a) + Len(outbox)
        /\ Len(a) \in Nat /\ Len(outbox) \in Nat
        /\ \A i \in 1 .. Len(a) : b[i] = a[i]
        /\ \A i \in 1 .. Len(outbox) : b[Len(a) + i] = outbox[i]
    BY <1>1, <1>2, ConcatFacts
  <1> HIDE DEF b
  <1>5. ASSUME NEW i \in DOMAIN b PROVE b[i].type # "subscribe"
    <2>1. CASE i \in 1 .. Len(a)
      <3>1. a[i].type = "dispatchAction"
        BY <1>2, <2>1 DEF IsDispatch
      <3> QED BY <1>4, <2>1, <3>1
    <2>2. CASE i \notin 1 .. Len(a)
      <3>1. i - Len(a) \in 1 .. Len(outbox) /\ Len(a) + (i - Len(a)) = i
        BY <1>4, <2>2
      <3>2. b[i] = outbox[i - Len(a)] /\ i - Len(a) \in DOMAIN outbox
        BY <1>1, <1>4, <3>1
      <3> QED BY <3>2 DEF Typed
    <2> QED BY <2>1, <2>2
  <1>6. /\ DOMAIN all = 1 .. Len(b) + Len(gated) /\ Len(b) \in Nat /\ Len(gated) \in Nat
        /\ \A i \in 1 .. Len(b) : all[i] = b[i]
        /\ \A i \in 1 .. Len(gated) : all[Len(b) + i] = gated[i]
        /\ DOMAIN b = 1 .. Len(b) /\ DOMAIN gated = 1 .. Len(gated)
    BY <1>1, <1>4, ConcatFacts
  <1> HIDE DEF all
  <1>7. ASSUME NEW i \in DOMAIN all
        PROVE  \/ i \in 1 .. Len(b) /\ all[i].type # "subscribe"
               \/ /\ i > Len(b) /\ i - Len(b) \in DOMAIN gated
                  /\ all[i] = gated[i - Len(b)]
    <2>1. CASE i \in 1 .. Len(b)
      BY <1>5, <1>6, <2>1
    <2>2. CASE i \notin 1 .. Len(b)
      <3>1. i - Len(b) \in 1 .. Len(gated) /\ Len(b) + (i - Len(b)) = i /\ i > Len(b)
        BY <1>6, <2>2
      <3> QED BY <1>6, <3>1
    <2> QED BY <2>1, <2>2
  <1>8. \A k \in DOMAIN gated : gated[k].type = "subscribe"
    BY DEF Typed
  <1>9. ASSUME NEW i \in DOMAIN all, NEW j \in DOMAIN all, i < j, all[i].type = "subscribe"
        PROVE  all[j].type = "subscribe"
    <2>1. i > Len(b)
      BY <1>7, <1>9
    <2>2. ~(j \in 1 .. Len(b))
      BY <1>6, <1>9, <2>1
    <2> QED BY <1>7, <1>8, <2>2
  <1>10. \A i \in DOMAIN all : all[i].type = "subscribe" => \E k \in DOMAIN gated : all[i] = gated[k]
    BY <1>7
  <1> QED BY <1>3, <1>9, <1>10


LEMMA ResumeRequests ==
    ASSUME Typed, Phases, RequestInv, ReadReplay \/ ReadSnapshots PROVE RequestInv'
  <1>1. RequestTypes
    BY RequestsTyped
  <1>2. LogType /\ entry \in Entries(Len(log))
    BY TypedParts DEF HostTypes, ClientTypes
  <1>3. /\ IsAnswered /\ conn = "Asked" /\ toServer' = Drain(entry'.pending)
        /\ requests' = {} /\ answers' = {}
        /\ (\A i \in DOMAIN toClient' : toClient'[i].type = "action") /\ Typed'
    BY ReadReplayTypes, ReadSnapshotsTypes
  <1>4. asked' = asked /\ gated' = <<>>
    BY DEF ReadReplay, ReadSnapshots, Resume, host
  <1>5. \A msg \in Coming' : msg.type = "action"
    BY <1>3 DEF Coming
  <1>6. entry'.request = entry.request \/ entry'.request = 0
    <2>1. CASE ReadReplay
      <3> DEFINE seqs == Head(toClient).serverSeqs
                 kept == DropReplayed(entry, seqs)
      <3>1. /\ seqs \in Seq(1 .. Len(log)) /\ kept \in Entries(Len(log))
            /\ kept = [entry EXCEPT !.pending = kept.pending]
            /\ entry' = Receive(kept, seqs)
        BY <2>1, ReadReplayTypes
      <3> HIDE DEF seqs, kept
      <3>2. kept.request = entry.request
        BY <1>2, <3>1 DEF Entries
      <3> QED BY <1>2, <3>1, <3>2, ReceiveFacts
    <2>2. CASE ReadSnapshots
      <3> DEFINE from == Head(toClient).fromSeq
                 old == [Settled(entry) EXCEPT !.pending = <<>>]
                 seated == Head(toClient).subscribed /\ IsHeld
      <3>1. /\ ~seated => entry' = entry
            /\ seated => old \in Entries(Len(log)) /\ entry' = Seat(old, from) /\ old.request = 0
            /\ from \in 0 .. Len(log)
        BY <2>2, ReadSnapshotsTypes
      <3> HIDE DEF from, old, seated
      <3> QED BY <1>2, <3>1, SeatFacts
    <2> QED BY <2>1, <2>2
  <1>7. entry'.pending \in Seq(ClientSeqs)
    <2>1. ClientTypes'
      BY <1>3, TypedPartsNext
    <2> QED BY <2>1 DEF ClientTypes, Entries
  <1> DEFINE pending == entry'.pending
  <1> HIDE DEF pending
  <1>8. /\ \A i \in DOMAIN Drain(pending) : Drain(pending)[i].type = "subscribe" =>
                \E k \in DOMAIN gated : Drain(pending)[i] = gated[k]
        /\ \A i, j \in DOMAIN Drain(pending) :
              i < j /\ Drain(pending)[i].type = "subscribe" => Drain(pending)[j].type = "subscribe"
    BY <1>7, DrainParts DEF pending
  <1>9. /\ \A i \in DOMAIN toServer' : toServer'[i].type = "subscribe" => toServer'[i].id <= asked'
        /\ \A i, j \in DOMAIN toServer' :
              i < j /\ toServer'[i].type = "subscribe" => toServer'[j].type # "unsubscribe"
    BY <1>3, <1>4, <1>8 DEF pending, RequestInv, IdsArePast
  <1>10. ~IsRequested' /\ ~IsReplied'
    BY <1>3, <1>4, <1>5 DEF IsRequested, IsReplied, Answers
  <1>11. entry'.request <= asked'
    BY <1>1, <1>4, <1>6 DEF RequestInv, IdsArePast, RequestTypes
  <1>12. IdsArePast'
    BY <1>3, <1>4, <1>5, <1>9, <1>11 DEF IdsArePast, Answers
  <1> QED BY <1>9, <1>10, <1>12 DEF RequestInv, UnsubscribesAreOlder

LEMMA ConnectRequests ==
    ASSUME Typed, Phases, RequestInv, Connect PROVE RequestInv'
  <1>1. RequestTypes
    BY RequestsTyped
  <1>2. /\ toServer' = <<Reconnect>> /\ UNCHANGED <<entry, asked, gated, requests, toClient, answers>>
    BY DEF Connect, host
  <1>3. Remains(toServer, toServer')
    <2> DEFINE m == Reconnect
    <2>1. m.type = "reconnect"
      BY DEF Reconnect
    <2> HIDE DEF m
    <2>2. \A i \in DOMAIN toServer' : toServer'[i] = m
      BY <1>2 DEF m
    <2> QED BY <2>1, <2>2 DEF Remains
  <1>4. Coming' = Coming
    BY <1>2 DEF Coming
  <1> QED BY <1>2, <1>3, <1>4, RequestsMove

(* The answer of a reconnection. *)
LEMMA ResultIsReady ==
    ASSUME RestoreEnds
    PROVE  \E m : /\ answers' = answers \cup {m} /\ m.type \in Results
                  /\ m.type = "snapshots" => m.fromSeq = Len(log) /\ m.subscribed = IsSubscribed
                  /\ m.type = "replay" /\ IsSubscribed =>
                        /\ m.serverSeqs = Replayed
                        /\ gap' = (gap \/ restoring.lastSeen + 1 < OldestBuffered)
  <1> DEFINE replay == [type |-> "replay",
                        serverSeqs |-> IF IsSubscribed THEN Replayed
                                       ELSE Only(Replayed, {k \in DOMAIN log : ~IsOfSession(k)})]
             snapshots == [type |-> "snapshots", fromSeq |-> Len(log), subscribed |-> IsSubscribed]
  <1>1. CASE restoring.canReplay
    <2>1. answers' = answers \cup {replay} /\ gap' = (gap \/ restoring.lastSeen + 1 < OldestBuffered)
      BY <1>1 DEF RestoreEnds, Answer
    <2>2. replay.type = "replay" /\ (IsSubscribed => replay.serverSeqs = Replayed)
      OBVIOUS
    <2> HIDE DEF replay
    <2> QED BY <2>1, <2>2 DEF Results
  <1>2. CASE ~restoring.canReplay
    <2>1. answers' = answers \cup {snapshots}
      BY <1>2 DEF RestoreEnds, Answer
    <2>2. /\ snapshots.type = "snapshots" /\ snapshots.fromSeq = Len(log)
          /\ snapshots.subscribed = IsSubscribed
      OBVIOUS
    <2> HIDE DEF snapshots
    <2> QED BY <2>1, <2>2 DEF Results
  <1> QED BY <1>1, <1>2

(* What the host reads or carries out, but for a request. *)
LEMMA HostRequests ==
    ASSUME Typed, Phases, RequestInv,
           \/ ReadDispatch \/ ReadLate \/ Execute \/ ActOfOthers
           \/ ReadReconnect \/ RestoreEnds \/ SendAnswer \/ TakeSnapshot
           \/ ReadUnsubscribe \/ UNCHANGED vars
    PROVE  RequestInv'
  <1>1. RequestTypes
    BY RequestsTyped
  <1>2. UNCHANGED <<entry, asked, gated>>
    BY DEF ReadDispatch, ReadLate, Execute, ActOfOthers, ReadReconnect, RestoreEnds,
           SendAnswer, TakeSnapshot, ReadUnsubscribe, vars, client
  <1>3. Remains(toServer, toServer')
    <2>1. toServer' = toServer \/ (toServer # <<>> /\ toServer' = Tail(toServer))
      BY DEF ReadDispatch, ReadLate, Execute, ActOfOthers, ReadReconnect, RestoreEnds,
             SendAnswer, TakeSnapshot, ReadUnsubscribe, vars, wire, ReadFromClient
    <2> QED BY <1>1, <2>1, RemainsFacts DEF RequestTypes
  <1>4. \A r \in requests' : \E q \in requests : q.id = r.id
    <2>1. CASE TakeSnapshot
      <3>1. PICK r \in requests : requests' = (requests \ {r}) \cup {[r EXCEPT !.fromSeq = Len(log)]}
        BY <2>1 DEF TakeSnapshot
      <3>2. [r EXCEPT !.fromSeq = Len(log)].id = r.id
        BY TypedParts DEF HostTypes, RequestsTo
      <3> QED BY <3>1, <3>2
    <2>2. CASE ~TakeSnapshot
      <3>1. requests' = requests
        BY <2>2 DEF ReadDispatch, ReadLate, Execute, ActOfOthers, ReadReconnect, RestoreEnds,
                    SendAnswer, ReadUnsubscribe, vars, host
      <3> QED BY <3>1
    <2> QED BY <2>1, <2>2
  <1>5. \A msg \in Coming' : msg.type \in Answers => msg \in Coming
    <2>1. CASE ReadReconnect \/ TakeSnapshot \/ ReadUnsubscribe \/ UNCHANGED vars
      <3>1. toClient' = toClient /\ answers' = answers
        BY <2>1 DEF ReadReconnect, TakeSnapshot, ReadUnsubscribe, vars, wire, host
      <3> QED BY <3>1 DEF Coming
    <2>2. CASE RestoreEnds
      <3>1. toClient' = toClient
        BY <2>2 DEF RestoreEnds, wire
      <3>2. PICK m : answers' = answers \cup {m} /\ m.type \in Results
        BY <2>2, ResultIsReady
      <3>3. m.type \notin Answers
        BY <3>2 DEF Results, Answers
      <3> QED BY <3>1, <3>2, <3>3 DEF Coming
    <2>3. CASE SendAnswer
      <3>1. PICK m \in answers : answers' = answers \ {m} /\ toClient' = Append(toClient, m)
        BY <2>3 DEF SendAnswer
      <3> QED BY <3>1, ComingMore
    <2>4. CASE ReadDispatch \/ ReadLate \/ Execute \/ ActOfOthers
      <3>1. (toClient' = toClient \/ \E envelope : Publish(envelope)) /\ answers' = answers
        BY <2>4 DEF ReadDispatch, ReadLate, Execute, ActOfOthers, Take
      <3>2. CASE toClient' = toClient
        BY <3>1, <3>2 DEF Coming
      <3>3. CASE toClient' # toClient
        <4>1. toClient' = Append(toClient, Action(Len(log')))
          BY <3>1, <3>3 DEF Publish, Action
        <4>2. Action(Len(log')).type \notin Answers
          BY DEF Action, Answers
        <4> QED BY <3>1, <4>1, <4>2, ComingMore
      <3> QED BY <3>2, <3>3
    <2> QED BY <2>1, <2>2, <2>3, <2>4
  <1> QED BY <1>2, <1>3, <1>4, <1>5, RequestsMove


LEMMA ReadSubscribeRequests ==
    ASSUME Typed, Phases, RequestInv, ReadSubscribe PROVE RequestInv'
  <1>1. RequestTypes
    BY RequestsTyped
  <1> DEFINE msg == Head(toServer)
             id == msg.id
  <1>2. /\ toServer # <<>> /\ toServer' = Tail(toServer) /\ msg.type = "subscribe"
        /\ UNCHANGED <<entry, asked, gated, toClient, answers>>
        /\ requests' = requests \cup
              {[id |-> id, subscription |-> subscription', fromSeq |-> NotTaken]}
    BY DEF ReadSubscribe, ReadFromClient, client
  <1>3. /\ toServer \in Seq(ClientMessages) /\ 1 \in DOMAIN toServer /\ toServer[1] = msg
        /\ DOMAIN toServer = 1 .. Len(toServer) /\ DOMAIN toServer' = 1 .. Len(toServer) - 1
        /\ \A i \in DOMAIN toServer' : toServer'[i] = toServer[i + 1] /\ i + 1 \in DOMAIN toServer
                                       /\ 1 < i + 1
    BY <1>1, <1>2 DEF RequestTypes
  <1>4. toServer[1].type = "subscribe" /\ toServer[1].id = id
    BY <1>2, <1>3
  <1> HIDE DEF msg, id
  <1>5. \A r \in requests' : r \in requests \/ r.id = id
    BY <1>2
  <1>6. id <= asked
    BY <1>3, <1>4 DEF RequestInv, IdsArePast
  <1>11. Coming' = Coming
    BY <1>2 DEF Coming
  <1>7. IdsArePast'
    <2>1. \A r \in requests' : r.id <= asked'
      BY <1>2, <1>5, <1>6 DEF RequestInv, IdsArePast
    <2>2. \A i \in DOMAIN toServer' : toServer'[i].type = "subscribe" => toServer'[i].id <= asked'
      BY <1>2, <1>3 DEF RequestInv, IdsArePast
    <2> QED BY <1>2, <1>11, <2>1, <2>2 DEF RequestInv, IdsArePast
  <1>8. ASSUME NEW i \in DOMAIN toServer', NEW j \in DOMAIN toServer', i < j,
               toServer'[i].type = "subscribe", toServer'[i].id = entry.request
        PROVE  toServer'[j].type # "unsubscribe"
    <2>1. i + 1 < j + 1
      BY <1>3, <1>8
    <2> QED BY <1>3, <1>8, <2>1 DEF RequestInv, UnsubscribesAreOlder
  <1>9. ASSUME IsRequested' \/ IsReplied', NEW j \in DOMAIN toServer'
        PROVE  toServer'[j].type # "unsubscribe"
    <2>1. IsRequested \/ IsReplied \/ id = entry.request
      BY <1>2, <1>5, <1>9, <1>11 DEF IsRequested, IsReplied
    <2>2. CASE IsRequested \/ IsReplied
      BY <1>3, <1>9, <2>2 DEF RequestInv, UnsubscribesAreOlder
    <2>3. CASE id = entry.request
      BY <1>3, <1>4, <1>9, <2>3 DEF RequestInv, UnsubscribesAreOlder
    <2> QED BY <2>1, <2>2, <2>3
  <1>10. UnsubscribesAreOlder'
    BY <1>2, <1>8, <1>9 DEF UnsubscribesAreOlder
  <1> QED BY <1>7, <1>10 DEF RequestInv

LEMMA EndRequests ==
    ASSUME Typed, Phases, RequestInv, SubscribeEnds \/ SubscribeFails \/ SubscribeIsCancelled
    PROVE  RequestInv'
  <1>1. RequestTypes
    BY RequestsTyped
  <1>2. PICK r \in requests :
           \/ EndRequest(r, [type |-> "snapshot", id |-> r.id, fromSeq |-> r.fromSeq],
                         [state |-> "active", id |-> r.id])
           \/ \E after : EndRequest(r, Failure(r.id), after)
    BY DEF SubscribeEnds, SubscribeFails, SubscribeIsCancelled
  <1>3. /\ UNCHANGED <<toServer, toClient, entry, asked, gated>>
        /\ \A q \in requests' : q \in requests
    BY <1>2 DEF EndRequest, client, wire
  <1>4. \E m : answers' = answers \cup {m} /\ m.id = r.id
    <2> DEFINE snapshot == [type |-> "snapshot", id |-> r.id, fromSeq |-> r.fromSeq]
               failure == Failure(r.id)
    <2>1. snapshot.id = r.id /\ failure.id = r.id
      BY DEF Failure
    <2>2. answers' = answers \cup {snapshot} \/ answers' = answers \cup {failure}
      BY <1>2 DEF EndRequest, Answer
    <2> HIDE DEF snapshot, failure
    <2> QED BY <2>1, <2>2
  <1>5. PICK m : answers' = answers \cup {m} /\ m.id = r.id
    BY <1>4
  <1>6. \A msg \in Coming' : msg \in Coming \/ \E q \in requests : q.id = msg.id
    BY <1>3, <1>5 DEF Coming
  <1>7. Remains(toServer, toServer')
    BY <1>1, <1>3, RemainsFacts DEF RequestTypes
  <1> QED BY <1>3, <1>6, <1>7, RequestsMove

LEMMA BreakRequests ==
    ASSUME Typed, Phases, RequestInv, TransportBreaks PROVE RequestInv'
  <1>1. RequestTypes
    BY RequestsTyped
  <1>2. /\ toServer' = <<>> /\ toClient' = <<>> /\ answers' = {} /\ requests' = {}
        /\ UNCHANGED <<asked, gated>>
        /\ (entry' = entry \/ entry' = Fail(entry))
    BY DEF TransportBreaks
  <1>3. entry \in Entries(Len(log)) /\ Len(log) \in Nat
    BY TypedParts, DomainOfLog DEF ClientTypes, HostTypes
  <1>4. entry'.request = entry.request \/ entry'.request = 0
    BY <1>2, <1>3, SettledFacts
  <1>5. Remains(toServer, toServer')
    BY <1>1, <1>2, RemainsFacts DEF RequestTypes
  <1>6. Coming' = {}
    BY <1>2 DEF Coming
  <1> QED BY <1>2, <1>4, <1>5, <1>6, RequestsMove

LEMMA NextRequests ==
    ASSUME Typed, Phases, RequestInv, [Next]_vars PROVE RequestInv'
  BY AcquireRequests, ReleaseRequests, ActRequests, ReadRequests, ResumeRequests,
     ConnectRequests, HostRequests, ReadSubscribeRequests, EndRequests, BreakRequests
     DEF Next, User, Client, Host

LEMMA InitRequests == Init => RequestInv
  BY DEF Init, RequestInv, IdsArePast, UnsubscribesAreOlder, IsRequested, IsReplied, NoEntry,
         NoRequest, Coming


-----------------------------------------------------------------------------
(* What has been applied *)

LEMMA AppliedSplits ==
    ASSUME LogType, NEW first \in 1 .. Len(log) + 1, NEW middle \in 0 .. Len(log),
           NEW last \in 0 .. Len(log), first <= middle + 1, middle <= last
    PROVE  /\ Applied(Interval(first, last))
                = Applied(Interval(first, middle)) \o Applied(Interval(middle + 1, last))
           /\ Interval(first, last) \in Seq(1 .. Len(log))
           /\ Interval(first, middle) \in Seq(1 .. Len(log))
           /\ Interval(middle + 1, last) \in Seq(1 .. Len(log))
  <1>1. Len(log) \in Nat
    BY DomainOfLog
  <1> DEFINE T == 1 .. Len(log)
             a == Interval(first, middle)
             b == Interval(middle + 1, last)
  <1>2. first .. last \subseteq T /\ first .. middle \subseteq T /\ (middle + 1) .. last \subseteq T
    BY <1>1
  <1>3. Interval(first, last) \in Seq(T) /\ a \in Seq(T) /\ b \in Seq(T)
    <2>1. first \in Int /\ middle \in Int /\ last \in Int /\ middle + 1 \in Int
      BY <1>1
    <2> HIDE DEF T
    <2> QED BY <1>2, <2>1, IntervalContains
  <1>4. Interval(first, last) = a \o b
    BY <1>1, IntervalConcat
  <1> HIDE DEF a, b
  <1> DEFINE kept == {k \in DOMAIN log : IsApplied(k)}
  <1>5. Only(a \o b, kept) = Only(a, kept) \o Only(b, kept)
    <2> HIDE DEF kept
    <2> QED BY <1>3, OnlyConcat
  <1>6. Applied(Interval(first, last)) = Applied(a) \o Applied(b)
    BY <1>4, <1>5 DEF Applied
  <1> QED BY <1>3, <1>6 DEF a, b

LEMMA AppliedNone ==
    ASSUME LogType, NEW seqs \in Seq(1 .. Len(log)),
           \A k \in DOMAIN log : Contains(seqs, k) => ~IsApplied(k)
    PROVE  Applied(seqs) = <<>>
  <1>1. Applied(seqs) = <<>>
    <2> DEFINE kept == {k \in DOMAIN log : IsApplied(k)}
    <2>1. \A k : Contains(seqs, k) => k \notin kept
      OBVIOUS
    <2> HIDE DEF kept
    <2>2. Only(seqs, kept) = <<>>
      BY <2>1, OnlyNone
    <2> QED BY <2>2 DEF Applied, kept
  <1> QED BY <1>1

(* Numbers that nothing was applied for may be added. *)
LEMMA AppliedFar ==
    ASSUME LogType, NEW near \in 0 .. Len(log), NEW far \in 0 .. Len(log), near <= far,
           \A k \in DOMAIN log : near < k /\ k <= far => ~IsApplied(k)
    PROVE  Applied(Interval(1, far)) = Applied(Interval(1, near))
  <1>1. Len(log) \in Nat
    BY DomainOfLog
  <1>2. /\ Applied(Interval(1, far)) = Applied(Interval(1, near)) \o Applied(Interval(near + 1, far))
        /\ Interval(near + 1, far) \in Seq(1 .. Len(log))
        /\ Interval(1, near) \in Seq(1 .. Len(log))
    <2>1. 1 \in 1 .. Len(log) + 1 /\ 1 <= near + 1
      BY <1>1
    <2> QED BY <2>1, AppliedSplits
  <1>3. \A k : Contains(Interval(near + 1, far), k) => k \in near + 1 .. far
    BY <1>1, IntervalContains
  <1> DEFINE rest == Interval(near + 1, far)
  <1>4. \A k \in DOMAIN log : Contains(rest, k) => ~IsApplied(k)
    BY <1>1, <1>3
  <1> HIDE DEF rest
  <1>5. Applied(rest) = <<>>
    BY <1>2, <1>4, AppliedNone DEF rest
  <1>6. Applied(Interval(1, near)) \in Seq(1 .. Len(log))
    BY <1>2, AppliedFacts
  <1> QED BY <1>2, <1>5, <1>6 DEF rest

(* The next action, when nothing was applied in between. *)
LEMMA AppliedNext ==
    ASSUME LogType, NEW near \in 0 .. Len(log), NEW k \in 1 .. Len(log), near < k,
           \A j \in DOMAIN log : near < j /\ j < k => ~IsApplied(j)
    PROVE  Applied(Interval(1, k)) = Applied(Interval(1, near)) \o Applied(<<k>>)
  <1>1. Len(log) \in Nat /\ k - 1 \in 0 .. Len(log) /\ k \in Nat
    BY DomainOfLog
  <1>2. Applied(Interval(1, k - 1)) = Applied(Interval(1, near))
    BY <1>1, AppliedFar
  <1>3. Applied(Interval(1, k)) = Applied(Interval(1, k - 1)) \o Applied(Interval(k, k))
    <2> DEFINE m == k - 1
    <2>1. m \in 0 .. Len(log) /\ m + 1 = k /\ m <= k /\ 1 <= m + 1 /\ 1 \in 1 .. Len(log) + 1
          /\ k \in 0 .. Len(log)
      BY <1>1
    <2> HIDE DEF m
    <2>2. Applied(Interval(1, k)) = Applied(Interval(1, m)) \o Applied(Interval(m + 1, k))
      BY <2>1, AppliedSplits
    <2> QED BY <2>1, <2>2 DEF m
  <1>4. Interval(k, k) = <<k>>
    <2>1. Interval(k, k) \in Seq(Int) /\ Len(Interval(k, k)) = 1 /\ Interval(k, k)[1] = k
      <3>1. k \in Int /\ k <= k + 1 /\ k - k + 1 = 1 /\ 1 \in 1 .. k - k + 1 /\ k + 1 - 1 = k
        BY <1>1
      <3>2. /\ Interval(k, k) \in Seq(Int) /\ Len(Interval(k, k)) = k - k + 1
            /\ \A i \in 1 .. k - k + 1 : Interval(k, k)[i] = k + i - 1
        BY <3>1, IntervalFacts
      <3> QED BY <3>1, <3>2
    <2> DEFINE s == Interval(k, k)
               t == <<k>>
    <2>2. t \in Seq(Int) /\ Len(t) = 1 /\ t[1] = k
      BY <1>1
    <2> HIDE DEF s, t
    <2>3. s = t
      BY <2>1, <2>2, SameSequence DEF s
    <2> QED BY <2>3 DEF s, t
  <1> QED BY <1>2, <1>3, <1>4

(* A longer log applies the same of what there was. *)
LEMMA AppliedLater ==
    ASSUME LogType, NEW envelope \in Envelopes, LogGrows(envelope)
    PROVE  /\ \A k \in DOMAIN log : IsApplied(k)' <=> IsApplied(k)
           /\ \A s \in Seq(1 .. Len(log)) :
                 Only(s, {k \in DOMAIN log' : IsApplied(k)'}) = Applied(s)
  <1>1. /\ DOMAIN log = 1 .. Len(log) /\ DOMAIN log' = 1 .. Len(log) + 1 /\ Len(log) \in Nat
        /\ \A k \in DOMAIN log : log'[k] = log[k]
    BY LogGrowsFacts
  <1>2. \A k \in DOMAIN log : IsApplied(k)' <=> IsApplied(k)
    BY <1>1 DEF IsApplied, IsOfSession
  <1>3. ASSUME NEW s \in Seq(1 .. Len(log))
        PROVE  Only(s, {k \in DOMAIN log' : IsApplied(k)'}) = Applied(s)
    <2> DEFINE new == {k \in DOMAIN log' : IsApplied(k)'}
               old == {k \in DOMAIN log : IsApplied(k)}
    <2>1. \A k : Contains(s, k) => k \in 1 .. Len(log)
      BY DEF Contains
    <2>2. \A k : Contains(s, k) => (k \in new <=> k \in old)
      BY <1>1, <1>2, <2>1
    <2> HIDE DEF new, old
    <2>3. Only(s, new) = Only(s, old)
      BY <2>2, OnlySame
    <2> QED BY <2>3 DEF Applied, new, old
  <1> QED BY <1>2, <1>3

-----------------------------------------------------------------------------
(* The client reads what it is fed *)

FeedFacts ==
    /\ LogType /\ Len(log) \in Nat /\ DOMAIN log = 1 .. Len(log)
    /\ serverSeq \in 0 .. Len(log) /\ entry \in Entries(Len(log))
    /\ entry.fromSeq \in 0 .. Len(log) /\ toClient \in Seq(Messages(Len(log)))
    /\ entry.confirmed \in Seq(1 .. Len(log)) /\ entry.buffered \in Seq(1 .. Len(log))
    /\ gap \in BOOLEAN
    /\ \A from \in 0 .. Len(log) :
          PlaceOf(from) \in 0 .. Len(log) /\ serverSeq <= PlaceOf(from) /\ from <= PlaceOf(from)
    /\ \A msg \in Coming :
          /\ msg \in Messages(Len(log))
          /\ msg.type \in Snapshots => msg.fromSeq \in 0 .. Len(log)

LEMMA FeedTyped ==
    ASSUME Typed PROVE FeedFacts
  <1>1. ClientTypes /\ WireTypes /\ LogType /\ gap \in BOOLEAN /\ answers \subseteq Messages(Len(log))
    BY TypedParts DEF HostTypes, HistoryTypes
  <1>2. Len(log) \in Nat /\ DOMAIN log = 1 .. Len(log)
    BY <1>1, DomainOfLog
  <1>3. serverSeq \in 0 .. Len(log) /\ entry \in Entries(Len(log))
    BY <1>1 DEF ClientTypes
  <1>4. /\ entry.fromSeq \in 0 .. Len(log) /\ entry.confirmed \in Seq(1 .. Len(log))
        /\ entry.buffered \in Seq(1 .. Len(log))
    BY <1>3 DEF Entries
  <1>5. \A from \in 0 .. Len(log) :
            PlaceOf(from) \in 0 .. Len(log) /\ serverSeq <= PlaceOf(from) /\ from <= PlaceOf(from)
    BY <1>2, <1>3 DEF PlaceOf
  <1>6. \A msg \in Coming : msg \in Messages(Len(log))
    BY <1>1 DEF Coming, WireTypes
  <1>7. \A msg \in Coming : msg.type \in Snapshots => msg.fromSeq \in 0 .. Len(log)
    BY <1>2, <1>6, MessageIs DEF Snapshots
  <1> QED BY <1>1, <1>2, <1>3, <1>4, <1>5, <1>6, <1>7 DEF FeedFacts, WireTypes

(* A promise is made to an entry that waits, over a transport that works. *)
LEMMA PromiseFacts ==
    ASSUME Typed, Phases, NEW from \in Nat, IsPromised(from)
    PROVE  /\ conn = "Connected" /\ entry.status = "pending" /\ entry.request # 0
           /\ from \in 0 .. Len(log)
  <1>1. entry.request # 0 => entry.status = "pending"
    BY DEF Typed, NoRequest
  <1>2. CASE SnapshotOf(from) \in Coming
    <2> DEFINE msg == SnapshotOf(from)
    <2>1. msg.type = "snapshot" /\ msg.id = entry.request /\ msg.fromSeq = from
      BY DEF SnapshotOf
    <2> HIDE DEF msg
    <2>2. msg \in Coming
      BY <1>2 DEF msg
    <2>3. RequestTypes /\ FeedFacts
      BY RequestsTyped, FeedTyped
    <2>4. msg.id \in 1 .. MaxRequests /\ msg.fromSeq \in 0 .. Len(log)
      BY <2>1, <2>2, <2>3 DEF RequestTypes, FeedFacts, Answers, Snapshots
    <2>5. msg.id # 0
      BY <2>4
    <2>6. msg \in answers \/ Has(toClient, Answers)
      BY <2>1, <2>2 DEF Coming, Has, Answers
    <2>7. conn = "Connected"
      BY <2>1, <2>6, WhileConnected DEF Answers
    <2> QED BY <1>1, <2>1, <2>4, <2>5, <2>7
  <1>3. CASE \E r \in requests :
                r.id = entry.request /\ r.subscription.state = "active" /\ r.fromSeq = from
    <2>1. PICK r \in requests : r.id = entry.request /\ r.fromSeq = from
      BY <1>3
    <2>2. r \in RequestsTo(Len(log)) /\ Len(log) \in Nat
      BY TypedParts, DomainOfLog DEF HostTypes
    <2>3. r.id \in 1 .. MaxRequests /\ r.fromSeq \in NotTaken .. Len(log)
      BY <2>2 DEF RequestsTo
    <2>4. r.id # 0 /\ from \in 0 .. Len(log)
      BY <2>1, <2>2, <2>3 DEF NotTaken
    <2>5. conn = "Connected"
      BY WhileConnected
    <2> QED BY <1>1, <2>1, <2>4, <2>5
  <1> QED BY <1>2, <1>3 DEF IsPromised

(* Nothing that is applied was missed: what is buffered adds nothing. *)
LEMMA NoneMissed ==
    ASSUME Typed, NewsIsAhead, NEW from \in 0 .. Len(log),
           \A k \in from + 1 .. serverSeq : ~IsApplied(k)
    PROVE  WithBuffered(from) = Applied(Interval(1, PlaceOf(from)))
  <1>1. FeedFacts
    BY FeedTyped
  <1>2. LogType /\ Len(log) \in Nat /\ serverSeq \in 0 .. Len(log) /\ DOMAIN log = 1 .. Len(log)
        /\ entry.buffered \in Seq(1 .. Len(log))
    BY <1>1 DEF FeedFacts
  <1> DEFINE b == entry.buffered
             kept == from + 1 .. Len(log)
             after == Only(b, kept)
  <1>3. after \in Seq(1 .. Len(log)) /\ \A k : Contains(after, k) => Contains(b, k) /\ k \in kept
    <2>1. b \in Seq(1 .. Len(log))
      BY <1>2
    <2> HIDE DEF b, kept
    <2> QED BY <2>1, OnlyFacts
  <1>4. \A k : Contains(b, k) => k <= serverSeq
    BY DEF NewsIsAhead, Contains
  <1>5. \A k \in DOMAIN log : Contains(after, k) => ~IsApplied(k)
    <2> SUFFICES ASSUME NEW k \in DOMAIN log, Contains(after, k) PROVE ~IsApplied(k)
      OBVIOUS
    <2>1. k \in kept /\ k <= serverSeq
      BY <1>3, <1>4
    <2>2. k \in from + 1 .. serverSeq
      BY <1>2, <2>1
    <2> QED BY <2>2
  <1>6. Applied(after) = <<>>
    <2> HIDE DEF after
    <2> QED BY <1>2, <1>3, <1>5, AppliedNone
  <1>7. Interval(1, from) \in Seq(1 .. Len(log))
    BY <1>2, IntervalContains
  <1>8. Applied(Interval(1, from)) \in Seq(1 .. Len(log))
    BY <1>2, <1>7, AppliedFacts
  <1>9. Applied(Interval(1, PlaceOf(from))) = Applied(Interval(1, from))
    <2> DEFINE far == PlaceOf(from)
    <2>1. far \in 0 .. Len(log) /\ from <= far
      BY <1>1 DEF FeedFacts
    <2>2. \A k \in DOMAIN log : from < k /\ k <= far => ~IsApplied(k)
      <3> SUFFICES ASSUME NEW k \in DOMAIN log, from < k, k <= far PROVE ~IsApplied(k)
        OBVIOUS
      <3>1. k \in from + 1 .. serverSeq
        BY <1>2 DEF PlaceOf
      <3> QED BY <3>1
    <2> HIDE DEF far
    <2> QED BY <1>2, <2>1, <2>2, AppliedFar DEF far
  <1>10. WithBuffered(from) = Applied(Interval(1, from)) \o Applied(after)
    BY DEF WithBuffered
  <1> HIDE DEF after
  <1> QED BY <1>6, <1>8, <1>9, <1>10

(* What is on its way after a step, for a place that does not change. *)
StillFollows(from) ==
    \A k \in DOMAIN log' : from < k /\ IsApplied(k)' => Contains(toClient', Action(k))

(* What follows from is still to come when what is read is not after it. *)
LEMMA FollowsRest ==
    ASSUME Typed, ReadFromServer, UNCHANGED log, NEW from \in Nat, Follows(from),
           Head(toClient).type = "action" => Head(toClient).serverSeq <= from
    PROVE  StillFollows(from)
  <1>1. FeedFacts
    BY FeedTyped
  <1>2. toClient \in Seq(Messages(Len(log))) /\ toClient # <<>> /\ toClient' = Tail(toClient)
    BY ReadIs
  <1> SUFFICES ASSUME NEW k \in DOMAIN log, from < k, IsApplied(k)
               PROVE  Contains(toClient', Action(k))
    BY DEF StillFollows, IsApplied, IsOfSession
  <1>3. k \in Nat
    BY <1>1 DEF FeedFacts
  <1> DEFINE x == Action(k)
             T == Messages(Len(log))
  <1>4. x.type = "action" /\ x.serverSeq = k
    BY DEF Action
  <1>5. x # Head(toClient)
    BY <1>3, <1>4
  <1>6. Contains(toClient, x)
    BY DEF Follows
  <1> HIDE DEF x, T
  <1>7. Contains(Tail(toClient), x)
    <2>1. toClient \in Seq(T)
      BY <1>2 DEF T
    <2> QED BY <1>2, <1>5, <1>6, <2>1, ContainsTail
  <1> QED BY <1>2, <1>7 DEF x

(* What is applied after a place is the action that is read, or comes later. *)
LEMMA ActionIsNext ==
    ASSUME Typed, NewsIsAhead, ReadAction, NEW near \in 0 .. Len(log), Follows(near)
    PROVE  LET k == Head(toClient).serverSeq IN
           /\ near < k => /\ \A j \in DOMAIN log : near < j /\ j < k => ~IsApplied(j)
                          /\ StillFollows(k)
           /\ k <= near => StillFollows(near)
  <1> DEFINE msg == Head(toClient)
             k == msg.serverSeq
  <1>1. FeedFacts
    BY FeedTyped
  <1>2. ReadFromServer /\ msg.type = "action" /\ UNCHANGED log
    BY DEF ReadAction, host
  <1>3. k \in 1 .. Len(log) /\ k \in Nat /\ Tells(msg, k)
    <2>1. msg \in Messages(Len(log)) /\ Len(log) \in Nat
      BY <1>2, ReadIs
    <2>2. k \in 1 .. Len(log)
      BY <1>2, <2>1, MessageIs
    <2> QED BY <1>2, <2>1, <2>2 DEF Tells
  <1>4. \A i \in DOMAIN toClient' : IsNews(toClient'[i], k)
    BY <1>2, <1>3, NewsOfRest
  <1>8. /\ DOMAIN toClient = 1 .. Len(toClient) /\ msg = toClient[1]
        /\ \A i \in DOMAIN toClient : i # 1 =>
              i - 1 \in DOMAIN toClient' /\ toClient'[i - 1] = toClient[i]
    <2>1. toClient \in Seq(Messages(Len(log))) /\ toClient # <<>> /\ toClient' = Tail(toClient)
      BY <1>2, ReadIs
    <2> QED BY <2>1
  <1>5. k <= near => StillFollows(near)
    <2> SUFFICES ASSUME k <= near PROVE StillFollows(near)
      OBVIOUS
    <2>1. near \in Nat
      BY <1>1 DEF FeedFacts
    <2> QED BY <1>2, <2>1, FollowsRest
  <1>6. ASSUME near < k, NEW j \in DOMAIN log, near < j, j < k PROVE ~IsApplied(j)
    <2> SUFFICES ASSUME IsApplied(j) PROVE FALSE
      OBVIOUS
    <2>1. Contains(toClient, Action(j))
      BY <1>6 DEF Follows
    <2>2. PICK i \in DOMAIN toClient : toClient[i] = Action(j)
      BY <1>8, <2>1 DEF Contains
    <2>3. toClient[i].type = "action" /\ toClient[i].serverSeq = j /\ j \in Nat
      BY <1>1, <2>2 DEF Action, FeedFacts
    <2>4. CASE i = 1
      BY <1>3, <1>6, <1>8, <2>3, <2>4
    <2>5. CASE i # 1
      <3>1. i - 1 \in DOMAIN toClient' /\ toClient'[i - 1] = toClient[i]
        BY <1>8, <2>5
      <3>2. k < j
        BY <1>4, <2>3, <3>1 DEF IsNews
      <3> QED BY <1>3, <1>6, <2>3, <3>2
    <2> QED BY <2>4, <2>5
  <1>7. near < k => StillFollows(k)
    <2> SUFFICES ASSUME near < k PROVE StillFollows(k)
      OBVIOUS
    <2>1. Follows(k)
      <3>1. \A j \in DOMAIN log : j \in Nat
        BY <1>1 DEF FeedFacts
      <3>2. near \in Nat
        BY <1>1 DEF FeedFacts
      <3> HIDE DEF k
      <3> QED BY <1>3, <3>1, <3>2 DEF Follows
    <2>2. k <= k
      BY <1>3
    <2> HIDE DEF k
    <2> QED BY <1>2, <1>3, <2>1, <2>2, FollowsRest DEF k
  <1> QED BY <1>5, <1>6, <1>7

(* What is read adds to what is buffered for a snapshot. *)
LEMMA BufferedOne ==
    ASSUME LogType, NEW k \in 1 .. Len(log), NEW from \in 0 .. Len(log),
           NEW b \in Seq(1 .. Len(log))
    PROVE  Applied(Only(b \o OfSession(<<k>>), from + 1 .. Len(log)))
             = Applied(Only(b, from + 1 .. Len(log)))
               \o (IF from < k THEN Applied(<<k>>) ELSE <<>>)
  <1>1. Len(log) \in Nat /\ DOMAIN log = 1 .. Len(log)
    BY DomainOfLog
  <1> DEFINE one == <<k>>
             news == OfSession(one)
             kept == from + 1 .. Len(log)
             ofSession == {l \in DOMAIN log : IsOfSession(l)}
             applied == {l \in DOMAIN log : IsApplied(l)}
             T == 1 .. Len(log)
  <1>2. one \in Seq(T)
    OBVIOUS
  <1>3. news \in Seq(T) /\ b \in Seq(T)
    <2> HIDE DEF one
    <2> QED BY <1>2, AppliedFacts
  <1>4. Only(b \o news, kept) = Only(b, kept) \o Only(news, kept)
        /\ Only(b, kept) \in Seq(T) /\ Only(news, kept) \in Seq(T)
    <2> HIDE DEF news, kept, T
    <2>1. Only(b \o news, kept) = Only(b, kept) \o Only(news, kept)
      BY <1>3, OnlyConcat
    <2>2. Only(b, kept) \in Seq(T)
      BY <1>3, OnlyFacts
    <2>3. Only(news, kept) \in Seq(T)
      BY <1>3, OnlyFacts
    <2> QED BY <2>1, <2>2, <2>3
  <1>5. Applied(Only(b \o news, kept)) = Applied(Only(b, kept)) \o Applied(Only(news, kept))
    <2> DEFINE s == Only(b, kept)
               t == Only(news, kept)
    <2>1. s \in Seq(T) /\ t \in Seq(T)
      BY <1>4
    <2> HIDE DEF s, t, applied, T
    <2>2. Only(s \o t, applied) = Only(s, applied) \o Only(t, applied)
      BY <2>1, OnlyConcat
    <2> QED BY <1>4, <2>2 DEF Applied, s, t, applied
  <1>6. news = IF k \in ofSession THEN <<k>> ELSE <<>>
    <2>1. news = Only(<<k>>, ofSession)
      BY DEF OfSession
    <2> HIDE DEF ofSession, news
    <2> QED BY <2>1, OnlyOfOne
  <1>7. Applied(<<k>>) = IF k \in applied THEN <<k>> ELSE <<>>
    <2>1. Applied(<<k>>) = Only(<<k>>, applied)
      BY DEF Applied
    <2> HIDE DEF applied
    <2> QED BY <2>1, OnlyOfOne
  <1>8. Applied(<<>>) = <<>>
    BY OnlyOfOne DEF Applied
  <1>9. k \in applied => k \in ofSession
    BY DEF IsApplied
  <1>10. k \in kept <=> from < k
    BY <1>1
  <1> HIDE DEF kept, ofSession, applied
  <1>11. Only(news, kept) = IF k \in ofSession /\ k \in kept THEN <<k>> ELSE <<>>
    <2>1. Only(<<k>>, kept) = (IF k \in kept THEN <<k>> ELSE <<>>) /\ Only(<<>>, kept) = <<>>
      BY OnlyOfOne
    <2> QED BY <1>6, <2>1
  <1>12. Applied(Only(news, kept)) = IF from < k THEN Applied(<<k>>) ELSE <<>>
    BY <1>7, <1>8, <1>9, <1>10, <1>11
  <1> QED BY <1>5, <1>12 DEF kept

LEMMA ConcatAssociates ==
    ASSUME NEW T, NEW s \in Seq(T), NEW t \in Seq(T), NEW u \in Seq(T)
    PROVE  (s \o t) \o u = s \o (t \o u)
  <1> DEFINE a == (s \o t) \o u
             b == s \o (t \o u)
  <1>1. a \in Seq(T) /\ b \in Seq(T)
    OBVIOUS
  <1>2. Len(a) = Len(s) + Len(t) + Len(u) /\ Len(b) = Len(a)
    OBVIOUS
  <1>3. \A i \in 1 .. Len(a) : a[i] = b[i]
    OBVIOUS
  <1> HIDE DEF a, b
  <1>4. a = b
    BY <1>1, <1>2, <1>3, SameSequence
  <1> QED BY <1>4 DEF a, b

(* Where a place moves to, and what follows it there. *)
LEMMA PlaceMoves ==
    ASSUME Typed, Phases, NewsIsAhead, ReadAction, NEW from \in 0 .. Len(log)
    PROVE  LET k == Head(toClient).serverSeq IN
           /\ k \in 1 .. Len(log) /\ serverSeq < k /\ serverSeq' = k
           /\ PlaceOf(from)' = IF PlaceOf(from) < k THEN k ELSE PlaceOf(from)
           /\ from < k <=> PlaceOf(from) < k
           /\ Follows(PlaceOf(from)) =>
                 StillFollows(IF PlaceOf(from) < k THEN k ELSE PlaceOf(from))
  <1> DEFINE msg == Head(toClient)
             k == msg.serverSeq
             near == PlaceOf(from)
  <1>1. FeedFacts
    BY FeedTyped
  <1>2. k \in 1 .. Len(log) /\ serverSeq' = IF serverSeq >= k THEN serverSeq ELSE k
    BY ReadActionTypes
  <1>3. IsNews(msg, serverSeq) /\ msg.type = "action"
    BY NewsOfRest DEF ReadAction
  <1>4. serverSeq < k /\ serverSeq' = k
    BY <1>1, <1>2, <1>3 DEF IsNews, FeedFacts
  <1>5. PlaceOf(from)' = (IF near < k THEN k ELSE near) /\ (from < k <=> near < k)
    BY <1>1, <1>2, <1>4 DEF PlaceOf, FeedFacts
  <1>6. near \in 0 .. Len(log)
    BY <1>1 DEF FeedFacts
  <1> HIDE DEF near
  <1>7. Follows(near) => StillFollows(IF near < k THEN k ELSE near)
    <2> SUFFICES ASSUME Follows(near) PROVE StillFollows(IF near < k THEN k ELSE near)
      OBVIOUS
    <2>1. near < k => StillFollows(k)
      BY <1>6, ActionIsNext
    <2>2. k <= near => StillFollows(near)
      BY <1>6, ActionIsNext
    <2>3. near < k \/ k <= near
      <3>1. k \in 1 .. Len(log) /\ near \in 0 .. Len(log) /\ Len(log) \in Nat
        BY <1>1, <1>2, <1>6 DEF FeedFacts
      <3> HIDE DEF k
      <3> QED BY <3>1
    <2> QED BY <2>1, <2>2, <2>3
  <1> QED BY <1>2, <1>4, <1>5, <1>7 DEF near

LEMMA ReadActionFeed ==
    ASSUME Typed, Phases, NewsIsAhead, FeedInv, ReadAction PROVE FeedInv'
  <1> DEFINE msg == Head(toClient)
             k == msg.serverSeq
             seqs == <<k>>
  <1>1. FeedFacts
    BY FeedTyped
  <1>2. /\ seqs \in Seq(1 .. Len(log)) /\ conn # "Reconnecting"
        /\ entry'.status = entry.status /\ entry'.request = entry.request
    BY ReadActionTypes
  <1>3. /\ entry' = Receive(entry, seqs) /\ msg.type = "action" /\ ReadFromServer
        /\ UNCHANGED <<conn, log, subscription, requests, answers>>
        /\ gap' = (gap \/ (conn = "Asked" /\ HasState))
    BY DEF ReadAction, host
  <1>4. k \in 1 .. Len(log) /\ serverSeq < k /\ serverSeq' = k
    <2>1. 0 \in 0 .. Len(log)
      BY <1>1 DEF FeedFacts
    <2> QED BY <2>1, PlaceMoves
  <1>5. \A m \in Coming' : m \in Coming
    BY <1>3, ComingRest
  <1>6. conn \in {"Connected", "Reconnecting", "Asked"}
    BY PhaseTypes
  <1> HIDE DEF seqs
  <1>7. /\ entry'.fromSeq = entry.fromSeq
        /\ HasState => entry'.confirmed = entry.confirmed \o Applied(seqs)
        /\ HasState' <=> HasState
    BY <1>1, <1>2, <1>3, ReceiveFacts DEF FeedFacts, HasState
  <1>8. entry.fromSeq \in 0 .. Len(log)
    BY <1>1 DEF FeedFacts
  <1>9. Place' = PlaceOf(entry.fromSeq)'
    BY <1>7 DEF Place, PlaceOf
  <1>10. Place' = IF Place < k THEN k ELSE Place
    <2>1. PICK from \in 0 .. Len(log) : entry.fromSeq = from
      BY <1>8
    <2>2. entry'.fromSeq = from
      BY <1>7, <2>1
    <2>3. PlaceOf(from)' = IF PlaceOf(from) < k THEN k ELSE PlaceOf(from)
      BY PlaceMoves
    <2>4. PlaceOf(from)' = IF k >= from THEN k ELSE from
      BY <1>4 DEF PlaceOf
    <2>5. Place' = IF k >= from THEN k ELSE from
      BY <1>4, <2>2 DEF Place, PlaceOf
    <2> QED BY <2>1, <2>3, <2>4, <2>5 DEF Place
  <1>11. HasState => Place < k
    <2> SUFFICES ASSUME HasState PROVE Place < k
      OBVIOUS
    <2>1. entry.fromSeq < k
      BY <1>3, NewsOfRest
    <2> QED BY <1>1, <1>4, <2>1 DEF Place, PlaceOf, FeedFacts
  <1>12. HasState /\ ~gap' => conn = "Connected" /\ ~gap /\ IsFed /\ Follows(Place)
    BY <1>2, <1>3, <1>6 DEF FeedInv, StateIsFed
  <1>13. StateIsFed'
    <2> SUFFICES ASSUME HasState, ~gap' PROVE IsFed' /\ Follows(Place)'
      BY <1>7 DEF StateIsFed
    <2> DEFINE near == Place
    <2>1. near \in 0 .. Len(log) /\ near < k /\ Follows(near) /\ Place' = k /\ IsFed
      BY <1>1, <1>8, <1>10, <1>11, <1>12 DEF FeedFacts, Place
    <2> HIDE DEF near
    <2>2. StillFollows(k)
      BY <2>1, ActionIsNext
    <2> QED BY <1>3, <2>1, <2>2 DEF IsFed, Follows, StillFollows
  <1>14. StateIsPlaced'
    <2> SUFFICES ASSUME HasState, ~gap'
                 PROVE  entry'.confirmed = Applied(Interval(1, k))
      BY <1>3, <1>7, <1>10, <1>11
         DEF StateIsPlaced, Applied, IsApplied, IsOfSession
    <2>1. entry'.confirmed = Applied(Interval(1, Place)) \o Applied(seqs)
      BY <1>7, <1>12 DEF FeedInv, StateIsPlaced
    <2> DEFINE near == Place
    <2>2. LogType /\ near \in 0 .. Len(log) /\ near < k /\ Follows(near)
      BY <1>1, <1>8, <1>11, <1>12 DEF FeedFacts, Place
    <2> HIDE DEF near
    <2>3. \A j \in DOMAIN log : near < j /\ j < k => ~IsApplied(j)
      BY <2>2, ActionIsNext
    <2> HIDE DEF k
    <2>4. Applied(Interval(1, k)) = Applied(Interval(1, near)) \o Applied(<<k>>)
      BY <1>4, <2>2, <2>3, AppliedNext
    <2> QED BY <2>1, <2>4 DEF near, seqs
  <1>15. SnapshotIsFed'
    <2> SUFFICES ASSUME ~gap', NEW from \in 0 .. Len(log), IsPromised(from)'
                 PROVE  IsFed' /\ IsWhole(from)'
      BY <1>3 DEF SnapshotIsFed
    <2>1. from \in Nat /\ IsPromised(from)
      BY <1>1, <1>2, <1>3, <1>5 DEF IsPromised, SnapshotOf, FeedFacts
    <2>2. conn = "Connected" /\ entry.status = "pending"
      BY <2>1, PromiseFacts
    <2>3. ~gap /\ IsFed /\ IsWhole(from)
      BY <1>3, <2>1, <2>2 DEF FeedInv, SnapshotIsFed
    <2>4. entry'.buffered = entry.buffered \o OfSession(seqs)
      BY <1>1, <1>3, <2>2 DEF Receive, FeedFacts, Entries
    <2> DEFINE near == PlaceOf(from)
               old == WithBuffered(from)
               n == Len(log)
    <2>5. /\ PlaceOf(from)' = IF near < k THEN k ELSE near
          /\ from < k <=> near < k
          /\ Follows(near) => StillFollows(IF near < k THEN k ELSE near)
      BY PlaceMoves
    <2>6. Follows(near) /\ old = Applied(Interval(1, near)) /\ near \in 0 .. n
          /\ LogType /\ entry.buffered \in Seq(1 .. n) /\ Interval(1, from) \in Seq(1 .. n)
      <3>1. Interval(1, from) \in Seq(1 .. n)
        BY <1>1, IntervalContains DEF FeedFacts
      <3> QED BY <1>1, <2>3, <3>1 DEF IsWhole, FeedFacts
    <2>7. Follows(PlaceOf(from))'
      BY <2>5, <2>6 DEF Follows, StillFollows
    <2>8. WithBuffered(from)' = Applied(Interval(1, from))
                                \o Applied(Only(entry'.buffered, from + 1 .. Len(log)))
      BY <1>3 DEF WithBuffered, Applied, IsApplied, IsOfSession
    <2>9. WithBuffered(from)' = old \o (IF near < k THEN Applied(<<k>>) ELSE <<>>)
      <3> DEFINE a == Applied(Interval(1, from))
                 b == Applied(Only(entry.buffered, from + 1 .. n))
                 c == IF near < k THEN Applied(<<k>>) ELSE <<>>
      <3>1. a \in Seq(1 .. n)
        BY <2>6, AppliedFacts
      <3>2. b \in Seq(1 .. n)
        <4>1. Only(entry.buffered, from + 1 .. n) \in Seq(1 .. n)
          BY <2>6, OnlyFacts
        <4> QED BY <2>6, <4>1, AppliedFacts
      <3>3. c \in Seq(1 .. n)
        <4>1. Applied(<<k>>) \in Seq(1 .. n)
          BY <1>2, <2>6, AppliedFacts DEF seqs
        <4>2. <<>> \in Seq(1 .. n)
          OBVIOUS
        <4> DEFINE one == Applied(<<k>>)
                   T == Seq(1 .. n)
        <4> HIDE DEF one, T, near
        <4>3. (IF near < k THEN one ELSE <<>>) \in T
          BY <4>1, <4>2 DEF one, T
        <4> QED BY <4>3 DEF one, T
      <3>4. Applied(Only(entry.buffered \o OfSession(<<k>>), from + 1 .. n)) = b \o c
        <4> HIDE DEF k
        <4> QED BY <1>4, <2>5, <2>6, BufferedOne
      <3>5. WithBuffered(from)' = a \o (b \o c)
        BY <2>4, <2>8, <3>4 DEF seqs
      <3>6. old = a \o b
        BY DEF WithBuffered
      <3> DEFINE T == 1 .. n
      <3> HIDE DEF a, b, c, old, T
      <3>7. (a \o b) \o c = a \o (b \o c)
        BY <3>1, <3>2, <3>3, ConcatAssociates DEF T
      <3> QED BY <3>5, <3>6, <3>7 DEF c
    <2> DEFINE moved == IF near < k THEN k ELSE near
    <2>10. WithBuffered(from)' = Applied(Interval(1, moved))
      <3>1. CASE near < k
        <4>1. \A j \in DOMAIN log : near < j /\ j < k => ~IsApplied(j)
          <5> HIDE DEF near
          <5> QED BY <2>6, <3>1, ActionIsNext
        <4> HIDE DEF near, k, old
        <4>2. Applied(Interval(1, k)) = Applied(Interval(1, near)) \o Applied(<<k>>)
          BY <1>4, <2>6, <3>1, <4>1, AppliedNext
        <4> QED BY <2>5, <2>6, <2>9, <3>1, <4>2
      <3>2. CASE ~(near < k)
        <4>1. Applied(Interval(1, near)) \in Seq(1 .. n)
          <5>1. Interval(1, near) \in Seq(1 .. n)
            BY <1>1, <2>6, IntervalContains DEF FeedFacts
          <5> QED BY <2>6, <5>1, AppliedFacts
        <4> DEFINE s == Applied(Interval(1, near))
        <4>2. s \in Seq(1 .. n) /\ old = s
          BY <2>6, <4>1
        <4>3. WithBuffered(from)' = old \o <<>> /\ moved = near
          BY <2>5, <2>9, <3>2
        <4> HIDE DEF s, old
        <4>4. s \o <<>> = s
          BY <4>2
        <4> QED BY <4>2, <4>3, <4>4 DEF s
      <3> QED BY <3>1, <3>2
    <2>11. Applied(Interval(1, PlaceOf(from)))' = Applied(Interval(1, moved))
      BY <1>3, <2>5 DEF Applied, IsApplied, IsOfSession, Interval
    <2> QED BY <1>3, <2>3, <2>7, <2>10, <2>11 DEF IsWhole, IsFed
  <1>16. AnswerIsFed'
    <2> SUFFICES ASSUME conn = "Asked", NEW m \in Coming'
                 PROVE  /\ m.type = "snapshots" => SnapshotsAreFed(m)'
                        /\ m.type = "replay" => ReplayIsFed(m)'
      BY <1>3 DEF AnswerIsFed
    <2>1. m \in Coming
      BY <1>5
    <2>2. /\ m.type = "snapshots" => SnapshotsAreFed(m)
          /\ m.type = "replay" => ReplayIsFed(m)
      BY <2>1 DEF FeedInv, AnswerIsFed
    <2>3. m.type = "replay" => ReplayIsFed(m)'
      BY <1>3, <1>7, <2>2 DEF ReplayIsFed, IsFed
    <2>4. m.type = "snapshots" => SnapshotsAreFed(m)'
      <3> SUFFICES ASSUME m.type = "snapshots" PROVE SnapshotsAreFed(m)'
        OBVIOUS
      <3>1. HasState' => m.subscribed
        BY <1>7, <2>2 DEF SnapshotsAreFed
      <3>2. ASSUME m.subscribed PROVE IsFed' /\ Follows(PlaceOf(m.fromSeq))'
        <4> DEFINE from == m.fromSeq
        <4>1. from \in 0 .. Len(log)
          BY <1>1, <2>1 DEF FeedFacts, Snapshots
        <4>2. IsFed /\ Follows(PlaceOf(from))
          BY <2>2, <3>2 DEF SnapshotsAreFed
        <4> HIDE DEF from
        <4>3. /\ StillFollows(IF PlaceOf(from) < k THEN k ELSE PlaceOf(from))
              /\ PlaceOf(from)' = IF PlaceOf(from) < k THEN k ELSE PlaceOf(from)
          BY <4>1, <4>2, PlaceMoves
        <4>4. Follows(PlaceOf(from))'
          BY <4>3 DEF Follows, StillFollows
        <4> QED BY <1>3, <4>2, <4>4 DEF IsFed, from
      <3> QED BY <3>1, <3>2 DEF SnapshotsAreFed
    <2> QED BY <2>3, <2>4
  <1> QED BY <1>13, <1>14, <1>15, <1>16 DEF FeedInv

LEMMA ReadAnswerFeed ==
    ASSUME Typed, Phases, NewsIsAhead, FeedInv, ReadAnswer PROVE FeedInv'
  <1> DEFINE msg == Head(toClient)
             from == msg.fromSeq
  <1>1. FeedFacts
    BY FeedTyped
  <1>2. /\ ReadFromServer
        /\ UNCHANGED <<conn, serverSeq, log, subscription, requests, answers, gap>>
        /\ conn = "Connected"
    BY ReadAnswerTypes DEF ReadAnswer, host
  <1>3. /\ ~IsAwaited(msg) => entry' = entry
        /\ IsAwaited(msg) /\ msg.type = "snapshot" =>
              entry' = Seat(Settled(entry), from) /\ from \in 0 .. Len(log)
        /\ IsAwaited(msg) /\ msg.type # "snapshot" => entry' = Fail(entry)
        /\ msg.type \in Answers
    BY ReadAnswerTypes
  <1>4. msg.type # "action"
    BY <1>3 DEF Answers
  <1>5. AnswerIsFed'
    BY <1>2 DEF AnswerIsFed
  <1>6. ASSUME NEW n \in Nat, Follows(n) PROVE StillFollows(n)
    BY <1>2, <1>4, <1>6, FollowsRest
  <1>7. msg \in Coming /\ \A m \in Coming' : m \in Coming
    BY <1>2, ComingRest
  <1>8. CASE ~IsAwaited(msg)
    <2>1. entry' = entry
      BY <1>3, <1>8
    <2>2. SnapshotIsFed'
      <3> SUFFICES ASSUME ~gap, NEW place \in 0 .. Len(log), IsPromised(place)'
                   PROVE  IsFed' /\ IsWhole(place)'
        BY <1>2 DEF SnapshotIsFed
      <3>1. IsPromised(place)
        BY <1>2, <1>7, <2>1 DEF IsPromised, SnapshotOf
      <3>2. IsFed /\ IsWhole(place)
        BY <3>1 DEF FeedInv, SnapshotIsFed
      <3> DEFINE near == PlaceOf(place)
      <3>3. near \in Nat /\ Follows(near) /\ PlaceOf(place)' = near
        BY <1>1, <1>2, <3>2 DEF FeedFacts, IsWhole, PlaceOf
      <3> HIDE DEF near
      <3>4. StillFollows(near)
        BY <1>6, <3>3
      <3>5. Follows(PlaceOf(place))'
        BY <3>3, <3>4 DEF Follows, StillFollows
      <3>6. (WithBuffered(place) = Applied(Interval(1, PlaceOf(place))))'
        BY <1>2, <2>1, <3>2
           DEF IsWhole, WithBuffered, PlaceOf, Applied, IsApplied, IsOfSession, Interval
      <3> QED BY <1>2, <3>2, <3>5, <3>6 DEF IsFed, IsWhole
    <2>3. StateIsFed'
      <3> DEFINE near == Place
      <3> SUFFICES ASSUME HasState, ~gap PROVE IsFed /\ Follows(Place)'
        BY <1>2, <2>1 DEF StateIsFed, HasState, IsFed
      <3>1. near \in Nat /\ IsFed /\ Follows(near)
        BY <1>1, <1>2 DEF FeedInv, StateIsFed, FeedFacts, Place
      <3> HIDE DEF near
      <3>2. StillFollows(near)
        BY <1>6, <3>1
      <3> QED BY <1>2, <2>1, <3>1, <3>2 DEF Follows, StillFollows, near, Place, PlaceOf
    <2>4. StateIsPlaced'
      BY <1>2, <2>1
         DEF FeedInv, StateIsPlaced, HasState, Place, PlaceOf, Applied, IsApplied, IsOfSession
    <2> QED BY <1>5, <2>2, <2>3, <2>4 DEF FeedInv
  <1>9. ASSUME entry'.request = 0 PROVE SnapshotIsFed'
    <2> SUFFICES ASSUME NEW place \in 0 .. Len(log), IsPromised(place)' PROVE FALSE
      BY <1>2 DEF SnapshotIsFed
    <2>1. RequestTypes
      BY RequestsTyped
    <2>2. CASE SnapshotOf(place)' \in Coming'
      <3>1. PICK m \in Coming : m.type = "snapshot" /\ m.id = 0
        BY <1>7, <1>9, <2>2 DEF SnapshotOf
      <3> QED BY <2>1, <3>1 DEF RequestTypes, Answers
    <2>3. CASE \E r \in requests' : r.id = entry'.request
      BY <1>2, <1>9, <2>1, <2>3 DEF RequestTypes
    <2> QED BY <2>2, <2>3 DEF IsPromised
  <1>10. entry \in Entries(Len(log)) /\ Len(log) \in Nat /\ LogType
    BY <1>1 DEF FeedFacts
  <1>11. CASE IsAwaited(msg) /\ msg.type # "snapshot"
    <2>1. entry' = Fail(entry)
      BY <1>3, <1>11
    <2>2. entry'.status = "error" /\ entry'.request = 0
      BY <1>10, <2>1, SettledFacts
    <2> QED BY <1>5, <1>9, <2>2 DEF FeedInv, StateIsFed, StateIsPlaced, HasState
  <1>12. CASE IsAwaited(msg) /\ msg.type = "snapshot"
    <2> DEFINE old == Settled(entry)
    <2>1. entry' = Seat(old, from) /\ from \in 0 .. Len(log) /\ from \in Nat
      BY <1>3, <1>10, <1>12
    <2>2. old \in Entries(Len(log)) /\ old.request = 0 /\ old.buffered = entry.buffered
      BY <1>10, SettledFacts
    <2>3. /\ entry'.fromSeq = from /\ entry'.request = 0
          /\ entry'.confirmed = WithBuffered(from)
      <3> HIDE DEF from, old
      <3>1. /\ Seat(old, from).fromSeq = from /\ Seat(old, from).request = old.request
            /\ Seat(old, from).confirmed
                 = Applied(Interval(1, from)) \o Applied(Only(old.buffered, from + 1 .. Len(log)))
        BY <1>10, <2>1, <2>2, SeatFacts
      <3> QED BY <2>1, <2>2, <3>1 DEF WithBuffered
    <2>4. msg = SnapshotOf(from)
      <3>1. msg \in Messages(Len(log)) /\ msg.type = "snapshot" /\ msg.id = entry.request
        BY <1>1, <1>7, <1>12 DEF FeedFacts, IsAwaited
      <3>2. msg \in [type : {"snapshot"}, id : 1 .. MaxRequests, fromSeq : 0 .. Len(log)]
        BY <3>1 DEF Messages
      <3> QED BY <3>1, <3>2 DEF SnapshotOf
    <2>5. ~gap => IsFed /\ IsWhole(from)
      BY <1>7, <2>1, <2>4 DEF FeedInv, SnapshotIsFed, IsPromised
    <2>6. Place' = PlaceOf(from) /\ PlaceOf(from) \in Nat
      BY <1>1, <1>2, <2>1, <2>3 DEF Place, PlaceOf, FeedFacts
    <2> DEFINE near == PlaceOf(from)
    <2>7. StateIsFed'
      <3> SUFFICES ASSUME ~gap PROVE IsFed /\ Follows(Place)'
        BY <1>2 DEF StateIsFed, IsFed
      <3>1. near \in Nat /\ Follows(near) /\ Place' = near
        BY <2>5, <2>6 DEF IsWhole
      <3> HIDE DEF near
      <3>2. StillFollows(near)
        BY <1>6, <3>1
      <3> QED BY <2>5, <3>1, <3>2 DEF Follows, StillFollows
    <2>8. StateIsPlaced'
      BY <1>2, <2>3, <2>5, <2>6
         DEF IsWhole, StateIsPlaced, Applied, IsApplied, IsOfSession, Interval
    <2> QED BY <1>5, <1>9, <2>3, <2>7, <2>8 DEF FeedInv
  <1> QED BY <1>8, <1>11, <1>12


(* After a reconnection only actions are still to come. *)
LEMMA ResumedFeed ==
    ASSUME conn' = "Connected", \A i \in DOMAIN toClient' : toClient'[i].type = "action",
           requests' = {}, answers' = {}, StateIsFed', StateIsPlaced'
    PROVE  FeedInv'
  <1>1. \A m \in Coming' : m.type = "action"
    BY DEF Coming
  <1>2. SnapshotIsFed'
    BY <1>1 DEF SnapshotIsFed, IsPromised, SnapshotOf
  <1> QED BY <1>2 DEF FeedInv, AnswerIsFed

LEMMA ReadReplayFeed ==
    ASSUME Typed, Phases, NewsIsAhead, FeedInv, ReadReplay PROVE FeedInv'
  <1> DEFINE msg == Head(toClient)
             seqs == msg.serverSeqs
             kept == DropReplayed(entry, seqs)
  <1>1. FeedFacts
    BY FeedTyped
  <1>2. /\ ReadFromServer /\ msg.type = "replay" /\ UNCHANGED <<log, subscription>>
        /\ gap' = (gap \/ (HasState /\ \E k \in ToSet(OfSession(seqs)) : k <= entry.fromSeq))
    BY DEF ReadReplay, Resume, host
  <1>3. /\ seqs \in Seq(1 .. Len(log)) /\ kept \in Entries(Len(log))
        /\ kept = [entry EXCEPT !.pending = kept.pending]
        /\ entry' = Receive(kept, seqs) /\ conn = "Asked" /\ conn' = "Connected"
        /\ requests' = {} /\ answers' = {}
        /\ \A i \in DOMAIN toClient' : toClient'[i].type = "action"
        /\ serverSeq <= serverSeq'
        /\ \A k : Contains(seqs, k) => k <= serverSeq'
        /\ serverSeq' = serverSeq \/ Contains(seqs, serverSeq')
    BY ReadReplayTypes
  <1> HIDE DEF kept
  <1>4. /\ kept.status = entry.status /\ kept.fromSeq = entry.fromSeq
        /\ kept.confirmed = entry.confirmed
    BY <1>1, <1>3 DEF FeedFacts, Entries
  <1>5. /\ entry'.status = entry.status /\ entry'.fromSeq = entry.fromSeq
        /\ HasState => entry'.confirmed = entry.confirmed \o Applied(seqs)
    <2>1. LogType
      BY <1>1 DEF FeedFacts
    <2> HIDE DEF seqs
    <2> QED BY <1>3, <1>4, <2>1, ReceiveFacts DEF HasState
  <1>6. ASSUME HasState, ~gap'
        PROVE  /\ IsFed
               /\ entry'.confirmed = Applied(Interval(1, Place'))
               /\ StillFollows(Place')
    <2>1. ~gap /\ \A k \in ToSet(OfSession(seqs)) : ~(k <= entry.fromSeq)
      BY <1>2, <1>6
    <2>2. IsFed /\ ReplayIsWhole(seqs)
      <3>1. msg \in Coming
        BY <1>2, ReadIs DEF Coming
      <3> QED BY <1>2, <1>3, <1>6, <2>1, <3>1 DEF FeedInv, AnswerIsFed, ReplayIsFed
    <2>3. PICK last \in 0 .. Len(log) :
             /\ serverSeq <= last /\ entry.fromSeq <= last
             /\ seqs = Interval(serverSeq + 1, last) /\ Follows(last)
      BY <2>2 DEF ReplayIsWhole
    <2>4. last \in Nat /\ Len(log) \in Nat /\ serverSeq \in Nat /\ entry.fromSeq \in Nat
      BY <1>1, <2>3 DEF FeedFacts
    <2>5. \A k : Contains(seqs, k) <=> k \in serverSeq + 1 .. last
      BY <2>3, <2>4, IntervalContains
    <2>6. serverSeq' = last
      <3>1. CASE serverSeq = last
        <4>1. ~Contains(seqs, serverSeq')
          <5> SUFFICES ASSUME serverSeq' \in serverSeq + 1 .. last PROVE FALSE
            BY <2>5
          <5> QED BY <2>4, <3>1
        <4> QED BY <1>3, <3>1, <4>1
      <3>2. CASE serverSeq # last
        <4>1. last \in serverSeq + 1 .. last
          BY <2>3, <2>4, <3>2
        <4>2. last <= serverSeq'
          BY <1>3, <2>5, <4>1
        <4>3. serverSeq' \in serverSeq + 1 .. last
          BY <1>3, <2>3, <2>4, <2>5, <3>2, <4>2
        <4> QED BY <2>4, <4>2, <4>3
      <3> QED BY <3>1, <3>2
    <2>7. Place' = last
      BY <1>5, <2>3, <2>4, <2>6 DEF Place, PlaceOf
    <2>8. entry'.confirmed = Applied(Interval(1, Place)) \o Applied(seqs)
      BY <1>5, <1>6, <2>1 DEF FeedInv, StateIsPlaced
    <2>9. Applied(seqs) = Applied(Interval(Place + 1, last))
      <3>1. CASE serverSeq >= entry.fromSeq
        <4>1. Place = serverSeq
          BY <3>1 DEF Place, PlaceOf
        <4> QED BY <2>3, <4>1
      <3>2. CASE ~(serverSeq >= entry.fromSeq)
        <4> DEFINE first == serverSeq + 1
                   middle == entry.fromSeq
                   a == Interval(first, middle)
                   b == Interval(middle + 1, last)
        <4>1. /\ first \in 1 .. Len(log) + 1 /\ middle \in 0 .. Len(log) /\ last \in 0 .. Len(log)
              /\ first <= middle + 1 /\ middle <= last /\ Place = middle
          BY <1>1, <2>3, <2>4, <3>2 DEF Place, PlaceOf, FeedFacts
        <4>2. LogType
          BY <1>1 DEF FeedFacts
        <4>3. \A k : Contains(a, k) <=> k \in first .. middle
          BY <2>4, IntervalContains
        <4>4. ASSUME NEW k \in DOMAIN log, Contains(a, k) PROVE ~IsApplied(k)
          <5> SUFFICES ASSUME IsApplied(k) PROVE FALSE
            OBVIOUS
          <5>1. k \in serverSeq + 1 .. last /\ k <= entry.fromSeq
            BY <2>3, <2>4, <4>3, <4>4
          <5>2. Contains(OfSession(seqs), k) /\ OfSession(seqs) \in Seq(1 .. Len(log))
            <6>1. Contains(seqs, k) /\ IsOfSession(k)
              BY <2>5, <5>1 DEF IsApplied
            <6> HIDE DEF seqs
            <6> QED BY <1>3, <4>2, <6>1, AppliedFacts
          <5>3. k \in ToSet(OfSession(seqs))
            BY <5>2, ContainsIsMember
          <5> QED BY <2>1, <5>1, <5>3
        <4> HIDE DEF first, middle
        <4>5. /\ Applied(Interval(first, last)) = Applied(a) \o Applied(b)
              /\ a \in Seq(1 .. Len(log)) /\ b \in Seq(1 .. Len(log))
          BY <4>1, <4>2, AppliedSplits
        <4> HIDE DEF a, b
        <4>6. Applied(a) = <<>>
          BY <4>2, <4>4, <4>5, AppliedNone
        <4>7. Applied(b) \in Seq(1 .. Len(log))
          BY <4>2, <4>5, AppliedFacts
        <4>8. Applied(Interval(first, last)) = Applied(b)
          BY <4>5, <4>6, <4>7
        <4> QED BY <2>3, <4>1, <4>8 DEF first, middle, b
      <3> QED BY <3>1, <3>2
    <2>10. Applied(Interval(1, last)) = Applied(Interval(1, Place)) \o Applied(Interval(Place + 1, last))
      <3> DEFINE near == Place
      <3>1. near \in 0 .. Len(log) /\ near <= last /\ 1 <= near + 1 /\ 1 \in 1 .. Len(log) + 1
        BY <1>1, <2>3, <2>4 DEF Place, PlaceOf, FeedFacts
      <3>2. LogType
        BY <1>1 DEF FeedFacts
      <3> HIDE DEF near
      <3>3. Applied(Interval(1, last)) = Applied(Interval(1, near)) \o Applied(Interval(near + 1, last))
        BY <2>3, <3>1, <3>2, AppliedSplits
      <3> QED BY <3>3 DEF near
    <2>11. StillFollows(last)
      BY <1>2, <2>3, <2>4, FollowsRest
    <2> QED BY <2>2, <2>7, <2>8, <2>9, <2>10, <2>11
  <1>7. StateIsFed'
    BY <1>2, <1>5, <1>6 DEF StateIsFed, HasState, IsFed, Follows, StillFollows
  <1>8. StateIsPlaced'
    BY <1>2, <1>5, <1>6 DEF StateIsPlaced, HasState, Applied, IsApplied, IsOfSession
  <1> QED BY <1>3, <1>7, <1>8, ResumedFeed

LEMMA ReadSnapshotsFeed ==
    ASSUME Typed, Phases, NewsIsAhead, FeedInv, ReadSnapshots PROVE FeedInv'
  <1> DEFINE msg == Head(toClient)
             from == msg.fromSeq
             old == [Settled(entry) EXCEPT !.pending = <<>>]
             seated == msg.subscribed /\ IsHeld
  <1>1. FeedFacts
    BY FeedTyped
  <1>2. ReadFromServer /\ msg.type = "snapshots" /\ UNCHANGED <<log, subscription>>
    BY DEF ReadSnapshots, Resume, host
  <1>3. /\ from \in 0 .. Len(log) /\ conn = "Asked" /\ conn' = "Connected"
        /\ requests' = {} /\ answers' = {}
        /\ \A i \in DOMAIN toClient' : toClient'[i].type = "action"
        /\ serverSeq' = IF serverSeq >= from THEN serverSeq ELSE from
        /\ ~seated => entry' = entry
        /\ seated => /\ old \in Entries(Len(log)) /\ entry' = Seat(old, from)
                     /\ old.buffered = entry.buffered
                     /\ ~gap' => \A k \in from + 1 .. serverSeq : ~IsApplied(k)
    BY ReadSnapshotsTypes
  <1>4. SnapshotsAreFed(msg)
    <2>1. msg \in Coming
      BY <1>2, ReadIs DEF Coming
    <2> QED BY <1>2, <1>3, <2>1 DEF FeedInv, AnswerIsFed
  <1>5. (HasState => msg.subscribed) /\ (msg.subscribed => IsFed /\ Follows(PlaceOf(from)))
    BY <1>4 DEF SnapshotsAreFed
  <1>6. CASE ~seated
    <2>1. ~HasState'
      BY <1>3, <1>5, <1>6 DEF HasState, IsHeld
    <2> QED BY <1>3, <2>1, ResumedFeed DEF StateIsFed, StateIsPlaced
  <1>7. CASE seated
    <2> DEFINE near == PlaceOf(from)
    <2>1. old \in Entries(Len(log)) /\ entry' = Seat(old, from) /\ old.buffered = entry.buffered
      BY <1>3, <1>7
    <2>2. IsFed /\ Follows(near) /\ near \in Nat
      BY <1>1, <1>3, <1>5, <1>7 DEF FeedFacts
    <2>3. StillFollows(near)
      <3>1. msg.type # "action"
        BY <1>2
      <3> HIDE DEF near
      <3> QED BY <1>2, <2>2, <3>1, FollowsRest
    <2> HIDE DEF old
    <2>4. entry'.fromSeq = from /\ entry'.confirmed = WithBuffered(from)
      <3>1. from \in 0 .. Len(log) /\ LogType
        BY <1>1, <1>3 DEF FeedFacts
      <3> HIDE DEF from
      <3>2. /\ Seat(old, from).fromSeq = from
            /\ Seat(old, from).confirmed
                 = Applied(Interval(1, from)) \o Applied(Only(old.buffered, from + 1 .. Len(log)))
        BY <2>1, <3>1, SeatFacts
      <3> QED BY <2>1, <3>2 DEF WithBuffered
    <2>5. Place' = near
      BY <1>1, <1>3, <2>4 DEF Place, PlaceOf, FeedFacts
    <2>6. StateIsFed'
      BY <1>2, <2>2, <2>3, <2>5 DEF StateIsFed, IsFed, Follows, StillFollows
    <2>7. StateIsPlaced'
      <3> SUFFICES ASSUME ~gap' PROVE entry'.confirmed = Applied(Interval(1, near))
        BY <1>2, <2>5 DEF StateIsPlaced, Applied, IsApplied, IsOfSession
      <3>1. \A k \in from + 1 .. serverSeq : ~IsApplied(k)
        BY <1>3, <1>7
      <3>2. from \in 0 .. Len(log)
        BY <1>3
      <3> HIDE DEF from
      <3>3. WithBuffered(from) = Applied(Interval(1, PlaceOf(from)))
        BY <3>1, <3>2, NoneMissed
      <3> QED BY <2>4, <3>3
    <2> QED BY <1>3, <2>6, <2>7, ResumedFeed
  <1> QED BY <1>6, <1>7


-----------------------------------------------------------------------------
(* The host feeds the client *)

(* What is on its way is not lost. *)
Stays == \A x : Contains(toClient, x) => Contains(toClient', x)

LEMMA FollowsStays ==
    ASSUME UNCHANGED log, Stays, NEW from, Follows(from) PROVE Follows(from)'
  BY DEF Stays, Follows, IsApplied, IsOfSession

LEMMA WholeStays ==
    ASSUME UNCHANGED <<serverSeq, log>>, Stays, entry'.buffered = entry.buffered,
           NEW from, IsWhole(from)
    PROVE  IsWhole(from)'
  <1>1. PICK near : near = PlaceOf(from)
    OBVIOUS
  <1>2. Follows(near) /\ WithBuffered(from) = Applied(Interval(1, near)) /\ PlaceOf(from)' = near
    BY <1>1 DEF IsWhole, PlaceOf
  <1>3. Follows(near)'
    BY <1>2, FollowsStays
  <1>4. Follows(PlaceOf(from))'
    BY <1>2, <1>3 DEF Follows
  <1>5. (WithBuffered(from) = Applied(Interval(1, PlaceOf(from))))'
    BY <1>2 DEF WithBuffered, Applied, IsApplied, IsOfSession, Interval
  <1> QED BY <1>4, <1>5 DEF IsWhole

LEMMA StayByAppend ==
    ASSUME Typed, NEW m, toClient' = Append(toClient, m) PROVE Stays
  <1>1. toClient \in Seq(Messages(Len(log)))
    BY TypedParts DEF WireTypes
  <1> QED BY <1>1 DEF Stays, Contains

(* A step that takes no message off and leaves the state as it is. *)
LEMMA QuietState ==
    ASSUME Typed, FeedInv, UNCHANGED <<conn, serverSeq, log>>, Stays, IsFed => IsFed',
           HasState' => /\ HasState /\ (gap => gap')
                        /\ entry'.fromSeq = entry.fromSeq /\ entry'.confirmed = entry.confirmed,
           conn = "Asked" => \A msg \in Coming' : msg.type \in Results => msg \in Coming
    PROVE  StateIsFed' /\ AnswerIsFed' /\ StateIsPlaced'
  <1>1. PICK near : near = Place
    OBVIOUS
  <1>2. HasState' => Place' = near
    BY <1>1 DEF Place, PlaceOf
  <1>3. StateIsFed'
    <2> SUFFICES ASSUME conn = "Connected", HasState', ~gap' PROVE IsFed' /\ Follows(Place)'
      BY DEF StateIsFed
    <2>1. IsFed /\ Follows(near)
      BY <1>1 DEF FeedInv, StateIsFed
    <2>2. Follows(near)'
      BY <2>1, FollowsStays
    <2> QED BY <1>2, <2>1, <2>2 DEF Follows
  <1>4. StateIsPlaced'
    BY <1>1, <1>2 DEF FeedInv, StateIsPlaced, Applied, IsApplied, IsOfSession
  <1>5. AnswerIsFed'
    <2> SUFFICES ASSUME conn = "Asked", NEW msg \in Coming'
                 PROVE  /\ msg.type = "snapshots" => SnapshotsAreFed(msg)'
                        /\ msg.type = "replay" => ReplayIsFed(msg)'
      BY DEF AnswerIsFed
    <2>1. /\ msg.type = "snapshots" => SnapshotsAreFed(msg)
          /\ msg.type = "replay" => ReplayIsFed(msg)
      BY DEF Results, FeedInv, AnswerIsFed
    <2>2. SnapshotsAreFed(msg) => SnapshotsAreFed(msg)'
      <3> SUFFICES ASSUME SnapshotsAreFed(msg) PROVE SnapshotsAreFed(msg)'
        OBVIOUS
      <3>1. PICK far : far = PlaceOf(msg.fromSeq)
        OBVIOUS
      <3>2. /\ HasState => msg.subscribed
            /\ msg.subscribed => IsFed /\ Follows(far)
            /\ PlaceOf(msg.fromSeq)' = far
        BY <3>1 DEF SnapshotsAreFed, PlaceOf
      <3>3. Follows(far) => Follows(far)'
        BY FollowsStays
      <3>4. Follows(far)' => Follows(PlaceOf(msg.fromSeq))'
        BY <3>2 DEF Follows
      <3> QED BY <3>2, <3>3, <3>4 DEF SnapshotsAreFed
    <2>3. ReplayIsFed(msg) => ReplayIsFed(msg)'
      <3> SUFFICES ASSUME ReplayIsFed(msg), HasState', ~gap'
                   PROVE  IsFed' /\ ReplayIsWhole(msg.serverSeqs)'
        BY DEF ReplayIsFed
      <3>1. IsFed /\ ReplayIsWhole(msg.serverSeqs)
        BY DEF ReplayIsFed
      <3>2. PICK last \in 0 .. Len(log) :
               /\ serverSeq <= last /\ entry.fromSeq <= last
               /\ msg.serverSeqs = Interval(serverSeq + 1, last) /\ Follows(last)
        BY <3>1 DEF ReplayIsWhole
      <3>3. Follows(last)'
        BY <3>2, FollowsStays
      <3> QED BY <3>1, <3>2, <3>3 DEF ReplayIsWhole, Interval
    <2> QED BY <2>1, <2>2, <2>3
  <1> QED BY <1>3, <1>4, <1>5

(* A step that promises no other snapshot. *)
LEMMA QuietPromises ==
    ASSUME FeedInv, UNCHANGED <<serverSeq, log>>, Stays, IsFed => IsFed', gap => gap',
           entry'.buffered = entry.buffered, entry'.request = entry.request,
           \A msg \in Coming' : msg.type = "snapshot" => msg \in Coming,
           \A r \in requests' : r \in requests \/ r.fromSeq = NotTaken
    PROVE  SnapshotIsFed'
  <1> SUFFICES ASSUME ~gap', NEW from \in 0 .. Len(log), IsPromised(from)'
               PROVE  IsFed' /\ IsWhole(from)'
    BY DEF SnapshotIsFed
  <1>1. IsPromised(from)
    <2>1. CASE SnapshotOf(from)' \in Coming'
      <3>1. PICK msg \in Coming' : msg = SnapshotOf(from)'
        BY <2>1
      <3>2. msg.type = "snapshot" /\ msg = SnapshotOf(from)
        BY <3>1 DEF SnapshotOf
      <3> QED BY <3>2 DEF IsPromised
    <2>2. CASE \E r \in requests' :
                  r.id = entry'.request /\ r.subscription.state = "active" /\ r.fromSeq = from
      <3>1. from # NotTaken
        BY DEF NotTaken
      <3> QED BY <2>2, <3>1 DEF IsPromised
    <2> QED BY <2>1, <2>2 DEF IsPromised
  <1>2. IsFed /\ IsWhole(from)
    BY <1>1 DEF FeedInv, SnapshotIsFed
  <1> QED BY <1>2, WholeStays

LEMMA QuietFeed ==
    ASSUME Typed, FeedInv, UNCHANGED <<conn, serverSeq, log>>, Stays, IsFed => IsFed',
           gap => gap',
           /\ entry'.status = entry.status /\ entry'.fromSeq = entry.fromSeq
           /\ entry'.confirmed = entry.confirmed
           /\ entry'.buffered = entry.buffered /\ entry'.request = entry.request,
           Coming' = Coming, \A r \in requests' : r \in requests \/ r.fromSeq = NotTaken
    PROVE  FeedInv'
  <1>1. StateIsFed' /\ AnswerIsFed' /\ StateIsPlaced'
    BY QuietState DEF HasState
  <1>2. SnapshotIsFed'
    BY QuietPromises
  <1> QED BY <1>1, <1>2 DEF FeedInv

(* An action that the host carries out goes to the client that is fed. *)
LEMMA PublishFeed ==
    ASSUME Typed, Phases, FeedInv, NEW envelope \in Envelopes, Publish(envelope),
           UNCHANGED <<conn, serverSeq, entry, attached, restoring, subscription, requests, answers>>
    PROVE  FeedInv'
  <1>1. FeedFacts
    BY FeedTyped
  <1> DEFINE m == Action(Len(log'))
             n == Len(log)
  <1>2. /\ LogGrows(envelope) /\ (~gap' => ~gap)
        /\ toClient' = IF IsActive(envelope.channel) THEN Append(toClient, m) ELSE toClient
    BY <1>1 DEF Publish, LogGrows, Action, FeedFacts
  <1>3. /\ DOMAIN log = 1 .. n /\ DOMAIN log' = 1 .. n + 1 /\ n \in Nat /\ Len(log') = n + 1
        /\ \A k \in DOMAIN log : log'[k] = log[k]
    BY <1>1, <1>2, LogGrowsFacts DEF FeedFacts
  <1>4. toClient \in Seq(Messages(n)) /\ m.type = "action"
    BY <1>1 DEF FeedFacts, Action
  <1>5. /\ \A k \in DOMAIN log : IsApplied(k)' <=> IsApplied(k)
        /\ \A s \in Seq(1 .. n) : Only(s, {l \in DOMAIN log' : IsApplied(l)'}) = Applied(s)
    BY <1>1, <1>2, AppliedLater DEF FeedFacts
  <1>6. m = Action(n + 1)
    BY <1>3
  <1> HIDE DEF m, n
  <1>7. \A msg \in Coming' : msg \in Coming \/ msg = m
    <2>1. CASE toClient' = Append(toClient, m)
      BY <2>1, ComingMore
    <2>2. CASE toClient' = toClient
      BY <2>2 DEF Coming
    <2> QED BY <1>2, <2>1, <2>2
  <1>8. Stays
    BY <1>2, StayByAppend DEF Stays
  (* The old rest of the feed and the new action. *)
  <1>9. ASSUME IsFed, attached, ~restoring.on, NEW from, Follows(from) PROVE Follows(from)'
    <2>1. toClient' = Append(toClient, m)
      BY <1>2, <1>9 DEF IsActive, IsFed
    <2>2. Contains(toClient', m)
      <3>1. Len(toClient) + 1 \in DOMAIN toClient' /\ toClient'[Len(toClient) + 1] = m
        BY <1>4, <2>1
      <3>2. DOMAIN toClient' = 1 .. Len(toClient')
        BY <1>4, <2>1
      <3> QED BY <3>1, <3>2 DEF Contains
    <2> SUFFICES ASSUME NEW k \in DOMAIN log', from < k, IsApplied(k)'
                 PROVE  Contains(toClient', Action(k))
      BY DEF Follows
    <2>3. CASE k \in DOMAIN log
      BY <1>5, <1>8, <1>9, <2>3 DEF Follows, Stays
    <2>4. CASE k \notin DOMAIN log
      <3>1. k = n + 1
        BY <1>3, <2>4
      <3> QED BY <1>6, <2>2, <3>1
    <2> QED BY <2>3, <2>4
  <1>10. conn = "Connected" => attached /\ ~restoring.on
    BY PhaseTypes
  <1>11. Place' = Place /\ Place \in 0 .. n
    BY <1>1 DEF Place, PlaceOf, FeedFacts, n
  <1>12. StateIsFed'
    <2> SUFFICES ASSUME conn = "Connected", HasState, ~gap' PROVE IsFed /\ Follows(Place)'
      BY DEF StateIsFed, HasState, IsFed
    <2>1. PICK near : near = Place
      OBVIOUS
    <2>2. IsFed /\ Follows(near)
      BY <1>2, <2>1 DEF FeedInv, StateIsFed
    <2>3. Follows(near)'
      BY <1>9, <1>10, <2>2
    <2> QED BY <1>11, <2>1, <2>2, <2>3 DEF Follows
  <1>13. SnapshotIsFed'
    <2> SUFFICES ASSUME ~gap', NEW from \in 0 .. Len(log'), IsPromised(from)'
                 PROVE  IsFed' /\ IsWhole(from)'
      BY DEF SnapshotIsFed
    <2>1. IsPromised(from) /\ from \in Nat
      <3>1. SnapshotOf(from)' = SnapshotOf(from) /\ SnapshotOf(from).type = "snapshot"
        BY DEF SnapshotOf
      <3>2. SnapshotOf(from) # m
        BY <1>4, <3>1
      <3>3. from \in Nat
        BY <1>3
      <3> QED BY <1>7, <3>1, <3>2, <3>3 DEF IsPromised
    <2>2. conn = "Connected" /\ from \in 0 .. n
      BY <2>1, PromiseFacts DEF n
    <2>3. IsFed /\ IsWhole(from)
      BY <1>2, <2>1, <2>2 DEF FeedInv, SnapshotIsFed, n
    <2>4. PICK near : near = PlaceOf(from)
      OBVIOUS
    <2>5. /\ Follows(near) /\ WithBuffered(from) = Applied(Interval(1, near))
          /\ near \in 0 .. n /\ PlaceOf(from)' = near
      BY <1>1, <2>2, <2>3, <2>4 DEF IsWhole, PlaceOf, FeedFacts, n
    <2>6. Follows(PlaceOf(from))'
      <3>1. Follows(near)'
        BY <1>9, <1>10, <2>2, <2>3, <2>5
      <3> QED BY <2>5, <3>1 DEF Follows
    <2> DEFINE before == Interval(1, from)
               after == Only(entry.buffered, from + 1 .. n)
               new == {l \in DOMAIN log' : IsApplied(l)'}
    <2>7. entry.buffered \in Seq(1 .. n) /\ before \in Seq(1 .. n) /\ Interval(1, near) \in Seq(1 .. n)
      <3>1. entry.buffered \in Seq(1 .. n)
        BY <1>1 DEF FeedFacts, n
      <3>2. from \in Int /\ near \in Int /\ 1 \in Int /\ 1 .. from \subseteq 1 .. n
            /\ 1 .. near \subseteq 1 .. n
        BY <1>3, <2>2, <2>5
      <3> QED BY <3>1, <3>2, IntervalContains
    <2>8. after \in Seq(1 .. n) /\ Only(entry.buffered, from + 1 .. n + 1) = after
      <3>1. \A k : Contains(entry.buffered, k) => k \in 1 .. n
        <4> DEFINE b == entry.buffered
                   T == 1 .. n
        <4>1. b \in Seq(T)
          BY <2>7
        <4> HIDE DEF b, T
        <4>2. \A k : Contains(b, k) => k \in T
          BY <4>1 DEF Contains
        <4> QED BY <4>2 DEF b, T
      <3>2. \A k \in 1 .. n : k \in from + 1 .. n + 1 <=> k \in from + 1 .. n
        BY <1>3, <2>2
      <3>3. \A k : Contains(entry.buffered, k) => (k \in from + 1 .. n + 1 <=> k \in from + 1 .. n)
        BY <3>1, <3>2
      <3> DEFINE wide == from + 1 .. n + 1
                 narrow == from + 1 .. n
      <3> HIDE DEF wide, narrow
      <3>4. Only(entry.buffered, wide) = Only(entry.buffered, narrow)
        BY <2>7, <3>3, OnlySame DEF wide, narrow
      <3>5. Only(entry.buffered, narrow) \in Seq(1 .. n)
        BY <2>7, OnlyFacts
      <3> QED BY <3>4, <3>5 DEF wide, narrow
    <2> HIDE DEF before, after
    <2>9. WithBuffered(from) = Applied(before) \o Applied(after)
      BY DEF WithBuffered, before, after, n
    <2>10. WithBuffered(from)' = Only(before, new) \o Only(after, new)
      BY <1>3, <2>8 DEF WithBuffered, Applied, before, Interval
    <2>11. Applied(Interval(1, PlaceOf(from)))' = Only(Interval(1, near), new)
      BY <2>5 DEF Applied, Interval
    <2>12. /\ Only(before, new) = Applied(before) /\ Only(after, new) = Applied(after)
           /\ Only(Interval(1, near), new) = Applied(Interval(1, near))
      BY <1>5, <2>7, <2>8
    <2> HIDE DEF new
    <2> QED BY <2>3, <2>5, <2>6, <2>9, <2>10, <2>11, <2>12 DEF IsWhole, IsFed
  <1>14. AnswerIsFed'
    <2> SUFFICES ASSUME conn = "Asked", NEW msg \in Coming', msg.type \in Results
                 PROVE  /\ msg.type = "snapshots" => SnapshotsAreFed(msg)'
                        /\ msg.type = "replay" => ReplayIsFed(msg)'
      BY DEF AnswerIsFed, Results
    <2>1. msg \in Coming
      BY <1>4, <1>7 DEF Results
    <2>2. attached /\ ~restoring.on
      <3>1. ~(toClient = <<>> /\ answers = {})
        BY <2>1 DEF Coming
      <3>2. IsReady \/ IsAnswered
        BY <3>1, AskedPhases DEF IsRestoring
      <3> QED BY <3>2 DEF IsReady, IsAnswered
    <2>3. ASSUME msg.type = "snapshots" PROVE SnapshotsAreFed(msg)'
      <3>1. PICK far : far = PlaceOf(msg.fromSeq)
        OBVIOUS
      <3>2. /\ HasState => msg.subscribed
            /\ msg.subscribed => IsFed /\ Follows(far)
            /\ PlaceOf(msg.fromSeq)' = far
        BY <2>1, <2>3, <3>1 DEF FeedInv, AnswerIsFed, SnapshotsAreFed, PlaceOf
      <3>3. msg.subscribed => Follows(far)'
        BY <1>9, <2>2, <3>2
      <3>4. Follows(far)' => Follows(PlaceOf(msg.fromSeq))'
        BY <3>2 DEF Follows
      <3> QED BY <3>2, <3>3, <3>4 DEF SnapshotsAreFed, HasState, IsFed
    <2>4. ASSUME msg.type = "replay" PROVE ReplayIsFed(msg)'
      <3>1. (HasState' => HasState) /\ (IsFed => IsFed')
        BY DEF HasState, IsFed
      <3>2. HasState => IsFed /\ (gap \/ ReplayIsWhole(msg.serverSeqs))
        BY <2>1, <2>4 DEF FeedInv, AnswerIsFed, ReplayIsFed
      <3>3. ASSUME IsFed, ReplayIsWhole(msg.serverSeqs) PROVE ReplayIsWhole(msg.serverSeqs)'
        <4>1. PICK last \in 0 .. Len(log) :
                 /\ serverSeq <= last /\ entry.fromSeq <= last
                 /\ msg.serverSeqs = Interval(serverSeq + 1, last) /\ Follows(last)
          BY <3>3 DEF ReplayIsWhole
        <4>2. Follows(last)'
          BY <1>9, <2>2, <3>3, <4>1
        <4>3. last \in 0 .. Len(log')
          BY <1>3, <4>1 DEF n
        <4> QED BY <4>1, <4>2, <4>3 DEF ReplayIsWhole, Interval
      <3>4. (gap \/ ReplayIsWhole(msg.serverSeqs)) /\ IsFed => gap' \/ ReplayIsWhole(msg.serverSeqs)'
        BY <1>2, <3>3
      <3> QED BY <3>1, <3>2, <3>4 DEF ReplayIsFed
    <2> QED BY <2>3, <2>4
  <1>15. StateIsPlaced'
    <2> SUFFICES ASSUME HasState, ~gap'
                 PROVE  entry.confirmed = Applied(Interval(1, Place))'
      BY DEF StateIsPlaced, HasState
    <2>1. PICK near : near = Place
      OBVIOUS
    <2>2. near \in 0 .. n /\ Place' = near /\ entry.confirmed = Applied(Interval(1, near))
      BY <1>2, <1>11, <2>1 DEF FeedInv, StateIsPlaced
    <2>3. Interval(1, near) \in Seq(1 .. n)
      <3>1. near \in Int /\ 1 \in Int /\ 1 .. near \subseteq 1 .. n
        BY <1>3, <2>2
      <3> QED BY <3>1, IntervalContains
    <2>4. Only(Interval(1, near), {l \in DOMAIN log' : IsApplied(l)'}) = Applied(Interval(1, near))
      BY <1>5, <2>3
    <2> QED BY <2>2, <2>4 DEF Applied, Interval
  <1> QED BY <1>12, <1>13, <1>14, <1>15 DEF FeedInv

LEMMA TakeFeed ==
    ASSUME Typed, Phases, FeedInv,
           UNCHANGED <<conn, serverSeq, entry, attached, restoring, subscription, requests, answers>>,
           \/ UNCHANGED <<log, toClient, gap>>
           \/ \E envelope \in Envelopes : Publish(envelope)
    PROVE  FeedInv'
  <1>1. CASE UNCHANGED <<log, toClient, gap>>
    BY <1>1, QuietFeed DEF Stays, IsFed, Coming
  <1>2. CASE \E envelope \in Envelopes : Publish(envelope)
    BY <1>2, PublishFeed
  <1> QED BY <1>1, <1>2

LEMMA HostFeed ==
    ASSUME Typed, Phases, FeedInv, ReadDispatch \/ ReadLate \/ Execute \/ ActOfOthers
    PROVE  FeedInv'
  <1>1. UNCHANGED <<conn, serverSeq, entry, attached, restoring, subscription, requests, answers>>
    BY DEF ReadDispatch, ReadLate, Execute, ActOfOthers, client
  <1>2. CASE ReadDispatch
    <2>1. Head(toServer).clientSeq \in ClientSeqs
      BY <1>2, ReadClientIs, DispatchIs DEF ReadDispatch, IsDispatch
    <2>2. Take(Head(toServer).clientSeq)
      BY <1>2 DEF ReadDispatch
    <2>3. UNCHANGED <<log, toClient, gap>> \/ \E envelope \in Envelopes : Publish(envelope)
      BY <2>1, <2>2, TakeIs
    <2> QED BY <1>1, <2>3, TakeFeed
  <1>3. CASE ReadLate
    <2>1. PICK i \in DOMAIN late : Take(Head(late[i]))
      BY <1>3 DEF ReadLate
    <2>2. Head(late[i]) \in ClientSeqs
      BY <2>1, TypedParts DEF WireTypes
    <2>3. UNCHANGED <<log, toClient, gap>> \/ \E envelope \in Envelopes : Publish(envelope)
      BY <2>1, <2>2, TakeIs
    <2> QED BY <1>1, <2>3, TakeFeed
  <1>4. CASE Execute
    <2>1. Head(queue) \in ClientSeqs
      BY <1>4, ExecuteTypes
    <2>2. PICK rejected \in BOOLEAN : Publish(OwnEnvelope(Head(queue), rejected))
      BY <1>4 DEF Execute
    <2>3. OwnEnvelope(Head(queue), rejected) \in Envelopes
      BY <2>1, OwnEnvelopeType
    <2> QED BY <1>1, <2>2, <2>3, PublishFeed
  <1>5. CASE ActOfOthers
    <2>1. PICK channel \in {"root", "session"}, rejected \in BOOLEAN :
             Publish([channel |-> channel, clientSeq |-> Others, rejected |-> rejected])
      BY <1>5 DEF ActOfOthers
    <2>2. [channel |-> channel, clientSeq |-> Others, rejected |-> rejected] \in Envelopes
      BY <1>5, BoundsAssumption DEF Envelopes, Others
    <2> QED BY <1>1, <2>1, <2>2, PublishFeed
  <1> QED BY <1>2, <1>3, <1>4, <1>5

(* The client's subscription is restored, and what it has missed is ready:  *)
(* nothing follows that yet.                                                *)
LEMMA RestoreEndsFeed ==
    ASSUME Typed, Phases, FeedInv, RestoreEnds PROVE FeedInv'
  <1>1. FeedFacts
    BY FeedTyped
  <1>2. /\ conn = "Asked" /\ toClient = <<>> /\ restoring.lastSeen = serverSeq
        /\ HasState => IsSubscribed
        /\ toClient' = <<>> /\ answers = {} /\ requests = {}
    BY RestoreEndsTypes, AskedPhases DEF IsRestoring
  <1>3. UNCHANGED <<conn, serverSeq, entry, log, requests>>
    BY DEF RestoreEnds, client
  <1>4. subscription \in Subscriptions
    BY TypedParts DEF HostTypes
  <1>5. IsSubscribed => IsFed'
    BY <1>4 DEF RestoreEnds, IsSubscribed, IsFed, Subscriptions
  <1>6. ASSUME NEW from \in Nat, Len(log) <= from PROVE Follows(from)'
    BY <1>1, <1>3, <1>6 DEF Follows, FeedFacts
  <1>7. ~gap' => ~gap
    BY <1>1 DEF RestoreEnds, FeedFacts
  <1>8. PICK m : /\ answers' = answers \cup {m} /\ m.type \in Results
                 /\ m.type = "snapshots" => m.fromSeq = Len(log) /\ m.subscribed = IsSubscribed
                 /\ m.type = "replay" /\ IsSubscribed =>
                       /\ m.serverSeqs = Replayed
                       /\ gap' = (gap \/ restoring.lastSeen + 1 < OldestBuffered)
    BY ResultIsReady
  <1>9. Coming' = {m}
    BY <1>2, <1>8 DEF Coming
  <1>10. StateIsFed'
    BY <1>2, <1>3 DEF StateIsFed
  <1>11. SnapshotIsFed'
    BY <1>2, <1>3, <1>8, <1>9 DEF SnapshotIsFed, IsPromised, SnapshotOf, Results
  <1>12. StateIsPlaced'
    BY <1>3, <1>7
       DEF FeedInv, StateIsPlaced, HasState, Place, PlaceOf, Applied, IsApplied, IsOfSession
  <1>13. m.type = "snapshots" => SnapshotsAreFed(m)'
    <2> SUFFICES ASSUME m.type = "snapshots" PROVE SnapshotsAreFed(m)'
      OBVIOUS
    <2>1. m.fromSeq = Len(log) /\ m.subscribed = IsSubscribed
      BY <1>8
    <2>2. PICK far : far = PlaceOf(m.fromSeq)'
      OBVIOUS
    <2>3. far \in Nat /\ Len(log) <= far
      <3>1. Len(log) \in Nat /\ serverSeq \in 0 .. Len(log) /\ serverSeq' = serverSeq
        BY <1>1, <1>3 DEF FeedFacts
      <3> QED BY <2>1, <2>2, <3>1 DEF PlaceOf
    <2>4. Follows(far)'
      BY <1>6, <2>3
    <2>5. Follows(PlaceOf(m.fromSeq))'
      BY <2>2, <2>4 DEF Follows
    <2> QED BY <1>2, <1>3, <1>5, <2>1, <2>5 DEF SnapshotsAreFed, HasState
  <1>14. ASSUME m.type = "replay", HasState, ~gap' PROVE ReplayIsWhole(m.serverSeqs)'
    <2>1. m.serverSeqs = Replayed /\ ~(serverSeq + 1 < OldestBuffered)
      BY <1>2, <1>8, <1>14
    <2>2. Len(log) \in Nat /\ serverSeq \in 0 .. Len(log) /\ entry.fromSeq \in 0 .. Len(log)
      BY <1>1 DEF FeedFacts
    <2>3. OldestBuffered \in Int
      <3>1. Capacity \in Int /\ 1 \in Int /\ Len(log) - Capacity + 1 \in Int
        BY <2>2, CapacityAssumption
      <3> DEFINE c == Len(log) - Capacity + 1
      <3> HIDE DEF c
      <3>2. Max({1, c}) \in Int
        BY <3>1, MaxOfTwo DEF c
      <3> QED BY <3>2 DEF OldestBuffered, c
    <2> DEFINE a == serverSeq + 1
               b == OldestBuffered
    <2>4. a \in Int /\ b \in Int /\ a >= b
      BY <2>1, <2>2, <2>3
    <2>5. Replayed = Interval(Max({a, b}), Len(log))
      BY <1>2 DEF Replayed
    <2> HIDE DEF a, b
    <2>6. Max({a, b}) = a
      BY <2>4, MaxOfTwo
    <2>7. m.serverSeqs = Interval(serverSeq + 1, Len(log))
      BY <2>1, <2>5, <2>6 DEF a
    <2>8. PICK last : last = Len(log)
      OBVIOUS
    <2>9. Follows(last)'
      BY <1>6, <2>2, <2>8
    <2>10. /\ last \in 0 .. Len(log') /\ serverSeq' <= last /\ entry'.fromSeq <= last
           /\ m.serverSeqs = Interval(serverSeq' + 1, last)
      BY <1>3, <2>2, <2>7, <2>8
    <2> QED BY <2>9, <2>10 DEF ReplayIsWhole, Interval
  <1>15. m.type = "replay" => ReplayIsFed(m)'
    BY <1>2, <1>3, <1>5, <1>14 DEF ReplayIsFed, HasState
  <1>16. AnswerIsFed'
    BY <1>9, <1>13, <1>15 DEF AnswerIsFed
  <1> QED BY <1>10, <1>11, <1>12, <1>16 DEF FeedInv

LEMMA SendAnswerFeed ==
    ASSUME Typed, Phases, FeedInv, SendAnswer PROVE FeedInv'
  <1>1. PICK msg \in answers : answers' = answers \ {msg} /\ toClient' = Append(toClient, msg)
    BY DEF SendAnswer
  <1>2. Coming' = Coming
    BY <1>1, ComingMore
  <1>3. Stays
    BY <1>1, StayByAppend
  <1>4. UNCHANGED <<conn, serverSeq, entry, log, subscription, requests, gap>>
    BY DEF SendAnswer, client
  <1> QED BY <1>2, <1>3, <1>4, QuietFeed DEF IsFed

(* A snapshot that is taken is up to date: nothing follows it, and nothing  *)
(* that is buffered is newer.                                               *)
LEMMA TakeSnapshotFeed ==
    ASSUME Typed, Phases, NewsIsAhead, FeedInv, TakeSnapshot PROVE FeedInv'
  <1>1. FeedFacts
    BY FeedTyped
  <1>2. UNCHANGED <<conn, serverSeq, entry, log, toClient, subscription, answers, gap>>
    BY DEF TakeSnapshot, client, wire
  <1>3. PICK r \in requests :
            IsCurrent(r) /\ requests' = (requests \ {r}) \cup {[r EXCEPT !.fromSeq = Len(log)]}
    BY DEF TakeSnapshot
  <1>4. r \in RequestsTo(Len(log)) /\ Stays
    BY <1>2, TypedParts DEF HostTypes, Stays
  <1>5. StateIsFed' /\ AnswerIsFed' /\ StateIsPlaced'
    <2>1. Coming' = Coming
      BY <1>2 DEF Coming
    <2> QED BY <1>2, <1>4, <2>1, QuietState DEF HasState, IsFed
  <1>6. SnapshotIsFed'
    <2> SUFFICES ASSUME ~gap, NEW from \in 0 .. Len(log), IsPromised(from)'
                 PROVE  IsFed' /\ IsWhole(from)'
      BY <1>2 DEF SnapshotIsFed
    <2>1. CASE IsPromised(from)
      <3>1. IsFed /\ IsWhole(from)
        BY <2>1 DEF FeedInv, SnapshotIsFed
      <3>2. IsWhole(from)'
        BY <1>2, <1>4, <3>1, WholeStays
      <3> QED BY <1>2, <3>1, <3>2 DEF IsFed
    <2>2. CASE ~IsPromised(from)
      <3>1. ~(SnapshotOf(from)' \in Coming')
        BY <1>2, <2>2 DEF IsPromised, SnapshotOf, Coming
      <3>2. PICK q \in requests' :
                q.id = entry'.request /\ q.subscription.state = "active" /\ q.fromSeq = from
        BY <3>1 DEF IsPromised
      <3>3. q = [r EXCEPT !.fromSeq = Len(log)]
        BY <1>2, <1>3, <2>2, <3>2 DEF IsPromised
      <3>4. from = Len(log) /\ q.subscription = r.subscription
        BY <1>4, <3>2, <3>3 DEF RequestsTo
      <3>5. IsFed
        BY <1>3, <3>2, <3>4 DEF IsCurrent, IsFed
      <3>6. IsWhole(from)
        <4>1. \A k \in from + 1 .. serverSeq : ~IsApplied(k)
          <5>1. Len(log) \in Nat /\ serverSeq \in 0 .. Len(log)
            BY <1>1 DEF FeedFacts
          <5>2. \A k \in from + 1 .. serverSeq : FALSE
            BY <3>4, <5>1
          <5> QED BY <5>2
        <4>2. WithBuffered(from) = Applied(Interval(1, PlaceOf(from)))
          BY <4>1, NoneMissed
        <4>3. PICK near : near = PlaceOf(from)
          OBVIOUS
        <4>4. near \in Nat /\ Len(log) <= near
          BY <1>1, <3>4, <4>3 DEF FeedFacts
        <4>5. Follows(near)
          BY <1>1, <4>4 DEF Follows, FeedFacts
        <4> QED BY <4>2, <4>3, <4>5 DEF IsWhole
      <3>7. IsWhole(from)'
        BY <1>2, <1>4, <3>6, WholeStays
      <3> QED BY <1>2, <3>5, <3>7 DEF IsFed
    <2> QED BY <2>1, <2>2
  <1> QED BY <1>5, <1>6 DEF FeedInv

(* The end of a request that leaves a channel active. *)
LEMMA EndRequestFeed ==
    ASSUME Typed, Phases, FeedInv, NEW r \in requests, NEW m, m.type \in Answers, NEW after,
           EndRequest(r, m, after), IsFed => IsFed', ~gap' => ~gap
    PROVE  /\ StateIsFed' /\ AnswerIsFed' /\ StateIsPlaced'
           /\ \A from \in 0 .. Len(log) : ~gap' /\ IsPromised(from) => IsFed' /\ IsWhole(from)'
           /\ \A from \in 0 .. Len(log) : IsPromised(from)' => IsPromised(from) \/ SnapshotOf(from) = m
  <1>1. /\ UNCHANGED <<conn, serverSeq, entry, log, toClient>>
        /\ requests' = requests \ {r} /\ answers' = answers \cup {m}
    BY DEF EndRequest, Answer, client, wire
  <1>2. Stays /\ Coming' = Coming \cup {m}
    BY <1>1 DEF Stays, Coming
  <1>3. gap \in BOOLEAN
    BY FeedTyped DEF FeedFacts
  <1>4. m.type \notin Results
    BY DEF Answers, Results
  <1>5. StateIsFed' /\ AnswerIsFed' /\ StateIsPlaced'
    BY <1>1, <1>2, <1>3, <1>4, QuietState DEF HasState
  <1>6. ASSUME NEW from \in 0 .. Len(log), ~gap', IsPromised(from) PROVE IsFed' /\ IsWhole(from)'
    <2>1. IsFed /\ IsWhole(from)
      BY <1>6 DEF FeedInv, SnapshotIsFed
    <2> QED BY <1>1, <1>2, <2>1, WholeStays
  <1>7. ASSUME NEW from \in 0 .. Len(log), IsPromised(from)'
        PROVE  IsPromised(from) \/ SnapshotOf(from) = m
    BY <1>1, <1>2, <1>7 DEF IsPromised, SnapshotOf
  <1> QED BY <1>5, <1>6, <1>7

(* A snapshot of a subscription that has not been active misses nothing, or *)
(* the gap is known.                                                        *)
LEMMA SubscribeEndsFeed ==
    ASSUME Typed, Phases, NewsIsAhead, FeedInv, SubscribeEnds PROVE FeedInv'
  <1>1. FeedFacts
    BY FeedTyped
  <1>2. PICK r \in requests :
            /\ IsCurrent(r)
            /\ EndRequest(r, [type |-> "snapshot", id |-> r.id, fromSeq |-> r.fromSeq],
                          [state |-> "active", id |-> r.id])
            /\ gap' = (gap \/ (/\ subscription.state # "active" /\ entry.request = r.id
                               /\ \E k \in r.fromSeq + 1 .. Len(log) : IsApplied(k)))
    BY DEF SubscribeEnds
  <1> DEFINE m == [type |-> "snapshot", id |-> r.id, fromSeq |-> r.fromSeq]
  <1>3. m.type \in Answers /\ m.id = r.id /\ m.fromSeq = r.fromSeq
    BY DEF Answers
  <1>4. EndRequest(r, m, [state |-> "active", id |-> r.id])
    BY <1>2
  <1>5. IsFed' /\ (~gap' => ~gap) /\ UNCHANGED <<serverSeq, entry, log, toClient>>
    BY <1>1, <1>2 DEF EndRequest, IsFed, FeedFacts, client, wire
  <1> HIDE DEF m
  <1>6. /\ StateIsFed' /\ AnswerIsFed' /\ StateIsPlaced'
        /\ \A from \in 0 .. Len(log) : ~gap' /\ IsPromised(from) => IsFed' /\ IsWhole(from)'
        /\ \A from \in 0 .. Len(log) : IsPromised(from)' => IsPromised(from) \/ SnapshotOf(from) = m
    BY <1>3, <1>4, <1>5, EndRequestFeed
  <1>7. SnapshotIsFed'
    <2> SUFFICES ASSUME ~gap', NEW from \in 0 .. Len(log), IsPromised(from)', ~IsPromised(from)
                 PROVE  IsWhole(from)'
      BY <1>5, <1>6 DEF SnapshotIsFed
    <2>1. SnapshotOf(from) = m
      BY <1>6
    <2>2. r.id = entry.request /\ r.fromSeq = from
      <3>1. SnapshotOf(from).id = entry.request /\ SnapshotOf(from).fromSeq = from
        BY DEF SnapshotOf
      <3> QED BY <1>3, <2>1, <3>1
    <2>3. subscription.state # "active"
      BY <1>2, <2>2 DEF IsPromised, IsCurrent
    <2>4. \A k \in from + 1 .. Len(log) : ~IsApplied(k)
      BY <1>2, <2>2, <2>3
    <2>5. Len(log) \in Nat /\ serverSeq \in 0 .. Len(log) /\ DOMAIN log = 1 .. Len(log)
      BY <1>1 DEF FeedFacts
    <2>6. WithBuffered(from) = Applied(Interval(1, PlaceOf(from)))
      <3>1. \A k \in from + 1 .. serverSeq : k \in from + 1 .. Len(log)
        BY <2>5
      <3> QED BY <2>4, <3>1, NoneMissed
    <2>7. Follows(PlaceOf(from))
      <3>1. PICK near : near = PlaceOf(from)
        OBVIOUS
      <3>2. near \in Nat /\ from <= near
        BY <1>1, <3>1 DEF FeedFacts
      <3>3. \A k \in DOMAIN log : near < k => k \in from + 1 .. Len(log)
        BY <2>5, <3>2
      <3>4. Follows(near)
        BY <2>4, <3>3 DEF Follows
      <3> QED BY <3>1, <3>4
    <2>8. IsWhole(from)
      BY <2>6, <2>7 DEF IsWhole
    <2> QED BY <1>5, <2>8, WholeStays DEF Stays
  <1> QED BY <1>6, <1>7 DEF FeedInv

LEMMA SubscribeFailsFeed ==
    ASSUME Typed, Phases, FeedInv, SubscribeFails \/ SubscribeIsCancelled PROVE FeedInv'
  <1>1. PICK r, after :
            /\ r \in requests
            /\ EndRequest(r, Failure(r.id), after) /\ gap' = gap /\ (IsFed => IsFed')
    <2>1. CASE SubscribeFails
      <3>1. PICK r \in requests :
                /\ EndRequest(r, Failure(r.id),
                              IF subscription.state = "pending" THEN NoSubscription ELSE subscription)
                /\ gap' = gap
        BY <2>1 DEF SubscribeFails
      <3>2. IsFed => IsFed'
        BY <3>1 DEF EndRequest, IsFed
      <3> QED BY <3>1, <3>2
    <2>2. CASE SubscribeIsCancelled
      <3>1. PICK r \in requests : EndRequest(r, Failure(r.id), subscription) /\ gap' = gap
        BY <2>2 DEF SubscribeIsCancelled
      <3>2. IsFed => IsFed'
        BY <3>1 DEF EndRequest, IsFed
      <3> QED BY <3>1, <3>2
    <2> QED BY <2>1, <2>2
  <1> DEFINE m == Failure(r.id)
  <1>2. m.type \in Answers /\ m.type = "failure"
    BY DEF Answers, Failure
  <1>3. log' = log
    BY <1>1 DEF EndRequest
  <1>4. EndRequest(r, m, after)
    BY <1>1
  <1> HIDE DEF m
  <1>5. /\ StateIsFed' /\ AnswerIsFed' /\ StateIsPlaced'
        /\ \A from \in 0 .. Len(log) : ~gap' /\ IsPromised(from) => IsFed' /\ IsWhole(from)'
        /\ \A from \in 0 .. Len(log) : IsPromised(from)' => IsPromised(from) \/ SnapshotOf(from) = m
    BY <1>1, <1>2, <1>4, EndRequestFeed
  <1>6. \A from : SnapshotOf(from) # m
    BY <1>2 DEF SnapshotOf
  <1>7. SnapshotIsFed'
    BY <1>3, <1>5, <1>6 DEF SnapshotIsFed
  <1> QED BY <1>5, <1>7 DEF FeedInv

(* An unsubscribe does not meet a snapshot that the entry waits for. *)
LEMMA ReadUnsubscribeFeed ==
    ASSUME Typed, Phases, RequestInv, FeedInv, ReadUnsubscribe PROVE FeedInv'
  <1>1. /\ ReadFromClient /\ Head(toServer).type = "unsubscribe" /\ gap' = (gap \/ HasState)
        /\ UNCHANGED <<conn, entry, toClient, log, requests, answers>>
    BY DEF ReadUnsubscribe, client
  <1>2. conn = "Connected" /\ 1 \in DOMAIN toServer /\ toServer[1].type = "unsubscribe"
    <2>1. conn = "Connected" /\ toServer \in Seq(ClientMessages) /\ toServer # <<>>
      BY <1>1, ReadClientIs
    <2> QED BY <1>1, <2>1
  <1>3. ~IsRequested /\ ~IsReplied
    BY <1>2 DEF RequestInv, UnsubscribesAreOlder
  <1>4. SnapshotIsFed'
    <2> SUFFICES ASSUME NEW from \in 0 .. Len(log), IsPromised(from)' PROVE FALSE
      BY <1>1 DEF SnapshotIsFed
    <2>1. IsPromised(from)
      BY <1>1 DEF IsPromised, SnapshotOf, Coming
    <2> QED BY <1>3, <2>1 DEF IsPromised, SnapshotOf, IsRequested, IsReplied, Answers
  <1>5. HasState' => gap'
    BY <1>1 DEF HasState
  <1> QED BY <1>1, <1>2, <1>4, <1>5 DEF FeedInv, StateIsFed, AnswerIsFed, StateIsPlaced

(* Steps after which nothing is on its way. *)
LEMMA SilentFeed ==
    ASSUME Typed, Phases, FeedInv, TransportBreaks \/ Connect \/ ReadReconnect PROVE FeedInv'
  <1>1. entry \in Entries(Len(log))
    BY TypedParts DEF ClientTypes
  <1>2. toClient' = <<>> /\ answers' = {} /\ requests' = {}
    <2>1. CASE TransportBreaks
      BY <2>1 DEF TransportBreaks
    <2>2. CASE Connect
      BY <2>2, PhaseTypes DEF Connect, host
    <2>3. CASE ReadReconnect
      <3>1. /\ toServer # <<>> /\ Head(toServer).type = "reconnect"
            /\ UNCHANGED <<toClient, answers, requests>>
        BY <2>3 DEF ReadReconnect, ReadFromClient
      <3>2. ~attached
        BY <3>1, WhileAsked DEF IsAsking
      <3> QED BY <3>1, <3>2, TypedParts DEF Phases, HostTypes
    <2> QED BY <2>1, <2>2, <2>3
  <1>3. conn' # "Connected" /\ UNCHANGED <<serverSeq, log, gap>>
    <2>1. CASE TransportBreaks \/ Connect
      BY <2>1 DEF TransportBreaks, Connect, host
    <2>2. CASE ReadReconnect
      <3>1. toServer # <<>> /\ Head(toServer).type = "reconnect"
            /\ UNCHANGED <<conn, serverSeq, log, gap>>
        BY <2>2 DEF ReadReconnect, ReadFromClient, client
      <3> QED BY <3>1, WhileAsked
    <2> QED BY <2>1, <2>2
  <1>4. entry' = entry \/ entry' = Fail(entry)
    BY DEF TransportBreaks, Connect, ReadReconnect, client
  <1>5. HasState' => HasState /\ entry'.fromSeq = entry.fromSeq /\ entry'.confirmed = entry.confirmed
    <2>1. Fail(entry).status = "error"
      BY <1>1 DEF Fail, Settled, Entries
    <2> QED BY <1>4, <2>1 DEF HasState
  <1>6. StateIsPlaced'
    BY <1>3, <1>5
       DEF FeedInv, StateIsPlaced, Place, PlaceOf, Applied, IsApplied, IsOfSession
  <1>7. Coming' = {}
    BY <1>2 DEF Coming
  <1> QED BY <1>2, <1>3, <1>6, <1>7
          DEF FeedInv, StateIsFed, SnapshotIsFed, IsPromised, AnswerIsFed

(* An entry that has asked for nothing that was answered. *)
LEMMA NothingPromised ==
    ASSUME \A r \in requests' : r.id # entry'.request,
           \A msg \in Coming' : msg.type = "snapshot" => msg.id # entry'.request
    PROVE  SnapshotIsFed'
  BY DEF SnapshotIsFed, IsPromised, SnapshotOf

LEMMA UserFeed ==
    ASSUME Typed, Phases, RequestInv, FeedInv,
           Acquire \/ Release \/ Act \/ ReadSubscribe \/ UNCHANGED vars
    PROVE  FeedInv'
  <1>1. entry \in Entries(Len(log)) /\ RequestTypes
    BY TypedParts, RequestsTyped DEF ClientTypes
  <1>2. /\ UNCHANGED <<conn, serverSeq, log, toClient, answers>> /\ (IsFed => IsFed')
        /\ ReadSubscribe \/ UNCHANGED requests
    BY DEF Acquire, Release, Act, ReadSubscribe, host, wire, client, vars, IsFed
  <1>3. Stays /\ Coming' = Coming
    BY <1>2 DEF Stays, Coming
  <1>4. CASE Acquire
    <2>1. entry' = NewEntry(asked') /\ requests' = requests
      BY <1>4 DEF Acquire, host
    <2>2. entry'.status = "pending" /\ entry'.request = asked'
      BY <2>1 DEF NewEntry, NoEntry
    <2>3. asked' = asked + 1 /\ asked \in Nat
      BY <1>4, AcquireTypes
    <2>4. StateIsFed' /\ AnswerIsFed' /\ StateIsPlaced'
      BY <1>2, <1>3, <2>2, QuietState DEF HasState
    <2>5. /\ \A r \in requests : r.id <= asked /\ r.id \in Nat
          /\ \A msg \in Coming : msg.type = "snapshot" => msg.id <= asked /\ msg.id \in Nat
      BY <1>1 DEF RequestInv, IdsArePast, Answers, RequestTypes
    <2>6. SnapshotIsFed'
      BY <1>3, <2>1, <2>2, <2>3, <2>5, NothingPromised
    <2> QED BY <2>4, <2>6 DEF FeedInv
  <1>5. CASE Release
    <2>1. entry' = NoEntry /\ requests' = requests
      BY <1>5 DEF Release, host
    <2>2. entry'.status = "none" /\ entry'.request = 0
      BY <2>1 DEF NoEntry, NoRequest
    <2>3. StateIsFed' /\ AnswerIsFed' /\ StateIsPlaced'
      BY <1>2, <1>3, <2>2, QuietState DEF HasState
    <2>4. /\ \A r \in requests : r.id # 0
          /\ \A msg \in Coming : msg.type = "snapshot" => msg.id # 0
      BY <1>1 DEF Answers, RequestTypes
    <2>5. SnapshotIsFed'
      BY <1>3, <2>1, <2>2, <2>4, NothingPromised
    <2> QED BY <2>3, <2>5 DEF FeedInv
  <1>6. CASE Act
    <2>1. gap' = gap /\ requests' = requests
          /\ entry' = [entry EXCEPT !.pending = Append(@, clientSeq')]
      BY <1>6 DEF Act, host
    <2>2. /\ entry'.status = entry.status /\ entry'.request = entry.request
          /\ entry'.fromSeq = entry.fromSeq /\ entry'.confirmed = entry.confirmed
          /\ entry'.buffered = entry.buffered
      BY <1>1, <2>1 DEF Entries
    <2> QED BY <1>2, <1>3, <2>1, <2>2, QuietFeed
  <1>7. CASE ReadSubscribe
    <2>1. /\ UNCHANGED <<entry, gap>>
          /\ \A r \in requests' : r \in requests \/ r.fromSeq = NotTaken
      BY <1>7 DEF ReadSubscribe, client
    <2> QED BY <1>2, <1>3, <2>1, QuietFeed
  <1>8. CASE UNCHANGED vars
    <2>1. UNCHANGED <<entry, gap, requests>>
      BY <1>8 DEF vars, client, host
    <2> QED BY <1>2, <1>3, <2>1, QuietFeed
  <1> QED BY <1>4, <1>5, <1>6, <1>7, <1>8

LEMMA NextFeed ==
    ASSUME Typed, Phases, NewsIsAhead, RequestInv, FeedInv, [Next]_vars PROVE FeedInv'
  BY ReadActionFeed, ReadAnswerFeed, ReadReplayFeed, ReadSnapshotsFeed, HostFeed, RestoreEndsFeed,
     SendAnswerFeed, TakeSnapshotFeed, SubscribeEndsFeed, SubscribeFailsFeed, ReadUnsubscribeFeed,
     SilentFeed, UserFeed DEF Next, User, Client, Host

LEMMA InitFeed == Init => FeedInv
  BY DEF Init, FeedInv, StateIsFed, SnapshotIsFed, AnswerIsFed, StateIsPlaced, HasState, NoEntry,
         IsPromised, Coming

(* What the client takes for the confirmed state is the host's, up to the   *)
(* last action that it has seen: no action is missing, applied twice or     *)
(* applied although it was rejected, whatever breaks and whatever is        *)
(* buffered, replayed or replaced by a snapshot, but for the known gaps.    *)
THEOREM ConfirmedIsTheHosts == Spec => []ConfirmedFollowsHost
  <1> DEFINE Inv == Typed /\ Phases /\ NewsIsAhead /\ RequestInv /\ FeedInv
  <1>1. Init => Inv
    BY InitTypes, InitNews, InitRequests, InitFeed
  <1>2. Inv /\ [Next]_vars => Inv'
    BY NextTypes, NextNews, NextRequests, NextFeed
  <1>3. Inv => ConfirmedFollowsHost
    <2> SUFFICES ASSUME Inv PROVE ConfirmedFollowsHost
      OBVIOUS
    <2>1. serverSeq \in Int /\ entry.fromSeq \in Int
      BY FeedTyped DEF FeedFacts
    <2>2. Max({serverSeq, entry.fromSeq}) = Place
      BY <2>1, MaxOfTwo DEF Place, PlaceOf
    <2> QED BY <2>2 DEF ConfirmedFollowsHost, FeedInv, StateIsPlaced
  <1> HIDE DEF Inv
  <1> QED BY <1>1, <1>2, <1>3, PTL DEF Spec
=============================================================================
