--------------------- MODULE PersistentProtocolProofs ---------------------
(* Theorems about PersistentProtocol, for every script, payload and bound. *)
EXTENDS PersistentProtocol, SequenceTheorems, TLAPS

(* The queues of messages that p may have written. *)
Honest(p) == {q \in Seq(ProtocolMessage) : AllTruthful(p, q)}

(* What is sent never exceeds the script. *)
SentFromScript == \A p \in Peers : outgoingMsgId[p] <= Len(Script[p])

(* The inductive invariant.  UnackQueue makes an ack cut the queue at the   *)
(* right place; InFlightIsTruthful bounds every ack that can still arrive,  *)
(* however old, by what was received, hence AckedWasDelivered.              *)
IInv ==
    /\ TypeOK
    /\ SentFromScript
    /\ DeliveredInOrder
    /\ UnackQueue
    /\ AckedWasDelivered
    /\ InFlightIsTruthful

-----------------------------------------------------------------------------
(* Messages and queues *)

LEMMA OtherPeer ==
    ASSUME NEW p \in Peers
    PROVE  Other(p) \in Peers /\ Other(p) # p /\ Other(Other(p)) = p
  BY PeersAssumption DEF Peers, Other

LEMMA Counters ==
    ASSUME TypeOK, NEW p \in Peers
    PROVE  /\ outgoingMsgId[p] \in Nat /\ outgoingAckId[p] \in Nat
           /\ incomingMsgId[p] \in Nat /\ incomingAckId[p] \in Nat
  BY DEF TypeOK

(* Messages built by the protocol are messages. *)
LEMMA MessageTypes ==
    /\ \A n \in Nat : AckMsg(n) \in ProtocolMessage
    /\ \A type \in ProtocolMessageType : Plain(type) \in ProtocolMessage
    /\ \A data \in ControlData : Control(data) \in ProtocolMessage
    /\ \A n \in Nat : Msg("KeepAlive", 0, n, NoData) \in ProtocolMessage
    /\ \A i, n \in Nat, d \in Data : Msg("Regular", i, n, d) \in ProtocolMessage
  BY DEF AckMsg, Plain, Control, Msg, ProtocolMessage, ProtocolMessageType

(* Those that are not regular and acknowledge nothing new are truthful. *)
LEMMA TruthfulMessages ==
    ASSUME TypeOK, NEW p \in Peers
    PROVE  /\ Truthful(p, AckMsg(incomingMsgId[p]))
           /\ \A type \in ProtocolMessageType \ {"Regular"} : Truthful(p, Plain(type))
           /\ \A data : Truthful(p, Control(data))
           /\ Truthful(p, Msg("KeepAlive", 0, incomingMsgId[p], NoData))
  BY DEF TypeOK, Truthful, AckMsg, Plain, Control, Msg

(* Honest queues are closed under what the protocol does to queues. *)
LEMMA HonestEmpty ==
    ASSUME NEW p \in Peers
    PROVE  <<>> \in Honest(p)
  BY DEF Honest, AllTruthful

LEMMA HonestOne ==
    ASSUME NEW p \in Peers, NEW m \in ProtocolMessage, Truthful(p, m)
    PROVE  <<m>> \in Honest(p)
  BY DEF Honest, AllTruthful

LEMMA HonestTwo ==
    ASSUME NEW p \in Peers, NEW m \in ProtocolMessage, NEW n \in ProtocolMessage,
           Truthful(p, m), Truthful(p, n)
    PROVE  <<m, n>> \in Honest(p)
  <1>1. \A i \in 1 .. 2 : <<m, n>>[i] = m \/ <<m, n>>[i] = n
    OBVIOUS
  <1> QED
    BY <1>1 DEF Honest, AllTruthful

LEMMA HonestConcat ==
    ASSUME NEW p \in Peers, NEW q \in Honest(p), NEW r \in Honest(p)
    PROVE  q \o r \in Honest(p)
  <1>1. q \in Seq(ProtocolMessage) /\ r \in Seq(ProtocolMessage)
    BY DEF Honest
  <1>2. ASSUME NEW i \in 1 .. Len(q \o r) PROVE Truthful(p, (q \o r)[i])
    <2>1. Len(q \o r) = Len(q) + Len(r) /\ Len(q) \in Nat /\ Len(r) \in Nat
      BY <1>1, ConcatProperties, LenProperties
    <2>2. CASE i <= Len(q)
      <3>1. (q \o r)[i] = q[i] /\ i \in 1 .. Len(q)
        BY <1>1, <2>1, <2>2, ConcatProperties
      <3> QED BY <3>1 DEF Honest, AllTruthful
    <2>3. CASE ~(i <= Len(q))
      <3>1. (q \o r)[i] = r[i - Len(q)] /\ i - Len(q) \in 1 .. Len(r)
        BY <1>1, <2>1, <2>3, ConcatProperties
      <3> QED BY <3>1 DEF Honest, AllTruthful
    <2> QED BY <2>2, <2>3
  <1>3. q \o r \in Seq(ProtocolMessage)
    BY <1>1, ConcatProperties
  <1> QED BY <1>2, <1>3 DEF Honest, AllTruthful

LEMMA HonestSubSeq ==
    ASSUME NEW p \in Peers, NEW q \in Honest(p), NEW m \in Nat \ {0}, NEW n \in 0 .. Len(q)
    PROVE  SubSeq(q, m, n) \in Honest(p)
  <1>1. q \in Seq(ProtocolMessage) /\ Len(q) \in Nat
    BY LenProperties DEF Honest
  <1>2. \A i \in m .. n : q[i] \in ProtocolMessage
    BY <1>1, ElementOfSeq
  <1>3. /\ SubSeq(q, m, n) \in Seq(ProtocolMessage)
        /\ Len(SubSeq(q, m, n)) = IF m <= n THEN n - m + 1 ELSE 0
        /\ \A i \in 1 .. n - m + 1 : SubSeq(q, m, n)[i] = q[m + i - 1]
    BY <1>1, <1>2, SubSeqProperties
  <1>4. ASSUME NEW i \in 1 .. Len(SubSeq(q, m, n))
        PROVE  Truthful(p, SubSeq(q, m, n)[i])
    <2>1. SubSeq(q, m, n)[i] = q[m + i - 1] /\ m + i - 1 \in 1 .. Len(q)
      BY <1>1, <1>3
    <2> QED BY <2>1 DEF Honest, AllTruthful
  <1> QED BY <1>3, <1>4 DEF Honest, AllTruthful

LEMMA HonestTail ==
    ASSUME NEW p \in Peers, NEW q \in Honest(p), q # <<>>
    PROVE  /\ Tail(q) \in Honest(p)
           /\ Head(q) \in ProtocolMessage
           /\ Truthful(p, Head(q))
  <1>1. q \in Seq(ProtocolMessage) /\ Len(q) \in Nat \ {0}
    BY LenProperties, EmptySeq DEF Honest
  <1>2. Head(q) \in ProtocolMessage /\ Tail(q) = SubSeq(q, 2, Len(q)) /\ Head(q) = q[1]
    BY <1>1, HeadTailProperties, TailIsSubSeq
  <1>3. SubSeq(q, 2, Len(q)) \in Honest(p)
    <2>1. 2 \in Nat \ {0} /\ Len(q) \in 0 .. Len(q)
      BY <1>1
    <2> QED BY <2>1, HonestSubSeq
  <1>4. Truthful(p, q[1])
    BY <1>1 DEF Honest, AllTruthful
  <1> QED
    BY <1>2, <1>3, <1>4

LEMMA HonestPrefix ==
    ASSUME NEW p \in Peers, NEW q \in Honest(p), NEW r \in Prefixes(q)
    PROVE  r \in Honest(p)
  <1>1. PICK n \in 0 .. Len(q) : r = SubSeq(q, 1, n)
    BY DEF Prefixes
  <1> QED
    BY <1>1, HonestSubSeq

(* What was truthful stays so while the counters only grow. *)
CountersGrow ==
    \A p \in Peers : /\ incomingMsgId[p] <= incomingMsgId'[p]
                     /\ outgoingMsgId[p] <= outgoingMsgId'[p]

LEMMA HonestForever ==
    ASSUME TypeOK, TypeOK', CountersGrow, NEW p \in Peers
    PROVE  Honest(p) \subseteq Honest(p)'
  <1> SUFFICES ASSUME NEW q \in Honest(p)
               PROVE  q \in Honest(p)'
    OBVIOUS
  <1>1. q \in Seq(ProtocolMessage)
    BY DEF Honest
  <1>2. ASSUME NEW i \in 1 .. Len(q) PROVE Truthful(p, q[i])'
    <2>1. Truthful(p, q[i]) /\ q[i] \in ProtocolMessage
      BY <1>1, ElementOfSeq DEF Honest, AllTruthful
    <2>2. q[i].ack \in Nat /\ q[i].id \in Nat
      BY <2>1 DEF ProtocolMessage
    <2>3. /\ incomingMsgId[p] \in Nat /\ incomingMsgId'[p] \in Nat
          /\ outgoingMsgId[p] \in Nat /\ outgoingMsgId'[p] \in Nat
      BY DEF TypeOK
    <2> QED
      BY <2>1, <2>2, <2>3 DEF Truthful, CountersGrow
  <1> QED
    BY <1>1, <1>2 DEF Honest, AllTruthful

(* An acknowledgement cuts a queue of consecutive numbers behind its number. *)
LEMMA DropAckedCut ==
    ASSUME NEW q \in Seq(ProtocolMessage), NEW first \in Nat,
           \A i \in 1 .. Len(q) : q[i].id = first + i,
           NEW ack \in first .. first + Len(q)
    PROVE  DropAcked(q, ack) = SubSeq(q, ack - first + 1, Len(q))
  <1> DEFINE Cut(n) == /\ \A i \in 1 .. n : q[i].id <= ack
                       /\ n < Len(q) => q[n + 1].id > ack
  <1>0. Len(q) \in Nat
    BY LenProperties
  <1>1. ack - first \in 0 .. Len(q) /\ Cut(ack - first)
    BY <1>0
  <1>2. ASSUME NEW n \in 0 .. Len(q), Cut(n) PROVE n = ack - first
    <2>1. ~(n < ack - first)
      BY <1>0, <1>2
    <2>2. ~(n > ack - first)
      BY <1>0, <1>2
    <2> QED BY <2>1, <2>2, <1>0
  <1>3. (CHOOSE n \in 0 .. Len(q) : Cut(n)) = ack - first
    BY <1>1, <1>2
  <1> QED
    BY <1>3 DEF DropAcked

-----------------------------------------------------------------------------
(* What a step does to the queues, before the counters move *)

(* The messages on the wires, and those of the peers. *)
WiresHonest(n) == /\ n \in [Sockets -> [Peers -> Seq(ProtocolMessage)]]
                  /\ \A s \in Sockets, p \in Peers : n[s][p] \in Honest(p)

QueuesHonest(f) == /\ f \in [Peers -> Seq(ProtocolMessage)]
                   /\ \A p \in Peers : f[p] \in Honest(p)

LEMMA QueuesOfInvariant ==
    ASSUME TypeOK, InFlightIsTruthful
    PROVE  WiresHonest(net) /\ QueuesHonest(writerData) /\ QueuesHonest(outgoingUnackMsg)
  <1>1. WiresHonest(net)
    BY DEF TypeOK, InFlightIsTruthful, WiresHonest, Honest
  <1>2. QueuesHonest(writerData) /\ QueuesHonest(outgoingUnackMsg)
    BY DEF TypeOK, InFlightIsTruthful, QueuesHonest, Honest
  <1> QED BY <1>1, <1>2

LEMMA InvariantOfQueues ==
    ASSUME TypeOK, TypeOK', CountersGrow,
           WiresHonest(net'), QueuesHonest(writerData'), QueuesHonest(outgoingUnackMsg')
    PROVE  InFlightIsTruthful'
  <1> SUFFICES ASSUME NEW p \in Peers
               PROVE  /\ AllTruthful(p, outgoingUnackMsg[p])'
                      /\ AllTruthful(p, writerData[p])'
                      /\ \A s \in Sockets : AllTruthful(p, net[s][p])'
    BY DEF InFlightIsTruthful
  <1>1. Honest(p) \subseteq Honest(p)'
    BY HonestForever
  <1>2. outgoingUnackMsg'[p] \in Honest(p)' /\ writerData'[p] \in Honest(p)'
    BY <1>1 DEF QueuesHonest
  <1>3. \A s \in Sockets : net'[s][p] \in Honest(p)'
    BY <1>1 DEF WiresHonest
  <1> QED
    BY <1>2, <1>3 DEF Honest

LEMMA WriteHonest ==
    ASSUME QueuesHonest(writerData), NEW p \in Peers, NEW msgs \in Honest(p), Write(p, msgs)
    PROVE  QueuesHonest(writerData')
  <1>1. writerData[p] \o msgs \in Honest(p)
    BY HonestConcat DEF QueuesHonest
  <1>2. writerData[p] \o msgs \in Seq(ProtocolMessage)
    BY <1>1 DEF Honest
  <1> QED
    BY <1>1, <1>2 DEF Write, QueuesHonest

(* Reading a message. *)
LEMMA PopHonest ==
    ASSUME TypeOK, InFlightIsTruthful, NEW p \in Peers, NEW type, Pop(p, type)
    PROVE  /\ Head(Readable(p)) \in ProtocolMessage
           /\ Truthful(Other(p), Head(Readable(p)))
           /\ WiresHonest(net')
  <1>1. WiresHonest(net) /\ socket[p] \in Sockets /\ Other(p) \in Peers
    BY QueuesOfInvariant, OtherPeer DEF TypeOK
  <1>2. Readable(p) \in Honest(Other(p)) /\ Readable(p) # <<>>
    BY <1>1 DEF Readable, WiresHonest, Pop
  <1>3. /\ Tail(Readable(p)) \in Honest(Other(p))
        /\ Head(Readable(p)) \in ProtocolMessage
        /\ Truthful(Other(p), Head(Readable(p)))
    BY <1>1, <1>2, HonestTail
  <1>4. Tail(Readable(p)) \in Seq(ProtocolMessage)
    BY <1>3 DEF Honest
  <1>5. net' = [net EXCEPT ![socket[p]][Other(p)] = Tail(Readable(p))]
    BY <1>1 DEF Pop, Readable, WiresHonest
  <1>6. WiresHonest(net')
    BY <1>1, <1>3, <1>4, <1>5 DEF WiresHonest
  <1> QED BY <1>3, <1>6

(* Taking its acknowledgement. *)
LEMMA TakeAckCuts ==
    ASSUME IInv, NEW p \in Peers, NEW type, Pop(p, type), TakeAck(p),
           UNCHANGED outgoingMsgId
    PROVE  /\ QueuesHonest(outgoingUnackMsg')
           /\ outgoingAckId' \in [Peers -> Nat]
           /\ UnackQueue'
           /\ \A q \in Peers : outgoingAckId'[q] <= incomingMsgId[Other(q)]
  <1> DEFINE ack == Head(Readable(p)).ack
             first == outgoingAckId[p]
             queue == outgoingUnackMsg[p]
  <1>1. /\ QueuesHonest(outgoingUnackMsg)
        /\ \A q \in Peers : outgoingAckId[q] <= incomingMsgId[Other(q)]
    BY QueuesOfInvariant, OtherPeer DEF IInv, TypeOK, DeliveredInOrder, AckedWasDelivered
  <1>2. CASE ~(ack > first)
    BY <1>1, <1>2 DEF TakeAck, IInv, TypeOK, UnackQueue
  <1>3. CASE ack > first
    <2>1. /\ ack \in Nat /\ ack <= incomingMsgId[Other(p)]
          /\ incomingMsgId[Other(p)] <= outgoingMsgId[p]
          /\ first \in Nat /\ outgoingMsgId[p] \in Nat
          /\ incomingMsgId[Other(p)] \in Nat
      <3>1. Head(Readable(p)) \in ProtocolMessage /\ Truthful(Other(p), Head(Readable(p)))
        BY PopHonest DEF IInv
      <3>2. Other(p) \in Peers /\ Other(Other(p)) = p
        BY OtherPeer
      <3> QED
        BY <3>1, <3>2 DEF ProtocolMessage, Truthful, IInv, TypeOK, DeliveredInOrder
    <2>2. /\ queue \in Seq(ProtocolMessage) /\ Len(queue) \in Nat
          /\ Len(queue) + first = outgoingMsgId[p]
          /\ \A i \in 1 .. Len(queue) : queue[i].id = first + i
      BY LenProperties DEF IInv, TypeOK, UnackQueue
    <2>3. ack \in first .. first + Len(queue)
      BY <1>3, <2>1, <2>2
    <2>4. DropAcked(queue, ack) = SubSeq(queue, ack - first + 1, Len(queue))
      BY <2>1, <2>2, <2>3, DropAckedCut
    <2> DEFINE rest == SubSeq(queue, ack - first + 1, Len(queue))
    <2>5. rest \in Honest(p)
      <3>1. ack - first + 1 \in Nat \ {0} /\ Len(queue) \in 0 .. Len(queue)
        BY <1>3, <2>1, <2>2
      <3>2. queue \in Honest(p)
        BY <1>1 DEF QueuesHonest
      <3> QED BY <3>1, <3>2, HonestSubSeq
    <2>6. /\ Len(rest) = Len(queue) - (ack - first)
          /\ \A i \in 1 .. Len(rest) : rest[i] = queue[ack - first + i]
      <3>1. \A i \in ack - first + 1 .. Len(queue) : queue[i] \in ProtocolMessage
        BY <1>3, <2>1, <2>2, ElementOfSeq
      <3>2. ack - first + 1 \in Int /\ Len(queue) \in Int
        BY <2>1, <2>2
      <3> HIDE DEF queue, ack, first
      <3>3. /\ Len(rest) = IF ack - first + 1 <= Len(queue)
                           THEN Len(queue) - (ack - first + 1) + 1 ELSE 0
            /\ \A i \in 1 .. Len(queue) - (ack - first + 1) + 1 :
                  rest[i] = queue[ack - first + 1 + i - 1]
        BY <3>1, <3>2, SubSeqProperties
      <3> QED BY <3>3, <2>1, <2>2, <2>3
    <2>7. /\ outgoingUnackMsg' = [outgoingUnackMsg EXCEPT ![p] = rest]
          /\ outgoingAckId' = [outgoingAckId EXCEPT ![p] = ack]
      BY <1>3, <2>4 DEF TakeAck
    <2>8. QueuesHonest(outgoingUnackMsg')
      BY <1>1, <2>5, <2>7 DEF QueuesHonest, Honest
    <2>9. /\ outgoingAckId' \in [Peers -> Nat]
          /\ \A q \in Peers : outgoingAckId'[q] <= incomingMsgId[Other(q)]
      BY <1>1, <2>1, <2>7 DEF IInv, TypeOK
    <2>10. /\ Len(rest) + ack = outgoingMsgId[p]
           /\ \A i \in 1 .. Len(rest) : rest[i].id = ack + i
      <3> HIDE DEF queue, ack, first, rest
      <3>1. Len(rest) + ack = outgoingMsgId[p]
        BY <2>1, <2>2, <2>3, <2>6
      <3>2. ASSUME NEW i \in 1 .. Len(rest) PROVE rest[i].id = ack + i
        <4>1. ack - first + i \in 1 .. Len(queue) /\ rest[i] = queue[ack - first + i]
          BY <2>1, <2>2, <2>3, <2>6
        <4>2. queue[ack - first + i].id = first + (ack - first + i)
          BY <2>2, <4>1
        <4> QED BY <2>1, <4>1, <4>2
      <3> QED BY <3>1, <3>2
    <2>11. UnackQueue'
      <3> SUFFICES ASSUME NEW q \in Peers
                   PROVE  /\ Len(outgoingUnackMsg'[q]) + outgoingAckId'[q] = outgoingMsgId[q]
                          /\ \A i \in 1 .. Len(outgoingUnackMsg'[q]) :
                               outgoingUnackMsg'[q][i].id = outgoingAckId'[q] + i
        BY DEF UnackQueue
      <3>1. CASE q = p
        BY <3>1, <2>7, <2>10 DEF IInv, TypeOK
      <3>2. CASE q # p
        BY <3>2, <2>7 DEF IInv, TypeOK, UnackQueue
      <3> QED BY <3>1, <3>2
    <2> QED
      BY <2>8, <2>9, <2>11
  <1> QED
    BY <1>2, <1>3

-----------------------------------------------------------------------------
(* Three kinds of step *)

LEMMA InvariantInitially == Init => IInv
  <1> SUFFICES ASSUME Init PROVE IInv
    OBVIOUS
  <1>1. /\ \A p \in Peers : Len(Script[p]) \in Nat
        /\ \A p \in Peers : Other(p) \in Peers
    BY ScriptAssumption, LenProperties, OtherPeer
  <1>2. 1 \in Sockets
    BY BoundsAssumption DEF Sockets
  <1>3. TypeOK
    BY <1>2 DEF Init, TypeOK
  <1> QED
    BY <1>1, <1>3 DEF Init, IInv, SentFromScript, DeliveredInOrder, UnackQueue,
       AckedWasDelivered, InFlightIsTruthful, AllTruthful

(* Steps that neither send, nor receive: queues may be written or wired. *)
LEMMA QuietStep ==
    ASSUME IInv, TypeOK', UNCHANGED <<sendVars, recvVars>>,
           WiresHonest(net'), QueuesHonest(writerData')
    PROVE  IInv'
  <1>1. /\ UNCHANGED <<outgoingUnackMsg, outgoingMsgId, outgoingAckId>>
        /\ UNCHANGED <<incomingMsgId, delivered>>
    BY DEF sendVars, recvVars
  <1>2. SentFromScript' /\ DeliveredInOrder' /\ UnackQueue' /\ AckedWasDelivered'
    BY <1>1 DEF IInv, SentFromScript, DeliveredInOrder, UnackQueue, AckedWasDelivered
  <1>3. CountersGrow
    BY <1>1, Counters DEF CountersGrow, IInv
  <1>4. InFlightIsTruthful'
    BY <1>1, <1>3, QueuesOfInvariant, InvariantOfQueues DEF IInv
  <1> QED
    BY <1>2, <1>4 DEF IInv

(* Steps that read a message and deliver nothing. *)
LEMMA ReadStep ==
    ASSUME IInv, TypeOK', NEW p \in Peers, NEW type, Pop(p, type), TakeAck(p),
           UNCHANGED <<outgoingMsgId, recvVars>>, QueuesHonest(writerData')
    PROVE  IInv'
  <1>1. UNCHANGED <<outgoingMsgId, incomingMsgId, delivered>>
    BY DEF recvVars
  <1>2. /\ UnackQueue' /\ QueuesHonest(outgoingUnackMsg')
        /\ \A q \in Peers : outgoingAckId'[q] <= incomingMsgId[Other(q)]
    BY <1>1, TakeAckCuts
  <1>3. SentFromScript' /\ DeliveredInOrder'
    BY <1>1 DEF IInv, SentFromScript, DeliveredInOrder
  <1>4. AckedWasDelivered'
    BY <1>1, <1>2, OtherPeer DEF IInv, DeliveredInOrder, AckedWasDelivered
  <1>5. CountersGrow
    BY <1>1, Counters DEF CountersGrow, IInv
  <1>6. InFlightIsTruthful'
    BY <1>2, <1>5, PopHonest, InvariantOfQueues DEF IInv
  <1> QED
    BY <1>2, <1>3, <1>4, <1>6 DEF IInv

LEMMA ReceiveRegularStep ==
    ASSUME IInv, NEW p \in Peers, ReceiveRegular(p)
    PROVE  IInv'
  <1> DEFINE msg == Head(Readable(p))
             from == Other(p)
  <1>1. Pop(p, "Regular") /\ TakeAck(p) /\ UNCHANGED outgoingMsgId
    BY DEF ReceiveRegular, IsNext, SendAckCheck
  <1>2. /\ UnackQueue' /\ QueuesHonest(outgoingUnackMsg')
        /\ outgoingAckId' \in [Peers -> Nat]
        /\ \A q \in Peers : outgoingAckId'[q] <= incomingMsgId[Other(q)]
    BY <1>1, TakeAckCuts
  <1>3. /\ WiresHonest(net')
        /\ msg \in ProtocolMessage
        /\ Truthful(from, msg)
        /\ from \in Peers
    BY <1>1, PopHonest, OtherPeer DEF IInv
  <1>4. /\ msg.id = incomingMsgId[p] + 1
        /\ msg.id \in 1 .. outgoingMsgId[from]
        /\ msg.data = Script[from][msg.id]
    BY <1>3 DEF ReceiveRegular, IsNext, SendAckCheck, Truthful, Pop
  <1>5. msg.data \in Data
    <2>1. Script[from] \in Seq(Data) /\ Len(Script[from]) \in Nat
      BY <1>3, ScriptAssumption, LenProperties
    <2>2. msg.id \in 1 .. Len(Script[from])
      <3>1. outgoingMsgId[from] \in Nat /\ outgoingMsgId[from] <= Len(Script[from])
        BY <1>3, Counters DEF IInv, SentFromScript
      <3> QED BY <1>4, <2>1, <3>1
    <2> QED BY <1>4, <2>1, <2>2, ElementOfSeq
  <1> HIDE DEF msg
  <1>6. /\ incomingMsgId' = [incomingMsgId EXCEPT ![p] = msg.id]
        /\ delivered' = [delivered EXCEPT ![p] = Append(@, msg.data)]
    BY DEF ReceiveRegular, IsNext, SendAckCheck, msg
  <1>7. /\ delivered[p] \in Seq(Data)
        /\ Len(delivered[p]) = incomingMsgId[p]
        /\ incomingMsgId[p] \in Nat
        /\ Append(delivered[p], msg.data) \in Seq(Data)
        /\ Len(Append(delivered[p], msg.data)) = incomingMsgId[p] + 1
        /\ \A i \in 1 .. incomingMsgId[p] :
              Append(delivered[p], msg.data)[i] = delivered[p][i]
        /\ Append(delivered[p], msg.data)[incomingMsgId[p] + 1] = msg.data
    <2>1. /\ delivered[p] \in Seq(Data)
          /\ Len(delivered[p]) = incomingMsgId[p]
          /\ incomingMsgId[p] \in Nat
      BY DEF IInv, TypeOK, DeliveredInOrder
    <2> DEFINE before == delivered[p]
    <2> HIDE DEF before
    <2>2. /\ Append(before, msg.data) \in Seq(Data)
          /\ Len(Append(before, msg.data)) = Len(before) + 1
          /\ \A i \in 1 .. Len(before) : Append(before, msg.data)[i] = before[i]
          /\ Append(before, msg.data)[Len(before) + 1] = msg.data
      BY <1>5, <2>1, AppendProperties DEF before
    <2> QED
      BY <2>1, <2>2 DEF before
  <1>8. DeliveredInOrder'
    <2> SUFFICES ASSUME NEW q \in Peers
                 PROVE  /\ Len(delivered'[q]) = incomingMsgId'[q]
                        /\ incomingMsgId'[q] <= outgoingMsgId[Other(q)]
                        /\ \A i \in 1 .. incomingMsgId'[q] :
                              delivered'[q][i] = Script[Other(q)][i]
      BY <1>1 DEF DeliveredInOrder
    <2>1. CASE q = p
      <3>1. delivered'[q] = Append(delivered[p], msg.data) /\ incomingMsgId'[q] = msg.id
        BY <2>1, <1>6 DEF IInv, TypeOK
      <3> QED
        BY <2>1, <3>1, <1>4, <1>7 DEF IInv, DeliveredInOrder
    <2>2. CASE q # p
      BY <2>2, <1>6 DEF IInv, TypeOK, DeliveredInOrder
    <2> QED BY <2>1, <2>2
  <1>9. TypeOK'
    <2>1. outgoingUnackMsg' \in [Peers -> Seq(ProtocolMessage)]
      BY <1>2 DEF QueuesHonest
    <2>2. net' \in [Sockets -> [Peers -> Seq(ProtocolMessage)]]
      BY <1>3 DEF WiresHonest
    <2>3. delivered' \in [Peers -> Seq(Data)] /\ incomingMsgId' \in [Peers -> Nat]
      <3>1. msg.id \in Nat
        BY <1>4, <1>7
      <3>2. delivered \in [Peers -> Seq(Data)] /\ incomingMsgId \in [Peers -> Nat]
        BY DEF IInv, TypeOK
      <3> QED BY <1>6, <1>7, <3>1, <3>2
    <2>4. incomingAckTimeout' \in [Peers -> BOOLEAN]
      BY <1>4, <1>7 DEF ReceiveRegular, IsNext, SendAckCheck, IInv, TypeOK
    <2> QED
      BY <1>1, <1>2, <2>1, <2>2, <2>3, <2>4
      DEF ReceiveRegular, IsNext, SendAckCheck, Pop, IInv, TypeOK, timerVars, writerVars, handshakeVars
  <1>10. CountersGrow
    <2> SUFFICES ASSUME NEW q \in Peers
                 PROVE  /\ incomingMsgId[q] <= incomingMsgId'[q]
                        /\ outgoingMsgId[q] <= outgoingMsgId'[q]
      BY DEF CountersGrow
    <2>1. /\ incomingMsgId[q] \in Nat /\ outgoingMsgId[q] \in Nat
          /\ incomingMsgId \in [Peers -> Nat]
      BY Counters DEF IInv, TypeOK
    <2> QED
      BY <1>1, <1>4, <1>6, <1>7, <2>1
  <1>11. AckedWasDelivered' /\ SentFromScript'
    <2>1. \A q \in Peers : outgoingAckId'[q] <= incomingMsgId'[Other(q)]
      <3> SUFFICES ASSUME NEW q \in Peers
                   PROVE  outgoingAckId'[q] <= incomingMsgId'[Other(q)]
        OBVIOUS
      <3>1. /\ Other(q) \in Peers
            /\ incomingMsgId[Other(q)] \in Nat
            /\ outgoingAckId'[q] \in Nat
            /\ incomingMsgId'[Other(q)] \in Nat
        BY <1>2, <1>9, OtherPeer, Counters DEF IInv, TypeOK
      <3> QED
        BY <1>2, <1>10, <3>1 DEF CountersGrow
    <2>2. \A q \in Peers : Len(delivered'[Other(q)]) = incomingMsgId'[Other(q)]
      BY <1>8, OtherPeer DEF DeliveredInOrder
    <2> QED
      BY <1>1, <2>1, <2>2 DEF IInv, AckedWasDelivered, SentFromScript
  <1>12. QueuesHonest(writerData')
    BY QueuesOfInvariant DEF ReceiveRegular, IsNext, SendAckCheck, writerVars, IInv
  <1>13. InFlightIsTruthful'
    BY <1>2, <1>3, <1>9, <1>10, <1>12, InvariantOfQueues DEF IInv
  <1> QED
    BY <1>2, <1>8, <1>9, <1>11, <1>13 DEF IInv

(* Sending numbers a message and appends it to two queues. *)
LEMMA SendStep ==
    ASSUME IInv, NEW p \in Peers, Send(p)
    PROVE  IInv'
  <1> DEFINE myId == outgoingMsgId[p] + 1
             msg == Msg("Regular", myId, incomingMsgId[p], Script[p][myId])
             written == IF isReconnecting[p] THEN <<>> ELSE <<msg>>
  <1>1. /\ outgoingMsgId[p] < Len(Script[p])
        /\ outgoingMsgId' = [outgoingMsgId EXCEPT ![p] = myId]
        /\ outgoingUnackMsg' = [outgoingUnackMsg EXCEPT ![p] = Append(@, msg)]
        /\ Write(p, written)
        /\ UNCHANGED <<outgoingAckId, incomingMsgId, delivered, net>>
    BY DEF Send, NextMessage, recvVars, netVars
  <1>2. /\ Script[p] \in Seq(Data) /\ Len(Script[p]) \in Nat
        /\ outgoingMsgId[p] \in Nat /\ incomingMsgId[p] \in Nat
    BY ScriptAssumption, LenProperties DEF IInv, TypeOK
  <1>3. Script[p][myId] \in Data
    BY <1>1, <1>2, ElementOfSeq
  <1>4. msg \in ProtocolMessage /\ msg.id = myId
    <2>1. myId \in Nat
      BY <1>2
    <2> QED BY <1>2, <1>3, <2>1, MessageTypes DEF Msg
  <1>5. CountersGrow
    <2> SUFFICES ASSUME NEW q \in Peers
                 PROVE  /\ incomingMsgId[q] <= incomingMsgId'[q]
                        /\ outgoingMsgId[q] <= outgoingMsgId'[q]
      BY DEF CountersGrow
    <2>1. /\ incomingMsgId[q] \in Nat /\ outgoingMsgId[q] \in Nat
          /\ outgoingMsgId \in [Peers -> Nat]
      BY Counters DEF IInv, TypeOK
    <2> QED
      BY <1>1, <1>2, <2>1
  <1>6. ASSUME NEW q \in Seq(ProtocolMessage), NEW i \in 1 .. Len(q), q[i] = msg
        PROVE  /\ q[i].ack <= incomingMsgId'[p]
               /\ q[i].id \in 1 .. outgoingMsgId'[p]
               /\ q[i].data = Script[p][q[i].id]
    <2>1. msg.ack = incomingMsgId[p] /\ msg.id = myId /\ msg.data = Script[p][myId]
      BY DEF Msg
    <2>2. outgoingMsgId'[p] = myId /\ incomingMsgId'[p] = incomingMsgId[p]
      BY <1>1 DEF IInv, TypeOK
    <2> HIDE DEF msg
    <2> QED BY <1>2, <1>6, <2>1, <2>2
  <1> HIDE DEF msg
  <1>7. written \in Seq(ProtocolMessage)
    BY <1>4
  <1>8. TypeOK'
    <2>1. outgoingUnackMsg' \in [Peers -> Seq(ProtocolMessage)]
      BY <1>1, <1>4, AppendProperties DEF IInv, TypeOK
    <2>2. writerData' \in [Peers -> Seq(ProtocolMessage)]
      BY <1>1, <1>7, ConcatProperties DEF Write, IInv, TypeOK
    <2>3. outgoingMsgId' \in [Peers -> Nat]
      BY <1>1, <1>2 DEF IInv, TypeOK
    <2>4. incomingAckId' \in [Peers -> Nat]
      BY DEF Send, NextMessage, IInv, TypeOK
    <2>5. outgoingAckTimeout' \in [Peers -> BOOLEAN]
      <3>1. outgoingAckTimeout' = [outgoingAckTimeout EXCEPT ![p] =
              outgoingAckTimeout[p] \/ (outgoingMsgId'[p] > outgoingAckId'[p]
                                        /\ ~isReconnecting'[p])]
        BY DEF Send, NextMessage, RecvAckCheck
      <3>2. outgoingAckTimeout \in [Peers -> BOOLEAN]
        BY DEF IInv, TypeOK
      <3> QED BY <3>1, <3>2
    <2> QED
      BY <1>1, <2>1, <2>2, <2>3, <2>4, <2>5
      DEF Send, NextMessage, IInv, TypeOK, recvVars, netVars, handshakeVars
  <1>9. SentFromScript' /\ DeliveredInOrder' /\ AckedWasDelivered'
    <2>1. SentFromScript'
      <3> SUFFICES ASSUME NEW q \in Peers
                   PROVE  outgoingMsgId'[q] <= Len(Script[q])
        BY DEF SentFromScript
      <3>1. outgoingMsgId[q] <= Len(Script[q]) /\ outgoingMsgId \in [Peers -> Nat]
        BY DEF IInv, SentFromScript, TypeOK
      <3> QED BY <1>1, <1>2, <3>1
    <2>2. DeliveredInOrder'
      <3>1. \A q \in Peers : /\ Other(q) \in Peers
                             /\ incomingMsgId[q] \in Nat
                             /\ outgoingMsgId[Other(q)] \in Nat
                             /\ outgoingMsgId'[Other(q)] \in Nat
                             /\ outgoingMsgId[Other(q)] <= outgoingMsgId'[Other(q)]
        BY <1>5, <1>8, OtherPeer DEF IInv, TypeOK, CountersGrow
      <3> QED
        BY <1>1, <3>1 DEF IInv, DeliveredInOrder
    <2>3. AckedWasDelivered'
      BY <1>1 DEF IInv, AckedWasDelivered
    <2> QED BY <2>1, <2>2, <2>3
  <1>10. UnackQueue'
    <2> SUFFICES ASSUME NEW q \in Peers
                 PROVE  /\ Len(outgoingUnackMsg'[q]) + outgoingAckId[q] = outgoingMsgId'[q]
                        /\ \A i \in 1 .. Len(outgoingUnackMsg'[q]) :
                             outgoingUnackMsg'[q][i].id = outgoingAckId[q] + i
      BY <1>1 DEF UnackQueue
    <2>1. CASE q = p
      <3> DEFINE queue == outgoingUnackMsg[p]
      <3>1. /\ queue \in Seq(ProtocolMessage) /\ Len(queue) \in Nat
            /\ Len(queue) + outgoingAckId[p] = outgoingMsgId[p]
            /\ outgoingAckId[p] \in Nat
        BY LenProperties DEF IInv, TypeOK, UnackQueue
      <3>2. \A i \in 1 .. Len(queue) : queue[i].id = outgoingAckId[p] + i
        BY DEF IInv, UnackQueue
      <3>3. /\ Len(Append(queue, msg)) = Len(queue) + 1
            /\ \A i \in 1 .. Len(queue) : Append(queue, msg)[i] = queue[i]
            /\ Append(queue, msg)[Len(queue) + 1] = msg
        BY <1>4, <3>1, AppendProperties
      <3>4. outgoingUnackMsg'[q] = Append(queue, msg) /\ outgoingMsgId'[q] = myId
        BY <1>1, <2>1 DEF IInv, TypeOK
      <3>5. Len(queue) + 1 + outgoingAckId[p] = myId
        <4>1. /\ Len(queue) \in Nat /\ outgoingAckId[p] \in Nat
              /\ Len(queue) + outgoingAckId[p] = outgoingMsgId[p]
          BY <3>1
        <4> QED BY <4>1
      <3> HIDE DEF queue, msg
      <3>6. \A i \in 1 .. Len(queue) + 1 : Append(queue, msg)[i].id = outgoingAckId[p] + i
        <4>1. Append(queue, msg)[Len(queue) + 1].id = outgoingAckId[p] + (Len(queue) + 1)
          BY <1>4, <3>1, <3>3, <3>5
        <4> QED BY <3>1, <3>2, <3>3, <4>1
      <3>7. Len(Append(queue, msg)) = Len(queue) + 1
        BY <3>3
      <3> HIDE DEF myId
      <3> QED
        BY <2>1, <3>1, <3>4, <3>5, <3>6, <3>7
    <2>2. CASE q # p
      BY <1>1, <2>2 DEF IInv, TypeOK, UnackQueue
    <2> QED BY <2>1, <2>2
  <1>11. InFlightIsTruthful'
    <2>1. /\ WiresHonest(net) /\ QueuesHonest(writerData) /\ QueuesHonest(outgoingUnackMsg)
          /\ \A q \in Peers : Honest(q) \subseteq Honest(q)'
      BY <1>5, <1>8, QueuesOfInvariant, HonestForever DEF IInv
    <2> SUFFICES ASSUME NEW q \in Peers
                 PROVE  /\ AllTruthful(q, outgoingUnackMsg[q])'
                        /\ AllTruthful(q, writerData[q])'
                        /\ \A s \in Sockets : AllTruthful(q, net[s][q])'
      BY DEF InFlightIsTruthful
    <2>2. \A s \in Sockets : AllTruthful(q, net[s][q])'
      BY <1>1, <2>1 DEF WiresHonest, Honest
    <2>3. outgoingUnackMsg[q] \in Honest(q)' /\ writerData[q] \in Honest(q)'
      BY <2>1 DEF QueuesHonest
    <2>4. CASE q # p
      <3>1. outgoingUnackMsg'[q] = outgoingUnackMsg[q] /\ writerData'[q] = writerData[q]
        BY <1>1, <2>4 DEF Write, IInv, TypeOK
      <3> QED BY <2>2, <2>3, <3>1 DEF Honest
    <2>5. CASE q = p
      <3>1. /\ outgoingUnackMsg'[p] = Append(outgoingUnackMsg[p], msg)
            /\ writerData'[p] = writerData[p] \o written
            /\ outgoingUnackMsg[p] \in Seq(ProtocolMessage)
            /\ writerData[p] \in Seq(ProtocolMessage)
        BY <1>1 DEF Write, IInv, TypeOK
      <3>3. ASSUME NEW i \in 1 .. Len(outgoingUnackMsg'[p])
            PROVE  Truthful(p, outgoingUnackMsg[p][i])'
        <4>1. /\ Len(outgoingUnackMsg'[p]) = Len(outgoingUnackMsg[p]) + 1
              /\ Len(outgoingUnackMsg[p]) \in Nat
              /\ i <= Len(outgoingUnackMsg[p]) =>
                    outgoingUnackMsg'[p][i] = outgoingUnackMsg[p][i]
              /\ i = Len(outgoingUnackMsg[p]) + 1 => outgoingUnackMsg'[p][i] = msg
          BY <3>1, <1>4, AppendProperties, LenProperties
        <4>2. CASE i <= Len(outgoingUnackMsg[p])
          BY <4>1, <4>2, <2>3, <2>5 DEF Honest, AllTruthful, Truthful
        <4>3. CASE i = Len(outgoingUnackMsg[p]) + 1
          BY <4>1, <4>3, <1>6, <1>8 DEF Truthful, TypeOK
        <4> QED BY <4>1, <4>2, <4>3
      <3>4. ASSUME NEW i \in 1 .. Len(writerData'[p])
            PROVE  Truthful(p, writerData[p][i])'
        <4>1. /\ Len(writerData'[p]) = Len(writerData[p]) + Len(written)
              /\ Len(writerData[p]) \in Nat /\ Len(written) \in 0 .. 1
              /\ writerData'[p][i] = IF i <= Len(writerData[p])
                    THEN writerData[p][i] ELSE written[i - Len(writerData[p])]
          BY <3>1, <1>7, ConcatProperties, LenProperties
        <4>2. CASE i <= Len(writerData[p])
          BY <4>1, <4>2, <2>3, <2>5 DEF Honest, AllTruthful, Truthful
        <4>3. CASE ~(i <= Len(writerData[p]))
          <5>1. written = <<msg>> /\ i - Len(writerData[p]) = 1
            <6>1. i - Len(writerData[p]) \in 1 .. Len(written)
              <7> HIDE DEF written
              <7> QED BY <4>1, <4>3
            <6>2. Len(<<>>) = 0 /\ Len(<<msg>>) = 1
              OBVIOUS
            <6>3. written = <<msg>>
              BY <6>1, <6>2
            <6> QED BY <6>1, <6>2, <6>3
          <5>2. writerData'[p][i] = msg
            BY <4>1, <4>3, <5>1
          <5> QED BY <5>2, <1>6, <1>8 DEF Truthful, TypeOK
        <4> QED BY <4>2, <4>3
      <3> QED
        BY <2>2, <2>5, <3>3, <3>4 DEF AllTruthful
    <2> QED BY <2>4, <2>5
  <1> QED
    BY <1>8, <1>9, <1>10, <1>11 DEF IInv

(* Steps that read a message and deliver nothing. *)
LEMMA OtherReadSteps ==
    ASSUME IInv, NEW p \in Peers,
           \/ ReceiveDuplicate(p) \/ ReceiveGap(p) \/ ReceiveAck(p)
           \/ ReceiveReplayRequest(p) \/ ReceivePause(p) \/ ReceiveResume(p)
    PROVE  IInv'
  <1>0. /\ TypeOK /\ InFlightIsTruthful /\ QueuesHonest(writerData)
        /\ QueuesHonest(outgoingUnackMsg)
    BY QueuesOfInvariant DEF IInv
  <1> DEFINE Read(type) == Pop(p, type) /\ TakeAck(p) /\ UNCHANGED <<outgoingMsgId, recvVars>>
  <1>1. ASSUME NEW type, Read(type)
        PROVE  /\ outgoingUnackMsg' \in [Peers -> Seq(ProtocolMessage)]
               /\ QueuesHonest(outgoingUnackMsg')
               /\ outgoingAckId' \in [Peers -> Nat]
               /\ net' \in [Sockets -> [Peers -> Seq(ProtocolMessage)]]
    BY <1>0, <1>1, TakeAckCuts, PopHonest DEF QueuesHonest, WiresHonest
  <1>2. CASE ReceiveDuplicate(p)
    <2>1. Read("Regular") /\ UNCHANGED writerData
      BY <1>2 DEF ReceiveDuplicate, writerVars
    <2>2. TypeOK'
      BY <1>0, <1>1, <1>2, <2>1
      DEF ReceiveDuplicate, Pop, TypeOK, recvVars, timerVars, writerVars, handshakeVars
    <2> QED BY <1>0, <2>1, <2>2, ReadStep
  <1>3. CASE ReceiveGap(p)
    <2>1. Read("Regular")
      BY <1>3 DEF ReceiveGap
    <2>2. QueuesHonest(writerData')
      <3>1. Truthful(p, Plain("ReplayRequest")) /\ Plain("ReplayRequest") \in ProtocolMessage
        BY <1>0, TruthfulMessages, MessageTypes DEF ProtocolMessageType
      <3>2. (IF replayRequested[p] THEN <<>> ELSE <<Plain("ReplayRequest")>>) \in Honest(p)
        BY <3>1, HonestOne, HonestEmpty
      <3> QED BY <1>0, <1>3, <3>2, WriteHonest DEF ReceiveGap
    <2>3. TypeOK'
      BY <1>0, <1>1, <1>3, <2>1, <2>2
      DEF ReceiveGap, QueuesHonest, Pop, TypeOK, recvVars, timerVars, handshakeVars
    <2> QED BY <2>1, <2>2, <2>3, ReadStep
  <1>4. CASE ReceiveAck(p)
    <2>1. PICK type \in {"Ack", "KeepAlive"} : Read(type)
      BY <1>4 DEF ReceiveAck
    <2>2. UNCHANGED writerData
      BY <1>4 DEF ReceiveAck, writerVars
    <2>3. TypeOK'
      BY <1>0, <1>1, <1>4, <2>1
      DEF ReceiveAck, Pop, TypeOK, recvVars, timerVars, writerVars, handshakeVars
    <2> QED BY <1>0, <2>1, <2>2, <2>3, ReadStep
  <1>5. CASE ReceiveReplayRequest(p)
    <2>1. Read("ReplayRequest")
      BY <1>5 DEF ReceiveReplayRequest
    <2>2. QueuesHonest(writerData')
      <3>1. outgoingUnackMsg'[p] \in Honest(p)
        BY <1>1, <2>1 DEF QueuesHonest
      <3> QED BY <1>0, <1>5, <3>1, WriteHonest DEF ReceiveReplayRequest
    <2>3. outgoingAckTimeout' \in [Peers -> BOOLEAN]
      <3>1. outgoingAckTimeout' = [outgoingAckTimeout EXCEPT ![p] =
              outgoingAckTimeout[p] \/ (outgoingMsgId'[p] > outgoingAckId'[p]
                                        /\ ~isReconnecting'[p])]
        BY <1>5 DEF ReceiveReplayRequest, RecvAckCheck
      <3> QED BY <1>0, <3>1 DEF TypeOK
    <2>4. TypeOK'
      BY <1>0, <1>1, <1>5, <2>1, <2>2, <2>3
      DEF ReceiveReplayRequest, QueuesHonest, Pop, TypeOK, recvVars, handshakeVars
    <2> QED BY <2>1, <2>2, <2>4, ReadStep
  <1>6. CASE ReceivePause(p)
    <2>1. Read("Pause") /\ UNCHANGED writerData
      BY <1>6 DEF ReceivePause
    <2>2. TypeOK'
      BY <1>0, <1>1, <1>6, <2>1
      DEF ReceivePause, Pop, TypeOK, recvVars, timerVars, handshakeVars
    <2> QED BY <1>0, <2>1, <2>2, ReadStep
  <1>7. CASE ReceiveResume(p)
    <2>1. Read("Resume") /\ UNCHANGED writerData
      BY <1>7 DEF ReceiveResume
    <2>2. TypeOK'
      BY <1>0, <1>1, <1>7, <2>1
      DEF ReceiveResume, Pop, TypeOK, recvVars, timerVars, handshakeVars
    <2> QED BY <1>0, <2>1, <2>2, ReadStep
  <1> QED
    BY <1>2, <1>3, <1>4, <1>5, <1>6, <1>7

(* Timers, KeepAlive and flush. *)
LEMMA TimerSteps ==
    ASSUME IInv, NEW p \in Peers,
           \/ AckTimeout(p) \/ UnackTimeout(p) \/ KeepAlive(p) \/ Flush(p)
           \/ ReplayWindowEnds(p)
    PROVE  IInv'
  <1>0. TypeOK /\ InFlightIsTruthful /\ WiresHonest(net) /\ QueuesHonest(writerData)
    BY QueuesOfInvariant DEF IInv
  <1>1. CASE AckTimeout(p)
    <2>1. (IF incomingMsgId[p] > incomingAckId[p]
           THEN <<AckMsg(incomingMsgId[p])>> ELSE <<>>) \in Honest(p)
      BY <1>0, TruthfulMessages, MessageTypes, HonestOne, HonestEmpty DEF TypeOK
    <2>2. QueuesHonest(writerData')
      BY <1>0, <1>1, <2>1, WriteHonest DEF AckTimeout
    <2>3. TypeOK'
      BY <1>0, <1>1, <2>2 DEF AckTimeout, TypeOK, QueuesHonest, sendVars, recvVars,
         timerVars, netVars, handshakeVars
    <2> QED BY <1>0, <1>1, <2>2, <2>3, QuietStep DEF AckTimeout, netVars
  <1>2. CASE UnackTimeout(p)
    <2>1. socketTimeoutFired' \in [Peers -> BOOLEAN]
      <3>1. socketTimeoutFired' = [socketTimeoutFired EXCEPT ![p] = socketTimeoutFired[p]
              \/ (outgoingMsgId[p] > outgoingAckId[p] /\ ~isReconnecting[p])]
        BY <1>2 DEF UnackTimeout
      <3> QED BY <1>0, <3>1 DEF TypeOK
    <2>2. TypeOK'
      BY <1>0, <1>2, <2>1 DEF UnackTimeout, TypeOK, sendVars, recvVars, writerVars,
         netVars, handshakeVars
    <2> QED BY <1>0, <1>2, <2>2, QuietStep DEF UnackTimeout, netVars, writerVars
  <1>3. CASE KeepAlive(p)
    <2>1. <<Msg("KeepAlive", 0, incomingMsgId[p], NoData)>> \in Honest(p)
      BY <1>0, TruthfulMessages, MessageTypes, HonestOne DEF TypeOK
    <2>2. QueuesHonest(writerData')
      BY <1>0, <1>3, <2>1, WriteHonest DEF KeepAlive
    <2>3. TypeOK'
      BY <1>0, <1>3, <2>2 DEF KeepAlive, TypeOK, QueuesHonest, sendVars, recvVars,
         netVars, handshakeVars
    <2> QED BY <1>0, <1>3, <2>2, <2>3, QuietStep DEF KeepAlive, netVars
  <1>4. CASE Flush(p)
    <2>1. QueuesHonest(writerData')
      BY <1>0, <1>4, HonestEmpty DEF Flush, QueuesHonest
    <2>2. WiresHonest(net')
      <3>1. net[socket[p]][p] \o writerData[p] \in Honest(p)
        BY <1>0, HonestConcat DEF WiresHonest, QueuesHonest, TypeOK
      <3>2. net[socket[p]][p] \o writerData[p] \in Seq(ProtocolMessage)
        BY <3>1 DEF Honest
      <3>3. \/ net' = net
            \/ net' = [net EXCEPT ![socket[p]][p] = net[socket[p]][p] \o writerData[p]]
        BY <1>0, <1>4 DEF Flush, TypeOK
      <3>4. socket[p] \in Sockets
        BY <1>0 DEF TypeOK
      <3> DEFINE wire == net[socket[p]][p] \o writerData[p]
      <3>5. wire \in Honest(p) /\ wire \in Seq(ProtocolMessage)
        BY <3>1, <3>2
      <3>6. net' = net \/ net' = [net EXCEPT ![socket[p]][p] = wire]
        BY <3>3
      <3> HIDE DEF wire
      <3>7. CASE net' = [net EXCEPT ![socket[p]][p] = wire]
        <4>1. net' \in [Sockets -> [Peers -> Seq(ProtocolMessage)]]
          BY <1>0, <3>4, <3>5, <3>7 DEF WiresHonest
        <4>2. \A s \in Sockets, q \in Peers :
                net'[s][q] = IF s = socket[p] /\ q = p THEN wire ELSE net[s][q]
          BY <1>0, <3>4, <3>7 DEF WiresHonest
        <4> QED BY <1>0, <3>5, <4>1, <4>2 DEF WiresHonest
      <3> QED BY <1>0, <3>6, <3>7
    <2>3. TypeOK'
      BY <1>0, <1>4, <2>1, <2>2 DEF Flush, TypeOK, QueuesHonest, WiresHonest, sendVars,
         recvVars, timerVars, handshakeVars
    <2> QED BY <1>4, <2>1, <2>2, <2>3, QuietStep DEF Flush
  <1>5. CASE ReplayWindowEnds(p)
    <2>1. TypeOK'
      BY <1>0, <1>5 DEF ReplayWindowEnds, TypeOK, sendVars, recvVars, timerVars,
         writerVars, netVars, handshakeVars
    <2> QED BY <1>0, <1>5, <2>1, QuietStep DEF ReplayWindowEnds, netVars, writerVars
  <1> QED
    BY <1>1, <1>2, <1>3, <1>4, <1>5

(* Replacing a socket: the old one keeps a prefix of what was written. *)
LEMMA BeginHonest ==
    ASSUME TypeOK, NEW p \in Peers, NEW s \in Sockets, NEW written \in Honest(p),
           NEW links, WiresHonest(links), QueuesHonest(writerData),
           BeginAcceptReconnection(p, s, written, links)
    PROVE  /\ WiresHonest(net') /\ QueuesHonest(writerData')
           /\ isReconnecting' \in [Peers -> BOOLEAN]
           /\ replayRequested' \in [Peers -> BOOLEAN]
           /\ socketTimeoutFired' \in [Peers -> BOOLEAN]
           /\ socket' \in [Peers -> Sockets]
           /\ isPaused' \in [Peers -> BOOLEAN]
           /\ up' \in [Sockets -> BOOLEAN]
  <1> DEFINE old == socket[p]
             flushed == IF up[old] /\ ~isPaused[p]
                        THEN links[old][p] \o writerData[p] ELSE links[old][p]
  <1>1. old \in Sockets
    BY DEF TypeOK
  <1>2. flushed \in Honest(p)
    BY <1>1, HonestConcat DEF WiresHonest, QueuesHonest
  <1>3. PICK left \in Prefixes(flushed) :
          net' = [links EXCEPT ![old] = [q \in Peers |-> IF q = p THEN left ELSE <<>>]]
    BY DEF BeginAcceptReconnection, CloseOldSocket
  <1>4. left \in Honest(p)
    BY <1>2, HonestPrefix
  <1> HIDE DEF flushed
  <1>5. WiresHonest(net')
    <2>1. \A q \in Peers : (IF q = p THEN left ELSE <<>>) \in Honest(q)
      BY <1>4, HonestEmpty
    <2>2. [q \in Peers |-> IF q = p THEN left ELSE <<>>] \in [Peers -> Seq(ProtocolMessage)]
      BY <2>1 DEF Honest
    <2> QED
      BY <1>1, <1>3, <2>1, <2>2 DEF WiresHonest
  <1>6. QueuesHonest(writerData')
    <2>1. written \in Seq(ProtocolMessage)
      BY DEF Honest
    <2> QED
      BY <2>1 DEF BeginAcceptReconnection, QueuesHonest
  <1> QED
    BY <1>5, <1>6 DEF BeginAcceptReconnection, CloseOldSocket, TypeOK

LEMMA EndHonest ==
    ASSUME IInv, NEW p \in Peers, NEW after \in Honest(p), EndAcceptReconnection(p, after)
    PROVE  /\ QueuesHonest(writerData')
           /\ isReconnecting' \in [Peers -> BOOLEAN]
           /\ incomingAckId' \in [Peers -> Nat]
           /\ outgoingAckTimeout' \in [Peers -> BOOLEAN]
  <1>0. TypeOK /\ QueuesHonest(writerData) /\ QueuesHonest(outgoingUnackMsg)
    BY QueuesOfInvariant DEF IInv
  <1>1. <<AckMsg(incomingMsgId[p])>> \in Honest(p)
    BY <1>0, TruthfulMessages, MessageTypes, HonestOne DEF TypeOK
  <1>2. outgoingUnackMsg[p] \in Honest(p)
    BY <1>0 DEF QueuesHonest
  <1>3. <<AckMsg(incomingMsgId[p])>> \o outgoingUnackMsg[p] \o after \in Honest(p)
    <2>1. <<AckMsg(incomingMsgId[p])>> \o outgoingUnackMsg[p] \in Honest(p)
      BY <1>1, <1>2, HonestConcat
    <2> QED BY <2>1, HonestConcat
  <1>4. QueuesHonest(writerData')
    BY <1>0, <1>3, WriteHonest DEF EndAcceptReconnection, Repeated
  <1>5. outgoingAckTimeout' \in [Peers -> BOOLEAN]
    <2>1. outgoingAckTimeout' = [outgoingAckTimeout EXCEPT ![p] =
            outgoingAckTimeout[p] \/ (outgoingMsgId'[p] > outgoingAckId'[p]
                                      /\ ~isReconnecting'[p])]
      BY DEF EndAcceptReconnection, Repeated, RecvAckCheck
    <2> QED BY <1>0, <2>1 DEF TypeOK
  <1> QED
    BY <1>0, <1>4, <1>5 DEF EndAcceptReconnection, Repeated, TypeOK

(* What the server's throw-away protocol reads and answers. *)
LEMMA ReplyHonest ==
    ASSUME TypeOK, InFlightIsTruthful, NEW s \in Sockets, HandshakeReadable(s),
           NEW msgs \in Honest(Server)
    PROVE  WiresHonest(HandshakeReply(s, msgs))
  <1>0. Client \in Peers /\ Server \in Peers /\ Client # Server
    BY PeersAssumption DEF Peers
  <1>1. WiresHonest(net)
    BY QueuesOfInvariant
  <1>2. Tail(net[s][Client]) \in Honest(Client)
    BY <1>0, <1>1, HonestTail DEF WiresHonest, HandshakeReadable
  <1>3. net[s][Server] \o msgs \in Honest(Server)
    BY <1>0, <1>1, HonestConcat DEF WiresHonest
  <1> DEFINE pair == [q \in Peers |->
                IF q = Client THEN Tail(net[s][q])
                ELSE IF up[s] THEN net[s][q] \o msgs ELSE net[s][q]]
  <1>4. \A q \in Peers : pair[q] \in Honest(q)
    BY <1>0, <1>1, <1>2, <1>3 DEF Peers, WiresHonest
  <1>5. pair \in [Peers -> Seq(ProtocolMessage)]
    BY <1>4 DEF Honest
  <1>6. HandshakeReply(s, msgs) = [net EXCEPT ![s] = pair]
    BY <1>1 DEF HandshakeReply, WiresHonest
  <1> HIDE DEF pair
  <1> QED
    BY <1>1, <1>4, <1>5, <1>6 DEF WiresHonest

LEMMA ClientSteps ==
    ASSUME IInv, ClientStep
    PROVE  IInv'
  <1>0. /\ TypeOK /\ InFlightIsTruthful /\ WiresHonest(net)
        /\ QueuesHonest(writerData) /\ QueuesHonest(outgoingUnackMsg)
        /\ Client \in Peers
    BY QueuesOfInvariant DEF IInv, Peers
  <1>c. ASSUME NEW data \in ControlData
        PROVE  <<Control(data)>> \in Honest(Client)
    BY <1>0, TruthfulMessages, MessageTypes, HonestOne
  <1> DEFINE Read == /\ Pop(Client, "Control") /\ TakeAck(Client)
                     /\ UNCHANGED <<outgoingMsgId, recvVars>>
  <1>1. ASSUME Read
        PROVE  /\ outgoingUnackMsg' \in [Peers -> Seq(ProtocolMessage)]
               /\ outgoingAckId' \in [Peers -> Nat]
               /\ net' \in [Sockets -> [Peers -> Seq(ProtocolMessage)]]
    BY <1>0, <1>1, TakeAckCuts, PopHonest DEF QueuesHonest, WiresHonest
  <1>2. CASE ReceiveSign
    <2>1. Read
      BY <1>2 DEF ReceiveSign
    <2>2. QueuesHonest(writerData')
      BY <1>0, <1>2, <1>c, WriteHonest DEF ReceiveSign, ControlData
    <2>3. TypeOK'
      BY <1>0, <1>1, <1>2, <2>1, <2>2
      DEF ReceiveSign, QueuesHonest, Pop, TypeOK, recvVars, timerVars
    <2> QED BY <1>0, <2>1, <2>2, <2>3, ReadStep
  <1>3. CASE ReceiveOk
    <2>1. Read /\ UNCHANGED writerData
      BY <1>3 DEF ReceiveOk, writerVars
    <2>2. TypeOK'
      BY <1>0, <1>1, <1>3, <2>1
      DEF ReceiveOk, Pop, TypeOK, recvVars, timerVars, writerVars
    <2> QED BY <1>0, <2>1, <2>2, ReadStep
  <1>4. CASE ClientBegin
    <2>1. lastSocket + 1 \in Sockets /\ lastSocket' = lastSocket + 1
      BY <1>0, <1>4, BoundsAssumption DEF ClientBegin, TypeOK, Sockets
    <2>2. <<Control("auth")>> \in Honest(Client)
      BY <1>c DEF ControlData
    <2>3. BeginAcceptReconnection(Client, lastSocket + 1, <<Control("auth")>>, net)
      BY <1>4 DEF ClientBegin
    <2>4. /\ WiresHonest(net') /\ QueuesHonest(writerData')
          /\ isReconnecting' \in [Peers -> BOOLEAN]
          /\ replayRequested' \in [Peers -> BOOLEAN]
          /\ socketTimeoutFired' \in [Peers -> BOOLEAN]
          /\ socket' \in [Peers -> Sockets]
          /\ isPaused' \in [Peers -> BOOLEAN]
          /\ up' \in [Sockets -> BOOLEAN]
      BY <1>0, <2>1, <2>2, <2>3, BeginHonest
    <2>5. TypeOK'
      BY <1>0, <1>4, <2>1, <2>4
      DEF ClientBegin, WiresHonest, QueuesHonest, TypeOK, sendVars, recvVars
    <2> QED BY <1>4, <2>4, <2>5, QuietStep DEF ClientBegin
  <1>5. CASE ClientEnd
    <2>1. /\ QueuesHonest(writerData')
          /\ isReconnecting' \in [Peers -> BOOLEAN]
          /\ incomingAckId' \in [Peers -> Nat]
          /\ outgoingAckTimeout' \in [Peers -> BOOLEAN]
      BY <1>0, <1>5, HonestEmpty, EndHonest DEF ClientEnd
    <2>2. TypeOK'
      BY <1>0, <1>5, <2>1
      DEF ClientEnd, EndAcceptReconnection, Repeated, QueuesHonest, TypeOK, sendVars, recvVars, netVars
    <2> QED BY <1>0, <1>5, <2>1, <2>2, QuietStep DEF ClientEnd, EndAcceptReconnection, Repeated, netVars
  <1> QED
    BY <1>2, <1>3, <1>4, <1>5 DEF ClientStep

LEMMA ServerSteps ==
    ASSUME IInv, (\E s \in Sockets : ServerStep(s)) \/ ServerEnd
    PROVE  IInv'
  <1>0. /\ TypeOK /\ InFlightIsTruthful /\ WiresHonest(net)
        /\ QueuesHonest(writerData) /\ QueuesHonest(outgoingUnackMsg)
        /\ Server \in Peers
    BY QueuesOfInvariant DEF IInv, Peers
  <1>c. /\ \A data \in ControlData : <<Control(data)>> \in Honest(Server)
        /\ \A type \in ProtocolMessageType \ {"Regular"} : <<Plain(type)>> \in Honest(Server)
        /\ <<>> \in Honest(Server)
    BY <1>0, TruthfulMessages, MessageTypes, HonestOne, HonestEmpty
  <1>1. ASSUME NEW s \in Sockets, HandshakeAuth(s) PROVE IInv'
    <2>1. WiresHonest(net')
      <3>1. <<Control("sign")>> \in Honest(Server)
        BY <1>c DEF ControlData
      <3> QED
        BY <1>0, <1>1, <3>1, ReplyHonest DEF HandshakeAuth, HandshakeRead
    <2>2. TypeOK'
      BY <1>0, <1>1, <2>1 DEF HandshakeAuth, handshakeUnchanged, WiresHonest, TypeOK,
         sendVars, recvVars, timerVars, writerVars
    <2> QED
      BY <1>0, <1>1, <2>1, <2>2, QuietStep
      DEF HandshakeAuth, handshakeUnchanged, writerVars
  <1>2. ASSUME NEW s \in Sockets, HandshakeIgnore(s) PROVE IInv'
    <2>1. WiresHonest(net')
      BY <1>0, <1>2, <1>c, ReplyHonest DEF HandshakeIgnore
    <2>2. TypeOK'
      BY <1>0, <1>2, <2>1 DEF HandshakeIgnore, handshakeUnchanged, WiresHonest, TypeOK,
         sendVars, recvVars, timerVars, writerVars
    <2> QED
      BY <1>0, <1>2, <2>1, <2>2, QuietStep
      DEF HandshakeIgnore, handshakeUnchanged, writerVars
  <1>3. ASSUME NEW s \in Sockets, HandOver(s) PROVE IInv'
    <2>1. <<Plain("Pause"), Control("ok")>> \in Honest(Server)
      <3>1. /\ Plain("Pause") \in ProtocolMessage /\ Control("ok") \in ProtocolMessage
            /\ Truthful(Server, Plain("Pause")) /\ Truthful(Server, Control("ok"))
        BY <1>0, MessageTypes, TruthfulMessages DEF ControlData, ProtocolMessageType
      <3> QED BY <1>0, <3>1, HonestTwo
    <2>2. WiresHonest(net')
      BY <1>0, <1>3, <2>1, ReplyHonest DEF HandOver, HandshakeRead
    <2>3. TypeOK'
      BY <1>0, <1>3, <2>2 DEF HandOver, handshakeUnchanged, WiresHonest, TypeOK,
         sendVars, recvVars, timerVars, writerVars
    <2> QED
      BY <1>0, <1>3, <2>2, <2>3, QuietStep
      DEF HandOver, handshakeUnchanged, writerVars
  <1>4. ASSUME NEW s \in Sockets, NEW links, WiresHonest(links),
               BeginAcceptReconnection(Server, s, <<>>, links),
               UNCHANGED serverBeginUnchanged,
               serverState' = [serverState EXCEPT ![s] = "Done"]
        PROVE  IInv'
    <2>1. /\ WiresHonest(net') /\ QueuesHonest(writerData')
          /\ isReconnecting' \in [Peers -> BOOLEAN]
          /\ replayRequested' \in [Peers -> BOOLEAN]
          /\ socketTimeoutFired' \in [Peers -> BOOLEAN]
          /\ socket' \in [Peers -> Sockets]
          /\ isPaused' \in [Peers -> BOOLEAN]
          /\ up' \in [Sockets -> BOOLEAN]
      BY <1>0, <1>4, <1>c, BeginHonest
    <2>2. TypeOK'
      BY <1>0, <1>4, <2>1 DEF serverBeginUnchanged, WiresHonest, QueuesHonest, TypeOK,
         sendVars, recvVars
    <2> QED BY <1>4, <2>1, <2>2, QuietStep DEF serverBeginUnchanged
  <1>5. ASSUME NEW s \in Sockets, AcceptManagement(s) PROVE IInv'
    <2>1. <<Control("ok")>> \in Honest(Server)
      BY <1>c DEF ControlData
    <2>2. WiresHonest(HandshakeReply(s, <<Control("ok")>>))
      BY <1>0, <1>5, <2>1, ReplyHonest DEF AcceptManagement, HandshakeRead
    <2> QED BY <1>4, <1>5, <2>2 DEF AcceptManagement
  <1>6. ASSUME NEW s \in Sockets, AcceptExtensionHost(s) PROVE IInv'
    BY <1>0, <1>4, <1>6 DEF AcceptExtensionHost
  <1>7. CASE ServerEnd
    <2>1. (IF ExtensionHost THEN <<Plain("Resume")>> ELSE <<>>) \in Honest(Server)
      BY <1>c DEF ProtocolMessageType
    <2>2. /\ QueuesHonest(writerData')
          /\ isReconnecting' \in [Peers -> BOOLEAN]
          /\ incomingAckId' \in [Peers -> Nat]
          /\ outgoingAckTimeout' \in [Peers -> BOOLEAN]
      BY <1>0, <1>7, <2>1, EndHonest DEF ServerEnd
    <2>3. TypeOK'
      BY <1>0, <1>7, <2>2 DEF ServerEnd, EndAcceptReconnection, Repeated, QueuesHonest, TypeOK,
         sendVars, recvVars, netVars, handshakeVars
    <2> QED
      BY <1>0, <1>7, <2>2, <2>3, QuietStep DEF ServerEnd, EndAcceptReconnection, Repeated, netVars
  <1> QED
    BY <1>1, <1>2, <1>3, <1>5, <1>6, <1>7 DEF ServerStep

LEMMA EnvironmentSteps ==
    ASSUME IInv, NEW s \in Sockets, Environment(s)
    PROVE  IInv'
  <1>0. TypeOK /\ WiresHonest(net) /\ QueuesHonest(writerData)
    BY QueuesOfInvariant DEF IInv
  <1>p. Client \in Peers /\ Server \in Peers /\ Client # Server
    BY PeersAssumption DEF Peers
  <1>1. CASE SocketBreaks(s)
    <2>1. PICK c \in Prefixes(net[s][Client]), d \in Prefixes(net[s][Server]) :
            net' = [net EXCEPT ![s][Client] = c, ![s][Server] = d]
      BY <1>1 DEF SocketBreaks
    <2>2. c \in Honest(Client) /\ d \in Honest(Server)
      BY <1>0, <1>p, HonestPrefix DEF WiresHonest
    <2>3. c \in Seq(ProtocolMessage) /\ d \in Seq(ProtocolMessage)
      BY <2>2 DEF Honest
    <2>4. WiresHonest(net')
      <3>1. \A r \in Sockets, q \in Peers :
              net'[r][q] = IF r # s THEN net[r][q] ELSE IF q = Client THEN c ELSE d
        BY <1>0, <1>p, <2>1 DEF WiresHonest, Peers
      <3>2. net' \in [Sockets -> [Peers -> Seq(ProtocolMessage)]]
        BY <1>0, <2>1, <2>3 DEF WiresHonest
      <3> QED
        BY <1>0, <2>2, <3>1, <3>2 DEF WiresHonest, Peers
    <2>5. TypeOK'
      BY <1>0, <1>1, <2>4 DEF SocketBreaks, WiresHonest, TypeOK, sendVars, recvVars,
         timerVars, writerVars, handshakeVars
    <2> QED BY <1>0, <1>1, <2>4, <2>5, QuietStep DEF SocketBreaks, writerVars
  <1>2. ASSUME NEW p \in Peers, MessageLost(s, p) PROVE IInv'
    <2>1. Tail(net[s][p]) \in Honest(p)
      BY <1>0, <1>2, HonestTail DEF MessageLost, WiresHonest
    <2>2. Tail(net[s][p]) \in Seq(ProtocolMessage)
      BY <2>1 DEF Honest
    <2>3. WiresHonest(net')
      <3>1. net' = [net EXCEPT ![s][p] = Tail(net[s][p])]
        BY <1>0, <1>2 DEF MessageLost, WiresHonest
      <3>2. \A r \in Sockets, q \in Peers :
              net'[r][q] = IF r = s /\ q = p THEN Tail(net[s][p]) ELSE net[r][q]
        BY <1>0, <3>1 DEF WiresHonest
      <3>3. net' \in [Sockets -> [Peers -> Seq(ProtocolMessage)]]
        BY <1>0, <2>2, <3>1 DEF WiresHonest
      <3> QED
        BY <1>0, <2>1, <3>2, <3>3 DEF WiresHonest
    <2>4. TypeOK'
      BY <1>0, <1>2, <2>3 DEF MessageLost, WiresHonest, TypeOK, sendVars, recvVars,
         timerVars, writerVars, handshakeVars
    <2> QED BY <1>0, <1>2, <2>3, <2>4, QuietStep DEF MessageLost, writerVars
  <1> QED
    BY <1>1, <1>2 DEF Environment

LEMMA InvariantIsInductive == IInv /\ [Next]_vars => IInv'
  <1> SUFFICES ASSUME IInv, [Next]_vars
               PROVE  IInv'
    OBVIOUS
  <1>1. ASSUME NEW p \in Peers, PeerStep(p) PROVE IInv'
    BY <1>1, SendStep, ReceiveRegularStep, OtherReadSteps, TimerSteps DEF PeerStep
  <1>2. CASE ClientStep
    BY <1>2, ClientSteps
  <1>3. CASE (\E s \in Sockets : ServerStep(s)) \/ ServerEnd
    BY <1>3, ServerSteps
  <1>4. ASSUME NEW s \in Sockets, Environment(s) PROVE IInv'
    BY <1>4, EnvironmentSteps
  <1>5. CASE UNCHANGED vars
    <2>0. TypeOK /\ WiresHonest(net) /\ QueuesHonest(writerData)
      BY QueuesOfInvariant DEF IInv
    <2>1. TypeOK'
      BY <1>5, <2>0 DEF vars, TypeOK, sendVars, recvVars, timerVars, writerVars, netVars,
         handshakeVars
    <2> QED BY <1>5, <2>0, <2>1, QuietStep DEF vars, writerVars, netVars
  <1> QED
    BY <1>1, <1>2, <1>3, <1>4, <1>5 DEF Next

-----------------------------------------------------------------------------
(* The theorems *)

LEMMA InvariantHolds == Spec => []IInv
  BY InvariantInitially, InvariantIsInductive, PTL DEF Spec

(* The fields of both protocol objects, the sockets and the handshake stay  *)
(* within their types, for every script and any number of sockets.          *)
THEOREM TypeCorrect == Spec => []TypeOK
  <1>1. IInv => TypeOK
    BY DEF IInv
  <1> QED
    BY <1>1, InvariantHolds, PTL

(* endAcceptReconnection's replay and _receiveMessage's test of the number  *)
(* give each application exactly the first messages its peer sent, once and *)
(* in order, over any sequence of broken, stale or lossy sockets.           *)
THEOREM NothingLostOrRepeated == Spec => []DeliveredInOrder
  <1>1. IInv => DeliveredInOrder
    BY DEF IInv
  <1> QED
    BY <1>1, InvariantHolds, PTL

(* _outgoingUnackMsg always holds exactly the unacknowledged messages, so   *)
(* _recvAckCheck's `peek()!` finds one whenever it is reached.              *)
THEOREM UnackQueueExact == Spec => []UnackQueue
  <1>1. IInv => UnackQueue
    BY DEF IInv
  <1> QED
    BY <1>1, InvariantHolds, PTL

(* No message leaves that queue before the peer's onMessage has fired it.   *)
THEOREM AcksAreSafe == Spec => []AckedWasDelivered
  <1>1. IInv => AckedWasDelivered
    BY DEF IInv
  <1> QED
    BY <1>1, InvariantHolds, PTL

(* Whatever the peer has not delivered can be sent again at a reconnection: *)
(* it is in the queue, at its place.                                        *)
THEOREM ReplayStaysPossible == Spec => []ReplayIsPossible
  <1>1. IInv => ReplayIsPossible
    BY DEF IInv, ReplayIsPossible
  <1> QED
    BY <1>1, InvariantHolds, PTL

(* Every message on any socket stays true of the state for ever.            *)
THEOREM MessagesStayTrue == Spec => []InFlightIsTruthful
  <1>1. IInv => InFlightIsTruthful
    BY DEF IInv
  <1> QED
    BY <1>1, InvariantHolds, PTL

-----------------------------------------------------------------------------
(* The timers *)

(* What NothingIsForgotten says of one peer. *)
Timed(p) ==
    /\ incomingMsgId[p] > incomingAckId[p] => incomingAckTimeout[p]
    /\ outgoingMsgId[p] > outgoingAckId[p] =>
            outgoingAckTimeout[p] \/ isReconnecting[p] \/ socketTimeoutFired[p]

LEMMA ForgottenByPeer == NothingIsForgotten <=> \A p \in Peers : Timed(p)
  BY DEF NothingIsForgotten, AckIsScheduled, UnackedIsWatched, Timed

(* The fields of q that Timed(q) speaks of stay as they are. *)
TimersStay(q) ==
    /\ incomingMsgId'[q] = incomingMsgId[q] /\ incomingAckId'[q] = incomingAckId[q]
    /\ incomingAckTimeout'[q] = incomingAckTimeout[q]
    /\ outgoingMsgId'[q] = outgoingMsgId[q] /\ outgoingAckId'[q] = outgoingAckId[q]
    /\ outgoingAckTimeout'[q] = outgoingAckTimeout[q]
    /\ isReconnecting'[q] = isReconnecting[q]
    /\ socketTimeoutFired'[q] = socketTimeoutFired[q]

LEMMA StayingTimed == ASSUME NEW q, TimersStay(q), Timed(q) PROVE Timed(q)'
  BY DEF TimersStay, Timed

(* An acknowledgement only leaves less to watch. *)
LEMMA TakeAckLeavesLess ==
    ASSUME TypeOK, TypeOK', NEW p \in Peers, TakeAck(p)
    PROVE  \A q \in Peers : outgoingAckId'[q] >= outgoingAckId[q]
  <1>1. outgoingAckId \in [Peers -> Nat] /\ outgoingAckId' \in [Peers -> Nat]
    BY DEF TypeOK
  <1>2. CASE Head(Readable(p)).ack > outgoingAckId[p]
    <2>1. outgoingAckId' = [outgoingAckId EXCEPT ![p] = Head(Readable(p)).ack]
      BY <1>2 DEF TakeAck
    <2>2. outgoingAckId'[p] = Head(Readable(p)).ack
      BY <1>1, <2>1
    <2> QED BY <1>1, <1>2, <2>1, <2>2
  <1>3. CASE ~(Head(Readable(p)).ack > outgoingAckId[p])
    BY <1>1, <1>3 DEF TakeAck
  <1> QED BY <1>2, <1>3

(* A message that p reads without counting it, whatever it answers. *)
LEMMA ReadStaysTimed ==
    ASSUME TypeOK, TypeOK', NEW p \in Peers, NEW q \in Peers, TakeAck(p), Timed(q),
           UNCHANGED <<isReconnecting, outgoingMsgId, incomingMsgId, incomingAckId,
                       incomingAckTimeout, timerVars>>
    PROVE  Timed(q)'
  <1>1. outgoingAckId'[q] >= outgoingAckId[q]
    BY TakeAckLeavesLess
  <1>2. outgoingAckId[q] \in Nat /\ outgoingAckId'[q] \in Nat /\ outgoingMsgId[q] \in Nat
    BY DEF TypeOK
  <1> QED BY <1>1, <1>2 DEF Timed, timerVars

(* _recvAckCheck arms the timer of its peer when there is something to watch. *)
LEMMA CheckArms ==
    ASSUME TypeOK, NEW p \in Peers, RecvAckCheck(p)
    PROVE  /\ outgoingMsgId'[p] > outgoingAckId'[p] /\ ~isReconnecting'[p]
                => outgoingAckTimeout'[p]
           /\ \A q \in Peers \ {p} : outgoingAckTimeout'[q] = outgoingAckTimeout[q]
  <1> DEFINE due == outgoingMsgId'[p] > outgoingAckId'[p] /\ ~isReconnecting'[p]
  <1>1. outgoingAckTimeout' = [outgoingAckTimeout EXCEPT ![p] = outgoingAckTimeout[p] \/ due]
    BY DEF RecvAckCheck
  <1>2. outgoingAckTimeout \in [Peers -> BOOLEAN]
    BY DEF TypeOK
  <1> HIDE DEF due
  <1>3. outgoingAckTimeout'[p] = (outgoingAckTimeout[p] \/ due)
    BY <1>1, <1>2
  <1>4. due => outgoingAckTimeout'[p]
    BY <1>3
  <1>5. \A q \in Peers \ {p} : outgoingAckTimeout'[q] = outgoingAckTimeout[q]
    BY <1>1, <1>2
  <1> QED BY <1>4, <1>5 DEF due

(* A peer that has just told all it received, and checked, is timed. *)
LEMMA CheckedIsTimed ==
    ASSUME TypeOK, NEW p \in Peers, NEW q \in Peers, q = p, RecvAckCheck(p),
           ~(incomingMsgId'[q] > incomingAckId'[q]) \/ incomingAckTimeout'[q]
    PROVE  Timed(q)'
  BY CheckArms, Zenon DEF Timed

LEMMA PeerStepsTimed ==
    ASSUME TypeOK, TypeOK', NEW p \in Peers, PeerStep(p), NEW q \in Peers, Timed(q)
    PROVE  Timed(q)'
  <1>0. /\ outgoingMsgId[q] \in Nat /\ outgoingAckId[q] \in Nat
        /\ incomingMsgId[q] \in Nat /\ incomingAckId[q] \in Nat
    BY DEF TypeOK
  <1>1. CASE Send(p)
    <2>1. /\ outgoingMsgId' = [outgoingMsgId EXCEPT ![p] = outgoingMsgId[p] + 1]
          /\ incomingAckId' = [incomingAckId EXCEPT ![p] = incomingMsgId[p]]
          /\ UNCHANGED <<incomingMsgId, incomingAckTimeout, isReconnecting, outgoingAckId,
                         socketTimeoutFired>>
          /\ RecvAckCheck(p)
      BY <1>1 DEF Send, recvVars
    <2>2. CASE q = p
      <3>1. ~(incomingMsgId'[q] > incomingAckId'[q])
        BY <1>0, <2>1, <2>2 DEF TypeOK
      <3> QED BY <2>1, <2>2, <3>1, CheckedIsTimed
    <2>3. CASE q # p
      <3>1. TimersStay(q)
        BY <2>1, <2>3, CheckArms DEF TimersStay, TypeOK
      <3> QED BY <3>1, StayingTimed
    <2> QED BY <2>2, <2>3
  <1>2. CASE AckTimeout(p)
    BY <1>0, <1>2 DEF AckTimeout, Timed, TypeOK, sendVars, recvVars, timerVars
  <1>3. CASE UnackTimeout(p)
    <2>1. UNCHANGED <<outgoingMsgId, outgoingAckId, incomingMsgId, incomingAckId,
                      incomingAckTimeout, isReconnecting>>
      BY <1>3 DEF UnackTimeout, sendVars, recvVars
    <2>2. CASE q = p
      <3>1. outgoingMsgId[q] > outgoingAckId[q] /\ ~isReconnecting[q]
                => socketTimeoutFired'[q]
        <4> DEFINE due == outgoingMsgId[p] > outgoingAckId[p] /\ ~isReconnecting[p]
        <4>1. socketTimeoutFired' =
                [socketTimeoutFired EXCEPT ![p] = socketTimeoutFired[p] \/ due]
          BY <1>3 DEF UnackTimeout
        <4>2. socketTimeoutFired \in [Peers -> BOOLEAN]
          BY DEF TypeOK
        <4> HIDE DEF due
        <4>3. due => socketTimeoutFired'[p]
          BY <4>1, <4>2
        <4> QED BY <2>2, <4>3 DEF due
      <3> QED BY <2>1, <3>1, Zenon DEF Timed
    <2>3. CASE q # p
      <3>1. TimersStay(q)
        BY <1>3, <2>1, <2>3 DEF TimersStay, UnackTimeout, TypeOK
      <3> QED BY <3>1, StayingTimed
    <2> QED BY <2>2, <2>3
  <1>4. CASE KeepAlive(p)
    <2>1. UNCHANGED <<outgoingMsgId, outgoingAckId, incomingMsgId, incomingAckTimeout,
                      outgoingAckTimeout, isReconnecting>>
      BY <1>4 DEF KeepAlive, sendVars, recvVars
    <2>2. incomingMsgId'[q] > incomingAckId'[q] => incomingMsgId[q] > incomingAckId[q]
      BY <1>0, <1>4, <2>1 DEF KeepAlive, TypeOK
    <2>3. socketTimeoutFired[q] => socketTimeoutFired'[q]
      <3>1. socketTimeoutFired \in [Peers -> BOOLEAN]
        BY DEF TypeOK
      <3> QED BY <1>4, <3>1 DEF KeepAlive
    <2> QED BY <2>1, <2>2, <2>3, Zenon DEF Timed
  <1>5. CASE Flush(p) \/ ReplayWindowEnds(p)
    BY <1>5, StayingTimed DEF Flush, ReplayWindowEnds, TimersStay, sendVars, recvVars, timerVars
  <1>6. CASE ReceiveRegular(p)
    <2>1. outgoingAckId'[q] >= outgoingAckId[q]
      BY <1>6, TakeAckLeavesLess DEF ReceiveRegular
    <2>2. outgoingAckId'[q] \in Nat
      BY DEF TypeOK
    <2>3. UNCHANGED <<outgoingMsgId, incomingAckId, isReconnecting, outgoingAckTimeout,
                      socketTimeoutFired>>
      BY <1>6 DEF ReceiveRegular, timerVars
    <2>4. incomingMsgId'[q] > incomingAckId'[q] => incomingAckTimeout'[q]
      BY <1>0, <1>6, <2>3 DEF ReceiveRegular, SendAckCheck, Timed, TypeOK
    <2> QED BY <1>0, <2>1, <2>2, <2>3, <2>4 DEF Timed
  <1>7. CASE ReceiveDuplicate(p) \/ ReceiveGap(p) \/ ReceiveAck(p) \/ ReceivePause(p)
             \/ ReceiveResume(p)
    BY <1>7, ReadStaysTimed DEF ReceiveDuplicate, ReceiveGap, ReceiveAck, ReceivePause,
       ReceiveResume, recvVars
  <1>8. CASE ReceiveReplayRequest(p)
    <2>1. /\ TakeAck(p) /\ RecvAckCheck(p)
          /\ UNCHANGED <<outgoingMsgId, incomingMsgId, incomingAckId, incomingAckTimeout,
                         isReconnecting, socketTimeoutFired>>
      BY <1>8 DEF ReceiveReplayRequest, recvVars
    <2>2. CASE q = p
      <3>1. ~(incomingMsgId'[q] > incomingAckId'[q]) \/ incomingAckTimeout'[q]
        BY <2>1 DEF Timed
      <3> QED BY <2>1, <2>2, <3>1, CheckedIsTimed
    <2>3. CASE q # p
      <3>1. outgoingAckTimeout'[q] = outgoingAckTimeout[q]
        BY <2>1, <2>3, CheckArms
      <3>2. outgoingAckId'[q] >= outgoingAckId[q] /\ outgoingAckId'[q] \in Nat
        BY <2>1, TakeAckLeavesLess DEF TypeOK
      <3> QED BY <1>0, <2>1, <3>1, <3>2 DEF Timed
    <2> QED BY <2>2, <2>3
  <1> QED
    BY <1>1, <1>2, <1>3, <1>4, <1>5, <1>6, <1>7, <1>8 DEF PeerStep

LEMMA ReconnectionsTimed ==
    ASSUME TypeOK, TypeOK', NEW q \in Peers, Timed(q),
           ClientStep \/ (\E s \in Sockets : ServerStep(s)) \/ ServerEnd
    PROVE  Timed(q)'
  <1>0. /\ outgoingMsgId[q] \in Nat /\ outgoingAckId[q] \in Nat
        /\ incomingMsgId[q] \in Nat /\ incomingAckId[q] \in Nat
    BY DEF TypeOK
  <1>1. CASE ReceiveSign \/ ReceiveOk
    BY <1>1, ReadStaysTimed DEF ReceiveSign, ReceiveOk, recvVars, Peers
  <1>2. ASSUME NEW p \in Peers, NEW after, EndAcceptReconnection(p, after),
               UNCHANGED <<recvVars, incomingAckTimeout, socketTimeoutFired>>
        PROVE  Timed(q)'
    <2>1. /\ incomingAckId' = [incomingAckId EXCEPT ![p] = incomingMsgId[p]]
          /\ isReconnecting' = [isReconnecting EXCEPT ![p] = FALSE]
          /\ UNCHANGED <<incomingMsgId, incomingAckTimeout, outgoingMsgId, outgoingAckId,
                         socketTimeoutFired>>
          /\ RecvAckCheck(p)
      BY <1>2 DEF EndAcceptReconnection, sendVars, recvVars
    <2>2. CASE q = p
      <3>1. ~(incomingMsgId'[q] > incomingAckId'[q])
        BY <1>0, <2>1, <2>2 DEF TypeOK
      <3> QED BY <2>1, <2>2, <3>1, CheckedIsTimed
    <2>3. CASE q # p
      <3>1. TimersStay(q)
        BY <2>1, <2>3, CheckArms DEF TimersStay, TypeOK
      <3> QED BY <3>1, StayingTimed
    <2> QED BY <2>2, <2>3
  <1>3. ASSUME NEW p \in Peers, NEW s, NEW written, NEW links,
               BeginAcceptReconnection(p, s, written, links),
               UNCHANGED <<sendVars, recvVars, incomingAckId, incomingAckTimeout,
                           outgoingAckTimeout>>
        PROVE  Timed(q)'
    BY <1>0, <1>3 DEF BeginAcceptReconnection, Timed, TypeOK, sendVars, recvVars
  <1>4. CASE ClientBegin
    BY <1>3, <1>4 DEF ClientBegin, Peers
  <1>5. CASE ClientEnd \/ ServerEnd
    BY <1>2, <1>5 DEF ClientEnd, ServerEnd, Peers
  <1>6. ASSUME NEW s \in Sockets, ServerStep(s) PROVE Timed(q)'
    <2>1. CASE AcceptManagement(s) \/ AcceptExtensionHost(s)
      BY <1>3, <2>1 DEF AcceptManagement, AcceptExtensionHost, serverBeginUnchanged, Peers
    <2>2. CASE HandshakeAuth(s) \/ HandshakeIgnore(s) \/ HandOver(s)
      BY <2>2, StayingTimed DEF HandshakeAuth, HandshakeIgnore, HandOver, handshakeUnchanged,
         TimersStay, sendVars, recvVars, timerVars
    <2> QED BY <1>6, <2>1, <2>2 DEF ServerStep
  <1> QED
    BY <1>1, <1>4, <1>5, <1>6 DEF ClientStep

LEMMA TimersAreKept == IInv /\ NothingIsForgotten /\ [Next]_vars => NothingIsForgotten'
  <1> SUFFICES ASSUME IInv, NothingIsForgotten, [Next]_vars, NEW q \in Peers
               PROVE  Timed(q)'
    BY ForgottenByPeer DEF NothingIsForgotten, AckIsScheduled, UnackedIsWatched, Timed
  <1>0. TypeOK /\ TypeOK' /\ Timed(q)
    BY ForgottenByPeer, InvariantIsInductive DEF IInv
  <1>1. ASSUME NEW p \in Peers, PeerStep(p) PROVE Timed(q)'
    BY <1>0, <1>1, PeerStepsTimed
  <1>2. CASE ClientStep \/ (\E s \in Sockets : ServerStep(s)) \/ ServerEnd
    BY <1>0, <1>2, ReconnectionsTimed
  <1>3. ASSUME NEW s \in Sockets, Environment(s) PROVE Timed(q)'
    BY <1>0, <1>3, StayingTimed DEF Environment, SocketBreaks, MessageLost, TimersStay,
       sendVars, recvVars, timerVars
  <1>4. CASE UNCHANGED vars
    BY <1>0, <1>4, StayingTimed DEF vars, TimersStay, sendVars, recvVars, timerVars
  <1> QED
    BY <1>1, <1>2, <1>3, <1>4 DEF Next

(* An acknowledgement that is owed has _incomingAckTimeout running, and a   *)
(* message that is not acknowledged has _outgoingAckTimeout, or the socket  *)
(* was reported dead, or a reconnection will look after it.                 *)
THEOREM NothingStaysForgotten == Spec => []NothingIsForgotten
  <1>1. Init => NothingIsForgotten
    BY DEF Init, NothingIsForgotten, AckIsScheduled, UnackedIsWatched
  <1>2. Spec => []IInv
    BY InvariantHolds
  <1> QED
    BY <1>1, <1>2, TimersAreKept, PTL DEF Spec

-----------------------------------------------------------------------------
(* The protocol implements the reliable channel *)

(* Reading a message confirms some more messages of the channel. *)
LEMMA ReadConfirms ==
    ASSUME IInv, NEW p \in Peers, NEW type, Pop(p, type), TakeAck(p),
           UNCHANGED outgoingMsgId
    PROVE  Channel!Confirm(p)
  <1> DEFINE n == outgoingAckId'[p]
  <1>1. /\ outgoingAckId \in [Peers -> Nat] /\ outgoingAckId' \in [Peers -> Nat]
        /\ n <= incomingMsgId[Other(p)]
        /\ incomingMsgId[Other(p)] = Len(delivered[Other(p)])
        /\ incomingMsgId[Other(p)] \in Nat
    BY TakeAckCuts, OtherPeer, Counters DEF IInv, TypeOK, DeliveredInOrder
  <1>2. /\ outgoingAckId' = [outgoingAckId EXCEPT ![p] = n]
        /\ outgoingAckId[p] <= n
    <2>1. CASE Head(Readable(p)).ack > outgoingAckId[p]
      <3>1. outgoingAckId' = [outgoingAckId EXCEPT ![p] = Head(Readable(p)).ack]
        BY <2>1 DEF TakeAck
      <3> DEFINE ack == Head(Readable(p)).ack
      <3> HIDE DEF ack
      <3>2. n = ack
        BY <1>1, <3>1 DEF ack
      <3>3. ack \in Nat /\ outgoingAckId[p] \in Nat
        BY <1>1, <3>2
      <3>4. outgoingAckId[p] <= n
        BY <2>1, <3>2, <3>3 DEF ack
      <3> QED BY <3>1, <3>2, <3>4 DEF ack
    <2>2. CASE ~(Head(Readable(p)).ack > outgoingAckId[p])
      <3>1. outgoingAckId' = outgoingAckId
        BY <2>2 DEF TakeAck
      <3>2. n = outgoingAckId[p] /\ outgoingAckId[p] \in Nat
        BY <1>1, <3>1
      <3>3. outgoingAckId = [outgoingAckId EXCEPT ![p] = outgoingAckId[p]]
        BY <1>1
      <3> QED BY <3>1, <3>2, <3>3
    <2> QED BY <2>1, <2>2
  <1>3. n \in outgoingAckId[p] .. Len(delivered[Other(p)])
    BY <1>1, <1>2
  <1>4. Channel!Other(p) = Other(p)
    BY DEF Other, Channel!Other
  <1> QED
    BY <1>2, <1>3, <1>4 DEF Channel!Confirm

LEMMA StepRefines ==
    ASSUME IInv, IInv', [Next]_vars
    PROVE  [Channel!Next]_(Channel!vars)
  <1>a. Channel!Peers = Peers /\ \A p \in Peers : Channel!Other(p) = Other(p)
    BY DEF Peers, Channel!Peers, Other, Channel!Other
  <1>s. ASSUME UNCHANGED <<sendVars, recvVars>>
        PROVE  UNCHANGED Channel!vars
    BY <1>s DEF sendVars, recvVars, Channel!vars
  <1>r. ASSUME NEW p \in Peers, NEW type, Pop(p, type), TakeAck(p),
               UNCHANGED <<outgoingMsgId, delivered>>
        PROVE  Channel!Next
    BY <1>a, <1>r, ReadConfirms DEF Channel!Next, Channel!Receive
  <1>1. ASSUME NEW p \in Peers, Send(p)
        PROVE  Channel!Next
    <2>1. Channel!Send(p)
      BY <1>1 DEF Send, NextMessage, Channel!Send, recvVars
    <2> QED BY <1>a, <2>1 DEF Channel!Next
  <1>2. ASSUME NEW p \in Peers, ReceiveRegular(p)
        PROVE  Channel!Next
    <2> DEFINE msg == Head(Readable(p))
               from == Other(p)
    <2>1. Pop(p, "Regular") /\ TakeAck(p) /\ UNCHANGED outgoingMsgId
      BY <1>2 DEF ReceiveRegular, IsNext, SendAckCheck
    <2>2. Channel!Confirm(p)
      BY <2>1, ReadConfirms
    <2>3. /\ msg.id = incomingMsgId[p] + 1
          /\ msg.id \in 1 .. outgoingMsgId[from]
          /\ msg.data = Script[from][msg.id]
      <3>1. Truthful(from, msg)
        BY <2>1, PopHonest DEF IInv
      <3> QED BY <1>2, <2>1, <3>1 DEF ReceiveRegular, IsNext, SendAckCheck, Truthful, Pop
    <2>4. Len(delivered[p]) = incomingMsgId[p] /\ incomingMsgId[p] \in Nat
          /\ outgoingMsgId[from] \in Nat
      BY OtherPeer, Counters DEF IInv, DeliveredInOrder
    <2>5. delivered' = [delivered EXCEPT ![p] = Append(@, Script[from][Len(@) + 1])]
      BY <1>2, <2>3, <2>4 DEF ReceiveRegular, IsNext, SendAckCheck
    <2>6. Len(delivered[p]) < outgoingMsgId[from]
      BY <2>3, <2>4
    <2>7. Channel!Deliver(p)
      BY <1>a, <2>5, <2>6 DEF Channel!Deliver
    <2> QED BY <1>a, <2>1, <2>2, <2>7 DEF Channel!Next, Channel!Receive
  <1>3. ASSUME NEW p \in Peers, PeerStep(p)
        PROVE  [Channel!Next]_(Channel!vars)
    <2>1. CASE \/ AckTimeout(p) \/ UnackTimeout(p) \/ KeepAlive(p) \/ Flush(p)
               \/ ReplayWindowEnds(p)
      BY <1>s, <2>1 DEF AckTimeout, UnackTimeout, KeepAlive, Flush, ReplayWindowEnds
    <2>2. CASE \/ ReceiveDuplicate(p) \/ ReceiveGap(p) \/ ReceiveAck(p)
               \/ ReceiveReplayRequest(p) \/ ReceivePause(p) \/ ReceiveResume(p)
      <3>1. PICK type \in ProtocolMessageType :
              Pop(p, type) /\ TakeAck(p) /\ UNCHANGED <<outgoingMsgId, delivered>>
        BY <2>2 DEF ReceiveDuplicate, ReceiveGap, ReceiveAck, ReceiveReplayRequest,
           ReceivePause, ReceiveResume, ProtocolMessageType, recvVars
      <3> QED BY <1>r, <3>1
    <2> QED BY <1>1, <1>2, <1>3, <2>1, <2>2 DEF PeerStep
  <1>4. CASE ClientStep
    <2>1. CASE ReceiveSign \/ ReceiveOk
      <3>1. Pop(Client, "Control") /\ TakeAck(Client) /\ UNCHANGED <<outgoingMsgId, delivered>>
        BY <2>1 DEF ReceiveSign, ReceiveOk, recvVars
      <3> QED BY <1>r, <3>1 DEF Peers
    <2>2. CASE ClientBegin \/ ClientEnd
      BY <1>s, <2>2 DEF ClientBegin, ClientEnd, EndAcceptReconnection, Repeated
    <2> QED BY <1>4, <2>1, <2>2 DEF ClientStep
  <1>5. CASE (\E s \in Sockets : ServerStep(s)) \/ ServerEnd
    BY <1>s, <1>5 DEF ServerStep, ServerEnd, HandshakeAuth, HandshakeIgnore,
       AcceptManagement, HandOver, AcceptExtensionHost, EndAcceptReconnection,
       handshakeUnchanged, serverBeginUnchanged
  <1>6. CASE \E s \in Sockets : Environment(s)
    BY <1>s, <1>6 DEF Environment, SocketBreaks, MessageLost
  <1>7. CASE UNCHANGED vars
    BY <1>s, <1>7 DEF vars
  <1> QED
    BY <1>3, <1>4, <1>5, <1>6, <1>7 DEF Next

(* PersistentProtocol over replaceable sockets implements one FIFO channel  *)
(* per direction that delivers at most once, in order, and never counts as  *)
(* confirmed what was not delivered.                                        *)
THEOREM ImplementsReliableChannel == Spec => ChannelSpec
  <1>1. Init => Channel!Init
    BY DEF Init, Channel!Init, Peers, Channel!Peers
  <1>2. IInv /\ IInv' /\ [Next]_vars => [Channel!Next]_(Channel!vars)
    BY StepRefines
  <1> QED
    BY <1>1, <1>2, InvariantHolds, PTL DEF Spec, ChannelSpec, Channel!Spec

-----------------------------------------------------------------------------
(* What a socket carries, while it loses nothing in mid-stream *)

(* q can be read behind the number n without a gap: each message is at most *)
(* the next, or follows one before it.                                      *)
Gapless(q, n) ==
    \A i \in 1 .. Len(q) : \/ q[i].id <= n + 1
                           \/ \E j \in 1 .. i - 1 : q[i].id <= q[j].id + 1

(* The reader of q has the message l, or will meet it. *)
HasLatest(q, l, n) == l <= n \/ \E i \in 1 .. Len(q) : q[i].id = l

(* Only regular messages have a number, and nobody asks for a replay. *)
TidyMessages == {m \in ProtocolMessage : /\ m.type # "ReplayRequest"
                                         /\ m.type # "Regular" => m.id = 0}
PlainMessages == {m \in TidyMessages : m.type # "Regular"}

NothingIsReplayed ==
    /\ writerData \in [Peers -> Seq(TidyMessages)]
    /\ outgoingUnackMsg \in [Peers -> Seq(TidyMessages)]
    /\ net \in [Sockets -> [Peers -> Seq(TidyMessages)]]

(* The client uses the latest socket, the server one whose handshake is     *)
(* over; the sockets to come are fresh.                                     *)
SocketsInOrder ==
    /\ socket[Client] = lastSocket
    /\ serverState[socket[Server]] = "Done"
    /\ clientState # "connected" => isReconnecting[Client]
    /\ \A s \in Sockets : s > lastSocket =>
          /\ serverState[s] = "WaitingForAuth"
          /\ \A p \in Peers : net[s][p] = <<>>

(* Until the server has taken the latest socket, the client gets only what  *)
(* the handshake answers: the ok follows a Pause, and before the Pause the  *)
(* client writes no regular message.                                        *)
HandshakeMessages == {m \in PlainMessages : m.type \in {"Control", "Pause"}}

PauseIsFirst(q) ==
    \A i \in 1 .. Len(q) :
        q[i].data = "ok" => \E j \in 1 .. i - 1 : q[j].type = "Pause"

HandOverIsQuiet ==
    serverState[lastSocket] # "Done" =>
        /\ net[lastSocket][Server] \in Seq(HandshakeMessages)
        /\ \/ isPaused[Client]
           \/ /\ PauseIsFirst(net[lastSocket][Server])
              /\ clientState \in {"auth", "connectionType"}
              /\ writerData[Client] \in Seq(PlainMessages)

(* The handshake of the server finds nothing but plain messages. *)
HandshakesReadPlain ==
    \A s \in Sockets : serverState[s] # "Done" => net[s][Client] \in Seq(PlainMessages)

(* What q writes, and whether its peer reads that or will.  A socket that   *)
(* is down gets nothing more.                                               *)
Stream(q) == net[socket[q]][q] \o (IF up[socket[q]] THEN writerData[q] ELSE <<>>)

Reaches(q) == \/ socket[Client] = socket[Server]
              \/ q = Client /\ serverState[lastSocket] # "Done"

Flows(q) ==
    Reaches(q) =>
        /\ Gapless(Stream(q), incomingMsgId[Other(q)])
        /\ up[socket[q]] /\ ~isReconnecting[q] =>
              HasLatest(Stream(q), outgoingMsgId[q], incomingMsgId[Other(q)])

(* A peer that reads another socket than its peer writes reads a prefix of  *)
(* what it wrote there.                                                     *)
RestIsGapless ==
    socket[Client] # socket[Server] =>
        \A p \in Peers : Gapless(Readable(p), incomingMsgId[p])

SocketInv ==
    /\ NothingIsReplayed
    /\ SocketsInOrder
    /\ HandOverIsQuiet
    /\ HandshakesReadPlain
    /\ RestIsGapless
    /\ \A q \in Peers : Flows(q)

(* Gapless queues are closed under what the protocol does to queues. *)
LEMMA Ids ==
    ASSUME NEW q \in Seq(ProtocolMessage)
    PROVE  /\ Len(q) \in Nat
           /\ \A i \in 1 .. Len(q) : q[i].id \in Nat
  <1>1. Len(q) \in Nat
    BY LenProperties
  <1>2. \A i \in 1 .. Len(q) : q[i] \in ProtocolMessage
    BY ElementOfSeq
  <1> QED BY <1>1, <1>2 DEF ProtocolMessage

LEMMA GaplessGrows ==
    ASSUME NEW q \in Seq(ProtocolMessage), NEW n \in Nat, NEW k \in Nat, n <= k,
           Gapless(q, n)
    PROVE  Gapless(q, k)
  BY Ids DEF Gapless

LEMMA GaplessPrefix ==
    ASSUME NEW q \in Seq(ProtocolMessage), NEW n \in Nat, Gapless(q, n),
           NEW r \in Prefixes(q)
    PROVE  Gapless(r, n)
  <1>1. PICK k \in 0 .. Len(q) : r = SubSeq(q, 1, k)
    BY DEF Prefixes
  <1>2. Len(q) \in Nat /\ \A i \in 1 .. k : q[i] \in ProtocolMessage
    BY Ids, ElementOfSeq
  <1>3. Len(r) = k /\ \A i \in 1 .. k : r[i] = q[i]
    BY <1>1, <1>2, SubSeqProperties
  <1> QED BY <1>2, <1>3 DEF Gapless

LEMMA GaplessConcat ==
    ASSUME NEW q \in Seq(ProtocolMessage), NEW r \in Seq(ProtocolMessage), NEW n \in Nat,
           Gapless(q, n), Gapless(r, n)
    PROVE  Gapless(q \o r, n)
  <1>1. Len(q) \in Nat /\ Len(r) \in Nat /\ Len(q \o r) = Len(q) + Len(r)
    BY Ids, ConcatProperties
  <1>2. /\ \A i \in 1 .. Len(q) : (q \o r)[i] = q[i]
        /\ \A i \in 1 .. Len(r) : (q \o r)[Len(q) + i] = r[i]
    BY <1>1, ConcatProperties
  <1> SUFFICES ASSUME NEW i \in 1 .. Len(q) + Len(r), ~((q \o r)[i].id <= n + 1)
               PROVE  \E j \in 1 .. i - 1 : (q \o r)[i].id <= (q \o r)[j].id + 1
    BY <1>1 DEF Gapless
  <1>3. CASE i <= Len(q)
    <2>1. i \in 1 .. Len(q) /\ (q \o r)[i] = q[i]
      BY <1>1, <1>2, <1>3
    <2>2. PICK j \in 1 .. i - 1 : q[i].id <= q[j].id + 1
      BY <2>1 DEF Gapless
    <2>3. (q \o r)[j] = q[j]
      BY <1>1, <1>2, <2>1
    <2> QED BY <2>1, <2>2, <2>3
  <1>4. CASE i > Len(q)
    <2> DEFINE k == i - Len(q)
    <2>1. k \in 1 .. Len(r) /\ i = Len(q) + k
      BY <1>1, <1>4
    <2>2. (q \o r)[i] = r[k]
      BY <1>2, <2>1
    <2>3. PICK j \in 1 .. k - 1 : r[k].id <= r[j].id + 1
      BY <2>1, <2>2 DEF Gapless
    <2>4. (q \o r)[Len(q) + j] = r[j] /\ Len(q) + j \in 1 .. i - 1
      BY <1>1, <1>2, <2>1
    <2> QED BY <2>2, <2>3, <2>4
  <1> QED BY <1>1, <1>3, <1>4

(* Numbers that are none, and numbers that follow each other from the next. *)
LEMMA GaplessPlain ==
    ASSUME NEW q \in Seq(PlainMessages), NEW n \in Nat
    PROVE  Gapless(q, n)
  <1>1. \A i \in 1 .. Len(q) : q[i] \in PlainMessages
    BY ElementOfSeq
  <1> QED BY <1>1 DEF Gapless, PlainMessages, TidyMessages

LEMMA NothingIsGapless ==
    /\ \A n \in Nat : Gapless(<<>>, n)
    /\ PauseIsFirst(<<>>)
    /\ \A S : <<>> \in Seq(S)
  <1>1. Len(<<>>) = 0 /\ \A S : <<>> \in Seq(S)
    BY EmptySeq
  <1> QED BY <1>1 DEF Gapless, PauseIsFirst

LEMMA GaplessRun ==
    ASSUME NEW q \in Seq(ProtocolMessage), NEW n \in Nat, NEW first \in Nat, first <= n,
           \A i \in 1 .. Len(q) : q[i].id = first + i
    PROVE  Gapless(q, n)
  <1> SUFFICES ASSUME NEW i \in 1 .. Len(q)
               PROVE  \/ q[i].id <= n + 1
                      \/ \E j \in 1 .. i - 1 : q[i].id <= q[j].id + 1
    BY DEF Gapless
  <1>0. Len(q) \in Nat
    BY Ids
  <1>1. CASE i = 1
    BY <1>0, <1>1
  <1>2. CASE i # 1
    <2>1. i - 1 \in 1 .. i - 1 /\ i - 1 \in 1 .. Len(q)
      BY <1>0, <1>2
    <2>2. q[i].id = q[i - 1].id + 1
      BY <1>0, <2>1
    <2>3. q[i].id \in Nat
      BY Ids
    <2> QED BY <2>1, <2>2, <2>3
  <1> QED BY <1>1, <1>2

(* Reading the first one, which is the next or an older one. *)
LEMMA GaplessRead ==
    ASSUME NEW q \in Seq(ProtocolMessage), q # <<>>, NEW n \in Nat, NEW k \in Nat,
           n <= k, Head(q).id <= k, Gapless(q, n)
    PROVE  Gapless(Tail(q), k)
  <1>1. Len(q) \in Nat \ {0} /\ Tail(q) = SubSeq(q, 2, Len(q)) /\ Head(q) = q[1]
    BY LenProperties, EmptySeq, HeadTailProperties, TailIsSubSeq
  <1>2. \A i \in 2 .. Len(q) : q[i] \in ProtocolMessage
    BY <1>1, ElementOfSeq
  <1>3. Len(Tail(q)) = Len(q) - 1 /\ \A i \in 1 .. Len(q) - 1 : Tail(q)[i] = q[i + 1]
    BY <1>1, <1>2, SubSeqProperties
  <1> SUFFICES ASSUME NEW i \in 1 .. Len(q) - 1
               PROVE  \/ q[i + 1].id <= k + 1
                      \/ \E j \in 1 .. i - 1 : q[i + 1].id <= Tail(q)[j].id + 1
    BY <1>3 DEF Gapless
  <1>4. i + 1 \in 1 .. Len(q) /\ q[i + 1].id \in Nat /\ q[1].id \in Nat
    BY <1>1, Ids
  <1>5. CASE q[i + 1].id <= n + 1
    BY <1>4, <1>5
  <1>6. CASE \E j \in 1 .. (i + 1) - 1 : q[i + 1].id <= q[j].id + 1
    <2>1. PICK j \in 1 .. i : q[i + 1].id <= q[j].id + 1
      BY <1>4, <1>6
    <2>2. CASE j = 1
      BY <1>1, <1>4, <2>1, <2>2
    <2>3. CASE j # 1
      <3>1. j - 1 \in 1 .. i - 1 /\ Tail(q)[j - 1] = q[j]
        BY <1>1, <1>3, <2>3
      <3> QED BY <2>1, <3>1
    <2> QED BY <2>2, <2>3
  <1> QED BY <1>4, <1>5, <1>6 DEF Gapless

LEMMA LatestRead ==
    ASSUME NEW q \in Seq(ProtocolMessage), q # <<>>, NEW n \in Nat, NEW k \in Nat,
           n <= k, Head(q).id <= k, NEW l \in Nat, HasLatest(q, l, n)
    PROVE  HasLatest(Tail(q), l, k)
  <1>1. Len(q) \in Nat \ {0} /\ Tail(q) = SubSeq(q, 2, Len(q)) /\ Head(q) = q[1]
    BY LenProperties, EmptySeq, HeadTailProperties, TailIsSubSeq
  <1>2. \A i \in 2 .. Len(q) : q[i] \in ProtocolMessage
    BY <1>1, ElementOfSeq
  <1>3. Len(Tail(q)) = Len(q) - 1 /\ \A i \in 1 .. Len(q) - 1 : Tail(q)[i] = q[i + 1]
    BY <1>1, <1>2, SubSeqProperties
  <1>4. CASE l <= n
    BY <1>4 DEF HasLatest
  <1>5. CASE \E i \in 1 .. Len(q) : q[i].id = l
    <2>1. PICK i \in 1 .. Len(q) : q[i].id = l
      BY <1>5
    <2>2. CASE i = 1
      BY <1>1, <2>1, <2>2 DEF HasLatest
    <2>3. CASE i # 1
      <3>1. i - 1 \in 1 .. Len(q) - 1 /\ Tail(q)[i - 1] = q[i]
        BY <1>1, <1>3, <2>3
      <3> QED BY <1>3, <2>1, <3>1 DEF HasLatest
    <2> QED BY <2>2, <2>3
  <1> QED BY <1>4, <1>5 DEF HasLatest

LEMMA LatestConcat ==
    ASSUME NEW q \in Seq(ProtocolMessage), NEW r \in Seq(ProtocolMessage), NEW n \in Nat,
           NEW l \in Nat, HasLatest(q, l, n) \/ HasLatest(r, l, n)
    PROVE  HasLatest(q \o r, l, n)
  <1>1. Len(q) \in Nat /\ Len(r) \in Nat /\ Len(q \o r) = Len(q) + Len(r)
    BY Ids, ConcatProperties
  <1>2. /\ \A i \in 1 .. Len(q) : (q \o r)[i] = q[i]
        /\ \A i \in 1 .. Len(r) : (q \o r)[Len(q) + i] = r[i]
    BY <1>1, ConcatProperties
  <1>3. CASE l <= n
    BY <1>3 DEF HasLatest
  <1>4. CASE \E i \in 1 .. Len(q) : q[i].id = l
    BY <1>1, <1>2, <1>4 DEF HasLatest
  <1>5. CASE \E i \in 1 .. Len(r) : r[i].id = l
    <2>1. PICK i \in 1 .. Len(r) : r[i].id = l
      BY <1>5
    <2>2. Len(q) + i \in 1 .. Len(q \o r) /\ (q \o r)[Len(q) + i].id = l
      BY <1>1, <1>2, <2>1
    <2> QED BY <2>2 DEF HasLatest
  <1> QED BY <1>3, <1>4, <1>5 DEF HasLatest

LEMMA TidyAreMessages ==
    /\ TidyMessages \subseteq ProtocolMessage /\ PlainMessages \subseteq TidyMessages
    /\ Seq(TidyMessages) \subseteq Seq(ProtocolMessage)
    /\ Seq(PlainMessages) \subseteq Seq(TidyMessages)
  <1>1. TidyMessages \subseteq ProtocolMessage /\ PlainMessages \subseteq TidyMessages
    BY DEF TidyMessages, PlainMessages
  <1> QED BY <1>1, SeqMonotonic

LEMMA PlainOnes ==
    ASSUME NEW m \in ProtocolMessage, m.type \notin {"ReplayRequest", "Regular"}, m.id = 0
    PROVE  <<m>> \in Seq(PlainMessages)
  BY DEF PlainMessages, TidyMessages

LEMMA PlainBuilt ==
    /\ \A n \in Nat : <<AckMsg(n)>> \in Seq(PlainMessages)
    /\ \A n \in Nat : <<Msg("KeepAlive", 0, n, NoData)>> \in Seq(PlainMessages)
    /\ \A data \in ControlData : <<Control(data)>> \in Seq(PlainMessages)
    /\ <<Plain("Resume")>> \in Seq(PlainMessages)
    /\ <<Plain("Pause")>> \in Seq(PlainMessages)
  <1>1. \A n \in Nat : AckMsg(n).type = "Ack" /\ AckMsg(n).id = 0
    BY DEF AckMsg, Msg
  <1>2. \A n \in Nat : Msg("KeepAlive", 0, n, NoData).type = "KeepAlive"
                       /\ Msg("KeepAlive", 0, n, NoData).id = 0
    BY DEF Msg
  <1>3. \A data : Control(data).type = "Control" /\ Control(data).id = 0
    BY DEF Control, Msg
  <1>4. \A type : Plain(type).type = type /\ Plain(type).id = 0
    BY DEF Plain, Msg
  <1>5. Plain("Pause") \in ProtocolMessage /\ Plain("Resume") \in ProtocolMessage
    BY MessageTypes DEF ProtocolMessageType
  <1> QED BY <1>1, <1>2, <1>3, <1>4, <1>5, MessageTypes, PlainOnes

LEMMA PrefixOfSeq ==
    ASSUME NEW S, NEW q \in Seq(S), NEW r \in Prefixes(q)
    PROVE  r \in Seq(S)
  <1>1. PICK k \in 0 .. Len(q) : r = SubSeq(q, 1, k)
    BY DEF Prefixes
  <1>2. Len(q) \in Nat /\ \A i \in 1 .. k : q[i] \in S
    BY LenProperties, ElementOfSeq
  <1> QED BY <1>1, <1>2, SubSeqProperties

LEMMA WholeIsPrefix ==
    ASSUME NEW S, NEW q \in Seq(S)
    PROVE  q \in Prefixes(q)
  <1>1. SubSeq(q, 1, Len(q)) = q /\ Len(q) \in 0 .. Len(q)
    BY SubSeqFull, LenProperties
  <1> QED BY <1>1 DEF Prefixes

LEMMA ConcatPrefix ==
    ASSUME NEW S, NEW q \in Seq(S), NEW r \in Seq(S), NEW p \in Prefixes(q)
    PROVE  p \in Prefixes(q \o r) /\ q \in Prefixes(q \o r)
  <1>1. PICK k \in 0 .. Len(q) : p = SubSeq(q, 1, k)
    BY DEF Prefixes
  <1>2. Len(q) \in Nat /\ Len(q \o r) = Len(q) + Len(r) /\ Len(r) \in Nat
    BY LenProperties, ConcatProperties
  <1>3. \A n \in 0 .. Len(q) : SubSeq(q \o r, 1, n) = SubSeq(q, 1, n)
    <2> SUFFICES ASSUME NEW n \in 0 .. Len(q)
                 PROVE  SubSeq(q \o r, 1, n) = SubSeq(q, 1, n)
      OBVIOUS
    <2>1. CASE n = 0
      BY <2>1, SubSeqEmpty
    <2>2. CASE n # 0
      BY <1>2, <2>2, SubSeqOfConcat1
    <2> QED BY <2>1, <2>2
  <1>4. SubSeq(q, 1, Len(q)) = q
    BY SubSeqFull
  <1>5. k \in 0 .. Len(q \o r) /\ Len(q) \in 0 .. Len(q \o r) /\ Len(q) \in 0 .. Len(q)
    BY <1>2
  <1>6. p = SubSeq(q \o r, 1, k) /\ q = SubSeq(q \o r, 1, Len(q))
    BY <1>1, <1>3, <1>4, <1>5
  <1> QED BY <1>5, <1>6 DEF Prefixes

LEMMA PauseIsFirstPrefix ==
    ASSUME NEW q \in Seq(ProtocolMessage), PauseIsFirst(q), NEW r \in Prefixes(q)
    PROVE  PauseIsFirst(r)
  <1>1. PICK k \in 0 .. Len(q) : r = SubSeq(q, 1, k)
    BY DEF Prefixes
  <1>2. Len(q) \in Nat /\ \A i \in 1 .. k : q[i] \in ProtocolMessage
    BY Ids, ElementOfSeq
  <1>3. Len(r) = k /\ \A i \in 1 .. k : r[i] = q[i]
    BY <1>1, <1>2, SubSeqProperties
  <1> QED BY <1>2, <1>3 DEF PauseIsFirst

(* What the handshake answers. *)
LEMMA PauseIsFirstReply ==
    ASSUME NEW q \in Seq(ProtocolMessage), PauseIsFirst(q),
           NEW msgs \in {<<>>, <<Control("sign")>>, <<Plain("Pause"), Control("ok")>>}
    PROVE  PauseIsFirst(q \o msgs)
  <1>1. Control("sign") \in ProtocolMessage /\ Control("ok") \in ProtocolMessage
        /\ Plain("Pause") \in ProtocolMessage
    BY MessageTypes DEF ProtocolMessageType, ControlData
  <1>2. msgs \in Seq(ProtocolMessage)
    <2>1. /\ <<>> \in Seq(ProtocolMessage) /\ <<Control("sign")>> \in Seq(ProtocolMessage)
          /\ <<Plain("Pause"), Control("ok")>> \in Seq(ProtocolMessage)
      BY <1>1
    <2> QED BY <2>1, Zenon
  <1>3. Len(q) \in Nat /\ Len(msgs) \in Nat /\ Len(q \o msgs) = Len(q) + Len(msgs)
    BY <1>2, Ids, ConcatProperties
  <1>4. /\ \A i \in 1 .. Len(q) : (q \o msgs)[i] = q[i]
        /\ \A i \in 1 .. Len(msgs) : (q \o msgs)[Len(q) + i] = msgs[i]
    BY <1>2, <1>3, ConcatProperties
  <1> SUFFICES ASSUME NEW i \in 1 .. Len(q) + Len(msgs)
               PROVE  (q \o msgs)[i].data = "ok" =>
                          \E j \in 1 .. i - 1 : (q \o msgs)[j].type = "Pause"
    BY <1>3 DEF PauseIsFirst
  <1>5. CASE i <= Len(q)
    <2>1. i \in 1 .. Len(q) /\ (q \o msgs)[i] = q[i]
          /\ \A j \in 1 .. i - 1 : (q \o msgs)[j] = q[j]
      BY <1>3, <1>4, <1>5
    <2> QED BY <2>1 DEF PauseIsFirst
  <1>6. CASE i > Len(q)
    <2>1. i - Len(q) \in 1 .. Len(msgs) /\ (q \o msgs)[i] = msgs[i - Len(q)]
      BY <1>3, <1>4, <1>6
    <2>2. CASE msgs = <<Control("sign")>>
      <3>1. (q \o msgs)[i] = Control("sign")
        BY <2>1, <2>2
      <3> QED BY <3>1 DEF Control, Msg
    <2>3. CASE msgs = <<Plain("Pause"), Control("ok")>>
      <3>1. \/ i = Len(q) + 1 /\ (q \o msgs)[i] = Plain("Pause")
            \/ i = Len(q) + 2 /\ (q \o msgs)[i] = Control("ok")
        BY <1>3, <2>1, <2>3
      <3>2. (q \o msgs)[Len(q) + 1] = Plain("Pause")
        BY <1>3, <1>4, <2>3
      <3>3. Plain("Pause").data = NoData /\ Plain("Pause").type = "Pause"
            /\ Control("ok").type = "Control" /\ NoData # "ok"
        BY DataAssumption DEF Plain, Control, Msg, ControlData
      <3>4. CASE i = Len(q) + 1
        BY <3>2, <3>3, <3>4
      <3>5. CASE i = Len(q) + 2
        <4>1. (q \o msgs)[i] = Control("ok") /\ Len(q) + 1 \in 1 .. i - 1
          BY <1>3, <3>1, <3>5
        <4> QED BY <3>2, <3>3, <4>1
      <3> QED BY <3>1, <3>4, <3>5
    <2>4. CASE msgs = <<>>
      BY <2>1, <2>4
    <2> QED BY <2>2, <2>3, <2>4
  <1> QED BY <1>3, <1>5, <1>6

LEMMA ThePeers ==
    /\ Peers = {Client, Server} /\ Client \in Peers /\ Server \in Peers /\ Client # Server
    /\ Other(Client) = Server /\ Other(Server) = Client
  BY PeersAssumption DEF Peers, Other

LEMMA StreamTypes ==
    ASSUME TypeOK, NEW q \in Peers
    PROVE  /\ Stream(q) \in Seq(ProtocolMessage) /\ writerData[q] \in Seq(ProtocolMessage)
           /\ net[socket[q]][q] \in Seq(ProtocolMessage) /\ socket[q] \in Sockets
           /\ Readable(q) \in Seq(ProtocolMessage) /\ Other(q) \in Peers
           /\ incomingMsgId[Other(q)] \in Nat /\ outgoingMsgId[q] \in Nat
  <1>1. /\ writerData[q] \in Seq(ProtocolMessage) /\ net[socket[q]][q] \in Seq(ProtocolMessage)
        /\ socket[q] \in Sockets
        /\ Other(q) \in Peers /\ incomingMsgId[Other(q)] \in Nat /\ outgoingMsgId[q] \in Nat
    BY OtherPeer DEF TypeOK
  <1>2. Readable(q) \in Seq(ProtocolMessage)
    BY <1>1 DEF TypeOK, Readable
  <1>3. Stream(q) \in Seq(ProtocolMessage)
    BY <1>1, ConcatProperties DEF Stream
  <1> QED BY <1>1, <1>2, <1>3

LEMMA WireIsGapless ==
    ASSUME TypeOK, NEW q \in Peers, Flows(q), Reaches(q)
    PROVE  /\ Gapless(net[socket[q]][q], incomingMsgId[Other(q)])
           /\ net[socket[q]][q] \in Seq(ProtocolMessage)
           /\ incomingMsgId[Other(q)] \in Nat
  <1> DEFINE wire == net[socket[q]][q]
             rest == IF up[socket[q]] THEN writerData[q] ELSE <<>>
             n == incomingMsgId[Other(q)]
  <1>1. /\ rest \in Seq(ProtocolMessage) /\ wire \in Seq(ProtocolMessage)
        /\ Stream(q) = wire \o rest /\ n \in Nat
    BY StreamTypes DEF Stream
  <1>2. Gapless(wire \o rest, n)
    BY <1>1 DEF Flows
  <1> HIDE DEF wire, rest, n
  <1>3. <<>> \in Prefixes(wire)
    <2>1. SubSeq(wire, 1, 0) = <<>> /\ Len(wire) \in Nat
      BY <1>1, SubSeqEmpty, LenProperties
    <2> QED BY <2>1 DEF Prefixes
  <1>4. wire \in Prefixes(wire \o rest) /\ wire \o rest \in Seq(ProtocolMessage)
    BY <1>1, <1>3, ConcatPrefix, ConcatProperties
  <1>5. Gapless(wire, n)
    BY <1>1, <1>2, <1>4, GaplessPrefix
  <1> QED BY <1>1, <1>5 DEF wire, n

(* What p can read. *)
LEMMA ReadableIsGapless ==
    ASSUME IInv, SocketInv, NEW p \in Peers
    PROVE  /\ Gapless(Readable(p), incomingMsgId[p])
           /\ Readable(p) \in Seq(ProtocolMessage)
           /\ incomingMsgId[p] \in Nat
  <1>0. /\ TypeOK /\ RestIsGapless /\ Flows(Other(p)) /\ Other(p) \in Peers
        /\ Other(Other(p)) = p
    BY OtherPeer DEF IInv, SocketInv
  <1>1. Readable(p) \in Seq(ProtocolMessage) /\ incomingMsgId[p] \in Nat
    BY <1>0, StreamTypes
  <1>2. CASE socket[Client] = socket[Server]
    <2>1. socket[Other(p)] = socket[p] /\ Reaches(Other(p))
      BY <1>0, <1>2, ThePeers DEF Reaches
    <2> QED BY <1>0, <1>1, <2>1, WireIsGapless DEF Readable
  <1>3. CASE socket[Client] # socket[Server]
    BY <1>0, <1>1, <1>3 DEF RestIsGapless
  <1> QED BY <1>2, <1>3

(* A direction in which nothing is written or read. *)
LEMMA FlowsStay ==
    ASSUME TypeOK, NEW q \in Peers, Flows(q), Reaches(q)' => Reaches(q), Stream(q)' = Stream(q),
           up'[socket'[q]] /\ ~isReconnecting'[q] => up[socket[q]] /\ ~isReconnecting[q],
           outgoingMsgId'[q] = outgoingMsgId[q], incomingMsgId'[Other(q)] \in Nat,
           incomingMsgId[Other(q)] <= incomingMsgId'[Other(q)]
    PROVE  Flows(q)'
  <1>1. Stream(q) \in Seq(ProtocolMessage) /\ incomingMsgId[Other(q)] \in Nat
        /\ outgoingMsgId[q] \in Nat
    BY StreamTypes
  <1>2. Gapless(Stream(q), incomingMsgId[Other(q)]) =>
            Gapless(Stream(q), incomingMsgId'[Other(q)])
    BY <1>1, GaplessGrows
  <1>3. HasLatest(Stream(q), outgoingMsgId[q], incomingMsgId[Other(q)]) =>
            HasLatest(Stream(q), outgoingMsgId[q], incomingMsgId'[Other(q)])
    BY <1>1 DEF HasLatest
  <1> QED BY <1>2, <1>3 DEF Flows

(* One in which msgs are written. *)
LEMMA FlowsWritten ==
    ASSUME TypeOK, NEW p \in Peers, Flows(p), NEW msgs \in Seq(ProtocolMessage), Write(p, msgs),
           UNCHANGED <<socket, up, lastSocket, serverState>>,
           net'[socket[p]][p] = net[socket[p]][p],
           incomingMsgId'[Other(p)] = incomingMsgId[Other(p)],
           Reaches(p) /\ up[socket[p]] => Gapless(Stream(p) \o msgs, incomingMsgId[Other(p)]),
           Reaches(p) /\ up[socket[p]] /\ ~isReconnecting'[p] =>
              HasLatest(Stream(p) \o msgs, outgoingMsgId'[p], incomingMsgId[Other(p)])
    PROVE  Flows(p)'
  <1>1. Stream(p) \in Seq(ProtocolMessage) /\ writerData[p] \in Seq(ProtocolMessage)
        /\ net[socket[p]][p] \in Seq(ProtocolMessage)
    BY StreamTypes
  <1>2. writerData'[p] = writerData[p] \o msgs
    BY DEF Write, TypeOK
  <1>3. Reaches(p)' <=> Reaches(p)
    BY DEF Reaches
  <1>4. CASE up[socket[p]]
    <2>1. Stream(p)' = Stream(p) \o msgs
      <3> DEFINE sent == net[socket[p]][p]
                 buffer == writerData[p]
      <3>1. Stream(p) = sent \o buffer /\ Stream(p)' = sent \o (buffer \o msgs)
        BY <1>2, <1>4 DEF Stream
      <3>2. sent \in Seq(ProtocolMessage) /\ buffer \in Seq(ProtocolMessage)
        BY <1>1
      <3> HIDE DEF sent, buffer
      <3> QED BY <3>1, <3>2, ConcatAssociative
    <2> QED BY <1>3, <1>4, <2>1 DEF Flows
  <1>5. CASE ~up[socket[p]]
    <2>1. Stream(p)' = Stream(p)
      BY <1>5 DEF Stream
    <2> QED BY <1>3, <1>5, <2>1 DEF Flows
  <1> QED BY <1>4, <1>5

(* One in which messages without a number are written. *)
LEMMA FlowsPlain ==
    ASSUME TypeOK, NEW p \in Peers, Flows(p), NEW msgs \in Seq(PlainMessages), Write(p, msgs),
           UNCHANGED <<socket, up, lastSocket, serverState>>,
           net'[socket[p]][p] = net[socket[p]][p],
           incomingMsgId'[Other(p)] = incomingMsgId[Other(p)],
           isReconnecting'[p] = isReconnecting[p], outgoingMsgId'[p] = outgoingMsgId[p]
    PROVE  Flows(p)'
  <1>1. Stream(p) \in Seq(ProtocolMessage) /\ msgs \in Seq(ProtocolMessage)
        /\ incomingMsgId[Other(p)] \in Nat /\ outgoingMsgId[p] \in Nat
    BY StreamTypes, TidyAreMessages
  <1>2. Gapless(msgs, incomingMsgId[Other(p)])
    BY <1>1, GaplessPlain
  <1>3. Reaches(p) => Gapless(Stream(p) \o msgs, incomingMsgId[Other(p)])
    BY <1>1, <1>2, GaplessConcat DEF Flows
  <1>4. Reaches(p) /\ up[socket[p]] /\ ~isReconnecting'[p] =>
              HasLatest(Stream(p) \o msgs, outgoingMsgId'[p], incomingMsgId[Other(p)])
    BY <1>1, LatestConcat DEF Flows
  <1> QED BY <1>1, <1>3, <1>4, FlowsWritten

(* A direction that starts again, with nothing but messages without a number. *)
LEMMA FlowsAgain ==
    ASSUME NEW q \in Peers, Stream(q)' \in Seq(PlainMessages), isReconnecting'[q],
           incomingMsgId'[Other(q)] \in Nat
    PROVE  Flows(q)'
  <1> DEFINE stream == Stream(q)'
             n == incomingMsgId'[Other(q)]
  <1>1. stream \in Seq(PlainMessages) /\ n \in Nat
    OBVIOUS
  <1> HIDE DEF stream, n
  <1>2. Gapless(stream, n)
    BY <1>1, GaplessPlain
  <1> QED BY <1>2 DEF stream, n, Flows

LEMMA TailOfConcat ==
    ASSUME NEW S, NEW q \in Seq(S), NEW r \in Seq(S), q # <<>>
    PROVE  Tail(q \o r) = Tail(q) \o r /\ Head(q \o r) = Head(q) /\ q \o r # <<>>
  <1>1. Len(q) \in Nat \ {0} /\ Len(r) \in Nat /\ q \o r \in Seq(S) /\ Len(<<>>) = 0
        /\ Len(q \o r) = Len(q) + Len(r)
    BY EmptySeq, LenProperties, ConcatProperties
  <1>2. q \o r # <<>>
    BY <1>1
  <1>3. Head(q \o r) = Head(q)
    BY <1>1, <1>2, ConcatProperties
  <1>4. /\ Tail(q) \in Seq(S) /\ Len(Tail(q)) = Len(q) - 1
        /\ \A i \in 1 .. Len(q) - 1 : Tail(q)[i] = q[i + 1]
    BY HeadTailProperties
  <1>5. /\ Tail(q \o r) \in Seq(S) /\ Len(Tail(q \o r)) = Len(q) + Len(r) - 1
        /\ \A i \in 1 .. Len(q) + Len(r) - 1 : Tail(q \o r)[i] = (q \o r)[i + 1]
    BY <1>1, <1>2, HeadTailProperties
  <1>6. /\ Tail(q) \o r \in Seq(S) /\ Len(Tail(q) \o r) = Len(q) - 1 + Len(r)
        /\ \A i \in 1 .. Len(q) - 1 + Len(r) : (Tail(q) \o r)[i] =
              IF i <= Len(q) - 1 THEN Tail(q)[i] ELSE r[i - (Len(q) - 1)]
    BY <1>4, ConcatProperties
  <1>7. \A i \in 1 .. Len(q) + Len(r) : (q \o r)[i] = IF i <= Len(q) THEN q[i] ELSE r[i - Len(q)]
    BY ConcatProperties
  <1>8. ASSUME NEW i \in 1 .. Len(q) + Len(r) - 1
        PROVE  Tail(q \o r)[i] = (Tail(q) \o r)[i]
    BY <1>1, <1>4, <1>5, <1>6, <1>7
  <1>9. Tail(q \o r) = Tail(q) \o r
    BY <1>1, <1>5, <1>6, <1>8, SeqEqual
  <1> QED BY <1>2, <1>3, <1>9

(* One in which p reads a message that is no later than the next. *)
LEMMA FlowsRead ==
    ASSUME TypeOK, NEW p \in Peers, Flows(Other(p)), RestIsGapless, NEW type, Pop(p, type),
           UNCHANGED <<socket, lastSocket, serverState>>,
           incomingMsgId'[p] \in Nat, incomingMsgId[p] <= incomingMsgId'[p],
           Head(Readable(p)).id <= incomingMsgId'[p],
           writerData'[Other(p)] = writerData[Other(p)],
           outgoingMsgId'[Other(p)] = outgoingMsgId[Other(p)],
           isReconnecting'[Other(p)] = isReconnecting[Other(p)]
    PROVE  /\ Flows(Other(p))'
           /\ Readable(p)' = Tail(Readable(p))
           /\ Gapless(Readable(p)', incomingMsgId'[p])
           /\ net'[socket[p]][p] = net[socket[p]][p]
           /\ Readable(Other(p))' = Readable(Other(p))
  <1> DEFINE q == Other(p)
             s == socket[p]
             wire == Readable(p)
  <1>1. /\ q \in Peers /\ q # p /\ Other(q) = p /\ s \in Sockets /\ socket[q] \in Sockets
        /\ wire \in Seq(ProtocolMessage) /\ wire # <<>>
        /\ Stream(q) \in Seq(ProtocolMessage) /\ writerData[q] \in Seq(ProtocolMessage)
        /\ incomingMsgId[p] \in Nat /\ outgoingMsgId[q] \in Nat
    BY OtherPeer, StreamTypes DEF Pop
  <1>2. \A r \in Sockets, x \in Peers :
            net'[r][x] = IF r = s /\ x = q THEN Tail(wire) ELSE net[r][x]
    BY <1>1 DEF Pop, Readable, TypeOK
  <1>3. Readable(p)' = Tail(wire) /\ UNCHANGED up /\ net'[s][p] = net[s][p]
    BY <1>1, <1>2 DEF Readable, Pop
  <1>3a. Readable(q)' = Readable(q)
    BY <1>1, <1>2 DEF Readable
  <1>4. Reaches(q)' <=> Reaches(q)
    BY DEF Reaches
  <1>5. CASE socket[q] = s
    <2> DEFINE rest == IF up[s] THEN writerData[q] ELSE <<>>
    <2>1. rest \in Seq(ProtocolMessage)
      BY <1>1
    <2>2. Stream(q) = wire \o rest /\ Stream(q)' = Tail(wire) \o rest
      BY <1>1, <1>2, <1>3, <1>5 DEF Stream, Readable
    <2> HIDE DEF rest
    <2>3. Stream(q)' = Tail(Stream(q)) /\ Head(Stream(q)) = Head(wire) /\ Stream(q) # <<>>
      <3>1. wire \in Seq(ProtocolMessage) /\ wire # <<>>
        BY <1>1
      <3> HIDE DEF wire
      <3>2. Tail(wire \o rest) = Tail(wire) \o rest /\ Head(wire \o rest) = Head(wire)
            /\ wire \o rest # <<>>
        BY <2>1, <3>1, TailOfConcat
      <3> QED BY <2>2, <3>2
    <2>4. Reaches(q)
      <3>1. socket[Client] = socket[Server]
        BY <1>1, <1>5, ThePeers
      <3> QED BY <3>1 DEF Reaches
    <2>5. Gapless(Stream(q), incomingMsgId[p])
      BY <1>1, <2>4 DEF Flows
    <2>6. Gapless(Tail(Stream(q)), incomingMsgId'[p])
      BY <1>1, <2>3, <2>5, GaplessRead
    <2>7. HasLatest(Stream(q), outgoingMsgId[q], incomingMsgId[p]) =>
              HasLatest(Tail(Stream(q)), outgoingMsgId[q], incomingMsgId'[p])
      BY <1>1, <2>3, LatestRead
    <2>8. Flows(q)'
      BY <1>1, <1>3, <1>4, <1>5, <2>3, <2>4, <2>6, <2>7 DEF Flows
    <2>9. Gapless(wire, incomingMsgId[p])
      BY <1>1, <1>5, <2>4, WireIsGapless DEF Readable
    <2>10. Gapless(Tail(wire), incomingMsgId'[p])
      BY <1>1, <2>9, GaplessRead
    <2> QED BY <1>3, <1>3a, <2>8, <2>10
  <1>6. CASE socket[q] # s
    <2>1. Stream(q)' = Stream(q)
      BY <1>1, <1>2, <1>3, <1>6 DEF Stream
    <2>2. Flows(q)'
      BY <1>1, <1>3, <1>4, <2>1, FlowsStay
    <2>3. Gapless(wire, incomingMsgId[p])
      <3>1. socket[Client] # socket[Server]
        BY <1>1, <1>6, ThePeers
      <3> QED BY <3>1 DEF RestIsGapless
    <2>4. Gapless(Tail(wire), incomingMsgId'[p])
      BY <1>1, <2>3, GaplessRead
    <2> QED BY <1>3, <1>3a, <2>2, <2>4
  <1> QED BY <1>5, <1>6

LEMMA PauseIsFirstRead ==
    ASSUME NEW q \in Seq(ProtocolMessage), q # <<>>, PauseIsFirst(q), Head(q).type # "Pause"
    PROVE  PauseIsFirst(Tail(q)) /\ Head(q).data # "ok"
  <1>1. /\ Len(q) \in Nat \ {0} /\ Head(q) = q[1]
        /\ Len(Tail(q)) = Len(q) - 1 /\ \A i \in 1 .. Len(q) - 1 : Tail(q)[i] = q[i + 1]
    BY LenProperties, EmptySeq, HeadTailProperties
  <1>2. Head(q).data # "ok"
    BY <1>1 DEF PauseIsFirst
  <1>3. ASSUME NEW i \in 1 .. Len(Tail(q)), Tail(q)[i].data = "ok"
        PROVE  \E j \in 1 .. i - 1 : Tail(q)[j].type = "Pause"
    <2>1. i + 1 \in 1 .. Len(q) /\ q[i + 1].data = "ok"
      BY <1>1, <1>3
    <2>2. PICK j \in 1 .. (i + 1) - 1 : q[j].type = "Pause"
      BY <2>1 DEF PauseIsFirst
    <2>3. j # 1
      BY <1>1, <2>2
    <2>4. j - 1 \in 1 .. i - 1 /\ Tail(q)[j - 1] = q[j]
      BY <1>1, <2>1, <2>2, <2>3
    <2> QED BY <2>2, <2>4
  <1> QED BY <1>2, <1>3 DEF PauseIsFirst

(* The acknowledgement cuts a tidy queue. *)
LEMMA TakeAckTidy ==
    ASSUME IInv, NothingIsReplayed, NEW p \in Peers, NEW type, Pop(p, type), TakeAck(p)
    PROVE  outgoingUnackMsg' \in [Peers -> Seq(TidyMessages)]
  <1> DEFINE ack == Head(Readable(p)).ack
             first == outgoingAckId[p]
             queue == outgoingUnackMsg[p]
  <1>1. CASE ~(ack > first)
    BY <1>1 DEF TakeAck, NothingIsReplayed
  <1>2. CASE ack > first
    <2>1. /\ ack \in Nat /\ ack <= incomingMsgId[Other(p)]
          /\ incomingMsgId[Other(p)] <= outgoingMsgId[p]
          /\ first \in Nat /\ outgoingMsgId[p] \in Nat
          /\ incomingMsgId[Other(p)] \in Nat
      <3>1. Head(Readable(p)) \in ProtocolMessage /\ Truthful(Other(p), Head(Readable(p)))
        BY PopHonest DEF IInv
      <3>2. Other(p) \in Peers /\ Other(Other(p)) = p
        BY OtherPeer
      <3> QED
        BY <3>1, <3>2 DEF ProtocolMessage, Truthful, IInv, TypeOK, DeliveredInOrder
    <2>2. /\ queue \in Seq(ProtocolMessage) /\ Len(queue) \in Nat
          /\ Len(queue) + first = outgoingMsgId[p]
          /\ \A i \in 1 .. Len(queue) : queue[i].id = first + i
      BY LenProperties DEF IInv, TypeOK, UnackQueue
    <2>3. ack \in first .. first + Len(queue)
      BY <1>2, <2>1, <2>2
    <2>4. DropAcked(queue, ack) = SubSeq(queue, ack - first + 1, Len(queue))
      BY <2>1, <2>2, <2>3, DropAckedCut
    <2>5. SubSeq(queue, ack - first + 1, Len(queue)) \in Seq(TidyMessages)
      <3>1. queue \in Seq(TidyMessages)
        BY DEF NothingIsReplayed
      <3>2. \A i \in ack - first + 1 .. Len(queue) : queue[i] \in TidyMessages
        BY <1>2, <2>1, <2>2, <3>1, ElementOfSeq
      <3>3. ack - first + 1 \in Int /\ Len(queue) \in Int
        BY <2>1, <2>2
      <3> HIDE DEF queue, ack, first
      <3> QED BY <3>2, <3>3, SubSeqProperties
    <2>6. outgoingUnackMsg' = [outgoingUnackMsg EXCEPT ![p] = DropAcked(queue, ack)]
      BY <1>2 DEF TakeAck
    <2> QED BY <2>4, <2>5, <2>6 DEF NothingIsReplayed
  <1> QED BY <1>1, <1>2

(* Steps of a peer that write. *)
LEMMA WritingKeeps ==
    ASSUME IInv, SocketInv, NEW p \in Peers, NEW msgs \in Seq(TidyMessages), Write(p, msgs),
           UNCHANGED <<net, socket, up, lastSocket, serverState, isPaused, incomingMsgId>>,
           outgoingUnackMsg' \in [Peers -> Seq(TidyMessages)],
           outgoingMsgId'[Other(p)] = outgoingMsgId[Other(p)],
           isReconnecting'[Other(p)] = isReconnecting[Other(p)],
           clientState' # "connected" => isReconnecting'[Client],
           \/ UNCHANGED clientState /\ (p = Server \/ msgs \in Seq(PlainMessages))
           \/ serverState[lastSocket] # "Done" => isPaused[Client],
           Flows(p)'
    PROVE  SocketInv'
  <1> DEFINE q == Other(p)
  <1>0. TypeOK /\ NothingIsReplayed /\ HandOverIsQuiet /\ SocketsInOrder /\ Flows(q)
    BY OtherPeer DEF IInv, SocketInv
  <1>1. q \in Peers /\ q # p /\ incomingMsgId[Other(q)] \in Nat
    BY <1>0, OtherPeer, StreamTypes
  <1>2. writerData'[q] = writerData[q] /\ writerData'[p] = writerData[p] \o msgs
    BY <1>0, <1>1 DEF Write, TypeOK
  <1>3. NothingIsReplayed'
    <2>1. writerData[p] \o msgs \in Seq(TidyMessages)
      BY <1>0, ConcatProperties DEF NothingIsReplayed
    <2>2. writerData' \in [Peers -> Seq(TidyMessages)]
      BY <1>0, <2>1 DEF Write, NothingIsReplayed
    <2> QED BY <1>0, <2>2 DEF NothingIsReplayed
  <1>4. SocketsInOrder' /\ HandshakesReadPlain' /\ RestIsGapless'
    BY DEF SocketInv, SocketsInOrder, HandshakesReadPlain, RestIsGapless, Readable
  <1>5. HandOverIsQuiet'
    <2>1. ASSUME p = Client, msgs \in Seq(PlainMessages),
                 writerData[Client] \in Seq(PlainMessages)
          PROVE  writerData'[Client] \in Seq(PlainMessages)
      <3> DEFINE buffer == writerData[Client]
      <3>1. writerData'[Client] = buffer \o msgs
        BY <1>2, <2>1
      <3>2. buffer \in Seq(PlainMessages)
        BY <2>1
      <3> HIDE DEF buffer
      <3> QED BY <2>1, <3>1, <3>2, ConcatProperties
    <2>2. p = Server => writerData'[Client] = writerData[Client]
      BY <1>2, ThePeers
    <2>3. p = Client \/ p = Server
      BY ThePeers
    <2> QED BY <1>0, <2>1, <2>2, <2>3, ThePeers DEF HandOverIsQuiet
  <1>6. Flows(q)'
    <2>1. Stream(q)' = Stream(q) /\ (Reaches(q)' <=> Reaches(q))
      BY <1>2 DEF Stream, Reaches
    <2> QED BY <1>0, <1>1, <2>1, FlowsStay
  <1>7. \A x \in Peers : Flows(x)'
    <2>1. \A x \in Peers : x = p \/ x = q
      BY ThePeers
    <2> QED BY <1>6, <2>1
  <1> QED BY <1>3, <1>4, <1>5, <1>7 DEF SocketInv

(* Steps of a peer that read, and may answer. *)
LEMMA ReadingKeeps ==
    ASSUME IInv, SocketInv, NEW p \in Peers, NEW type, Pop(p, type),
           NEW msgs \in Seq(PlainMessages), Write(p, msgs),
           UNCHANGED <<socket, lastSocket, serverState, isReconnecting, outgoingMsgId>>,
           outgoingUnackMsg' \in [Peers -> Seq(TidyMessages)],
           incomingMsgId'[p] \in Nat, incomingMsgId[p] <= incomingMsgId'[p],
           Head(Readable(p)).id <= incomingMsgId'[p],
           incomingMsgId'[Other(p)] = incomingMsgId[Other(p)],
           clientState' # "connected" => isReconnecting[Client],
           p = Server => clientState' = clientState /\ isPaused'[Client] = isPaused[Client],
           p = Client /\ serverState[lastSocket] # "Done" =>
              \/ isPaused'[Client]
              \/ /\ ~isPaused[Client] /\ type # "Pause"
                 /\ clientState' \in {"auth", "connectionType"}
    PROVE  SocketInv'
  <1> DEFINE q == Other(p)
             s == socket[p]
             wire == Readable(p)
  <1>0. TypeOK /\ NothingIsReplayed /\ HandOverIsQuiet /\ SocketsInOrder /\ HandshakesReadPlain
        /\ RestIsGapless /\ Flows(q) /\ Flows(p)
    BY OtherPeer DEF IInv, SocketInv
  <1>1. q \in Peers /\ q # p /\ Other(q) = p /\ s \in Sockets /\ UNCHANGED up
        /\ wire \in Seq(ProtocolMessage) /\ wire # <<>> /\ Head(wire).type = type
    BY <1>0, OtherPeer, StreamTypes DEF Pop
  <1>2. writerData'[q] = writerData[q] /\ writerData'[p] = writerData[p] \o msgs
    BY <1>0, <1>1 DEF Write, TypeOK
  <1>3. /\ Flows(q)' /\ Readable(p)' = Tail(wire) /\ net'[s][p] = net[s][p]
        /\ Gapless(Readable(p)', incomingMsgId'[p]) /\ Readable(q)' = Readable(q)
    BY <1>0, <1>1, <1>2, FlowsRead
  <1>4. Flows(p)'
    BY <1>0, <1>1, <1>3, FlowsPlain
  <1>5. \A x \in Peers : Flows(x)'
    <2>1. \A x \in Peers : x = p \/ x = q
      BY ThePeers
    <2> QED BY <1>3, <1>4, <2>1
  <1>6. RestIsGapless'
    <2> SUFFICES ASSUME socket[Client] # socket[Server], NEW x \in Peers
                 PROVE  Gapless(Readable(x)', incomingMsgId'[x])
      BY DEF RestIsGapless
    <2>1. CASE x = p
      BY <1>3, <2>1
    <2>2. CASE x = q
      BY <1>0, <1>3, <2>2 DEF RestIsGapless
    <2> QED BY <2>1, <2>2, ThePeers
  <1>7. net' = [net EXCEPT ![s][q] = Tail(wire)]
    BY <1>0, <1>1 DEF Pop, Readable, TypeOK
  <1>8. \A r \in Sockets, x \in Peers :
            net'[r][x] = IF r = s /\ x = q THEN Tail(wire) ELSE net[r][x]
    BY <1>0, <1>1, <1>7 DEF TypeOK
  <1>9. NothingIsReplayed'
    <2>1. writerData[p] \o msgs \in Seq(TidyMessages)
      BY <1>0, ConcatProperties, TidyAreMessages DEF NothingIsReplayed
    <2>2. writerData' \in [Peers -> Seq(TidyMessages)]
      BY <1>0, <2>1 DEF Write, NothingIsReplayed
    <2>3. wire \in Seq(TidyMessages)
      BY <1>0, <1>1 DEF NothingIsReplayed, Readable
    <2>4. Tail(wire) \in Seq(TidyMessages)
      BY <1>1, <2>3, HeadTailProperties
    <2>5. net' \in [Sockets -> [Peers -> Seq(TidyMessages)]]
      BY <1>0, <1>1, <1>7, <2>4 DEF NothingIsReplayed
    <2> QED BY <2>2, <2>5 DEF NothingIsReplayed
  <1>10. \A r \in Sockets : serverState[r] # "Done" => net'[r][Client] = net[r][Client]
    BY <1>0, <1>8, ThePeers DEF SocketsInOrder
  <1>11. HandshakesReadPlain'
    BY <1>0, <1>10 DEF HandshakesReadPlain
  <1>12. SocketsInOrder'
    <2>1. \A r \in Sockets : r > lastSocket => r # s
      <3>1. lastSocket \in Nat
        BY <1>0 DEF TypeOK, Sockets
      <3> QED BY <1>0, <3>1, ThePeers DEF SocketsInOrder
    <2> QED BY <1>0, <1>8, <2>1 DEF SocketsInOrder
  <1>13. HandOverIsQuiet'
    <2> SUFFICES ASSUME serverState[lastSocket] # "Done"
                 PROVE  /\ net'[lastSocket][Server] \in Seq(HandshakeMessages)
                        /\ \/ isPaused'[Client]
                           \/ /\ PauseIsFirst(net'[lastSocket][Server])
                              /\ clientState' \in {"auth", "connectionType"}
                              /\ writerData'[Client] \in Seq(PlainMessages)
      BY DEF HandOverIsQuiet
    <2>0. lastSocket \in Sockets
      BY <1>0 DEF TypeOK
    <2>1. CASE p = Server
      <3>1. net'[lastSocket][Server] = net[lastSocket][Server]
        BY <1>8, <2>0, <2>1, ThePeers
      <3>2. writerData'[Client] = writerData[Client]
        BY <1>2, <2>1, ThePeers
      <3> QED BY <1>0, <2>1, <3>1, <3>2 DEF HandOverIsQuiet
    <2>2. CASE p = Client
      <3>1. s = lastSocket /\ wire = net[lastSocket][Server] /\ q = Server
        BY <1>0, <2>2, ThePeers DEF SocketsInOrder, Readable
      <3>2. net'[lastSocket][Server] = Tail(wire)
        BY <1>1, <1>8, <3>1
      <3>3. wire \in Seq(HandshakeMessages)
        BY <1>0, <3>1 DEF HandOverIsQuiet
      <3>4. Tail(wire) \in Seq(HandshakeMessages)
        BY <1>1, <3>3, HeadTailProperties
      <3>5. CASE isPaused'[Client]
        BY <3>2, <3>4, <3>5
      <3>6. CASE ~isPaused'[Client]
        <4>1. ~isPaused[Client] /\ type # "Pause" /\ clientState' \in {"auth", "connectionType"}
          BY <2>2, <3>6
        <4>2. PauseIsFirst(wire) /\ writerData[Client] \in Seq(PlainMessages)
          BY <1>0, <3>1, <4>1 DEF HandOverIsQuiet
        <4>3. PauseIsFirst(Tail(wire))
          BY <1>1, <4>1, <4>2, PauseIsFirstRead
        <4>4. writerData'[Client] \in Seq(PlainMessages)
          BY <1>2, <2>2, <4>2, ConcatProperties
        <4> QED BY <3>2, <3>4, <4>1, <4>3, <4>4
      <3> QED BY <3>5, <3>6
    <2> QED BY <2>1, <2>2, ThePeers
  <1> QED BY <1>5, <1>6, <1>9, <1>11, <1>12, <1>13 DEF SocketInv

(* The next message follows the latest one. *)
LEMMA GaplessAppend ==
    ASSUME NEW q \in Seq(ProtocolMessage), NEW n \in Nat, NEW l \in Nat, Gapless(q, n),
           HasLatest(q, l, n), NEW m \in ProtocolMessage, m.id = l + 1
    PROVE  Gapless(q \o <<m>>, n) /\ HasLatest(q \o <<m>>, l + 1, n)
  <1>1. /\ Len(q) \in Nat /\ Len(q \o <<m>>) = Len(q) + 1
        /\ \A i \in 1 .. Len(q) : (q \o <<m>>)[i] = q[i]
        /\ (q \o <<m>>)[Len(q) + 1] = m
    OBVIOUS
  <1>2. HasLatest(q \o <<m>>, l + 1, n)
    BY <1>1 DEF HasLatest
  <1> SUFFICES ASSUME NEW i \in 1 .. Len(q) + 1
               PROVE  \/ (q \o <<m>>)[i].id <= n + 1
                      \/ \E j \in 1 .. i - 1 : (q \o <<m>>)[i].id <= (q \o <<m>>)[j].id + 1
    BY <1>1, <1>2 DEF Gapless
  <1>3. CASE i <= Len(q)
    <2>1. i \in 1 .. Len(q) /\ \A j \in 1 .. i : (q \o <<m>>)[j] = q[j]
      BY <1>1, <1>3
    <2> QED BY <2>1 DEF Gapless
  <1>4. CASE i = Len(q) + 1
    <2>1. CASE l <= n
      BY <1>1, <1>4, <2>1
    <2>2. CASE ~(l <= n)
      <3>1. PICK j \in 1 .. Len(q) : q[j].id = l
        BY <2>2 DEF HasLatest
      <3>2. j \in 1 .. i - 1 /\ (q \o <<m>>)[j].id = l
        BY <1>1, <1>4, <3>1
      <3> QED BY <1>1, <1>4, <3>2
    <2> QED BY <2>1, <2>2
  <1> QED BY <1>1, <1>3, <1>4

LEMMA SendKeeps ==
    ASSUME IInv, SocketInv, NEW p \in Peers, Send(p)
    PROVE  SocketInv'
  <1> DEFINE m == NextMessage(p)
             msgs == IF isReconnecting[p] THEN <<>> ELSE <<m>>
             n == incomingMsgId[Other(p)]
             l == outgoingMsgId[p]
  <1>0. /\ TypeOK /\ NothingIsReplayed /\ HandOverIsQuiet /\ SocketsInOrder /\ Flows(p)
        /\ Other(p) \in Peers /\ Other(p) # p
    BY OtherPeer DEF IInv, SocketInv
  <1>1. l \in Nat /\ n \in Nat /\ Stream(p) \in Seq(ProtocolMessage)
    BY <1>0, StreamTypes
  <1>2. m \in ProtocolMessage /\ m.id = l + 1 /\ m.type = "Regular"
    <2>1. l + 1 \in 1 .. Len(Script[p]) /\ incomingMsgId[p] \in Nat
      <3>1. Script[p] \in Seq(Data) /\ Len(Script[p]) \in Nat
        BY ScriptAssumption, LenProperties
      <3>2. l < Len(Script[p])
        BY DEF Send
      <3>3. incomingMsgId[p] \in Nat
        BY <1>0 DEF TypeOK
      <3> HIDE DEF l
      <3> QED BY <1>1, <3>1, <3>2, <3>3
    <2>2. Script[p][l + 1] \in Data
      BY <2>1, ScriptAssumption, ElementOfSeq
    <2>3. m = Msg("Regular", l + 1, incomingMsgId[p], Script[p][l + 1])
      BY DEF NextMessage
    <2> QED BY <1>1, <2>1, <2>2, <2>3, MessageTypes DEF Msg
  <1> HIDE DEF m
  <1>3. m \in TidyMessages
    BY <1>2 DEF TidyMessages
  <1>4. /\ msgs \in Seq(TidyMessages) /\ Write(p, msgs)
        /\ UNCHANGED <<net, socket, up, lastSocket, serverState, isPaused, incomingMsgId,
                       clientState, isReconnecting>>
    BY <1>3 DEF Send, m, recvVars, netVars, handshakeVars
  <1>5. outgoingUnackMsg' \in [Peers -> Seq(TidyMessages)]
    <2>1. outgoingUnackMsg' = [outgoingUnackMsg EXCEPT ![p] = Append(outgoingUnackMsg[p], m)]
      BY DEF Send, m
    <2>2. Append(outgoingUnackMsg[p], m) \in Seq(TidyMessages)
      BY <1>0, <1>3 DEF NothingIsReplayed
    <2> QED BY <1>0, <2>1, <2>2 DEF NothingIsReplayed
  <1>6. outgoingMsgId'[p] = l + 1 /\ outgoingMsgId'[Other(p)] = outgoingMsgId[Other(p)]
    BY <1>0 DEF Send, TypeOK
  <1>7. Flows(p)'
    <2>1. CASE isReconnecting[p]
      <3>1. msgs = <<>> /\ Stream(p) \o <<>> = Stream(p)
        BY <1>1, <2>1, ConcatEmptySeq
      <3>2. Reaches(p) => Gapless(Stream(p) \o msgs, n)
        BY <1>0, <3>1 DEF Flows
      <3>3. msgs \in Seq(ProtocolMessage)
        BY <1>4, TidyAreMessages
      <3> HIDE DEF msgs
      <3> QED BY <1>0, <1>4, <2>1, <3>2, <3>3, FlowsWritten
    <2>2. CASE ~isReconnecting[p]
      <3>1. msgs = <<m>>
        BY <2>2
      <3>2. msgs \in Seq(ProtocolMessage)
        BY <1>4, TidyAreMessages
      <3>3. Reaches(p) /\ up[socket[p]] =>
              Gapless(Stream(p) \o msgs, n) /\ HasLatest(Stream(p) \o msgs, l + 1, n)
        BY <1>0, <1>1, <1>2, <2>2, <3>1, GaplessAppend DEF Flows
      <3> HIDE DEF msgs
      <3> QED BY <1>0, <1>4, <1>6, <3>2, <3>3, FlowsWritten
    <2> QED BY <2>1, <2>2
  <1>8. \/ UNCHANGED clientState /\ (p = Server \/ msgs \in Seq(PlainMessages))
        \/ serverState[lastSocket] # "Done" => isPaused[Client]
    <2>1. CASE isReconnecting[p]
      BY <1>4, <2>1
    <2>2. CASE ~isReconnecting[p]
      <3>1. p = Client => clientState = "connected"
        BY <1>0, <2>2 DEF SocketsInOrder
      <3> QED BY <1>0, <1>4, <3>1, ThePeers DEF HandOverIsQuiet
    <2> QED BY <2>1, <2>2
  <1> HIDE DEF msgs
  <1> QED BY <1>0, <1>4, <1>5, <1>6, <1>7, <1>8, WritingKeeps DEF SocketsInOrder

(* Timers, KeepAlive. *)
LEMMA TimersKeep ==
    ASSUME IInv, SocketInv, NEW p \in Peers,
           \/ AckTimeout(p) \/ UnackTimeout(p) \/ KeepAlive(p) \/ ReplayWindowEnds(p)
    PROVE  SocketInv'
  <1>0. /\ TypeOK /\ NothingIsReplayed /\ SocketsInOrder /\ Flows(p) /\ incomingMsgId[p] \in Nat
    BY DEF IInv, SocketInv, TypeOK
  <1>1. UNCHANGED <<net, socket, up, lastSocket, serverState, isPaused, incomingMsgId,
                    outgoingUnackMsg, outgoingMsgId, isReconnecting, clientState>>
    BY DEF AckTimeout, UnackTimeout, KeepAlive, ReplayWindowEnds, sendVars, recvVars, writerVars,
           netVars, handshakeVars
  <1>2. PICK msgs \in Seq(PlainMessages) : Write(p, msgs)
    <2>0. <<>> \in Seq(PlainMessages) /\ <<AckMsg(incomingMsgId[p])>> \in Seq(PlainMessages)
          /\ <<Msg("KeepAlive", 0, incomingMsgId[p], NoData)>> \in Seq(PlainMessages)
      BY <1>0, PlainBuilt
    <2>1. CASE AckTimeout(p)
      BY <2>0, <2>1 DEF AckTimeout
    <2>2. CASE KeepAlive(p)
      BY <2>0, <2>2 DEF KeepAlive
    <2>3. CASE UnackTimeout(p) \/ ReplayWindowEnds(p)
      <3>1. UNCHANGED writerData
        BY <2>3 DEF UnackTimeout, ReplayWindowEnds, writerVars
      <3>2. writerData[p] \o <<>> = writerData[p] /\ writerData \in [Peers -> Seq(ProtocolMessage)]
        BY <1>0, ConcatEmptySeq DEF TypeOK
      <3> QED BY <2>0, <3>1, <3>2 DEF Write
    <2> QED BY <2>1, <2>2, <2>3
  <1>3. Flows(p)'
    BY <1>0, <1>1, <1>2, FlowsPlain
  <1> QED BY <1>0, <1>1, <1>2, <1>3, TidyAreMessages, WritingKeeps DEF SocketsInOrder, NothingIsReplayed

(* Reading, of what can be there. *)
LEMMA HeadTidy ==
    ASSUME IInv, SocketInv, NEW p \in Peers, NEW type, Pop(p, type)
    PROVE  /\ type # "ReplayRequest"
           /\ type # "Regular" => Head(Readable(p)).id = 0
           /\ Head(Readable(p)).id \in Nat
           /\ Head(Readable(p)).id <= incomingMsgId[p] + 1
           /\ incomingMsgId[p] \in Nat
           /\ p = Client /\ serverState[lastSocket] # "Done" =>
                /\ type \in {"Control", "Pause"}
                /\ isPaused[Client] \/ type = "Pause" \/ Head(Readable(p)).data # "ok"
  <1> DEFINE wire == Readable(p)
  <1>0. TypeOK /\ NothingIsReplayed /\ HandOverIsQuiet /\ SocketsInOrder
        /\ RestIsGapless /\ Flows(Other(p)) /\ Other(p) \in Peers /\ Other(Other(p)) = p
        /\ Other(p) # p
    BY OtherPeer DEF IInv, SocketInv
  <1>1. /\ wire \in Seq(ProtocolMessage) /\ wire # <<>> /\ Head(wire).type = type
        /\ incomingMsgId[p] \in Nat /\ socket[p] \in Sockets
    BY <1>0, StreamTypes DEF Pop
  <1>2. wire \in Seq(TidyMessages)
    BY <1>0, <1>1 DEF NothingIsReplayed, Readable
  <1>3. Head(wire) \in TidyMessages /\ Head(wire).id \in Nat
    BY <1>1, <1>2, HeadTailProperties DEF TidyMessages, ProtocolMessage
  <1>4. Len(wire) \in Nat \ {0} /\ Head(wire) = wire[1]
    BY <1>1, EmptySeq
  <1>5. Gapless(wire, incomingMsgId[p])
    BY ReadableIsGapless
  <1>6. Head(wire).id <= incomingMsgId[p] + 1
    BY <1>4, <1>5 DEF Gapless
  <1>7. p = Client /\ serverState[lastSocket] # "Done" =>
          /\ type \in {"Control", "Pause"}
          /\ isPaused[Client] \/ type = "Pause" \/ Head(wire).data # "ok"
    <2> SUFFICES ASSUME p = Client, serverState[lastSocket] # "Done"
                 PROVE  /\ type \in {"Control", "Pause"}
                        /\ isPaused[Client] \/ type = "Pause" \/ Head(wire).data # "ok"
      OBVIOUS
    <2>1. wire = net[lastSocket][Server]
      BY <1>0, ThePeers DEF SocketsInOrder, Readable
    <2>2. wire \in Seq(HandshakeMessages) /\ (isPaused[Client] \/ PauseIsFirst(wire))
      BY <1>0, <2>1 DEF HandOverIsQuiet
    <2>3. Head(wire) \in HandshakeMessages
      BY <1>1, <2>2, HeadTailProperties
    <2> QED BY <1>1, <2>2, <2>3, PauseIsFirstRead DEF HandshakeMessages
  <1> QED BY <1>1, <1>3, <1>6, <1>7 DEF TidyMessages

(* Writing nothing. *)
LEMMA WritesNothing ==
    ASSUME TypeOK, NEW p \in Peers, UNCHANGED writerData
    PROVE  Write(p, <<>>) /\ <<>> \in Seq(PlainMessages)
  <1>1. writerData[p] \o <<>> = writerData[p] /\ writerData \in [Peers -> Seq(ProtocolMessage)]
    BY ConcatEmptySeq DEF TypeOK
  <1> QED BY <1>1 DEF Write

LEMMA ReadsKeep ==
    ASSUME IInv, SocketInv, NEW p \in Peers,
           \/ ReceiveRegular(p) \/ ReceiveDuplicate(p) \/ ReceiveGap(p) \/ ReceiveAck(p)
           \/ ReceiveReplayRequest(p) \/ ReceivePause(p) \/ ReceiveResume(p)
    PROVE  SocketInv'
  <1> DEFINE head == Head(Readable(p))
  <1>0. /\ TypeOK /\ NothingIsReplayed /\ SocketsInOrder /\ HandOverIsQuiet
        /\ Other(p) \in Peers /\ Other(p) # p /\ incomingMsgId \in [Peers -> Nat]
    BY OtherPeer DEF IInv, SocketInv, TypeOK
  <1>1. ~ReceiveGap(p)
    <2> SUFFICES ASSUME ReceiveGap(p) PROVE FALSE
      OBVIOUS
    <2>1. Pop(p, "Regular") /\ head.id > incomingMsgId[p] + 1
      BY DEF ReceiveGap
    <2>2. head.id <= incomingMsgId[p] + 1 /\ head.id \in Nat /\ incomingMsgId[p] \in Nat
      BY <2>1, HeadTidy
    <2> QED BY <2>1, <2>2
  <1>2. ~ReceiveReplayRequest(p)
    BY HeadTidy DEF ReceiveReplayRequest
  <1>3. PICK type : Pop(p, type) /\ TakeAck(p)
                    /\ (ReceiveRegular(p) \/ ReceiveDuplicate(p) => type = "Regular")
                    /\ (ReceiveAck(p) => type # "Regular")
                    /\ (ReceivePause(p) => type = "Pause") /\ (ReceiveResume(p) => type = "Resume")
    <2>1. \/ ReceiveRegular(p) /\ Pop(p, "Regular") /\ TakeAck(p)
          \/ ReceiveDuplicate(p) /\ Pop(p, "Regular") /\ TakeAck(p)
          \/ ReceivePause(p) /\ Pop(p, "Pause") /\ TakeAck(p)
          \/ ReceiveResume(p) /\ Pop(p, "Resume") /\ TakeAck(p)
          \/ ReceiveAck(p) /\ TakeAck(p) /\ (Pop(p, "Ack") \/ Pop(p, "KeepAlive"))
      BY <1>1, <1>2 DEF ReceiveRegular, ReceiveDuplicate, ReceiveAck, ReceivePause, ReceiveResume
    <2>2. PICK type : Pop(p, type) /\ TakeAck(p)
      BY <2>1
    <2>3. head.type = type
      BY <2>2 DEF Pop
    <2>4. (ReceiveRegular(p) \/ ReceiveDuplicate(p) => head.type = "Regular")
          /\ (ReceiveAck(p) => head.type # "Regular")
          /\ (ReceivePause(p) => head.type = "Pause") /\ (ReceiveResume(p) => head.type = "Resume")
      BY DEF ReceiveRegular, ReceiveDuplicate, ReceiveAck, ReceivePause, ReceiveResume, Pop
    <2> QED BY <2>2, <2>3, <2>4
  <1>4. /\ type # "Regular" => head.id = 0
        /\ head.id \in Nat /\ head.id <= incomingMsgId[p] + 1 /\ incomingMsgId[p] \in Nat
        /\ p = Client /\ serverState[lastSocket] # "Done" => type \in {"Control", "Pause"}
    BY <1>3, HeadTidy
  <1>5. outgoingUnackMsg' \in [Peers -> Seq(TidyMessages)]
    BY <1>0, <1>3, TakeAckTidy
  <1>6. UNCHANGED <<socket, lastSocket, serverState, isReconnecting, outgoingMsgId, clientState,
                    writerData>>
    BY <1>1, <1>2 DEF ReceiveRegular, ReceiveDuplicate, ReceiveAck, ReceivePause,
       ReceiveResume, writerVars, handshakeVars, Pop
  <1>7. /\ incomingMsgId'[p] \in Nat /\ incomingMsgId[p] <= incomingMsgId'[p]
        /\ head.id <= incomingMsgId'[p]
        /\ incomingMsgId'[Other(p)] = incomingMsgId[Other(p)]
    <2>1. CASE ReceiveRegular(p)
      <3>1. incomingMsgId' = [incomingMsgId EXCEPT ![p] = head.id]
            /\ head.id = incomingMsgId[p] + 1
        BY <2>1 DEF ReceiveRegular, IsNext
      <3> HIDE DEF head
      <3> QED BY <1>0, <1>4, <3>1
    <2>2. CASE ReceiveDuplicate(p)
      BY <1>4, <2>2 DEF ReceiveDuplicate, recvVars
    <2>3. CASE ReceiveAck(p) \/ ReceivePause(p) \/ ReceiveResume(p)
      <3>1. UNCHANGED incomingMsgId
        BY <2>3 DEF ReceiveAck, ReceivePause, ReceiveResume, recvVars
      <3>2. head.id = 0
        BY <1>3, <1>4, <2>3
      <3> QED BY <1>4, <3>1, <3>2
    <2> QED BY <1>1, <1>2, <2>1, <2>2, <2>3
  <1>8. isPaused'[Client] = isPaused[Client] \/ (p = Client /\ ReceivePause(p) /\ isPaused'[Client])
        \/ (p = Client /\ ReceiveResume(p))
    <2>1. CASE ReceivePause(p) \/ ReceiveResume(p)
      BY <1>0, <2>1, ThePeers DEF ReceivePause, ReceiveResume, TypeOK
    <2>2. CASE ~(ReceivePause(p) \/ ReceiveResume(p))
      BY <1>1, <1>2, <2>2 DEF ReceiveRegular, ReceiveDuplicate, ReceiveAck, writerVars
    <2> QED BY <2>1, <2>2
  <1>9. ASSUME p = Client, serverState[lastSocket] # "Done"
        PROVE  \/ isPaused'[Client]
               \/ /\ ~isPaused[Client] /\ type # "Pause"
                  /\ clientState' \in {"auth", "connectionType"}
    <2>1. ~ReceiveResume(p)
      BY <1>3, <1>4, <1>9
    <2>2. isPaused[Client] \/ clientState \in {"auth", "connectionType"}
      BY <1>0, <1>9 DEF HandOverIsQuiet
    <2>3. CASE isPaused'[Client]
      BY <2>3
    <2>4. CASE ~isPaused'[Client]
      <3>1. isPaused'[Client] = isPaused[Client]
        BY <1>8, <2>1, <2>4, Zenon
      <3>2. type # "Pause"
        <4> SUFFICES ASSUME type = "Pause" PROVE FALSE
          OBVIOUS
        <4>1. ReceivePause(p)
          BY <1>1, <1>2, <1>3 DEF ReceiveAck, Pop
        <4>2. isPaused' = [isPaused EXCEPT ![p] = TRUE]
          BY <4>1 DEF ReceivePause
        <4> QED BY <1>0, <1>9, <2>4, <4>2 DEF TypeOK
      <3> QED BY <1>6, <2>2, <2>4, <3>1, <3>2
    <2> QED BY <2>3, <2>4
  <1>10. p = Server => isPaused'[Client] = isPaused[Client]
    BY <1>8, ThePeers
  <1>11. Write(p, <<>>) /\ <<>> \in Seq(PlainMessages)
    BY <1>0, <1>6, WritesNothing
  <1>12. clientState' # "connected" => isReconnecting[Client]
    BY <1>0, <1>6 DEF SocketsInOrder
  <1> HIDE DEF head
  <1> QED
    BY <1>3, <1>5, <1>6, <1>7, <1>9, <1>10, <1>11, <1>12, ReadingKeeps DEF head

LEMMA HandshakeReadsKeep ==
    ASSUME IInv, SocketInv, ReceiveSign \/ ReceiveOk
    PROVE  SocketInv'
  <1> DEFINE head == Head(Readable(Client))
  <1>0. /\ TypeOK /\ NothingIsReplayed /\ SocketsInOrder /\ HandOverIsQuiet
        /\ Client \in Peers /\ Server \in Peers /\ Other(Client) = Server
    BY ThePeers DEF IInv, SocketInv
  <1>1. /\ Pop(Client, "Control") /\ TakeAck(Client)
        /\ UNCHANGED <<socket, lastSocket, serverState, isReconnecting, outgoingMsgId, isPaused,
                       incomingMsgId>>
    BY DEF ReceiveSign, ReceiveOk, Pop, recvVars, writerVars
  <1>2. /\ head.id = 0 /\ incomingMsgId[Client] \in Nat
        /\ serverState[lastSocket] # "Done" => isPaused[Client] \/ head.data # "ok"
    BY <1>0, <1>1, HeadTidy
  <1>3. outgoingUnackMsg' \in [Peers -> Seq(TidyMessages)]
    BY <1>0, <1>1, TakeAckTidy
  <1>4. PICK msgs \in Seq(PlainMessages) : Write(Client, msgs)
    <2>1. CASE ReceiveSign
      BY <2>1, PlainBuilt DEF ReceiveSign, ControlData
    <2>2. CASE ReceiveOk
      BY <1>0, <2>2, WritesNothing DEF ReceiveOk, writerVars
    <2> QED BY <2>1, <2>2
  <1>5. isReconnecting[Client]
    BY <1>0 DEF ReceiveSign, ReceiveOk, SocketsInOrder
  <1>6. ASSUME serverState[lastSocket] # "Done"
        PROVE  \/ isPaused'[Client]
               \/ ~isPaused[Client] /\ clientState' \in {"auth", "connectionType"}
    <2>1. CASE ReceiveSign
      BY <1>1, <2>1 DEF ReceiveSign
    <2>2. CASE ReceiveOk
      BY <1>1, <1>2, <1>6, <2>2 DEF ReceiveOk
    <2> QED BY <2>1, <2>2
  <1>7. incomingMsgId[Client] <= incomingMsgId'[Client] /\ head.id <= incomingMsgId'[Client]
        /\ incomingMsgId'[Client] \in Nat
    BY <1>1, <1>2
  <1> HIDE DEF head
  <1> QED BY <1>0, <1>1, <1>3, <1>4, <1>5, <1>6, <1>7, ThePeers, ReadingKeeps DEF head

(* The buffer is written to the socket. *)
LEMMA FlushKeeps ==
    ASSUME IInv, SocketInv, NEW p \in Peers, Flush(p)
    PROVE  SocketInv'
  <1> DEFINE q == Other(p)
             s == socket[p]
             sent == net[s][p]
             buffer == writerData[p]
  <1>0. /\ TypeOK /\ NothingIsReplayed /\ HandOverIsQuiet /\ SocketsInOrder /\ HandshakesReadPlain
        /\ RestIsGapless /\ Flows(q) /\ Flows(p) /\ q \in Peers /\ q # p /\ Other(q) = p
        /\ s \in Sockets /\ socket[q] \in Sockets /\ lastSocket \in Nat
    <2>1. q \in Peers /\ q # p /\ Other(q) = p
      BY OtherPeer
    <2>2. TypeOK
      BY DEF IInv
    <2>3. s \in Sockets /\ socket[q] \in Sockets /\ lastSocket \in Nat
      BY <2>1, <2>2 DEF TypeOK, Sockets
    <2> QED BY <2>1, <2>2, <2>3 DEF SocketInv
  <1>1. /\ sent \in Seq(ProtocolMessage) /\ buffer \in Seq(ProtocolMessage)
        /\ sent \in Seq(TidyMessages) /\ buffer \in Seq(TidyMessages)
        /\ incomingMsgId[q] \in Nat /\ incomingMsgId[p] \in Nat
    BY <1>0 DEF NothingIsReplayed, TypeOK
  <1>2. /\ UNCHANGED <<socket, up, lastSocket, serverState, isPaused, incomingMsgId,
                       outgoingMsgId, outgoingUnackMsg, isReconnecting, clientState>>
        /\ ~isPaused[p] /\ writerData' = [writerData EXCEPT ![p] = <<>>]
    BY DEF Flush, sendVars, recvVars, handshakeVars
  <1>3. \A r \in Sockets, x \in Peers :
            net'[r][x] = IF up[s] /\ r = s /\ x = p THEN sent \o buffer ELSE net[r][x]
    <2>1. CASE up[s]
      <3>1. net' = [net EXCEPT ![s][p] = sent \o buffer]
        BY <1>0, <2>1 DEF Flush, TypeOK
      <3> HIDE DEF sent, buffer
      <3> QED BY <1>0, <2>1, <3>1 DEF TypeOK, sent
    <2>2. CASE ~up[s]
      BY <2>2 DEF Flush
    <2> QED BY <2>1, <2>2
  <1>4. writerData'[p] = <<>> /\ writerData'[q] = writerData[q]
    BY <1>0, <1>2 DEF TypeOK
  <1>5. NothingIsReplayed'
    <2>1. sent \o buffer \in Seq(TidyMessages)
      BY <1>1, ConcatProperties
    <2>2. net' \in [Sockets -> [Peers -> Seq(TidyMessages)]]
      <3> DEFINE wire == sent \o buffer
      <3>1. net' = net \/ net' = [net EXCEPT ![s][p] = wire]
        BY <1>0 DEF Flush, TypeOK
      <3>2. wire \in Seq(TidyMessages) /\ s \in Sockets
        BY <1>0, <2>1
      <3>3. net \in [Sockets -> [Peers -> Seq(TidyMessages)]]
        BY <1>0 DEF NothingIsReplayed
      <3> HIDE DEF wire
      <3>4. CASE net' = [net EXCEPT ![s][p] = wire]
        BY <3>2, <3>3, <3>4
      <3> QED BY <3>1, <3>3, <3>4
    <2>3. writerData' \in [Peers -> Seq(TidyMessages)]
      BY <1>0, <1>2 DEF NothingIsReplayed
    <2> QED BY <1>0, <1>2, <2>2, <2>3 DEF NothingIsReplayed
  <1>6. SocketsInOrder'
    <2>1. \A r \in Sockets : r > lastSocket => r # s
      BY <1>0, ThePeers DEF SocketsInOrder
    <2> QED BY <1>0, <1>2, <1>3, <2>1 DEF SocketsInOrder
  <1>7. Flows(p)' /\ Flows(q)'
    <2>1. Reaches(p)' => Reaches(p)
      BY <1>2 DEF Reaches
    <2>2. Stream(p)' = Stream(p)
      <3>1. CASE up[s]
        <4>1. Stream(p)' = (sent \o buffer) \o <<>> /\ Stream(p) = sent \o buffer
          BY <1>0, <1>2, <1>3, <1>4, <3>1 DEF Stream
        <4>2. sent \o buffer \in Seq(ProtocolMessage)
          BY <1>1, ConcatProperties
        <4> QED BY <4>1, <4>2, ConcatEmptySeq
      <3>2. CASE ~up[s]
        BY <1>0, <1>2, <1>3, <3>2 DEF Stream
      <3> QED BY <3>1, <3>2
    <2>3. Reaches(q)' => Reaches(q)
      BY <1>2 DEF Reaches
    <2>4. Stream(q)' = Stream(q)
      BY <1>0, <1>2, <1>3, <1>4 DEF Stream
    <2> QED BY <1>0, <1>1, <1>2, <2>1, <2>2, <2>3, <2>4, FlowsStay
  <1>8. RestIsGapless'
    <2> SUFFICES ASSUME socket[Client] # socket[Server], NEW x \in Peers
                 PROVE  Gapless(Readable(x)', incomingMsgId'[x])
      BY <1>2 DEF RestIsGapless
    <2>1. Readable(x)' = Readable(x)
      <3>1. socket[x] # socket[Other(x)] /\ socket[x] \in Sockets /\ Other(x) \in Peers
        BY <1>0, ThePeers DEF TypeOK
      <3>2. ~(socket[x] = s /\ Other(x) = p)
        BY <3>1
      <3> QED BY <1>2, <1>3, <3>1, <3>2 DEF Readable
    <2> QED BY <1>0, <1>2, <2>1 DEF RestIsGapless
  <1>9. HandshakesReadPlain'
    <2> SUFFICES ASSUME NEW r \in Sockets, serverState[r] # "Done"
                 PROVE  net'[r][Client] \in Seq(PlainMessages)
      BY <1>2 DEF HandshakesReadPlain
    <2>1. net[r][Client] \in Seq(PlainMessages)
      BY <1>0 DEF HandshakesReadPlain
    <2>2. CASE r = s /\ p = Client
      <3>1. s = lastSocket
        BY <1>0, <2>2 DEF SocketsInOrder
      <3>2. buffer \in Seq(PlainMessages)
        BY <1>0, <1>2, <2>2, <3>1 DEF HandOverIsQuiet
      <3>3. sent \in Seq(PlainMessages)
        BY <2>1, <2>2
      <3>4. sent \o buffer \in Seq(PlainMessages)
        BY <3>2, <3>3, ConcatProperties
      <3> QED BY <1>3, <2>1, <3>4, ThePeers
    <2>3. CASE ~(r = s /\ p = Client)
      BY <1>3, <2>1, <2>3, ThePeers
    <2> QED BY <2>2, <2>3
  <1>10. HandOverIsQuiet'
    <2>1. serverState[lastSocket] # "Done" => net'[lastSocket][Server] = net[lastSocket][Server]
      <3> SUFFICES ASSUME serverState[lastSocket] # "Done"
                   PROVE  net'[lastSocket][Server] = net[lastSocket][Server]
        OBVIOUS
      <3>1. ~(lastSocket = s /\ Server = p)
        BY <1>0 DEF SocketsInOrder
      <3>2. lastSocket \in Sockets
        BY <1>0 DEF TypeOK
      <3> QED BY <1>3, <3>1, <3>2, ThePeers
    <2>2. writerData'[Client] = writerData[Client] \/ writerData'[Client] = <<>>
      BY <1>4, ThePeers
    <2>3. <<>> \in Seq(PlainMessages)
      BY EmptySeq
    <2> QED BY <1>0, <1>2, <2>1, <2>2, <2>3 DEF HandOverIsQuiet
  <1> QED
    <2>1. \A x \in Peers : Flows(x)'
      <3>1. \A x \in Peers : x = p \/ x = q
        BY ThePeers
      <3> QED BY <1>7, <3>1
    <2> QED BY <1>5, <1>6, <1>8, <1>9, <1>10, <2>1 DEF SocketInv

(* The end of a reconnection: what the peer has not got is written again. *)
LEMMA EndKeeps ==
    ASSUME IInv, SocketInv, NEW p \in Peers, NEW after \in Seq(PlainMessages),
           EndAcceptReconnection(p, after),
           UNCHANGED <<recvVars, socket, isPaused, netVars, serverState>>,
           clientState' # "connected" => isReconnecting'[Client],
           \/ UNCHANGED clientState /\ p = Server
           \/ serverState[lastSocket] # "Done" => isPaused[Client]
    PROVE  SocketInv'
  <1> DEFINE q == Other(p)
             n == incomingMsgId[q]
             ack == <<AckMsg(incomingMsgId[p])>>
             queue == outgoingUnackMsg[p]
             first == outgoingAckId[p]
             msgs == ack \o queue \o after
  <1>0. /\ TypeOK /\ NothingIsReplayed /\ Flows(p) /\ q \in Peers /\ q # p
    BY OtherPeer DEF IInv, SocketInv
  <1>1. /\ UNCHANGED <<net, socket, up, lastSocket, serverState, isPaused, incomingMsgId,
                       outgoingUnackMsg, outgoingMsgId>>
        /\ Write(p, msgs)
        /\ isReconnecting'[q] = isReconnecting[q]
    BY <1>0 DEF EndAcceptReconnection, Repeated, sendVars, recvVars, netVars, TypeOK
  <1>2. /\ n \in Nat /\ first \in Nat /\ outgoingMsgId[p] \in Nat /\ incomingMsgId[p] \in Nat
        /\ first <= n /\ Stream(p) \in Seq(ProtocolMessage)
    BY <1>0, StreamTypes DEF IInv, TypeOK, AckedWasDelivered, DeliveredInOrder
  <1>3. /\ queue \in Seq(ProtocolMessage) /\ queue \in Seq(TidyMessages) /\ Len(queue) \in Nat
        /\ Len(queue) + first = outgoingMsgId[p]
        /\ \A i \in 1 .. Len(queue) : queue[i].id = first + i
    BY <1>0, LenProperties DEF IInv, TypeOK, UnackQueue, NothingIsReplayed
  <1>4. /\ ack \in Seq(PlainMessages) /\ ack \in Seq(TidyMessages) /\ ack \in Seq(ProtocolMessage)
        /\ after \in Seq(TidyMessages) /\ after \in Seq(ProtocolMessage)
    BY <1>2, PlainBuilt, TidyAreMessages
  <1> HIDE DEF ack, queue, n, first
  <1>5. ack \o queue \in Seq(ProtocolMessage) /\ ack \o queue \in Seq(TidyMessages)
    BY <1>3, <1>4, ConcatProperties
  <1>6. msgs \in Seq(ProtocolMessage) /\ msgs \in Seq(TidyMessages)
    BY <1>4, <1>5, ConcatProperties
  <1>7. Gapless(msgs, n)
    <2>1. Gapless(queue, n)
      BY <1>2, <1>3, GaplessRun
    <2>2. Gapless(ack, n) /\ Gapless(after, n)
      BY <1>2, <1>4, GaplessPlain
    <2>3. Gapless(ack \o queue, n)
      BY <1>2, <1>3, <1>4, <2>1, <2>2, GaplessConcat
    <2> QED BY <1>2, <1>4, <1>5, <2>2, <2>3, GaplessConcat
  <1>8. HasLatest(msgs, outgoingMsgId[p], n)
    <2>1. HasLatest(queue, outgoingMsgId[p], n)
      <3>1. CASE Len(queue) = 0
        BY <1>2, <1>3, <3>1 DEF HasLatest
      <3>2. CASE Len(queue) # 0
        <4>1. Len(queue) \in 1 .. Len(queue) /\ queue[Len(queue)].id = outgoingMsgId[p]
          BY <1>2, <1>3, <3>2
        <4> QED BY <4>1 DEF HasLatest
      <3> QED BY <3>1, <3>2
    <2>2. HasLatest(ack \o queue, outgoingMsgId[p], n)
      BY <1>2, <1>3, <1>4, <2>1, LatestConcat
    <2> QED BY <1>2, <1>4, <1>5, <2>2, LatestConcat
  <1> HIDE DEF msgs
  <1>9. Reaches(p) => Gapless(Stream(p) \o msgs, n)
    BY <1>2, <1>6, <1>7, <1>0, GaplessConcat DEF Flows, n
  <1>10. HasLatest(Stream(p) \o msgs, outgoingMsgId[p], n)
    BY <1>2, <1>6, <1>8, LatestConcat
  <1>11. Flows(p)'
    BY <1>0, <1>1, <1>6, <1>9, <1>10, FlowsWritten DEF n
  <1> QED BY <1>0, <1>1, <1>6, <1>11, WritingKeeps DEF NothingIsReplayed

LEMMA EndsKeep ==
    ASSUME IInv, SocketInv, ClientEnd \/ ServerEnd
    PROVE  SocketInv'
  <1>0. TypeOK /\ SocketsInOrder /\ HandOverIsQuiet /\ <<>> \in Seq(PlainMessages)
    BY EmptySeq DEF IInv, SocketInv
  <1>1. CASE ClientEnd
    <2>1. serverState[lastSocket] # "Done" => isPaused[Client]
      BY <1>0, <1>1 DEF ClientEnd, HandOverIsQuiet
    <2> QED BY <1>0, <1>1, <2>1, ThePeers, EndKeeps DEF ClientEnd
  <1>2. CASE ServerEnd
    <2>1. (IF ExtensionHost THEN <<Plain("Resume")>> ELSE <<>>) \in Seq(PlainMessages)
      BY <1>0, PlainBuilt
    <2>2. isReconnecting'[Client] = isReconnecting[Client] /\ clientState' = clientState
      BY <1>0, <1>2, ThePeers DEF ServerEnd, EndAcceptReconnection, handshakeVars, TypeOK
    <2>3. EndAcceptReconnection(Server, IF ExtensionHost THEN <<Plain("Resume")>> ELSE <<>>)
          /\ UNCHANGED <<recvVars, socket, isPaused, netVars, serverState>>
      BY <1>2 DEF ServerEnd, handshakeVars
    <2> QED BY <1>0, <2>1, <2>2, <2>3, ThePeers, EndKeeps DEF SocketsInOrder
  <1> QED BY <1>1, <1>2

(* What p leaves in its socket, before an end of that is lost. *)
Flushed(p, links) ==
    IF up[socket[p]] /\ ~isPaused[p]
    THEN links[socket[p]][p] \o writerData[p] ELSE links[socket[p]][p]

(* What p's leaving its socket for s does. *)
Leaving(p, s, written, links) ==
    /\ \E left \in Prefixes(Flushed(p, links)) : \A r \in Sockets, x \in Peers :
          net'[r][x] = IF r # socket[p] THEN links[r][x] ELSE IF x = p THEN left ELSE <<>>
    /\ net' \in [Sockets -> [Peers -> Seq(TidyMessages)]]
    /\ writerData' \in [Peers -> Seq(TidyMessages)]
    /\ writerData'[p] = written /\ socket'[p] = s
    /\ isReconnecting'[p] /\ ~isPaused'[p]
    /\ \A x \in Peers : x # p =>
          /\ writerData'[x] = writerData[x] /\ socket'[x] = socket[x]
          /\ isReconnecting'[x] = isReconnecting[x] /\ isPaused'[x] = isPaused[x]
    /\ \A r \in Sockets : up'[r] = (up[r] /\ r # socket[p])

LEMMA Leaves ==
    ASSUME TypeOK, NothingIsReplayed, NEW p \in Peers, NEW s \in Sockets,
           NEW written \in Seq(TidyMessages),
           NEW links \in [Sockets -> [Peers -> Seq(TidyMessages)]],
           BeginAcceptReconnection(p, s, written, links)
    PROVE  Leaving(p, s, written, links)
  <1> DEFINE old == socket[p]
             wire == links[old][p]
             flushed == Flushed(p, links)
  <1>1. old \in Sockets /\ writerData \in [Peers -> Seq(TidyMessages)]
    BY DEF TypeOK, NothingIsReplayed
  <1>2. flushed \in Seq(TidyMessages)
    <2>1. wire \in Seq(TidyMessages) /\ writerData[p] \in Seq(TidyMessages)
      BY <1>1
    <2>2. wire \o writerData[p] \in Seq(TidyMessages)
      BY <2>1, ConcatProperties
    <2> QED BY <2>1, <2>2 DEF Flushed
  <1>3. PICK left \in Prefixes(flushed) :
          net' = [links EXCEPT ![old] = [q \in Peers |-> IF q = p THEN left ELSE <<>>]]
    BY DEF BeginAcceptReconnection, CloseOldSocket, Flushed
  <1>4. left \in Seq(TidyMessages) /\ <<>> \in Seq(TidyMessages)
    BY <1>2, PrefixOfSeq, EmptySeq
  <1>5. \A r \in Sockets, x \in Peers :
            net'[r][x] = IF r # old THEN links[r][x] ELSE IF x = p THEN left ELSE <<>>
    BY <1>1, <1>3
  <1>6. net' \in [Sockets -> [Peers -> Seq(TidyMessages)]]
    <2>1. [q \in Peers |-> IF q = p THEN left ELSE <<>>] \in [Peers -> Seq(TidyMessages)]
      BY <1>4
    <2> DEFINE pair == [q \in Peers |-> IF q = p THEN left ELSE <<>>]
    <2>2. pair \in [Peers -> Seq(TidyMessages)] /\ net' = [links EXCEPT ![old] = pair]
      BY <1>3, <2>1
    <2> HIDE DEF pair, flushed, wire
    <2> QED BY <1>1, <2>2
  <1>7. /\ writerData' \in [Peers -> Seq(TidyMessages)]
        /\ writerData'[p] = written /\ socket'[p] = s
        /\ isReconnecting'[p] /\ ~isPaused'[p]
    BY <1>1 DEF BeginAcceptReconnection, TypeOK
  <1>8. \A x \in Peers : x # p =>
                /\ writerData'[x] = writerData[x] /\ socket'[x] = socket[x]
                /\ isReconnecting'[x] = isReconnecting[x] /\ isPaused'[x] = isPaused[x]
    BY <1>1 DEF BeginAcceptReconnection, TypeOK
  <1>9. \A r \in Sockets : up'[r] = (up[r] /\ r # old)
    <2>1. up' = [up EXCEPT ![old] = FALSE]
      BY DEF BeginAcceptReconnection, CloseOldSocket
    <2> QED BY <1>1, <2>1, Zenon DEF TypeOK
  <1>10. \E l \in Prefixes(Flushed(p, links)) : \A r \in Sockets, x \in Peers :
            net'[r][x] = IF r # socket[p] THEN links[r][x] ELSE IF x = p THEN l ELSE <<>>
    BY <1>5
  <1> QED BY <1>6, <1>7, <1>8, <1>9, <1>10, Zenon DEF Leaving

(* The client takes a new socket. *)
LEMMA ClientBeginKeeps ==
    ASSUME IInv, SocketInv, ClientBegin
    PROVE  SocketInv'
  <1> DEFINE old == socket[Client]
             s == lastSocket + 1
             first == <<Control("auth")>>
             flushed == Flushed(Client, net)
  <1>0. /\ TypeOK /\ NothingIsReplayed /\ HandOverIsQuiet /\ SocketsInOrder /\ HandshakesReadPlain
        /\ RestIsGapless /\ Flows(Client) /\ Flows(Server)
        /\ Client \in Peers /\ Server \in Peers /\ Client # Server
        /\ Other(Client) = Server /\ Other(Server) = Client
    BY ThePeers DEF IInv, SocketInv
  <1>1. /\ s \in Sockets /\ s > lastSocket /\ old = lastSocket /\ lastSocket \in Nat
        /\ socket[Server] \in Sockets /\ old \in Sockets /\ \A r \in Sockets : r \in Nat
        /\ incomingMsgId[Client] \in Nat /\ incomingMsgId[Server] \in Nat
    BY <1>0, BoundsAssumption DEF ClientBegin, TypeOK, Sockets, SocketsInOrder
  <1>2. first \in Seq(PlainMessages) /\ first \in Seq(TidyMessages)
    BY PlainBuilt, TidyAreMessages DEF ControlData
  <1>3. /\ lastSocket' = s /\ clientState' = "auth"
        /\ UNCHANGED <<outgoingUnackMsg, incomingMsgId, serverState>>
        /\ BeginAcceptReconnection(Client, s, first, net)
        /\ net \in [Sockets -> [Peers -> Seq(TidyMessages)]]
    BY <1>0 DEF ClientBegin, sendVars, recvVars, NothingIsReplayed
  <1> HIDE DEF first, s
  <1>4. /\ \E left \in Prefixes(flushed) : \A r \in Sockets, x \in Peers :
              net'[r][x] = IF r # old THEN net[r][x] ELSE IF x = Client THEN left ELSE <<>>
        /\ net' \in [Sockets -> [Peers -> Seq(TidyMessages)]]
        /\ writerData' \in [Peers -> Seq(TidyMessages)]
        /\ writerData'[Client] = first /\ socket'[Client] = s
        /\ isReconnecting'[Client] /\ ~isPaused'[Client]
        /\ socket'[Server] = socket[Server]
    <2>1. Leaving(Client, s, first, net)
      BY <1>0, <1>1, <1>2, <1>3, Leaves
    <2> QED BY <1>0, <2>1, Zenon DEF Leaving
  <1>5. PICK left \in Prefixes(flushed) : \A r \in Sockets, x \in Peers :
              net'[r][x] = IF r # old THEN net[r][x] ELSE IF x = Client THEN left ELSE <<>>
    BY <1>4
  <1>6. s # old /\ socket[Server] # s /\ serverState[s] = "WaitingForAuth"
        /\ \A x \in Peers : net'[s][x] = <<>>
    BY <1>0, <1>1, <1>5 DEF SocketsInOrder
  <1>7. NothingIsReplayed'
    BY <1>0, <1>3, <1>4 DEF NothingIsReplayed
  <1>8. SocketsInOrder'
    <2>1. \A r \in Sockets : r > s => r > lastSocket /\ r # old
      BY <1>1 DEF s
    <2> QED BY <1>0, <1>3, <1>4, <1>5, <2>1 DEF SocketsInOrder
  <1>9. HandOverIsQuiet'
    BY <1>0, <1>2, <1>3, <1>4, <1>6, NothingIsGapless DEF HandOverIsQuiet
  <1>10. HandshakesReadPlain'
    <2> SUFFICES ASSUME NEW r \in Sockets, serverState[r] # "Done"
                 PROVE  net'[r][Client] \in Seq(PlainMessages)
      BY <1>3 DEF HandshakesReadPlain
    <2>1. net[r][Client] \in Seq(PlainMessages)
      BY <1>0 DEF HandshakesReadPlain
    <2>2. CASE r # old
      BY <1>0, <1>5, <2>1, <2>2
    <2>3. CASE r = old
      <3>1. ~isPaused[Client] => writerData[Client] \in Seq(PlainMessages)
        BY <1>0, <1>1, <2>3 DEF HandOverIsQuiet
      <3>2. flushed \in Seq(PlainMessages)
        BY <2>1, <2>3, <3>1, ConcatProperties DEF Flushed
      <3> HIDE DEF flushed
      <3>3. left \in Seq(PlainMessages)
        BY <3>2, PrefixOfSeq
      <3> QED BY <1>0, <1>1, <1>5, <2>3, <3>3
    <2> QED BY <2>2, <2>3
  <1>11. RestIsGapless'
    <2>1. Gapless(Readable(Client)', incomingMsgId'[Client])
      BY <1>0, <1>1, <1>3, <1>4, <1>6, NothingIsGapless DEF Readable
    <2>2. Gapless(Readable(Server)', incomingMsgId'[Server])
      <3>1. CASE socket[Server] # old
        <4>1. Readable(Server)' = Readable(Server)
          BY <1>0, <1>1, <1>4, <1>5, <3>1 DEF Readable
        <4> QED BY <1>0, <1>3, <3>1, <4>1 DEF RestIsGapless
      <3>2. CASE socket[Server] = old
        <4>1. Readable(Server)' = left
          BY <1>0, <1>1, <1>4, <1>5, <3>2 DEF Readable
        <4>2. Reaches(Client)
          BY <3>2 DEF Reaches
        <4>3. Gapless(net[old][Client], incomingMsgId[Server])
              /\ net[old][Client] \in Seq(ProtocolMessage)
          BY <1>0, <4>2, WireIsGapless
        <4>4. up[old] => Gapless(net[old][Client] \o writerData[Client], incomingMsgId[Server])
                         /\ net[old][Client] \o writerData[Client] \in Seq(ProtocolMessage)
          <5>1. Stream(Client) \in Seq(ProtocolMessage)
            BY <1>0, StreamTypes
          <5> QED BY <1>0, <4>2, <5>1 DEF Flows, Stream
        <4>5. Gapless(flushed, incomingMsgId[Server]) /\ flushed \in Seq(ProtocolMessage)
          BY <4>3, <4>4 DEF Flushed
        <4> HIDE DEF flushed
        <4>6. Gapless(left, incomingMsgId[Server])
          BY <1>1, <4>5, GaplessPrefix
        <4> QED BY <1>3, <4>1, <4>6
      <3> QED BY <3>1, <3>2
    <2> QED BY <2>1, <2>2, ThePeers DEF RestIsGapless
  <1>12. Flows(Client)'
    <2>1. Stream(Client)' \in Seq(PlainMessages)
      <3> DEFINE rest == IF up'[s] THEN first ELSE <<>>
      <3>1. rest \in Seq(PlainMessages)
        BY <1>2, NothingIsGapless
      <3>2. Stream(Client)' = <<>> \o rest
        BY <1>0, <1>4, <1>6 DEF Stream
      <3> HIDE DEF rest
      <3> QED BY <3>1, <3>2, NothingIsGapless, ConcatProperties
    <2> QED BY <1>0, <1>1, <1>3, <1>4, <2>1, FlowsAgain
  <1>13. Flows(Server)'
    BY <1>0, <1>4, <1>6 DEF Flows, Reaches
  <1> QED
    <2>1. \A q \in Peers : Flows(q)'
      BY <1>12, <1>13, ThePeers
    <2> QED BY <1>7, <1>8, <1>9, <1>10, <1>11, <2>1 DEF SocketInv

(* What a socket carries once the handshake has read from it and answered. *)
LEMMA Replied ==
    ASSUME NothingIsReplayed, NEW s \in Sockets, net[s][Client] # <<>>,
           NEW msgs \in Seq(TidyMessages)
    PROVE  /\ HandshakeReply(s, msgs) \in [Sockets -> [Peers -> Seq(TidyMessages)]]
           /\ \A r \in Sockets, x \in Peers :
                 HandshakeReply(s, msgs)[r][x] =
                    IF r # s THEN net[r][x]
                    ELSE IF x = Client THEN Tail(net[s][Client])
                    ELSE IF up[s] THEN net[s][x] \o msgs ELSE net[s][x]
  <1> DEFINE read == Tail(net[s][Client])
             answered == IF up[s] THEN net[s][Server] \o msgs ELSE net[s][Server]
             pair == [q \in Peers |-> IF q = Client THEN read ELSE answered]
  <1>1. /\ net \in [Sockets -> [Peers -> Seq(TidyMessages)]]
        /\ Client \in Peers /\ Server \in Peers /\ Client # Server
        /\ \A x \in Peers : x = Client \/ x = Server
    BY ThePeers DEF NothingIsReplayed
  <1>2. /\ net[s][Client] \in Seq(TidyMessages) /\ net[s][Server] \in Seq(TidyMessages)
    BY <1>1
  <1>3. read \in Seq(TidyMessages)
    BY <1>2, HeadTailProperties
  <1>4. answered \in Seq(TidyMessages)
    <2>1. net[s][Server] \o msgs \in Seq(TidyMessages)
      BY <1>2, ConcatProperties
    <2> QED BY <1>2, <2>1
  <1>5. HandshakeReply(s, msgs) = [net EXCEPT ![s] = pair]
    <2>1. HandshakeReply(s, msgs) = [net EXCEPT ![s] = [q \in Peers |->
            IF q = Client THEN Tail(net[s][q])
            ELSE IF up[s] THEN net[s][q] \o msgs ELSE net[s][q]]]
      BY <1>1 DEF HandshakeReply
    <2>2. [q \in Peers |->
            IF q = Client THEN Tail(net[s][q])
            ELSE IF up[s] THEN net[s][q] \o msgs ELSE net[s][q]] = pair
      BY <1>1
    <2> QED BY <2>1, <2>2
  <1>6. pair \in [Peers -> Seq(TidyMessages)] /\ pair[Client] = read /\ pair[Server] = answered
    BY <1>1, <1>3, <1>4
  <1> HIDE DEF pair
  <1>7. /\ [net EXCEPT ![s] = pair] \in [Sockets -> [Peers -> Seq(TidyMessages)]]
        /\ \A r \in Sockets, x \in Peers :
              [net EXCEPT ![s] = pair][r][x] = IF r # s THEN net[r][x] ELSE pair[x]
    BY <1>1, <1>6
  <1> QED BY <1>1, <1>5, <1>6, <1>7

(* The handshake takes the first message of what the client writes. *)
LEMMA FlowsAnswered ==
    ASSUME TypeOK, Flows(Client), Reaches(Client),
           net[socket[Client]][Client] \in Seq(PlainMessages),
           net[socket[Client]][Client] # <<>>,
           net'[socket[Client]][Client] = Tail(net[socket[Client]][Client]),
           socket'[Client] = socket[Client], writerData'[Client] = writerData[Client],
           up'[socket[Client]] = up[socket[Client]],
           isReconnecting'[Client] = isReconnecting[Client],
           UNCHANGED <<outgoingMsgId, incomingMsgId>>
    PROVE  Flows(Client)'
  <1> DEFINE s == socket[Client]
             wire == net[s][Client]
             rest == IF up[s] THEN writerData[Client] ELSE <<>>
             n == incomingMsgId[Server]
             stream == wire \o rest
  <1>1. /\ rest \in Seq(ProtocolMessage) /\ wire \in Seq(ProtocolMessage)
        /\ Stream(Client) = wire \o rest /\ Stream(Client)' = Tail(wire) \o rest
        /\ n \in Nat /\ wire # <<>> /\ outgoingMsgId[Client] \in Nat /\ Other(Client) = Server
    <2>1. /\ Stream(Client) = wire \o rest /\ Stream(Client)' = Tail(wire) \o rest
      BY DEF Stream
    <2>2. /\ wire \in Seq(ProtocolMessage) /\ writerData[Client] \in Seq(ProtocolMessage)
          /\ n \in Nat /\ outgoingMsgId[Client] \in Nat /\ Other(Client) = Server
      BY ThePeers, StreamTypes
    <2>3. rest \in Seq(ProtocolMessage)
      BY <2>2, NothingIsGapless
    <2> QED BY <2>1, <2>2, <2>3
  <1>2. Head(wire).id = 0
    <2>1. wire \in Seq(PlainMessages) /\ wire # <<>>
      OBVIOUS
    <2>2. Head(wire) \in PlainMessages
      BY <2>1, HeadTailProperties
    <2> QED BY <2>2 DEF PlainMessages, TidyMessages
  <1>3. /\ Gapless(stream, n)
        /\ up[s] /\ ~isReconnecting[Client] => HasLatest(stream, outgoingMsgId[Client], n)
    BY <1>1 DEF Flows
  <1> HIDE DEF wire, rest, n
  <1>4. /\ Tail(stream) = Tail(wire) \o rest /\ Head(stream) = Head(wire) /\ stream # <<>>
        /\ stream \in Seq(ProtocolMessage)
    BY <1>1, TailOfConcat, ConcatProperties
  <1> HIDE DEF stream
  <1>5. Gapless(Tail(stream), n)
    BY <1>1, <1>2, <1>3, <1>4, GaplessRead
  <1>6. HasLatest(stream, outgoingMsgId[Client], n) =>
            HasLatest(Tail(stream), outgoingMsgId[Client], n)
    BY <1>1, <1>2, <1>4, LatestRead
  <1> QED BY <1>1, <1>3, <1>4, <1>5, <1>6 DEF Flows, n

(* The handshake of the server on a socket it has not taken. *)
LEMMA HandshakeKeeps ==
    ASSUME IInv, SocketInv, NEW s \in Sockets, serverState[s] # "Done", HandshakeReadable(s),
           NEW msgs \in {<<>>, <<Control("sign")>>, <<Plain("Pause"), Control("ok")>>},
           net' = HandshakeReply(s, msgs), UNCHANGED handshakeUnchanged,
           NEW state, state # "Done", serverState' = [serverState EXCEPT ![s] = state]
    PROVE  SocketInv'
  <1>0. /\ TypeOK /\ NothingIsReplayed /\ HandOverIsQuiet /\ SocketsInOrder /\ HandshakesReadPlain
        /\ RestIsGapless /\ Flows(Client) /\ Flows(Server)
        /\ Client \in Peers /\ Server \in Peers /\ Client # Server
        /\ Other(Client) = Server /\ Other(Server) = Client
    BY ThePeers DEF IInv, SocketInv
  <1>1. /\ net[s][Client] # <<>> /\ s <= lastSocket /\ lastSocket \in Nat /\ s \in Nat
        /\ lastSocket \in Sockets /\ socket[Server] \in Sockets /\ socket[Client] = lastSocket
        /\ incomingMsgId[Client] \in Nat /\ incomingMsgId[Server] \in Nat
    BY <1>0 DEF HandshakeReadable, TypeOK, Sockets, SocketsInOrder
  <1>2. UNCHANGED <<socket, up, lastSocket, isPaused, incomingMsgId, outgoingMsgId,
                    outgoingUnackMsg, isReconnecting, writerData, clientState>>
    BY DEF handshakeUnchanged, sendVars, recvVars, writerVars
  <1>3. msgs \in Seq(HandshakeMessages) /\ msgs \in Seq(TidyMessages)
    <2>1. Control("sign") \in HandshakeMessages /\ Control("ok") \in HandshakeMessages
          /\ Plain("Pause") \in HandshakeMessages
      <3>1. Control("sign") \in ProtocolMessage /\ Control("ok") \in ProtocolMessage
            /\ Plain("Pause") \in ProtocolMessage
        BY MessageTypes DEF ProtocolMessageType, ControlData
      <3> QED BY <3>1 DEF HandshakeMessages, PlainMessages, TidyMessages, Control, Plain, Msg
    <2>2. <<>> \in Seq(HandshakeMessages)
      BY NothingIsGapless
    <2>3. <<Control("sign")>> \in Seq(HandshakeMessages)
          /\ <<Plain("Pause"), Control("ok")>> \in Seq(HandshakeMessages)
      BY <2>1
    <2>4. HandshakeMessages \subseteq TidyMessages
      BY DEF HandshakeMessages, PlainMessages
    <2>5. msgs \in Seq(HandshakeMessages)
      BY <2>2, <2>3, Zenon
    <2> QED BY <2>4, <2>5, SeqMonotonic
  <1>4. /\ net' \in [Sockets -> [Peers -> Seq(TidyMessages)]]
        /\ \A r \in Sockets, x \in Peers :
              net'[r][x] = IF r # s THEN net[r][x]
                           ELSE IF x = Client THEN Tail(net[s][Client])
                           ELSE IF up[s] THEN net[s][x] \o msgs ELSE net[s][x]
    BY <1>0, <1>1, <1>3, Replied
  <1>5. \A r \in Sockets : /\ serverState'[r] # "Done" <=> serverState[r] # "Done"
                           /\ r # s => serverState'[r] = serverState[r]
    BY <1>0 DEF TypeOK
  <1>6. socket[Server] # s
    BY <1>0 DEF SocketsInOrder
  <1>7. NothingIsReplayed'
    BY <1>0, <1>2, <1>4 DEF NothingIsReplayed
  <1>8. SocketsInOrder'
    <2>1. \A r \in Sockets : r > lastSocket => r # s
      BY <1>1
    <2>2. serverState'[socket[Server]] = "Done"
      BY <1>0, <1>1, <1>5, <1>6 DEF SocketsInOrder
    <2>3. ASSUME NEW r \in Sockets, r > lastSocket
          PROVE  serverState'[r] = "WaitingForAuth" /\ \A x \in Peers : net'[r][x] = <<>>
      <3>1. r # s
        BY <2>1, <2>3
      <3>2. serverState'[r] = serverState[r] /\ \A x \in Peers : net'[r][x] = net[r][x]
        BY <1>4, <1>5, <3>1
      <3> QED BY <1>0, <2>3, <3>2 DEF SocketsInOrder
    <2> QED BY <1>0, <1>2, <2>2, <2>3 DEF SocketsInOrder
  <1>9. HandOverIsQuiet'
    <2> DEFINE wire == net[lastSocket][Server]
    <2> SUFFICES ASSUME serverState[lastSocket] # "Done"
                 PROVE  /\ net'[lastSocket][Server] \in Seq(HandshakeMessages)
                        /\ PauseIsFirst(wire) => PauseIsFirst(net'[lastSocket][Server])
      BY <1>0, <1>1, <1>2, <1>5 DEF HandOverIsQuiet
    <2>1. wire \in Seq(HandshakeMessages) /\ wire \in Seq(ProtocolMessage)
      BY <1>0, <1>1 DEF HandOverIsQuiet, TypeOK
    <2>2. net'[lastSocket][Server] = wire \/ net'[lastSocket][Server] = wire \o msgs
      <3>1. CASE lastSocket # s
        BY <1>0, <1>1, <1>4, <3>1
      <3>2. CASE lastSocket = s
        <4>1. net'[s][Server] = IF up[s] THEN net[s][Server] \o msgs ELSE net[s][Server]
          BY <1>0, <1>4, Zenon
        <4> QED BY <3>2, <4>1
      <3> QED BY <3>1, <3>2
    <2> HIDE DEF wire
    <2>3. wire \o msgs \in Seq(HandshakeMessages)
      BY <1>3, <2>1, ConcatProperties
    <2>4. PauseIsFirst(wire) => PauseIsFirst(wire \o msgs)
      BY <2>1, PauseIsFirstReply
    <2> QED BY <2>1, <2>2, <2>3, <2>4
  <1>10. HandshakesReadPlain'
    <2> SUFFICES ASSUME NEW r \in Sockets, serverState[r] # "Done"
                 PROVE  net'[r][Client] \in Seq(PlainMessages)
      BY <1>5 DEF HandshakesReadPlain
    <2> DEFINE wire == net[r][Client]
    <2>1. wire \in Seq(PlainMessages)
      BY <1>0 DEF HandshakesReadPlain
    <2>2. net'[r][Client] = wire \/ (net'[r][Client] = Tail(wire) /\ wire # <<>>)
      BY <1>0, <1>1, <1>4
    <2> HIDE DEF wire
    <2>3. wire # <<>> => Tail(wire) \in Seq(PlainMessages)
      BY <2>1, HeadTailProperties
    <2> QED BY <2>1, <2>2, <2>3
  <1>11. RestIsGapless'
    <2> SUFFICES ASSUME socket[Client] # socket[Server]
                 PROVE  /\ Gapless(Readable(Client)', incomingMsgId[Client])
                        /\ Gapless(Readable(Server)', incomingMsgId[Server])
      BY <1>2, ThePeers DEF RestIsGapless
    <2>1. Readable(Server)' = Readable(Server)
      BY <1>0, <1>1, <1>2, <1>4, <1>6 DEF Readable
    <2>2. CASE s = lastSocket
      <3> DEFINE wire == net'[lastSocket][Server]
      <3>1. wire \in Seq(HandshakeMessages) /\ Readable(Client)' = wire
        BY <1>0, <1>1, <1>2, <1>5, <1>9, <2>2 DEF HandOverIsQuiet, Readable
      <3> HIDE DEF wire
      <3>2. HandshakeMessages \subseteq PlainMessages
        BY DEF HandshakeMessages
      <3>3. wire \in Seq(PlainMessages)
        BY <3>1, <3>2, SeqMonotonic
      <3>4. Gapless(wire, incomingMsgId[Client])
        BY <1>1, <3>3, GaplessPlain
      <3> QED BY <1>0, <2>1, <3>1, <3>4 DEF RestIsGapless
    <2>3. CASE s # lastSocket
      <3>1. Readable(Client)' = Readable(Client)
        BY <1>0, <1>1, <1>2, <1>4, <2>3 DEF Readable
      <3> QED BY <1>0, <2>1, <3>1 DEF RestIsGapless
    <2> QED BY <2>2, <2>3
  <1>12. Flows(Server)'
    <2>1. Stream(Server)' = Stream(Server)
      BY <1>0, <1>1, <1>2, <1>4, <1>6 DEF Stream
    <2>2. Reaches(Server)' => Reaches(Server)
      BY <1>0, <1>2 DEF Reaches
    <2> QED BY <1>0, <1>1, <1>2, <2>1, <2>2, FlowsStay
  <1>13. Flows(Client)'
    <2>1. CASE s # lastSocket
      <3>1. Stream(Client)' = Stream(Client)
        BY <1>0, <1>1, <1>2, <1>4, <2>1 DEF Stream
      <3>2. Reaches(Client)' => Reaches(Client)
        BY <1>0, <1>1, <1>2, <1>5 DEF Reaches
      <3> QED BY <1>0, <1>1, <1>2, <3>1, <3>2, FlowsStay
    <2>2. CASE s = lastSocket
      <3>1. Reaches(Client)
        BY <2>2 DEF Reaches
      <3>2. net[s][Client] \in Seq(PlainMessages) /\ net'[s][Client] = Tail(net[s][Client])
        BY <1>0, <1>4 DEF HandshakesReadPlain
      <3> QED BY <1>0, <1>1, <1>2, <2>2, <3>1, <3>2, FlowsAnswered
    <2> QED BY <2>1, <2>2
  <1> QED
    <2>1. \A q \in Peers : Flows(q)'
      BY <1>12, <1>13, ThePeers
    <2> QED BY <1>7, <1>8, <1>9, <1>10, <1>11, <2>1 DEF SocketInv

LEMMA HandshakesKeep ==
    ASSUME IInv, SocketInv, NEW s \in Sockets,
           \/ HandshakeAuth(s) \/ HandshakeIgnore(s) \/ HandOver(s)
    PROVE  SocketInv'
  <1>0. serverState \in [Sockets ->
            {"WaitingForAuth", "WaitingForConnectionType", "HandedOver", "Done"}]
    BY DEF IInv, TypeOK
  <1>1. CASE HandshakeAuth(s)
    BY <1>1, HandshakeKeeps DEF HandshakeAuth, HandshakeRead
  <1>2. CASE HandshakeIgnore(s)
    <2>1. serverState' = [serverState EXCEPT ![s] = serverState[s]]
      BY <1>0, <1>2 DEF HandshakeIgnore
    <2> QED BY <1>2, <2>1, HandshakeKeeps DEF HandshakeIgnore
  <1>3. CASE HandOver(s)
    BY <1>3, HandshakeKeeps DEF HandOver, HandshakeRead
  <1> QED BY <1>1, <1>2, <1>3

(* The server takes socket s, whose handshake carries links by then. *)
LEMMA AcceptKeeps ==
    ASSUME IInv, SocketInv, NEW s \in Sockets,
           serverState[s] \notin {"Done", "WaitingForAuth"},
           serverState' = [serverState EXCEPT ![s] = "Done"],
           NEW links \in [Sockets -> [Peers -> Seq(TidyMessages)]],
           \A r \in Sockets, x \in Peers : r # s => links[r][x] = net[r][x],
           \/ links[s][Client] = net[s][Client]
           \/ net[s][Client] # <<>> /\ links[s][Client] = Tail(net[s][Client]),
           net[s][Server] \in Seq(PlainMessages) => links[s][Server] \in Seq(PlainMessages),
           BeginAcceptReconnection(Server, s, <<>>, links),
           UNCHANGED serverBeginUnchanged
    PROVE  SocketInv'
  <1> DEFINE old == socket[Server]
             flushed == Flushed(Server, links)
  <1>0. /\ TypeOK /\ NothingIsReplayed /\ HandOverIsQuiet /\ SocketsInOrder /\ HandshakesReadPlain
        /\ RestIsGapless /\ Flows(Client) /\ Flows(Server)
        /\ Client \in Peers /\ Server \in Peers /\ Client # Server
        /\ Other(Client) = Server /\ Other(Server) = Client
    BY ThePeers DEF IInv, SocketInv
  <1>1. /\ lastSocket \in Sockets /\ old \in Sockets /\ socket[Client] = lastSocket
        /\ incomingMsgId[Client] \in Nat /\ incomingMsgId[Server] \in Nat
        /\ s # old /\ ~(s > lastSocket) /\ serverState[s] # "Done" /\ serverState[old] = "Done"
    BY <1>0 DEF TypeOK, SocketsInOrder
  <1>2. UNCHANGED <<outgoingUnackMsg, outgoingMsgId, incomingMsgId, lastSocket, clientState>>
    BY DEF serverBeginUnchanged, sendVars, recvVars
  <1>3. /\ \E left \in Prefixes(flushed) : \A r \in Sockets, x \in Peers :
              net'[r][x] = IF r # old THEN links[r][x] ELSE IF x = Server THEN left ELSE <<>>
        /\ net' \in [Sockets -> [Peers -> Seq(TidyMessages)]]
        /\ writerData' \in [Peers -> Seq(TidyMessages)]
        /\ writerData'[Server] = <<>> /\ socket'[Server] = s
        /\ isReconnecting'[Server] /\ ~isPaused'[Server]
        /\ \A x \in Peers : x # Server =>
              /\ writerData'[x] = writerData[x] /\ socket'[x] = socket[x]
              /\ isReconnecting'[x] = isReconnecting[x] /\ isPaused'[x] = isPaused[x]
        /\ \A r \in Sockets : up'[r] = (up[r] /\ r # old)
    <2>1. Leaving(Server, s, <<>>, links)
      BY <1>0, NothingIsGapless, Leaves
    <2> QED BY <2>1, Zenon DEF Leaving
  <1>4. PICK left \in Prefixes(flushed) : \A r \in Sockets, x \in Peers :
              net'[r][x] = IF r # old THEN links[r][x] ELSE IF x = Server THEN left ELSE <<>>
    BY <1>3
  <1>5. /\ writerData'[Client] = writerData[Client] /\ socket'[Client] = socket[Client]
        /\ isReconnecting'[Client] = isReconnecting[Client]
        /\ isPaused'[Client] = isPaused[Client]
    BY <1>0, <1>3
  <1>6. \A r \in Sockets, x \in Peers : r # s /\ r # old => net'[r][x] = net[r][x]
    BY <1>4
  <1>7. net'[s][Client] = links[s][Client] /\ net'[s][Server] = links[s][Server]
    BY <1>0, <1>1, <1>4
  <1>8. \A r \in Sockets : /\ serverState'[r] # "Done" => r # s /\ r # old
                           /\ r # s => serverState'[r] = serverState[r]
                           /\ r = s => serverState'[r] = "Done"
    BY <1>0, <1>1 DEF TypeOK
  <1>8a. \A r \in Sockets : r # old => up'[r] = up[r]
    <2>1. up' = [up EXCEPT ![old] = FALSE]
      BY DEF BeginAcceptReconnection, CloseOldSocket
    <2> QED BY <1>0, <1>1, <2>1 DEF TypeOK
  <1>9. NothingIsReplayed'
    BY <1>0, <1>2, <1>3 DEF NothingIsReplayed
  <1>10. SocketsInOrder'
    <2>1. ASSUME NEW r \in Sockets, r > lastSocket
          PROVE  serverState'[r] = "WaitingForAuth" /\ \A x \in Peers : net'[r][x] = <<>>
      <3>1. r # s /\ r # old
        BY <1>0, <1>1, <2>1 DEF SocketsInOrder
      <3>2. serverState'[r] = serverState[r] /\ \A x \in Peers : net'[r][x] = net[r][x]
        BY <1>6, <1>8, <3>1
      <3> QED BY <1>0, <2>1, <3>2 DEF SocketsInOrder
    <2> QED BY <1>0, <1>1, <1>2, <1>3, <1>5, <1>8, <2>1 DEF SocketsInOrder
  <1>11. HandOverIsQuiet'
    <2> SUFFICES ASSUME serverState'[lastSocket] # "Done"
                 PROVE  serverState[lastSocket] # "Done"
                        /\ net'[lastSocket][Server] = net[lastSocket][Server]
      BY <1>0, <1>2, <1>5 DEF HandOverIsQuiet
    <2> QED BY <1>0, <1>1, <1>6, <1>8
  <1>12. HandshakesReadPlain'
    <2> SUFFICES ASSUME NEW r \in Sockets, serverState'[r] # "Done"
                 PROVE  net'[r][Client] \in Seq(PlainMessages)
      BY DEF HandshakesReadPlain
    <2>1. serverState[r] # "Done" /\ net'[r][Client] = net[r][Client]
      BY <1>0, <1>6, <1>8
    <2> QED BY <1>0, <2>1 DEF HandshakesReadPlain
  <1>13. net[s][Client] \in Seq(PlainMessages) /\ net'[s][Client] \in Seq(PlainMessages)
    <2> DEFINE wire == net[s][Client]
    <2>1. wire \in Seq(PlainMessages)
      BY <1>0, <1>1 DEF HandshakesReadPlain
    <2>2. net'[s][Client] = wire \/ (net'[s][Client] = Tail(wire) /\ wire # <<>>)
      BY <1>7
    <2> HIDE DEF wire
    <2>3. wire # <<>> => Tail(wire) \in Seq(PlainMessages)
      BY <2>1, HeadTailProperties
    <2> QED BY <2>1, <2>2, <2>3 DEF wire
  <1>14. RestIsGapless'
    <2> SUFFICES ASSUME lastSocket # s
                 PROVE  /\ Gapless(Readable(Client)', incomingMsgId[Client])
                        /\ Gapless(Readable(Server)', incomingMsgId[Server])
      BY <1>1, <1>2, <1>3, <1>5, ThePeers DEF RestIsGapless
    <2>1. Gapless(Readable(Server)', incomingMsgId[Server])
      <3>1. Readable(Server)' = net'[s][Client]
        BY <1>0, <1>3 DEF Readable
      <3> QED BY <1>1, <1>13, <3>1, GaplessPlain
    <2>2. Readable(Client)' = net'[lastSocket][Server]
      BY <1>0, <1>1, <1>5 DEF Readable
    <2>3. CASE lastSocket # old
      <3>1. Readable(Client)' = Readable(Client)
        BY <1>0, <1>1, <1>6, <2>2, <2>3 DEF Readable
      <3> QED BY <1>0, <1>1, <2>1, <2>3, <3>1 DEF RestIsGapless
    <2>4. CASE lastSocket = old
      <3>1. Readable(Client)' = left
        BY <1>0, <1>1, <1>4, <2>2, <2>4
      <3>2. Reaches(Server)
        BY <1>1, <2>4 DEF Reaches
      <3>3. Gapless(net[old][Server], incomingMsgId[Client])
            /\ net[old][Server] \in Seq(ProtocolMessage)
        BY <1>0, <3>2, WireIsGapless
      <3>4. up[old] => Gapless(net[old][Server] \o writerData[Server], incomingMsgId[Client])
                       /\ net[old][Server] \o writerData[Server] \in Seq(ProtocolMessage)
        <4>1. Stream(Server) \in Seq(ProtocolMessage)
          BY <1>0, StreamTypes
        <4> QED BY <1>0, <3>2, <4>1 DEF Flows, Stream
      <3>5. links[old][Server] = net[old][Server]
        BY <1>0, <1>1
      <3>6. Gapless(flushed, incomingMsgId[Client]) /\ flushed \in Seq(ProtocolMessage)
        BY <3>3, <3>4, <3>5 DEF Flushed
      <3> HIDE DEF flushed
      <3>7. Gapless(left, incomingMsgId[Client])
        BY <1>1, <3>6, GaplessPrefix
      <3> QED BY <2>1, <3>1, <3>7
    <2> QED BY <2>3, <2>4
  <1>15. Flows(Server)'
    <2> SUFFICES ASSUME lastSocket = s
                 PROVE  Flows(Server)'
      BY <1>0, <1>1, <1>3, <1>5 DEF Flows, Reaches
    <2>1. links[s][Server] \in Seq(PlainMessages)
      <3>1. net[s][Server] \in Seq(HandshakeMessages)
        BY <1>0, <1>1 DEF HandOverIsQuiet
      <3>2. HandshakeMessages \subseteq PlainMessages
        BY DEF HandshakeMessages
      <3> QED BY <3>1, <3>2, SeqMonotonic
    <2>2. Stream(Server)' = links[s][Server] \o <<>>
      BY <1>3, <1>7 DEF Stream
    <2>3. Stream(Server)' \in Seq(PlainMessages)
      BY <2>1, <2>2, ConcatEmptySeq
    <2> QED BY <1>0, <1>1, <1>2, <1>3, <2>3, FlowsAgain
  <1>16. Flows(Client)'
    <2>1. CASE s = lastSocket
      <3>1. Reaches(Client)
        BY <1>1, <2>1 DEF Reaches
      <3>2. up'[s] = up[s]
        BY <1>1, <1>8a
      <3>3. CASE links[s][Client] = net[s][Client]
        <4>1. Stream(Client)' = Stream(Client)
          BY <1>1, <1>5, <1>7, <2>1, <3>2, <3>3 DEF Stream
        <4>2. up'[socket'[Client]] = up[socket[Client]]
          BY <1>1, <1>5, <2>1, <3>2
        <4>3. up'[socket'[Client]] /\ ~isReconnecting'[Client] =>
                 up[socket[Client]] /\ ~isReconnecting[Client]
          BY <1>5, <4>2, Zenon
        <4>4. /\ outgoingMsgId'[Client] = outgoingMsgId[Client]
              /\ incomingMsgId'[Other(Client)] \in Nat
              /\ incomingMsgId[Other(Client)] <= incomingMsgId'[Other(Client)]
          BY <1>0, <1>1, <1>2
        <4> QED BY <1>0, <3>1, <4>1, <4>3, <4>4, FlowsStay, Zenon
      <3>4. CASE net[s][Client] # <<>> /\ links[s][Client] = Tail(net[s][Client])
        <4>1. /\ net[socket[Client]][Client] \in Seq(PlainMessages)
              /\ net[socket[Client]][Client] # <<>>
              /\ net'[socket[Client]][Client] = Tail(net[socket[Client]][Client])
              /\ up'[socket[Client]] = up[socket[Client]]
          BY <1>1, <1>7, <1>13, <2>1, <3>2, <3>4
        <4> QED BY <1>0, <1>2, <1>5, <3>1, <4>1, FlowsAnswered
      <3> QED BY <3>3, <3>4
    <2>2. CASE s # lastSocket
      <3> SUFFICES ASSUME serverState[lastSocket] # "Done"
                   PROVE  Flows(Client)'
        BY <1>0, <1>1, <1>2, <1>3, <1>5, <1>8, <2>2 DEF Flows, Reaches
      <3>1. Reaches(Client) /\ lastSocket # old
        BY <1>1 DEF Reaches
      <3>2. up'[lastSocket] = up[lastSocket]
        BY <1>1, <1>8a, <3>1
      <3>3. Stream(Client)' = Stream(Client)
        <4>1. net'[lastSocket][Client] = net[lastSocket][Client]
          BY <1>0, <1>1, <1>6, <2>2, <3>1
        <4> QED BY <1>1, <1>5, <3>2, <4>1 DEF Stream
      <3>4. up'[socket'[Client]] = up[socket[Client]]
        BY <1>1, <1>5, <3>2
      <3>5. up'[socket'[Client]] /\ ~isReconnecting'[Client] =>
               up[socket[Client]] /\ ~isReconnecting[Client]
        BY <1>5, <3>4, Zenon
      <3>6. /\ outgoingMsgId'[Client] = outgoingMsgId[Client]
            /\ incomingMsgId'[Other(Client)] \in Nat
            /\ incomingMsgId[Other(Client)] <= incomingMsgId'[Other(Client)]
        BY <1>0, <1>1, <1>2
      <3> QED BY <1>0, <3>1, <3>3, <3>5, <3>6, FlowsStay, Zenon
    <2> QED BY <2>1, <2>2
  <1> QED
    <2>1. \A q \in Peers : Flows(q)'
      BY <1>15, <1>16, ThePeers
    <2> QED BY <1>9, <1>10, <1>11, <1>12, <1>14, <2>1 DEF SocketInv

LEMMA AcceptsKeep ==
    ASSUME IInv, SocketInv, NEW s \in Sockets, AcceptManagement(s) \/ AcceptExtensionHost(s)
    PROVE  SocketInv'
  <1>0. NothingIsReplayed /\ Server # Client /\ Server \in Peers /\ Client \in Peers
    BY ThePeers DEF SocketInv
  <1>1. CASE AcceptManagement(s)
    <2> DEFINE ok == <<Control("ok")>>
               links == HandshakeReply(s, ok)
    <2>1. /\ serverState[s] \notin {"Done", "WaitingForAuth"} /\ net[s][Client] # <<>>
          /\ serverState' = [serverState EXCEPT ![s] = "Done"]
          /\ BeginAcceptReconnection(Server, s, <<>>, links)
          /\ UNCHANGED serverBeginUnchanged
      BY <1>1 DEF AcceptManagement, HandshakeRead, HandshakeReadable
    <2>2. ok \in Seq(PlainMessages) /\ ok \in Seq(TidyMessages)
      BY PlainBuilt, TidyAreMessages DEF ControlData
    <2> HIDE DEF ok
    <2>3. /\ links \in [Sockets -> [Peers -> Seq(TidyMessages)]]
          /\ \A r \in Sockets, x \in Peers :
                links[r][x] = IF r # s THEN net[r][x]
                              ELSE IF x = Client THEN Tail(net[s][Client])
                              ELSE IF up[s] THEN net[s][x] \o ok ELSE net[s][x]
      BY <1>0, <2>1, <2>2, Replied
    <2> HIDE DEF links
    <2>4. /\ links[s][Client] = Tail(net[s][Client])
          /\ links[s][Server] = net[s][Server] \o ok \/ links[s][Server] = net[s][Server]
      BY <1>0, <2>3
    <2>5. net[s][Server] \in Seq(PlainMessages) => links[s][Server] \in Seq(PlainMessages)
      BY <2>2, <2>4, ConcatProperties
    <2> QED BY <2>1, <2>3, <2>4, <2>5, AcceptKeeps
  <1>2. CASE AcceptExtensionHost(s)
    <2>1. /\ serverState[s] \notin {"Done", "WaitingForAuth"}
          /\ serverState' = [serverState EXCEPT ![s] = "Done"]
          /\ BeginAcceptReconnection(Server, s, <<>>, net)
          /\ UNCHANGED serverBeginUnchanged
      BY <1>2 DEF AcceptExtensionHost
    <2> QED BY <1>0, <2>1, AcceptKeeps DEF NothingIsReplayed
  <1> QED BY <1>1, <1>2

(* A socket breaks, and loses the ends of what it carries. *)
LEMMA BreaksKeep ==
    ASSUME IInv, SocketInv, NEW s \in Sockets, SocketBreaks(s)
    PROVE  SocketInv'
  <1>0. /\ TypeOK /\ NothingIsReplayed /\ HandOverIsQuiet /\ SocketsInOrder /\ HandshakesReadPlain
        /\ RestIsGapless /\ \A q \in Peers : Flows(q)
        /\ Client \in Peers /\ Server \in Peers /\ Client # Server
    BY ThePeers DEF IInv, SocketInv
  <1>1. /\ UNCHANGED <<socket, lastSocket, isPaused, incomingMsgId, outgoingMsgId, serverState,
                       outgoingUnackMsg, isReconnecting, writerData, clientState>>
        /\ s <= lastSocket /\ lastSocket \in Nat /\ s \in Nat
        /\ lastSocket \in Sockets
        /\ socket \in [Peers -> Sockets] /\ incomingMsgId \in [Peers -> Nat]
    <2>1. /\ UNCHANGED <<socket, lastSocket, isPaused, incomingMsgId, outgoingMsgId, serverState,
                         outgoingUnackMsg, isReconnecting, writerData, clientState>>
          /\ s <= lastSocket
      BY DEF SocketBreaks, sendVars, recvVars, writerVars, handshakeVars
    <2>2. lastSocket \in Sockets /\ socket \in [Peers -> Sockets] /\ incomingMsgId \in [Peers -> Nat]
      BY <1>0 DEF TypeOK
    <2>3. lastSocket \in Nat /\ s \in Nat
      BY <2>2 DEF Sockets
    <2> QED BY <2>1, <2>2, <2>3
  <1>2. \A r \in Sockets : IF r = s THEN ~up'[r] ELSE up'[r] = up[r]
    BY <1>0 DEF SocketBreaks, TypeOK
  <1>3. PICK c \in Prefixes(net[s][Client]), d \in Prefixes(net[s][Server]) :
            net' = [net EXCEPT ![s][Client] = c, ![s][Server] = d]
    BY DEF SocketBreaks
  <1>4. \A r \in Sockets, x \in Peers :
            net'[r][x] = IF r # s THEN net[r][x] ELSE IF x = Client THEN c ELSE d
    <2>1. \A x \in Peers : x = Client \/ x = Server
      BY ThePeers
    <2>2. net \in [Sockets -> [Peers -> Seq(ProtocolMessage)]]
      BY <1>0 DEF TypeOK
    <2> QED BY <1>0, <1>3, <2>1, <2>2
  <1>5. \A r \in Sockets, x \in Peers :
            net'[r][x] \in Prefixes(net[r][x]) /\ (r # s => net'[r][x] = net[r][x])
    <2> SUFFICES ASSUME NEW r \in Sockets, NEW x \in Peers
                 PROVE  net'[r][x] \in Prefixes(net[r][x])
      BY <1>4
    <2>1. net[r][x] \in Seq(ProtocolMessage)
      BY <1>0 DEF TypeOK
    <2>2. net[r][x] \in Prefixes(net[r][x])
      BY <2>1, WholeIsPrefix
    <2> QED BY <1>0, <1>3, <1>4, <2>2, ThePeers
  <1>6. NothingIsReplayed'
    <2>1. c \in Seq(TidyMessages) /\ d \in Seq(TidyMessages)
      BY <1>0, <1>3, PrefixOfSeq DEF NothingIsReplayed
    <2> DEFINE pair == [net[s] EXCEPT ![Client] = c, ![Server] = d]
    <2>2. net' = [net EXCEPT ![s] = pair] /\ pair \in [Peers -> Seq(TidyMessages)]
      BY <1>0, <1>3, <2>1 DEF NothingIsReplayed
    <2> HIDE DEF pair
    <2>3. net' \in [Sockets -> [Peers -> Seq(TidyMessages)]]
      BY <1>0, <2>2 DEF NothingIsReplayed
    <2> QED BY <1>0, <1>1, <2>3 DEF NothingIsReplayed
  <1>7. SocketsInOrder'
    <2>1. \A r \in Sockets : r > lastSocket => r # s
      BY <1>1
    <2> QED BY <1>0, <1>1, <1>5, <2>1 DEF SocketsInOrder
  <1>8. HandOverIsQuiet'
    <2> DEFINE wire == net[lastSocket][Server]
               rest == net'[lastSocket][Server]
    <2>1. wire \in Seq(ProtocolMessage) /\ rest \in Prefixes(wire)
      BY <1>0, <1>1, <1>5 DEF TypeOK
    <2> HIDE DEF wire, rest
    <2>2. wire \in Seq(HandshakeMessages) => rest \in Seq(HandshakeMessages)
      BY <2>1, PrefixOfSeq
    <2>3. PauseIsFirst(wire) => PauseIsFirst(rest)
      BY <2>1, PauseIsFirstPrefix
    <2> QED BY <1>0, <1>1, <2>2, <2>3 DEF HandOverIsQuiet, wire, rest
  <1>9. HandshakesReadPlain'
    <2> SUFFICES ASSUME NEW r \in Sockets, serverState[r] # "Done"
                 PROVE  net'[r][Client] \in Seq(PlainMessages)
      BY <1>1 DEF HandshakesReadPlain
    <2>1. net[r][Client] \in Seq(PlainMessages) /\ net'[r][Client] \in Prefixes(net[r][Client])
      BY <1>0, <1>5 DEF HandshakesReadPlain
    <2> QED BY <2>1, PrefixOfSeq
  <1>10. RestIsGapless'
    <2> SUFFICES ASSUME socket[Client] # socket[Server], NEW x \in Peers
                 PROVE  Gapless(Readable(x)', incomingMsgId[x])
      BY <1>1 DEF RestIsGapless
    <2> DEFINE wire == Readable(x)
               rest == Readable(x)'
               n == incomingMsgId[x]
    <2>1. wire \in Seq(ProtocolMessage) /\ rest \in Prefixes(wire) /\ n \in Nat
      BY <1>0, <1>1, <1>5, OtherPeer DEF Readable, TypeOK
    <2>2. Gapless(wire, n)
      BY <1>0 DEF RestIsGapless
    <2> HIDE DEF wire, rest, n
    <2>3. Gapless(rest, n)
      BY <2>1, <2>2, GaplessPrefix
    <2> QED BY <2>3 DEF rest, n
  <1>11. ASSUME NEW q \in Peers
         PROVE  Flows(q)'
    <2>0. Reaches(q)' <=> Reaches(q)
      BY <1>1 DEF Reaches
    <2>1. CASE socket[q] # s
      <3>1. up'[socket[q]] = up[socket[q]] /\ net'[socket[q]][q] = net[socket[q]][q]
        BY <1>1, <1>2, <1>5, <2>1
      <3>2. Stream(q)' = Stream(q)
        BY <1>1, <3>1 DEF Stream
      <3>3. up'[socket'[q]] /\ ~isReconnecting'[q] => up[socket[q]] /\ ~isReconnecting[q]
        BY <1>1, <3>1, Zenon
      <3>4. /\ outgoingMsgId'[q] = outgoingMsgId[q] /\ incomingMsgId'[Other(q)] \in Nat
            /\ incomingMsgId[Other(q)] <= incomingMsgId'[Other(q)]
        BY <1>1, OtherPeer
      <3> QED BY <1>0, <2>0, <3>2, <3>3, <3>4, FlowsStay, Zenon
    <2>2. CASE socket[q] = s
      <3> SUFFICES ASSUME Reaches(q)
                   PROVE  Flows(q)'
        BY <2>0 DEF Flows
      <3> DEFINE wire == net[s][q]
                 rest == net'[s][q]
                 n == incomingMsgId[Other(q)]
      <3>1. /\ Gapless(wire, n) /\ wire \in Seq(ProtocolMessage) /\ n \in Nat
        BY <1>0, <2>2, WireIsGapless
      <3>2. rest \in Prefixes(wire)
        BY <1>5
      <3>3. ~up'[socket'[q]] /\ Stream(q)' = rest \o <<>>
        BY <1>1, <1>2, <2>2 DEF Stream
      <3> HIDE DEF wire, rest, n
      <3>4. rest \in Seq(ProtocolMessage)
        BY <3>1, <3>2, PrefixOfSeq
      <3>5. Stream(q)' = rest
        BY <3>3, <3>4, ConcatEmptySeq
      <3>6. Gapless(rest, n)
        BY <3>1, <3>2, GaplessPrefix
      <3>7. incomingMsgId'[Other(q)] = n
        BY <1>1 DEF n
      <3> QED BY <3>3, <3>5, <3>6, <3>7 DEF Flows
    <2> QED BY <2>1, <2>2
  <1> QED BY <1>6, <1>7, <1>8, <1>9, <1>10, <1>11 DEF SocketInv

LEMMA SocketsInitially == Init => SocketInv
  <1> SUFFICES ASSUME Init PROVE SocketInv
    OBVIOUS
  <1>0. /\ TypeOK /\ \A S : <<>> \in Seq(S)
        /\ 1 \in Sockets /\ \A s \in Sockets : s \in Nat
    BY InvariantInitially, NothingIsGapless, BoundsAssumption DEF IInv, Sockets
  <1>1. \A q \in Peers : net[socket[q]][q] = <<>> /\ writerData[q] = <<>> /\ Readable(q) = <<>>
    BY <1>0, OtherPeer DEF Init, Readable
  <1>2. NothingIsReplayed /\ HandshakesReadPlain
    BY <1>0, ThePeers DEF Init, NothingIsReplayed, HandshakesReadPlain
  <1>3. SocketsInOrder
    BY <1>0, ThePeers DEF Init, SocketsInOrder
  <1>4. HandOverIsQuiet /\ RestIsGapless
    BY <1>0, ThePeers DEF Init, HandOverIsQuiet, RestIsGapless
  <1>5. ASSUME NEW q \in Peers
        PROVE  Flows(q)
    <2>1. Stream(q) = <<>>
      <3>1. Stream(q) = <<>> \o <<>>
        BY <1>1 DEF Stream
      <3> QED BY <1>0, <3>1, ConcatEmptySeq
    <2>2. incomingMsgId[Other(q)] = 0 /\ outgoingMsgId[q] = 0
      BY OtherPeer DEF Init
    <2> QED BY <2>1, <2>2, NothingIsGapless DEF Flows, HasLatest
  <1> QED BY <1>2, <1>3, <1>4, <1>5 DEF SocketInv

(* A socket that loses a message in mid-stream would break it. *)
LEMMA SocketsAreKept ==
    ASSUME ~LossyLink, IInv, SocketInv, [Next]_vars
    PROVE  SocketInv'
  <1>1. ASSUME NEW p \in Peers, PeerStep(p)
        PROVE  SocketInv'
    BY <1>1, SendKeeps, TimersKeep, FlushKeeps, ReadsKeep DEF PeerStep
  <1>2. CASE ClientStep
    BY <1>2, HandshakeReadsKeep, ClientBeginKeeps, EndsKeep DEF ClientStep
  <1>3. ASSUME NEW s \in Sockets, ServerStep(s)
        PROVE  SocketInv'
    BY <1>3, HandshakesKeep, AcceptsKeep DEF ServerStep
  <1>4. CASE ServerEnd
    BY <1>4, EndsKeep
  <1>5. ASSUME NEW s \in Sockets, Environment(s)
        PROVE  SocketInv'
    BY <1>5, BreaksKeep DEF Environment, MessageLost
  <1>6. CASE UNCHANGED vars
    BY <1>6 DEF vars, sendVars, recvVars, timerVars, writerVars, netVars, handshakeVars,
       SocketInv, NothingIsReplayed, SocketsInOrder, HandOverIsQuiet, HandshakesReadPlain,
       RestIsGapless, Readable, Flows, Reaches, Stream
  <1> QED BY <1>1, <1>2, <1>3, <1>4, <1>5, <1>6 DEF Next

LEMMA SocketsReadable ==
    ASSUME IInv, SocketInv
    PROVE  SocketsAreReadable
  <1>1. ASSUME NEW p \in Peers, Readable(p) # <<>>
        PROVE  Head(Readable(p)).id <= incomingMsgId[p] + 1
    <2> DEFINE wire == Readable(p)
    <2>1. wire \in Seq(ProtocolMessage) /\ Gapless(wire, incomingMsgId[p])
      BY ReadableIsGapless
    <2>2. Len(wire) \in Nat \ {0} /\ Head(wire) = wire[1]
      BY <1>1, <2>1, EmptySeq
    <2> QED BY <2>1, <2>2 DEF Gapless
  <1>2. ASSUME NEW s \in Sockets, serverState[s] # "Done", NEW i \in 1 .. Len(net[s][Client])
        PROVE  net[s][Client][i].type # "Regular"
    <2>1. net[s][Client] \in Seq(PlainMessages)
      BY <1>2 DEF SocketInv, HandshakesReadPlain
    <2>2. net[s][Client][i] \in PlainMessages
      BY <2>1, ElementOfSeq
    <2> QED BY <2>2 DEF PlainMessages
  <1> QED BY <1>1, <1>2 DEF SocketsAreReadable, NoGap, NoRegularInHandOver

(* While its sockets lose nothing in mid-stream, whatever tails they lose   *)
(* and however often the client leaves one for another, the protocol reads  *)
(* no number beyond the next and the handshake no regular message.          *)
THEOREM SocketsStayReadable ==
    ASSUME ~LossyLink
    PROVE  Spec => []SocketsAreReadable
  <1>1. Spec => []IInv
    BY InvariantHolds
  <1>2. Init => SocketInv
    BY SocketsInitially
  <1>3. IInv /\ SocketInv /\ [Next]_vars => SocketInv'
    BY SocketsAreKept
  <1>4. IInv /\ SocketInv => SocketsAreReadable
    BY SocketsReadable
  <1> QED BY <1>1, <1>2, <1>3, <1>4, PTL DEF Spec
=============================================================================
