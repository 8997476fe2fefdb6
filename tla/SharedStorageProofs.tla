------------------------ MODULE SharedStorageProofs ------------------------
(* Theorems about SharedStorage, for all windows, keys and values. *)
EXTENDS SharedStorage, TLAPS

-----------------------------------------------------------------------------
(* Updates *)

LEMMA NoUpdateType == NoUpdate \in Updates
  BY DEF NoUpdate, Updates

LEMMA EmptyType == [k \in Keys |-> NoValue] \in Contents
  BY DEF Contents

LEMMA ContentsAreUpdates == Contents \subseteq Updates
  BY DEF Contents, Updates

LEMMA ApplyToContents ==
    ASSUME NEW contents \in Contents, NEW update \in Updates
    PROVE  /\ Apply(contents, update) \in Contents
           /\ \A k \in Keys : Apply(contents, update)[k] =
                 IF update[k] = Nothing THEN contents[k] ELSE update[k]
  BY DEF Apply, Contents, Updates

LEMMA ApplyToUpdates ==
    ASSUME NEW earlier \in Updates, NEW update \in Updates
    PROVE  /\ Apply(earlier, update) \in Updates
           /\ \A k \in Keys : Apply(earlier, update)[k] =
                 IF update[k] = Nothing THEN earlier[k] ELSE update[k]
  BY DEF Apply, Updates

LEMMA ApplyNothing ==
    ASSUME NEW contents \in Updates
    PROVE  Apply(contents, NoUpdate) = contents
  BY DEF Apply, NoUpdate, Updates

(* Applying two updates in turn is applying the second after the first. *)
LEMMA ApplyTwice ==
    ASSUME NEW contents \in Contents, NEW first \in Updates, NEW second \in Updates
    PROVE  Apply(Apply(contents, first), second) = Apply(contents, Apply(first, second))
  BY ValuesAssumption DEF Apply, Contents, Updates

(* Two contents are the same if they agree on every key. *)
LEMMA SameContents ==
    ASSUME NEW a \in Contents, NEW b \in Contents, \A k \in Keys : a[k] = b[k]
    PROVE  a = b
  BY DEF Contents

LEMMA MsgTypes ==
    ASSUME NEW update \in Updates
    PROVE  /\ \A type \in {"getItems", "updateItems"} : Msg(type, update) \in ToMain
           /\ Msg("changed", update) \in ToWindow /\ Msg("updated", NoUpdate) \in ToWindow
           /\ update \in Contents => Msg("items", update) \in ToWindow
  BY DEF Msg, ToMain, ToWindow

LEMMA EffectiveType ==
    ASSUME TypeOK, NEW s \in Stores, NEW update \in Updates
    PROVE  Effective(s, update) \in Updates
  BY DEF Effective, Updates

LEMMA StatementsType ==
    ASSUME TypeOK, NEW kinds
    PROVE  Statements(kinds) \in Updates
  BY StoresAssumption DEF Statements, Updates, TypeOK, Stores

-----------------------------------------------------------------------------
(* Types *)

LEMMA TypesInitially == Init => TypeOK
  <1> SUFFICES ASSUME Init PROVE TypeOK
    OBVIOUS
  <1> DEFINE empty == [k \in Keys |-> NoValue]
  <1>1. /\ cache = [s \in Stores |-> empty]
        /\ pending = [s \in Stores |-> NoUpdate]
        /\ active = [s \in Stores |-> NoUpdate]
        /\ disk = empty /\ uncommitted = NoUpdate
    BY DEF Init
  <1>2. empty \in Contents
    BY EmptyType
  <1> HIDE DEF empty
  <1>3. /\ cache \in [Stores -> Contents]
        /\ pending \in [Stores -> Updates]
        /\ active \in [Stores -> Updates]
        /\ disk \in Contents /\ uncommitted \in Updates
    BY <1>1, <1>2, NoUpdateType
  <1>4. state \in [Stores -> {"None", "Initialized", "Closed", "Disposed"}]
    BY DEF Init
  <1>5. /\ whenFlushed \in [Stores -> BOOLEAN] /\ delayer \in [Stores -> BOOLEAN]
        /\ queued \in [Stores -> BOOLEAN]
        /\ changed \in SUBSET Keys /\ isErroneous \in BOOLEAN /\ writes \in Nat
    BY DEF Init
  <1>6. toMain \in [Windows -> Seq(ToMain)] /\ toWindow \in [Windows -> Seq(ToWindow)]
    BY DEF Init
  <1> QED BY <1>3, <1>4, <1>5, <1>6 DEF TypeOK

(* The parts of actions. *)
LEMMA WriteTypes ==
    ASSUME TypeOK, NEW s \in Stores, NEW update \in Updates, Write(s, update)
    PROVE  /\ cache' \in [Stores -> Contents]
           /\ pending' \in [Stores -> Updates]
           /\ delayer' \in [Stores -> BOOLEAN]
           /\ changed' \in SUBSET Keys
  <1> DEFINE effect == Effective(s, update)
  <1>1. effect \in Updates
    BY EffectiveType
  <1>2. Apply(cache[s], effect) \in Contents /\ Apply(pending[s], effect) \in Updates
    BY <1>1, ApplyToContents, ApplyToUpdates DEF TypeOK
  <1> HIDE DEF effect
  <1>3. /\ cache' = [cache EXCEPT ![s] = Apply(cache[s], effect)]
        /\ pending' = [pending EXCEPT ![s] = Apply(pending[s], effect)]
        /\ delayer' = [delayer EXCEPT ![s] = delayer[s] \/ effect # NoUpdate]
        /\ changed' = IF s = Main THEN changed \cup {k \in Keys : effect[k] # Nothing}
                      ELSE changed
    BY DEF Write, effect
  <1> QED BY <1>2, <1>3 DEF TypeOK

LEMMA FlushPendingTypes ==
    ASSUME TypeOK, NEW s \in Stores, FlushPending(s)
    PROVE  /\ active' \in [Stores -> Updates]
           /\ pending' \in [Stores -> Updates]
           /\ toMain' \in [Windows -> Seq(ToMain)]
  <1>1. pending[s] \in Updates
    BY DEF TypeOK
  <1>2. Msg("updateItems", pending[s]) \in ToMain
    BY <1>1, MsgTypes
  <1>3. CASE s # Main /\ pending[s] # NoUpdate
    <2>1. s \in Windows
      BY <1>3 DEF Stores
    <2>2. toMain' = [toMain EXCEPT ![s] = Append(toMain[s], Msg("updateItems", pending[s]))]
      BY <1>3 DEF FlushPending
    <2>3. Append(toMain[s], Msg("updateItems", pending[s])) \in Seq(ToMain)
      BY <2>1, <1>2 DEF TypeOK
    <2> QED BY <1>1, <2>1, <2>2, <2>3, NoUpdateType DEF FlushPending, TypeOK
  <1>4. CASE ~(s # Main /\ pending[s] # NoUpdate)
    BY <1>1, <1>4, NoUpdateType DEF FlushPending, TypeOK
  <1> QED BY <1>3, <1>4

LEMMA SettleTypes ==
    ASSUME TypeOK, NEW s \in Stores, Settle(s)
    PROVE  /\ whenFlushed' \in [Stores -> BOOLEAN]
           /\ queued' \in [Stores -> BOOLEAN]
           /\ active' \in [Stores -> Updates]
           /\ pending' \in [Stores -> Updates]
           /\ toMain' \in [Windows -> Seq(ToMain)]
  <1>1. CASE queued[s]
    <2>1. FlushPending(s)
      BY <1>1 DEF Settle
    <2> QED BY <1>1, <2>1, FlushPendingTypes DEF Settle, TypeOK
  <1>2. CASE ~queued[s]
    BY <1>2, NoUpdateType DEF Settle, TypeOK
  <1> QED BY <1>1, <1>2

LEMMA FreshWindowTypes ==
    ASSUME TypeOK, NEW w \in Windows, FreshWindow(w)
    PROVE  /\ cache' \in [Stores -> Contents]
           /\ pending' \in [Stores -> Updates]
           /\ whenFlushed' \in [Stores -> BOOLEAN]
           /\ delayer' \in [Stores -> BOOLEAN]
           /\ active' \in [Stores -> Updates]
           /\ queued' \in [Stores -> BOOLEAN]
           /\ toWindow' \in [Windows -> Seq(ToWindow)]
  <1> DEFINE empty == [k \in Keys |-> NoValue]
  <1>1. cache' = [cache EXCEPT ![w] = empty]
    BY DEF FreshWindow
  <1>2. empty \in Contents
    BY EmptyType
  <1> HIDE DEF empty
  <1>3. cache' \in [Stores -> Contents]
    BY <1>1, <1>2 DEF TypeOK
  <1>4. toWindow' \in [Windows -> Seq(ToWindow)]
    BY DEF FreshWindow, TypeOK
  <1> QED BY <1>3, <1>4, NoUpdateType DEF FreshWindow, TypeOK

LEMMA CommitTypes ==
    ASSUME TypeOK, NEW update \in Updates, Commit(update)
    PROVE  disk' \in Contents /\ uncommitted' \in Updates
  BY ApplyToContents, NoUpdateType DEF Commit, TypeOK

LEMMA StoreStepTypes ==
    ASSUME TypeOK, NEW s \in Stores, StoreStep(s)
    PROVE  TypeOK'
  <1>1. ASSUME NEW k \in Keys, NEW v \in Values \cup {NoValue}, Put(s, k, v)
        PROVE  TypeOK'
    <2>1. [NoUpdate EXCEPT ![k] = v] \in Updates
      BY DEF NoUpdate, Updates
    <2>2. Write(s, [NoUpdate EXCEPT ![k] = v])
      BY <1>1 DEF Put
    <2>3. writes' \in Nat
      BY <1>1 DEF Put, TypeOK
    <2>4. UNCHANGED <<state, whenFlushed, active, queued, toMain, toWindow, diskVars>>
      BY <1>1 DEF Put
    <2> QED BY <2>1, <2>2, <2>3, <2>4, WriteTypes DEF TypeOK, diskVars
  <1>2. CASE Flush(s)
    BY <1>2 DEF Flush, TypeOK, channelVars, diskVars
  <1>3. CASE WhenFlushed(s)
    BY <1>3 DEF WhenFlushed, TypeOK, flushVars, channelVars, diskVars
  <1>4. CASE FlushTimer(s)
    <2>1. /\ delayer' = [delayer EXCEPT ![s] = FALSE]
          /\ UNCHANGED <<state, cache, whenFlushed, toWindow, changed, diskVars, writes>>
      BY <1>4 DEF FlushTimer
    <2>2. CASE FlushPending(s) /\ UNCHANGED queued
      BY <2>1, <2>2, FlushPendingTypes DEF TypeOK, diskVars
    <2>3. CASE queued' = [queued EXCEPT ![s] = TRUE] /\ UNCHANGED <<active, pending, toMain>>
      BY <2>1, <2>3 DEF TypeOK, diskVars
    <2> QED BY <1>4, <2>2, <2>3 DEF FlushTimer
  <1>5. CASE Close(s)
    BY <1>5 DEF Close, TypeOK, channelVars, diskVars
  <1> QED BY <1>1, <1>2, <1>3, <1>4, <1>5 DEF StoreStep

LEMMA ReadTypes ==
    ASSUME TypeOK, NEW w \in Windows, NEW type, Read(w, type)
    PROVE  /\ Head(toWindow[w]) \in ToWindow
           /\ Head(toWindow[w]).update \in Updates
           /\ type = "items" => Head(toWindow[w]).update \in Contents
           /\ type = "updated" => Head(toWindow[w]).update = NoUpdate
           /\ toWindow' \in [Windows -> Seq(ToWindow)]
  <1>1. toWindow[w] \in Seq(ToWindow) /\ toWindow[w] # <<>>
    BY DEF Read, TypeOK
  <1>2. Head(toWindow[w]) \in ToWindow /\ Tail(toWindow[w]) \in Seq(ToWindow)
    BY <1>1
  <1>3. toWindow' \in [Windows -> Seq(ToWindow)]
    BY <1>2 DEF Read, TypeOK
  <1> QED BY <1>2, <1>3, ContentsAreUpdates, NoUpdateType DEF Read, ToWindow

LEMMA CalledTypes ==
    ASSUME TypeOK, NEW w \in Windows, NEW type, Called(w, type)
    PROVE  /\ Head(toMain[w]) \in ToMain
           /\ Head(toMain[w]).update \in Updates
           /\ toMain' \in [Windows -> Seq(ToMain)]
  <1>1. toMain[w] \in Seq(ToMain) /\ toMain[w] # <<>>
    BY DEF Called, TypeOK
  <1>2. Head(toMain[w]) \in ToMain /\ Tail(toMain[w]) \in Seq(ToMain)
    BY <1>1
  <1> QED BY <1>2 DEF Called, TypeOK, ToMain

LEMMA SendTypes ==
    ASSUME TypeOK, NEW w \in Windows, NEW msg \in ToWindow, SendTo(w, msg)
    PROVE  toWindow' \in [Windows -> Seq(ToWindow)]
  <1>1. Append(toWindow[w], msg) \in Seq(ToWindow)
    BY DEF TypeOK
  <1> QED BY <1>1 DEF SendTo, TypeOK

LEMMA WindowStepTypes ==
    ASSUME TypeOK, NEW w \in Windows, WindowStep(w)
    PROVE  TypeOK'
  <1>0. w \in Stores /\ Msg("getItems", NoUpdate) \in ToMain
    BY MsgTypes, NoUpdateType DEF Stores
  <1>1. CASE Open(w)
    <2>1. toMain' \in [Windows -> Seq(ToMain)]
      BY <1>0, <1>1 DEF Open, TypeOK
    <2>2. /\ state' \in [Stores -> {"None", "Initialized", "Closed", "Disposed"}]
          /\ FreshWindow(w) /\ UNCHANGED <<changed, diskVars, writes>>
      BY <1>1 DEF Open, TypeOK
    <2> QED BY <2>1, <2>2, FreshWindowTypes DEF TypeOK, diskVars
  <1>2. CASE ReceiveItems(w)
    BY <1>0, <1>2, ReadTypes DEF ReceiveItems, TypeOK, flushVars, diskVars
  <1>3. CASE ReceiveChange(w)
    <2>1. Apply(cache[w], Head(toWindow[w]).update) \in Contents
      BY <1>0, <1>3, ReadTypes, ApplyToContents DEF ReceiveChange, TypeOK
    <2>2. cache' = [cache EXCEPT ![w] = IF state[w] = "Closed" THEN cache[w]
                                        ELSE Apply(cache[w], Head(toWindow[w]).update)]
      BY <1>3 DEF ReceiveChange
    <2>3. cache' \in [Stores -> Contents]
      BY <2>1, <2>2 DEF TypeOK
    <2> QED BY <1>3, <2>3, ReadTypes DEF ReceiveChange, TypeOK, flushVars, diskVars
  <1>4. CASE ReceiveUpdated(w)
    BY <1>0, <1>4, ReadTypes, SettleTypes DEF ReceiveUpdated, TypeOK, diskVars
  <1>5. CASE WindowClosed(w) \/ WindowCrashes(w)
    <2>1. /\ state' = [state EXCEPT ![w] = "None"]
          /\ toMain' = [toMain EXCEPT ![w] = <<>>]
          /\ FreshWindow(w) /\ UNCHANGED <<changed, diskVars, writes>>
      BY <1>5 DEF WindowClosed, WindowCrashes
    <2>2. state' \in [Stores -> {"None", "Initialized", "Closed", "Disposed"}]
      BY <2>1 DEF TypeOK
    <2>3. toMain' \in [Windows -> Seq(ToMain)]
      BY <2>1 DEF TypeOK
    <2> QED BY <2>1, <2>2, <2>3, FreshWindowTypes DEF TypeOK, diskVars
  <1> QED BY <1>1, <1>2, <1>3, <1>4, <1>5 DEF WindowStep

LEMMA MainStepTypes ==
    ASSUME TypeOK, MainStep
    PROVE  TypeOK'
  <1>0. Main \in Stores /\ active[Main] \in Updates /\ cache[Main] \in Contents
    BY DEF Stores, TypeOK
  <1>1. ASSUME NEW w \in Windows, GetItems(w)
        PROVE  TypeOK'
    <2>1. Msg("items", cache[Main]) \in ToWindow
      BY <1>0, MsgTypes, ContentsAreUpdates
    <2>2. toWindow' \in [Windows -> Seq(ToWindow)] /\ toMain' \in [Windows -> Seq(ToMain)]
      BY <1>1, <2>1, SendTypes, CalledTypes DEF GetItems
    <2> QED BY <1>1, <2>2 DEF GetItems, TypeOK, storeVars, flushVars, diskVars
  <1>2. ASSUME NEW w \in Windows, UpdateItems(w)
        PROVE  TypeOK'
    <2>1. Msg("updated", NoUpdate) \in ToWindow
      BY MsgTypes, NoUpdateType
    <2>2. toWindow' \in [Windows -> Seq(ToWindow)] /\ toMain' \in [Windows -> Seq(ToMain)]
      BY <1>2, <2>1, SendTypes, CalledTypes DEF UpdateItems
    <2>3. /\ cache' \in [Stores -> Contents] /\ pending' \in [Stores -> Updates]
          /\ delayer' \in [Stores -> BOOLEAN] /\ changed' \in SUBSET Keys
      BY <1>0, <1>2, WriteTypes, CalledTypes DEF UpdateItems
    <2> QED BY <1>2, <2>2, <2>3 DEF UpdateItems, TypeOK, diskVars
  <1>3. CASE FireChanges
    <2> DEFINE update == [k \in Keys |-> IF k \in changed THEN cache[Main][k] ELSE Nothing]
    <2>1. update \in Updates
      BY <1>0 DEF Updates, Contents
    <2>2. Msg("changed", update) \in ToWindow
      BY <2>1, MsgTypes
    <2>3. toWindow' = [w \in Windows |-> IF IsOpen(w)
                          THEN Append(toWindow[w], Msg("changed", update)) ELSE toWindow[w]]
      BY <1>3 DEF FireChanges
    <2> HIDE DEF update
    <2>4. toWindow' \in [Windows -> Seq(ToWindow)]
      BY <2>2, <2>3 DEF TypeOK
    <2> QED BY <1>3, <2>4 DEF FireChanges, TypeOK, storeVars, flushVars, diskVars
  <1>4. CASE TransactionEnds
    BY <1>0, <1>4, CommitTypes, SettleTypes DEF TransactionEnds, TypeOK
  <1>5. CASE TransactionFails
    <2>1. disk' \in Contents /\ uncommitted' \in Updates
      <3>1. ASSUME NEW kinds, Commit(Statements(kinds))
            PROVE  disk' \in Contents /\ uncommitted' \in Updates
        BY <3>1, StatementsType, CommitTypes
      <3>2. ASSUME uncommitted' = Apply(uncommitted, active[Main]), UNCHANGED disk
            PROVE  disk' \in Contents /\ uncommitted' \in Updates
        BY <1>0, <3>2, ApplyToUpdates DEF TypeOK
      <3> QED BY <1>5, <3>1, <3>2 DEF TransactionFails
    <2> QED BY <1>0, <1>5, <2>1, SettleTypes DEF TransactionFails, TypeOK
  <1>6. CASE DatabaseClosed
    <2>1. disk' \in Contents
      BY <1>0, <1>6, EmptyType DEF DatabaseClosed, TypeOK
    <2>2. uncommitted' \in Updates
      BY <1>6, NoUpdateType DEF DatabaseClosed
    <2>3. state' \in [Stores -> {"None", "Initialized", "Closed", "Disposed"}]
      BY <1>6 DEF DatabaseClosed, TypeOK
    <2>4. isErroneous' \in BOOLEAN
      BY <1>6 DEF DatabaseClosed, TypeOK
    <2> QED BY <1>6, <2>1, <2>2, <2>3, <2>4
            DEF DatabaseClosed, TypeOK, flushVars, channelVars
  <1> QED BY <1>1, <1>2, <1>3, <1>4, <1>5, <1>6 DEF MainStep

LEMMA RestartTypes ==
    ASSUME TypeOK, Restart
    PROVE  TypeOK'
  <1> DEFINE empty == [k \in Keys |-> NoValue]
  <1>1. cache' = [s \in Stores |-> IF s = Main THEN disk ELSE empty]
    BY DEF Restart
  <1>2. empty \in Contents
    BY EmptyType
  <1> HIDE DEF empty
  <1>3. cache' \in [Stores -> Contents]
    BY <1>1, <1>2 DEF TypeOK
  <1>4. /\ toMain' \in [Windows -> Seq(ToMain)] /\ toWindow' \in [Windows -> Seq(ToWindow)]
        /\ state' \in [Stores -> {"None", "Initialized", "Closed", "Disposed"}]
    BY DEF Restart
  <1> QED BY <1>3, <1>4, NoUpdateType DEF Restart, TypeOK

LEMMA StepTypes == TypeOK /\ [Next]_vars => TypeOK'
  <1> SUFFICES ASSUME TypeOK, [Next]_vars
               PROVE  TypeOK'
    OBVIOUS
  <1>1. CASE UNCHANGED vars
    BY <1>1 DEF TypeOK, vars, storeVars, flushVars, channelVars, diskVars
  <1> QED BY <1>1, StoreStepTypes, WindowStepTypes, MainStepTypes, RestartTypes DEF Next

(* TypeOK always holds, for any number of windows, keys and values, with or *)
(* without faults: each field of a Storage, each call and event on its way  *)
(* and the database keep their types.                                       *)
THEOREM TypesAreKept == Spec => []TypeOK
  BY TypesInitially, StepTypes, PTL DEF Spec

-----------------------------------------------------------------------------
(* Flushes are scheduled *)

(* What a write, a flush and the end of a batch do to one store.            *)
LEMMA WriteSchedules ==
    ASSUME TypeOK, NEW s \in Stores, NEW update \in Updates, Write(s, update)
    PROVE  /\ pending'[s] = pending[s] \/ delayer'[s]
           /\ delayer[s] => delayer'[s]
           /\ \A x \in Stores \ {s} : pending'[x] = pending[x] /\ delayer'[x] = delayer[x]
  <1> DEFINE effect == Effective(s, update)
  <1>1. effect \in Updates /\ pending[s] \in Updates
    BY EffectiveType DEF TypeOK
  <1>2. effect = NoUpdate => Apply(pending[s], effect) = pending[s]
    BY <1>1, ApplyNothing
  <1>3. /\ pending' = [pending EXCEPT ![s] = Apply(pending[s], effect)]
        /\ delayer' = [delayer EXCEPT ![s] = delayer[s] \/ effect # NoUpdate]
    BY DEF Write
  <1> HIDE DEF effect
  <1> QED BY <1>2, <1>3 DEF TypeOK

LEMMA FlushEmpties ==
    ASSUME TypeOK, NEW s \in Stores, FlushPending(s)
    PROVE  /\ pending'[s] = NoUpdate /\ active'[s] = pending[s]
           /\ \A x \in Stores \ {s} : pending'[x] = pending[x] /\ active'[x] = active[x]
  BY DEF FlushPending, TypeOK

LEMMA SettleFlushesQueued ==
    ASSUME TypeOK, NEW s \in Stores, Settle(s)
    PROVE  /\ ~queued'[s]
           /\ IF queued[s] THEN pending'[s] = NoUpdate /\ active'[s] = pending[s]
              ELSE pending'[s] = pending[s] /\ active'[s] = NoUpdate
           /\ \A x \in Stores \ {s} : /\ pending'[x] = pending[x] /\ active'[x] = active[x]
                                       /\ queued'[x] = queued[x]
  <1>1. ~queued'[s] /\ \A x \in Stores \ {s} : queued'[x] = queued[x]
    BY DEF Settle, TypeOK
  <1>2. CASE queued[s]
    BY <1>1, <1>2, FlushEmpties DEF Settle
  <1>3. CASE ~queued[s]
    BY <1>1, <1>3 DEF Settle, TypeOK
  <1> QED BY <1>2, <1>3

LEMMA FreshWindowIsEmpty ==
    ASSUME TypeOK, NEW w \in Windows, FreshWindow(w)
    PROVE  /\ pending'[w] = NoUpdate
           /\ \A x \in Stores \ {w} :
                 /\ cache'[x] = cache[x] /\ pending'[x] = pending[x] /\ active'[x] = active[x]
                 /\ delayer'[x] = delayer[x] /\ queued'[x] = queued[x]
  <1> DEFINE empty == [k \in Keys |-> NoValue]
  <1>1. cache' = [cache EXCEPT ![w] = empty]
    BY DEF FreshWindow
  <1> HIDE DEF empty
  <1>2. \A x \in Stores \ {w} : cache'[x] = cache[x]
    BY <1>1 DEF TypeOK
  <1>3. w \in Stores
    BY DEF Stores
  <1> QED BY <1>2, <1>3 DEF FreshWindow, TypeOK

(* One store whose pending changes are scheduled. *)
Scheduled(s) == IsOpen(s) /\ pending[s] # NoUpdate => delayer[s] \/ queued[s]

(* A step that leaves what Scheduled depends on alone leaves it alone.      *)
LEMMA SameIsScheduled ==
    ASSUME NEW s, Scheduled(s), state'[s] = state[s], pending'[s] = pending[s],
           delayer'[s] = delayer[s], queued'[s] = queued[s]
    PROVE  Scheduled(s)'
  BY DEF Scheduled, IsOpen

LEMMA ScheduledStep == TypeOK /\ PendingIsScheduled /\ [Next]_vars => PendingIsScheduled'
  <1> SUFFICES ASSUME TypeOK, [Next]_vars, NEW x \in Stores, Scheduled(x)
               PROVE  Scheduled(x)'
    BY DEF PendingIsScheduled, Scheduled
  <1> USE DEF Scheduled, IsOpen
  <1>1. ASSUME NEW s \in Stores, StoreStep(s)
        PROVE  Scheduled(x)'
    <2>1. ASSUME NEW k \in Keys, NEW v \in Values \cup {NoValue}, Put(s, k, v)
          PROVE  Scheduled(x)'
      <3>1. [NoUpdate EXCEPT ![k] = v] \in Updates
        BY DEF NoUpdate, Updates
      <3>2. Write(s, [NoUpdate EXCEPT ![k] = v]) /\ UNCHANGED <<state, queued>>
        BY <2>1 DEF Put
      <3> QED BY <3>1, <3>2, WriteSchedules
    <2>2. CASE Flush(s)
      BY <2>2 DEF Flush, TypeOK
    <2>3. CASE WhenFlushed(s)
      BY <2>3, SameIsScheduled DEF WhenFlushed, flushVars
    <2>4. CASE FlushTimer(s)
      <3>1. CASE FlushPending(s) /\ UNCHANGED queued
        BY <2>4, <3>1, FlushEmpties DEF FlushTimer, TypeOK
      <3>2. CASE queued' = [queued EXCEPT ![s] = TRUE] /\ UNCHANGED <<active, pending, toMain>>
        BY <2>4, <3>2 DEF FlushTimer, TypeOK
      <3> QED BY <2>4, <3>1, <3>2 DEF FlushTimer
    <2>5. CASE Close(s)
      BY <2>5 DEF Close, TypeOK
    <2> QED BY <1>1, <2>1, <2>2, <2>3, <2>4, <2>5 DEF StoreStep
  <1>2. ASSUME NEW w \in Windows, WindowStep(w)
        PROVE  Scheduled(x)'
    <2>0. w \in Stores
      BY DEF Stores
    <2>1. CASE Open(w) \/ WindowClosed(w) \/ WindowCrashes(w)
      <3>1. FreshWindow(w) /\ \A s \in Stores \ {w} : state'[s] = state[s]
        BY <2>1 DEF Open, WindowClosed, WindowCrashes, TypeOK
      <3> QED BY <2>0, <3>1, FreshWindowIsEmpty, SameIsScheduled
    <2>2. CASE ReceiveItems(w) \/ ReceiveChange(w)
      BY <2>2, SameIsScheduled DEF ReceiveItems, ReceiveChange, flushVars
    <2>3. CASE ReceiveUpdated(w)
      BY <2>0, <2>3, SettleFlushesQueued DEF ReceiveUpdated
    <2> QED BY <1>2, <2>1, <2>2, <2>3 DEF WindowStep
  <1>3. CASE MainStep
    <2>0. Main \in Stores
      BY DEF Stores
    <2>1. ASSUME NEW w \in Windows, UpdateItems(w)
          PROVE  Scheduled(x)'
      BY <2>0, <2>1, CalledTypes, WriteSchedules DEF UpdateItems
    <2>2. ASSUME NEW w \in Windows, GetItems(w)
          PROVE  Scheduled(x)'
      BY <2>2, SameIsScheduled DEF GetItems, storeVars, flushVars
    <2>3. CASE FireChanges
      BY <2>3, SameIsScheduled DEF FireChanges, storeVars, flushVars
    <2>4. CASE TransactionEnds \/ TransactionFails
      BY <2>0, <2>4, SettleFlushesQueued DEF TransactionEnds, TransactionFails
    <2>5. CASE DatabaseClosed
      BY <2>5 DEF DatabaseClosed, TypeOK, flushVars
    <2> QED BY <1>3, <2>1, <2>2, <2>3, <2>4, <2>5 DEF MainStep
  <1>4. CASE Restart
    BY <1>4 DEF Restart
  <1>5. CASE UNCHANGED vars
    BY <1>5, SameIsScheduled DEF vars, storeVars, flushVars
  <1> QED BY <1>1, <1>2, <1>3, <1>4, <1>5 DEF Next

(* A change that is pending has a flush on its way, in every store and also *)
(* while it closes: the delayer's timer or the Throttler's queued promise.  *)
THEOREM PendingChangesAreScheduled == Spec => []PendingIsScheduled
  <1>1. Init => PendingIsScheduled
    BY DEF Init, PendingIsScheduled
  <1> QED BY <1>1, ScheduledStep, TypesAreKept, PTL DEF Spec

-----------------------------------------------------------------------------
(* Memory and database of the main process *)

(* DiskFollowsCache is inductive together with what makes it survive a      *)
(* transaction and a close: nothing is left over from a transaction that    *)
(* did not end, and nothing is under way once the database is closed.       *)
StatesOK ==
    /\ state[Main] # "None"
    /\ \A w \in Windows : state[w] # "Disposed"

Quiet == FlushSettled(Main) /\ pending[Main] = NoUpdate

DatabaseInv ==
    /\ StatesOK
    /\ DiskFollowsCache
    /\ ~isErroneous => uncommitted = NoUpdate
    /\ state[Main] = "Disposed" => Quiet

mainVars == <<state[Main], cache[Main], pending[Main], delayer[Main], active[Main],
              queued[Main], disk, uncommitted, isErroneous>>

LEMMA SameDatabase ==
    ASSUME DatabaseInv, StatesOK', UNCHANGED mainVars
    PROVE  DatabaseInv'
  BY DEF DatabaseInv, DiskFollowsCache, Quiet, FlushSettled, mainVars, Apply

LEMMA StatesStep == TypeOK /\ StatesOK /\ [Next]_vars => StatesOK'
  <1> SUFFICES ASSUME TypeOK, StatesOK, [Next]_vars
               PROVE  StatesOK'
    OBVIOUS
  <1> USE StoresAssumption DEF StatesOK, TypeOK, Stores
  <1>1. CASE UNCHANGED state
    BY <1>1
  <1>2. ASSUME NEW s \in Stores, Close(s) PROVE StatesOK'
    BY <1>2 DEF Close
  <1>3. ASSUME NEW w \in Windows, Open(w) \/ WindowClosed(w) \/ WindowCrashes(w)
        PROVE  StatesOK'
    BY <1>3 DEF Open, WindowClosed, WindowCrashes
  <1>4. CASE DatabaseClosed
    BY <1>4 DEF DatabaseClosed
  <1>5. CASE Restart
    BY <1>5 DEF Restart
  <1>6. ASSUME NEW s \in Stores, StoreStep(s) PROVE UNCHANGED state \/ Close(s)
    BY <1>6 DEF StoreStep, Put, Flush, WhenFlushed, FlushTimer
  <1>7. ASSUME NEW w \in Windows, WindowStep(w)
        PROVE  UNCHANGED state \/ Open(w) \/ WindowClosed(w) \/ WindowCrashes(w)
    BY <1>7 DEF WindowStep, ReceiveItems, ReceiveChange, ReceiveUpdated
  <1>8. ASSUME MainStep PROVE UNCHANGED state \/ DatabaseClosed
    BY <1>8 DEF MainStep, GetItems, UpdateItems, FireChanges, TransactionEnds, TransactionFails,
                storeVars
  <1> QED BY <1>1, <1>2, <1>3, <1>4, <1>5, <1>6, <1>7, <1>8 DEF Next, vars, storeVars

(* What a write does to a store: cache and pending take the same changes.   *)
LEMMA WriteChanges ==
    ASSUME TypeOK, NEW s \in Stores, NEW update \in Updates, Write(s, update)
    PROVE  \E effect \in Updates :
              /\ cache'[s] = Apply(cache[s], effect)
              /\ pending'[s] = Apply(pending[s], effect)
              /\ state[s] # "Initialized" => effect = NoUpdate
              /\ delayer'[s] = (delayer[s] \/ effect # NoUpdate)
              /\ \A x \in Stores \ {s} : /\ cache'[x] = cache[x] /\ pending'[x] = pending[x]
                                          /\ delayer'[x] = delayer[x]
  <1> DEFINE effect == Effective(s, update)
  <1>1. effect \in Updates
    BY EffectiveType
  <1>2. /\ cache' = [cache EXCEPT ![s] = Apply(cache[s], effect)]
        /\ pending' = [pending EXCEPT ![s] = Apply(pending[s], effect)]
        /\ delayer' = [delayer EXCEPT ![s] = delayer[s] \/ effect # NoUpdate]
    BY DEF Write
  <1>3. state[s] # "Initialized" => effect = NoUpdate
    BY DEF Effective, NoUpdate
  <1> HIDE DEF effect
  <1> WITNESS effect \in Updates
  <1> QED BY <1>2, <1>3 DEF TypeOK

(* A write of the main process leaves its database invariant alone.         *)
LEMMA WriteToMain ==
    ASSUME TypeOK, DatabaseInv, NEW update \in Updates, Write(Main, update),
           StatesOK', UNCHANGED <<state, active, queued, diskVars>>
    PROVE  DatabaseInv'
  <1>0. Main \in Stores /\ cache[Main] \in Contents /\ pending[Main] \in Updates
        /\ active[Main] \in Updates /\ disk \in Contents
    BY DEF TypeOK, Stores
  <1>1. PICK effect \in Updates :
              /\ cache'[Main] = Apply(cache[Main], effect)
              /\ pending'[Main] = Apply(pending[Main], effect)
              /\ state[Main] # "Initialized" => effect = NoUpdate
              /\ delayer'[Main] = (delayer[Main] \/ effect # NoUpdate)
    BY <1>0, WriteChanges
  <1>2. Apply(disk, active[Main]) \in Contents
    BY <1>0, ApplyToContents
  <1>3. Apply(Apply(Apply(disk, active[Main]), pending[Main]), effect)
          = Apply(Apply(disk, active[Main]), Apply(pending[Main], effect))
    BY <1>0, <1>2, ApplyTwice
  <1>4. ~isErroneous => cache'[Main] = Apply(Apply(disk, active[Main]), pending'[Main])
    BY <1>1, <1>3 DEF DatabaseInv, DiskFollowsCache
  <1>5. DiskFollowsCache'
    BY <1>4 DEF DiskFollowsCache, diskVars, Apply
  <1>6. Apply(pending[Main], NoUpdate) = pending[Main]
    BY <1>0, ApplyNothing
  <1>7. state'[Main] = "Disposed" => Quiet'
    BY <1>1, <1>6 DEF DatabaseInv, Quiet, FlushSettled
  <1> QED BY <1>5, <1>7 DEF DatabaseInv, diskVars

(* A flush moves what is pending into the batch on its way.                 *)
LEMMA FlushKeepsDatabase ==
    ASSUME TypeOK, DatabaseInv, FlushPending(Main), NEW d \in Contents,
           ~isErroneous => d = Apply(disk, active[Main])
    PROVE  ~isErroneous => cache[Main] = Apply(Apply(d, active'[Main]), pending'[Main])
  <1>1. Main \in Stores /\ pending[Main] \in Updates
    BY DEF TypeOK, Stores
  <1>2. active'[Main] = pending[Main] /\ pending'[Main] = NoUpdate
    BY <1>1, FlushEmpties
  <1>3. Apply(d, pending[Main]) \in Updates
    BY <1>1, ApplyToContents, ContentsAreUpdates
  <1>4. Apply(Apply(d, pending[Main]), NoUpdate) = Apply(d, pending[Main])
    BY <1>3, ApplyNothing
  <1> QED BY <1>2, <1>4 DEF DatabaseInv, DiskFollowsCache

(* The batch on its way is in the file d; what was queued behind it goes.   *)
LEMMA SettleKeepsDatabase ==
    ASSUME TypeOK, DatabaseInv, Settle(Main), NEW d \in Contents,
           ~isErroneous => d = Apply(disk, active[Main])
    PROVE  ~isErroneous => cache[Main] = Apply(Apply(d, active'[Main]), pending'[Main])
  <1>1. Main \in Stores
    BY DEF Stores
  <1>2. CASE queued[Main]
    BY <1>2, FlushKeepsDatabase DEF Settle
  <1>3. CASE ~queued[Main]
    <2>1. active'[Main] = NoUpdate /\ pending'[Main] = pending[Main]
      BY <1>1, <1>3, SettleFlushesQueued
    <2>2. Apply(d, NoUpdate) = d
      BY ApplyNothing, ContentsAreUpdates
    <2> QED BY <2>1, <2>2 DEF DatabaseInv, DiskFollowsCache
  <1> QED BY <1>2, <1>3

LEMMA StoreStepKeepsDatabase ==
    ASSUME TypeOK, DatabaseInv, StatesOK', NEW s \in Stores, StoreStep(s)
    PROVE  DatabaseInv'
  <1>0. Main \in Stores
    BY DEF Stores
  <1>1. ASSUME NEW k \in Keys, NEW v \in Values \cup {NoValue}, Put(s, k, v)
        PROVE  DatabaseInv'
    <2>1. [NoUpdate EXCEPT ![k] = v] \in Updates
      BY DEF NoUpdate, Updates
    <2>2. /\ Write(s, [NoUpdate EXCEPT ![k] = v])
          /\ UNCHANGED <<state, active, queued, diskVars>>
      BY <1>1 DEF Put
    <2>3. CASE s = Main
      BY <2>1, <2>2, <2>3, WriteToMain
    <2>4. CASE s # Main
      <3>1. UNCHANGED mainVars
        BY <1>0, <2>1, <2>2, <2>4, WriteChanges DEF mainVars, diskVars
      <3> QED BY <3>1, SameDatabase
    <2> QED BY <2>3, <2>4
  <1>2. CASE Flush(s)
    <2>1. CASE s # Main
      <3>1. UNCHANGED mainVars
        BY <1>0, <1>2, <2>1 DEF Flush, mainVars, diskVars, TypeOK
      <3> QED BY <3>1, SameDatabase
    <2>2. CASE s = Main
      BY <1>2, <2>2 DEF Flush, DatabaseInv, DiskFollowsCache, diskVars, Apply
    <2> QED BY <2>1, <2>2
  <1>3. CASE WhenFlushed(s)
    <2>1. UNCHANGED mainVars
      BY <1>3 DEF WhenFlushed, mainVars, flushVars, diskVars
    <2> QED BY <2>1, SameDatabase
  <1>4. CASE FlushTimer(s)
    <2>1. CASE s # Main
      <3>1. delayer'[Main] = delayer[Main] /\ UNCHANGED <<state, cache, diskVars>>
        BY <1>0, <1>4, <2>1 DEF FlushTimer, TypeOK
      <3>2. /\ pending'[Main] = pending[Main] /\ active'[Main] = active[Main]
            /\ queued'[Main] = queued[Main]
        BY <1>0, <1>4, <2>1, FlushEmpties DEF FlushTimer, TypeOK
      <3>3. UNCHANGED mainVars
        BY <3>1, <3>2 DEF mainVars, diskVars
      <3> QED BY <3>3, SameDatabase
    <2>2. CASE s = Main
      <3>1. UNCHANGED <<state, cache, diskVars>> /\ ~(state[Main] = "Disposed")
        BY <1>4, <2>2 DEF FlushTimer, DatabaseInv, Quiet, FlushSettled
      <3>2. CASE active[Main] = NoUpdate /\ FlushPending(Main)
        <4>1. disk \in Contents /\ disk = Apply(disk, active[Main])
          BY <3>2, ApplyNothing, ContentsAreUpdates DEF TypeOK
        <4>2. ~isErroneous => cache[Main] = Apply(Apply(disk, active'[Main]), pending'[Main])
          BY <3>2, <4>1, FlushKeepsDatabase
        <4> QED BY <3>1, <4>2 DEF DatabaseInv, DiskFollowsCache, diskVars, Apply
      <3>3. CASE UNCHANGED <<active, pending, toMain>>
        BY <3>1, <3>3 DEF DatabaseInv, DiskFollowsCache, diskVars, Apply
      <3> QED BY <1>4, <2>2, <3>2, <3>3 DEF FlushTimer
    <2> QED BY <2>1, <2>2
  <1>5. CASE Close(s)
    <2>1. UNCHANGED <<cache, pending, active, queued, diskVars>>
      BY <1>5 DEF Close
    <2>2. CASE s = Main
      <3>1. state'[Main] # "Disposed"
        BY <1>0, <1>5, <2>2 DEF Close, TypeOK
      <3> QED BY <2>1, <3>1 DEF DatabaseInv, DiskFollowsCache, diskVars, Apply
    <2>3. CASE s # Main
      <3>1. UNCHANGED mainVars
        BY <1>0, <1>5, <2>3 DEF Close, mainVars, diskVars, TypeOK
      <3> QED BY <3>1, SameDatabase
    <2> QED BY <2>2, <2>3
  <1> QED BY <1>1, <1>2, <1>3, <1>4, <1>5 DEF StoreStep

LEMMA WindowStepKeepsDatabase ==
    ASSUME TypeOK, DatabaseInv, StatesOK', NEW w \in Windows, WindowStep(w)
    PROVE  DatabaseInv'
  <1>0. Main \in Stores /\ w \in Stores /\ Main # w
    BY StoresAssumption DEF Stores
  <1>1. CASE Open(w) \/ WindowClosed(w) \/ WindowCrashes(w)
    <2>1. FreshWindow(w) /\ state'[Main] = state[Main] /\ UNCHANGED diskVars
      BY <1>0, <1>1 DEF Open, WindowClosed, WindowCrashes, TypeOK
    <2> QED BY <1>0, <2>1, FreshWindowIsEmpty, SameDatabase DEF mainVars, diskVars
  <1>2. CASE ReceiveItems(w) \/ ReceiveChange(w)
    <2>1. cache'[Main] = cache[Main]
      BY <1>0, <1>2 DEF ReceiveItems, ReceiveChange, TypeOK
    <2> QED BY <1>2, <2>1, SameDatabase
            DEF ReceiveItems, ReceiveChange, mainVars, flushVars, diskVars
  <1>3. CASE ReceiveUpdated(w)
    BY <1>0, <1>3, SettleFlushesQueued, SameDatabase DEF ReceiveUpdated, mainVars, diskVars
  <1> QED BY <1>1, <1>2, <1>3 DEF WindowStep

LEMMA TransactionEndsKeepsDatabase ==
    ASSUME TypeOK, DatabaseInv, StatesOK', TransactionEnds
    PROVE  DatabaseInv'
  <1>0. active[Main] \in Updates /\ disk \in Contents
    BY DEF TypeOK, Stores
  <1>1. disk' \in Contents
    BY <1>0, CommitTypes DEF TransactionEnds
  <1>2. ~isErroneous => disk' = Apply(disk, active[Main])
    <2>1. Apply(disk, NoUpdate) = disk
      BY <1>0, ApplyNothing, ContentsAreUpdates
    <2> QED BY <2>1 DEF TransactionEnds, Commit, DatabaseInv
  <1>3. ~isErroneous => cache[Main] = Apply(Apply(disk', active'[Main]), pending'[Main])
    <2>1. Settle(Main)
      BY DEF TransactionEnds
    <2> QED BY <1>1, <1>2, <2>1, SettleKeepsDatabase
  <1>4. DiskFollowsCache'
    BY <1>3 DEF TransactionEnds, DiskFollowsCache, Apply
  <1>5. state'[Main] # "Disposed"
    BY DEF TransactionEnds, DatabaseInv, Quiet, FlushSettled
  <1>6. uncommitted' = NoUpdate
    BY DEF TransactionEnds, Commit
  <1> QED BY <1>4, <1>5, <1>6 DEF DatabaseInv, NoUpdate

(* After an error nothing is promised of the file.                          *)
LEMMA TransactionFailsKeepsDatabase ==
    ASSUME TypeOK, DatabaseInv, StatesOK', TransactionFails
    PROVE  DatabaseInv'
  <1>1. isErroneous' /\ state'[Main] # "Disposed"
    BY DEF TransactionFails, DatabaseInv, Quiet, FlushSettled
  <1> QED BY <1>1 DEF DatabaseInv, DiskFollowsCache

LEMMA DatabaseClosedKeepsDatabase ==
    ASSUME TypeOK, DatabaseInv, StatesOK', PendingIsScheduled, DatabaseClosed
    PROVE  DatabaseInv'
  <1>0. Main \in Stores /\ cache[Main] \in Contents
    BY DEF TypeOK, Stores
  <1>1. Quiet
    BY <1>0 DEF DatabaseClosed, FlushSettled, PendingIsScheduled, IsOpen, Quiet
  <1>2. UNCHANGED <<cache, pending, active, delayer, queued>> /\ Quiet'
    BY <1>1 DEF DatabaseClosed, flushVars, Quiet, FlushSettled, NoUpdate
  <1>3. ~isErroneous => cache[Main] = Apply(Apply(disk, active[Main]), pending[Main])
    BY DEF DatabaseInv, DiskFollowsCache
  <1>4. active[Main] = NoUpdate /\ pending[Main] = NoUpdate
    BY <1>1 DEF Quiet, FlushSettled
  <1>5. Apply(Apply(cache[Main], NoUpdate), NoUpdate) = cache[Main]
    BY <1>0, ApplyNothing, ContentsAreUpdates
  <1>6. ~isErroneous' => disk' = cache[Main] \/ (disk' = disk /\ ~isErroneous)
    BY DEF DatabaseClosed
  <1>7. ~isErroneous' => cache[Main] = Apply(Apply(disk', active[Main]), pending[Main])
    BY <1>3, <1>4, <1>5, <1>6
  <1>8. DiskFollowsCache'
    BY <1>2, <1>7 DEF DiskFollowsCache, Apply
  <1>9. uncommitted' = NoUpdate
    BY DEF DatabaseClosed
  <1> QED BY <1>2, <1>8, <1>9 DEF DatabaseInv, NoUpdate

LEMMA RestartKeepsDatabase ==
    ASSUME TypeOK, StatesOK', Restart
    PROVE  DatabaseInv'
  <1>1. Main \in Stores /\ disk \in Contents
    BY DEF TypeOK, Stores
  <1>2. /\ state'[Main] = "Initialized" /\ pending'[Main] = NoUpdate
        /\ active'[Main] = NoUpdate /\ uncommitted' = NoUpdate /\ UNCHANGED disk
    BY <1>1 DEF Restart
  <1>3. cache'[Main] = disk
    <2> DEFINE empty == [k \in Keys |-> NoValue]
    <2>1. cache' = [s \in Stores |-> IF s = Main THEN disk ELSE empty]
      BY DEF Restart
    <2> HIDE DEF empty
    <2> QED BY <1>1, <2>1
  <1>4. Apply(Apply(disk, NoUpdate), NoUpdate) = disk
    BY <1>1, ApplyNothing, ContentsAreUpdates
  <1>5. DiskFollowsCache'
    BY <1>2, <1>3, <1>4 DEF DiskFollowsCache, Apply
  <1> QED BY <1>2, <1>5 DEF DatabaseInv, NoUpdate

LEMMA DatabaseInitially == Init => DatabaseInv
  <1> SUFFICES ASSUME Init PROVE DatabaseInv
    OBVIOUS
  <1>0. TypeOK /\ Main \in Stores
    BY TypesInitially DEF Stores
  <1>1. /\ state = [s \in Stores |-> IF s = Main THEN "Initialized" ELSE "None"]
        /\ uncommitted = NoUpdate /\ active[Main] = NoUpdate /\ pending[Main] = NoUpdate
    BY <1>0 DEF Init
  <1>2. cache[Main] = disk
    BY <1>0 DEF Init
  <1>3. Apply(Apply(disk, NoUpdate), NoUpdate) = disk
    BY <1>0, ApplyNothing, ContentsAreUpdates DEF TypeOK
  <1>4. StatesOK /\ state[Main] # "Disposed"
    BY <1>1, StoresAssumption DEF StatesOK, Stores
  <1> QED BY <1>1, <1>2, <1>3, <1>4 DEF DatabaseInv, DiskFollowsCache

LEMMA DatabaseStep ==
    TypeOK /\ PendingIsScheduled /\ DatabaseInv /\ [Next]_vars => DatabaseInv'
  <1> SUFFICES ASSUME TypeOK, PendingIsScheduled, DatabaseInv, [Next]_vars
               PROVE  DatabaseInv'
    OBVIOUS
  <1>0. StatesOK'
    BY StatesStep DEF DatabaseInv
  <1>1. CASE UNCHANGED vars
    BY <1>0, <1>1, SameDatabase DEF mainVars, vars, storeVars, flushVars, diskVars
  <1>2. CASE MainStep
    <2>1. ASSUME NEW w \in Windows, GetItems(w) PROVE DatabaseInv'
      BY <1>0, <2>1, SameDatabase DEF GetItems, mainVars, storeVars, flushVars, diskVars
    <2>2. ASSUME NEW w \in Windows, UpdateItems(w) PROVE DatabaseInv'
      BY <1>0, <2>2, CalledTypes, WriteToMain DEF UpdateItems
    <2>3. CASE FireChanges
      BY <1>0, <2>3, SameDatabase DEF FireChanges, mainVars, storeVars, flushVars, diskVars
    <2> QED BY <1>0, <1>2, <2>1, <2>2, <2>3, TransactionEndsKeepsDatabase,
               TransactionFailsKeepsDatabase, DatabaseClosedKeepsDatabase DEF MainStep
  <1> QED BY <1>0, <1>1, <1>2, StoreStepKeepsDatabase, WindowStepKeepsDatabase,
             RestartKeepsDatabase DEF Next

LEMMA DatabaseAlways == Spec => []DatabaseInv
  BY DatabaseInitially, DatabaseStep, TypesAreKept, PendingChangesAreScheduled, PTL DEF Spec

(* What the main process holds in memory is what is stored, plus the batch  *)
(* on its way, plus what is pending, until the database reports an error.   *)
THEOREM DatabaseFollowsMemory == Spec => []DiskFollowsCache
  BY DatabaseAlways, PTL DEF DatabaseInv

(* A database that closed without an error, or that was written again after *)
(* one, holds all of the memory.                                            *)
THEOREM OrderlyEndStores == Spec => []ClosedIsStored
  <1>1. TypeOK /\ DatabaseInv => ClosedIsStored
    <2> SUFFICES ASSUME TypeOK, DatabaseInv, state[Main] = "Disposed", ~isErroneous
                 PROVE  disk = cache[Main]
      BY DEF ClosedIsStored
    <2>1. disk \in Contents /\ active[Main] = NoUpdate /\ pending[Main] = NoUpdate
      BY DEF TypeOK, DatabaseInv, Quiet, FlushSettled
    <2>2. Apply(Apply(disk, NoUpdate), NoUpdate) = disk
      BY <2>1, ApplyNothing, ContentsAreUpdates
    <2> QED BY <2>1, <2>2 DEF DatabaseInv, DiskFollowsCache
  <1> QED BY <1>1, TypesAreKept, DatabaseAlways, PTL

-----------------------------------------------------------------------------
(* The store of the main process implements DurableStore *)

snapshot == Apply(disk, active[Main])

LEMMA SnapshotTypes ==
    ASSUME TypeOK
    PROVE  /\ Main \in Stores /\ cache[Main] \in Contents /\ disk \in Contents
           /\ active[Main] \in Updates /\ pending[Main] \in Updates
           /\ snapshot \in Contents
           /\ active[Main] = NoUpdate => snapshot = disk
  BY ApplyToContents, ApplyNothing, ContentsAreUpdates DEF TypeOK, Stores, snapshot

(* The moments that DurableStore knows, by what they leave unchanged.       *)
LEMMA StutterIsDurable ==
    ASSUME UNCHANGED mainVars
    PROVE  UNCHANGED Durable!vars
  BY DEF mainVars, Durable!vars, Apply

LEMMA ChangeIsDurable ==
    ASSUME TypeOK', UNCHANGED <<active, diskVars>>
    PROVE  Durable!Change
  BY SnapshotTypes DEF Durable!Change, diskVars, TypeOK, Stores, Apply

LEMMA FailIsDurable ==
    ASSUME TypeOK, TypeOK', cache'[Main] = cache[Main], isErroneous'
    PROVE  Durable!Fail
  <1>1. disk' \in Contents /\ active'[Main] \in Updates /\ isErroneous' = TRUE
    BY DEF TypeOK, Stores
  <1>2. Apply(disk', active'[Main]) \in Contents
    BY <1>1, ApplyToContents
  <1>3. Apply(disk, active[Main])' = Apply(disk', active'[Main])
    BY DEF Apply
  <1> QED BY <1>1, <1>2, <1>3 DEF Durable!Fail

LEMMA FlushIsDurable ==
    ASSUME TypeOK, TypeOK', DatabaseInv, FlushTimer(Main)
    PROVE  [Durable!Next]_Durable!vars
  <1>0. UNCHANGED <<cache, diskVars>>
    BY DEF FlushTimer
  <1>1. CASE active[Main] = NoUpdate /\ FlushPending(Main)
    <2>1. active'[Main] = pending[Main] /\ snapshot = disk
      BY <1>1, FlushEmpties, SnapshotTypes
    <2>2. CASE isErroneous
      <3>1. isErroneous' /\ cache'[Main] = cache[Main]
        BY <1>0, <2>2 DEF diskVars
      <3> QED BY <3>1, FailIsDurable DEF Durable!Next
    <2>3. CASE ~isErroneous
      <3>1. cache[Main] = Apply(disk, pending[Main])
        BY <2>1, <2>3 DEF DatabaseInv, DiskFollowsCache, snapshot
      <3>2. Apply(disk, active[Main])' = cache[Main]
        BY <1>0, <2>1, <3>1 DEF diskVars, Apply
      <3>3. Durable!Take
        BY <1>0, <2>1, <3>2 DEF Durable!Take, snapshot, diskVars
      <3> QED BY <3>3 DEF Durable!Next
    <2> QED BY <2>2, <2>3
  <1>2. CASE UNCHANGED active
    BY <1>0, <1>2 DEF Durable!vars, diskVars, Apply
  <1> QED BY <1>1, <1>2 DEF FlushTimer

LEMMA EndIsDurable ==
    ASSUME TypeOK, TypeOK', DatabaseInv, DatabaseInv', TransactionEnds
    PROVE  Durable!Next
  <1>0. cache' = cache /\ isErroneous' = isErroneous /\ Settle(Main) /\ Commit(active[Main])
    BY DEF TransactionEnds
  <1>1. CASE isErroneous
    BY <1>0, <1>1, FailIsDurable DEF Durable!Next
  <1>2. CASE ~isErroneous
    <2>1. Apply(disk, NoUpdate) = disk
      BY SnapshotTypes, ApplyNothing, ContentsAreUpdates
    <2>2. disk' = snapshot
      BY <1>0, <1>2, <2>1 DEF Commit, DatabaseInv, snapshot
    <2>3. Apply(disk, active[Main])' = Apply(snapshot, active'[Main])
      BY <2>2 DEF Apply
    <2>4. Apply(snapshot, active'[Main]) \in {snapshot, cache[Main]}
      <3>1. CASE active'[Main] = NoUpdate
        <4>1. Apply(snapshot, NoUpdate) = snapshot
          BY SnapshotTypes, ApplyNothing, ContentsAreUpdates
        <4> QED BY <3>1, <4>1
      <3>2. CASE active'[Main] = pending[Main]
        BY <1>2, <3>2 DEF DatabaseInv, DiskFollowsCache, snapshot
      <3> QED BY <1>0, <3>1, <3>2, SettleFlushesQueued, SnapshotTypes
    <2>5. Durable!Store
      BY <1>0, <1>2, <2>2, <2>3, <2>4 DEF Durable!Store, snapshot
    <2> QED BY <2>5 DEF Durable!Next
  <1> QED BY <1>1, <1>2

LEMMA CloseIsDurable ==
    ASSUME TypeOK, TypeOK', DatabaseInv, PendingIsScheduled, DatabaseClosed
    PROVE  [Durable!Next]_Durable!vars
  <1>0. UNCHANGED <<cache, active>>
    BY DEF DatabaseClosed, flushVars
  <1>1. active[Main] = NoUpdate /\ pending[Main] = NoUpdate
    BY SnapshotTypes DEF DatabaseClosed, FlushSettled, PendingIsScheduled, IsOpen
  <1>2. /\ Apply(disk, NoUpdate) = disk /\ Apply(disk', NoUpdate) = disk'
        /\ Apply(disk, active[Main])' = disk'
    <2>1. disk \in Updates /\ disk' \in Updates
      BY SnapshotTypes, ContentsAreUpdates DEF TypeOK
    <2>2. Apply(disk, active[Main])' = Apply(disk', active'[Main])
      BY DEF Apply
    <2> QED BY <1>0, <1>1, <2>1, <2>2, ApplyNothing
  <1>3. CASE UNCHANGED <<disk, isErroneous>>
    BY <1>0, <1>1, <1>2, <1>3 DEF Durable!vars
  <1>4. CASE disk' = cache[Main] /\ isErroneous' = FALSE
    <2>1. CASE isErroneous
      BY <1>0, <1>2, <1>4, <2>1 DEF Durable!Next, Durable!Repair
    <2>2. CASE ~isErroneous
      <3>1. disk = cache[Main]
        BY <1>1, <1>2, <2>2 DEF DatabaseInv, DiskFollowsCache
      <3>2. isErroneous' = isErroneous
        BY <1>4, <2>2 DEF TypeOK
      <3> QED BY <1>3, <1>4, <3>1, <3>2
    <2> QED BY <2>1, <2>2
  <1>5. CASE isErroneous'
    BY <1>0, <1>5, FailIsDurable DEF Durable!Next
  <1> QED BY <1>3, <1>4, <1>5 DEF DatabaseClosed

LEMMA RestartIsDurable ==
    ASSUME TypeOK, Restart
    PROVE  Durable!Restart
  <1>1. cache'[Main] = disk
    <2> DEFINE empty == [k \in Keys |-> NoValue]
    <2>1. cache' = [s \in Stores |-> IF s = Main THEN disk ELSE empty]
      BY DEF Restart
    <2> HIDE DEF empty
    <2> QED BY <2>1, SnapshotTypes
  <1>2. /\ disk' = disk /\ active'[Main] = NoUpdate /\ isErroneous' = FALSE
    BY SnapshotTypes DEF Restart
  <1>3. Apply(disk, active[Main])' = disk
    <2>1. Apply(disk, active[Main])' = Apply(disk', active'[Main])
      BY DEF Apply
    <2> QED BY <1>2, <2>1, SnapshotTypes, ApplyNothing, ContentsAreUpdates
  <1> QED BY <1>1, <1>2, <1>3 DEF Durable!Restart

LEMMA DurableStep ==
    TypeOK /\ TypeOK' /\ DatabaseInv /\ DatabaseInv' /\ PendingIsScheduled /\ [Next]_vars
      => [Durable!Next]_Durable!vars
  <1> SUFFICES ASSUME TypeOK, TypeOK', DatabaseInv, DatabaseInv', PendingIsScheduled,
                      [Next]_vars
               PROVE  [Durable!Next]_Durable!vars
    OBVIOUS
  <1>0. Main \in Stores
    BY DEF Stores
  <1>1. CASE UNCHANGED vars
    BY <1>1, StutterIsDurable DEF mainVars, vars, storeVars, flushVars, diskVars
  <1>2. ASSUME NEW s \in Stores, StoreStep(s) PROVE [Durable!Next]_Durable!vars
    <2>1. ASSUME NEW k \in Keys, NEW v \in Values \cup {NoValue}, Put(s, k, v)
          PROVE  Durable!Change
      BY <2>1, ChangeIsDurable DEF Put
    <2>2. CASE Flush(s)
      BY <2>2 DEF Flush, Durable!vars, diskVars, Apply
    <2>3. CASE WhenFlushed(s)
      BY <2>3 DEF WhenFlushed, Durable!vars, flushVars, diskVars, Apply
    <2>4. CASE FlushTimer(s)
      <3>1. CASE s = Main
        BY <2>4, <3>1, FlushIsDurable
      <3>2. CASE s # Main
        <4>1. active'[Main] = active[Main]
          BY <1>0, <2>4, <3>2, FlushEmpties DEF FlushTimer
        <4> QED BY <2>4, <4>1 DEF FlushTimer, Durable!vars, diskVars, Apply
      <3> QED BY <3>1, <3>2
    <2>5. CASE Close(s)
      BY <2>5 DEF Close, Durable!vars, diskVars, Apply
    <2> QED BY <1>2, <2>1, <2>2, <2>3, <2>4, <2>5 DEF StoreStep, Durable!Next
  <1>3. ASSUME NEW w \in Windows, WindowStep(w) PROVE UNCHANGED Durable!vars
    <2>0. w \in Stores /\ w # Main
      BY StoresAssumption DEF Stores
    <2>1. cache'[Main] = cache[Main] /\ active'[Main] = active[Main]
      BY <1>0, <1>3, <2>0, FreshWindowIsEmpty, SettleFlushesQueued
         DEF WindowStep, Open, ReceiveItems, ReceiveChange, ReceiveUpdated, WindowClosed,
             WindowCrashes, flushVars, TypeOK
    <2>2. UNCHANGED diskVars
      BY <1>3 DEF WindowStep, Open, ReceiveItems, ReceiveChange, ReceiveUpdated, WindowClosed,
                  WindowCrashes
    <2> QED BY <2>1, <2>2 DEF Durable!vars, diskVars, Apply
  <1>4. CASE MainStep
    <2>1. ASSUME NEW w \in Windows, GetItems(w) PROVE UNCHANGED Durable!vars
      BY <2>1 DEF GetItems, Durable!vars, storeVars, flushVars, diskVars, Apply
    <2>2. ASSUME NEW w \in Windows, UpdateItems(w) PROVE Durable!Change
      BY <2>2, ChangeIsDurable DEF UpdateItems
    <2>3. CASE FireChanges
      BY <2>3 DEF FireChanges, Durable!vars, storeVars, flushVars, diskVars, Apply
    <2>4. CASE TransactionFails
      BY <2>4, FailIsDurable DEF TransactionFails, Durable!Next
    <2> QED BY <1>4, <2>1, <2>2, <2>3, <2>4, EndIsDurable, CloseIsDurable
            DEF MainStep, Durable!Next
  <1>5. CASE Restart
    BY <1>5, RestartIsDurable DEF Durable!Next
  <1> QED BY <1>1, <1>2, <1>3, <1>4, <1>5 DEF Next

(* The main process keeps the promise of DurableStore, whatever windows and *)
(* errors do: the database holds what the memory held at some earlier       *)
(* moment, as a whole, and those moments never go back.                     *)
THEOREM StoreIsDurable == Spec => DurableSpec
  <1>1. Init => Durable!Init
    <2> SUFFICES ASSUME Init PROVE Durable!Init
      OBVIOUS
    <2>1. TypeOK
      BY TypesInitially
    <2>2. cache[Main] = disk /\ active[Main] = NoUpdate /\ isErroneous = FALSE
      BY <2>1, SnapshotTypes DEF Init
    <2>3. Apply(disk, active[Main]) = disk
      BY <2>1, <2>2, SnapshotTypes, ApplyNothing, ContentsAreUpdates
    <2> QED BY <2>1, <2>2, <2>3, SnapshotTypes DEF Durable!Init
  <1> QED BY <1>1, DurableStep, TypesAreKept, DatabaseAlways, PendingChangesAreScheduled, PTL
          DEF Spec, DurableSpec, Durable!Spec

-----------------------------------------------------------------------------
(* That windows agree with the main process *)
(* Queues of messages *)

Mentioned(q, k) == \E i \in 1 .. Len(q) : q[i].update[k] # Nothing

(* The last message of q about k, if there is one, says v. *)
LastIs(q, k, v) ==
    \A i \in 1 .. Len(q) :
        /\ q[i].update[k] # Nothing
        /\ \A j \in i + 1 .. Len(q) : q[j].update[k] = Nothing
        => q[i].update[k] = v

LEMMA NothingIsMentioned ==
    ASSUME NEW k, NEW v
    PROVE  ~Mentioned(<<>>, k) /\ LastIs(<<>>, k, v)
  BY DEF Mentioned, LastIs

LEMMA MentionedInTail ==
    ASSUME NEW M, NEW q \in Seq(M), q # <<>>, NEW k, Mentioned(q, k)
    PROVE  Head(q).update[k] # Nothing \/ Mentioned(Tail(q), k)
  <1>1. PICK i \in 1 .. Len(q) : q[i].update[k] # Nothing
    BY DEF Mentioned
  <1>2. CASE i = 1
    BY <1>1, <1>2
  <1>3. CASE i # 1
    <2>1. i - 1 \in 1 .. Len(Tail(q)) /\ Tail(q)[i - 1] = q[i]
      BY <1>3
    <2> QED BY <1>1, <2>1 DEF Mentioned
  <1> QED BY <1>2, <1>3

LEMMA LastOfTail ==
    ASSUME NEW M, NEW q \in Seq(M), q # <<>>, NEW k, NEW v, LastIs(q, k, v)
    PROVE  /\ LastIs(Tail(q), k, v)
           /\ Head(q).update[k] # Nothing /\ ~Mentioned(Tail(q), k) => Head(q).update[k] = v
  <1>0. /\ Len(q) \in Nat /\ Len(Tail(q)) = Len(q) - 1
        /\ \A i \in 1 .. Len(Tail(q)) : Tail(q)[i] = q[i + 1]
    OBVIOUS
  <1>1. LastIs(Tail(q), k, v)
    <2> SUFFICES ASSUME NEW i \in 1 .. Len(Tail(q)),
                        Tail(q)[i].update[k] # Nothing,
                        \A j \in i + 1 .. Len(Tail(q)) : Tail(q)[j].update[k] = Nothing
                 PROVE  Tail(q)[i].update[k] = v
      BY DEF LastIs
    <2>1. i + 1 \in 1 .. Len(q) /\ q[i + 1].update[k] # Nothing
      BY <1>0
    <2>2. ASSUME NEW j \in i + 2 .. Len(q)
          PROVE  q[j].update[k] = Nothing
      <3>1. j - 1 \in i + 1 .. Len(Tail(q)) /\ q[j] = Tail(q)[j - 1]
        BY <1>0
      <3> QED BY <3>1
    <2>3. \A j \in (i + 1) + 1 .. Len(q) : q[j].update[k] = Nothing
      BY <1>0, <2>2
    <2> QED BY <1>0, <2>1, <2>3 DEF LastIs
  <1>2. ASSUME Head(q).update[k] # Nothing, ~Mentioned(Tail(q), k)
        PROVE  Head(q).update[k] = v
    <2>1. 1 \in 1 .. Len(q) /\ q[1] = Head(q)
      BY <1>0
    <2>2. ASSUME NEW j \in 1 + 1 .. Len(q)
          PROVE  q[j].update[k] = Nothing
      <3>1. j - 1 \in 1 .. Len(Tail(q)) /\ q[j] = Tail(q)[j - 1]
        BY <1>0
      <3> QED BY <1>2, <3>1 DEF Mentioned
    <2> QED BY <1>2, <2>1, <2>2 DEF LastIs
  <1> QED BY <1>1, <1>2

LEMMA MentionedAppended ==
    ASSUME NEW M, NEW q \in Seq(M), NEW m \in M, NEW k
    PROVE  Mentioned(Append(q, m), k) <=> Mentioned(q, k) \/ m.update[k] # Nothing
  <1>0. /\ Len(q) \in Nat /\ Len(Append(q, m)) = Len(q) + 1
        /\ \A i \in 1 .. Len(q) : Append(q, m)[i] = q[i]
        /\ Append(q, m)[Len(q) + 1] = m
    OBVIOUS
  <1>1. ASSUME Mentioned(Append(q, m), k)
        PROVE  Mentioned(q, k) \/ m.update[k] # Nothing
    <2>1. PICK i \in 1 .. Len(q) + 1 : Append(q, m)[i].update[k] # Nothing
      BY <1>0, <1>1 DEF Mentioned
    <2> QED BY <1>0, <2>1 DEF Mentioned
  <1>2. ASSUME Mentioned(q, k) \/ m.update[k] # Nothing
        PROVE  Mentioned(Append(q, m), k)
    BY <1>0, <1>2 DEF Mentioned
  <1> QED BY <1>1, <1>2

LEMMA LastAppended ==
    ASSUME NEW M, NEW q \in Seq(M), NEW m \in M, NEW k, NEW v,
           \/ m.update[k] = v /\ v # Nothing
           \/ m.update[k] = Nothing /\ LastIs(q, k, v)
    PROVE  LastIs(Append(q, m), k, v)
  <1>0. /\ Len(q) \in Nat /\ Len(Append(q, m)) = Len(q) + 1
        /\ \A i \in 1 .. Len(q) : Append(q, m)[i] = q[i]
        /\ Append(q, m)[Len(q) + 1] = m
    OBVIOUS
  <1> SUFFICES ASSUME NEW i \in 1 .. Len(q) + 1,
                      Append(q, m)[i].update[k] # Nothing,
                      \A j \in i + 1 .. Len(q) + 1 : Append(q, m)[j].update[k] = Nothing
               PROVE  Append(q, m)[i].update[k] = v
    BY <1>0 DEF LastIs
  <1>1. CASE i = Len(q) + 1
    BY <1>0, <1>1
  <1>2. CASE i \in 1 .. Len(q)
    <2>1. Len(q) + 1 \in i + 1 .. Len(q) + 1
      BY <1>0, <1>2
    <2>2. m.update[k] = Nothing /\ LastIs(q, k, v)
      BY <1>0, <1>2, <2>1
    <2>3. \A j \in i + 1 .. Len(q) : q[j].update[k] = Nothing
      BY <1>0, <1>2
    <2> QED BY <1>0, <1>2, <2>2, <2>3 DEF LastIs
  <1> QED BY <1>0, <1>1, <1>2

(* How often messages of a type are in a queue, and what calls carry.       *)
NoneOf(q, type) == \A i \in 1 .. Len(q) : q[i].type # type

AtMostOne(q, type) ==
    \A i, j \in 1 .. Len(q) : q[i].type = type /\ q[j].type = type => i = j

Carries(q, update) ==
    \A i \in 1 .. Len(q) : q[i].type = "updateItems" => q[i].update = update

LEMMA NoneOfEmpty ==
    ASSUME NEW type
    PROVE  NoneOf(<<>>, type)
  BY DEF NoneOf

LEMMA NoneIsAtMostOne ==
    ASSUME NEW q, NEW type, NoneOf(q, type)
    PROVE  /\ AtMostOne(q, type)
           /\ type = "updateItems" => \A update : Carries(q, update)
  BY DEF NoneOf, AtMostOne, Carries

LEMMA TypesOfTail ==
    ASSUME NEW M, NEW q \in Seq(M), q # <<>>, NEW type
    PROVE  /\ NoneOf(q, type) => NoneOf(Tail(q), type)
           /\ AtMostOne(q, type) => AtMostOne(Tail(q), type)
           /\ AtMostOne(q, type) /\ Head(q).type = type => NoneOf(Tail(q), type)
           /\ NoneOf(q, type) => Head(q).type # type
           /\ \A update : Carries(q, update) => Carries(Tail(q), update)
           /\ \A update : /\ Carries(q, update) /\ Head(q).type = "updateItems"
                         => Head(q).update = update
  <1>0. /\ Len(q) \in Nat /\ Len(Tail(q)) = Len(q) - 1
        /\ 1 \in 1 .. Len(q) /\ Head(q) = q[1]
        /\ \A i \in 1 .. Len(Tail(q)) : i + 1 \in 1 .. Len(q) /\ Tail(q)[i] = q[i + 1]
    OBVIOUS
  <1>1. NoneOf(q, type) => NoneOf(Tail(q), type) /\ Head(q).type # type
    BY <1>0 DEF NoneOf
  <1>2. AtMostOne(q, type) => AtMostOne(Tail(q), type)
    <2> SUFFICES ASSUME AtMostOne(q, type),
                        NEW i \in 1 .. Len(Tail(q)), NEW j \in 1 .. Len(Tail(q)),
                        Tail(q)[i].type = type, Tail(q)[j].type = type
                 PROVE  i = j
      BY DEF AtMostOne
    <2>1. i + 1 = j + 1
      BY <1>0 DEF AtMostOne
    <2> QED BY <1>0, <2>1
  <1>3. AtMostOne(q, type) /\ Head(q).type = type => NoneOf(Tail(q), type)
    <2> SUFFICES ASSUME AtMostOne(q, type), Head(q).type = type,
                        NEW i \in 1 .. Len(Tail(q)), Tail(q)[i].type = type
                 PROVE  FALSE
      BY DEF NoneOf
    <2>1. i + 1 = 1
      BY <1>0 DEF AtMostOne
    <2> QED BY <1>0, <2>1
  <1>4. ASSUME NEW update, Carries(q, update)
        PROVE  /\ Carries(Tail(q), update)
               /\ Head(q).type = "updateItems" => Head(q).update = update
    BY <1>0, <1>4 DEF Carries
  <1> QED BY <1>1, <1>2, <1>3, <1>4

LEMMA TypesAppended ==
    ASSUME NEW M, NEW q \in Seq(M), NEW m \in M, NEW type
    PROVE  /\ NoneOf(q, type) /\ m.type # type => NoneOf(Append(q, m), type)
           /\ NoneOf(q, type) => AtMostOne(Append(q, m), type)
           /\ AtMostOne(q, type) /\ m.type # type => AtMostOne(Append(q, m), type)
           /\ \A update : NoneOf(q, "updateItems") /\ m.update = update
                           => Carries(Append(q, m), update)
  <1>0. /\ Len(q) \in Nat /\ Len(Append(q, m)) = Len(q) + 1
        /\ \A i \in 1 .. Len(q) : Append(q, m)[i] = q[i]
        /\ Append(q, m)[Len(q) + 1] = m
    OBVIOUS
  <1>1. \A i \in 1 .. Len(Append(q, m)) : i \in 1 .. Len(q) \/ i = Len(q) + 1
    BY <1>0
  <1>2. NoneOf(q, type) /\ m.type # type => NoneOf(Append(q, m), type)
    BY <1>0, <1>1 DEF NoneOf
  <1>3. NoneOf(q, type) => AtMostOne(Append(q, m), type)
    BY <1>0, <1>1 DEF NoneOf, AtMostOne
  <1>4. AtMostOne(q, type) /\ m.type # type => AtMostOne(Append(q, m), type)
    BY <1>0, <1>1 DEF AtMostOne
  <1>5. ASSUME NEW update, NoneOf(q, "updateItems"), m.update = update
        PROVE  Carries(Append(q, m), update)
    BY <1>0, <1>1, <1>5 DEF NoneOf, Carries
  <1> QED BY <1>2, <1>3, <1>4, <1>5

-----------------------------------------------------------------------------
(* A window that is gone has no timer and no messages. *)
GoneIsSilent ==
    \A w \in Windows :
        ~IsOpen(w) => ~delayer[w] /\ toMain[w] = <<>> /\ toWindow[w] = <<>>

LEMMA GoneStep == TypeOK /\ GoneIsSilent /\ [Next]_vars => GoneIsSilent'
  <1> SUFFICES ASSUME TypeOK, GoneIsSilent, [Next]_vars, NEW x \in Windows,
                      ~(IsOpen(x)')
               PROVE  ~delayer'[x] /\ toMain'[x] = <<>> /\ toWindow'[x] = <<>>
    BY DEF GoneIsSilent
  <1> DEFINE Goal == ~delayer'[x] /\ toMain'[x] = <<>> /\ toWindow'[x] = <<>>
  <1>0. x \in Stores /\ x # Main /\ Main \in Stores
    BY StoresAssumption DEF Stores
  <1>a. ASSUME state'[x] = state[x]
        PROVE  ~IsOpen(x) /\ ~delayer[x] /\ toMain[x] = <<>> /\ toWindow[x] = <<>>
    BY <1>a DEF IsOpen, GoneIsSilent
  <1>1. CASE UNCHANGED vars
    BY <1>1, <1>a DEF vars, storeVars, flushVars, channelVars
  <1>2. ASSUME NEW s \in Stores, StoreStep(s) PROVE Goal
    <2>1. ASSUME NEW k \in Keys, NEW v \in Values \cup {NoValue}, Put(s, k, v)
          PROVE  Goal
      <3>1. s # x
        BY <2>1, <1>a DEF Put, IsOpen
      <3>2. [NoUpdate EXCEPT ![k] = v] \in Updates
        BY DEF NoUpdate, Updates
      <3> QED BY <1>0, <1>a, <2>1, <3>1, <3>2, WriteSchedules DEF Put
    <2>2. CASE Flush(s)
      BY <1>0, <1>a, <2>2 DEF Flush, IsOpen, TypeOK, channelVars
    <2>3. CASE WhenFlushed(s)
      BY <1>a, <2>3 DEF WhenFlushed, flushVars, channelVars
    <2>4. CASE FlushTimer(s)
      <3>1. s # x
        BY <2>4, <1>a DEF FlushTimer
      <3>2. toMain'[x] = toMain[x]
        BY <1>0, <2>4, <3>1 DEF FlushTimer, FlushPending, TypeOK
      <3> QED BY <1>0, <1>a, <2>4, <3>1, <3>2 DEF FlushTimer, TypeOK
    <2>5. CASE Close(s)
      BY <1>0, <1>a, <2>5 DEF Close, IsOpen, TypeOK, channelVars
    <2> QED BY <1>2, <2>1, <2>2, <2>3, <2>4, <2>5 DEF StoreStep
  <1>3. ASSUME NEW w \in Windows, WindowStep(w) PROVE Goal
    <2>0. w \in Stores
      BY DEF Stores
    <2>1. CASE Open(w) \/ WindowClosed(w) \/ WindowCrashes(w)
      <3>1. FreshWindow(w)
        BY <2>1 DEF Open, WindowClosed, WindowCrashes
      <3>2. CASE x # w
        <4>1. state'[x] = state[x] /\ toMain'[x] = toMain[x] /\ toWindow'[x] = toWindow[x]
          BY <1>0, <2>0, <2>1, <3>1, <3>2
             DEF Open, WindowClosed, WindowCrashes, FreshWindow, TypeOK
        <4> QED BY <1>0, <1>a, <3>1, <3>2, <4>1, FreshWindowIsEmpty
      <3>3. CASE x = w
        <4>1. ~Open(w)
          BY <2>0, <3>3 DEF Open, IsOpen, TypeOK
        <4>2. /\ toMain' = [toMain EXCEPT ![w] = <<>>]
              /\ toWindow' = [toWindow EXCEPT ![w] = <<>>]
              /\ delayer' = [delayer EXCEPT ![w] = FALSE]
          BY <2>1, <3>1, <4>1 DEF WindowClosed, WindowCrashes, FreshWindow
        <4> QED BY <2>0, <3>3, <4>2 DEF TypeOK
      <3> QED BY <3>2, <3>3
    <2>2. CASE ReceiveItems(w) \/ ReceiveChange(w)
      BY <1>a, <2>2 DEF ReceiveItems, ReceiveChange, Read, flushVars, TypeOK
    <2>3. CASE ReceiveUpdated(w)
      <3>1. x # w /\ toWindow'[x] = toWindow[x] /\ delayer'[x] = delayer[x]
        BY <1>a, <2>3 DEF ReceiveUpdated, Read, TypeOK
      <3>2. toMain'[x] = toMain[x]
        BY <1>0, <2>0, <2>3, <3>1 DEF ReceiveUpdated, Settle, FlushPending, TypeOK
      <3> QED BY <1>a, <2>3, <3>1, <3>2 DEF ReceiveUpdated
    <2> QED BY <1>3, <2>1, <2>2, <2>3 DEF WindowStep
  <1>4. CASE MainStep
    <2>1. ASSUME NEW w \in Windows, GetItems(w) PROVE Goal
      BY <1>a, <2>1 DEF GetItems, Called, SendTo, TypeOK, storeVars, flushVars
    <2>2. ASSUME NEW w \in Windows, UpdateItems(w) PROVE Goal
      <3>1. x # w /\ toMain'[x] = toMain[x] /\ toWindow'[x] = toWindow[x]
        BY <1>a, <2>2 DEF UpdateItems, Called, SendTo, TypeOK
      <3>2. delayer'[x] = delayer[x]
        BY <1>0, <2>2, WriteSchedules, CalledTypes DEF UpdateItems
      <3> QED BY <1>a, <2>2, <3>1, <3>2 DEF UpdateItems
    <2>3. CASE FireChanges
      <3>1. UNCHANGED <<state, delayer, toMain>> /\ ~IsOpen(x)
        BY <1>a, <2>3 DEF FireChanges, storeVars, flushVars
      <3>2. toWindow'[x] = toWindow[x]
        BY <2>3, <3>1 DEF FireChanges
      <3> QED BY <1>a, <3>1, <3>2
    <2>4. CASE TransactionEnds \/ TransactionFails
      BY <1>0, <1>a, <2>4 DEF TransactionEnds, TransactionFails, Settle, FlushPending
    <2>5. CASE DatabaseClosed
      BY <1>0, <1>a, <2>5 DEF DatabaseClosed, flushVars, channelVars, TypeOK
    <2> QED BY <1>4, <2>1, <2>2, <2>3, <2>4, <2>5 DEF MainStep
  <1>5. CASE Restart
    BY <1>0, <1>5 DEF Restart
  <1> QED BY <1>1, <1>2, <1>3, <1>4, <1>5 DEF Next

-----------------------------------------------------------------------------
(* What a window is told last is true: once nothing about k is waiting in   *)
(* the debounced event, the last message about k carries the value that the *)
(* main process holds.                                                      *)
NewsIsTrue ==
    \A w \in Windows, k \in Keys :
        k \notin changed => LastIs(toWindow[w], k, cache[Main][k])

LEMMA MainValueIsNotNothing ==
    ASSUME TypeOK, NEW k \in Keys
    PROVE  cache[Main][k] \in Values \cup {NoValue} /\ cache[Main][k] # Nothing
  BY SnapshotTypes, ValuesAssumption DEF Contents

(* A write of the main process puts what it changes into the event.         *)
LEMMA WriteIsAnnounced ==
    ASSUME TypeOK, NEW update \in Updates, Write(Main, update)
    PROVE  /\ changed \subseteq changed'
           /\ \A k \in Keys : k \notin changed' => cache'[Main][k] = cache[Main][k]
           /\ \A k \in Keys : /\ state[Main] = "Initialized" /\ update[k] # Nothing
                              => cache'[Main][k] = update[k]
  <1> DEFINE effect == Effective(Main, update)
  <1>0. Main \in Stores /\ cache[Main] \in Contents /\ effect \in Updates
    BY SnapshotTypes, EffectiveType
  <1>1. /\ changed' = changed \cup {k \in Keys : effect[k] # Nothing}
        /\ cache' = [cache EXCEPT ![Main] = Apply(cache[Main], effect)]
    BY DEF Write
  <1>2. \A k \in Keys : effect[k] = (IF state[Main] # "Initialized" \/ update[k] = cache[Main][k]
                                    THEN Nothing ELSE update[k])
    BY DEF Effective
  <1> HIDE DEF effect
  <1>3. cache'[Main] = Apply(cache[Main], effect)
    BY <1>0, <1>1 DEF TypeOK
  <1>4. \A k \in Keys : cache'[Main][k] = IF effect[k] = Nothing THEN cache[Main][k] ELSE effect[k]
    BY <1>0, <1>3, ApplyToContents
  <1> QED BY <1>1, <1>2, <1>4

(* Other stores do not write the cache of the main process.                 *)
LEMMA OnlyMainWrites ==
    ASSUME TypeOK, NEW s \in Windows, NEW update \in Updates, Write(s, update)
    PROVE  cache'[Main] = cache[Main] /\ changed' = changed
  BY StoresAssumption, WriteChanges, SnapshotTypes DEF Write, Stores

LEMMA SameNews ==
    ASSUME NewsIsTrue, changed \subseteq changed', toWindow' = toWindow,
           \A k \in Keys : k \notin changed' => cache'[Main][k] = cache[Main][k]
    PROVE  NewsIsTrue'
  BY DEF NewsIsTrue, LastIs

LEMMA NewsStep == TypeOK /\ GoneIsSilent /\ NewsIsTrue /\ [Next]_vars => NewsIsTrue'
  <1> SUFFICES ASSUME TypeOK, GoneIsSilent, NewsIsTrue, [Next]_vars
               PROVE  NewsIsTrue'
    OBVIOUS
  <1>0. Main \in Stores /\ \A w \in Windows : w \in Stores /\ w # Main
    BY StoresAssumption DEF Stores
  <1>1. CASE UNCHANGED vars
    BY <1>1, SameNews DEF vars, storeVars, channelVars
  <1>2. ASSUME NEW s \in Stores, StoreStep(s) PROVE NewsIsTrue'
    <2>1. ASSUME NEW k \in Keys, NEW v \in Values \cup {NoValue}, Put(s, k, v)
          PROVE  NewsIsTrue'
      <3>1. [NoUpdate EXCEPT ![k] = v] \in Updates
        BY DEF NoUpdate, Updates
      <3>2. Write(s, [NoUpdate EXCEPT ![k] = v]) /\ toWindow' = toWindow
        BY <2>1 DEF Put
      <3> QED BY <3>1, <3>2, WriteIsAnnounced, OnlyMainWrites, SameNews DEF Stores
    <2>2. CASE Flush(s) \/ WhenFlushed(s) \/ FlushTimer(s) \/ Close(s)
      BY <2>2, SameNews DEF Flush, WhenFlushed, FlushTimer, Close, channelVars
    <2> QED BY <1>2, <2>1, <2>2 DEF StoreStep
  <1>3. ASSUME NEW w \in Windows, WindowStep(w) PROVE NewsIsTrue'
    <2>1. CASE Open(w) \/ WindowClosed(w) \/ WindowCrashes(w)
      <3>1. FreshWindow(w) /\ changed' = changed
        BY <2>1 DEF Open, WindowClosed, WindowCrashes
      <3>2. cache'[Main] = cache[Main]
        BY <1>0, <3>1, FreshWindowIsEmpty
      <3>3. toWindow' = [toWindow EXCEPT ![w] = <<>>]
        BY <3>1 DEF FreshWindow
      <3>4. \A x \in Windows : toWindow'[x] = IF x = w THEN <<>> ELSE toWindow[x]
        BY <3>3 DEF TypeOK
      <3> QED BY <3>1, <3>2, <3>4, NothingIsMentioned DEF NewsIsTrue
    <2>2. ASSUME NEW type, Read(w, type), cache'[Main] = cache[Main], changed' = changed
          PROVE  NewsIsTrue'
      <3>1. /\ toWindow[w] \in Seq(ToWindow) /\ toWindow[w] # <<>>
            /\ \A x \in Windows : toWindow'[x] = IF x = w THEN Tail(toWindow[w]) ELSE toWindow[x]
        BY <2>2 DEF Read, TypeOK
      <3> QED BY <2>2, <3>1, LastOfTail DEF NewsIsTrue
    <2>3. CASE ReceiveItems(w) \/ ReceiveChange(w)
      <3>1. cache'[Main] = cache[Main] /\ changed' = changed
        BY <1>0, <2>3 DEF ReceiveItems, ReceiveChange, TypeOK
      <3> QED BY <2>2, <2>3, <3>1 DEF ReceiveItems, ReceiveChange
    <2>4. CASE ReceiveUpdated(w)
      BY <2>2, <2>4 DEF ReceiveUpdated
    <2> QED BY <1>3, <2>1, <2>3, <2>4 DEF WindowStep
  <1>4. CASE MainStep
    <2>1. ASSUME NEW w \in Windows, GetItems(w) PROVE NewsIsTrue'
      <3>1. /\ UNCHANGED <<cache, changed>>
            /\ \A x \in Windows : toWindow'[x] = IF x = w
                    THEN Append(toWindow[w], Msg("items", cache[Main])) ELSE toWindow[x]
        BY <2>1 DEF GetItems, SendTo, TypeOK, storeVars
      <3>2. /\ Msg("items", cache[Main]) \in ToWindow
            /\ Msg("items", cache[Main]).update = cache[Main]
        BY SnapshotTypes, ContentsAreUpdates, MsgTypes DEF Msg
      <3>3. toWindow[w] \in Seq(ToWindow)
        BY DEF TypeOK
      <3>4. \A k \in Keys :
               LastIs(Append(toWindow[w], Msg("items", cache[Main])), k, cache[Main][k])
        BY <3>2, <3>3, LastAppended, MainValueIsNotNothing
      <3> QED BY <3>1, <3>4 DEF NewsIsTrue
    <2>2. ASSUME NEW w \in Windows, UpdateItems(w) PROVE NewsIsTrue'
      <3>1. /\ changed \subseteq changed'
            /\ \A k \in Keys : k \notin changed' => cache'[Main][k] = cache[Main][k]
        BY <2>2, CalledTypes, WriteIsAnnounced DEF UpdateItems
      <3>2. \A x \in Windows : toWindow'[x] = IF x = w
                    THEN Append(toWindow[w], Msg("updated", NoUpdate)) ELSE toWindow[x]
        BY <2>2 DEF UpdateItems, SendTo, TypeOK
      <3>3. /\ Msg("updated", NoUpdate) \in ToWindow /\ toWindow[w] \in Seq(ToWindow)
            /\ \A k \in Keys : Msg("updated", NoUpdate).update[k] = Nothing
        BY MsgTypes, NoUpdateType DEF Msg, NoUpdate, TypeOK
      <3>4. ASSUME NEW x \in Windows, NEW k \in Keys, k \notin changed'
            PROVE  LastIs(toWindow'[x], k, cache'[Main][k])
        <4>1. LastIs(toWindow[x], k, cache[Main][k]) /\ cache'[Main][k] = cache[Main][k]
          BY <3>1, <3>4 DEF NewsIsTrue
        <4> QED BY <3>2, <3>3, <4>1, LastAppended
      <3> QED BY <3>4 DEF NewsIsTrue
    <2>3. CASE FireChanges
      <3> DEFINE update == [k \in Keys |-> IF k \in changed THEN cache[Main][k] ELSE Nothing]
      <3>1. update \in Updates
        BY SnapshotTypes DEF Updates, Contents
      <3>2. Msg("changed", update) \in ToWindow /\ Msg("changed", update).update = update
        BY <3>1, MsgTypes DEF Msg
      <3>3. \A w \in Windows : toWindow'[w] = IF IsOpen(w)
                       THEN Append(toWindow[w], Msg("changed", update)) ELSE toWindow[w]
        BY <2>3 DEF FireChanges
      <3>4. \A k \in Keys : update[k] = IF k \in changed THEN cache[Main][k] ELSE Nothing
        OBVIOUS
      <3>5. UNCHANGED cache
        BY <2>3 DEF FireChanges, storeVars
      <3> HIDE DEF update
      <3>6. ASSUME NEW w \in Windows, NEW k \in Keys
            PROVE  LastIs(toWindow'[w], k, cache[Main][k])
        <4>1. toWindow[w] \in Seq(ToWindow) /\ (~IsOpen(w) => toWindow[w] = <<>>)
          BY DEF TypeOK, GoneIsSilent
        <4> QED BY <3>2, <3>3, <3>4, <4>1, LastAppended, MainValueIsNotNothing,
                   NothingIsMentioned DEF NewsIsTrue
      <3> QED BY <3>5, <3>6 DEF NewsIsTrue
    <2>4. CASE TransactionEnds \/ TransactionFails \/ DatabaseClosed
      BY <2>4, SameNews DEF TransactionEnds, TransactionFails, DatabaseClosed, channelVars
    <2> QED BY <1>4, <2>1, <2>2, <2>3, <2>4 DEF MainStep
  <1>5. CASE Restart
    BY <1>5, NothingIsMentioned DEF Restart, NewsIsTrue
  <1> QED BY <1>1, <1>2, <1>3, <1>4, <1>5 DEF Next

-----------------------------------------------------------------------------
(* What concerns one window *)

at(x) == <<state[x], cache[x], pending[x], active[x], toMain[x], toWindow[x]>>

(* A step of another store leaves a window alone.                           *)
LEMMA StoreStepElsewhere ==
    ASSUME TypeOK, NEW s \in Stores, NEW x \in Windows, s # x, StoreStep(s)
    PROVE  UNCHANGED at(x)
  <1>0. x \in Stores
    BY DEF Stores
  <1>1. ASSUME NEW k \in Keys, NEW v \in Values \cup {NoValue}, Put(s, k, v)
        PROVE  UNCHANGED at(x)
    <2>1. [NoUpdate EXCEPT ![k] = v] \in Updates
      BY DEF NoUpdate, Updates
    <2> QED BY <1>0, <1>1, <2>1, WriteChanges DEF Put, at
  <1>2. CASE Flush(s) \/ WhenFlushed(s)
    BY <1>2 DEF Flush, WhenFlushed, at, flushVars, channelVars
  <1>3. CASE FlushTimer(s)
    <2>1. pending'[x] = pending[x] /\ active'[x] = active[x]
      BY <1>0, <1>3, FlushEmpties DEF FlushTimer
    <2>2. toMain'[x] = toMain[x]
      BY <1>3 DEF FlushTimer, FlushPending, TypeOK
    <2> QED BY <1>3, <2>1, <2>2 DEF FlushTimer, at
  <1>4. CASE Close(s)
    BY <1>0, <1>4 DEF Close, at, channelVars, TypeOK
  <1> QED BY <1>1, <1>2, <1>3, <1>4 DEF StoreStep

LEMMA WindowStepElsewhere ==
    ASSUME TypeOK, NEW w \in Windows, WindowStep(w)
    PROVE  /\ \A x \in Windows \ {w} : UNCHANGED at(x)
           /\ cache'[Main] = cache[Main] /\ state'[Main] = state[Main] /\ changed' = changed
  <1>0. w \in Stores /\ Main \in Stores /\ Main # w
    BY StoresAssumption DEF Stores
  <1>1. CASE Open(w) \/ WindowClosed(w) \/ WindowCrashes(w)
    <2>1. FreshWindow(w) /\ changed' = changed
      BY <1>1 DEF Open, WindowClosed, WindowCrashes
    <2>2. \A x \in Stores \ {w} : state'[x] = state[x]
      BY <1>0, <1>1 DEF Open, WindowClosed, WindowCrashes, TypeOK
    <2>3. \A x \in Windows \ {w} : toMain'[x] = toMain[x] /\ toWindow'[x] = toWindow[x]
      BY <1>1, <2>1 DEF Open, WindowClosed, WindowCrashes, FreshWindow, TypeOK
    <2>4. \A x \in Stores \ {w} : /\ cache'[x] = cache[x] /\ pending'[x] = pending[x]
                                 /\ active'[x] = active[x]
      BY <2>1, FreshWindowIsEmpty
    <2>5. \A x \in Windows : x \in Stores
      BY DEF Stores
    <2> QED BY <1>0, <2>1, <2>2, <2>3, <2>4, <2>5 DEF at
  <1>2. CASE ReceiveItems(w) \/ ReceiveChange(w)
    <2>1. /\ UNCHANGED <<state, pending, active, toMain, changed>>
          /\ \A x \in Windows \ {w} : toWindow'[x] = toWindow[x]
          /\ \A x \in Stores \ {w} : cache'[x] = cache[x]
      BY <1>0, <1>2 DEF ReceiveItems, ReceiveChange, Read, TypeOK, flushVars
    <2> QED BY <1>0, <2>1 DEF at, Stores
  <1>3. CASE ReceiveUpdated(w)
    <2>1. /\ UNCHANGED <<state, cache, changed>>
          /\ \A x \in Windows \ {w} : toWindow'[x] = toWindow[x]
      BY <1>0, <1>3 DEF ReceiveUpdated, Read, TypeOK
    <2>2. \A x \in Stores \ {w} : pending'[x] = pending[x] /\ active'[x] = active[x]
      BY <1>0, <1>3, SettleFlushesQueued DEF ReceiveUpdated
    <2>3. \A x \in Windows \ {w} : toMain'[x] = toMain[x]
      BY <1>0, <1>3 DEF ReceiveUpdated, Settle, FlushPending, TypeOK
    <2> QED BY <1>0, <2>1, <2>2, <2>3 DEF at, Stores
  <1> QED BY <1>1, <1>2, <1>3 DEF WindowStep

-----------------------------------------------------------------------------
(* A window has one batch on its way: a call, or its answer, never both,    *)
(* and the call carries that batch.                                         *)
Batch(w) ==
    /\ AtMostOne(toMain[w], "updateItems") /\ AtMostOne(toWindow[w], "updated")
    /\ Carries(toMain[w], active[w])
    /\ NoneOf(toMain[w], "updateItems") \/ NoneOf(toWindow[w], "updated")
    /\ active[w] = NoUpdate =>
          NoneOf(toMain[w], "updateItems") /\ NoneOf(toWindow[w], "updated")

OneBatch == \A w \in Windows : Batch(w)

LEMMA SameBatch ==
    ASSUME NEW x, Batch(x), active'[x] = active[x], toMain'[x] = toMain[x],
           toWindow'[x] = toWindow[x]
    PROVE  Batch(x)'
  BY DEF Batch, NoneOf, AtMostOne, Carries

LEMMA EmptyBatch ==
    ASSUME NEW x, toMain'[x] = <<>>, toWindow'[x] = <<>>
    PROVE  Batch(x)'
  BY DEF Batch, NoneOf, AtMostOne, Carries

(* A flush with nothing on its way sends the next batch.                    *)
LEMMA FlushSendsBatch ==
    ASSUME TypeOK, NEW w \in Windows, FlushPending(w),
           NoneOf(toMain[w], "updateItems"), NoneOf(toWindow'[w], "updated")
    PROVE  Batch(w)'
  <1>0. w \in Stores /\ w # Main /\ toMain[w] \in Seq(ToMain) /\ pending[w] \in Updates
    BY StoresAssumption DEF Stores, TypeOK
  <1>1. active'[w] = pending[w]
    BY <1>0, FlushEmpties
  <1>2. CASE pending[w] = NoUpdate
    <2>1. toMain'[w] = toMain[w]
      BY <1>2 DEF FlushPending
    <2>2. NoneOf(toMain'[w], "updateItems")
      BY <2>1 DEF NoneOf
    <2> QED BY <2>2, NoneIsAtMostOne DEF Batch
  <1>3. CASE pending[w] # NoUpdate
    <2> DEFINE m == Msg("updateItems", pending[w])
    <2>1. m \in ToMain /\ m.update = pending[w]
      BY <1>0, MsgTypes DEF Msg
    <2>2. toMain'[w] = Append(toMain[w], m)
      BY <1>0, <1>3 DEF FlushPending, TypeOK
    <2> HIDE DEF m
    <2>3. AtMostOne(toMain'[w], "updateItems") /\ Carries(toMain'[w], active'[w])
      BY <1>0, <1>1, <2>1, <2>2, TypesAppended
    <2> QED BY <1>1, <1>3, <2>3, NoneIsAtMostOne DEF Batch, NoUpdate
  <1> QED BY <1>2, <1>3

LEMMA QueueTypes ==
    ASSUME TypeOK, NEW w \in Windows
    PROVE  /\ w \in Stores /\ w # Main
           /\ toMain[w] \in Seq(ToMain) /\ toWindow[w] \in Seq(ToWindow)
           /\ cache[w] \in Contents /\ pending[w] \in Updates /\ active[w] \in Updates
  BY StoresAssumption DEF TypeOK, Stores

(* What reading and calling do to the queues of a window.                   *)
LEMMA ReadTakes ==
    ASSUME TypeOK, NEW w \in Windows, NEW type, Read(w, type)
    PROVE  toWindow[w] # <<>> /\ Head(toWindow[w]).type = type /\ toWindow'[w] = Tail(toWindow[w])
  BY DEF Read, TypeOK

LEMMA CalledTakes ==
    ASSUME TypeOK, NEW w \in Windows, NEW type, Called(w, type)
    PROVE  /\ toMain[w] # <<>> /\ Head(toMain[w]).type = type
           /\ toMain'[w] = Tail(toMain[w])
           /\ \A x \in Windows \ {w} : toMain'[x] = toMain[x]
  BY DEF Called, TypeOK

LEMMA SendAppends ==
    ASSUME TypeOK, NEW w \in Windows, NEW msg, SendTo(w, msg)
    PROVE  /\ toWindow'[w] = Append(toWindow[w], msg)
           /\ \A x \in Windows \ {w} : toWindow'[x] = toWindow[x]
  BY DEF SendTo, TypeOK

LEMMA BatchStep == TypeOK /\ OneBatch /\ [Next]_vars => OneBatch'
  <1> SUFFICES ASSUME TypeOK, OneBatch, [Next]_vars, NEW x \in Windows
               PROVE  Batch(x)'
    BY DEF OneBatch
  <1>0. Batch(x) /\ x \in Stores /\ x # Main
    BY StoresAssumption DEF OneBatch, Stores
  <1>a. ASSUME UNCHANGED at(x) PROVE Batch(x)'
    BY <1>0, <1>a, SameBatch DEF at
  <1>1. CASE UNCHANGED vars
    BY <1>a, <1>1 DEF at, vars, storeVars, flushVars, channelVars
  <1>2. ASSUME NEW s \in Stores, StoreStep(s) PROVE Batch(x)'
    <2>1. CASE s # x
      BY <1>a, <1>2, <2>1, StoreStepElsewhere
    <2>2. CASE s = x /\ ~FlushTimer(x)
      BY <1>0, <1>2, <2>2, SameBatch
         DEF StoreStep, Put, Flush, WhenFlushed, Close, flushVars, channelVars
    <2>3. CASE FlushTimer(x)
      <3>1. CASE active[x] = NoUpdate /\ FlushPending(x)
        <4>1. NoneOf(toMain[x], "updateItems") /\ NoneOf(toWindow[x], "updated")
          BY <1>0, <3>1 DEF Batch
        <4>2. NoneOf(toWindow'[x], "updated")
          BY <2>3, <4>1 DEF FlushTimer
        <4> QED BY <3>1, <4>1, <4>2, FlushSendsBatch
      <3>2. CASE UNCHANGED <<active, pending, toMain>>
        BY <1>0, <2>3, <3>2, SameBatch DEF FlushTimer
      <3> QED BY <2>3, <3>1, <3>2 DEF FlushTimer
    <2> QED BY <2>1, <2>2, <2>3
  <1>3. ASSUME NEW w \in Windows, WindowStep(w) PROVE Batch(x)'
    <2>1. CASE w # x
      BY <1>a, <1>3, <2>1, WindowStepElsewhere
    <2>2. CASE w = x
      <3>1. CASE Open(x)
        <4> DEFINE m == Msg("getItems", NoUpdate)
        <4>1. /\ toMain'[x] = <<m>> /\ toWindow'[x] = <<>> /\ m.type = "getItems"
          BY <3>1 DEF Open, FreshWindow, TypeOK, Msg
        <4> HIDE DEF m
        <4>2. NoneOf(toMain'[x], "updateItems") /\ NoneOf(toWindow'[x], "updated")
          BY <4>1 DEF NoneOf
        <4> QED BY <4>2, NoneIsAtMostOne DEF Batch
      <3>2. CASE WindowClosed(x) \/ WindowCrashes(x)
        BY <3>2, EmptyBatch DEF WindowClosed, WindowCrashes, FreshWindow, TypeOK
      <3>3. CASE ReceiveItems(x) \/ ReceiveChange(x)
        <4>1. /\ toWindow[x] # <<>> /\ toWindow'[x] = Tail(toWindow[x])
              /\ UNCHANGED <<active, toMain>>
          BY <3>3, ReadTakes DEF ReceiveItems, ReceiveChange, flushVars
        <4>2. /\ AtMostOne(toWindow'[x], "updated")
              /\ NoneOf(toWindow[x], "updated") => NoneOf(toWindow'[x], "updated")
          BY <1>0, <4>1, QueueTypes, TypesOfTail DEF Batch
        <4> QED BY <1>0, <4>1, <4>2 DEF Batch, NoneOf, AtMostOne, Carries
      <3>4. CASE ReceiveUpdated(x)
        <4>1. /\ toWindow[x] # <<>> /\ toWindow'[x] = Tail(toWindow[x])
              /\ Head(toWindow[x]).type = "updated"
          BY <3>4, ReadTakes DEF ReceiveUpdated
        <4>2. NoneOf(toWindow'[x], "updated") /\ ~NoneOf(toWindow[x], "updated")
          BY <1>0, <4>1, QueueTypes, TypesOfTail DEF Batch
        <4>3. NoneOf(toMain[x], "updateItems")
          BY <1>0, <4>2 DEF Batch
        <4>4. CASE queued[x]
          BY <3>4, <4>2, <4>3, <4>4, FlushSendsBatch DEF ReceiveUpdated, Settle
        <4>5. CASE ~queued[x]
          <5>1. toMain' = toMain
            BY <3>4, <4>5 DEF ReceiveUpdated, Settle
          <5>2. NoneOf(toMain'[x], "updateItems")
            BY <4>3, <5>1
          <5> QED BY <4>2, <5>2, NoneIsAtMostOne DEF Batch
        <4> QED BY <4>4, <4>5
      <3> QED BY <1>3, <2>2, <3>1, <3>2, <3>3, <3>4 DEF WindowStep
    <2> QED BY <2>1, <2>2
  <1>4. CASE MainStep
    <2>1. ASSUME NEW w \in Windows, GetItems(w) PROVE Batch(x)'
      <3>1. CASE w # x
        BY <1>a, <2>1, <3>1, CalledTakes, SendAppends DEF GetItems, at, storeVars, flushVars
      <3>2. CASE w = x
        <4> DEFINE m == Msg("items", cache[Main])
        <4>1. m \in ToWindow /\ m.type # "updated"
          BY SnapshotTypes, ContentsAreUpdates, MsgTypes DEF Msg
        <4>2. /\ toMain[x] # <<>> /\ toMain'[x] = Tail(toMain[x])
              /\ toWindow'[x] = Append(toWindow[x], m) /\ UNCHANGED active
          BY <2>1, <3>2, CalledTakes, SendAppends DEF GetItems, storeVars, flushVars
        <4> HIDE DEF m
        <4>3. /\ AtMostOne(toWindow'[x], "updated")
              /\ NoneOf(toWindow[x], "updated") => NoneOf(toWindow'[x], "updated")
          BY <1>0, <4>1, <4>2, QueueTypes, TypesAppended DEF Batch
        <4>4. /\ AtMostOne(toMain'[x], "updateItems") /\ Carries(toMain'[x], active[x])
              /\ NoneOf(toMain[x], "updateItems") => NoneOf(toMain'[x], "updateItems")
          BY <1>0, <4>2, QueueTypes, TypesOfTail DEF Batch
        <4> QED BY <1>0, <4>2, <4>3, <4>4 DEF Batch, NoUpdate
      <3> QED BY <3>1, <3>2
    <2>2. ASSUME NEW w \in Windows, UpdateItems(w) PROVE Batch(x)'
      <3>1. CASE w # x
        BY <1>0, <2>2, <3>1, CalledTakes, SendAppends, SameBatch DEF UpdateItems
      <3>2. CASE w = x
        <4> DEFINE m == Msg("updated", NoUpdate)
        <4>1. m \in ToWindow
          BY MsgTypes, NoUpdateType
        <4>2. /\ toMain[x] # <<>> /\ toMain'[x] = Tail(toMain[x])
              /\ Head(toMain[x]).type = "updateItems"
              /\ toWindow'[x] = Append(toWindow[x], m) /\ UNCHANGED active
          BY <2>2, <3>2, CalledTakes, SendAppends DEF UpdateItems
        <4> HIDE DEF m
        <4>3. /\ NoneOf(toMain'[x], "updateItems") /\ ~NoneOf(toMain[x], "updateItems")
              /\ Carries(toMain'[x], active[x])
          BY <1>0, <4>2, QueueTypes, TypesOfTail DEF Batch
        <4>4. NoneOf(toWindow[x], "updated") /\ active[x] # NoUpdate
          BY <1>0, <4>3 DEF Batch
        <4>5. AtMostOne(toWindow'[x], "updated")
          BY <4>1, <4>2, <4>4, QueueTypes, TypesAppended
        <4> QED BY <4>2, <4>3, <4>4, <4>5, NoneIsAtMostOne DEF Batch, NoUpdate
      <3> QED BY <3>1, <3>2
    <2>3. CASE FireChanges
      <3> DEFINE m == Msg("changed", [k \in Keys |-> IF k \in changed THEN cache[Main][k]
                                                    ELSE Nothing])
      <3>1. m \in ToWindow /\ m.type # "updated"
        <4>1. [k \in Keys |-> IF k \in changed THEN cache[Main][k] ELSE Nothing] \in Updates
          BY SnapshotTypes DEF Updates, Contents
        <4> QED BY <4>1, MsgTypes DEF Msg
      <3>2. /\ toWindow'[x] = IF IsOpen(x) THEN Append(toWindow[x], m) ELSE toWindow[x]
            /\ UNCHANGED <<active, toMain>>
        BY <2>3 DEF FireChanges, storeVars, flushVars
      <3> HIDE DEF m
      <3>3. /\ AtMostOne(toWindow'[x], "updated")
            /\ NoneOf(toWindow[x], "updated") => NoneOf(toWindow'[x], "updated")
        BY <1>0, <3>1, <3>2, QueueTypes, TypesAppended DEF Batch
      <3> QED BY <1>0, <3>2, <3>3 DEF Batch, NoneOf, AtMostOne, Carries
    <2>4. CASE TransactionEnds \/ TransactionFails
      <3>1. active'[x] = active[x] /\ toWindow' = toWindow
        BY <1>0, <2>4, SnapshotTypes, SettleFlushesQueued DEF TransactionEnds, TransactionFails
      <3>2. toMain' = toMain
        BY <2>4 DEF TransactionEnds, TransactionFails, Settle, FlushPending
      <3> QED BY <1>0, <3>1, <3>2, SameBatch
    <2>5. CASE DatabaseClosed
      BY <1>0, <2>5, SameBatch DEF DatabaseClosed, flushVars, channelVars
    <2> QED BY <1>4, <2>1, <2>2, <2>3, <2>4, <2>5 DEF MainStep
  <1>5. CASE Restart
    BY <1>5, EmptyBatch DEF Restart
  <1> QED BY <1>1, <1>2, <1>3, <1>4, <1>5 DEF Next

-----------------------------------------------------------------------------
(* A window that will not be told of k any more has the value that it is    *)
(* about to write, or that it has sent, or that of the main process.        *)
Sent(w, k) == ~NoneOf(toMain[w], "updateItems") /\ active[w][k] # Nothing

WillHear(w, k) ==
    k \in changed \/ Mentioned(toWindow[w], k) \/ ~NoneOf(toMain[w], "getItems")

Agrees(w, k) ==
    state[w] = "Initialized" /\ ~WillHear(w, k) =>
        /\ pending[w][k] # Nothing => cache[w][k] \in {pending[w][k], cache[Main][k]}
        /\ pending[w][k] = Nothing /\ Sent(w, k) =>
              cache[w][k] \in {active[w][k], cache[Main][k]}
        /\ pending[w][k] = Nothing /\ ~Sent(w, k) /\ state[Main] = "Initialized" =>
              cache[w][k] = cache[Main][k]

Agreement == \A w \in Windows, k \in Keys : Agrees(w, k)

AgreementInv == GoneIsSilent /\ NewsIsTrue /\ OneBatch /\ Agreement

(* Steps that concern the window only by what the main process announces.   *)
LEMMA AgreesKept ==
    ASSUME NEW x, NEW k, Agrees(x, k), UNCHANGED at(x), changed \subseteq changed',
           k \notin changed' => cache'[Main][k] = cache[Main][k],
           state'[Main] = "Initialized" => state[Main] = "Initialized"
    PROVE  Agrees(x, k)'
  BY DEF Agrees, WillHear, Sent, Mentioned, NoneOf, at

(* The window has read what the main process holds.                         *)
LEMMA ToldAgrees ==
    ASSUME NEW x, NEW k, WillHear(x, k)' \/ cache'[x][k] = cache'[Main][k]
    PROVE  Agrees(x, k)'
  BY DEF Agrees

LEMMA FlushAgrees ==
    ASSUME TypeOK, NEW x \in Windows, NEW k \in Keys, Agrees(x, k), FlushPending(x),
           NoneOf(toMain[x], "updateItems"), UNCHANGED <<state, cache, changed>>,
           Mentioned(toWindow[x], k) => Mentioned(toWindow'[x], k)
    PROVE  Agrees(x, k)'
  <1>0. /\ active'[x] = pending[x] /\ pending'[x] = NoUpdate /\ pending'[x][k] = Nothing
    BY QueueTypes, FlushEmpties DEF NoUpdate
  <1>1. CASE pending[x][k] = Nothing
    <2>1. ~Sent(x, k) /\ ~Sent(x, k)'
      BY <1>0, <1>1 DEF Sent
    <2>2. ~NoneOf(toMain[x], "getItems") => ~NoneOf(toMain'[x], "getItems")
      <3>1. CASE pending[x] = NoUpdate
        BY <3>1 DEF FlushPending, NoneOf
      <3>2. CASE pending[x] # NoUpdate
        <4>1. toMain'[x] = Append(toMain[x], Msg("updateItems", pending[x]))
          BY <3>2, QueueTypes DEF FlushPending, TypeOK
        <4>2. /\ Len(toMain[x]) \in Nat /\ Len(toMain'[x]) = Len(toMain[x]) + 1
              /\ \A i \in 1 .. Len(toMain[x]) : toMain'[x][i] = toMain[x][i]
          BY <4>1, QueueTypes
        <4> QED BY <4>2 DEF NoneOf
      <3> QED BY <3>1, <3>2
    <2>3. WillHear(x, k) => WillHear(x, k)'
      BY <2>2 DEF WillHear
    <2> QED BY <1>0, <1>1, <2>1, <2>3 DEF Agrees
  <1>2. CASE pending[x][k] # Nothing
    <2>1. pending[x] # NoUpdate
      BY <1>2 DEF NoUpdate
    <2>2. toMain'[x] = Append(toMain[x], Msg("updateItems", pending[x]))
      BY <2>1, QueueTypes DEF FlushPending, TypeOK
    <2>3. /\ Len(toMain[x]) \in Nat /\ Len(toMain'[x]) = Len(toMain[x]) + 1
          /\ \A i \in 1 .. Len(toMain[x]) : toMain'[x][i] = toMain[x][i]
          /\ toMain'[x][Len(toMain[x]) + 1].type = "updateItems"
      BY <2>2, QueueTypes DEF Msg
    <2>4. Sent(x, k)'
      BY <1>0, <1>2, <2>3 DEF Sent, NoneOf
    <2>5. ~NoneOf(toMain[x], "getItems") => ~NoneOf(toMain'[x], "getItems")
      BY <2>3 DEF NoneOf
    <2>6. WillHear(x, k) => WillHear(x, k)'
      BY <2>5 DEF WillHear
    <2> QED BY <1>0, <1>2, <2>4, <2>6 DEF Agrees
  <1> QED BY <1>1, <1>2

LEMMA StoreStepAgrees ==
    ASSUME TypeOK, AgreementInv, NEW s \in Stores, StoreStep(s),
           NEW x \in Windows, NEW k \in Keys
    PROVE  Agrees(x, k)'
  <1>0. Agrees(x, k) /\ Batch(x) /\ Main \in Stores
    BY SnapshotTypes DEF AgreementInv, Agreement, OneBatch
  <1>1. CASE s # x
    <2>1. UNCHANGED at(x)
      BY <1>1, StoreStepElsewhere
    <2>2. ASSUME NEW k2 \in Keys, NEW v \in Values \cup {NoValue}, Put(s, k2, v)
          PROVE  Agrees(x, k)'
      <3>1. [NoUpdate EXCEPT ![k2] = v] \in Updates
        BY DEF NoUpdate, Updates
      <3>2. Write(s, [NoUpdate EXCEPT ![k2] = v]) /\ UNCHANGED state
        BY <2>2 DEF Put
      <3>3. changed \subseteq changed' /\ (k \notin changed' => cache'[Main][k] = cache[Main][k])
        BY <3>1, <3>2, WriteIsAnnounced, OnlyMainWrites DEF Stores
      <3> QED BY <1>0, <2>1, <3>2, <3>3, AgreesKept
    <2>3. CASE Flush(s) \/ WhenFlushed(s) \/ FlushTimer(s)
      BY <1>0, <2>1, <2>3, AgreesKept DEF Flush, WhenFlushed, FlushTimer, channelVars
    <2>4. CASE Close(s)
      <3>1. state'[Main] = "Initialized" => state[Main] = "Initialized"
        BY <1>0, <2>4 DEF Close, TypeOK
      <3> QED BY <1>0, <2>1, <2>4, <3>1, AgreesKept DEF Close, channelVars
    <2> QED BY <1>1, <2>2, <2>3, <2>4 DEF StoreStep
  <1>2. CASE s = x
    <2>1. ASSUME NEW k2 \in Keys, NEW v \in Values \cup {NoValue}, Put(x, k2, v)
          PROVE  Agrees(x, k)'
      <3> DEFINE update == [NoUpdate EXCEPT ![k2] = v]
      <3>1. update \in Updates /\ update[k] = IF k = k2 THEN v ELSE Nothing
        BY DEF NoUpdate, Updates
      <3>2. Write(x, update) /\ UNCHANGED <<state, active, toMain, toWindow>>
            /\ state[x] = "Initialized" /\ cache[x][k2] # v
        BY <2>1 DEF Put
      <3> HIDE DEF update
      <3>3. cache'[Main] = cache[Main] /\ changed' = changed
        BY <3>1, <3>2, OnlyMainWrites
      <3> DEFINE effect == Effective(x, update)
      <3>4. effect \in Updates
        BY <3>1, QueueTypes, EffectiveType
      <3>5. effect[k] = IF k = k2 THEN v ELSE Nothing
        BY <3>1, <3>2, ValuesAssumption DEF Effective
      <3>6. cache'[x] = Apply(cache[x], effect) /\ pending'[x] = Apply(pending[x], effect)
        BY <3>2, QueueTypes DEF Write, TypeOK
      <3> HIDE DEF effect
      <3>7. /\ cache'[x][k] = IF k = k2 THEN v ELSE cache[x][k]
            /\ pending'[x][k] = IF k = k2 THEN v ELSE pending[x][k]
        <4>1. cache'[x][k] = IF effect[k] = Nothing THEN cache[x][k] ELSE effect[k]
          BY <3>6 DEF Apply
        <4>2. pending'[x][k] = IF effect[k] = Nothing THEN pending[x][k] ELSE effect[k]
          BY <3>6 DEF Apply
        <4> QED BY <3>5, <4>1, <4>2, ValuesAssumption
      <3>8. v # Nothing
        BY ValuesAssumption
      <3> QED BY <1>0, <3>2, <3>3, <3>7, <3>8 DEF Agrees, WillHear, Sent
    <2>2. CASE Flush(x) \/ WhenFlushed(x)
      BY <1>0, <2>2 DEF Flush, WhenFlushed, flushVars, channelVars, Agrees, WillHear, Sent
    <2>3. CASE FlushTimer(x)
      <3>1. CASE active[x] = NoUpdate /\ FlushPending(x)
        <4>1. NoneOf(toMain[x], "updateItems")
          BY <1>0, <3>1 DEF Batch
        <4> QED BY <1>0, <2>3, <3>1, <4>1, FlushAgrees DEF FlushTimer
      <3>2. CASE UNCHANGED <<active, pending, toMain>>
        BY <1>0, <2>3, <3>2 DEF FlushTimer, Agrees, WillHear, Sent
      <3> QED BY <2>3, <3>1, <3>2 DEF FlushTimer
    <2>4. CASE Close(x)
      BY <2>4, QueueTypes DEF Close, Agrees, TypeOK
    <2> QED BY <1>2, <2>1, <2>2, <2>3, <2>4 DEF StoreStep
  <1> QED BY <1>1, <1>2

LEMMA ReadAgrees ==
    ASSUME TypeOK, AgreementInv, NEW x \in Windows, NEW k \in Keys, NEW type, Read(x, type),
           Head(toWindow[x]).update[k] # Nothing,
           cache'[x][k] = Head(toWindow[x]).update[k],
           UNCHANGED <<changed, toMain>>, cache'[Main] = cache[Main]
    PROVE  Agrees(x, k)'
  <1>1. CASE Mentioned(Tail(toWindow[x]), k) \/ k \in changed
    BY <1>1, ReadTakes, ToldAgrees DEF WillHear
  <1>2. CASE ~Mentioned(Tail(toWindow[x]), k) /\ k \notin changed
    <2>1. LastIs(toWindow[x], k, cache[Main][k])
      BY <1>2 DEF AgreementInv, NewsIsTrue
    <2>2. cache'[x][k] = cache'[Main][k]
      BY <1>2, <2>1, QueueTypes, ReadTakes, LastOfTail
    <2> QED BY <2>2, ToldAgrees
  <1> QED BY <1>1, <1>2

LEMMA WindowStepAgrees ==
    ASSUME TypeOK, AgreementInv, NEW w \in Windows, WindowStep(w),
           NEW x \in Windows, NEW k \in Keys
    PROVE  Agrees(x, k)'
  <1>0. Agrees(x, k) /\ Batch(x)
    BY DEF AgreementInv, Agreement, OneBatch
  <1>1. CASE w # x
    BY <1>0, <1>1, WindowStepElsewhere, AgreesKept
  <1>2. CASE w = x
    <2>0. cache'[Main] = cache[Main] /\ state'[Main] = state[Main] /\ changed' = changed
      BY WindowStepElsewhere
    <2>1. CASE Open(x)
      <3>1. toMain'[x] = <<Msg("getItems", NoUpdate)>>
        BY <2>1 DEF Open, TypeOK
      <3>2. ~NoneOf(toMain'[x], "getItems")
        BY <3>1 DEF NoneOf, Msg
      <3> QED BY <3>2, ToldAgrees DEF WillHear
    <2>2. CASE WindowClosed(x) \/ WindowCrashes(x)
      BY <2>2, QueueTypes DEF WindowClosed, WindowCrashes, Agrees, TypeOK
    <2>3. CASE ReceiveItems(x)
      <3>1. /\ Read(x, "items") /\ UNCHANGED <<changed, toMain>>
            /\ cache'[x] = Head(toWindow[x]).update
        BY <2>3, QueueTypes DEF ReceiveItems, TypeOK
      <3>2. Head(toWindow[x]).update[k] # Nothing
        BY <3>1, ReadTypes, ValuesAssumption DEF Contents
      <3> QED BY <2>0, <3>1, <3>2, ReadAgrees
    <2>4. CASE ReceiveChange(x)
      <3>0. /\ Read(x, "changed") /\ UNCHANGED <<state, pending, active, toMain, changed>>
        BY <2>4 DEF ReceiveChange, flushVars
      <3>1. CASE state[x] # "Initialized"
        BY <3>0, <3>1 DEF Agrees
      <3>2. CASE state[x] = "Initialized"
        <4> DEFINE news == Head(toWindow[x]).update
        <4>1. news \in Updates /\ cache'[x] = Apply(cache[x], news)
          BY <2>4, <3>0, <3>2, QueueTypes, ReadTypes DEF ReceiveChange, TypeOK
        <4>2. cache'[x][k] = IF news[k] = Nothing THEN cache[x][k] ELSE news[k]
          BY <4>1, QueueTypes, ApplyToContents
        <4>3. CASE news[k] # Nothing
          BY <2>0, <3>0, <4>2, <4>3, ReadAgrees
        <4>4. CASE news[k] = Nothing
          <5>1. Mentioned(toWindow[x], k) => Mentioned(toWindow'[x], k)
            BY <3>0, <4>4, QueueTypes, ReadTakes, MentionedInTail
          <5> QED BY <1>0, <2>0, <3>0, <4>2, <4>4, <5>1 DEF Agrees, WillHear, Sent
        <4> QED BY <4>3, <4>4
      <3> QED BY <3>1, <3>2
    <2>5. CASE ReceiveUpdated(x)
      <3>1. /\ Read(x, "updated") /\ Settle(x) /\ UNCHANGED <<state, cache, changed>>
        BY <2>5 DEF ReceiveUpdated
      <3>2. Head(toWindow[x]).update[k] = Nothing
        BY <3>1, ReadTypes DEF NoUpdate
      <3>3. Mentioned(toWindow[x], k) => Mentioned(toWindow'[x], k)
        BY <3>1, <3>2, QueueTypes, ReadTakes, MentionedInTail
      <3>4. NoneOf(toMain[x], "updateItems")
        <4>1. ~NoneOf(toWindow[x], "updated")
          BY <3>1, QueueTypes, ReadTakes, TypesOfTail
        <4> QED BY <1>0, <4>1 DEF Batch
      <3>5. CASE queued[x]
        BY <1>0, <3>1, <3>3, <3>4, <3>5, FlushAgrees DEF Settle
      <3>6. CASE ~queued[x]
        <4>1. UNCHANGED <<pending, toMain>>
          BY <3>1, <3>6 DEF Settle
        <4>2. ~Sent(x, k) /\ ~Sent(x, k)'
          BY <3>4, <4>1 DEF Sent
        <4>3. WillHear(x, k) => WillHear(x, k)'
          BY <3>1, <3>3, <4>1 DEF WillHear
        <4> QED BY <1>0, <2>0, <3>1, <4>1, <4>2, <4>3 DEF Agrees
      <3> QED BY <3>5, <3>6
    <2> QED BY <1>2, <2>1, <2>2, <2>3, <2>4, <2>5 DEF WindowStep
  <1> QED BY <1>1, <1>2

LEMMA UpdateAgrees ==
    ASSUME TypeOK, AgreementInv, NEW x \in Windows, UpdateItems(x), NEW k \in Keys
    PROVE  Agrees(x, k)'
  <1>0. Agrees(x, k) /\ Batch(x) /\ Main \in Stores /\ x # Main
    BY QueueTypes, SnapshotTypes DEF AgreementInv, Agreement, OneBatch
  <1> DEFINE sent == Head(toMain[x]).update
  <1>1. /\ Called(x, "updateItems") /\ Write(Main, sent)
        /\ SendTo(x, Msg("updated", NoUpdate)) /\ UNCHANGED <<state, active>>
    BY DEF UpdateItems
  <1>2. /\ toMain[x] # <<>> /\ Head(toMain[x]).type = "updateItems"
        /\ toMain'[x] = Tail(toMain[x]) /\ sent \in Updates
    BY <1>1, CalledTakes, CalledTypes
  <1>3. sent = active[x] /\ ~NoneOf(toMain[x], "updateItems") /\ NoneOf(toMain'[x], "updateItems")
    BY <1>0, <1>2, QueueTypes, TypesOfTail DEF Batch
  <1>4. /\ changed \subseteq changed'
        /\ k \notin changed' => cache'[Main][k] = cache[Main][k]
        /\ state[Main] = "Initialized" /\ sent[k] # Nothing => cache'[Main][k] = sent[k]
    BY <1>1, <1>2, WriteIsAnnounced
  <1>5. cache'[x] = cache[x] /\ pending'[x] = pending[x]
    BY <1>0, <1>1, <1>2, QueueTypes, WriteChanges
  <1> HIDE DEF sent
  <1>6. Mentioned(toWindow[x], k) => Mentioned(toWindow'[x], k)
    <2>1. Msg("updated", NoUpdate) \in ToWindow
      BY MsgTypes, NoUpdateType
    <2>2. toWindow'[x] = Append(toWindow[x], Msg("updated", NoUpdate))
      BY <1>1, SendAppends
    <2>3. toWindow[x] \in Seq(ToWindow)
      BY QueueTypes
    <2> QED BY <2>1, <2>2, <2>3, MentionedAppended
  <1>7. ~NoneOf(toMain[x], "getItems") => ~NoneOf(toMain'[x], "getItems")
    <2>1. /\ Len(toMain[x]) \in Nat /\ Len(toMain'[x]) = Len(toMain[x]) - 1
          /\ \A i \in 1 .. Len(toMain'[x]) : toMain'[x][i] = toMain[x][i + 1]
          /\ toMain[x][1].type # "getItems"
      BY <1>2, QueueTypes
    <2> SUFFICES ASSUME NEW i \in 1 .. Len(toMain[x]), toMain[x][i].type = "getItems"
                 PROVE  ~NoneOf(toMain'[x], "getItems")
      BY DEF NoneOf
    <2>2. i - 1 \in 1 .. Len(toMain'[x]) /\ toMain'[x][i - 1] = toMain[x][i]
      BY <2>1
    <2> QED BY <2>2 DEF NoneOf
  <1>8. ~WillHear(x, k)' => ~WillHear(x, k) /\ k \notin changed'
    BY <1>4, <1>6, <1>7 DEF WillHear
  <1>9. ~Sent(x, k)' /\ (Sent(x, k) <=> sent[k] # Nothing)
    BY <1>3 DEF Sent
  <1> QED BY <1>0, <1>1, <1>3, <1>4, <1>5, <1>8, <1>9 DEF Agrees

LEMMA AgreementStep == TypeOK /\ AgreementInv /\ [Next]_vars => Agreement'
  <1> SUFFICES ASSUME TypeOK, AgreementInv, [Next]_vars, NEW x \in Windows, NEW k \in Keys
               PROVE  Agrees(x, k)'
    BY DEF Agreement
  <1>0. Agrees(x, k) /\ Main \in Stores
    BY SnapshotTypes DEF AgreementInv, Agreement
  <1>1. CASE UNCHANGED vars
    BY <1>0, <1>1, AgreesKept DEF at, vars, storeVars, flushVars, channelVars
  <1>2. CASE MainStep
    <2>1. ASSUME NEW w \in Windows, GetItems(w) PROVE Agrees(x, k)'
      <3>1. CASE w # x
        BY <1>0, <2>1, <3>1, CalledTakes, SendAppends, AgreesKept
           DEF GetItems, at, storeVars, flushVars
      <3>2. CASE w = x
        <4>1. toWindow'[x] = Append(toWindow[x], Msg("items", cache[Main]))
          BY <2>1, <3>2, SendAppends DEF GetItems
        <4>2. /\ Msg("items", cache[Main]) \in ToWindow
              /\ Msg("items", cache[Main]).update[k] # Nothing
          BY SnapshotTypes, ContentsAreUpdates, MsgTypes, MainValueIsNotNothing DEF Msg
        <4>3. toWindow[x] \in Seq(ToWindow)
          BY QueueTypes
        <4>4. Mentioned(toWindow'[x], k)
          BY <4>1, <4>2, <4>3, MentionedAppended
        <4> QED BY <4>4, ToldAgrees DEF WillHear
      <3> QED BY <3>1, <3>2
    <2>2. ASSUME NEW w \in Windows, UpdateItems(w) PROVE Agrees(x, k)'
      <3>1. CASE w # x
        <4>1. /\ changed \subseteq changed'
              /\ k \notin changed' => cache'[Main][k] = cache[Main][k]
          BY <2>2, CalledTypes, WriteIsAnnounced DEF UpdateItems
        <4>2. cache'[x] = cache[x] /\ pending'[x] = pending[x]
          BY <1>0, <2>2, QueueTypes, CalledTypes, WriteChanges DEF UpdateItems
        <4>3. UNCHANGED at(x) /\ UNCHANGED state
          BY <2>2, <3>1, <4>2, CalledTakes, SendAppends DEF UpdateItems, at
        <4> QED BY <1>0, <4>1, <4>3, AgreesKept
      <3> QED BY <2>2, <3>1, UpdateAgrees
    <2>3. CASE FireChanges
      <3> DEFINE update == [k2 \in Keys |-> IF k2 \in changed THEN cache[Main][k2] ELSE Nothing]
      <3>1. Msg("changed", update) \in ToWindow
        <4>1. update \in Updates
          BY SnapshotTypes DEF Updates, Contents
        <4> QED BY <4>1, MsgTypes
      <3>2. Msg("changed", update).update[k] = IF k \in changed THEN cache[Main][k] ELSE Nothing
        BY DEF Msg
      <3>3. /\ toWindow'[x] = IF IsOpen(x) THEN Append(toWindow[x], Msg("changed", update))
                              ELSE toWindow[x]
            /\ UNCHANGED <<state, cache, pending, active, toMain>> /\ changed' = {}
        BY <2>3 DEF FireChanges, storeVars, flushVars
      <3> HIDE DEF update
      <3>4. CASE state[x] # "Initialized"
        BY <3>3, <3>4 DEF Agrees
      <3>5. CASE state[x] = "Initialized"
        <4>1. toWindow'[x] = Append(toWindow[x], Msg("changed", update))
          BY <3>3, <3>5 DEF IsOpen
        <4>2. toWindow[x] \in Seq(ToWindow)
          BY QueueTypes
        <4>3. Mentioned(toWindow'[x], k) <=> Mentioned(toWindow[x], k) \/ k \in changed
          BY <3>1, <3>2, <4>1, <4>2, MentionedAppended, MainValueIsNotNothing
        <4> QED BY <1>0, <3>3, <4>3 DEF Agrees, WillHear, Sent
      <3> QED BY <3>4, <3>5
    <2>4. CASE TransactionEnds \/ TransactionFails
      <3>1. UNCHANGED <<state, cache, toWindow, changed>>
        BY <2>4 DEF TransactionEnds, TransactionFails
      <3>2. active'[x] = active[x] /\ pending'[x] = pending[x]
        BY <1>0, <2>4, QueueTypes, SettleFlushesQueued DEF TransactionEnds, TransactionFails
      <3>3. toMain' = toMain
        BY <2>4 DEF TransactionEnds, TransactionFails, Settle, FlushPending
      <3> QED BY <1>0, <3>1, <3>2, <3>3, AgreesKept DEF at
    <2>5. CASE DatabaseClosed
      <3>1. state'[Main] = "Disposed" /\ state'[x] = state[x]
        BY <1>0, <2>5, QueueTypes DEF DatabaseClosed, TypeOK
      <3> QED BY <1>0, <2>5, <3>1, AgreesKept DEF DatabaseClosed, at, flushVars, channelVars
    <2> QED BY <1>2, <2>1, <2>2, <2>3, <2>4, <2>5 DEF MainStep
  <1>3. CASE Restart
    BY <1>3, QueueTypes DEF Restart, Agrees
  <1> QED BY <1>1, <1>2, <1>3, StoreStepAgrees, WindowStepAgrees DEF Next

(* A window and the main process differ in the value of a key only while    *)
(* the window has a change of it under way, or is about to be told, for any *)
(* number of windows and keys, and with crashes and errors.                 *)
THEOREM WindowsComeToAgree == Spec => []WindowsAgree
  <1>1. Init => AgreementInv
    <2> SUFFICES ASSUME Init PROVE AgreementInv
      OBVIOUS
    <2>1. \A w \in Windows : /\ state[w] = "None" /\ ~delayer[w] /\ active[w] = NoUpdate
                            /\ toMain[w] = <<>> /\ toWindow[w] = <<>>
      BY StoresAssumption DEF Init, Stores
    <2>2. GoneIsSilent /\ Agreement
      BY <2>1 DEF GoneIsSilent, Agreement, Agrees
    <2>3. NewsIsTrue
      BY <2>1, NothingIsMentioned DEF NewsIsTrue
    <2>4. OneBatch
      BY <2>1, NoneOfEmpty, NoneIsAtMostOne DEF OneBatch, Batch
    <2> QED BY <2>2, <2>3, <2>4 DEF AgreementInv
  <1>2. TypeOK /\ AgreementInv /\ [Next]_vars => AgreementInv'
    BY GoneStep, NewsStep, BatchStep, AgreementStep DEF AgreementInv
  <1>3. TypeOK /\ AgreementInv => WindowsAgree
    <2> SUFFICES ASSUME TypeOK, AgreementInv, NEW w \in Windows, NEW k \in Keys,
                        state[w] = "Initialized", cache[w][k] # cache[Main][k],
                        pending[w][k] = Nothing, active[w][k] = Nothing, ~Told(w, k),
                        state[Main] = "Initialized"
                 PROVE  FALSE
      BY DEF WindowsAgree
    <2>1. ~WillHear(w, k) /\ ~Sent(w, k)
      BY DEF Told, WillHear, Mentioned, NoneOf, Sent
    <2> QED BY <2>1 DEF AgreementInv, Agreement, Agrees
  <1> QED BY <1>1, <1>2, <1>3, TypesAreKept, PTL DEF Spec
=============================================================================
