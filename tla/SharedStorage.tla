--------------------------- MODULE SharedStorage ----------------------------
(***************************************************************************)
(* The key-value storage that all windows share                            *)
(* (vs/base/parts/storage/common/storage.ts).  Each window has a Storage   *)
(* whose database is a channel to the main process                         *)
(* (vs/platform/storage/common/storageIpc.ts); the main process has one    *)
(* whose database is an SQLite file.  Writes change the cache at once and  *)
(* are flushed in batches, through a ThrottledDelayer                      *)
(* (vs/base/common/async.ts): one batch on its way at a time, one flush    *)
(* queued behind it.  The main process tells all windows, also the one     *)
(* that wrote, of each key that changed (storageIpc.ts of electron-main).  *)
(*                                                                         *)
(* A flush runs as one step: the timer of the Delayer, its promise and the *)
(* Throttler follow each other in one turn.  So do the end of a batch and  *)
(* the flush queued behind it.                                             *)
(*                                                                         *)
(* A definition named for what it does wrong or forgets is a plausible     *)
(* mistake in the definition that follows it.  No action uses one.         *)
(***************************************************************************)
EXTENDS Naturals, Sequences

CONSTANTS
    Windows,
    Main,           \* the store of the main process
    Keys, Values,
    NoValue,        \* no value is stored; as a pending change: delete
    Nothing,        \* no change is pending
    Waiters,        \* the stores whose users call whenFlushed()
    Faults,         \* BOOLEAN: do processes crash and transactions fail?
    MaxWrites,      \* bound: changes the applications make
    ChannelRoom     \* bound: messages on the way to a window when another is sent

Stores == Windows \cup {Main}
Contents == [Keys -> Values \cup {NoValue}]
Updates == [Keys -> Values \cup {NoValue, Nothing}]
NoUpdate == [k \in Keys |-> Nothing]

ASSUME StoresAssumption == Main \notin Windows /\ Waiters \subseteq Stores
ASSUME ValuesAssumption ==
    NoValue # Nothing /\ NoValue \notin Values /\ Nothing \notin Values
ASSUME BoundsAssumption == Faults \in BOOLEAN /\ MaxWrites \in Nat /\ ChannelRoom \in Nat

VARIABLES
    \* the fields of each Storage
    state,          \* StorageState; a window that is gone has "None", and
                    \* the main process "Disposed" when its database is closed
    cache,
    pending,        \* pendingInserts and pendingDeletes, which are disjoint
    whenFlushed,    \* someone waits in whenFlushedCallbacks
    delayer,        \* flushDelayer has been triggered
    active,         \* the Throttler's active promise: the batch on its way
    queued,         \* the Throttler has a queued promise
    \* between the processes
    toMain,         \* calls of a window to the channel
    toWindow,       \* answers and change events
    changed,        \* keys in the debounced change event of the main process
    \* the database
    disk,
    uncommitted,    \* statements of a transaction that did not end
    isErroneous,    \* an SQLite error was seen on this connection
    \* the environment
    writes          \* changes made so far

flushVars == <<delayer, active, queued>>
storeVars == <<state, cache, pending, whenFlushed, flushVars>>
channelVars == <<toMain, toWindow, changed>>
diskVars == <<disk, uncommitted, isErroneous>>
vars == <<storeVars, channelVars, diskVars, writes>>

-----------------------------------------------------------------------------
(* Contents, updates and messages *)

(* update.insert.forEach(set); update.delete.forEach(delete). *)
ApplyAlone(contents, update) == update

Apply(contents, update) ==
    [k \in Keys |-> IF update[k] = Nothing THEN contents[k] ELSE update[k]]

ToMain == [type : {"getItems", "updateItems"}, update : Updates]
ToWindow == [type : {"items"}, update : Contents]
            \cup [type : {"changed"}, update : Updates]
            \cup [type : {"updated"}, update : {NoUpdate}]
Msg(type, update) == [type |-> type, update |-> update]

IsOpen(w) == state[w] \in {"Initialized", "Closed"}

FreshWindow(w) ==
    /\ cache' = [cache EXCEPT ![w] = [k \in Keys |-> NoValue]]
    /\ pending' = [pending EXCEPT ![w] = NoUpdate]
    /\ whenFlushed' = [whenFlushed EXCEPT ![w] = FALSE]
    /\ delayer' = [delayer EXCEPT ![w] = FALSE]
    /\ active' = [active EXCEPT ![w] = NoUpdate]
    /\ queued' = [queued EXCEPT ![w] = FALSE]
    /\ toWindow' = [toWindow EXCEPT ![w] = <<>>]

Init ==
    /\ state = [s \in Stores |-> IF s = Main THEN "Initialized" ELSE "None"]
    /\ cache = [s \in Stores |-> [k \in Keys |-> NoValue]]
    /\ pending = [s \in Stores |-> NoUpdate]
    /\ whenFlushed = [s \in Stores |-> FALSE]
    /\ delayer = [s \in Stores |-> FALSE]
    /\ active = [s \in Stores |-> NoUpdate]
    /\ queued = [s \in Stores |-> FALSE]
    /\ toMain = [w \in Windows |-> <<>>]
    /\ toWindow = [w \in Windows |-> <<>>]
    /\ changed = {}
    /\ disk = [k \in Keys |-> NoValue]
    /\ uncommitted = NoUpdate
    /\ isErroneous = FALSE
    /\ writes = 0

-----------------------------------------------------------------------------
(* Storage: writing *)

(* The part of update that changes the cache of s: set and delete return    *)
(* early for the rest, and for all of it when s is closed.                  *)
Effective(s, update) ==
    [k \in Keys |-> IF state[s] # "Initialized" \/ update[k] = cache[s][k]
                    THEN Nothing ELSE update[k]]

(* set and delete of every key in update, in one turn: the cache and the    *)
(* pending change, the event, and a flush after the delay.                  *)
Write(s, update) ==
    LET effect == Effective(s, update) IN
    /\ cache' = [cache EXCEPT ![s] = Apply(@, effect)]
    /\ pending' = [pending EXCEPT ![s] = Apply(@, effect)]
    /\ delayer' = [delayer EXCEPT ![s] = @ \/ effect # NoUpdate]
    /\ changed' = IF s = Main THEN changed \cup {k \in Keys : effect[k] # Nothing}
                  ELSE changed

(* An application of a window, or the main process itself, sets or deletes. *)
Put(s, k, v) ==
    /\ writes < MaxWrites
    /\ writes' = writes + 1
    /\ state[s] = "Initialized"
    /\ cache[s][k] # v
    /\ Write(s, [NoUpdate EXCEPT ![k] = v])
    /\ UNCHANGED <<state, whenFlushed, active, queued, toMain, toWindow, diskVars>>

(* flush(): by the idle scheduler, or on shutdown.  With nothing pending it *)
(* ends to no effect.                                                       *)
Flush(s) ==
    /\ state[s] = "Initialized"
    /\ pending[s] # NoUpdate
    /\ delayer' = [delayer EXCEPT ![s] = TRUE]
    /\ UNCHANGED <<state, cache, pending, whenFlushed, active, queued, channelVars,
                   diskVars, writes>>

WhenFlushed(s) ==
    /\ s \in Waiters
    /\ IsOpen(s)
    /\ pending[s] # NoUpdate
    /\ whenFlushed' = [whenFlushed EXCEPT ![s] = TRUE]
    /\ UNCHANGED <<state, cache, pending, flushVars, channelVars, diskVars, writes>>

-----------------------------------------------------------------------------
(* Storage: flushing *)

(* flushPending: the pending changes become the batch on its way, which a   *)
(* window sends as a call; calls is what the window has sent before.        *)
FlushPending(s) ==
    /\ active' = [active EXCEPT ![s] = pending[s]]
    /\ pending' = [pending EXCEPT ![s] = NoUpdate]
    /\ toMain' = IF s # Main /\ pending[s] # NoUpdate
                 THEN [toMain EXCEPT ![s] = Append(@, Msg("updateItems", pending[s]))]
                 ELSE toMain

(* The Delayer's timer: Throttler.queue. *)
FlushTimerDropping(s) ==
    /\ delayer[s]
    /\ delayer' = [delayer EXCEPT ![s] = FALSE]
    /\ IF active[s] = NoUpdate THEN FlushPending(s) ELSE UNCHANGED <<active, pending, toMain>>
    /\ UNCHANGED <<state, cache, whenFlushed, queued, toWindow, changed, diskVars, writes>>

FlushTimer(s) ==
    /\ delayer[s]
    /\ delayer' = [delayer EXCEPT ![s] = FALSE]
    /\ \/ /\ active[s] = NoUpdate
          /\ FlushPending(s)
          /\ UNCHANGED queued
       \/ /\ active[s] # NoUpdate
          /\ queued' = [queued EXCEPT ![s] = TRUE]
          /\ UNCHANGED <<active, pending, toMain>>
    /\ UNCHANGED <<state, cache, whenFlushed, toWindow, changed, diskVars, writes>>

(* The batch on its way has settled: whoever waits is released unless more  *)
(* is pending; then the queued flush runs.                                  *)
SettleForgettingQueue(s) ==
    /\ whenFlushed' = [whenFlushed EXCEPT ![s] = @ /\ pending[s] # NoUpdate]
    /\ queued' = [queued EXCEPT ![s] = FALSE]
    /\ active' = [active EXCEPT ![s] = NoUpdate]
    /\ UNCHANGED <<pending, toMain>>

SettleClearing(s) ==
    /\ whenFlushed' = [whenFlushed EXCEPT ![s] = FALSE]
    /\ queued' = [queued EXCEPT ![s] = FALSE]
    /\ active' = [active EXCEPT ![s] = NoUpdate]
    /\ pending' = [pending EXCEPT ![s] = NoUpdate]
    /\ UNCHANGED toMain

Settle(s) ==
    /\ whenFlushed' = [whenFlushed EXCEPT ![s] = @ /\ pending[s] # NoUpdate]
    /\ queued' = [queued EXCEPT ![s] = FALSE]
    /\ IF queued[s]
       THEN FlushPending(s)
       ELSE /\ active' = [active EXCEPT ![s] = NoUpdate]
            /\ UNCHANGED <<pending, toMain>>

-----------------------------------------------------------------------------
(* Windows *)

(* A window is created: it listens, then asks for all items. *)
Open(w) ==
    /\ ~IsOpen(w)
    /\ state[Main] = "Initialized"
    /\ state' = [state EXCEPT ![w] = "Initialized"]
    /\ FreshWindow(w)
    /\ toMain' = [toMain EXCEPT ![w] = <<Msg("getItems", NoUpdate)>>]
    /\ UNCHANGED <<changed, diskVars, writes>>

(* The next message to w. *)
Read(w, type) ==
    /\ IsOpen(w)
    /\ toWindow[w] # <<>> /\ Head(toWindow[w]).type = type
    /\ toWindow' = [toWindow EXCEPT ![w] = Tail(@)]

(* init() goes on: the items replace the cache. *)
ReceiveItems(w) ==
    /\ Read(w, "items")
    /\ cache' = [cache EXCEPT ![w] = Head(toWindow[w]).update]
    /\ UNCHANGED <<state, pending, whenFlushed, flushVars, toMain, changed, diskVars, writes>>

(* onDidChangeItemsExternal: accepted over anything but a closed store.     *)
ReceiveChange(w) ==
    /\ Read(w, "changed")
    /\ cache' = [cache EXCEPT ![w] = IF state[w] = "Closed" THEN @
                                     ELSE Apply(@, Head(toWindow[w]).update)]
    /\ UNCHANGED <<state, pending, whenFlushed, flushVars, toMain, changed, diskVars, writes>>

(* The call of updateItems has returned. *)
ReceiveUpdated(w) ==
    /\ Read(w, "updated")
    /\ Settle(w)
    /\ UNCHANGED <<state, cache, delayer, changed, diskVars, writes>>

(* close(): a last flush, at once. *)
Close(s) ==
    /\ state[s] = "Initialized"
    /\ state' = [state EXCEPT ![s] = "Closed"]
    /\ delayer' = [delayer EXCEPT ![s] = TRUE]
    /\ UNCHANGED <<cache, pending, whenFlushed, active, queued, channelVars, diskVars, writes>>

(* The flush of close() has settled. *)
FlushSettledEarly(s) == active[s] = NoUpdate

FlushSettled(s) == ~delayer[s] /\ ~queued[s] /\ active[s] = NoUpdate

(* A window disposes the listener for external changes. *)
WindowClosed(w) ==
    /\ state[w] = "Closed"
    /\ FlushSettled(w)
    /\ state' = [state EXCEPT ![w] = "None"]
    /\ FreshWindow(w)
    /\ toMain' = [toMain EXCEPT ![w] = <<>>]
    /\ UNCHANGED <<changed, diskVars, writes>>

-----------------------------------------------------------------------------
(* The main process *)

(* Messages reach only windows that listen. *)
SendTo(w, msg) == toWindow' = [toWindow EXCEPT ![w] = Append(@, msg)]

Called(w, type) ==
    /\ toMain[w] # <<>> /\ Head(toMain[w]).type = type
    /\ toMain' = [toMain EXCEPT ![w] = Tail(@)]

GetItemsFromDisk(w) ==
    /\ Called(w, "getItems")
    /\ SendTo(w, Msg("items", disk))
    /\ UNCHANGED <<storeVars, changed, diskVars, writes>>

GetItems(w) ==
    /\ Called(w, "getItems")
    /\ SendTo(w, Msg("items", cache[Main]))
    /\ UNCHANGED <<storeVars, changed, diskVars, writes>>

(* set and delete for each item; the call does not wait for the flush. *)
UpdateItems(w) ==
    /\ Called(w, "updateItems")
    /\ Write(Main, Head(toMain[w]).update)
    /\ SendTo(w, Msg("updated", NoUpdate))
    /\ UNCHANGED <<state, whenFlushed, active, queued, diskVars, writes>>

(* The debounced event: each key that changed, with its value of now. *)
FireInserts ==
    LET update == [k \in Keys |-> IF k \in changed /\ cache[Main][k] # NoValue
                                 THEN cache[Main][k] ELSE Nothing] IN
    /\ changed # {}
    /\ \A w \in Windows : Len(toWindow[w]) <= ChannelRoom
    /\ changed' = {}
    /\ toWindow' = [w \in Windows |-> IF IsOpen(w) THEN Append(toWindow[w], Msg("changed", update))
                                      ELSE toWindow[w]]
    /\ UNCHANGED <<storeVars, toMain, diskVars, writes>>

FireChanges ==
    LET update == [k \in Keys |-> IF k \in changed THEN cache[Main][k] ELSE Nothing] IN
    /\ changed # {}
    /\ \A w \in Windows : Len(toWindow[w]) <= ChannelRoom
    /\ changed' = {}
    /\ toWindow' = [w \in Windows |-> IF IsOpen(w) THEN Append(toWindow[w], Msg("changed", update))
                                      ELSE toWindow[w]]
    /\ UNCHANGED <<storeVars, toMain, diskVars, writes>>

(* What the statements of these kinds do in the batch on its way. *)
Statements(kinds) ==
    [k \in Keys |->
        IF \/ active[Main][k] = NoValue /\ "delete" \in kinds
           \/ active[Main][k] \in Values /\ "insert" \in kinds
        THEN active[Main][k] ELSE Nothing]

Commit(update) ==
    /\ disk' = Apply(Apply(disk, uncommitted), update)
    /\ uncommitted' = NoUpdate

(* updateItems of the database: a transaction with a statement for the      *)
(* inserts and one for the deletes.                                         *)
TransactionEndsInserting ==
    /\ active[Main] # NoUpdate
    /\ Commit(Statements({"insert"}))
    /\ Settle(Main)
    /\ UNCHANGED <<state, cache, delayer, toWindow, changed, isErroneous, writes>>

TransactionEnds ==
    /\ active[Main] # NoUpdate
    /\ Commit(active[Main])
    /\ Settle(Main)
    /\ UNCHANGED <<state, cache, delayer, toWindow, changed, isErroneous, writes>>

(* A statement fails and the others are committed, or the transaction does  *)
(* not end: it stays open, and the next one ends both.                      *)
TransactionFails ==
    /\ Faults
    /\ active[Main] # NoUpdate
    /\ \/ \E kinds \in SUBSET {"insert", "delete"} : Commit(Statements(kinds))
       \/ /\ uncommitted' = Apply(uncommitted, active[Main])
          /\ UNCHANGED disk
    /\ isErroneous' = TRUE
    /\ Settle(Main)
    /\ UNCHANGED <<state, cache, delayer, toWindow, changed, writes>>

(* database.close: after an error, the last one that of closing, the file   *)
(* is deleted and written again from the cache, each of which may fail.     *)
DatabaseClosed ==
    /\ state[Main] = "Closed"
    /\ FlushSettled(Main)
    /\ state' = [state EXCEPT ![Main] = "Disposed"]
    /\ uncommitted' = NoUpdate
    /\ \/ ~isErroneous /\ UNCHANGED <<disk, isErroneous>>
       \/ /\ isErroneous \/ Faults
          /\ \/ disk' = cache[Main] /\ isErroneous' = FALSE
             \/ disk' \in {disk, [k \in Keys |-> NoValue]} /\ isErroneous' = TRUE
    /\ UNCHANGED <<cache, pending, whenFlushed, flushVars, channelVars, writes>>

-----------------------------------------------------------------------------
(* The environment *)

(* A window's process dies. *)
WindowCrashes(w) ==
    /\ Faults
    /\ IsOpen(w)
    /\ state' = [state EXCEPT ![w] = "None"]
    /\ FreshWindow(w)
    /\ toMain' = [toMain EXCEPT ![w] = <<>>]
    /\ UNCHANGED <<changed, diskVars, writes>>

(* The program ends, by a crash or after it closed its storage, and starts  *)
(* again.                                                                   *)
Restart ==
    /\ Faults \/ state[Main] = "Disposed"
    /\ state' = [s \in Stores |-> IF s = Main THEN "Initialized" ELSE "None"]
    /\ cache' = [s \in Stores |-> IF s = Main THEN disk ELSE [k \in Keys |-> NoValue]]
    /\ pending' = [s \in Stores |-> NoUpdate]
    /\ whenFlushed' = [s \in Stores |-> FALSE]
    /\ delayer' = [s \in Stores |-> FALSE]
    /\ active' = [s \in Stores |-> NoUpdate]
    /\ queued' = [s \in Stores |-> FALSE]
    /\ toMain' = [w \in Windows |-> <<>>]
    /\ toWindow' = [w \in Windows |-> <<>>]
    /\ changed' = {}
    /\ uncommitted' = NoUpdate
    /\ isErroneous' = FALSE
    /\ UNCHANGED <<disk, writes>>

-----------------------------------------------------------------------------
StoreStep(s) ==
    \/ \E k \in Keys, v \in Values \cup {NoValue} : Put(s, k, v)
    \/ Flush(s) \/ WhenFlushed(s) \/ FlushTimer(s) \/ Close(s)

WindowStep(w) ==
    \/ Open(w) \/ ReceiveItems(w) \/ ReceiveChange(w) \/ ReceiveUpdated(w)
    \/ WindowClosed(w) \/ WindowCrashes(w)

MainStep ==
    \/ \E w \in Windows : GetItems(w) \/ UpdateItems(w)
    \/ FireChanges \/ TransactionEnds \/ TransactionFails \/ DatabaseClosed

Next ==
    \/ \E s \in Stores : StoreStep(s)
    \/ \E w \in Windows : WindowStep(w)
    \/ MainStep
    \/ Restart

Spec == Init /\ [][Next]_vars

(* Timers fire, messages are read, calls are served, transactions settle    *)
(* and closing comes to an end.  Nothing is assumed of those who write,     *)
(* open, close or crash.                                                    *)
Fairness ==
    /\ \A s \in Stores : WF_vars(FlushTimer(s))
    /\ \A w \in Windows :
          /\ WF_vars(ReceiveItems(w) \/ ReceiveChange(w) \/ ReceiveUpdated(w))
          /\ WF_vars(GetItems(w) \/ UpdateItems(w))
          /\ WF_vars(WindowClosed(w))
    /\ WF_vars(FireChanges)
    /\ WF_vars(TransactionEnds \/ TransactionFails)
    /\ WF_vars(DatabaseClosed)

FairSpec == Spec /\ Fairness

-----------------------------------------------------------------------------
(* Properties *)

TypeOK ==
    /\ state \in [Stores -> {"None", "Initialized", "Closed", "Disposed"}]
    /\ cache \in [Stores -> Contents]
    /\ pending \in [Stores -> Updates]
    /\ whenFlushed \in [Stores -> BOOLEAN]
    /\ delayer \in [Stores -> BOOLEAN]
    /\ active \in [Stores -> Updates]
    /\ queued \in [Stores -> BOOLEAN]
    /\ toMain \in [Windows -> Seq(ToMain)]
    /\ toWindow \in [Windows -> Seq(ToWindow)]
    /\ changed \in SUBSET Keys
    /\ disk \in Contents
    /\ uncommitted \in Updates
    /\ isErroneous \in BOOLEAN
    /\ writes \in Nat

(* What the main process holds in memory is what is stored, plus the batch  *)
(* on its way, plus what is pending: a crash can undo those and nothing     *)
(* else, until the database reports an error.                               *)
DiskFollowsCache ==
    ~isErroneous => cache[Main] = Apply(Apply(disk, active[Main]), pending[Main])

(* A change that is pending has a flush on its way. *)
PendingIsScheduled ==
    \A s \in Stores : IsOpen(s) /\ pending[s] # NoUpdate => delayer[s] \/ queued[s]

(* w will hear of the last change of k: it is in the debounced event, or in *)
(* a message on its way.                                                    *)
Told(w, k) ==
    \/ k \in changed
    \/ \E i \in 1 .. Len(toWindow[w]) : toWindow[w][i].update[k] # Nothing
    \/ \E i \in 1 .. Len(toMain[w]) : toMain[w][i].type = "getItems"

(* A window and the main process differ in the value of a key only while    *)
(* the window has a change of it under way, or is about to be told:         *)
(* external changes, its own echoes and its own writes in any order never   *)
(* leave it with a value of its own.                                        *)
WindowsAgree ==
    \A w \in Windows, k \in Keys :
        state[w] = "Initialized" /\ cache[w][k] # cache[Main][k] =>
            \/ pending[w][k] # Nothing
            \/ active[w][k] # Nothing
            \/ Told(w, k)
            \/ state[Main] # "Initialized"

(* An orderly end stores everything, also after errors if the recovery      *)
(* succeeds.                                                                *)
ClosedIsStored ==
    state[Main] = "Disposed" /\ ~isErroneous => disk = cache[Main]

(* Whoever waits for a flush is released, or the store goes away. *)
WaitersAreReleased ==
    \A s \in Stores : whenFlushed[s] ~> ~whenFlushed[s]

(* When nobody writes any more and nothing is closed or restarted, all      *)
(* windows come to agree with the main process, and with the disk.          *)
EventuallyAgree ==
    \A w \in Windows :
        <>[](state[w] = "Initialized" /\ state[Main] = "Initialized") =>
            <>[](cache[w] = cache[Main] /\ (~isErroneous => disk = cache[Main]))

(* The store of the main process keeps the promise of DurableStore. *)
Durable == INSTANCE DurableStore WITH
    memory <- cache[Main], durable <- disk, broken <- isErroneous,
    snapshot <- Apply(disk, active[Main])

DurableSpec == Durable!Spec
=============================================================================
