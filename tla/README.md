# A verification development for Nexgile Code

Nexgile Code is a distribution of VS Code. Its source (`src/`, 19 889 files) is mostly
presentation, extensions and tooling. The parts whose correctness is hardest to see by testing
are those in which several processes, machines or asynchronous operations share one piece of
state: the connection of a window with a remote server, the channels over it, the storage that
all windows share, the settings that several machines synchronise, a text file that an editor
and other programs write, the sessions of an agent host that its clients copy. This directory models them in TLA+, checks the models with TLC and
proves the central properties with TLAPS. Paths below are relative to `src/src/vs/`.

## 1. The system

### 1.1 Components

| Component | State it keeps | Operations | Talks to | What makes it correct |
|---|---|---|---|---|
| **PersistentProtocol** (`base/parts/ipc/common/ipc.net.ts`) | replay queue, message and ack counters of both directions, four timers, the socket, the writer's buffer and pause flag | `send`, `_receiveMessage` for each message type, ack / unack / keep-alive timers, `beginAcceptReconnection`, `endAcceptReconnection`, Pause, Resume | its peer over a socket; the two users that replace the socket | each message delivered once and in order over any number of sockets; nothing forgotten before it was delivered; nothing owed without a timer |
| **Client reconnection** (`platform/remote/common/remoteAgentConnection.ts`) | one loop per connection, its grace time, permanent failure of one and of all, disposal | close and timeout events, the attempts, the handshake as the client sees it, permanent failure | the protocol (gives it sockets), the server (control messages) | one loop at a time; it neither stops too early nor goes on after giving up |
| **Server registry** (`server/node/remoteExtensionHostAgentServer.ts`, `remoteExtensionManagement.ts`, `extensionHostConnection.ts`, `workbench/api/node/extensionHostProcess.ts`) | tables of tokens, a handshake state per socket, two grace timers per connection | the handshake as the server sees it, acceptance, hand-over of the socket to another process, shortening and expiry of grace times | clients; extension host processes (by process messages) | a live client is never dropped, a dead one always is |
| **IPC channels** (`base/parts/ipc/common/ipc.ts`) | client: handlers, active requests, deferred requests; server: channels, pending requests with timers, active requests | call, cancel, listen, dispose, fire, register a channel, flush, time out, dispose | each other, over PersistentProtocol or any ordered transport | a command runs at most once, each promise settles once, both sides agree on what is active |
| **Key-value storage** (`base/parts/storage/common/storage.ts`, `platform/storage/*/storageIpc.ts`, `base/parts/storage/node/storage.ts`) | per window and in the main process: a cache, pending inserts and deletes, a throttled flush; the SQLite file and an error flag | `set`, `delete`, `flush`, `close`, `acceptExternal`, the channel and its debounced change event, transactions, recovery | each window's storage over a channel; the main process's over SQLite | windows come to agree; what the memory held at one moment is what is stored; an orderly end stores all |
| **Settings synchronisation** (`platform/userDataSync/common/`) | the server's versions; per machine the file, the last synchronised version, a status, a preview, backups | sync, resync, accept and apply, the preconditions of file and server, retries, turning off | the file service, the user data server | nothing is replaced unseen; no edit is lost; machines converge or ask |
| **Text files** (`workbench/services/textfile/common/textFileEditorModel.ts`, its manager, `editorAutoSave.ts`, `platform/files/common/fileService.ts`) | version ids, dirty, conflict and error flags, the sequentializer of saves, a queue of reloads, the last known stat | typing and undo, save, auto save, overwrite, reload, revert | the file service and its watcher, save participants, other programs | what is not shown as dirty is saved; a reload never takes what is unsaved |
| **Agent host sessions** (`platform/agentHost/`: `common/state/agentSubscription.ts`, `browser/agentHostProtocolClient.ts`, `node/protocolServerHandler.ts`, `node/agentHostStateManager.ts`, `node/agentService.ts`) | host: the numbered actions, a replay buffer, subscriptions per connection, a queue per client; client: confirmed state, pending actions, an outbox and a gate while it reconnects | subscribe, unsubscribe, dispatch, reject, broadcast, reconnect by replay or snapshots | each other over a transport that may break | the copy is the host's state up to what was seen; no action is lost, none overtakes another; a guess does not stay |
| Async primitives (`base/common/async.ts`) | queues, a running promise, a timer | `Throttler`, `Delayer`, `TaskSequentializer` (modelled where they are used), `Limiter`, `ResourceQueue` | everything | no task lost or run twice; the limit is kept; idle is noticed |
| Framing (`ipc.net.ts`: `ChunkStream`, `ProtocolReader`, `BufferedEmitter`) | buffered bytes, a header state, buffered events | read, deliver | socket, protocol | any partition of the bytes gives the same messages, in order |
| Extension host RPC (`workbench/services/extensions/common/rpcProtocol.ts`) | pending replies, cancellation, unacknowledged requests | call, acknowledge, reply, cancel | PersistentProtocol | each call is replied to once; unresponsiveness is noticed and withdrawn |

The other parts (update, lifecycle and windows, editor, workbench, agents window, terminals,
the Rust command line, bundled extensions, build) are listed in `PROJECT.json` with the reason
why they are not modelled.

### 1.2 How the parts interact

```
   window                                     server process          extension host process
 +------------------------+   socket(s)   +----------------------+   process  +-------------------+
 | ChannelClient          |<- - - - - - ->| ChannelServer        |   messages |                   |
 | PersistentProtocol     |<=============>| PersistentProtocol   |            | PersistentProtocol|
 | PersistentConnection   |  handshake    | handshake, registry  |===socket==>| grace timers      |
 |  (reconnecting loop)   |               | ManagementConnection |            |                   |
 +------------------------+               +----------------------+            +-------------------+
   Storage, sync, text file, agent sessions
       |          |        \   \__ agent host: numbered actions, replay or snapshots
       |          |         \__ file service: write if unchanged, watch
       |          \___________ user data server: post if latest
       \______________________ main process: Storage over SQLite, change events to all windows
```

A window has a *management* connection, whose other end lives in the server process, and an
*extension host* connection, whose socket the server passes on to a process of its own. When
a socket dies, the client opens another, sends `auth`, reads `sign`, sends `connectionType`
and reads `ok` as control messages; both ends then give the new socket to the protocol
objects they already have, which write everything unacknowledged again.

Windows and the main process share one storage by messages only: a window sends the batches
that it flushes, the main process sends every window what has changed. Machines share their
settings through a server that accepts a version only if it replaces the latest one, and an
editor shares its file with other programs through a file service that compares it before it
writes. A client of the agent host acts on its copy at once and is told later. In all of
these, what was read is old when it is used.

### 1.3 What is hard here

* Sockets overlap: the server may still be busy with an older one, and can even accept it
  after a newer one, or after the client has left it.
* Messages in flight are old: a replayed message carries an acknowledgement from the past, an
  echo of a window's own write arrives after a later write.
* Many timers race with events (acknowledgement, timeout, keep-alive, replay, grace time,
  attempt time, request time, flush delay, auto save).
* The code awaits (a debug port, a drain, a request, a write) between its decision and its
  effect, while users go on typing.
* Processes share one socket in turn, and Pause / Resume must keep the window quiet while it
  moves.
* Requests may come before their channel, be cancelled before they run, and time out while
  their channel is being registered.
* A step of several fails, or the process dies between two: a transaction, a synchronisation
  that has posted its version and not yet noted it.

`PROJECT.json` lists each hazard at its line, with the properties that cover it or the
reason why none does yet.

## 2. Plan

| Order | Module | Says | State |
|---|---|---|---|
| 1 | `PersistentProtocol`, abstract `ReliableChannel`, `PersistentProtocolProofs` | what a connection carries | done: 2 runs, 9 theorems |
| 2 | `IpcChannel` over `Subsequences`, `IpcChannelProofs` and `SubsequenceTheorems` | what the channels promise over it | done: 1 run, 5 theorems |
| 3 | `RemoteConnection`, `RemoteConnectionProofs` | who still believes in the connection | done: 2 runs, 5 theorems |
| 4 | `SharedStorage`, abstract `DurableStore`, `SharedStorageProofs` | one storage for all windows, and its file | done: 2 runs, 6 theorems |
| 5 | `UserDataSync`, `UserDataSyncProofs` | one file on several machines | done: 2 runs, 4 theorems |
| 6 | `TextFileModel`, `TextFileModelProofs` | one file between an editor and other programs | done: 2 runs, 3 theorems |
| 7 | `AgentSubscription` over `Subsequences`, `AgentSubscriptionProofs` | a session of the agent host and its copy at a client | done: 1 run, 4 theorems |
| 8 | in `PersistentProtocolProofs` | `SocketsAreReadable`: without lossy links each socket carries what follows its reader's count without a gap, and nothing regular while it is handed over | done |
| 9 | in `AgentSubscriptionProofs` | `ActionsKeepTheirOrder` and `ConfirmedFollowsHost` | done |
| 10 | `BufferedEmitter` and `ProtocolReader` | order of delivery; messages from any partition of the bytes, as a recursive function | planned |
| 11 | `RPCProtocol` | calls, acknowledgements, the unresponsive check | planned |
| 12 | the graceful end: `sendDisconnect`, `dispose`, fresh connections and the start of an extension host, in 1 and 3 | the hazards that have no property yet | planned |

The abstract specifications are `ReliableChannel` (a FIFO in each direction, at most once, with
acknowledgements only for what was delivered) and `DurableStore` (a file that is always some
moment of a memory, and never an earlier one again). Modules that are proved about use no
`RECURSIVE` operator; parameters are constants with named assumptions.

## 3. What is modelled

### 3.1 PersistentProtocol

The state is the fields of the class, per peer, under the names of the source without the
underscore; `net` is what is in flight on each socket in each direction, `writerData` the
buffer of `ProtocolWriter`. `delivered` is a history variable: what the application above
was handed.

| Action | Code |
|---|---|
| `Send` | `send`, with `_recvAckCheck` |
| `ReceiveRegular`, `ReceiveDuplicate`, `ReceiveGap` | the three outcomes of a Regular message in `_receiveMessage` |
| `ReceiveAck`, `ReceiveReplayRequest`, `ReceivePause`, `ReceiveResume` | the other cases of that switch (keep-alives and acks share their effect) |
| `AckTimeout`, `UnackTimeout`, `KeepAlive`, `ReplayWindowEnds` | the timers, and the ten seconds between two replay requests |
| `Flush` | `ProtocolWriter._writeNow` |
| `BeginAcceptReconnection`, `EndAcceptReconnection` | the methods of these names, used by both ends |
| `ClientBegin`, `ReceiveSign`, `ReceiveOk`, `ClientEnd` | `connectToRemoteExtensionHostAgent…` |
| `HandshakeAuth`, `HandshakeIgnore`, `AcceptManagement`, `HandOver` | the server's listener on control messages and `_handleConnectionType` |
| `AcceptExtensionHost`, `ServerEnd` | the message listener of the extension host process |
| `SocketBreaks`, `MessageLost` | the network |

Abstractions, and why they lose nothing the properties speak of:

* Time. A timer that is armed may fire at any moment. In the code a timer that fires early
  re-arms itself, so the model has every behaviour of the code and some that its clock
  excludes.
* `ClientBegin` may happen at any time: the client may believe a live socket dead. The
  conditions under which it does are the subject of `RemoteConnection`.
* `beginAcceptReconnection` and `endAcceptReconnection` are two steps, because the initial
  chunk read from the handshake is delivered in between.
* A socket carries whole messages. The cutting of bytes into messages is planned as a module
  of its own.
* `MessageLost` exists only with `LossyLink`. TCP and WebSocket do not lose messages in
  mid-stream; the code defends itself nevertheless ("in case we missed some messages").

`ReliableChannel` is the promise: one FIFO in each direction, at most once, in order, and an
acknowledgement only for what was delivered. `ChannelSpec` maps `sent` to `outgoingMsgId` and
`confirmed` to `outgoingAckId`.

### 3.2 IpcChannel

One client and one server over an ordered transport. A call has an id of its own; an event
id lives as long as its emitter and is sent each time a first listener comes or a last one
goes. `pendingRequests` keeps for each request whether its timer has fired or was cleared.
`called` counts how often `channel.call` ran, `running` has the runs that are not settled,
`aborts` and `unanswered` remember what went wrong. `early` says which channels are registered
before the first request, as most are.

| Action | Code |
|---|---|
| `Call`, `CancelCall` | `requestPromise` and its `cancel`, before and after initialization |
| `Subscribe`, `Unsubscribe` | `requestEvent`: `onWillAddFirstListener`, `onDidRemoveLastListener` |
| `Initialize`, `ReceiveResponse`, `ReceiveEvent` | `onResponse` and the handlers |
| `ReceiveRequest`, `ReceiveTooEarly`, `ReceiveAbandon` | `onRawMessage`: `onPromise` / `onEventListen`, `collectPendingRequest`, `disposeActiveRequest` |
| `Complete`, `Fire` | the continuations of a call, with or without a response; an event of the channel |
| `RegisterChannel`, `FlushAll`, `FlushUpTo`, `PendingTimeout` | `registerChannel` and its timer, the timer of a pending request |
| `ClientDispose`, `ServerDispose` | `dispose` of either side |

One turn of an event loop, with the microtasks it starts, is one step. So what is cancelled
between the resolution of the initialization promise and its continuation is not modelled.
Values are abstracted away but for what they can break. An argument that cannot be serialized
rejects a call (`Call`, `InitializeBut`; `ipc.test.ts` covers it).

Two error paths have no `catch`, and the properties name what they cost:

* A result that cannot be serialized makes `sendResponse` throw in the fulfilled handler of
  `then`. The rejected handler of the same `then` does not run, `finally` drops the call, and no
  response is ever sent (`ipc.ts:435`–`451`). The caller may wait for ever: `EventuallySettled` and
  `HandlerIsAwaited` except it (`unanswered`), and nobody else.
* A `channel.listen` that throws (`Throwing`; for instance `storageIpc.ts:103`) within a flush ends
  the loop before `pendingRequests.delete` (`467`, `518`). What has run stays in the queue, what
  comes behind waits, its timer armed. The next `registerChannel` of that name runs it all again.
  So `CalledOnce` lets a command run as often as flushes of its channel were aborted (`aborts`);
  `activeRequests` knows the latest run only, and forgets it when any run of the call ends
  (`RunningIsCancellable`). Outside a flush the protocol's emitter catches the throw. Either way the
  client stays subscribed to an event that the server does not listen to, which
  `EventsAndTokensAgree` excepts.

`EventsAndTokensAgree` speaks of `early` channels. With late registration the code does not
keep it: an `EventDispose` that arrives while its `EventListen` is pending finds nothing to
dispose, and the flush subscribes afterwards. A request whose timer has answered with an error
stays pending and is carried out when its channel is registered (`ipc.ts:490`, `505`); nothing
in the repository promises the contrary.

### 3.3 RemoteConnection

The handshake again, this time without what the connection carries, but with everything that
decides whether it goes on: the loop, its grace time and failures, the registry, both grace
timers, the extension host process.

| Action | Code |
|---|---|
| `SocketClosed`, `SocketTimesOut` | the listeners of `PersistentConnection`'s constructor, with `_beginReconnecting` |
| `WaitEnds`, `ConnectFails`, `ConnectSucceeds`, `AttemptTimesOut`, `GraceTimeEnds` | `_runReconnectingLoop`, `PromiseWithTimeout` |
| `ReadSign`, `ReadOk`, `ReadError` | the client's half of the handshake |
| `Dispose` | `PersistentConnection.dispose` and the end of its socket |
| `ReadAuth`, `ReadConnectionType`, `PortFound`, `ProcessTakesSocket` | the server's half: the listener, the await of a debug port, the drain and the process message |
| `ServerSocketClosed`, `GraceTimerFires`, `ReduceGraceTime`, `AnotherClientConnects` | `_disconnectRunner1`, `_disconnectRunner2`, `shortenReconnectionGraceTimeIfNecessary` |
| `ProcessExits`, `ExitNoticed` | the exit of the process and the server's `exit` listener |
| `SocketBreaks`, `MessageLost` | the network |

`Fatal` are the connections whose failure is fatal for the window (management). A grace time
of zero, for which the loop gives up at once, is excluded. The graceful Disconnect message,
fresh connections and named pipes are not modelled.

### 3.4 SharedStorage and DurableStore

One `Storage` per window and one in the main process (`Main`), which has the database. A
change that is pending is a function from keys to a value, `NoValue` (delete) or `Nothing`.

| Action | Code |
|---|---|
| `Put`, `Flush`, `WhenFlushed`, `Close` | `set`, `delete`, `flush`, `whenFlushed`, `close` of `storage.ts` |
| `FlushTimer`, `Settle`, `FlushPending` | the `ThrottledDelayer` around `flushPending`: the timer, the promise that settles, the queued promise |
| `Open`, `ReceiveItems`, `ReceiveChange`, `ReceiveUpdated`, `WindowClosed` | a window: `init`, `acceptExternal`, the answer to `updateItems` |
| `GetItems`, `UpdateItems`, `FireChanges` | `StorageDatabaseChannel` of the main process, with its debounced event |
| `TransactionEnds`, `TransactionFails`, `DatabaseClosed` | `updateItems` and `close` of the SQLite database, with `isErroneous` and the recovery |
| `WindowCrashes`, `Restart` | processes that end anywhere |

An SQLite error leaves any part of a transaction behind: any of the two statements committed,
or a transaction that stays open and is ended by the next. `DurableStore` is the promise of
the main process's store: a memory that changes, a file that is at any time one past moment of
the memory as a whole (`snapshot` is the next), never goes back, and may break; orderly closing
leaves all of the memory in the file.

### 3.5 UserDataSync

`AbstractSynchroniser` with the merge of `AbstractJsonSynchronizer` (tasks, MCP servers), on
several machines that share one resource of the server. A machine has two operations, which take
their steps independently: a sync or resync (`Syncer`), and an apply of what the user has decided
(`Applier`), which the service runs at once, also while a local change makes the synchroniser
sync again. `preview`, `pc` and `touched` are kept per operation. `edit` is the history: what the
user of a machine did last to the file, until a write replaces it in a moment in which the code
does not look.

| Action | Code |
|---|---|
| `Edit`, `AcceptLocal`, `AcceptRemote`, `AcceptMerged`, `AcceptNothing` | the users: files, and the choices in a conflict (`accept`, then `apply`), also in one that a resync is about to resolve, or has failed on |
| `FetchManifest`, `SkipSync`, `BeginSync`, `Resync` | `createSyncTask`, `sync`, `doTriggerLocalChange` |
| `Fetch`, `Generate` | `getLatestRemoteUserData`, `generateSyncPreview` and the merge |
| `CheckLocal`, `WriteLocal`, `WriteRemote`, `Save` | `applyResult`: the backup and the check of the file service, the write of the file, the server, the last sync data |
| `RequestFails`, `Restart`, `TurnOff` | requests that fail before or after the server took them, a backup or a write of the file that fails, a process that ends, `resetLocal` |

The file service looks at the file (`fileService.ts:489`, or 364 for a new file) and writes it some
awaits later (419), and `deleteLocalFile` does not look at all. So `CheckLocal` and `WriteLocal` are
two steps, and an edit between them is replaced without a backup. `touched` of an operation tells
that its file was changed since it was read or checked; `WriteLocal` takes such an edit out of the
history, and `EditsAreKept` speaks of all others.

Two contents are enough for a merge to be undecided. Contents are of different lengths, because
the file service compares modification time *or* length. The throttler and the task queue let one
sync or resync run at a time; between any two steps everything else goes on. `Generate` reads the
file and merges in one step: what is changed after the reading is changed after `Generate`. An
accept that comes while a resync has no preview yet waits for its merge, and is the one that comes
after it.

### 3.6 TextFileModel

One file that is open in an editor with auto save after a delay. The undo stack is a sequence of
contents with their alternative version ids; `disk` is all contents the file had, so that a stat
is an index.

| Action | Code |
|---|---|
| `Type`, `UndoOrRedo` | `onModelContentChanged` with `setDirty` |
| `SaveCommand`, `AutoSaveFires` | `save` / `doSave`, `EditorAutoSave` |
| `DelayEnds`, `BeginWrite`, `WriteConflicts`, `WriteFails`, `HandleSaveSuccess` | the steps of `doSaveSequential`, `handleSaveSuccess`, `handleSaveError` |
| `CheckFile` or `CheckFails`, `Write`, `LookAtFile` | the three awaits of `FileService.writeFile`: `validateWriteFile`, the write, `resolve` |
| `FileEvent`, `BeginResolve`, `DropRead`, `ResolveFromContent`, `ReadFails` | the manager's reloads and `resolve` |
| `ReadStat`, `ReadContent` | `doReadFileStream`: a reload looks first and then reads, a revert does both at once |
| `Revert` | `revert`, which is soft at first and undone if reading fails |
| `WriteOutside` | another program |

Another program may write the file between any two of these steps. What it writes between the
check and the write of a save is lost without a word, as the file service has no lock; a check
that cannot look at the file is no check (`CheckFails`). What it writes between a read of a reload
and the stat before it is harmless: the text is then of a later version than the stat, and the next
reload finds that the file has changed. So `CleanIsSaved` says that a text which is not dirty is
the version of the last stat or a later one.

`raced` marks the runs in which one of these races was lost, and `CleanIsSaved` speaks of the
others; each use of `Race` names one:

* the user types or undoes while a revert reads, undoes while a save is writing or when one has
  ended that was overtaken by a newer text (section 6), saves what is not dirty while a reload or a
  revert reads, or reverts while a save or a reload is under way;
* another program writes between the write of a save and the stat after it (`LookAtFile`), or
  between the text and the stat of a revert that read the text first (`ReadStat`): the editor takes
  the stat for that of its own text, reloads answer that nothing has changed, and the editor shows
  a text as saved that is not in the file.


### 3.7 AgentSubscription

One session of the agent host as one client sees it. The host numbers every action that it
carries out or rejects (`log`) and sends it to the connections that subscribe; the client keeps
a confirmed state, applies its own actions at once and holds them as pending until they come
back. A state is the sequence of the actions that made it, so that the reducers are left out
and nothing else is.

| Action | Code |
|---|---|
| `Acquire`, `Release`, `Act` | `getSubscription`, `_releaseSubscription`, `applyOptimistic` |
| `ReadAction`, `ReadAnswer` | `receiveEnvelope` / `_reconcile`; the answer to `subscribe` with its guard on entry and version |
| `Connect`, `ReadReplay`, `ReadSnapshots`, `Resume` | `_attemptReconnect`, `_applyReconnectResult`, `_drainAfterReconnect` and the gate |
| `ReadDispatch`, `Take`, `Execute`, `Publish` | `dispatchAction` and its queue per client, `rejectClientAction`, `_recordAndBroadcastAction` |
| `ReadReconnect`, `RestoreEnds`, `SendAnswer` | `_handleReconnect`; the end of `_restoreReconnectSubscriptions`, which activates and composes the answer; the `then` of its promise, which sends it |
| `ReadSubscribe`, `TakeSnapshot` | the `subscribe` handler before its await; `AgentService.subscribe` takes the snapshot |
| `SubscribeEnds`, `SubscribeFails`, `SubscribeIsCancelled`, `SendAnswer` | the handler after its await: activation, the error path, the loss of its registration; `_handleRequest` sends the answer |
| `ReadUnsubscribe` | `_removeSubscription` |
| `ActOfOthers` | `dispatchServerAction` and the actions of other clients, on the root or the session |
| `TransportBreaks`, `ReadLate` | the transport: what was not read is lost, but the host may read a part of the actions later |

`gap` marks an entry that has met one of the six situations which the protocol does not
provide for (section 6); a fresh entry, or a snapshot of a reconnection, ends it. What
`ConfirmedFollowsHost` and `EventuallySettled` say is said of the others. `ActionsKeepTheirOrder`
has no such exception.

The session is always known to the host, the client is always remembered by it, and no
authentication is restored; so the reconnection has no missing subscriptions and no fresh
`initialize`, and with it no baseline debt, which only `initialize` records.

A snapshot, the activation of its subscription and the sending of the answer are three steps, as
are the activation, the composition and the sending of a reconnection's answer. Between them lie
only microtasks of the host (`agentService.ts` 6534 and 6583, `protocolServerHandler.ts` 1607–1615,
501–504 and 1902–1904), and the model uses this once: while an answer is under way
(`IsAnswering`) the host reads no message and sees no transport close, for these come from the
event loop. Actions of others and of the queue, whose continuations are microtasks too, may be
carried out at each of these points. On the client an answer and what follows its await (`_subscribe`,
`_reconnectOrInitialize`) are one step, for the next message is a task of its own. `_reconcileActiveClientsAfterReconnect` (1064) acts on
sessions that the client no longer has, and on this one if it did not resubscribe: to the
client such an action is one of `ActOfOthers`, which may happen there. The second read of a
chat's snapshot (6543) is the same step, later.

## 4. The runs

| Run | Instance | Shows |
|---|---|---|
| `lossy` | messages a, b one way and c the other, two sockets, a management connection, a link that drops messages, one keep-alive beside another message | `TypeOK`, `DeliveredInOrder`, `ReplayIsPossible`, `NothingIsForgotten`, and the refinement `ChannelSpec` |
| `handover` | a, b one way, an extension host connection, three sockets, fairness | `SocketsAreReadable`: on sockets that lose only tails no replay request is ever needed, and none carries a message to the wrong process; `EventuallyConfirmed`, for which a paused client must be resumed |
| `calls` | a call and two events, one of which cannot be listened to; two first listeners in all; a channel registered in time, late, again or never; two aborted flushes; fairness | `TypeOK`, `CalledOnce`, `HandlersMatchCalls`, `SidesAgree`, `EventuallySettled` |
| `exthost` | an extension host connection, three sockets, fairness | `DeadIsWatched`, `EventuallyReconnected`, `EventuallyForgotten` |
| `window` | a management and an extension host connection, two sockets each | `TypeOK`, `RefusedOnlyIfGone`, `ConnectedIsSafe`, `NoNewAttempts` |
| `storage_windows` | two windows (symmetric), one key with one value, three writes | `TypeOK`, `PendingIsScheduled`, `WindowsAgree` |
| `storage_faults` | one window, two keys, one value, two writes, failing transactions, crashes, restarts, fairness | `DiskFollowsCache`, `ClosedIsStored`, the refinement `DurableSpec`, `WaitersAreReleased`, `EventuallyAgree` |
| `sync_machines` | two machines, two contents, two edits or decisions, one failure, fairness | `TypeOK`, `EditsAreKept`, `NoConflictWithItself`, `NothingUnseenReplaced`, `Converges` |
| `sync_stuck` | the same without a failure | a disagreement: `SyncingIsRunning` (section 6) |
| `text_editing` | four steps of users and other programs, one failure, fairness | `TypeOK`, `CleanIsSaved`, `UnsavedIsKept`, `EventuallySaved` |
| `text_undo` | two steps, no other program | a disagreement: `SavedVersionIsOnDisk` (section 6) |
| `session` | two actions, one of others, two subscribe requests, a broken transport, a replay buffer of two, fairness | `TypeOK`, `ConfirmedFollowsHost`, `ActionsKeepTheirOrder`, `EventuallySettled` |

**Bounds.** `MaxSockets` bounds the sockets a client opens. Two give one reconnection that can
break at each point; with three, an older attempt is accepted after a newer one. The network
does not break the last socket, so that runs end in a state from which progress is possible; in
`RemoteConnection` either end may still close it, and `EventuallyReconnected` has as its
premise that neither does. Scripts of two messages are the least for which order, a partly
acknowledged queue and a gap exist. `KeepAliveRoom` bounds how many messages are in flight when
a keep-alive is added: keep-alives carry an acknowledgement and nothing else, so more of them
repeat what one does. `MaxSubscriptions = 2` lets an event be subscribed, left and subscribed
again. `MaxFires` bounds the event messages on their way to the client; `MaxAborts` the flushes that a
listen aborts (a command that waits behind one can run twice, but not three times). `MaxWrites` bounds what
the windows set and delete: with two windows, three writes let a window write over its own
pending change while the other's arrives. `ChannelRoom` bounds the notices that wait for a
window when it sends more. The two storage runs are separate because neither question needs
the other's faults: agreement between windows is about order, durability about failures.
`MaxEdits` and `MaxFailures` bound what users and the network do; two edits on two machines
give a conflict, its resolution and what comes back; a decision that overlaps a resync counts as
a failure, since it is as rare and disturbs as much. `MaxSteps = 4` is the least with which a
save, an undo and another program's write meet twice; in `text_undo` no other program writes
(`OthersWrite`), so that nothing but the undo can break the property. In `session` a buffer of two is
exceeded by three numbered actions, so both kinds of reconnection occur; a second subscribe
request replaces an entry while the answer to the first is under way. One action of others is
enough to fall into each of the windows around a snapshot and an answer, and one broken transport
to leave queues, late actions and requests behind. The last entry is not released, and none after
the last action (`Release`), for then nothing is left to go wrong.

**Deadlock** is not checked: when nothing is left to send, to edit or to break, the systems are
idle, and so are the models.

**Fairness.** `PersistentProtocol` assumes what event loops give: a buffer is flushed, what
arrived is read, the acknowledgement timer fires, a client whose socket is dead opens
another one, a handshake goes on. Applications, keep-alives, unacknowledged-message timers
and the network get none. `EventuallyConfirmed` says nothing about runs in which sockets
break for ever; there are none within the bound. `IpcChannel`: both sides read, timers fire,
a running call settles; channels need never be registered, and a call whose result cannot be
sent is excepted. `RemoteConnection`: closes and
messages are delivered, sleeps and attempts end, a socket whose other end has left it is
noticed by its silence (the keep-alive timeout), and connecting succeeds if it is tried again
and again (strong fairness: between two attempts it is not enabled), unless the client gives
up first. Grace timers that are scheduled fire unless cancelled. `SharedStorage`: timers fire,
messages are read, transactions and closing end, well or badly; nothing is assumed of those
who write, of windows or of crashes. `UserDataSync`: an operation that has begun on a machine
goes on, and an idle machine synchronises again (its interval); nothing is assumed of users.
`TextFileModel`: the auto save timer fires, participants, reads and writes end, the watcher
reports. `AgentSubscription`: the client goes on as long as it has something to read or a transport
to replace, and the host as long as it has something to read, to carry out or to answer (weak
fairness of each as a whole; which of its steps comes next is open); nothing is assumed of users,
other clients or transports.

**Faulty variants.** Beside a definition there may be a variant of it with a plausible
mistake. No action uses them; each was substituted for its definition, and the property named
here then fails:

| Module | Definition | Variant | Property it breaks |
|---|---|---|---|
| `PersistentProtocol` | `HandOver` | `HandOverFaulty` | `SocketsAreReadable` |
|  | `ServerEnd` | `ServerEndFaulty` | `EventuallyConfirmed` |
|  | `AckMsg` | `AckMsgFaulty` | `ReplayIsPossible` |
|  | `NextMessage` | `NextMessageEmpty` | `TypeOK` |
|  | `SendAckCheck` | `SendAckCheckFaulty` | `NothingIsForgotten` |
|  | `IsNext` | `IsNextOrLater` | `ChannelSpec` |
|  | `IsNext` | `IsNextFaulty` | `DeliveredInOrder` |
| `SharedStorage` | `Apply` | `ApplyAlone` | `TypeOK` |
|  | `FireChanges` | `FireInserts` | `WindowsAgree` |
|  | `FlushSettled` | `FlushSettledEarly` | `ClosedIsStored` |
|  | `Settle` | `SettleForgettingQueue` | `PendingIsScheduled` |
|  | `GetItems` | `GetItemsFromDisk` | `EventuallyAgree` |
|  | `FlushTimer` | `FlushTimerDropping` | `WaitersAreReleased` |
|  | `TransactionEnds` | `TransactionEndsInserting` | `DurableSpec` |
|  | `Settle` | `SettleClearing` | `DiskFollowsCache` |
| `IpcChannel` | `ReceiveResponse` | `ReceiveResponseKeeping` | `HandlersMatchCalls` |
|  | `ReceiveAbandon` | `ReceiveAbandonKeeping` | `TypeOK` |
|  | `PendingTimeout` | `TimeoutSilently` | `EventuallySettled` |
|  | `FlushAll` | `FlushAndKeep` | `CalledOnce` |
|  | `Unsubscribe` | `UnsubscribeSilently` | `SidesAgree` |
| `RemoteConnection` | `BeginReconnecting` | `BeginReconnectingAlways` | `NoNewAttempts` |
|  | `Accept` | `AcceptForgettingShort` | `ConnectedIsSafe` |
|  | `AskedToShorten` | `AskedToShortenRegistered` | `TypeOK` |
|  | `Accept` | `AcceptKeepingCloseSeen` | `DeadIsWatched` |
|  | `ServerSocketClosed` | `ServerSocketClosedForgetting` | `RefusedOnlyIfGone` |
|  | `Accept` | `AcceptKeepingCloseSeen` | `EventuallyForgotten` |
|  | `Retry` | `RetryOnce` | `EventuallyReconnected` |
| `UserDataSync` | `Post` | `PostAnswered` | `TypeOK` |
|  | `BeginSync` | `BeginSyncWithoutFetch` | `Converges` |
|  | `MayPost` | `MayPostAlways` | `NothingUnseenReplaced` |
|  | `Save` | `SaveUnlessPosted` | `NoConflictWithItself` |
|  | `MayWrite` | `MayWriteAlways` | `EditsAreKept` |
| `TextFileModel` | `Done` | `DoneForgettingQueue` | `EventuallySaved` |
|  | `HandleSaveSuccess` | `HandleSaveSuccessAlways` | `CleanIsSaved` |
|  | `IsCurrent` | `IsCurrentAlways` | `UnsavedIsKept` |
|  | `DoSave` | `DoSaveUnqueued` | `TypeOK` |
| `AgentSubscription` | `Receive` | `ReceiveRejected` | `ConfirmedFollowsHost` |
|  | `Resume` | `ResumeKeepingOutbox` | `TypeOK` |
|  | `Drain` | `DrainOutboxFirst` | `ActionsKeepTheirOrder` |
|  | `Drain` | `DrainOutboxOnly` | `EventuallySettled` |

## 5. What is proved

`PersistentProtocolProofs` proves for every script, payload set, number of sockets, kind of
connection and link, from the named assumptions of `PersistentProtocol` alone:

* `TypeCorrect`, `NothingLostOrRepeated`, `UnackQueueExact`, `AcksAreSafe`,
  `MessagesStayTrue`: the invariants `TypeOK`, `DeliveredInOrder`, `UnackQueue`,
  `AckedWasDelivered` and `InFlightIsTruthful`; `ReplayStaysPossible` joins the two of
  the queue to `ReplayIsPossible`;
* `NothingStaysForgotten`: the invariant `NothingIsForgotten`; its two parts are kept peer by
  peer, because each step that raises a counter of a peer also checks its timer (`CheckArms`);
* `ImplementsReliableChannel`: the protocol implements `ReliableChannel`.

The inductive invariant `IInv` is the conjunction of these invariants with `SentFromScript`
(no more is sent than the script holds). None of them is inductive alone. `DeliveredInOrder`
needs every Regular message in flight to name its own payload. `AckedWasDelivered` needs a
bound on every acknowledgement that may still arrive, on any socket ever opened and in any
message that may be written again. Both are `InFlightIsTruthful`, which is stable because the
counters it refers to only grow (`HonestForever`). And the queue is cut at the right place
only because its numbers are consecutive (`UnackQueue`, used in `DropAckedCut`).

The argument is organised around `Honest(p)`, the queues that p may have written. Lemmas show
it closed under what the protocol does to queues (append, concatenate, cut, take the tail or
a prefix); one lemma per group of actions shows that the action preserves `IInv`;
`InvariantIsInductive` collects them. The refinement proof reads each step as a step of the
channel: sending is `Send`; reading an acknowledgement, a message or both is `Receive`, by
`ReadConfirms`; all other steps stutter.

`SocketsStayReadable` proves `SocketsAreReadable` under the hypothesis `~LossyLink`: as a TCP
socket does, a socket may lose the end of what it carries, and nothing before that. Its invariant
`SocketInv` says, beside `IInv`, what each socket carries:

* the client uses the latest socket, the server one whose handshake is over, and sockets to come
  are empty (`SocketsInOrder`); nobody asks for a replay (`NothingIsReplayed`);
* what is in the writer and on the socket of a peer is, behind the count of the one that reads it
  or will, without a gap (`Gapless`), and while the socket is up and the peer does not reconnect
  it ends with the latest message (`HasLatest`), which is why the next message fits (`Flows`). A
  peer that still reads a socket which the other has left reads a prefix (`RestIsGapless`);
* until the server has taken the latest socket it carries only plain messages to the server
  (`HandshakesReadPlain`), and to the client only what the handshake answers, the ok after the
  Pause; so the client is paused before it can end its reconnection and write a regular message
  (`HandOverIsQuiet`).

`Gapless` allows what a reconnection writes: the repeated queue begins at or below the reader's
count and goes on by one. It is closed under taking a prefix, reading the head, appending the next
number and appending what has no number, and one lemma states each. `ReceiveGap` and
`ReceiveReplayRequest` turn out to be impossible on such sockets.

`RemoteConnectionProofs` proves, for every set of connections, every choice of the fatal ones
and every number of sockets, from `FatalAssumption` and `BoundAssumption` alone:

* `TypeCorrect`, the invariant `TypeOK`;
* `ConnectedClientsAreSafe` and `DeadClientsAreWatched`, the invariants `ConnectedIsSafe` and
  `DeadIsWatched`: the server's grace timers run exactly where they should;
* `OnlyGoneAreRefused`, the invariant `RefusedOnlyIfGone`;
* `FailureEndsAllAttempts`, the action property `NoNewAttempts`: only a close, a timeout and the
  end of a sleep begin an attempt, and each of them looks at the flag of the permanent failure.

Its inductive invariant is `TypeOK` and `Watched(k)` for every connection: a grace timer runs
only after the server saw its socket close; a close that was seen means that the socket is
dead; a living connection whose close was seen has its long timer running; a living connection
is in the server's table; and an `error` is under way only for one that is not. The second
part is the one that makes `ConnectedIsSafe` inductive: the client never shares a live socket
with a server that has a timer running, because the timer proves the socket dead and sockets
never come back. Steps that touch only the client or the network keep it by one lemma,
`QuietStep`: they leave the server's variables alone, only kill sockets, and create no `error`.
The steps of the server are treated one by one.

`SharedStorageProofs` proves for any windows, keys, values and bounds:

* `TypesAreKept` and `PendingChangesAreScheduled`: a change that waits always has a timer, or
  the one promise that the Throttler keeps in its queue, that will flush it;
* `DatabaseFollowsMemory` and `OrderlyEndStores`: until an SQLite error, memory is the database,
  then the batch on its way, then what is pending; and closing in order, or with a recovery,
  leaves nothing behind;
* `StoreIsDurable`: the store of the main process implements `DurableStore`.

The inductive invariant `DatabaseInv` adds to `DiskFollowsCache` that nothing is uncommitted
without an error and that a store that is disposed of is quiet: no timer, no batch, no queue.
Without the last part a batch could arrive after closing was answered. The refinement maps the
batch on its way to the abstract snapshot.

`WindowsComeToAgree` (`WindowsAgree`) holds for any number of windows and keys, with crashes and
errors, and rests on an invariant of its own. `AgreementInv` follows every key of every window
through the queues: a window that is gone says nothing any more (`GoneIsSilent`), the last
notice on its way to a window holds what the main process holds unless another is to come
(`NewsIsTrue`), a window has one batch on its way at most (`OneBatch`), and the window agrees,
or will hear, or has a change of its own under way (`Agreement`). The main lemmas are about
what remains the last message for a key when a queue loses its head or gains a tail.

`UserDataSyncProofs` proves for any machines and contents `TypesAreKept`, `EditsSurvive`
(`EditsAreKept`), `ConflictsAreWithOthers` (`NoConflictWithItself`) and `NothingIsReplacedUnseen`
(`NothingUnseenReplaced`, an action property). `SyncInv` has two parts beside `TypeOK`:

* what an operation knows (`Knows`), whatever fails and overlaps: a merge that changes the server
  found there what was synchronised (`MergeKnew`), what will be backed up is in the file unless that
  was touched (`ReadIsCurrent`), and what will be replaced was backed up or is the new content,
  unless the file was touched since the check (`CheckIsCurrent`);
* what a machine remembers (`Remembers`) while nothing fails: an apply runs apart from every sync
  (`Apart`), an operation deals with a version not older than the last synchronised one, and its
  note of that is not old (`Ordered`), and each own version is noted or about to be (`OwnIsKnown`).

Each part is kept by the steps of an operation, one lemma per group, and by those of all others,
by one lemma: they only add versions to the server, and touch what they change.

`TextFileModelProofs` proves for any number of steps and failures `TypesAreKept`,
`CleanTextIsSaved` (`CleanIsSaved`) and `UnsavedTextIsKept` (`UnsavedIsKept`, an action property).
`FileInv` says, until a race is lost (`raced`): the ids of the undo stack tell its texts apart; what
is not dirty is at the saved version, and the text of that version was in the file since the last
stat unless a save of another text has ended since (`Agrees`, with `FoundFrom`); the stat of a save
that has looked is that of its own text; a read and a revert run alone, what was read was in the
file since the stat of the read, and the flags that a failed revert restores are true.
`CleanIsSaved` alone is not inductive: an undo comes back to a saved version, a write ends long
after its text was taken, and a revert puts old flags back. What other programs write takes nothing
from `FoundFrom`, since the file's versions only grow (`FoundStays`).

`IpcChannelProofs` proves for any calls, events and channels `IpcInvIsInvariant`, and from it
`IpcTypesAreKept` (`TypeOK`), `CommandsRunOnce` (`CalledOnce`), `HandlersAreAwaited`
(`HandlersMatchCalls`) and `SidesAreInAgreement` (`SidesAgree`). `IpcInv` follows each request:

* a request is in one place, once, and only goes forward: deferred, on its way, waiting for its
  channel, called; or it waits in a queue whose flushes were aborted, and has run at most as
  often (`IsOnce`). A promise is fulfilled by a run that has ended (`IsEarned`). An aborted flush
  leaves a throwing listen in its queue, so no later flush ends;
* listens and disposals of an event alternate along the queue, from what the server listens to,
  to what the client wants (`Leads`, a function of 0 and 1 over the places of the queue);
* a call that was cancelled while its request was on its way has the cancellation behind it, and
  one that still runs has it under way (`Behind`, `CancelFollows`).

The last two hold while neither side is disposed of and for channels registered in time, as
`SidesAgree` does; the first holds always.

`AgentSubscriptionProofs` proves, for any actions and bounds, `TypesAreKept` (`TypeOK`),
`OrderIsKept` (`ActionsKeepTheirOrder`), `NoActionIsLost` and `ConfirmedIsTheHosts`
(`ConfirmedFollowsHost`). The argument has three layers:

* order. `OrderInv` says that the client's actions go through the outbox, the transport (also one
  that broke and is read late) and the host's queue without a hole below any of them
  (`QueuesAreInOrder`), that the outbox holds the last ones (`OutboxIsLatest`), that the pending
  ones ascend (`PendingAscends`), and that each action is in the log, dropped or pending, and, while
  the transport works, taken or on its way (`NothingIsForgotten`; `NoActionIsLost` states it);
* requests. The ids of requests are in the past (`IdsArePast`), and no unsubscribe comes behind the
  request of the entry (`UnsubscribesAreOlder`): it would end the subscription on which the entry
  relies;
* what the client is fed. A reconnection goes through four phases (`Phases`): it is asked for, the
  host restores, the answer is ready, the answer is on its way among actions. What is on its way
  is ahead of what was seen, and in order (`NewsIsAhead`). `FeedInv` then says that the confirmed
  state of an entry without a `gap` is the host's up to a place in the log (`StateIsPlaced`), and
  that every applied action behind that place is on its way to the client, whose subscription is
  active: for an entry that has its state (`StateIsFed`); for a snapshot that the entry will get
  (`SnapshotIsFed`); and for the answer of a reconnection, whose replay is the whole interval
  between what was seen and the last action that does not follow (`AnswerIsFed`). A snapshot counts
  as promised (`IsPromised`) from the moment from which no action can be missed any more: when it
  was taken for a subscription that was active already, and otherwise when it is answered. With
  what the client has buffered it then makes a whole state (`IsWhole`). Between the taking and the
  activation nothing is promised; what falls there sets `gap` in `SubscribeEnds`.

`SubsequenceTheorems` has the lemmas about sequences that the proofs share: what appending,
concatenating, taking the tail and keeping a part (`Only`) do to the members of a sequence. `Only`
is a recursive function rather than the library's recursive operator, and its facts follow from
the least number for which they would fail, since an induction theorem over an operator cannot
be applied by the provers. The models use `Only` for the same reason.

Checked by TLC only: all liveness properties, which depend on fairness and so on ENABLED,
outside the reach of the prover (`EventuallyConfirmed`, `EventuallySettled` of both modules,
`EventuallyReconnected`, `EventuallyForgotten`, `WaitersAreReleased`, `EventuallyAgree`,
`Converges`, `EventuallySaved`). Every invariant and action property that a run checks is also
a theorem, and so are both refinements.

## 6. Disagreements found

* **A synchroniser that is stuck** (run `sync_stuck`). `abstractSynchronizer.ts:255`: when the
  apply of an accepted conflict is refused, the status stays `Syncing` with nothing running,
  and every later sync is "skipped … as it is running already" (line 225) until the window
  restarts. A resync that fails leaves `HasConflicts` without a preview in the same way, until
  somebody accepts a conflict that is no longer there (`AcceptNothing`).
* **An undone text that is taken for saved** (run `text_undo`). `textFileEditorModel.ts:619`:
  `bufferSavedVersionId` is to tell "when the version of the model matches with the saved
  version on disk" (1004–1005), but a save that ends after the text has changed leaves it at
  the version of an earlier save. An undo back to that version makes the editor clean while the
  file has another text.

Four modules show things about which no sentence of the repository is plainly wrong, or whose
run would say little more than a remark:

* `ipc.ts:490`, `505`: a request that has timed out stays pending and is carried out when its
  channel is registered; the caller may have retried meanwhile.
* `fileService.ts:433`: the stat after a write is of whatever is there then. If another program has
  written meanwhile, its version passes for the one that was saved (`LookAtFile` in section 3.6).
* `remoteAgentConnection.ts:643` announces "no more attempts!", but the flag `_permanentFailure`
  of the instance is never assigned. For a connection whose failure is not fatal the loop can
  start again when its disposed protocol reports a timeout.
* The agent host, the situations that `gap` marks. (1) `subscribe` does not advance the client's
  `_serverSeq` (`agentSubscription.ts:144`): if an action of another channel was seen before,
  the replay of the next reconnection begins before the snapshot, and applies what the snapshot
  has already. `agentHostStateManager.ts:746` asks the client to process only what comes after
  `fromSeq`. (2) Whether a replay will do is decided before the subscriptions are restored
  (`protocolServerHandler.ts:922`); the buffer may be cut meanwhile. (3) An unsubscribe of an
  older entry in the outbox is drained after the snapshots of the reconnection, and ends the
  subscription that they restored. (4) An action that is carried out before the answer to
  `subscribe` activates the subscription does not come back, and stays pending. (5) The snapshot of a
  `subscribe` is taken in `AgentService.subscribe` (`agentService.ts:6534`) and its subscription
  activated some microtasks later (`protocolServerHandler.ts:1615`): an action that is published in
  between, for instance by another client that waits for the same session, is not in the snapshot
  and is not sent. (6) A reconnection activates the subscriptions (1059–1063) before its
  answer is sent (501–504): an action published in between reaches the client before an answer
  that is older than it, and the client applies them in this order, or replaces the newer state by
  the older snapshot.
  Besides, an action that the host reads from a broken transport and receives again from the
  reconnected client is carried out twice. `AnnotationsStateSubscription._reconcile`
  (874–889) applies rejected actions of other clients, which its sibling for sessions takes care
  not to; `ReceiveRejected`, the faulty variant in the table above, is that code.

## 7. What is not modelled

* Connections: dispose and Disconnect of a protocol, fresh connections and the start of extension
  host processes, tunnels, the load estimator that postpones a timeout (a stutter), authentication
  itself, WebSocket framing and compression.
* Channels: value serialization, routing between several clients (`IPCServer`).
* Storage: migration, a database that cannot be opened, the storage of a browser.
* Synchronisation: the merges of the other resources, profiles, manual sync with a preview.
* Text files: deleted and orphaned files, backups, encodings, file operations, auto save on a
  change of focus, saving without participants.
* Agent host: reducers, chats, annotations, terminals and other channels; authentication;
  missing subscriptions and a host that has restarted or forgotten the client; attempts that
  give up; `refreshSubscription`; passive metadata actions that are dropped without an answer;
  several connections of one client, or an older `reconnect` read after a newer one.
* Every component that `PROJECT.json` lists as not modelled, for the reason given there.

Hazards that the code has and no property covers: those in `PROJECT.json` with a note, and the
READY message that is sent with the socket of an older connection (`extensionHostConnection.ts:324`),
the last message of a burst that is lost on a link that stays alive, which keep-alives never
reveal (`ipc.net.ts:1193`), and `sendDisconnect` on a paused protocol (`ipc.net.ts:921`).
