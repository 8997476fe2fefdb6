---------------------------- MODULE UserDataSync ----------------------------
(***************************************************************************)
(* The synchronisation of one file of settings between machines            *)
(* (vs/platform/userDataSync/common): AbstractSynchroniser and             *)
(* AbstractJsonSynchronizer, which tasks and MCP servers use.  A server    *)
(* keeps the versions; each machine has the file, the version it has last  *)
(* synchronised, and operations that read the server's version, merge it   *)
(* with the file, and apply the result: to the file, to the server and to  *)
(* the last synchronised version, in this order.  Users edit the files,    *)
(* and the server takes other machines' versions, between any two of these *)
(* steps.  What a user decides in a conflict is applied by an operation of *)
(* its own, which nothing keeps apart from a resync that is under way.     *)
(*                                                                         *)
(* A definition named for what it does wrong or forgets is a plausible     *)
(* mistake in the definition that follows it.  No action uses one.         *)
(***************************************************************************)
EXTENDS Integers, Sequences

CONSTANTS
    Machines,
    Contents,       \* what a file may hold, of different lengths
    NoFile,         \* the file, or the content of a version, does not exist
    MaxEdits,       \* bound: what the users change or decide
    MaxFailures     \* bound: failing requests, crashes, machines turned off, applies that
                    \* overlap a resync

ASSUME ContentsAssumption == NoFile \notin Contents
ASSUME BoundsAssumption == MaxEdits \in Nat /\ MaxFailures \in Nat

MaybeContents == Contents \cup {NoFile}

(* References of versions: 0 is NON_EXISTING_RESOURCE_REF. *)
Never == -1         \* no last sync data

(* The operations of a machine: a sync or resync, and an apply. *)
Syncer(m) == <<m, "sync">>
Applier(m) == <<m, "apply">>
Operations == Machines \X {"sync", "apply"}

VARIABLES
    server,         \* the versions of the resource: who wrote what
    file,           \* per machine: the file
    backups,        \* per machine: what backupLocal has kept
    lastSync,       \* per machine: the reference of the last sync data
    status,         \* per machine: SyncStatus
    manifest,       \* per machine: the reference that a sync task was created with
    pc,             \* per operation: what it does next
    preview,        \* per operation: what it applies, and what that was made from; that of
                    \* the syncer is syncPreviewPromise, and stays in a conflict
    touched,        \* per operation: the file was changed since it was read, or checked
    edit,           \* history: the user's last edit, until a write replaces it unseen
    edits, failures \* the bounded counters

vars == <<server, file, backups, lastSync, status, manifest, pc, preview, touched, edit,
          edits, failures>>
environment == <<edits, failures>>

Refs == 0 .. Len(server)
NoEdit == NoFile

ContentOf(ref) == IF ref <= 0 THEN NoFile ELSE server[ref].content

-----------------------------------------------------------------------------
(* The merge *)

Result(content, localChange, remoteChange, hasConflicts) ==
    [content |-> content, localChange |-> localChange, remoteChange |-> remoteChange,
     hasConflicts |-> hasConflicts]

(* merge: three versions, a missing one counts as empty. *)
Merge(local, remote, base) ==
    LET localForwarded == base # local
        remoteForwarded == base # remote
    IN CASE local = remote -> Result(NoFile, FALSE, FALSE, FALSE)
         [] local # remote /\ ~remoteForwarded -> Result(local, FALSE, TRUE, FALSE)
         [] local # remote /\ ~localForwarded -> Result(remote, TRUE, FALSE, FALSE)
         [] OTHER -> Result(local, TRUE, TRUE, TRUE)

(* The version that an operation of m takes for the last synchronised one:  *)
(* the remote one, if there is none and m has written that itself.          *)
BaseRef(m, p) ==
    IF p.last = Never /\ p.remote > 0 /\ server[p.remote].machine = m
    THEN p.remote ELSE p.last

(* generateSyncPreview of m. *)
SyncPreview(m, p) ==
    CASE p.remote > 0 -> Merge(file[m], ContentOf(p.remote), ContentOf(BaseRef(m, p)))
      [] p.remote = 0 /\ file[m] # NoFile -> Result(file[m], FALSE, TRUE, FALSE)
      [] OTHER -> Result(NoFile, FALSE, FALSE, FALSE)

(* Why an operation runs: a sync, a sync after a change of the file while   *)
(* there are conflicts, or what the user accepted.  chosen: the user has    *)
(* decided, not the merge.                                                  *)
Kinds == {"sync", "resync", "apply"}
Preview == [kind : Kinds, remote : Int, last : Int, local : MaybeContents, result :
            [content : MaybeContents, localChange : BOOLEAN, remoteChange : BOOLEAN,
             hasConflicts : BOOLEAN], force : BOOLEAN]
NoPreview ==
    [kind |-> "sync", remote |-> 0, last |-> Never, local |-> NoFile,
     result |-> Result(NoFile, FALSE, FALSE, FALSE), force |-> FALSE]

(* A preview with conflicts waits for the user; only a version has any. *)
IsAsked(m) ==
    /\ status[m] = "HasConflicts" /\ pc[Syncer(m)] \in {"None", "Begin"}
    /\ preview[Syncer(m)].remote > 0

Init ==
    /\ server = <<>>
    /\ file \in [Machines -> MaybeContents]
    /\ backups = [m \in Machines |-> {}]
    /\ lastSync = [m \in Machines |-> Never]
    /\ status = [m \in Machines |-> "Idle"]
    /\ manifest = [m \in Machines |-> 0]
    /\ pc = [o \in Operations |-> "None"]
    /\ preview = [o \in Operations |-> NoPreview]
    /\ touched = [o \in Operations |-> FALSE]
    /\ edit = file
    /\ edits = 0 /\ failures = 0

-----------------------------------------------------------------------------
(* Users *)

CountEdit == edits < MaxEdits /\ edits' = edits + 1 /\ UNCHANGED failures
CountFailure == failures < MaxFailures /\ failures' = failures + 1 /\ UNCHANGED edits

(* The user of m changes, creates or deletes the file. *)
Edit(m, content) ==
    /\ CountEdit
    /\ content # file[m]
    /\ file' = [file EXCEPT ![m] = content]
    /\ edit' = [edit EXCEPT ![m] = content]
    /\ touched' = [o \in Operations |-> touched[o] \/ o[1] = m]
    /\ UNCHANGED <<server, backups, lastSync, status, manifest, pc, preview>>

(* What an operation that starts to apply a result, or has written the      *)
(* file, does next.                                                         *)
AfterLocal(result) == IF result.remoteChange THEN "WriteRemote" ELSE "Save"
Applying(result) == IF result.localChange THEN "CheckLocal" ELSE AfterLocal(result)

(* accept and apply: the local version, the remote one, or another content. *)
(* In the dialog of signing in the user decides with force.  The conflict   *)
(* may be out of date: a resync that finds no conflict any more applies its *)
(* preview at the same time, and this takes that preview.                   *)
Accept(m, content, localChange, remoteChange, force) ==
    LET p == preview[Syncer(m)]
        result == Result(content, localChange, remoteChange, FALSE)
    IN
    /\ status[m] = "HasConflicts" /\ p.remote > 0
    /\ pc[Syncer(m)] \notin {"Refetch", "Generate"}
    /\ IF IsAsked(m) THEN CountEdit ELSE CountFailure
    /\ pc[Applier(m)] = "None"
    /\ preview' = [preview EXCEPT ![Applier(m)] =
                     [p EXCEPT !.kind = "apply", !.force = force, !.result = result]]
    /\ touched' = [touched EXCEPT ![Applier(m)] = file[m] # p.local]
    /\ status' = [status EXCEPT ![m] = "Syncing"]
    /\ pc' = [pc EXCEPT ![Applier(m)] = Applying(result)]
    /\ UNCHANGED <<server, file, backups, lastSync, manifest, edit>>

(* A resync has failed: there is no preview to accept or to apply. *)
AcceptNothing(m) ==
    /\ status[m] = "HasConflicts" /\ preview[Syncer(m)].remote = 0
    /\ pc[Syncer(m)] \in {"None", "Begin"} /\ pc[Applier(m)] = "None"
    /\ status' = [status EXCEPT ![m] = "Idle"]
    /\ UNCHANGED <<server, file, backups, lastSync, manifest, pc, preview, touched, edit,
                   environment>>

AcceptLocal(m, force) == Accept(m, preview[Syncer(m)].local, FALSE, TRUE, force)
AcceptRemote(m, force) ==
    Accept(m, ContentOf(preview[Syncer(m)].remote), TRUE, FALSE, force)
AcceptMerged(m, content) == Accept(m, content, TRUE, TRUE, FALSE)

-----------------------------------------------------------------------------
(* A sync or resync, until it has a result *)

Goto(o, label) == pc' = [pc EXCEPT ![o] = label]

(* createSyncTask: what the server has now. *)
FetchManifest(m) ==
    /\ pc[Syncer(m)] = "None"
    /\ manifest' = [manifest EXCEPT ![m] = Len(server)]
    /\ Goto(Syncer(m), "Begin")
    /\ UNCHANGED <<server, file, backups, lastSync, status, preview, touched, edit, environment>>

(* sync: skipped unless the machine is idle. *)
SkipSync(m) ==
    /\ pc[Syncer(m)] = "Begin"
    /\ status[m] # "Idle"
    /\ manifest' = [manifest EXCEPT ![m] = 0]
    /\ Goto(Syncer(m), "None")
    /\ UNCHANGED <<server, file, backups, lastSync, status, preview, touched, edit, environment>>

BeginSyncWithoutFetch(m) ==
    /\ pc[Syncer(m)] = "Begin"
    /\ status[m] = "Idle"
    /\ status' = [status EXCEPT ![m] = "Syncing"]
    /\ preview' = [preview EXCEPT ![Syncer(m)] = [NoPreview EXCEPT !.last = lastSync[m],
                     !.remote = IF lastSync[m] = Never THEN manifest[m] ELSE lastSync[m]]]
    /\ manifest' = [manifest EXCEPT ![m] = 0]
    /\ Goto(Syncer(m), "Generate")
    /\ UNCHANGED <<server, file, backups, lastSync, touched, edit, environment>>

(* sync and getLatestRemoteUserData: the manifest may spare the request. *)
BeginSync(m) ==
    /\ pc[Syncer(m)] = "Begin"
    /\ status[m] = "Idle"
    /\ status' = [status EXCEPT ![m] = "Syncing"]
    /\ preview' = [preview EXCEPT ![Syncer(m)] =
                     [NoPreview EXCEPT !.last = lastSync[m], !.remote = manifest[m]]]
    /\ manifest' = [manifest EXCEPT ![m] = 0]
    /\ Goto(Syncer(m), IF manifest[m] \in {0, lastSync[m]} THEN "Generate" ELSE "Fetch")
    /\ UNCHANGED <<server, file, backups, lastSync, touched, edit, environment>>

(* doTriggerLocalChange in conflicts: once more, with the same remote data. *)
(* If that failed before, there is none, and it fails again at once.        *)
Resync(m) ==
    /\ IsAsked(m) /\ pc[Syncer(m)] = "None"
    /\ touched[Syncer(m)]
    /\ preview' = [preview EXCEPT ![Syncer(m)] = [NoPreview EXCEPT !.kind = "resync",
                     !.remote = preview[Syncer(m)].remote, !.last = preview[Syncer(m)].last]]
    /\ Goto(Syncer(m), "Generate")
    /\ UNCHANGED <<server, file, backups, lastSync, status, manifest, touched, edit, environment>>

(* getRemoteUserData: the latest version.  Once the server has refused one, *)
(* the last sync data are read again too.                                   *)
Fetch(m) ==
    /\ pc[Syncer(m)] \in {"Fetch", "Refetch"}
    /\ preview' = [preview EXCEPT ![Syncer(m)].remote = Len(server),
                     ![Syncer(m)].last = IF pc[Syncer(m)] = "Refetch" THEN lastSync[m] ELSE @]
    /\ Goto(Syncer(m), "Generate")
    /\ UNCHANGED <<server, file, backups, lastSync, status, manifest, touched, edit, environment>>

(* doSync: reads the file last, merges, and stops at a conflict. *)
Generate(m) ==
    LET result == SyncPreview(m, preview[Syncer(m)]) IN
    /\ pc[Syncer(m)] = "Generate"
    /\ touched' = [touched EXCEPT ![Syncer(m)] = FALSE]
    /\ preview' = [preview EXCEPT ![Syncer(m)].local = file[m], ![Syncer(m)].result = result]
    /\ \/ /\ result.hasConflicts
          /\ status' = [status EXCEPT ![m] = "HasConflicts"]
          /\ Goto(Syncer(m), "None")
       \/ /\ ~result.hasConflicts
          /\ Goto(Syncer(m), Applying(result))
          /\ UNCHANGED status
    /\ UNCHANGED <<server, file, backups, lastSync, manifest, edit, environment>>

-----------------------------------------------------------------------------
(* applyResult, of either operation *)

(* An error leaves performSync or apply: a sync resets the status, a resync *)
(* and an apply leave it alone.                                             *)
Throw(o) ==
    /\ Goto(o, "None")
    /\ status' = IF preview[o].kind = "sync" THEN [status EXCEPT ![o[1]] = "Idle"] ELSE status
    /\ preview' = [preview EXCEPT ![o] = NoPreview]

(* A precondition failed: performSync goes on at label. *)
TryAgain(o, label) ==
    \/ preview[o].kind = "apply" /\ Throw(o)
    \/ preview[o].kind # "apply" /\ Goto(o, label) /\ UNCHANGED <<status, preview>>

(* What an operation writes without a precondition: a deletion, or with force. *)
Unchecked(o) == preview[o].result.content = NoFile \/ preview[o].force

(* The file service refuses to replace a file of another length than the    *)
(* one that was read, unless it is what is to be written, and to create one *)
(* that exists.                                                             *)
MayWriteAlways(m, p) == TRUE

MayWrite(m, p) ==
    \/ file[m] = NoFile
    \/ p.local # NoFile /\ file[m] \in {p.local, p.result.content}

(* The file is backed up as it was read, and validateWriteFile, or exists,  *)
(* compares it with that.                                                   *)
CheckLocal(o) ==
    LET m == o[1]
        p == preview[o]
    IN
    /\ pc[o] = "CheckLocal"
    /\ backups' = [backups EXCEPT ![m] = @ \cup ({p.local} \ {NoFile})]
    /\ \/ /\ Unchecked(o)
          /\ Goto(o, "WriteLocal")
          /\ UNCHANGED <<touched, status, preview>>
       \/ /\ ~Unchecked(o) /\ MayWrite(m, p)
          /\ Goto(o, "WriteLocal")
          /\ touched' = [touched EXCEPT ![o] = FALSE]
          /\ UNCHANGED <<status, preview>>
       \/ /\ ~Unchecked(o) /\ ~MayWrite(m, p)
          /\ TryAgain(o, "Generate")
          /\ UNCHANGED touched
    /\ UNCHANGED <<server, file, lastSync, manifest, edit, environment>>

(* The file is replaced or deleted, whatever it holds by now. *)
WriteLocal(o) ==
    LET m == o[1] IN
    /\ pc[o] = "WriteLocal"
    /\ file' = [file EXCEPT ![m] = preview[o].result.content]
    /\ edit' = IF touched[o] /\ edit[m] = file[m] THEN [edit EXCEPT ![m] = NoEdit] ELSE edit
    /\ touched' = [q \in Operations |-> touched[q] \/ (q[1] = m /\ q # o)]
    /\ Goto(o, AfterLocal(preview[o].result))
    /\ UNCHANGED <<server, backups, lastSync, status, manifest, preview, environment>>

(* The server takes a version if it replaces the latest one, or any. *)
MayPostAlways(p) == TRUE

MayPost(p) == p.force \/ p.remote = Len(server)

PostAnswered(o) == UNCHANGED server

Post(o) == server' = Append(server, [content |-> preview[o].result.content, machine |-> o[1]])

(* updateRemoteUserData *)
WriteRemote(o) ==
    /\ pc[o] = "WriteRemote"
    /\ \/ /\ MayPost(preview[o])
          /\ Post(o)
          /\ preview' = [preview EXCEPT ![o].remote = Len(server) + 1]
          /\ Goto(o, "Save")
          /\ UNCHANGED status
       \/ /\ ~MayPost(preview[o])
          /\ TryAgain(o, "Refetch")
          /\ UNCHANGED server
    /\ UNCHANGED <<file, backups, lastSync, manifest, touched, edit, environment>>

(* The operation is done; a preview that waits for the user goes with it. *)
Finish(o) ==
    /\ preview' = [q \in Operations |->
            IF q = o \/ (q[1] = o[1] /\ pc[q] \in {"None", "Begin"}) THEN NoPreview
            ELSE preview[q]]
    /\ status' = [status EXCEPT ![o[1]] = "Idle"]
    /\ Goto(o, "None")
    /\ UNCHANGED <<server, file, backups, manifest, touched, edit, environment>>

(* updateLastSyncUserData *)
SaveUnlessPosted(o) ==
    /\ pc[o] = "Save"
    /\ lastSync' = IF preview[o].result.remoteChange THEN lastSync
                   ELSE [lastSync EXCEPT ![o[1]] = preview[o].remote]
    /\ Finish(o)

Save(o) ==
    /\ pc[o] = "Save"
    /\ lastSync' = IF preview[o].last = preview[o].remote THEN lastSync
                   ELSE [lastSync EXCEPT ![o[1]] = preview[o].remote]
    /\ Finish(o)

-----------------------------------------------------------------------------
(* The environment *)

(* A request to the server, the backup or the write of the file fails, or   *)
(* the answer to a version that the server took is lost.                    *)
RequestFails(o) ==
    /\ CountFailure
    /\ \/ pc[o] \in {"Fetch", "Refetch", "CheckLocal", "WriteLocal"} /\ UNCHANGED server
       \/ /\ pc[o] = "WriteRemote"
          /\ \/ UNCHANGED server
             \/ MayPost(preview[o]) /\ Post(o)
    /\ Throw(o)
    /\ UNCHANGED <<file, backups, lastSync, manifest, touched, edit>>

(* What is in memory is gone. *)
Forget(m) ==
    /\ pc' = [o \in Operations |-> IF o[1] = m THEN "None" ELSE pc[o]]
    /\ preview' = [o \in Operations |-> IF o[1] = m THEN NoPreview ELSE preview[o]]
    /\ status' = [status EXCEPT ![m] = "Idle"]
    /\ manifest' = [manifest EXCEPT ![m] = 0]

(* The process ends, at any point, and starts again. *)
Restart(m) ==
    /\ CountFailure
    /\ Forget(m)
    /\ UNCHANGED <<server, file, backups, lastSync, touched, edit>>

(* turnOff, resetLocal, and turnOn again. *)
TurnOff(m) ==
    /\ CountFailure
    /\ pc[Syncer(m)] = "None" /\ pc[Applier(m)] = "None"
    /\ lastSync' = [lastSync EXCEPT ![m] = Never]
    /\ Forget(m)
    /\ UNCHANGED <<server, file, backups, touched, edit>>

-----------------------------------------------------------------------------
UserStep(m) ==
    \/ \E content \in MaybeContents : Edit(m, content) \/ AcceptMerged(m, content)
    \/ \E force \in BOOLEAN : AcceptLocal(m, force) \/ AcceptRemote(m, force)
    \/ AcceptNothing(m)

ApplyStep(o) == CheckLocal(o) \/ WriteLocal(o) \/ WriteRemote(o) \/ Save(o)

SyncStep(m) ==
    \/ FetchManifest(m) \/ SkipSync(m) \/ BeginSync(m) \/ Resync(m)
    \/ Fetch(m) \/ Generate(m) \/ ApplyStep(Syncer(m))

FailureStep(m) ==
    \/ RequestFails(Syncer(m)) \/ RequestFails(Applier(m))
    \/ Restart(m) \/ TurnOff(m)

Next == \E m \in Machines :
    UserStep(m) \/ SyncStep(m) \/ ApplyStep(Applier(m)) \/ FailureStep(m)

Spec == Init /\ [][Next]_vars

(* Requests are answered, and each machine syncs at an interval.  Nothing   *)
(* is assumed of the users.                                                 *)
FairSpec ==
    Spec /\ \A m \in Machines : WF_vars(SyncStep(m)) /\ WF_vars(ApplyStep(Applier(m)))

-----------------------------------------------------------------------------
(* Properties *)

TypeOK ==
    /\ server \in Seq([content : MaybeContents, machine : Machines])
    /\ file \in [Machines -> MaybeContents]
    /\ backups \in [Machines -> SUBSET Contents]
    /\ lastSync \in [Machines -> Refs \cup {Never}]
    /\ status \in [Machines -> {"Idle", "Syncing", "HasConflicts"}]
    /\ manifest \in [Machines -> Refs]
    /\ pc \in [Operations -> {"None", "Begin", "Fetch", "Refetch", "Generate", "CheckLocal",
                              "WriteLocal", "WriteRemote", "Save"}]
    /\ preview \in [Operations -> Preview]
    /\ \A o \in Operations : preview[o].remote \in Refs /\ preview[o].last \in Refs \cup {Never}
    /\ touched \in [Operations -> BOOLEAN]
    /\ edit \in [Machines -> MaybeContents]
    /\ edits \in Nat /\ failures \in Nat

(* A version of the server is replaced only by an operation that knew it:   *)
(* the merge put nothing in place of a content but the one that was         *)
(* synchronised before, and a user who decided without force was shown the  *)
(* latest one.                                                              *)
NothingUnseenReplaced ==
    [][server' # server =>
        \E o \in Operations :
            /\ pc[o] = "WriteRemote" /\ server'[Len(server')].machine = o[1]
            /\ server'[Len(server')].content = preview[o].result.content
            /\ IF preview[o].kind = "apply"
               THEN preview[o].force \/ preview[o].remote = Len(server)
               ELSE ContentOf(Len(server)) = ContentOf(BaseRef(o[1], preview[o]))]_vars

(* The last edit of each user is in the file or in a backup of it, however  *)
(* the steps of a sync, of a resync and of an apply interleave with it.     *)
(* The exception is an edit in one moment before a write: after the file    *)
(* service has compared the file with what was read, or, for a deletion and *)
(* a write with force, which compare nothing, after the file was read.      *)
EditsAreKept ==
    \A m \in Machines :
        \/ edit[m] \in {NoEdit, file[m]}
        \/ edit[m] \in backups[m]

(* Without failures and overlapping operations, a machine is never asked to *)
(* resolve a conflict with what it has itself written.                      *)
NoConflictWithItself ==
    \A m \in Machines :
        IsAsked(m) /\ failures = 0 =>
            server[preview[Syncer(m)].remote].machine # m

(* An apply or a resync has failed, and nothing goes on: each sync is       *)
(* skipped, and the user is not asked.                                      *)
Stuck(m) ==
    /\ status[m] # "Idle" /\ ~IsAsked(m)
    /\ pc[Syncer(m)] \in {"None", "Begin"} /\ pc[Applier(m)] = "None"

(* When the users stop, each file becomes the server's, or there is a       *)
(* conflict for a user to resolve, or the machine is stuck.                 *)
Converges ==
    \A m \in Machines :
        <>[](file[m] = ContentOf(Len(server)) \/ IsAsked(m) \/ Stuck(m))

(* "Skipped synchronizing as it is running already", or "as there are       *)
(* conflicts": a machine that is not idle has an operation that goes on, or *)
(* a conflict to be decided.                                                *)
SyncingIsRunning ==
    \A m \in Machines : ~Stuck(m)
=============================================================================
