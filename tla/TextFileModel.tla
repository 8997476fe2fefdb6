---------------------------- MODULE TextFileModel ----------------------------
(***************************************************************************)
(* A text file that is open in an editor: TextFileEditorModel              *)
(* (vs/workbench/services/textfile/common/textFileEditorModel.ts), its     *)
(* reloads by TextFileEditorModelManager, the TaskSequentializer of its    *)
(* saves (vs/base/common/async.ts), auto save after a delay                *)
(* (editorAutoSave.ts), the check of the file service that a write         *)
(* replaces what was read (fileService.ts), and the undo stack of the text *)
(* model.  The user types, undoes, saves and reverts, and other programs   *)
(* write the file, while saves and reloads are under way.                  *)
(*                                                                         *)
(* Contents are numbers; two contents differ in length.                    *)
(*                                                                         *)
(* A definition named for what it does wrong or forgets is a plausible     *)
(* mistake in the definition that follows it.  No action uses one.         *)
(***************************************************************************)
EXTENDS Integers, Sequences

CONSTANTS
    MaxSteps,       \* bound: what the user, the participants and others do
    MaxFailures,    \* bound: failing reads and writes
    OthersWrite     \* whether other programs write the file

ASSUME BoundsAssumption == MaxSteps \in Nat /\ MaxFailures \in Nat /\ OthersWrite \in BOOLEAN

VARIABLES
    \* the text model
    versionId,          \* counts the changes of the content
    history, position,  \* the undo stack: contents and their alternative ids
    undone,             \* lastModelContentChangeFromUndoRedo is set
    \* the file model
    dirty, savedVersionId, inConflictMode, inErrorMode,
    lastStat,           \* lastResolvedFileStat: a version of the file
    \* saves
    running, queued,    \* the TaskSequentializer: a task id, a request to save
    saves,              \* the saves that have begun
    autoSave,           \* the timer of auto save
    \* reloads
    reloads,            \* the length of modelResolveQueue
    reading,            \* the resolve under way
    reverting,          \* the revert under way: what it undoes if it fails, and (history)
                        \* the text it was called for
    \* the file
    disk,               \* the contents it has had; the last one is there
    fileEvent,          \* a change that the watcher has not yet reported
    overtaken,          \* history: a save has ended, and the text was newer
    raced,              \* history: see Race
    steps, failures     \* the bounded counters

textVars == <<versionId, history, position, undone>>
flagVars == <<dirty, savedVersionId, inConflictMode, inErrorMode, overtaken>>
saveVars == <<running, queued, saves>>
readVars == <<reloads, reading, reverting>>
fileVars == <<disk, fileEvent>>
bounds == <<steps, failures>>
vars == <<textVars, flagVars, lastStat, saveVars, autoSave, readVars, fileVars, raced, bounds>>

None == -1

Content == history[position].content
Present == Len(disk)

(* Requests to save: auto save, the command, which saves what is not dirty  *)
(* too, and the command that overwrites the file.                           *)
Kinds == {"auto", "explicit", "overwrite"}

(* What a save waits for: the delay after an undo, the participants, the    *)
(* check of the file, the write, the look at what was written, the editor.  *)
Phases == {"delay", "participants", "check", "write", "look", "written"}

Save == [kind : Kinds, phase : Phases, version : Nat, content : Int, stat : Nat,
         cancelled : BOOLEAN]

NoRead == [by |-> "none", version |-> 0, stat |-> 0, content |-> None]
NoRevert == [active |-> FALSE, dirty |-> FALSE, savedVersionId |-> 0, inConflictMode |-> FALSE,
             inErrorMode |-> FALSE, overtaken |-> FALSE, content |-> None]

Init ==
    /\ versionId = 0
    /\ history = <<[id |-> 0, content |-> 0]>> /\ position = 1
    /\ undone = FALSE
    /\ dirty = FALSE /\ savedVersionId = 0
    /\ inConflictMode = FALSE /\ inErrorMode = FALSE
    /\ lastStat = 1
    /\ running = None /\ queued = "none" /\ saves = {}
    /\ autoSave = FALSE
    /\ reloads = 0 /\ reading = NoRead /\ reverting = NoRevert
    /\ disk = <<0>> /\ fileEvent = FALSE
    /\ overtaken = FALSE /\ raced = FALSE
    /\ steps = 0 /\ failures = 0

-----------------------------------------------------------------------------
(* Flags and events *)

CountStep == steps < MaxSteps /\ steps' = steps + 1 /\ UNCHANGED failures
CountFailure == failures < MaxFailures /\ failures' = failures + 1 /\ UNCHANGED steps

(* doSetDirty, the text having the alternative version alternativeId. *)
SetDirty(isDirty, alternativeId) ==
    /\ dirty' = isDirty
    /\ IF isDirty
       THEN UNCHANGED <<savedVersionId, inConflictMode, inErrorMode, overtaken>>
       ELSE /\ savedVersionId' = alternativeId
            /\ inConflictMode' = FALSE /\ inErrorMode' = FALSE
            /\ overtaken' = FALSE

(* onDidChangeDirty, if dirty changes, and onDidChangeContent. *)
ScheduleAutoSave(contentChanges) ==
    autoSave' = IF dirty' # dirty \/ (contentChanges /\ dirty') THEN dirty' ELSE autoSave

(* onModelContentChanged: back at the saved version, the text is not dirty. *)
ContentChanged(newHistory, newPosition) ==
    /\ versionId' = versionId + 1
    /\ history' = newHistory /\ position' = newPosition
    /\ SetDirty(newHistory[newPosition].id # savedVersionId, newHistory[newPosition].id)
    /\ ScheduleAutoSave(TRUE)

(* An edit; what was undone cannot be redone any more. *)
Edited(content) ==
    Append(SubSeq(history, 1, position), [id |-> versionId + 1, content |-> content])

IsWriting == \E s \in saves : s.phase \in {"check", "write", "look", "written"}

(* What the code does not keep CleanIsSaved from, a race of the user or of  *)
(* another program with this one: see the definition of that.               *)
Race(condition) == raced' = (raced \/ condition)

-----------------------------------------------------------------------------
(* The user, the save participants and other programs *)

Type ==
    /\ CountStep
    /\ ContentChanged(Edited(steps'), position + 1)
    /\ Race(reverting.active)
    /\ UNCHANGED <<undone, lastStat, saveVars, readVars, fileVars>>

UndoOrRedo(newPosition) ==
    /\ CountStep
    /\ newPosition \in DOMAIN history
    /\ ContentChanged(history, newPosition)
    /\ undone' = TRUE
    /\ Race(reverting.active \/ IsWriting \/ overtaken)
    /\ UNCHANGED <<lastStat, saveVars, readVars, fileVars>>

(* Another program writes the file: something new, or what is typed here. *)
WriteOutside ==
    /\ OthersWrite
    /\ CountStep
    /\ \E content \in {steps', Content} : disk' = Append(disk, content)
    /\ fileEvent' = TRUE
    /\ UNCHANGED <<textVars, flagVars, lastStat, saveVars, autoSave, readVars, raced>>

-----------------------------------------------------------------------------
(* Saving *)

Sequencer == [running |-> running, queued |-> queued, saves |-> saves]

IsIn(sequencer, phase) == \E s \in sequencer.saves : s.phase = phase

(* doSave: refused from save participants, joined with the save of the same *)
(* version, queued behind another one, whose participants it cancels.       *)
DoSaveUnqueued(sequencer, kind, phase, isDirty) ==
    CASE IsIn(sequencer, "participants") \/ sequencer.running = versionId -> sequencer
      [] kind = "auto" /\ ~isDirty -> sequencer
      [] OTHER -> [sequencer EXCEPT !.running = versionId, !.saves = @ \cup {
            [kind |-> kind, phase |-> phase, version |-> versionId, content |-> None,
             stat |-> 0, cancelled |-> FALSE]}]

DoSave(sequencer, kind, phase, isDirty) ==
    CASE IsIn(sequencer, "participants") \/ sequencer.running = versionId -> sequencer
      [] kind = "auto" /\ ~isDirty -> sequencer
      [] sequencer.running # None ->
            [sequencer EXCEPT !.queued = kind,
                !.saves = {[s EXCEPT !.cancelled = s.phase = "delay"] : s \in @}]
      [] OTHER ->
            [sequencer EXCEPT !.running = versionId, !.saves = @ \cup {
                [kind |-> kind, phase |-> phase, version |-> versionId, content |-> None,
                 stat |-> 0, cancelled |-> FALSE]}]

(* Where a save begins: auto save waits if the user has just undone.        *)
FirstPhases(kind) ==
    {"participants"} \cup (IF kind = "auto" /\ undone THEN {"delay"} ELSE {})

Become(sequencer) ==
    /\ running' = sequencer.running
    /\ queued' = sequencer.queued
    /\ saves' = sequencer.saves

RequestSave(kind) ==
    \E phase \in FirstPhases(kind) : Become(DoSave(Sequencer, kind, phase, dirty))

(* The command.  The file may be overwritten when it is in conflict. *)
SaveCommand(kind) ==
    /\ CountStep
    /\ kind = "explicit" \/ (kind = "overwrite" /\ inConflictMode)
    /\ RequestSave(kind)
    /\ Race(~dirty /\ (reading # NoRead \/ reverting.active))
    /\ UNCHANGED <<textVars, flagVars, lastStat, autoSave, readVars, fileVars>>

(* The timer of auto save: not for what is in conflict or in error. *)
AutoSaveFires ==
    /\ autoSave
    /\ autoSave' = FALSE
    /\ IF dirty /\ ~inConflictMode /\ ~inErrorMode
       THEN RequestSave("auto") ELSE UNCHANGED saveVars
    /\ UNCHANGED <<textVars, flagVars, lastStat, readVars, fileVars, raced, bounds>>

(* doneRunning: s is over, and the queued save runs. *)
DoneForgettingQueue(s, isDirty) ==
    Become([running |-> None, queued |-> "none", saves |-> saves \ {s}])

Done(s, isDirty) ==
    LET others == saves \ {s} IN
    IF running # s.version
    THEN Become([Sequencer EXCEPT !.saves = others])
    ELSE IF queued = "none"
    THEN Become([running |-> None, queued |-> "none", saves |-> others])
    ELSE \E phase \in FirstPhases(queued) :
            Become(DoSave([running |-> None, queued |-> "none", saves |-> others],
                          queued, phase, isDirty))

Continue(s, next) == saves' = (saves \ {s}) \cup {next}

(* The wait is over: the participants run, or the save was cancelled. *)
DelayEnds(s) ==
    /\ s \in saves /\ s.phase = "delay"
    /\ IF s.cancelled THEN Done(s, dirty)
       ELSE /\ Continue(s, [s EXCEPT !.phase = "participants"])
            /\ UNCHANGED <<running, queued>>
    /\ UNCHANGED <<textVars, flagVars, lastStat, autoSave, readVars, fileVars, raced, bounds>>

(* The participants are done: the text as it is now will be written, over   *)
(* the version of the file that was read last.                              *)
BeginWrite(s) ==
    /\ s \in saves /\ s.phase = "participants"
    /\ Continue(s, [s EXCEPT !.phase = "check", !.version = versionId, !.content = Content,
                             !.stat = lastStat])
    /\ running' = versionId
    /\ inErrorMode' = FALSE
    /\ UNCHANGED <<queued, textVars, dirty, savedVersionId, inConflictMode, overtaken, lastStat, autoSave,
                   readVars, fileVars, raced, bounds>>

(* validateWriteFile: the file has not changed since, it has become what is *)
(* to be written, or the user wants it overwritten.                         *)
MayWrite(s) ==
    \/ s.kind = "overwrite"
    \/ disk[Present] \in {disk[s.stat], s.content}

CheckFile(s) ==
    /\ s \in saves /\ s.phase = "check"
    /\ MayWrite(s)
    /\ Continue(s, [s EXCEPT !.phase = "write"])
    /\ UNCHANGED <<running, queued, textVars, flagVars, lastStat, autoSave, readVars, fileVars,
                   raced, bounds>>

(* What cannot be looked at is taken for a file that is not there yet.      *)
CheckFails(s) ==
    /\ CountFailure
    /\ s \in saves /\ s.phase = "check"
    /\ Continue(s, [s EXCEPT !.phase = "write"])
    /\ UNCHANGED <<running, queued, textVars, flagVars, lastStat, autoSave, readVars, fileVars,
                   raced>>

PutOnDisk(content) == disk' = Append(disk, content) /\ fileEvent' = TRUE

(* The file service writes, over whatever has come since the check.         *)
Write(s) ==
    /\ s \in saves /\ s.phase = "write"
    /\ PutOnDisk(s.content)
    /\ Continue(s, [s EXCEPT !.phase = "look"])
    /\ UNCHANGED <<running, queued, textVars, flagVars, lastStat, autoSave, readVars, raced,
                   bounds>>

(* It looks at the file again.  What another program has written meanwhile  *)
(* is taken for the version of this save.                                   *)
LookAtFile(s) ==
    /\ s \in saves /\ s.phase = "look"
    /\ Continue(s, [s EXCEPT !.phase = "written", !.stat = Present])
    /\ Race(disk[Present] # s.content)
    /\ UNCHANGED <<running, queued, textVars, flagVars, lastStat, autoSave, readVars, fileVars,
                   bounds>>

Later(stat, other) == IF stat < other THEN other ELSE stat

(* handleSaveSuccess, and the next save *)
HandleSaveSuccessAlways(s) ==
    /\ s \in saves /\ s.phase = "written"
    /\ lastStat' = Later(lastStat, s.stat)
    /\ SetDirty(FALSE, history[position].id)
    /\ ScheduleAutoSave(FALSE)
    /\ Done(s, dirty')
    /\ UNCHANGED <<textVars, readVars, fileVars, raced, bounds>>

HandleSaveSuccess(s) ==
    /\ s \in saves /\ s.phase = "written"
    /\ lastStat' = Later(lastStat, s.stat)
    /\ IF s.version = versionId
       THEN SetDirty(FALSE, history[position].id)
       ELSE /\ overtaken' = TRUE
            /\ UNCHANGED <<dirty, savedVersionId, inConflictMode, inErrorMode>>
    /\ ScheduleAutoSave(FALSE)
    /\ Done(s, dirty')
    /\ UNCHANGED <<textVars, readVars, fileVars, raced, bounds>>

(* handleSaveError, and the next save *)
HandleSaveError(s, isConflict) ==
    /\ dirty' = TRUE /\ inErrorMode' = TRUE
    /\ inConflictMode' = (inConflictMode \/ isConflict)
    /\ ScheduleAutoSave(FALSE)
    /\ Done(s, TRUE)
    /\ UNCHANGED <<textVars, savedVersionId, overtaken, lastStat, readVars, raced>>

WriteConflicts(s) ==
    /\ s \in saves /\ s.phase = "check"
    /\ ~MayWrite(s)
    /\ HandleSaveError(s, TRUE)
    /\ UNCHANGED <<fileVars, bounds>>

(* The file may have been written all the same. *)
WriteFails(s) ==
    /\ CountFailure
    /\ s \in saves /\ s.phase \in {"check", "write", "look"}
    /\ UNCHANGED fileVars \/ (s.phase = "write" /\ PutOnDisk(s.content))
    /\ HandleSaveError(s, FALSE)

-----------------------------------------------------------------------------
(* Reloading and reverting *)

(* onDidFilesChange: at most one reload runs and one waits. *)
FileEvent ==
    /\ fileEvent
    /\ fileEvent' = FALSE
    /\ reloads' = IF dirty \/ reloads = 2 THEN reloads ELSE reloads + 1
    /\ UNCHANGED <<textVars, flagVars, lastStat, saveVars, autoSave, reading, reverting, disk,
                   raced, bounds>>

Reading(by) == [by |-> by, version |-> versionId, stat |-> 0, content |-> None]

(* revert: not dirty from now on, without an event; then it reads the file, *)
(* unless a save runs, and waits for its turn if there is a reload.         *)
Revert ==
    /\ CountStep
    /\ ~reverting.active
    /\ SetDirty(FALSE, history[position].id)
    /\ Race(saves # {} \/ reading # NoRead)
    /\ \/ /\ reading = NoRead /\ running # None
          /\ autoSave' = (autoSave /\ ~dirty)
          /\ UNCHANGED <<reverting, reading>>
       \/ /\ reading # NoRead \/ running = None
          /\ reverting' = [active |-> TRUE, dirty |-> dirty, savedVersionId |-> savedVersionId,
                           inConflictMode |-> inConflictMode, inErrorMode |-> inErrorMode,
                           overtaken |-> overtaken, content |-> Content]
          /\ reading' = IF reading = NoRead THEN Reading("revert") ELSE reading
          /\ UNCHANGED autoSave
    /\ UNCHANGED <<textVars, lastStat, saveVars, reloads, fileVars>>

(* The resolve is over; a revert tells that dirty has changed. *)
EndResolve(by) ==
    /\ reading' = NoRead
    /\ reloads' = IF by = "reload" THEN reloads - 1 ELSE reloads
    /\ reverting' = IF by = "revert" THEN NoRevert ELSE reverting

TellRevert(by) ==
    autoSave' = IF (by = "revert" /\ reverting.dirty) \/ dirty' # dirty THEN dirty' ELSE autoSave

(* resolve, one at a time: neither while dirty nor while a save runs. *)
BeginResolve(by) ==
    /\ reading = NoRead
    /\ IF by = "reload" THEN reloads > 0 ELSE reverting.active
    /\ \/ /\ dirty \/ running # None
          /\ EndResolve(by)
          /\ UNCHANGED flagVars
          /\ TellRevert(by)
       \/ /\ ~dirty /\ running = None
          /\ reading' = Reading(by)
          /\ UNCHANGED <<reloads, reverting, flagVars, autoSave>>
    /\ UNCHANGED <<textVars, lastStat, saveVars, fileVars, raced, bounds>>

(* readStream looks at the file; a reload is spared what it has.  A revert  *)
(* may have read already, and what another program has written meanwhile is *)
(* taken for the version it read.                                           *)
ReadStat ==
    /\ reading # NoRead /\ reading.stat = 0
    /\ IF reading.by = "reload" /\ lastStat = Present
       THEN EndResolve("reload") /\ UNCHANGED raced
       ELSE /\ reading' = [reading EXCEPT !.stat = Present]
            /\ Race(reading.content \notin {None, disk[Present]})
            /\ UNCHANGED <<reloads, reverting>>
    /\ UNCHANGED <<textVars, flagVars, lastStat, saveVars, autoSave, fileVars, bounds>>

(* It reads the text: a reload when it has looked at the file.              *)
ReadContent ==
    /\ reading # NoRead /\ reading.content = None
    /\ reading.stat > 0 \/ reading.by = "revert"
    /\ reading' = [reading EXCEPT !.content = disk[Present]]
    /\ UNCHANGED <<textVars, flagVars, lastStat, saveVars, autoSave, reloads, reverting, fileVars,
                   raced, bounds>>

HasRead == reading.stat > 0 /\ reading.content # None

(* resolveFromFile goes on: dropped if the text has changed meanwhile. *)
DropRead ==
    /\ HasRead /\ reading.version # versionId
    /\ EndResolve(reading.by)
    /\ UNCHANGED flagVars
    /\ TellRevert(reading.by)
    /\ UNCHANGED <<textVars, lastStat, saveVars, fileVars, raced, bounds>>

IsCurrentAlways == TRUE

IsCurrent == reading.version = versionId

(* resolveFromContent: the text becomes what was read, by an edit. *)
ResolveFromContent ==
    /\ HasRead /\ IsCurrent
    /\ lastStat' = Later(lastStat, reading.stat)
    /\ \/ /\ reading.content = Content
          /\ SetDirty(FALSE, history[position].id)
          /\ UNCHANGED textVars
       \/ /\ reading.content # Content
          /\ versionId' = versionId + 1
          /\ history' = Edited(reading.content) /\ position' = position + 1
          /\ SetDirty(FALSE, versionId + 1)
          /\ UNCHANGED undone
    /\ EndResolve(reading.by)
    /\ TellRevert(reading.by)
    /\ UNCHANGED <<saveVars, fileVars, raced, bounds>>

(* A reload gives up; a revert restores the flags of its beginning, without *)
(* an event.                                                                *)
ReadFails ==
    /\ CountFailure
    /\ reading # NoRead /\ ~HasRead
    /\ EndResolve(reading.by)
    /\ IF reading.by = "revert"
       THEN /\ dirty' = reverting.dirty /\ savedVersionId' = reverting.savedVersionId
            /\ inConflictMode' = reverting.inConflictMode
            /\ inErrorMode' = reverting.inErrorMode /\ overtaken' = reverting.overtaken
       ELSE UNCHANGED flagVars
    /\ UNCHANGED <<textVars, lastStat, saveVars, autoSave, fileVars, raced>>

-----------------------------------------------------------------------------
UserStep ==
    \/ Type \/ UndoOrRedo(position - 1) \/ UndoOrRedo(position + 1)
    \/ \E kind \in Kinds : SaveCommand(kind)
    \/ Revert

SaveStep(s) ==
    \/ DelayEnds(s) \/ BeginWrite(s)
    \/ CheckFile(s) \/ Write(s) \/ LookAtFile(s)
    \/ HandleSaveSuccess(s) \/ WriteConflicts(s)

ResolveStep ==
    \/ \E by \in {"reload", "revert"} : BeginResolve(by)
    \/ ReadStat \/ ReadContent \/ DropRead \/ ResolveFromContent

Next ==
    \/ UserStep
    \/ WriteOutside
    \/ AutoSaveFires
    \/ \E s \in saves : SaveStep(s) \/ CheckFails(s) \/ WriteFails(s)
    \/ FileEvent
    \/ ResolveStep \/ ReadFails

Spec == Init /\ [][Next]_vars

(* Timers fire, files are read and written, the watcher reports. *)
Fairness ==
    /\ WF_vars(AutoSaveFires)
    /\ WF_vars(\E s \in saves : SaveStep(s))
    /\ WF_vars(FileEvent)
    /\ WF_vars(ResolveStep)

FairSpec == Spec /\ Fairness

-----------------------------------------------------------------------------
(* Properties *)

Texts == 0 .. MaxSteps

(* Types, and that the sequentializer runs exactly the one save there is.   *)
TypeOK ==
    /\ versionId \in Nat
    /\ history \in Seq([id : 0 .. versionId, content : Texts])
    /\ position \in DOMAIN history
    /\ undone \in BOOLEAN
    /\ dirty \in BOOLEAN /\ savedVersionId \in 0 .. versionId
    /\ inConflictMode \in BOOLEAN /\ inErrorMode \in BOOLEAN
    /\ lastStat \in DOMAIN disk
    /\ queued \in Kinds \cup {"none"}
    /\ saves \subseteq Save
    /\ \A s \in saves : s.version = running /\ saves = {s}
    /\ saves = {} => running = None /\ queued = "none"
    /\ autoSave \in BOOLEAN
    /\ reloads \in 0 .. 2
    /\ reading.by \in {"none", "reload", "revert"} /\ reading.stat \in {0} \cup DOMAIN disk
    /\ reading.by = "reload" => reloads > 0
    /\ reading.by = "revert" => reverting.active
    /\ disk \in Seq(Texts) /\ fileEvent \in BOOLEAN
    /\ overtaken \in BOOLEAN /\ raced \in BOOLEAN

(* A text that is not shown as dirty is the version of the file that was    *)
(* looked at last, or a later one, so that the next look finds what others  *)
(* write: whatever was typed, saved, reloaded, reverted and written by      *)
(* others at the same time; but for the races the code loses, see Race.     *)
CleanIsSaved ==
    ~dirty /\ ~reverting.active /\ ~raced => \E i \in lastStat .. Present : Content = disk[i]

(* "to remember when the version of the model matches with the saved        *)
(* version on disk": the same of every text, once its saves and reverts are *)
(* over.                                                                    *)
SavedVersionIsOnDisk ==
    ~dirty /\ saves = {} /\ ~reverting.active => \E i \in lastStat .. Present : Content = disk[i]

(* A reload never replaces a text that was not in the file once, and a      *)
(* revert only the text there was when the user called it.                  *)
UnsavedIsKept ==
    [][reading # NoRead /\ reading' = NoRead /\ Content' # Content =>
          \/ reading.by = "revert" /\ reverting.content = Content
          \/ raced
          \/ \E i \in DOMAIN disk : disk[i] = Content]_vars

(* With auto save, what is dirty is saved, or in error or in conflict.  A   *)
(* revert that fails may leave it dirty without a timer.                    *)
EventuallySaved ==
    dirty ~> (~dirty \/ inErrorMode \/ inConflictMode \/ failures > 0)
=============================================================================
