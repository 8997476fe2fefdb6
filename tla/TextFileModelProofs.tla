------------------------- MODULE TextFileModelProofs -------------------------
(***************************************************************************)
(* Theorems about TextFileModel, for any number of steps and failures: its *)
(* types, that a text which is not shown as dirty is the file's, and that  *)
(* no reload takes what is unsaved.                                        *)
(***************************************************************************)
EXTENDS TextFileModel, TLAPS

(* What TypeOK leaves out: the records of a read and of a revert, and that  *)
(* versions are of the past.                                                *)
ReadIsTyped ==
    /\ reading \in [by : {"none", "reload", "revert"}, version : 0 .. versionId, stat : Nat,
                    content : Texts \cup {None}]
    /\ reading.by = "none" => reading = NoRead
    /\ reading.stat > 0 => reading.stat \in DOMAIN disk

RevertIsTyped ==
    reverting \in [active : BOOLEAN, dirty : BOOLEAN, savedVersionId : 0 .. versionId,
                   inConflictMode : BOOLEAN, inErrorMode : BOOLEAN, overtaken : BOOLEAN,
                   content : Int]

HasContent(s) == s.phase \in {"check", "write", "look", "written"}

SavesAreTyped ==
    \A s \in saves :
        /\ s.version \in 0 .. versionId
        /\ HasContent(s) => s.content \in Texts /\ s.stat \in DOMAIN disk

Typed ==
    /\ TypeOK
    /\ steps \in 0 .. MaxSteps /\ failures \in Nat
    /\ ReadIsTyped /\ RevertIsTyped /\ SavesAreTyped

(* The alternative version ids of the undo stack tell its texts apart. *)
IdsAreUnique ==
    \A i, j \in DOMAIN history : history[i].id = history[j].id => i = j

(* The file has had this content since this version of it.                  *)
FoundFrom(file, stat, content) == \E i \in DOMAIN file : stat <= i /\ file[i] = content

(* A text with this alternative version id is the file's, unless a save has *)
(* ended since that was not of the last text.                               *)
Agrees(id, isOvertaken) ==
    ~isOvertaken =>
        \A i \in DOMAIN history :
            history[i].id = id => FoundFrom(disk, lastStat, history[i].content)

(* What is not dirty is at the saved version. *)
AtSaved(isDirty, id, isOvertaken) ==
    ~isDirty => history[position].id = id /\ ~isOvertaken

FlagsAreTrue ==
    /\ AtSaved(dirty, savedVersionId, overtaken)
    /\ ~reverting.active => Agrees(savedVersionId, overtaken)

(* A revert waits for its file, and nothing else happens; the flags that it *)
(* would restore are true.                                                  *)
RevertIsAlone ==
    reverting.active =>
        /\ ~dirty /\ saves = {}
        /\ reading.by = "revert" /\ reading.version = versionId
        /\ reverting.content = Content
        /\ AtSaved(reverting.dirty, reverting.savedVersionId, reverting.overtaken)
        /\ Agrees(reverting.savedVersionId, reverting.overtaken)

(* So does a read that will not be dropped. *)
ReadIsAlone ==
    reading.by # "none" /\ reading.version = versionId =>
        /\ ~dirty /\ saves = {}
        /\ reading.stat > 0 =>
              /\ lastStat <= reading.stat
              /\ reading.content # None => FoundFrom(disk, reading.stat, reading.content)

(* A save writes the text as it is, unless it is dirty again. *)
SaveIsTrue(s) ==
    /\ HasContent(s) => IF s.version = versionId THEN s.content = Content ELSE dirty
    /\ s.phase = "written" => disk[s.stat] = s.content /\ lastStat <= s.stat

SavesAreTrue == \A s \in saves : SaveIsTrue(s)

Truth == FlagsAreTrue /\ RevertIsAlone /\ ReadIsAlone /\ SavesAreTrue

FileInv == Typed /\ IdsAreUnique /\ (~raced => Truth)

-----------------------------------------------------------------------------
(* The undo stack *)

Entry(version) == [id : 0 .. version, content : Texts]

(* What is typed comes behind the texts before it, with an id of its own. *)
LEMMA EditedFacts ==
    ASSUME versionId \in Nat, history \in Seq(Entry(versionId)), position \in DOMAIN history,
           NEW content \in Texts
    PROVE  /\ Edited(content) \in Seq(Entry(versionId + 1))
           /\ Len(Edited(content)) = position + 1
           /\ \A i \in 1 .. position : Edited(content)[i] = history[i]
           /\ Edited(content)[position + 1] = [id |-> versionId + 1, content |-> content]
  <1> DEFINE before == SubSeq(history, 1, position)
             new == [id |-> versionId + 1, content |-> content]
  <1>1. position \in 1 .. Len(history)
    OBVIOUS
  <1>2. history \in Seq(Entry(versionId + 1)) /\ new \in Entry(versionId + 1)
    <2>1. Entry(versionId) \subseteq Entry(versionId + 1)
      BY DEF Entry
    <2>2. new \in Entry(versionId + 1)
      BY DEF Entry
    <2> HIDE DEF new
    <2>3. \A i \in 1 .. Len(history) : history[i] \in Entry(versionId + 1)
      BY <2>1
    <2> QED BY <2>2, <2>3
  <1>3. /\ before \in Seq(Entry(versionId + 1)) /\ Len(before) = position
        /\ \A i \in 1 .. position : before[i] = history[i]
    BY <1>1, <1>2
  <1> HIDE DEF before, new
  <1>4. /\ Append(before, new) \in Seq(Entry(versionId + 1))
        /\ Len(Append(before, new)) = position + 1
        /\ \A i \in 1 .. position : Append(before, new)[i] = before[i]
        /\ Append(before, new)[position + 1] = new
    BY <1>1, <1>2, <1>3
  <1> QED BY <1>3, <1>4 DEF Edited, before, new

LEMMA EditedIsUnique ==
    ASSUME versionId \in Nat, history \in Seq(Entry(versionId)), position \in DOMAIN history,
           IdsAreUnique, NEW content \in Texts, history' = Edited(content)
    PROVE  IdsAreUnique'
  <1>1. \A i \in 1 .. position : history[i].id \in 0 .. versionId
    <2>1. \A i \in DOMAIN history : history[i] \in Entry(versionId)
      OBVIOUS
    <2>2. \A i \in 1 .. position : i \in DOMAIN history
      OBVIOUS
    <2> QED BY <2>1, <2>2 DEF Entry
  <1>2. DOMAIN history' = 1 .. position + 1 /\ position \in 1 .. Len(history)
    <2>1. history' \in Seq(Entry(versionId + 1)) /\ Len(history') = position + 1
      BY EditedFacts
    <2> QED BY <2>1
  <1>3. \A i \in 1 .. position : history'[i].id = history[i].id
    BY EditedFacts
  <1>4. history'[position + 1].id = versionId + 1
    <2>1. history'[position + 1] = [id |-> versionId + 1, content |-> content]
      BY EditedFacts
    <2> QED BY <2>1
  <1> QED BY <1>1, <1>2, <1>3, <1>4 DEF IdsAreUnique

-----------------------------------------------------------------------------
(* Saves *)

(* The part of TypeOK about the sequentializer. *)
SequencerIsTyped(r, q, S) ==
    /\ q \in Kinds \cup {"none"}
    /\ S \subseteq Save
    /\ \A s \in S : s.version = r /\ S = {s}
    /\ S = {} => r = None /\ q = "none"

(* t is the save s, possibly cancelled, or has not taken its text yet. *)
SameSave(s, t) ==
    /\ t.phase = s.phase /\ t.version = s.version
    /\ t.content = s.content /\ t.stat = s.stat

ComesFrom(S, t) ==
    \/ ~HasContent(t) /\ t.version = versionId
    \/ \E s \in S : SameSave(s, t)

LEMMA CancelledIsSame ==
    ASSUME NEW s \in Save, NEW cancelled \in BOOLEAN
    PROVE  /\ [s EXCEPT !.cancelled = cancelled] \in Save
           /\ SameSave(s, [s EXCEPT !.cancelled = cancelled])
  BY DEF Save, SameSave

LEMMA DoSaveFacts ==
    ASSUME NEW r, NEW q, NEW S, versionId \in Nat, SequencerIsTyped(r, q, S),
           NEW kind \in Kinds, NEW phase \in {"delay", "participants"}, NEW isDirty \in BOOLEAN,
           NEW n,
           n = DoSave([running |-> r, queued |-> q, saves |-> S], kind, phase, isDirty)
    PROVE  /\ SequencerIsTyped(n.running, n.queued, n.saves)
           /\ \A t \in n.saves : ComesFrom(S, t)
  <1> DEFINE sequencer == [running |-> r, queued |-> q, saves |-> S]
             new == [kind |-> kind, phase |-> phase, version |-> versionId, content |-> None,
                     stat |-> 0, cancelled |-> FALSE]
             cancelled == {[s EXCEPT !.cancelled = s.phase = "delay"] : s \in S}
  <1>0. \A s \in S : ComesFrom(S, s)
    BY DEF ComesFrom, SameSave
  <1>1. CASE n = sequencer
    BY <1>0, <1>1
  <1>2. CASE r # None /\ n = [sequencer EXCEPT !.queued = kind, !.saves = cancelled]
    <2>1. n.running = r /\ n.queued = kind /\ n.saves = cancelled
      BY <1>2
    <2>2. PICK s \in S : S = {s} /\ s.version = r
      BY <1>2 DEF SequencerIsTyped
    <2>3. s \in Save
      BY <2>2 DEF SequencerIsTyped
    <2>4. PICK t : t = [s EXCEPT !.cancelled = s.phase = "delay"]
      OBVIOUS
    <2>5. t \in Save /\ SameSave(s, t)
      <3>1. (s.phase = "delay") \in BOOLEAN
        OBVIOUS
      <3> QED BY <2>3, <2>4, <3>1, CancelledIsSame
    <2>6. cancelled = {t}
      BY <2>2, <2>4
    <2>7. \A u \in cancelled : ComesFrom(S, u)
      BY <2>2, <2>5, <2>6 DEF ComesFrom
    <2>8. SequencerIsTyped(r, kind, cancelled)
      BY <2>2, <2>5, <2>6 DEF SequencerIsTyped, SameSave
    <2> QED BY <2>1, <2>7, <2>8
  <1>3. CASE r = None /\ n = [sequencer EXCEPT !.running = versionId, !.saves = S \cup {new}]
    <2>1. n.running = versionId /\ n.queued = q /\ n.saves = S \cup {new}
      BY <1>3
    <2>2. S = {}
      <3> SUFFICES ASSUME NEW s \in S PROVE FALSE
        OBVIOUS
      <3>1. s.version = r /\ s.version \in Nat
        BY DEF SequencerIsTyped, Save
      <3> QED BY <1>3, <3>1 DEF None
    <2>3. new \in Save
      BY DEF Save, Phases, None
    <2>4. new.version = versionId /\ new.phase = phase
      OBVIOUS
    <2> HIDE DEF new
    <2>5. n.saves = {new}
      BY <2>1, <2>2
    <2> QED BY <2>1, <2>3, <2>4, <2>5 DEF SequencerIsTyped, ComesFrom, HasContent
  <1>4. \/ n = sequencer
        \/ r # None /\ n = [sequencer EXCEPT !.queued = kind, !.saves = cancelled]
        \/ r = None /\ n = [sequencer EXCEPT !.running = versionId, !.saves = S \cup {new}]
    BY DEF DoSave
  <1> QED BY <1>1, <1>2, <1>3, <1>4

LEMMA FirstPhasesFacts ==
    ASSUME NEW kind PROVE FirstPhases(kind) \subseteq {"delay", "participants"}
  BY DEF FirstPhases

LEMMA RequestFacts ==
    ASSUME Typed, NEW kind \in Kinds, RequestSave(kind)
    PROVE  /\ SequencerIsTyped(running', queued', saves')
           /\ \A t \in saves' : ComesFrom(saves, t)
  <1>1. PICK phase \in FirstPhases(kind) : Become(DoSave(Sequencer, kind, phase, dirty))
    BY DEF RequestSave
  <1>2. phase \in {"delay", "participants"}
    BY FirstPhasesFacts
  <1>3. SequencerIsTyped(running, queued, saves) /\ versionId \in Nat /\ dirty \in BOOLEAN
    BY DEF Typed, TypeOK, SequencerIsTyped
  <1>4. PICK n : n = DoSave([running |-> running, queued |-> queued, saves |-> saves],
                            kind, phase, dirty)
    OBVIOUS
  <1>5. running' = n.running /\ queued' = n.queued /\ saves' = n.saves
    BY <1>1, <1>4 DEF Become, Sequencer
  <1> QED BY <1>2, <1>3, <1>4, <1>5, DoSaveFacts

(* When a save is over nothing of it is left. *)
LEMMA DoneFacts ==
    ASSUME Typed, NEW s \in saves, NEW isDirty \in BOOLEAN, Done(s, isDirty)
    PROVE  /\ SequencerIsTyped(running', queued', saves')
           /\ \A t \in saves' : ~HasContent(t) /\ t.version = versionId
  <1>1. SequencerIsTyped(running, queued, saves) /\ versionId \in Nat
    BY DEF Typed, TypeOK, SequencerIsTyped
  <1>2. running = s.version /\ saves \ {s} = {}
    BY <1>1 DEF SequencerIsTyped
  <1>3. SequencerIsTyped(None, "none", {})
    BY DEF SequencerIsTyped
  <1>4. CASE queued = "none"
    <2>1. running' = None /\ queued' = "none" /\ saves' = {}
      BY <1>2, <1>4 DEF Done, Become
    <2> QED BY <1>3, <2>1
  <1>5. CASE queued # "none"
    <2>1. PICK phase \in FirstPhases(queued) :
            Become(DoSave([running |-> None, queued |-> "none", saves |-> {}],
                          queued, phase, isDirty))
      BY <1>2, <1>5 DEF Done
    <2>2. phase \in {"delay", "participants"} /\ queued \in Kinds
      BY <1>1, <1>5, FirstPhasesFacts DEF SequencerIsTyped
    <2>3. PICK n : n = DoSave([running |-> None, queued |-> "none", saves |-> {}],
                              queued, phase, isDirty)
      OBVIOUS
    <2>4. /\ SequencerIsTyped(n.running, n.queued, n.saves)
          /\ \A t \in n.saves : ComesFrom({}, t)
      BY <1>1, <1>3, <2>2, <2>3, DoSaveFacts
    <2>5. running' = n.running /\ queued' = n.queued /\ saves' = n.saves
      BY <2>1, <2>3 DEF Become
    <2> QED BY <2>4, <2>5 DEF ComesFrom
  <1> QED BY <1>4, <1>5

-----------------------------------------------------------------------------
(* Types, part by part *)

TextIsTyped ==
    /\ versionId \in Nat
    /\ history \in Seq(Entry(versionId)) /\ position \in DOMAIN history
    /\ undone \in BOOLEAN

FlagsAreTyped ==
    /\ dirty \in BOOLEAN /\ savedVersionId \in 0 .. versionId
    /\ inConflictMode \in BOOLEAN /\ inErrorMode \in BOOLEAN
    /\ overtaken \in BOOLEAN

TimersAreTyped ==
    /\ autoSave \in BOOLEAN /\ raced \in BOOLEAN
    /\ steps \in 0 .. MaxSteps /\ failures \in Nat

DiskIsTyped ==
    disk \in Seq(Texts) /\ fileEvent \in BOOLEAN /\ lastStat \in DOMAIN disk

ReloadsAreTyped ==
    /\ reloads \in 0 .. 2
    /\ reading.by = "reload" => reloads > 0
    /\ reading.by = "revert" => reverting.active

LEMMA TypedParts ==
    ASSUME Typed
    PROVE  /\ TextIsTyped /\ FlagsAreTyped /\ TimersAreTyped /\ DiskIsTyped
           /\ ReloadsAreTyped /\ ReadIsTyped /\ RevertIsTyped /\ SavesAreTyped
           /\ SequencerIsTyped(running, queued, saves)
  BY DEF Typed, TypeOK, TextIsTyped, FlagsAreTyped, TimersAreTyped, DiskIsTyped,
     ReloadsAreTyped, SequencerIsTyped, Entry

LEMMA PartsAreTyped ==
    ASSUME TextIsTyped', FlagsAreTyped', TimersAreTyped', DiskIsTyped', ReloadsAreTyped',
           ReadIsTyped', RevertIsTyped', SavesAreTyped',
           SequencerIsTyped(running', queued', saves')
    PROVE  Typed'
  <1>1. reading'.by \in {"none", "reload", "revert"} /\ reading'.stat \in {0} \cup DOMAIN disk'
    BY DEF ReadIsTyped
  <1> QED BY <1>1 DEF Typed, TypeOK, TextIsTyped, FlagsAreTyped, TimersAreTyped,
             DiskIsTyped, ReloadsAreTyped, SequencerIsTyped, Entry

(* The file and the versions only grow. *)
DiskGrows ==
    /\ DOMAIN disk \subseteq DOMAIN disk'
    /\ \A i \in DOMAIN disk : disk'[i] = disk[i]

LEMMA FoundStays ==
    ASSUME DiskGrows, NEW stat, NEW content, FoundFrom(disk, stat, content)
    PROVE  FoundFrom(disk', stat, content)
  BY DEF FoundFrom, DiskGrows

LEMMA AppendedDisk ==
    ASSUME DiskIsTyped, NEW content \in Texts, disk' = Append(disk, content)
    PROVE  /\ disk' \in Seq(Texts) /\ DiskGrows
           /\ Len(disk) + 1 \in DOMAIN disk' /\ disk'[Len(disk) + 1] = content
  BY DEF DiskIsTyped, DiskGrows

Grows == DiskGrows /\ versionId \in Nat /\ versionId' \in Nat /\ versionId <= versionId'

LEMMA SameTextGrows ==
    ASSUME TextIsTyped, versionId' = versionId, disk' = disk PROVE Grows
  BY DEF Grows, DiskGrows, TextIsTyped

LEMMA ReadStaysTyped ==
    ASSUME ReadIsTyped, Grows, reading' = reading PROVE ReadIsTyped'
  BY DEF ReadIsTyped, Grows, DiskGrows, NoRead

LEMMA RevertStaysTyped ==
    ASSUME RevertIsTyped, Grows, reverting' = reverting PROVE RevertIsTyped'
  BY DEF RevertIsTyped, Grows

LEMMA SavesStayTyped ==
    ASSUME SavesAreTyped, Grows, \A t \in saves' : ComesFrom(saves, t)
    PROVE  SavesAreTyped'
  <1> SUFFICES ASSUME NEW t \in saves'
               PROVE  /\ t.version \in 0 .. versionId'
                      /\ HasContent(t) => t.content \in Texts /\ t.stat \in DOMAIN disk'
    BY DEF SavesAreTyped, HasContent
  <1>1. CASE ~HasContent(t) /\ t.version = versionId
    BY <1>1 DEF Grows
  <1>2. ASSUME NEW s \in saves, SameSave(s, t)
        PROVE  /\ t.version \in 0 .. versionId'
               /\ HasContent(t) => t.content \in Texts /\ t.stat \in DOMAIN disk'
    <2> QED BY <1>2 DEF SameSave, HasContent, SavesAreTyped, Grows, DiskGrows
  <1> QED BY <1>1, <1>2 DEF ComesFrom

LEMMA SameSavesComeFrom ==
    ASSUME saves' = saves PROVE \A t \in saves' : ComesFrom(saves, t)
  BY DEF ComesFrom, SameSave

-----------------------------------------------------------------------------
(* Every action keeps the types *)

LEMMA SetDirtyTyped ==
    ASSUME FlagsAreTyped, versionId \in Nat, versionId' \in Nat, versionId <= versionId',
           NEW isDirty \in BOOLEAN, NEW id \in 0 .. versionId', SetDirty(isDirty, id)
    PROVE  FlagsAreTyped'
  <1>1. CASE isDirty
    BY <1>1 DEF SetDirty, FlagsAreTyped
  <1>2. CASE ~isDirty
    BY <1>2 DEF SetDirty, FlagsAreTyped
  <1> QED BY <1>1, <1>2

LEMMA ScheduleTyped ==
    ASSUME FlagsAreTyped, FlagsAreTyped', autoSave \in BOOLEAN, NEW changes,
           ScheduleAutoSave(changes)
    PROVE  autoSave' \in BOOLEAN
  BY DEF ScheduleAutoSave, FlagsAreTyped

LEMMA EntryIds ==
    ASSUME NEW version \in Nat, NEW h \in Seq(Entry(version)), NEW i \in DOMAIN h
    PROVE  h[i].id \in 0 .. version /\ h[i].content \in Texts
  <1>1. h[i] \in Entry(version)
    OBVIOUS
  <1> QED BY <1>1 DEF Entry

(* onModelContentChanged with a stack of the right type. *)
LEMMA ChangeTyped ==
    ASSUME Typed, NEW newHistory \in Seq(Entry(versionId + 1)), NEW newPosition \in DOMAIN newHistory,
           ContentChanged(newHistory, newPosition), UNCHANGED <<lastStat, saveVars, readVars, fileVars>>,
           undone' \in BOOLEAN, steps' \in 0 .. MaxSteps, failures' \in Nat, raced' \in BOOLEAN
    PROVE  Typed'
  <1>1. /\ TextIsTyped /\ FlagsAreTyped /\ TimersAreTyped /\ DiskIsTyped /\ ReloadsAreTyped
        /\ ReadIsTyped /\ RevertIsTyped /\ SavesAreTyped
        /\ SequencerIsTyped(running, queued, saves)
    BY TypedParts
  <1>2. /\ versionId' = versionId + 1 /\ history' = newHistory /\ position' = newPosition
        /\ SetDirty(newHistory[newPosition].id # savedVersionId, newHistory[newPosition].id)
        /\ ScheduleAutoSave(TRUE)
    BY DEF ContentChanged
  <1>3. versionId \in Nat /\ versionId' \in Nat
    BY <1>1, <1>2 DEF TextIsTyped
  <1>4. TextIsTyped'
    BY <1>2, <1>3 DEF TextIsTyped
  <1>5. FlagsAreTyped'
    <2>1. newHistory[newPosition].id \in 0 .. versionId'
      BY <1>2, <1>3, EntryIds
    <2>2. dirty' \in BOOLEAN
      BY <1>2 DEF SetDirty
    <2>3. CASE newHistory[newPosition].id # savedVersionId
      <3>1. UNCHANGED <<savedVersionId, inConflictMode, inErrorMode, overtaken>>
        BY <1>2, <2>3 DEF SetDirty
      <3> QED BY <1>1, <1>2, <1>3, <2>2, <3>1 DEF FlagsAreTyped
    <2>4. CASE newHistory[newPosition].id = savedVersionId
      <3>1. /\ savedVersionId' = newHistory[newPosition].id
            /\ ~inConflictMode' /\ ~inErrorMode' /\ ~overtaken'
            /\ inConflictMode' \in BOOLEAN /\ inErrorMode' \in BOOLEAN /\ overtaken' \in BOOLEAN
        BY <1>2, <2>4 DEF SetDirty
      <3> QED BY <2>1, <2>2, <3>1 DEF FlagsAreTyped
    <2> QED BY <2>3, <2>4
  <1>6. TimersAreTyped'
    BY <1>1, <1>2, <1>5, ScheduleTyped DEF TimersAreTyped
  <1>7. disk' = disk /\ fileEvent' = fileEvent /\ lastStat' = lastStat /\ reading' = reading
        /\ reverting' = reverting /\ reloads' = reloads /\ saves' = saves /\ running' = running
        /\ queued' = queued
    BY DEF saveVars, readVars, fileVars
  <1>8. DiskIsTyped' /\ ReloadsAreTyped' /\ SequencerIsTyped(running', queued', saves')
    BY <1>1, <1>7 DEF DiskIsTyped, ReloadsAreTyped
  <1>9. Grows
    BY <1>2, <1>3, <1>7 DEF Grows, DiskGrows
  <1>10. ReadIsTyped' /\ RevertIsTyped' /\ SavesAreTyped'
    BY <1>1, <1>7, <1>9, ReadStaysTyped, RevertStaysTyped, SavesStayTyped, SameSavesComeFrom
  <1> QED BY <1>4, <1>5, <1>6, <1>8, <1>10, PartsAreTyped

(* Steps that leave the text and what was read alone. *)
LEMMA SaveStepTyped ==
    ASSUME Typed, UNCHANGED <<textVars, readVars>>,
           FlagsAreTyped', TimersAreTyped', DiskIsTyped', DiskGrows,
           SequencerIsTyped(running', queued', saves'), SavesAreTyped'
    PROVE  Typed'
  <1>1. TextIsTyped /\ ReloadsAreTyped /\ ReadIsTyped /\ RevertIsTyped
    BY TypedParts
  <1>2. Grows
    BY <1>1 DEF Grows, TextIsTyped, textVars
  <1>3. TextIsTyped' /\ ReloadsAreTyped'
    BY <1>1 DEF TextIsTyped, ReloadsAreTyped, textVars, readVars
  <1>4. ReadIsTyped' /\ RevertIsTyped'
    BY <1>1, <1>2, ReadStaysTyped, RevertStaysTyped DEF readVars
  <1> QED BY <1>3, <1>4, PartsAreTyped

LEMMA UserTyped ==
    ASSUME Typed, UserStep PROVE Typed'
  <1>0. TextIsTyped /\ TimersAreTyped /\ FlagsAreTyped /\ DiskIsTyped
    BY TypedParts
  <1>1. ASSUME Type PROVE Typed'
    <2>1. steps' \in 0 .. MaxSteps /\ failures' \in Nat /\ undone' \in BOOLEAN
      BY <1>0, <1>1, BoundsAssumption DEF Type, CountStep, TimersAreTyped, TextIsTyped
    <2>2. raced' \in BOOLEAN
      BY <1>1 DEF Type, Race
    <2>3. /\ Edited(steps') \in Seq(Entry(versionId + 1))
          /\ position + 1 \in DOMAIN Edited(steps')
      <3>1. steps' \in Texts
        BY <2>1 DEF Texts
      <3>2. Edited(steps') \in Seq(Entry(versionId + 1)) /\ Len(Edited(steps')) = position + 1
        BY <1>0, <3>1, EditedFacts DEF TextIsTyped
      <3>3. position \in 1 .. Len(history)
        BY <1>0 DEF TextIsTyped
      <3> QED BY <3>2, <3>3
    <2>4. ContentChanged(Edited(steps'), position + 1)
          /\ UNCHANGED <<lastStat, saveVars, readVars, fileVars>>
      BY <1>1 DEF Type
    <2> QED BY <2>1, <2>2, <2>3, <2>4, ChangeTyped
  <1>2. ASSUME NEW newPosition, UndoOrRedo(newPosition) PROVE Typed'
    <2>1. steps' \in 0 .. MaxSteps /\ failures' \in Nat /\ undone' \in BOOLEAN
      BY <1>0, <1>2, BoundsAssumption DEF UndoOrRedo, CountStep, TimersAreTyped, TextIsTyped
    <2>2. raced' \in BOOLEAN
      BY <1>2 DEF UndoOrRedo, Race
    <2>3. history \in Seq(Entry(versionId + 1)) /\ newPosition \in DOMAIN history
      <3>1. \A i \in 1 .. Len(history) : history[i] \in Entry(versionId + 1)
        <4>1. Entry(versionId) \subseteq Entry(versionId + 1)
          BY <1>0 DEF Entry, TextIsTyped
        <4> QED BY <1>0, <4>1 DEF TextIsTyped
      <3> QED BY <1>0, <1>2, <3>1 DEF TextIsTyped, UndoOrRedo
    <2>4. ContentChanged(history, newPosition)
          /\ UNCHANGED <<lastStat, saveVars, readVars, fileVars>>
      BY <1>2 DEF UndoOrRedo
    <2> QED BY <2>1, <2>2, <2>3, <2>4, ChangeTyped
  <1>3. ASSUME NEW kind \in Kinds, SaveCommand(kind) PROVE Typed'
    <2>1. TimersAreTyped' /\ FlagsAreTyped' /\ DiskIsTyped' /\ DiskGrows
      BY <1>0, <1>3, BoundsAssumption DEF SaveCommand, CountStep, TimersAreTyped, FlagsAreTyped,
         DiskIsTyped, DiskGrows, Race, textVars, flagVars, fileVars
    <2>2. /\ SequencerIsTyped(running', queued', saves')
          /\ \A t \in saves' : ComesFrom(saves, t)
      BY <1>3, RequestFacts DEF SaveCommand
    <2>3. UNCHANGED <<textVars, readVars>> /\ Grows
      BY <1>0, <1>3, <2>1 DEF SaveCommand, Grows, TextIsTyped, textVars
    <2>4. SavesAreTyped'
      BY <2>2, <2>3, SavesStayTyped, TypedParts
    <2> QED BY <2>1, <2>2, <2>3, <2>4, SaveStepTyped
  <1>4. ASSUME Revert PROVE Typed'
    <2>1. /\ SetDirty(FALSE, history[position].id) /\ CountStep
          /\ UNCHANGED <<textVars, lastStat, saveVars, reloads, fileVars>>
      BY <1>4 DEF Revert
    <2>2. history[position].id \in 0 .. versionId /\ Content \in Texts
      BY <1>0, EntryIds DEF TextIsTyped, Content
    <2>3. FlagsAreTyped'
      <3>1. versionId' = versionId /\ versionId \in Nat
        BY <1>0, <2>1 DEF TextIsTyped, textVars
      <3>2. FALSE \in BOOLEAN /\ history[position].id \in 0 .. versionId' /\ versionId <= versionId'
        BY <2>2, <3>1
      <3> QED BY <1>0, <2>1, <3>1, <3>2, SetDirtyTyped
    <2>4. TimersAreTyped'
      <3>1. autoSave' \in BOOLEAN
        BY <1>0, <1>4 DEF Revert, TimersAreTyped
      <3>2. raced' \in BOOLEAN
        BY <1>4 DEF Revert, Race
      <3> QED BY <1>0, <2>1, <3>1, <3>2, BoundsAssumption DEF CountStep, TimersAreTyped
    <2>5. Grows
      BY <1>0, <2>1, SameTextGrows DEF textVars, fileVars
    <2>6. TextIsTyped' /\ DiskIsTyped' /\ SequencerIsTyped(running', queued', saves')
      BY <1>0, <2>1, TypedParts DEF textVars, fileVars, saveVars, TextIsTyped, DiskIsTyped
    <2>7. SavesAreTyped'
      BY <2>1, <2>5, TypedParts, SavesStayTyped, SameSavesComeFrom DEF saveVars
    <2>8. RevertIsTyped' /\ ReadIsTyped' /\ ReloadsAreTyped'
      <3>0. RevertIsTyped /\ ReadIsTyped /\ ReloadsAreTyped
        BY TypedParts
      <3>1. CASE UNCHANGED <<reverting, reading>>
        BY <2>1, <2>5, <3>0, <3>1, ReadStaysTyped, RevertStaysTyped DEF ReloadsAreTyped
      <3>2. CASE /\ reverting' = [active |-> TRUE, dirty |-> dirty,
                        savedVersionId |-> savedVersionId, inConflictMode |-> inConflictMode,
                        inErrorMode |-> inErrorMode, overtaken |-> overtaken, content |-> Content]
                 /\ reading' = IF reading = NoRead THEN Reading("revert") ELSE reading
        <4>1. RevertIsTyped'
          BY <1>0, <2>1, <2>2, <3>2 DEF RevertIsTyped, FlagsAreTyped, Texts, textVars
        <4>2. CASE reading = NoRead
          <5>1. reading' = [by |-> "revert", version |-> versionId, stat |-> 0, content |-> None]
            BY <3>2, <4>2 DEF Reading
          <5> QED BY <1>0, <2>1, <3>0, <3>2, <4>1, <5>1 DEF ReadIsTyped, ReloadsAreTyped,
                     TextIsTyped, None, textVars
        <4>3. CASE reading # NoRead
          BY <2>1, <2>5, <3>0, <3>2, <4>1, <4>3, ReadStaysTyped DEF ReloadsAreTyped
        <4> QED BY <4>1, <4>2, <4>3
      <3> QED BY <1>4, <3>1, <3>2 DEF Revert
    <2> QED BY <2>3, <2>4, <2>6, <2>7, <2>8, PartsAreTyped
  <1> QED BY <1>1, <1>2, <1>3, <1>4 DEF UserStep

(* A save goes on with another record of itself. *)
LEMMA ContinueTyped ==
    ASSUME Typed, NEW s \in saves, NEW next \in Save, Continue(s, next),
           running' = next.version, queued' = queued
    PROVE  SequencerIsTyped(running', queued', saves') /\ saves' = {next}
  <1>1. saves = {s} /\ queued \in Kinds \cup {"none"}
    BY TypedParts DEF SequencerIsTyped
  <1>2. saves' = {next}
    BY <1>1 DEF Continue
  <1> QED BY <1>1, <1>2 DEF SequencerIsTyped

LEMMA SaveFacts ==
    ASSUME Typed, NEW s \in saves
    PROVE  /\ saves = {s} /\ s.version = running /\ running # None /\ s \in Save
           /\ s.version \in 0 .. versionId
           /\ HasContent(s) => s.content \in Texts /\ s.stat \in DOMAIN disk
  <1>1. SequencerIsTyped(running, queued, saves) /\ SavesAreTyped
    BY TypedParts
  <1>2. s.version \in 0 .. versionId
    BY <1>1 DEF SavesAreTyped
  <1> QED BY <1>1, <1>2 DEF SequencerIsTyped, SavesAreTyped, None

(* A save that is over, well or badly. *)
LEMMA DoneTyped ==
    ASSUME Typed, NEW s \in saves, NEW isDirty \in BOOLEAN, Done(s, isDirty),
           versionId' = versionId
    PROVE  SequencerIsTyped(running', queued', saves') /\ SavesAreTyped'
  <1>1. versionId \in Nat
    BY TypedParts DEF TextIsTyped
  <1>2. \A t \in saves' : ~HasContent(t) /\ t.version = versionId
    BY DoneFacts
  <1>3. SavesAreTyped'
    BY <1>1, <1>2 DEF SavesAreTyped, HasContent
  <1> QED BY <1>3, DoneFacts

LEMMA LaterTyped ==
    ASSUME NEW D, NEW a \in D, NEW b \in D PROVE Later(a, b) \in D
  BY DEF Later

LEMMA SaveActionTyped ==
    ASSUME Typed, NEW s \in saves, SaveStep(s) \/ CheckFails(s) \/ WriteFails(s)
    PROVE  Typed'
  <1>0. /\ TextIsTyped /\ FlagsAreTyped /\ TimersAreTyped /\ DiskIsTyped /\ SavesAreTyped
        /\ SequencerIsTyped(running, queued, saves)
    BY TypedParts
  <1>1. CASE DelayEnds(s)
    <2>1. /\ UNCHANGED <<textVars, readVars>> /\ UNCHANGED <<flagVars, lastStat, autoSave>>
          /\ UNCHANGED <<fileVars, raced, bounds>>
      BY <1>1 DEF DelayEnds
    <2>2. FlagsAreTyped' /\ TimersAreTyped' /\ DiskIsTyped' /\ DiskGrows
      BY <1>0, <2>1 DEF FlagsAreTyped, TimersAreTyped, DiskIsTyped, DiskGrows, textVars,
         flagVars, fileVars, bounds
    <2>3. SequencerIsTyped(running', queued', saves') /\ SavesAreTyped'
      <3>1. CASE s.cancelled
        <4>1. Done(s, dirty) /\ dirty \in BOOLEAN /\ versionId' = versionId
          BY <1>0, <1>1, <2>1, <3>1 DEF DelayEnds, FlagsAreTyped, textVars
        <4> QED BY <4>1, DoneTyped
      <3>2. CASE ~s.cancelled
        <4>1. PICK next : next = [s EXCEPT !.phase = "participants"]
          OBVIOUS
        <4>2. next \in Save /\ next.version = s.version /\ ~HasContent(next)
          BY <4>1, SaveFacts DEF Save, Phases, HasContent
        <4>3. Continue(s, next) /\ running' = next.version /\ queued' = queued
          BY <1>1, <3>2, <4>1, <4>2, SaveFacts DEF DelayEnds
        <4>4. SequencerIsTyped(running', queued', saves') /\ saves' = {next}
          BY <4>2, <4>3, ContinueTyped
        <4>5. next.version \in 0 .. versionId'
          BY <2>1, <4>2, SaveFacts DEF textVars
        <4> QED BY <4>2, <4>4, <4>5 DEF SavesAreTyped, HasContent
      <3> QED BY <3>1, <3>2
    <2> QED BY <2>1, <2>2, <2>3, SaveStepTyped
  <1>2. CASE BeginWrite(s)
    <2>1. /\ UNCHANGED <<textVars, readVars>> /\ inErrorMode' = FALSE /\ queued' = queued
          /\ running' = versionId
          /\ UNCHANGED <<dirty, savedVersionId, inConflictMode, overtaken, lastStat>>
          /\ UNCHANGED <<autoSave, fileVars, raced, bounds>>
      BY <1>2 DEF BeginWrite
    <2>2. FlagsAreTyped' /\ TimersAreTyped' /\ DiskIsTyped' /\ DiskGrows
      BY <1>0, <2>1 DEF FlagsAreTyped, TimersAreTyped, DiskIsTyped, DiskGrows, textVars,
         fileVars, bounds
    <2>3. PICK next : next = [s EXCEPT !.phase = "check", !.version = versionId,
                                      !.content = Content, !.stat = lastStat]
      OBVIOUS
    <2>4. lastStat \in Nat /\ lastStat \in DOMAIN disk /\ versionId \in Nat /\ Content \in Texts
      BY <1>0, EntryIds DEF DiskIsTyped, TextIsTyped, Content
    <2>5. /\ next \in Save /\ next.version = versionId /\ next.content = Content
          /\ next.stat = lastStat
      <3>1. Content \in Int
        BY <2>4, BoundsAssumption DEF Texts
      <3>2. PICK c : c = Content
        OBVIOUS
      <3>3. next = [s EXCEPT !.phase = "check", !.version = versionId, !.content = c,
                             !.stat = lastStat]
        BY <2>3, <3>2
      <3>4. c \in Int /\ s \in Save
        BY <3>1, <3>2, SaveFacts
      <3>5. /\ next \in Save /\ next.version = versionId /\ next.content = c
            /\ next.stat = lastStat
        BY <2>4, <3>3, <3>4 DEF Save, Phases
      <3> QED BY <3>2, <3>5
    <2>6. SequencerIsTyped(running', queued', saves') /\ saves' = {next}
      BY <1>2, <2>1, <2>3, <2>5, ContinueTyped DEF BeginWrite
    <2>7. SavesAreTyped'
      BY <2>1, <2>4, <2>5, <2>6 DEF SavesAreTyped, textVars, fileVars
    <2> QED BY <2>1, <2>2, <2>6, <2>7, SaveStepTyped
  <1>3. CASE Write(s)
    <2>1. /\ UNCHANGED <<textVars, readVars>> /\ running' = running /\ queued' = queued
          /\ UNCHANGED <<flagVars, lastStat, autoSave, raced, bounds>>
          /\ disk' = Append(disk, s.content) /\ fileEvent' = TRUE
      BY <1>3 DEF Write, PutOnDisk
    <2>2. s.content \in Texts /\ s.stat \in DOMAIN disk
      BY <1>3, SaveFacts DEF Write, HasContent
    <2>3. /\ disk' \in Seq(Texts) /\ DiskGrows /\ Present + 1 \in DOMAIN disk'
          /\ disk'[Present + 1] = s.content
      BY <1>0, <2>1, <2>2, AppendedDisk DEF Present
    <2>4. FlagsAreTyped' /\ TimersAreTyped' /\ DiskIsTyped'
      BY <1>0, <2>1, <2>3 DEF FlagsAreTyped, TimersAreTyped, DiskIsTyped, DiskGrows, textVars,
         flagVars, bounds
    <2>5. PICK next : next = [s EXCEPT !.phase = "look"]
      OBVIOUS
    <2>7. /\ next \in Save /\ next.version = s.version /\ next.content = s.content
          /\ next.stat = s.stat
      BY <2>5, SaveFacts DEF Save, Phases
    <2>8. SequencerIsTyped(running', queued', saves') /\ saves' = {next}
      BY <1>3, <2>1, <2>5, <2>7, ContinueTyped, SaveFacts DEF Write
    <2>9. SavesAreTyped'
      BY <2>1, <2>2, <2>3, <2>7, <2>8, SaveFacts DEF SavesAreTyped, DiskGrows, textVars
    <2> QED BY <2>1, <2>3, <2>4, <2>8, <2>9, SaveStepTyped
  (* It checks the file before, or cannot, and looks at it afterwards. *)
  <1>11. ASSUME NEW next \in Save, Continue(s, next), next.version = s.version,
                next.content = s.content, HasContent(s), next.stat \in DOMAIN disk,
                UNCHANGED <<running, queued, textVars, flagVars, lastStat, autoSave, readVars,
                            fileVars>>,
                raced' \in BOOLEAN, steps' \in 0 .. MaxSteps, failures' \in Nat
         PROVE  Typed'
    <2>1. FlagsAreTyped' /\ TimersAreTyped' /\ DiskIsTyped' /\ DiskGrows
      BY <1>0, <1>11 DEF FlagsAreTyped, TimersAreTyped, DiskIsTyped, DiskGrows, textVars,
         flagVars, fileVars
    <2>2. SequencerIsTyped(running', queued', saves') /\ saves' = {next}
      BY <1>11, ContinueTyped, SaveFacts
    <2>3. SavesAreTyped'
      BY <1>11, <2>2, SaveFacts DEF SavesAreTyped, textVars, fileVars
    <2>4. UNCHANGED <<textVars, readVars>>
      BY <1>11
    <2> QED BY <2>1, <2>2, <2>3, <2>4, SaveStepTyped
  <1>12. CASE CheckFile(s) \/ CheckFails(s)
    <2>1. /\ s.phase = "check" /\ Continue(s, [s EXCEPT !.phase = "write"])
          /\ UNCHANGED <<running, queued, textVars, flagVars, lastStat, autoSave, readVars,
                         fileVars>>
          /\ raced' = raced
      BY <1>12 DEF CheckFile, CheckFails
    <2>2. steps' \in 0 .. MaxSteps /\ failures' \in Nat /\ raced' \in BOOLEAN
      BY <1>0, <1>12, <2>1 DEF CheckFile, CheckFails, CountFailure, TimersAreTyped, bounds
    <2>3. PICK next : next = [s EXCEPT !.phase = "write"]
      OBVIOUS
    <2>4. /\ next \in Save /\ next.version = s.version /\ next.content = s.content
          /\ next.stat = s.stat
      BY <2>3, SaveFacts DEF Save, Phases
    <2>5. HasContent(s) /\ next.stat \in DOMAIN disk
      BY <2>1, <2>4, SaveFacts DEF HasContent
    <2> QED BY <1>11, <2>1, <2>2, <2>3, <2>4, <2>5
  <1>13. CASE LookAtFile(s)
    <2>1. /\ s.phase = "look" /\ Continue(s, [s EXCEPT !.phase = "written", !.stat = Present])
          /\ UNCHANGED <<running, queued, textVars, flagVars, lastStat, autoSave, readVars,
                         fileVars>>
          /\ UNCHANGED bounds /\ raced' \in BOOLEAN
      BY <1>13 DEF LookAtFile, Race
    <2>2. steps' \in 0 .. MaxSteps /\ failures' \in Nat
      BY <1>0, <2>1 DEF TimersAreTyped, bounds
    <2>3. PICK next : next = [s EXCEPT !.phase = "written", !.stat = Present]
      OBVIOUS
    <2>4. Present \in Nat /\ Present \in DOMAIN disk
      BY <1>0 DEF DiskIsTyped, Present
    <2>5. /\ next \in Save /\ next.version = s.version /\ next.content = s.content
          /\ next.stat = Present
      BY <2>3, <2>4, SaveFacts DEF Save, Phases
    <2>6. HasContent(s)
      BY <2>1 DEF HasContent
    <2> QED BY <1>11, <2>1, <2>2, <2>3, <2>4, <2>5, <2>6
  <1>4. CASE HandleSaveSuccess(s)
    <2>1. /\ UNCHANGED <<textVars, readVars>> /\ UNCHANGED <<fileVars, raced, bounds>>
          /\ s.phase = "written" /\ lastStat' = Later(lastStat, s.stat)
          /\ ScheduleAutoSave(FALSE) /\ Done(s, dirty')
      BY <1>4 DEF HandleSaveSuccess
    <2>2. FlagsAreTyped'
      <3>1. CASE s.version = versionId
        <4>1. versionId' = versionId /\ versionId \in Nat
          BY <1>0, <2>1 DEF TextIsTyped, textVars
        <4>2. history[position].id \in 0 .. versionId' /\ versionId <= versionId'
          BY <1>0, <4>1, EntryIds DEF TextIsTyped
        <4>3. FALSE \in BOOLEAN /\ SetDirty(FALSE, history[position].id)
          BY <1>4, <3>1 DEF HandleSaveSuccess
        <4> QED BY <1>0, <4>1, <4>2, <4>3, SetDirtyTyped
      <3>2. CASE s.version # versionId
        BY <1>0, <1>4, <2>1, <3>2 DEF HandleSaveSuccess, FlagsAreTyped, textVars
      <3> QED BY <3>1, <3>2
    <2>3. TimersAreTyped'
      BY <1>0, <2>1, <2>2, ScheduleTyped DEF TimersAreTyped, bounds
    <2>4. DiskIsTyped' /\ DiskGrows
      BY <1>0, <2>1, SaveFacts, LaterTyped DEF DiskIsTyped, DiskGrows, HasContent, fileVars
    <2>5. SequencerIsTyped(running', queued', saves') /\ SavesAreTyped'
      BY <2>1, <2>2, DoneTyped DEF FlagsAreTyped, textVars
    <2> QED BY <2>1, <2>2, <2>3, <2>4, <2>5, SaveStepTyped
  <1>5. ASSUME NEW isConflict \in BOOLEAN, HandleSaveError(s, isConflict),
               DiskIsTyped', DiskGrows, steps' \in 0 .. MaxSteps, failures' \in Nat
        PROVE  Typed'
    <2>1. /\ UNCHANGED <<textVars, readVars>> /\ UNCHANGED <<savedVersionId, overtaken, raced>>
          /\ dirty' = TRUE /\ inErrorMode' = TRUE /\ ScheduleAutoSave(FALSE) /\ Done(s, TRUE)
          /\ inConflictMode' = (inConflictMode \/ isConflict)
      BY <1>5 DEF HandleSaveError
    <2>2. FlagsAreTyped'
      BY <1>0, <2>1 DEF FlagsAreTyped, textVars
    <2>3. TimersAreTyped'
      BY <1>0, <1>5, <2>1, <2>2, ScheduleTyped DEF TimersAreTyped
    <2>4. SequencerIsTyped(running', queued', saves') /\ SavesAreTyped'
      BY <2>1, DoneTyped DEF textVars
    <2> QED BY <1>5, <2>1, <2>2, <2>3, <2>4, SaveStepTyped
  <1>6. CASE WriteConflicts(s)
    <2>1. /\ HandleSaveError(s, TRUE) /\ UNCHANGED <<fileVars, bounds>> /\ lastStat' = lastStat
      BY <1>6 DEF WriteConflicts, HandleSaveError
    <2>2. DiskIsTyped' /\ DiskGrows
      BY <1>0, <2>1 DEF DiskIsTyped, DiskGrows, fileVars
    <2>3. steps' \in 0 .. MaxSteps /\ failures' \in Nat
      BY <1>0, <2>1 DEF TimersAreTyped, bounds
    <2> QED BY <1>5, <2>1, <2>2, <2>3
  <1>7. CASE WriteFails(s)
    <2>1. /\ HandleSaveError(s, FALSE) /\ lastStat' = lastStat
          /\ steps' = steps /\ failures' = failures + 1
          /\ PutOnDisk(s.content) \/ UNCHANGED fileVars
      BY <1>7 DEF WriteFails, HandleSaveError, CountFailure
    <2>2. s.content \in Texts
      BY <1>7, SaveFacts DEF WriteFails, HasContent
    <2>3. DiskIsTyped' /\ DiskGrows
      <3>1. CASE UNCHANGED fileVars
        BY <1>0, <2>1, <3>1 DEF DiskIsTyped, DiskGrows, fileVars
      <3>2. CASE PutOnDisk(s.content)
        BY <1>0, <2>1, <2>2, <3>2, AppendedDisk DEF DiskIsTyped, DiskGrows, PutOnDisk
      <3> QED BY <2>1, <3>1, <3>2
    <2>4. steps' \in 0 .. MaxSteps /\ failures' \in Nat
      BY <1>0, <2>1 DEF TimersAreTyped
    <2> QED BY <1>5, <2>1, <2>3, <2>4
  <1> QED BY <1>1, <1>2, <1>3, <1>4, <1>6, <1>7, <1>12, <1>13 DEF SaveStep

(* Steps that leave the saves and the file alone. *)
LEMMA ReadStepTyped ==
    ASSUME Typed, UNCHANGED <<saveVars, fileVars>>, TextIsTyped', versionId <= versionId',
           FlagsAreTyped', TimersAreTyped', lastStat' \in DOMAIN disk,
           ReloadsAreTyped', ReadIsTyped', RevertIsTyped'
    PROVE  Typed'
  <1>1. DiskIsTyped /\ SavesAreTyped /\ SequencerIsTyped(running, queued, saves) /\ TextIsTyped
    BY TypedParts
  <1>2. Grows
    BY <1>1 DEF Grows, DiskGrows, TextIsTyped, fileVars
  <1>3. DiskIsTyped' /\ SequencerIsTyped(running', queued', saves')
    BY <1>1 DEF DiskIsTyped, fileVars, saveVars
  <1>4. SavesAreTyped'
    BY <1>1, <1>2, SavesStayTyped, SameSavesComeFrom DEF saveVars
  <1> QED BY <1>3, <1>4, PartsAreTyped

LEMMA EndResolveTyped ==
    ASSUME Typed, versionId' \in Nat, versionId <= versionId', disk' = disk,
           NEW by \in {"reload", "revert"}, by = "reload" => reloads > 0, EndResolve(by)
    PROVE  ReloadsAreTyped' /\ ReadIsTyped' /\ RevertIsTyped'
  <1>1. ReloadsAreTyped /\ RevertIsTyped /\ TextIsTyped
    BY TypedParts
  <1>2. reading' = NoRead
    BY DEF EndResolve
  <1>3. ReadIsTyped'
    BY <1>2 DEF ReadIsTyped, NoRead, None
  <1>4. reloads' \in 0 .. 2
    BY <1>1 DEF EndResolve, ReloadsAreTyped
  <1>5. ReloadsAreTyped'
    BY <1>2, <1>4 DEF ReloadsAreTyped, NoRead
  <1>6. CASE by = "revert"
    <2>1. reverting' = NoRevert
      BY <1>6 DEF EndResolve
    <2> QED BY <1>3, <1>5, <2>1 DEF RevertIsTyped, NoRevert, None
  <1>7. CASE by # "revert"
    <2>1. reverting' = reverting
      BY <1>7 DEF EndResolve
    <2> QED BY <1>1, <1>3, <1>5, <2>1 DEF RevertIsTyped, TextIsTyped
  <1> QED BY <1>6, <1>7

LEMMA TellTyped ==
    ASSUME FlagsAreTyped, FlagsAreTyped', autoSave \in BOOLEAN, NEW by, TellRevert(by)
    PROVE  autoSave' \in BOOLEAN
  BY DEF TellRevert, FlagsAreTyped

LEMMA FlagsStayTyped ==
    ASSUME FlagsAreTyped, UNCHANGED <<versionId, flagVars>> PROVE FlagsAreTyped'
  BY DEF FlagsAreTyped, flagVars

LEMMA ResolveTyped ==
    ASSUME Typed, ResolveStep \/ ReadFails
    PROVE  Typed'
  <1>0. /\ TextIsTyped /\ FlagsAreTyped /\ TimersAreTyped /\ DiskIsTyped
        /\ ReloadsAreTyped /\ ReadIsTyped /\ RevertIsTyped /\ autoSave \in BOOLEAN
    BY TypedParts DEF TimersAreTyped
  (* Most of them leave the text alone, too. *)
  <1>1. ASSUME UNCHANGED <<textVars, lastStat, saveVars, fileVars>>, FlagsAreTyped',
               autoSave' \in BOOLEAN, raced' \in BOOLEAN, steps' \in 0 .. MaxSteps, failures' \in Nat,
               ReloadsAreTyped', ReadIsTyped', RevertIsTyped'
        PROVE  Typed'
    <2>1. TextIsTyped' /\ TimersAreTyped' /\ versionId <= versionId'
      BY <1>0, <1>1 DEF TextIsTyped, TimersAreTyped, textVars
    <2>2. lastStat' \in DOMAIN disk
      BY <1>0, <1>1 DEF DiskIsTyped
    <2> QED BY <1>1, <2>1, <2>2, ReadStepTyped
  <1>2. ASSUME NEW by \in {"reload", "revert"}, by = "reload" => reloads > 0, EndResolve(by),
               UNCHANGED <<textVars, fileVars>>
        PROVE  ReloadsAreTyped' /\ ReadIsTyped' /\ RevertIsTyped'
    <2>1. versionId' \in Nat /\ versionId <= versionId' /\ disk' = disk
      BY <1>0, <1>2 DEF TextIsTyped, textVars, fileVars
    <2> QED BY <1>2, <2>1, EndResolveTyped
  <1>3. reading # NoRead =>
            reading.by \in {"reload", "revert"} /\ (reading.by = "reload" => reloads > 0)
    BY <1>0 DEF ReadIsTyped, ReloadsAreTyped
  <1>4. reading.stat > 0 => reading # NoRead
    BY DEF NoRead
  <1>10. raced \in BOOLEAN
    BY <1>0 DEF TimersAreTyped
  <1>5. ASSUME NEW by \in {"reload", "revert"}, BeginResolve(by) PROVE Typed'
    <2>1. UNCHANGED <<textVars, lastStat, saveVars, fileVars, raced, bounds>> /\ UNCHANGED flagVars
      BY <1>5 DEF BeginResolve
    <2>2. FlagsAreTyped' /\ steps' \in 0 .. MaxSteps /\ failures' \in Nat
      BY <1>0, <2>1, FlagsStayTyped DEF textVars, bounds, TimersAreTyped
    <2>3. CASE EndResolve(by) /\ TellRevert(by)
      <3>1. by = "reload" => reloads > 0
        BY <1>5 DEF BeginResolve
      <3>2. ReloadsAreTyped' /\ ReadIsTyped' /\ RevertIsTyped'
        BY <1>2, <2>1, <2>3, <3>1
      <3>3. autoSave' \in BOOLEAN
        BY <1>0, <2>2, <2>3, TellTyped
      <3> QED BY <1>1, <1>10, <2>1, <2>2, <3>2, <3>3
    <2>4. CASE reading' = Reading(by) /\ UNCHANGED <<reloads, reverting, autoSave>>
      <3>1. versionId' = versionId /\ versionId \in Nat
        BY <1>0, <2>1 DEF TextIsTyped, textVars
      <3>2. reading' = [by |-> by, version |-> versionId, stat |-> 0, content |-> None]
        BY <2>4 DEF Reading
      <3>3. ReadIsTyped'
        BY <3>1, <3>2 DEF ReadIsTyped, None
      <3>4. ReloadsAreTyped'
        BY <1>0, <1>5, <2>4, <3>2 DEF BeginResolve, ReloadsAreTyped
      <3>5. RevertIsTyped'
        BY <1>0, <2>4, <3>1 DEF RevertIsTyped
      <3> QED BY <1>0, <1>1, <1>10, <2>1, <2>2, <2>4, <3>3, <3>4, <3>5
    <2> QED BY <1>5, <2>3, <2>4 DEF BeginResolve
  <1>6. ASSUME ReadStat PROVE Typed'
    <2>1. /\ UNCHANGED <<textVars, lastStat, saveVars, fileVars, bounds>>
          /\ UNCHANGED <<flagVars, autoSave>> /\ reading # NoRead /\ raced' \in BOOLEAN
      BY <1>6, <1>10 DEF ReadStat, Race
    <2>2. FlagsAreTyped' /\ autoSave' \in BOOLEAN /\ steps' \in 0 .. MaxSteps /\ failures' \in Nat
      BY <1>0, <2>1, FlagsStayTyped DEF textVars, bounds, TimersAreTyped
    <2>3. CASE reading.by = "reload" /\ EndResolve("reload")
      BY <1>1, <1>2, <1>3, <2>1, <2>2, <2>3
    <2>4. CASE reading' = [reading EXCEPT !.stat = Present] /\ UNCHANGED <<reloads, reverting>>
      <3>1. Present \in DOMAIN disk /\ Present \in Nat
        BY <1>0 DEF DiskIsTyped, Present
      <3>2. /\ reading' \in [by : {"none", "reload", "revert"}, version : 0 .. versionId,
                              stat : Nat, content : Texts \cup {None}]
            /\ reading'.by = reading.by /\ reading'.stat = Present
            /\ reading'.version = reading.version
        BY <1>0, <2>4, <3>1 DEF ReadIsTyped
      <3>3. ReadIsTyped'
        BY <1>3, <2>1, <3>1, <3>2 DEF ReadIsTyped, textVars, fileVars
      <3>4. ReloadsAreTyped' /\ RevertIsTyped'
        BY <1>0, <2>1, <2>4, <3>2 DEF ReloadsAreTyped, RevertIsTyped, textVars
      <3> QED BY <1>1, <2>1, <2>2, <3>3, <3>4
    <2> QED BY <1>6, <2>3, <2>4 DEF ReadStat
  <1>11. ASSUME ReadContent PROVE Typed'
    <2>1. /\ UNCHANGED <<textVars, lastStat, saveVars, fileVars, raced, bounds>>
          /\ UNCHANGED <<flagVars, autoSave, reloads, reverting>> /\ reading # NoRead
          /\ reading' = [reading EXCEPT !.content = disk[Present]]
      BY <1>11 DEF ReadContent
    <2>2. FlagsAreTyped' /\ autoSave' \in BOOLEAN /\ steps' \in 0 .. MaxSteps /\ failures' \in Nat
      BY <1>0, <2>1, FlagsStayTyped DEF textVars, bounds, TimersAreTyped
    <2>3. PICK c : c = disk[Present]
      OBVIOUS
    <2>4. c \in Texts
      BY <1>0, <2>3 DEF DiskIsTyped, Present
    <2>5. /\ reading' \in [by : {"none", "reload", "revert"}, version : 0 .. versionId,
                            stat : Nat, content : Texts \cup {None}]
          /\ reading'.by = reading.by /\ reading'.stat = reading.stat
          /\ reading'.version = reading.version
      BY <1>0, <2>1, <2>3, <2>4 DEF ReadIsTyped
    <2>6. ReadIsTyped'
      BY <1>0, <1>3, <2>1, <2>5 DEF ReadIsTyped, textVars, fileVars
    <2>7. ReloadsAreTyped' /\ RevertIsTyped'
      BY <1>0, <2>1, <2>5 DEF ReloadsAreTyped, RevertIsTyped, textVars
    <2> QED BY <1>1, <1>10, <2>1, <2>2, <2>6, <2>7
  <1>7. ASSUME DropRead PROVE Typed'
    <2>1. /\ UNCHANGED <<textVars, lastStat, saveVars, fileVars, raced, bounds>>
          /\ UNCHANGED flagVars
          /\ EndResolve(reading.by) /\ TellRevert(reading.by) /\ reading # NoRead
      BY <1>4, <1>7 DEF DropRead, HasRead
    <2>2. FlagsAreTyped' /\ steps' \in 0 .. MaxSteps /\ failures' \in Nat
      BY <1>0, <2>1, FlagsStayTyped DEF textVars, bounds, TimersAreTyped
    <2>3. autoSave' \in BOOLEAN
      BY <1>0, <2>1, <2>2, TellTyped
    <2>4. ReloadsAreTyped' /\ ReadIsTyped' /\ RevertIsTyped'
      BY <1>2, <1>3, <2>1
    <2> QED BY <1>1, <1>10, <2>1, <2>2, <2>3, <2>4
  <1>8. ASSUME ResolveFromContent PROVE Typed'
    <2>1. /\ UNCHANGED <<saveVars, fileVars, raced, bounds>>
          /\ lastStat' = Later(lastStat, reading.stat)
          /\ EndResolve(reading.by) /\ TellRevert(reading.by)
          /\ reading.stat > 0 /\ reading.content # None /\ reading # NoRead
      BY <1>4, <1>8 DEF ResolveFromContent, HasRead
    <2>2. lastStat' \in DOMAIN disk
      BY <1>0, <2>1, LaterTyped DEF DiskIsTyped, ReadIsTyped
    <2>3. TextIsTyped' /\ versionId <= versionId' /\ FlagsAreTyped'
      <3>1. CASE SetDirty(FALSE, history[position].id) /\ UNCHANGED textVars
        <4>1. TextIsTyped' /\ versionId' = versionId /\ versionId \in Nat
          BY <1>0, <3>1 DEF TextIsTyped, textVars
        <4>2. history[position].id \in 0 .. versionId' /\ versionId <= versionId' /\ FALSE \in BOOLEAN
          BY <1>0, <4>1, EntryIds DEF TextIsTyped
        <4> QED BY <1>0, <3>1, <4>1, <4>2, SetDirtyTyped
      <3>2. CASE /\ versionId' = versionId + 1 /\ history' = Edited(reading.content)
                 /\ position' = position + 1 /\ SetDirty(FALSE, versionId + 1) /\ UNCHANGED undone
        <4>1. reading.content \in Texts
          BY <1>0, <2>1 DEF ReadIsTyped
        <4>2. versionId \in Nat /\ position \in 1 .. Len(history)
          BY <1>0 DEF TextIsTyped
        <4>3. history' \in Seq(Entry(versionId + 1)) /\ Len(history') = position + 1
          BY <1>0, <3>2, <4>1, EditedFacts DEF TextIsTyped
        <4>4. TextIsTyped' /\ versionId <= versionId'
          BY <1>0, <3>2, <4>2, <4>3 DEF TextIsTyped
        <4>5. versionId + 1 \in 0 .. versionId' /\ FALSE \in BOOLEAN /\ versionId' \in Nat
          BY <3>2, <4>2
        <4>6. FlagsAreTyped'
          BY <1>0, <3>2, <4>2, <4>4, <4>5, SetDirtyTyped
        <4> QED BY <4>4, <4>6
      <3> QED BY <1>8, <3>1, <3>2 DEF ResolveFromContent
    <2>4. versionId' \in Nat /\ disk' = disk /\ autoSave' \in BOOLEAN
      BY <1>0, <2>1, <2>3, TellTyped DEF TextIsTyped, fileVars
    <2>5. ReloadsAreTyped' /\ ReadIsTyped' /\ RevertIsTyped'
      BY <1>3, <2>1, <2>3, <2>4, EndResolveTyped
    <2>6. TimersAreTyped'
      BY <1>0, <2>1, <2>4 DEF TimersAreTyped, bounds
    <2> QED BY <2>1, <2>2, <2>3, <2>5, <2>6, ReadStepTyped
  <1>9. ASSUME ReadFails PROVE Typed'
    <2>1. /\ UNCHANGED <<textVars, lastStat, saveVars, autoSave, fileVars, raced>>
          /\ EndResolve(reading.by) /\ reading # NoRead
          /\ failures' = failures + 1 /\ steps' = steps
      BY <1>9 DEF ReadFails, CountFailure
    <2>2. FlagsAreTyped'
      <3>1. CASE reading.by = "revert"
        BY <1>0, <1>9, <2>1, <3>1 DEF ReadFails, FlagsAreTyped, RevertIsTyped, textVars
      <3>2. CASE reading.by # "revert"
        BY <1>0, <1>9, <2>1, <3>2, FlagsStayTyped DEF ReadFails, textVars
      <3> QED BY <3>1, <3>2
    <2>3. ReloadsAreTyped' /\ ReadIsTyped' /\ RevertIsTyped'
      BY <1>2, <1>3, <2>1
    <2>4. steps' \in 0 .. MaxSteps /\ failures' \in Nat /\ autoSave' \in BOOLEAN
      BY <1>0, <2>1 DEF TimersAreTyped
    <2> QED BY <1>1, <1>10, <2>1, <2>2, <2>3, <2>4
  <1> QED BY <1>5, <1>6, <1>7, <1>8, <1>9, <1>11 DEF ResolveStep

LEMMA OtherTyped ==
    ASSUME Typed, WriteOutside \/ AutoSaveFires \/ FileEvent
    PROVE  Typed'
  <1>0. /\ TextIsTyped /\ FlagsAreTyped /\ TimersAreTyped /\ DiskIsTyped /\ SavesAreTyped
        /\ ReloadsAreTyped /\ ReadIsTyped /\ RevertIsTyped
        /\ SequencerIsTyped(running, queued, saves)
    BY TypedParts
  <1>1. ASSUME WriteOutside PROVE Typed'
    <2>1. /\ UNCHANGED <<textVars, flagVars, lastStat, saveVars, autoSave, readVars, raced>>
          /\ steps < MaxSteps /\ steps' = steps + 1 /\ failures' = failures /\ fileEvent' = TRUE
      BY <1>1 DEF WriteOutside, CountStep
    <2>2. steps' \in 0 .. MaxSteps /\ TimersAreTyped'
      BY <1>0, <2>1, BoundsAssumption DEF TimersAreTyped
    <2>3. PICK content \in Texts : disk' = Append(disk, content)
      <3>1. Content \in Texts
        BY <1>0, EntryIds DEF TextIsTyped, Content
      <3> QED BY <1>1, <2>2, <3>1 DEF WriteOutside, Texts
    <2>4. DiskIsTyped' /\ DiskGrows
      BY <1>0, <2>1, <2>3, AppendedDisk DEF DiskIsTyped, DiskGrows
    <2>5. FlagsAreTyped' /\ SequencerIsTyped(running', queued', saves') /\ Grows
      BY <1>0, <2>1, <2>4, FlagsStayTyped DEF textVars, saveVars, Grows, TextIsTyped
    <2>6. SavesAreTyped'
      BY <1>0, <2>1, <2>5, SavesStayTyped, SameSavesComeFrom DEF saveVars
    <2> QED BY <2>1, <2>2, <2>4, <2>5, <2>6, SaveStepTyped
  <1>2. ASSUME AutoSaveFires PROVE Typed'
    <2>1. /\ UNCHANGED <<textVars, flagVars, lastStat, readVars, fileVars, raced, bounds>>
          /\ autoSave' = FALSE
      BY <1>2 DEF AutoSaveFires
    <2>2. FlagsAreTyped' /\ TimersAreTyped' /\ DiskIsTyped' /\ DiskGrows /\ Grows
      BY <1>0, <2>1, FlagsStayTyped, SameTextGrows DEF textVars, fileVars, bounds, TimersAreTyped,
         DiskIsTyped, DiskGrows
    <2>3. /\ SequencerIsTyped(running', queued', saves')
          /\ \A t \in saves' : ComesFrom(saves, t)
      <3>1. CASE RequestSave("auto")
        BY <3>1, RequestFacts DEF Kinds
      <3>2. CASE UNCHANGED saveVars
        BY <1>0, <3>2, SameSavesComeFrom DEF saveVars
      <3> QED BY <1>2, <3>1, <3>2 DEF AutoSaveFires
    <2>4. SavesAreTyped'
      BY <1>0, <2>2, <2>3, SavesStayTyped
    <2> QED BY <2>1, <2>2, <2>3, <2>4, SaveStepTyped
  <1>3. ASSUME FileEvent PROVE Typed'
    <2>1. /\ UNCHANGED <<textVars, flagVars, lastStat, saveVars, autoSave>>
          /\ UNCHANGED <<reading, reverting, disk, raced, bounds>>
          /\ fileEvent' = FALSE
          /\ reloads' = IF dirty \/ reloads = 2 THEN reloads ELSE reloads + 1
      BY <1>3 DEF FileEvent
    <2>2. TextIsTyped' /\ FlagsAreTyped' /\ TimersAreTyped' /\ DiskIsTyped' /\ Grows
      BY <1>0, <2>1, FlagsStayTyped, SameTextGrows DEF textVars, bounds, TextIsTyped,
         TimersAreTyped, DiskIsTyped
    <2>3. ReloadsAreTyped'
      BY <1>0, <2>1 DEF ReloadsAreTyped
    <2>4. ReadIsTyped' /\ RevertIsTyped' /\ SavesAreTyped'
      BY <1>0, <2>1, <2>2, ReadStaysTyped, RevertStaysTyped, SavesStayTyped, SameSavesComeFrom
         DEF saveVars
    <2>5. SequencerIsTyped(running', queued', saves')
      BY <1>0, <2>1 DEF saveVars
    <2> QED BY <2>2, <2>3, <2>4, <2>5, PartsAreTyped
  <1> QED BY <1>1, <1>2, <1>3

LEMMA StutterTyped ==
    ASSUME Typed, UNCHANGED vars PROVE Typed'
  <1>1. /\ TextIsTyped' /\ FlagsAreTyped' /\ TimersAreTyped' /\ DiskIsTyped' /\ SavesAreTyped'
        /\ ReloadsAreTyped' /\ ReadIsTyped' /\ RevertIsTyped'
        /\ SequencerIsTyped(running', queued', saves')
    BY TypedParts DEF vars, textVars, flagVars, saveVars, readVars, fileVars, bounds, TextIsTyped,
       FlagsAreTyped, TimersAreTyped, DiskIsTyped, SavesAreTyped, ReloadsAreTyped, ReadIsTyped,
       RevertIsTyped, SequencerIsTyped, HasContent
  <1> QED BY <1>1, PartsAreTyped

LEMMA TypedAtFirst ==
    ASSUME Init PROVE Typed
  <1>1. 0 \in Texts
    BY BoundsAssumption DEF Texts
  <1>2. PICK entry : entry = [id |-> 0, content |-> 0]
    OBVIOUS
  <1>3. entry \in [id : 0 .. versionId, content : Texts]
    BY <1>1, <1>2 DEF Init
  <1>4. history = <<entry>> /\ history \in Seq([id : 0 .. versionId, content : Texts])
        /\ position \in DOMAIN history
    BY <1>2, <1>3 DEF Init
  <1>5. disk \in Seq(Texts) /\ lastStat \in DOMAIN disk
    BY <1>1 DEF Init
  <1>6. ReadIsTyped
    BY BoundsAssumption DEF Init, ReadIsTyped, NoRead, None
  <1>7. RevertIsTyped
    BY DEF Init, RevertIsTyped, NoRevert, None
  <1>8. /\ versionId = 0 /\ savedVersionId = 0 /\ reloads = 0 /\ saves = {}
        /\ running = None /\ queued = "none" /\ reading.by = "none" /\ reading.stat = 0
        /\ undone \in BOOLEAN /\ dirty \in BOOLEAN /\ inConflictMode \in BOOLEAN
        /\ inErrorMode \in BOOLEAN /\ autoSave \in BOOLEAN /\ fileEvent \in BOOLEAN
        /\ overtaken \in BOOLEAN /\ raced \in BOOLEAN
    BY DEF Init, NoRead
  <1>9. TypeOK
    BY <1>4, <1>5, <1>8 DEF TypeOK
  <1>10. steps \in 0 .. MaxSteps /\ failures \in Nat
    BY BoundsAssumption DEF Init
  <1> QED BY <1>6, <1>7, <1>8, <1>9, <1>10 DEF Typed, SavesAreTyped

LEMMA EveryStepTyped ==
    ASSUME Typed, [Next]_vars PROVE Typed'
  BY UserTyped, SaveActionTyped, ResolveTyped, OtherTyped, StutterTyped DEF Next

(* What is in the variables is what the code keeps there, and the           *)
(* sequentializer runs exactly the one save that there is: a save that is   *)
(* done, cancelled or failed leaves nothing behind.                         *)
THEOREM TypesAreKept == Spec => []TypeOK
  <1>1. Init => Typed
    BY TypedAtFirst
  <1>2. Typed /\ [Next]_vars => Typed'
    BY EveryStepTyped
  <1>3. Typed => TypeOK
    BY DEF Typed
  <1> QED BY <1>1, <1>2, <1>3, PTL DEF Spec

-----------------------------------------------------------------------------
(* The ids stay apart *)

LEMMA HistorySteps ==
    ASSUME Typed, [Next]_vars
    PROVE  history' = history \/ \E content \in Texts : history' = Edited(content)
  <1>1. CASE UserStep
    <2>1. CASE Type
      <3>1. history' = Edited(steps') /\ steps' = steps + 1 /\ steps < MaxSteps
        BY <2>1 DEF Type, ContentChanged, CountStep
      <3>2. steps' \in Texts
        BY <3>1, BoundsAssumption DEF Typed, Texts
      <3> QED BY <3>1, <3>2
    <2>2. CASE ~Type
      BY <1>1, <2>2 DEF UserStep, UndoOrRedo, ContentChanged, SaveCommand, Revert, textVars
    <2> QED BY <2>1, <2>2
  <1>2. CASE \E s \in saves : SaveStep(s) \/ CheckFails(s) \/ WriteFails(s)
    BY <1>2 DEF SaveStep, DelayEnds, BeginWrite, CheckFile, CheckFails, Write, LookAtFile,
       HandleSaveSuccess, WriteConflicts, WriteFails, HandleSaveError, textVars
  <1>3. CASE WriteOutside \/ AutoSaveFires \/ FileEvent \/ ReadFails
    BY <1>3 DEF WriteOutside, AutoSaveFires, FileEvent, ReadFails, textVars
  <1>4. CASE ResolveStep
    <2>1. CASE ResolveFromContent
      <3>1. reading.content \in Texts
        BY <2>1, TypedParts DEF ReadIsTyped, ResolveFromContent, HasRead
      <3> QED BY <2>1, <3>1 DEF ResolveFromContent, textVars
    <2>2. CASE ~ResolveFromContent
      BY <1>4, <2>2 DEF ResolveStep, BeginResolve, ReadStat, ReadContent, DropRead, textVars
    <2> QED BY <2>1, <2>2
  <1>5. CASE UNCHANGED vars
    BY <1>5 DEF vars, textVars
  <1> QED BY <1>1, <1>2, <1>3, <1>4, <1>5 DEF Next

LEMMA IdsStayUnique ==
    ASSUME Typed, IdsAreUnique, [Next]_vars PROVE IdsAreUnique'
  <1>1. TextIsTyped
    BY TypedParts
  <1>2. CASE history' = history
    BY <1>2 DEF IdsAreUnique
  <1>3. ASSUME NEW content \in Texts, history' = Edited(content) PROVE IdsAreUnique'
    BY <1>1, <1>3, EditedIsUnique DEF TextIsTyped
  <1> QED BY <1>2, <1>3, HistorySteps

-----------------------------------------------------------------------------
(* While nothing has raced, the flags tell the truth *)

(* Flags that stay, or become dirty, while the file grows. *)
LEMMA FlagsStayTrue ==
    ASSUME DiskIsTyped, FlagsAreTrue, DiskGrows, history' = history, position' = position,
           savedVersionId' = savedVersionId, overtaken' = overtaken, lastStat' = lastStat,
           reverting' = reverting, dirty' = dirty \/ dirty'
    PROVE  FlagsAreTrue'
  <1>1. \A content : FoundFrom(disk, lastStat, content) => FoundFrom(disk', lastStat, content)
    BY FoundStays
  <1>2. AtSaved(dirty, savedVersionId, overtaken)'
    BY DEF FlagsAreTrue, AtSaved
  <1>3. ~reverting'.active => Agrees(savedVersionId, overtaken)'
    BY <1>1 DEF FlagsAreTrue, Agrees
  <1> QED BY <1>2, <1>3 DEF FlagsAreTrue

LEMMA NobodyReverts ==
    ASSUME RevertIsAlone, saves # {} \/ dirty \/ reading = NoRead
    PROVE  ~reverting.active
  BY DEF RevertIsAlone, NoRead

LEMMA NobodyReads ==
    ASSUME ReadIsAlone, saves # {} \/ dirty \/ reading = NoRead
    PROVE  reading.by = "none" \/ reading.version # versionId
  BY DEF ReadIsAlone, NoRead

LEMMA AloneWithoutReads ==
    ASSUME ~reverting'.active, reading'.by = "none" \/ reading'.version # versionId'
    PROVE  RevertIsAlone' /\ ReadIsAlone'
  BY DEF RevertIsAlone, ReadIsAlone

(* The text becomes what the file has: the flags may say so. *)
LEMMA CleanIsTrue ==
    ASSUME IdsAreUnique', SetDirty(FALSE, history'[position'].id), position' \in DOMAIN history',
           FoundFrom(disk', lastStat', history'[position'].content)
    PROVE  FlagsAreTrue'
  <1>1. ~dirty' /\ savedVersionId' = history'[position'].id /\ ~overtaken'
    BY DEF SetDirty
  <1>2. AtSaved(dirty, savedVersionId, overtaken)'
    BY <1>1 DEF AtSaved
  <1>3. Agrees(savedVersionId, overtaken)'
    BY <1>1 DEF Agrees, IdsAreUnique
  <1> QED BY <1>2, <1>3 DEF FlagsAreTrue

(* Saves that go on as they are, and no text that changes. *)
LEMMA SavesStayTrue ==
    ASSUME DiskIsTyped, DiskGrows, SavesAreTyped, SavesAreTrue, \A t \in saves' : ComesFrom(saves, t),
           UNCHANGED <<versionId, history, position, dirty, lastStat>>
    PROVE  SavesAreTrue'
  <1> SUFFICES ASSUME NEW t \in saves' PROVE SaveIsTrue(t)'
    BY DEF SavesAreTrue
  <1>1. CASE ~HasContent(t)
    BY <1>1 DEF SaveIsTrue, HasContent
  <1>2. CASE HasContent(t)
    <2>1. PICK s \in saves : SameSave(s, t)
      BY <1>2 DEF ComesFrom
    <2>2. HasContent(s) /\ SaveIsTrue(s) /\ s.stat \in DOMAIN disk
      BY <1>2, <2>1 DEF HasContent, SameSave, SavesAreTrue, SavesAreTyped
    <2>3. Content' = Content /\ disk'[s.stat] = disk[s.stat]
      BY <2>2 DEF Content, DiskGrows
    <2> QED BY <2>1, <2>2, <2>3 DEF SaveIsTrue, SameSave, HasContent
  <1> QED BY <1>1, <1>2

LEMMA NothingWrites ==
    ASSUME \A t \in saves' : ~HasContent(t) PROVE SavesAreTrue'
  BY DEF SavesAreTrue, SaveIsTrue, HasContent

(* The user types, undoes, saves and reverts. *)
LEMMA UserTruth ==
    ASSUME Typed, IdsAreUnique, Truth, IdsAreUnique', Typed', UserStep, ~raced'
    PROVE  Truth'
  <1>0. /\ TextIsTyped /\ FlagsAreTyped /\ DiskIsTyped /\ ReloadsAreTyped /\ ReadIsTyped
        /\ SavesAreTyped /\ SequencerIsTyped(running, queued, saves)
    BY TypedParts
  <1>1. FlagsAreTrue /\ RevertIsAlone /\ ReadIsAlone /\ SavesAreTrue
    BY DEF Truth
  (* A change of the content drops what is being read, and makes dirty what *)
  (* is being written.                                                      *)
  <1>2. ASSUME NEW newHistory, NEW newPosition, ContentChanged(newHistory, newPosition),
               UNCHANGED <<saveVars, readVars>>, ~reverting.active
        PROVE  RevertIsAlone' /\ ReadIsAlone'
    <2>1. versionId' = versionId + 1 /\ reading' = reading /\ reverting' = reverting
      BY <1>2 DEF ContentChanged, readVars
    <2>2. reading'.version # versionId' /\ ~reverting'.active
      BY <1>0, <1>2, <2>1 DEF ReadIsTyped, TextIsTyped
    <2> QED BY <2>2, AloneWithoutReads
  <1>3. ASSUME Type PROVE Truth'
    <2>1. /\ ContentChanged(Edited(steps'), position + 1) /\ ~reverting.active
          /\ UNCHANGED <<lastStat, saveVars, readVars, fileVars>>
      BY <1>3 DEF Type, Race
    <2>2. steps' \in Texts /\ versionId \in Nat
      BY <1>0, TypedParts DEF Typed, Texts, TextIsTyped
    <2>3. /\ Len(history') = position + 1 /\ history' \in Seq(Entry(versionId + 1))
          /\ \A i \in 1 .. position : history'[i] = history[i]
          /\ history'[position + 1] = [id |-> versionId + 1, content |-> steps']
          /\ position' = position + 1 /\ versionId' = versionId + 1
      BY <1>0, <2>1, <2>2, EditedFacts DEF ContentChanged, TextIsTyped
    <2>4. /\ history'[position + 1].id = versionId + 1
          /\ DOMAIN history' = 1 .. position + 1 /\ position \in 1 .. Len(history)
      BY <1>0, <2>3 DEF TextIsTyped
    <2>5. versionId + 1 # savedVersionId
      BY <1>0, <2>2 DEF FlagsAreTyped
    <2>6. dirty' /\ UNCHANGED <<savedVersionId, overtaken>>
      <3>1. Edited(steps')[position + 1].id = versionId + 1
        BY <2>1, <2>4 DEF ContentChanged
      <3> QED BY <2>1, <2>5, <3>1 DEF ContentChanged, SetDirty
    <2>7. disk' = disk /\ lastStat' = lastStat /\ reverting' = reverting /\ saves' = saves
      BY <2>1 DEF fileVars, readVars, saveVars
    <2>8. Agrees(savedVersionId, overtaken)'
      <3>1. Agrees(savedVersionId, overtaken)
        BY <1>1, <2>1 DEF FlagsAreTrue
      <3> QED BY <2>3, <2>4, <2>5, <2>6, <2>7, <3>1 DEF Agrees
    <2>9. FlagsAreTrue'
      BY <2>6, <2>8 DEF FlagsAreTrue, AtSaved
    <2>10. SavesAreTrue'
      <3> SUFFICES ASSUME NEW s \in saves PROVE SaveIsTrue(s)'
        BY <2>7 DEF SavesAreTrue
      <3>1. SaveIsTrue(s) /\ s.version # versionId'
        BY <1>0, <1>1, <2>2, <2>3 DEF SavesAreTrue, SavesAreTyped
      <3> QED BY <2>6, <2>7, <3>1 DEF SaveIsTrue, HasContent
    <2> QED BY <1>2, <2>1, <2>9, <2>10 DEF Truth
  <1>4. ASSUME NEW newPosition, UndoOrRedo(newPosition) PROVE Truth'
    <2>1. /\ ContentChanged(history, newPosition) /\ newPosition \in DOMAIN history
          /\ ~reverting.active /\ ~IsWriting /\ ~overtaken
          /\ UNCHANGED <<lastStat, saveVars, readVars, fileVars>>
      BY <1>4 DEF UndoOrRedo, Race
    <2>2. /\ history' = history /\ position' = newPosition
          /\ disk' = disk /\ lastStat' = lastStat /\ saves' = saves
          /\ SetDirty(history[newPosition].id # savedVersionId, history[newPosition].id)
      BY <2>1 DEF ContentChanged, fileVars, saveVars
    <2>3. Agrees(savedVersionId, FALSE)
      BY <1>1, <2>1 DEF FlagsAreTrue, Agrees
    <2>4. FlagsAreTrue'
      <3>1. CASE history[newPosition].id # savedVersionId
        <4>1. dirty' /\ savedVersionId' = savedVersionId
          BY <2>2, <3>1 DEF SetDirty
        <4> QED BY <2>2, <2>3, <4>1 DEF FlagsAreTrue, AtSaved, Agrees
      <3>2. CASE history[newPosition].id = savedVersionId
        <4>1. savedVersionId' = savedVersionId /\ ~overtaken'
          BY <2>2, <3>2 DEF SetDirty
        <4> QED BY <2>2, <2>3, <3>2, <4>1 DEF FlagsAreTrue, AtSaved, Agrees
      <3> QED BY <3>1, <3>2
    <2>5. SavesAreTrue'
      BY <2>1, <2>2, NothingWrites DEF IsWriting, HasContent
    <2> QED BY <1>2, <2>1, <2>4, <2>5 DEF Truth
  <1>5. ASSUME NEW kind \in Kinds, SaveCommand(kind) PROVE Truth'
    <2>1. /\ UNCHANGED <<textVars, flagVars, lastStat, readVars, fileVars>> /\ RequestSave(kind)
          /\ dirty \/ (reading = NoRead /\ ~reverting.active)
      BY <1>5 DEF SaveCommand, Race
    <2>2. /\ ~reverting'.active
          /\ reading'.by = "none" \/ reading'.version # versionId'
      BY <1>1, <2>1, NobodyReverts, NobodyReads DEF readVars, textVars
    <2>3. DiskGrows
      BY <2>1 DEF DiskGrows, fileVars
    <2>4. FlagsAreTrue'
      BY <1>0, <1>1, <2>1, <2>3, FlagsStayTrue DEF textVars, flagVars, readVars
    <2>5. SavesAreTrue'
      BY <1>0, <1>1, <2>1, <2>3, RequestFacts, SavesStayTrue DEF textVars, flagVars
    <2> QED BY <2>2, <2>4, <2>5, AloneWithoutReads DEF Truth
  <1>6. ASSUME Revert PROVE Truth'
    <2>1. /\ UNCHANGED <<textVars, lastStat, saveVars, fileVars>> /\ ~reverting.active
          /\ SetDirty(FALSE, history[position].id) /\ saves = {} /\ reading = NoRead
      BY <1>6 DEF Revert, Race
    <2>2. running = None
      BY <1>0, <2>1 DEF SequencerIsTyped
    <2>3. /\ reverting' = [active |-> TRUE, dirty |-> dirty, savedVersionId |-> savedVersionId,
                inConflictMode |-> inConflictMode, inErrorMode |-> inErrorMode,
                overtaken |-> overtaken, content |-> Content]
          /\ reading' = [by |-> "revert", version |-> versionId, stat |-> 0, content |-> None]
      BY <1>6, <2>1, <2>2 DEF Revert, Reading
    <2>4. /\ ~dirty' /\ savedVersionId' = history[position].id /\ ~overtaken' /\ saves' = {}
          /\ history' = history /\ position' = position /\ versionId' = versionId
          /\ disk' = disk /\ lastStat' = lastStat /\ Content' = Content
      BY <2>1 DEF SetDirty, textVars, saveVars, fileVars, Content
    <2>5. /\ reverting'.active /\ reverting'.dirty = dirty
          /\ reverting'.savedVersionId = savedVersionId /\ reverting'.overtaken = overtaken
          /\ reverting'.content = Content
          /\ reading'.by = "revert" /\ reading'.version = versionId /\ reading'.stat = 0
      BY <2>3
    <2>6. FlagsAreTrue'
      BY <2>4, <2>5 DEF FlagsAreTrue, AtSaved
    <2>7. /\ AtSaved(reverting.dirty, reverting.savedVersionId, reverting.overtaken)'
          /\ Agrees(reverting.savedVersionId, reverting.overtaken)'
      <3>1. AtSaved(dirty, savedVersionId, overtaken) /\ Agrees(savedVersionId, overtaken)
        BY <1>1, <2>1 DEF FlagsAreTrue
      <3> QED BY <2>4, <2>5, <3>1 DEF AtSaved, Agrees
    <2>8. RevertIsAlone' /\ ReadIsAlone' /\ SavesAreTrue'
      BY <2>4, <2>5, <2>7 DEF RevertIsAlone, ReadIsAlone, SavesAreTrue
    <2> QED BY <2>6, <2>8 DEF Truth
  <1> QED BY <1>3, <1>4, <1>5, <1>6 DEF UserStep

(* The saves: as long as there is one, nobody reverts or reads. *)
LEMMA SaveTruth ==
    ASSUME Typed, IdsAreUnique, Truth, IdsAreUnique', Typed', NEW s \in saves,
           SaveStep(s) \/ CheckFails(s) \/ WriteFails(s), ~raced'
    PROVE  Truth'
  <1>0. /\ TextIsTyped /\ FlagsAreTyped /\ DiskIsTyped /\ SavesAreTyped
        /\ SequencerIsTyped(running, queued, saves)
    BY TypedParts
  <1>1. FlagsAreTrue /\ RevertIsAlone /\ ReadIsAlone /\ SavesAreTrue /\ SaveIsTrue(s)
    BY DEF Truth, SavesAreTrue
  <1>2. ~reverting.active /\ (reading.by = "none" \/ reading.version # versionId)
    BY <1>1, NobodyReverts, NobodyReads
  <1>3. ASSUME UNCHANGED <<textVars, readVars>>, FlagsAreTrue', SavesAreTrue' PROVE Truth'
    <2>1. ~reverting'.active /\ (reading'.by = "none" \/ reading'.version # versionId')
      BY <1>2, <1>3 DEF readVars, textVars
    <2> QED BY <1>3, <2>1, AloneWithoutReads DEF Truth
  <1>4. CASE DelayEnds(s)
    <2>1. UNCHANGED <<textVars, flagVars, lastStat, readVars, fileVars>> /\ s.phase = "delay"
      BY <1>4 DEF DelayEnds
    <2>2. FlagsAreTrue'
      BY <1>0, <1>1, <2>1, FlagsStayTrue DEF textVars, flagVars, readVars, fileVars, DiskGrows
    <2>3. SavesAreTrue'
      <3>1. CASE s.cancelled
        <4>1. Done(s, dirty) /\ dirty \in BOOLEAN
          BY <1>0, <1>4, <3>1 DEF DelayEnds, FlagsAreTyped
        <4> QED BY <4>1, DoneFacts, NothingWrites
      <3>2. CASE ~s.cancelled
        <4>1. PICK next : next = [s EXCEPT !.phase = "participants"]
          OBVIOUS
        <4>2. ~HasContent(next)
          BY <4>1, SaveFacts DEF Save, Phases, HasContent
        <4>3. saves' = {next}
          BY <1>4, <3>2, <4>1, SaveFacts DEF DelayEnds, Continue
        <4> QED BY <4>2, <4>3, NothingWrites
      <3> QED BY <3>1, <3>2
    <2> QED BY <1>3, <2>1, <2>2, <2>3
  <1>5. CASE BeginWrite(s)
    <2>1. /\ UNCHANGED <<textVars, readVars>> /\ UNCHANGED fileVars
          /\ UNCHANGED <<dirty, savedVersionId, overtaken, lastStat>>
      BY <1>5 DEF BeginWrite
    <2>2. FlagsAreTrue'
      BY <1>0, <1>1, <2>1, FlagsStayTrue DEF textVars, readVars, fileVars, DiskGrows
    <2>3. PICK next : next = [s EXCEPT !.phase = "check", !.version = versionId,
                                      !.content = Content, !.stat = lastStat]
      OBVIOUS
    <2>4. next.phase = "check" /\ next.version = versionId /\ next.content = Content
      BY <2>3, SaveFacts DEF Save
    <2>5. saves' = {next} /\ Content' = Content /\ versionId' = versionId
      BY <1>5, <2>1, <2>3, SaveFacts DEF BeginWrite, Continue, textVars, Content
    <2>6. SavesAreTrue'
      BY <2>4, <2>5 DEF SavesAreTrue, SaveIsTrue, HasContent
    <2> QED BY <1>3, <2>1, <2>2, <2>6
  <1>6. CASE Write(s)
    <2>1. /\ UNCHANGED <<textVars, flagVars, lastStat, readVars>> /\ s.phase = "write"
          /\ disk' = Append(disk, s.content)
      BY <1>6 DEF Write, PutOnDisk
    <2>2. s.content \in Texts
      BY <2>1, SaveFacts DEF HasContent
    <2>3. DiskGrows
      BY <1>0, <2>1, <2>2, AppendedDisk
    <2>4. FlagsAreTrue'
      BY <1>0, <1>1, <2>1, <2>3, FlagsStayTrue DEF textVars, flagVars, readVars
    <2>5. PICK next : next = [s EXCEPT !.phase = "look"]
      OBVIOUS
    <2>6. next.phase = "look" /\ next.version = s.version /\ next.content = s.content
      BY <2>5, SaveFacts DEF Save
    <2>7. /\ saves' = {next} /\ Content' = Content /\ versionId' = versionId
          /\ dirty' = dirty
      BY <1>6, <2>1, <2>5, SaveFacts DEF Write, Continue, textVars, flagVars, Content
    <2>8. SavesAreTrue'
      BY <1>1, <2>1, <2>6, <2>7 DEF SavesAreTrue, SaveIsTrue, HasContent
    <2> QED BY <1>3, <2>1, <2>4, <2>8
  (* It checks the file before, or cannot, and looks at it afterwards: what *)
  (* it finds is its own, or another program has raced.                     *)
  <1>11. ASSUME NEW next, saves' = {next}, HasContent(s), HasContent(next),
                next.version = s.version, next.content = s.content,
                next.phase = "written" => disk[next.stat] = s.content /\ lastStat <= next.stat,
                UNCHANGED <<textVars, flagVars, lastStat, readVars, fileVars>>
         PROVE  Truth'
    <2>1. FlagsAreTrue'
      BY <1>0, <1>1, <1>11, FlagsStayTrue DEF textVars, flagVars, readVars, fileVars, DiskGrows
    <2>2. /\ Content' = Content /\ versionId' = versionId /\ dirty' = dirty /\ disk' = disk
          /\ lastStat' = lastStat
      BY <1>11 DEF textVars, flagVars, fileVars, Content
    <2>3. SavesAreTrue'
      BY <1>1, <1>11, <2>2 DEF SavesAreTrue, SaveIsTrue, HasContent
    <2>4. UNCHANGED <<textVars, readVars>>
      BY <1>11
    <2> QED BY <1>3, <2>1, <2>3, <2>4
  <1>12. CASE CheckFile(s) \/ CheckFails(s)
    <2>1. /\ s.phase = "check" /\ Continue(s, [s EXCEPT !.phase = "write"])
          /\ UNCHANGED <<textVars, flagVars, lastStat, readVars, fileVars>>
      BY <1>12 DEF CheckFile, CheckFails
    <2>2. PICK next : next = [s EXCEPT !.phase = "write"]
      OBVIOUS
    <2>3. next.phase = "write" /\ next.version = s.version /\ next.content = s.content
      BY <2>2, SaveFacts DEF Save
    <2>4. saves' = {next}
      BY <2>1, <2>2, SaveFacts DEF Continue
    <2> QED BY <1>11, <2>1, <2>3, <2>4 DEF HasContent
  <1>13. CASE LookAtFile(s)
    <2>1. /\ s.phase = "look" /\ Continue(s, [s EXCEPT !.phase = "written", !.stat = Present])
          /\ UNCHANGED <<textVars, flagVars, lastStat, readVars, fileVars>>
          /\ disk[Present] = s.content
      BY <1>13 DEF LookAtFile, Race
    <2>2. PICK next : next = [s EXCEPT !.phase = "written", !.stat = Present]
      OBVIOUS
    <2>3. /\ next.phase = "written" /\ next.version = s.version /\ next.content = s.content
          /\ next.stat = Present
      BY <2>2, SaveFacts DEF Save
    <2>4. saves' = {next}
      BY <2>1, <2>2, SaveFacts DEF Continue
    <2>5. lastStat <= Present
      BY <1>0 DEF DiskIsTyped, Present
    <2> QED BY <1>11, <2>1, <2>3, <2>4, <2>5 DEF HasContent
  <1>7. CASE HandleSaveSuccess(s)
    <2>1. /\ UNCHANGED <<textVars, readVars>> /\ UNCHANGED fileVars /\ Done(s, dirty')
          /\ s.phase = "written" /\ lastStat' = Later(lastStat, s.stat)
      BY <1>7 DEF HandleSaveSuccess
    <2>2. s.stat \in Nat /\ lastStat \in Nat
      BY <1>0, <2>1, SaveFacts DEF DiskIsTyped, HasContent
    <2>3. FoundFrom(disk', lastStat', s.content)
      <3>1. lastStat' = s.stat /\ disk' = disk /\ disk[s.stat] = s.content
        BY <1>1, <2>1, <2>2 DEF Later, SaveIsTrue, fileVars
      <3>2. s.stat \in DOMAIN disk
        BY <2>1, SaveFacts DEF HasContent
      <3> QED BY <2>2, <3>1, <3>2 DEF FoundFrom
    <2>4. SavesAreTrue'
      <3>1. dirty' \in BOOLEAN
        BY TypedParts DEF Typed, TypeOK
      <3> QED BY <2>1, <3>1, DoneFacts, NothingWrites
    <2>5. FlagsAreTrue'
      <3>1. CASE s.version = versionId
        <4>1. s.content = Content /\ SetDirty(FALSE, history[position].id)
          BY <1>1, <1>7, <2>1, <3>1 DEF HandleSaveSuccess, SaveIsTrue, HasContent
        <4>2. history' = history /\ position' = position /\ position \in DOMAIN history
          BY <1>0, <2>1 DEF textVars, TextIsTyped
        <4> QED BY <2>3, <4>1, <4>2, CleanIsTrue DEF Content
      <3>2. CASE s.version # versionId
        <4>1. overtaken' /\ dirty'
          BY <1>1, <1>7, <2>1, <3>2 DEF HandleSaveSuccess, SaveIsTrue, HasContent
        <4> QED BY <4>1 DEF FlagsAreTrue, AtSaved, Agrees
      <3> QED BY <3>1, <3>2
    <2> QED BY <1>3, <2>1, <2>4, <2>5
  <1>8. ASSUME NEW isConflict, HandleSaveError(s, isConflict), DiskGrows PROVE Truth'
    <2>1. /\ UNCHANGED <<textVars, readVars>> /\ UNCHANGED <<savedVersionId, overtaken, lastStat>>
          /\ dirty' = TRUE /\ Done(s, TRUE)
      BY <1>8 DEF HandleSaveError
    <2>2. FlagsAreTrue'
      <3>1. \A content : FoundFrom(disk, lastStat, content) => FoundFrom(disk', lastStat, content)
        BY <1>8, FoundStays
      <3> QED BY <1>1, <2>1, <3>1 DEF FlagsAreTrue, AtSaved, Agrees, textVars, readVars
    <2>3. SavesAreTrue'
      BY <2>1, DoneFacts, NothingWrites
    <2> QED BY <1>3, <2>1, <2>2, <2>3
  <1>9. CASE WriteConflicts(s)
    <2>1. HandleSaveError(s, TRUE) /\ disk' = disk
      BY <1>9 DEF WriteConflicts, fileVars
    <2>2. DiskGrows
      BY <2>1 DEF DiskGrows
    <2> QED BY <1>8, <2>1, <2>2
  <1>10. CASE WriteFails(s)
    <2>1. HandleSaveError(s, FALSE) /\ s.content \in Texts
      BY <1>10, SaveFacts DEF WriteFails, HasContent
    <2>2. DiskGrows
      <3>1. CASE UNCHANGED fileVars
        BY <3>1 DEF DiskGrows, fileVars
      <3>2. CASE PutOnDisk(s.content)
        BY <1>0, <2>1, <3>2, AppendedDisk DEF PutOnDisk
      <3> QED BY <1>10, <3>1, <3>2 DEF WriteFails
    <2> QED BY <1>8, <2>1, <2>2
  <1> QED BY <1>4, <1>5, <1>6, <1>7, <1>9, <1>10, <1>12, <1>13 DEF SaveStep

(* The reloads and the revert. *)
LEMMA ResolveTruth ==
    ASSUME Typed, IdsAreUnique, Truth, IdsAreUnique', Typed', ResolveStep \/ ReadFails, ~raced'
    PROVE  Truth'
  <1>0. /\ TextIsTyped /\ FlagsAreTyped /\ DiskIsTyped /\ SavesAreTyped /\ ReloadsAreTyped
        /\ ReadIsTyped /\ SequencerIsTyped(running, queued, saves)
    BY TypedParts
  <1>1. FlagsAreTrue /\ RevertIsAlone /\ ReadIsAlone /\ SavesAreTrue
    BY DEF Truth
  <1>2. UNCHANGED <<saveVars, fileVars>>
    BY DEF ResolveStep, BeginResolve, ReadStat, ReadContent, DropRead, ResolveFromContent, ReadFails
  <1>3. DiskGrows /\ \A t \in saves' : ComesFrom(saves, t)
    BY <1>2, SameSavesComeFrom DEF DiskGrows, fileVars, saveVars
  (* What is read is read for the revert, if there is one. *)
  <1>4. reading.by = "revert" <=> reverting.active
    BY <1>0, <1>1 DEF ReloadsAreTyped, RevertIsAlone
  <1>5. ASSUME UNCHANGED <<textVars, flagVars, lastStat, reverting>> PROVE FlagsAreTrue' /\ SavesAreTrue'
    BY <1>0, <1>1, <1>3, <1>5, FlagsStayTrue, SavesStayTrue DEF textVars, flagVars
  (* A resolve is over, and no revert is under way. *)
  <1>6. ASSUME NEW by, EndResolve(by), by = reading.by \/ ~reverting.active
        PROVE  ~reverting'.active /\ reading'.by = "none" /\ RevertIsAlone' /\ ReadIsAlone'
    <2>1. reading'.by = "none"
      BY <1>6 DEF EndResolve, NoRead
    <2>2. ~reverting'.active
      BY <1>4, <1>6 DEF EndResolve, NoRevert
    <2> QED BY <2>1, <2>2, AloneWithoutReads
  <1>7. ASSUME NEW by \in {"reload", "revert"}, BeginResolve(by) PROVE Truth'
    <2>1. UNCHANGED <<textVars, flagVars, lastStat>> /\ reading = NoRead
      BY <1>7 DEF BeginResolve
    <2>2. ~reverting.active
      BY <1>4, <2>1 DEF NoRead
    <2>3. by = "reload"
      BY <1>7, <2>2 DEF BeginResolve
    <2>4. reverting' = reverting
      BY <1>7, <2>3 DEF BeginResolve, EndResolve
    <2>5. FlagsAreTrue' /\ SavesAreTrue'
      BY <1>5, <2>1, <2>4
    <2>6. RevertIsAlone' /\ ReadIsAlone'
      <3>1. CASE EndResolve(by)
        BY <1>6, <2>2, <3>1
      <3>2. CASE ~dirty /\ running = None /\ reading' = Reading(by)
        <4>1. saves = {}
          BY <3>2, SaveFacts
        <4>2. reading'.by = by /\ reading'.version = versionId /\ reading'.stat = 0
          BY <3>2 DEF Reading
        <4> QED BY <1>2, <2>1, <2>2, <2>4, <3>2, <4>1, <4>2
            DEF RevertIsAlone, ReadIsAlone, saveVars, textVars, flagVars
      <3> QED BY <1>7, <3>1, <3>2 DEF BeginResolve
    <2> QED BY <2>5, <2>6 DEF Truth
  (* What is read is what the file has, or another program has raced.       *)
  <1>12. ASSUME reading'.by = reading.by, reading'.version = reading.version,
                reading'.stat > 0 =>
                    /\ lastStat <= reading'.stat
                    /\ reading'.content # None =>
                          FoundFrom(disk, reading'.stat, reading'.content),
                UNCHANGED <<textVars, flagVars, lastStat, reverting>>
         PROVE  Truth'
    <2>1. /\ disk' = disk /\ saves' = saves /\ dirty' = dirty /\ versionId' = versionId
          /\ history' = history /\ position' = position /\ lastStat' = lastStat
          /\ reverting' = reverting /\ Content' = Content
      BY <1>2, <1>12 DEF textVars, flagVars, saveVars, fileVars, Content
    <2>2. ReadIsAlone'
      BY <1>1, <1>12, <2>1 DEF ReadIsAlone
    <2>3. RevertIsAlone'
      BY <1>1, <1>12, <2>1 DEF RevertIsAlone, AtSaved, Agrees
    <2> QED BY <1>5, <1>12, <2>2, <2>3 DEF Truth
  <1>13. Present \in DOMAIN disk /\ Present \in Nat /\ lastStat <= Present /\ disk[Present] \in Texts
    BY <1>0 DEF DiskIsTyped, Present
  <1>8. ASSUME ReadStat PROVE Truth'
    <2>1. UNCHANGED <<textVars, flagVars, lastStat>> /\ reading # NoRead
      BY <1>8 DEF ReadStat
    <2>2. CASE reading.by = "reload" /\ EndResolve("reload")
      <3>1. reverting' = reverting
        BY <2>2 DEF EndResolve
      <3> QED BY <1>5, <1>6, <2>1, <2>2, <3>1 DEF Truth
    <2>3. CASE /\ reading' = [reading EXCEPT !.stat = Present]
               /\ Race(reading.content \notin {None, disk[Present]})
               /\ UNCHANGED <<reloads, reverting>>
      <3>1. /\ reading'.by = reading.by /\ reading'.version = reading.version
            /\ reading'.stat = Present /\ reading'.content = reading.content
        BY <1>0, <2>3 DEF ReadIsTyped
      <3>2. reading.content \in {None, disk[Present]}
        BY <2>3 DEF Race
      <3>3. FoundFrom(disk, Present, disk[Present])
        BY <1>13 DEF FoundFrom
      <3>4. reading'.content # None => FoundFrom(disk, reading'.stat, reading'.content)
        BY <3>1, <3>2, <3>3
      <3> QED BY <1>12, <1>13, <2>1, <2>3, <3>1, <3>4
    <2> QED BY <1>8, <2>2, <2>3 DEF ReadStat
  <1>14. ASSUME ReadContent PROVE Truth'
    <2>1. /\ UNCHANGED <<textVars, flagVars, lastStat, reverting>>
          /\ reading' = [reading EXCEPT !.content = disk[Present]] /\ reading # NoRead
      BY <1>14 DEF ReadContent
    <2>2. /\ reading'.by = reading.by /\ reading'.version = reading.version
          /\ reading'.stat = reading.stat /\ reading'.content = disk[Present]
      BY <1>0, <2>1 DEF ReadIsTyped
    <2>3. CASE reading.version = versionId
      <3>1. reading.by # "none"
        BY <1>0, <2>1 DEF ReadIsTyped
      <3>2. reading.stat > 0 => lastStat <= reading.stat /\ reading.stat <= Present
        BY <1>0, <1>1, <2>3, <3>1 DEF ReadIsAlone, ReadIsTyped, DiskIsTyped, Present
      <3>3. reading.stat > 0 => FoundFrom(disk, reading.stat, disk[Present])
        BY <1>13, <3>2 DEF FoundFrom
      <3> QED BY <1>12, <2>1, <2>2, <3>2, <3>3
    <2>4. CASE reading.version # versionId
      <3>1. ~reverting.active
        BY <1>1, <2>4 DEF RevertIsAlone
      <3>2. versionId' = versionId
        BY <2>1 DEF textVars
      <3> QED BY <1>5, <2>1, <2>2, <2>4, <3>1, <3>2, AloneWithoutReads DEF Truth
    <2> QED BY <2>3, <2>4
  <1>9. ASSUME DropRead PROVE Truth'
    <2>1. /\ UNCHANGED <<textVars, flagVars, lastStat>> /\ reading.version # versionId
          /\ EndResolve(reading.by)
      BY <1>9 DEF DropRead
    <2>2. reading.by # "revert"
      BY <1>1, <1>4, <2>1 DEF RevertIsAlone
    <2>3. reverting' = reverting
      BY <2>1, <2>2 DEF EndResolve
    <2> QED BY <1>5, <1>6, <2>1, <2>3 DEF Truth
  <1>10. ASSUME ResolveFromContent PROVE Truth'
    <2>1. /\ reading.stat > 0 /\ reading.content # None /\ reading.version = versionId
          /\ lastStat' = Later(lastStat, reading.stat) /\ EndResolve(reading.by)
      BY <1>10 DEF ResolveFromContent, HasRead, IsCurrent
    <2>2. reading.by # "none"
      BY <1>0, <2>1 DEF ReadIsTyped, NoRead
    <2>3. /\ saves = {} /\ lastStat <= reading.stat
          /\ FoundFrom(disk, reading.stat, reading.content)
      BY <1>1, <2>1, <2>2 DEF ReadIsAlone
    <2>4. FoundFrom(disk', lastStat', reading.content)
      <3>1. reading.stat \in Nat /\ lastStat \in Nat
        BY <1>0 DEF ReadIsTyped, DiskIsTyped
      <3> QED BY <1>2, <2>1, <2>3, <3>1 DEF Later, fileVars
    <2>5. SavesAreTrue'
      BY <1>2, <2>3 DEF SavesAreTrue, saveVars
    <2>6. FlagsAreTrue'
      <3>1. CASE reading.content = Content /\ SetDirty(FALSE, history[position].id) /\ UNCHANGED textVars
        <4>1. history' = history /\ position' = position /\ position \in DOMAIN history
          BY <1>0, <3>1 DEF textVars, TextIsTyped
        <4> QED BY <2>4, <3>1, <4>1, CleanIsTrue DEF Content
      <3>2. CASE /\ history' = Edited(reading.content) /\ position' = position + 1
                 /\ SetDirty(FALSE, versionId + 1)
        <4>1. reading.content \in Texts /\ versionId \in Nat /\ position \in 1 .. Len(history)
          BY <1>0, <2>1 DEF ReadIsTyped, TextIsTyped
        <4>2. /\ history' \in Seq(Entry(versionId + 1)) /\ Len(history') = position + 1
              /\ history'[position + 1] = [id |-> versionId + 1, content |-> reading.content]
          BY <1>0, <3>2, <4>1, EditedFacts DEF TextIsTyped
        <4>3. /\ position' \in DOMAIN history' /\ history'[position'].id = versionId + 1
              /\ history'[position'].content = reading.content
          BY <3>2, <4>1, <4>2
        <4> QED BY <2>4, <3>2, <4>3, CleanIsTrue
      <3> QED BY <1>10, <3>1, <3>2 DEF ResolveFromContent
    <2> QED BY <1>6, <2>1, <2>5, <2>6 DEF Truth
  <1>11. ASSUME ReadFails PROVE Truth'
    <2>1. UNCHANGED <<textVars, lastStat>> /\ EndResolve(reading.by)
      BY <1>11 DEF ReadFails
    <2>2. ~reverting'.active /\ RevertIsAlone' /\ ReadIsAlone'
      BY <1>6, <2>1
    <2>3. CASE reading.by = "revert"
      <3>1. /\ AtSaved(reverting.dirty, reverting.savedVersionId, reverting.overtaken)
            /\ Agrees(reverting.savedVersionId, reverting.overtaken) /\ saves = {}
        BY <1>1, <1>4, <2>3 DEF RevertIsAlone
      <3>2. /\ dirty' = reverting.dirty /\ savedVersionId' = reverting.savedVersionId
            /\ overtaken' = reverting.overtaken
        BY <1>11, <2>3 DEF ReadFails
      <3>3. FlagsAreTrue'
        BY <1>2, <2>1, <3>1, <3>2 DEF FlagsAreTrue, AtSaved, Agrees, textVars, fileVars
      <3>4. SavesAreTrue'
        BY <1>2, <3>1 DEF SavesAreTrue, saveVars
      <3> QED BY <2>2, <3>3, <3>4 DEF Truth
    <2>4. CASE reading.by # "revert"
      <3>1. UNCHANGED flagVars /\ reverting' = reverting
        BY <1>11, <2>1, <2>4 DEF ReadFails, EndResolve
      <3> QED BY <1>5, <2>1, <2>2, <3>1 DEF Truth
    <2> QED BY <2>3, <2>4
  <1> QED BY <1>7, <1>8, <1>9, <1>10, <1>11, <1>14 DEF ResolveStep

LEMMA OtherTruth ==
    ASSUME Typed, Truth, Typed', WriteOutside \/ AutoSaveFires \/ FileEvent \/ UNCHANGED vars
    PROVE  Truth'
  <1>0. DiskIsTyped /\ SavesAreTyped /\ ReadIsTyped /\ TextIsTyped
    BY TypedParts
  <1>1. FlagsAreTrue /\ RevertIsAlone /\ ReadIsAlone /\ SavesAreTrue
    BY DEF Truth
  <1>2. UNCHANGED <<textVars, flagVars, lastStat, reading, reverting>>
    BY DEF WriteOutside, AutoSaveFires, FileEvent, vars, readVars
  <1>3. DiskGrows
    <2>1. CASE WriteOutside
      <3>1. Content \in Texts /\ steps' \in Texts
        BY <1>0, EntryIds DEF TextIsTyped, Content, Typed, Texts
      <3>2. PICK content \in Texts : disk' = Append(disk, content)
        BY <2>1, <3>1 DEF WriteOutside
      <3> QED BY <1>0, <3>2, AppendedDisk
    <2>2. CASE ~WriteOutside
      BY <2>2 DEF AutoSaveFires, FileEvent, vars, fileVars, DiskGrows
    <2> QED BY <2>1, <2>2
  <1>4. (\A t \in saves' : ComesFrom(saves, t)) /\ (saves' = saves \/ dirty)
    <2>1. CASE UNCHANGED saveVars
      BY <2>1, SameSavesComeFrom DEF saveVars
    <2>2. CASE dirty /\ RequestSave("auto")
      BY <2>2, RequestFacts DEF Kinds
    <2> QED BY <2>1, <2>2 DEF WriteOutside, AutoSaveFires, FileEvent, vars, saveVars
  <1>5. FlagsAreTrue' /\ SavesAreTrue'
    BY <1>0, <1>1, <1>2, <1>3, <1>4, FlagsStayTrue, SavesStayTrue DEF textVars, flagVars
  <1>6. \A stat, content : FoundFrom(disk, stat, content) => FoundFrom(disk', stat, content)
    BY <1>3, FoundStays
  <1>7. /\ history' = history /\ position' = position /\ versionId' = versionId /\ dirty' = dirty
        /\ lastStat' = lastStat /\ reading' = reading /\ reverting' = reverting
        /\ Content' = Content
    BY <1>2 DEF textVars, flagVars, Content
  <1>8. RevertIsAlone'
    BY <1>1, <1>4, <1>6, <1>7 DEF RevertIsAlone, AtSaved, Agrees
  <1>9. ReadIsAlone'
    BY <1>1, <1>4, <1>6, <1>7 DEF ReadIsAlone
  <1> QED BY <1>5, <1>8, <1>9 DEF Truth

LEMMA RacedStays ==
    ASSUME [Next]_vars, ~raced' PROVE ~raced
  BY DEF Next, vars, UserStep, Type, UndoOrRedo, SaveCommand, Revert, Race, WriteOutside,
     AutoSaveFires, SaveStep, DelayEnds, BeginWrite, CheckFile, CheckFails, Write, LookAtFile,
     HandleSaveSuccess, WriteConflicts, WriteFails, HandleSaveError, FileEvent, ResolveStep,
     BeginResolve, ReadStat, ReadContent, DropRead, ResolveFromContent, ReadFails

LEMMA FileInvStep ==
    ASSUME FileInv, [Next]_vars PROVE FileInv'
  <1>1. Typed' /\ IdsAreUnique'
    BY EveryStepTyped, IdsStayUnique DEF FileInv
  <1>2. ASSUME ~raced' PROVE Truth'
    <2>1. Truth
      BY <1>2, RacedStays DEF FileInv
    <2> QED BY <1>1, <1>2, <2>1, UserTruth, SaveTruth, ResolveTruth, OtherTruth DEF Next, FileInv
  <1> QED BY <1>1, <1>2 DEF FileInv

LEMMA FileInvAtFirst ==
    ASSUME Init PROVE FileInv
  <1>1. DOMAIN history = {1} /\ history[1].id = 0 /\ history[1].content = 0 /\ position = 1
    BY DEF Init
  <1>2. FoundFrom(disk, lastStat, 0)
    BY DEF Init, FoundFrom
  <1>3. ~reverting.active /\ reading.by = "none" /\ saves = {} /\ savedVersionId = 0 /\ ~overtaken
    BY DEF Init, NoRevert, NoRead
  <1>4. Truth
    BY <1>1, <1>2, <1>3 DEF Truth, FlagsAreTrue, AtSaved, Agrees, RevertIsAlone, ReadIsAlone,
       SavesAreTrue
  <1> QED BY <1>1, <1>4, TypedAtFirst DEF FileInv, IdsAreUnique

LEMMA FileInvInvariant == Spec => []FileInv
  <1>1. FileInv /\ [Next]_vars => FileInv'
    BY FileInvStep
  <1> QED BY <1>1, FileInvAtFirst, PTL DEF Spec

(* A text that is not shown as dirty is the version of the file that was    *)
(* looked at last, or a later one that the next look will find, whatever    *)
(* the user typed, undid, saved and reverted while saves and reloads were   *)
(* under way, and whatever other programs wrote between any two steps of a  *)
(* save or a read; but for the races that Race names.                       *)
THEOREM CleanTextIsSaved == Spec => []CleanIsSaved
  <1>1. FileInv => CleanIsSaved
    <2> SUFFICES ASSUME FileInv, ~dirty, ~reverting.active, ~raced
                 PROVE  \E i \in lastStat .. Present : Content = disk[i]
      BY DEF CleanIsSaved
    <2>1. FlagsAreTrue /\ position \in DOMAIN history /\ DiskIsTyped
      BY TypedParts DEF FileInv, Truth, TextIsTyped
    <2>2. FoundFrom(disk, lastStat, Content)
      BY <2>1 DEF FlagsAreTrue, AtSaved, Agrees, Content
    <2>3. DOMAIN disk = 1 .. Present /\ Present \in Nat /\ lastStat \in Nat
      BY <2>1 DEF DiskIsTyped, Present
    <2> QED BY <2>2, <2>3 DEF FoundFrom
  <1> QED BY <1>1, FileInvInvariant, PTL

(* resolveFromContent: what a reload replaces was in the file once, and what *)
(* a revert replaces is the text that the user gave up.                      *)
THEOREM UnsavedTextIsKept == Spec => UnsavedIsKept
  <1>1. ASSUME FileInv, [Next]_vars, reading # NoRead, reading' = NoRead, Content' # Content
        PROVE  \/ reading.by = "revert" /\ reverting.content = Content
               \/ raced
               \/ \E i \in DOMAIN disk : disk[i] = Content
    <2>1. CASE ResolveFromContent
      <3> SUFFICES ASSUME ~raced, ~reverting.active
                   PROVE  \E i \in DOMAIN disk : disk[i] = Content
        <4>1. CASE ~raced /\ reverting.active
          BY <1>1, <4>1 DEF FileInv, Truth, RevertIsAlone
        <4> QED BY <4>1
      <3>1. FlagsAreTrue /\ ReadIsAlone /\ position \in DOMAIN history /\ lastStat \in DOMAIN disk
        BY <1>1, TypedParts DEF FileInv, Truth, TextIsTyped, DiskIsTyped
      <3>2. ~dirty
        <4>1. reading.by # "none" /\ reading.version = versionId
          BY <1>1, <2>1, TypedParts DEF FileInv, ReadIsTyped, ResolveFromContent, IsCurrent
        <4> QED BY <3>1, <4>1 DEF ReadIsAlone
      <3>3. FoundFrom(disk, lastStat, Content)
        BY <3>1, <3>2 DEF FlagsAreTrue, AtSaved, Agrees, Content
      <3> QED BY <3>3 DEF FoundFrom
    <2>2. CASE ~ResolveFromContent
      <3>1. reading' = reading \/ UNCHANGED textVars
        BY <1>1, <2>2 DEF Next, vars, readVars, UserStep, Type, UndoOrRedo, SaveCommand, Revert,
           WriteOutside, AutoSaveFires, SaveStep, DelayEnds, BeginWrite, CheckFile, CheckFails,
           Write, LookAtFile, HandleSaveSuccess, WriteConflicts, WriteFails, HandleSaveError,
           FileEvent, ResolveStep, BeginResolve, ReadStat, ReadContent, DropRead, ReadFails
      <3> QED BY <1>1, <3>1 DEF textVars, Content
    <2> QED BY <2>1, <2>2
  <1>2. FileInv /\ [Next]_vars =>
            [reading # NoRead /\ reading' = NoRead /\ Content' # Content =>
                \/ reading.by = "revert" /\ reverting.content = Content
                \/ raced
                \/ \E i \in DOMAIN disk : disk[i] = Content]_vars
    BY <1>1
  <1> QED BY <1>2, FileInvInvariant, PTL DEF Spec, UnsavedIsKept
=============================================================================
