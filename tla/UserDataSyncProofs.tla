-------------------------- MODULE UserDataSyncProofs ------------------------
(* Theorems about UserDataSync, for all machines and contents. *)
EXTENDS UserDataSync, TLAPS

Labels == {"None", "Begin", "Fetch", "Refetch", "Generate", "CheckLocal", "WriteLocal",
           "WriteRemote", "Save"}
Statuses == {"Idle", "Syncing", "HasConflicts"}
Versions == [content : MaybeContents, machine : Machines]
Results == [content : MaybeContents, localChange : BOOLEAN, remoteChange : BOOLEAN,
            hasConflicts : BOOLEAN]

-----------------------------------------------------------------------------
(* Operations, versions and previews *)

LEMMA OperationsOf ==
    /\ \A m \in Machines :
          /\ Syncer(m) \in Operations /\ Applier(m) \in Operations
          /\ Syncer(m) # Applier(m) /\ Syncer(m)[1] = m /\ Applier(m)[1] = m
    /\ \A o \in Operations : o[1] \in Machines /\ o \in {Syncer(o[1]), Applier(o[1])}
  BY DEF Operations, Syncer, Applier

LEMMA Element ==
    ASSUME NEW S, NEW seq \in Seq(S), NEW i \in 1 .. Len(seq)
    PROVE  seq[i] \in S
  OBVIOUS

LEMMA RefsAreInt == \A ref \in Refs \cup {Never} : ref \in Int
  BY DEF Refs, Never

LEMMA ContentOfType ==
    ASSUME TypeOK, NEW ref \in Refs \cup {Never}
    PROVE  ContentOf(ref) \in MaybeContents
  <1>1. CASE ref <= 0
    BY <1>1 DEF ContentOf, MaybeContents
  <1>2. CASE ~(ref <= 0)
    <2>1. ref \in 1 .. Len(server) /\ server \in Seq(Versions)
      BY <1>2 DEF TypeOK, Refs, Never, Versions
    <2>2. server[ref] \in Versions
      BY <2>1, Element
    <2> QED BY <1>2, <2>2 DEF ContentOf, Versions
  <1> QED BY <1>1, <1>2

LEMMA ResultType ==
    ASSUME NEW content \in MaybeContents, NEW localChange \in BOOLEAN,
           NEW remoteChange \in BOOLEAN, NEW hasConflicts \in BOOLEAN
    PROVE  Result(content, localChange, remoteChange, hasConflicts) \in Results
  BY DEF Result, Results

LEMMA NoPreviewType ==
    /\ NoPreview \in Preview
    /\ NoPreview.remote = 0 /\ NoPreview.last = Never /\ NoPreview.kind = "sync"
    /\ ~NoPreview.force /\ NoPreview.local = NoFile
  BY DEF NoPreview, Preview, Kinds, Never, MaybeContents, Result

LEMMA MergeType ==
    ASSUME NEW local \in MaybeContents, NEW remote \in MaybeContents, NEW base \in MaybeContents
    PROVE  Merge(local, remote, base) \in Results
  <1>1. NoFile \in MaybeContents
    BY DEF MaybeContents
  <1> QED BY <1>1, ResultType DEF Merge

(* The fields of the preview of an operation. *)
LEMMA PreviewTypes ==
    ASSUME TypeOK, NEW o \in Operations
    PROVE  /\ preview[o] \in Preview
           /\ preview[o].kind \in Kinds /\ preview[o].remote \in Refs
           /\ preview[o].last \in Refs \cup {Never} /\ preview[o].local \in MaybeContents
           /\ preview[o].result \in Results /\ preview[o].force \in BOOLEAN
           /\ preview[o].result.content \in MaybeContents
           /\ preview[o].result.localChange \in BOOLEAN
           /\ preview[o].result.remoteChange \in BOOLEAN
           /\ preview[o].result.hasConflicts \in BOOLEAN
  BY DEF TypeOK, Preview, Results

LEMMA BaseRefType ==
    ASSUME TypeOK, NEW o \in Operations, NEW m
    PROVE  BaseRef(m, preview[o]) \in Refs \cup {Never}
  BY PreviewTypes DEF BaseRef

LEMMA SyncPreviewType ==
    ASSUME TypeOK, NEW m \in Machines, NEW o \in Operations
    PROVE  SyncPreview(m, preview[o]) \in Results
  <1>1. /\ file[m] \in MaybeContents /\ ContentOf(preview[o].remote) \in MaybeContents
        /\ ContentOf(BaseRef(m, preview[o])) \in MaybeContents /\ NoFile \in MaybeContents
    BY PreviewTypes, ContentOfType, BaseRefType DEF TypeOK, MaybeContents
  <1> QED BY <1>1, MergeType, ResultType DEF SyncPreview

-----------------------------------------------------------------------------
(* What a step does to the preview of its operation *)

(* Operation o has preview p and goes to label. *)
Becomes(o, p, label) ==
    /\ preview' = [preview EXCEPT ![o] = p]
    /\ pc' = [pc EXCEPT ![o] = label]

LEMMA AcceptPreview ==
    ASSUME TypeOK, NEW m \in Machines, NEW content \in MaybeContents,
           NEW localChange \in BOOLEAN, NEW remoteChange \in BOOLEAN, NEW force \in BOOLEAN,
           Accept(m, content, localChange, remoteChange, force)
    PROVE  \E p \in Preview, label \in {"CheckLocal", "WriteRemote", "Save"} :
              /\ Becomes(Applier(m), p, label)
              /\ p.kind = "apply" /\ p.remote = preview[Syncer(m)].remote
              /\ p.last = preview[Syncer(m)].last /\ p.local = preview[Syncer(m)].local
              /\ label = Applying(p.result)
  <1> DEFINE q == preview[Syncer(m)]
             result == Result(content, localChange, remoteChange, FALSE)
             p == [q EXCEPT !.kind = "apply", !.force = force, !.result = result]
             label == Applying(result)
  <1>1. Becomes(Applier(m), p, label)
    BY DEF Accept, Becomes
  <1>2. label \in {"CheckLocal", "WriteRemote", "Save"}
    BY DEF Applying, AfterLocal
  <1>3. result \in Results /\ q \in Preview /\ "apply" \in Kinds
    BY ResultType, PreviewTypes, OperationsOf DEF Kinds
  <1> HIDE DEF result, q
  <1>4. /\ p \in Preview /\ p.kind = "apply" /\ p.remote = q.remote /\ p.last = q.last
        /\ p.local = q.local /\ p.result = result
    BY <1>3 DEF Preview, Results
  <1> QED BY <1>1, <1>2, <1>4 DEF q

LEMMA BeginPreview ==
    ASSUME TypeOK, NEW m \in Machines, BeginSync(m)
    PROVE  \E p \in Preview, label \in {"Generate", "Fetch"} :
              /\ Becomes(Syncer(m), p, label)
              /\ p.kind = "sync" /\ p.remote = manifest[m] /\ p.last = lastSync[m] /\ ~p.force
              /\ label = "Generate" => manifest[m] \in {0, lastSync[m]}
  <1> DEFINE p == [NoPreview EXCEPT !.last = lastSync[m], !.remote = manifest[m]]
             label == IF manifest[m] \in {0, lastSync[m]} THEN "Generate" ELSE "Fetch"
  <1>1. Becomes(Syncer(m), p, label)
    BY DEF BeginSync, Becomes, Goto
  <1>2. manifest[m] \in Int /\ lastSync[m] \in Int
    BY RefsAreInt DEF TypeOK
  <1>3. /\ p \in Preview /\ p.kind = "sync" /\ p.remote = manifest[m] /\ p.last = lastSync[m]
        /\ ~p.force
    BY <1>2, NoPreviewType DEF Preview
  <1> HIDE DEF p
  <1> QED BY <1>1, <1>3

LEMMA ResyncPreview ==
    ASSUME TypeOK, NEW m \in Machines, Resync(m)
    PROVE  \E p \in Preview :
              /\ Becomes(Syncer(m), p, "Generate")
              /\ p.kind = "resync" /\ p.remote = preview[Syncer(m)].remote
              /\ p.last = preview[Syncer(m)].last /\ ~p.force
  <1> DEFINE q == preview[Syncer(m)]
             p == [NoPreview EXCEPT !.kind = "resync", !.remote = q.remote, !.last = q.last]
  <1>1. Becomes(Syncer(m), p, "Generate")
    BY DEF Resync, Becomes, Goto
  <1>2. q.remote \in Int /\ q.last \in Int /\ "resync" \in Kinds
    BY PreviewTypes, OperationsOf, RefsAreInt DEF Kinds
  <1> HIDE DEF q
  <1>3. p \in Preview /\ p.kind = "resync" /\ p.remote = q.remote /\ p.last = q.last /\ ~p.force
    BY <1>2, NoPreviewType DEF Preview
  <1> HIDE DEF p
  <1> QED BY <1>1, <1>3 DEF q

LEMMA FetchPreview ==
    ASSUME TypeOK, NEW m \in Machines, Fetch(m)
    PROVE  \E p \in Preview :
              /\ Becomes(Syncer(m), p, "Generate")
              /\ p.kind = preview[Syncer(m)].kind /\ p.remote = Len(server)
              /\ p.last = IF pc[Syncer(m)] = "Refetch" THEN lastSync[m]
                          ELSE preview[Syncer(m)].last
              /\ p.force = preview[Syncer(m)].force
  <1> DEFINE q == preview[Syncer(m)]
             last == IF pc[Syncer(m)] = "Refetch" THEN lastSync[m] ELSE q.last
             p == [q EXCEPT !.remote = Len(server), !.last = last]
  <1>1. q \in Preview /\ Len(server) \in Int /\ last \in Int /\ Syncer(m) \in Operations
    <2>1. Len(server) \in Nat
      BY DEF TypeOK
    <2> QED BY <2>1, PreviewTypes, OperationsOf, RefsAreInt DEF TypeOK
  <1>3. Becomes(Syncer(m), p, "Generate")
    BY <1>1 DEF Fetch, TypeOK, Becomes, Goto
  <1>4. /\ p \in Preview /\ p.kind = q.kind /\ p.remote = Len(server) /\ p.last = last
        /\ p.force = q.force
    <2> HIDE DEF last, q
    <2> QED BY <1>1 DEF Preview
  <1> HIDE DEF p
  <1> QED BY <1>3, <1>4

LEMMA GeneratePreview ==
    ASSUME TypeOK, NEW m \in Machines, Generate(m)
    PROVE  \E p \in Preview, label \in Labels :
              /\ Becomes(Syncer(m), p, label)
              /\ p.kind = preview[Syncer(m)].kind /\ p.remote = preview[Syncer(m)].remote
              /\ p.last = preview[Syncer(m)].last /\ p.force = preview[Syncer(m)].force
              /\ p.local = file[m] /\ p.result = SyncPreview(m, preview[Syncer(m)])
              /\ \/ /\ p.result.hasConflicts /\ label = "None"
                    /\ status' = [status EXCEPT ![m] = "HasConflicts"]
                 \/ /\ ~p.result.hasConflicts /\ label = Applying(p.result)
                    /\ label \in {"CheckLocal", "WriteRemote", "Save"} /\ status' = status
  <1> DEFINE q == preview[Syncer(m)]
             result == SyncPreview(m, q)
             p == [q EXCEPT !.local = file[m], !.result = result]
             label == IF result.hasConflicts THEN "None" ELSE Applying(result)
  <1>1. /\ q \in Preview /\ Syncer(m) \in Operations /\ result \in Results
        /\ file[m] \in MaybeContents
    BY PreviewTypes, OperationsOf, SyncPreviewType DEF TypeOK
  <1>2. /\ preview' = [preview EXCEPT ![Syncer(m)] = p]
        /\ pc' = [pc EXCEPT ![Syncer(m)] = label]
        /\ \/ result.hasConflicts /\ status' = [status EXCEPT ![m] = "HasConflicts"]
           \/ ~result.hasConflicts /\ status' = status
    BY <1>1 DEF Generate, TypeOK, Goto
  <1>3. ~result.hasConflicts => label = Applying(result)
    OBVIOUS
  <1>4. label \in Labels /\ Applying(result) \in {"CheckLocal", "WriteRemote", "Save"}
    BY DEF Applying, AfterLocal, Labels
  <1>a. result.hasConflicts => label = "None"
    OBVIOUS
  <1> HIDE DEF label, result, q
  <1>6. /\ p \in Preview /\ p.kind = q.kind /\ p.remote = q.remote /\ p.last = q.last
        /\ p.force = q.force /\ p.local = file[m] /\ p.result = result
    BY <1>1 DEF Preview, Results
  <1> HIDE DEF p
  <1>7. Becomes(Syncer(m), p, label)
    BY <1>2 DEF Becomes
  <1> QED BY <1>2, <1>3, <1>4, <1>a, <1>6, <1>7 DEF result, q

LEMMA PostedPreview ==
    ASSUME TypeOK, NEW o \in Operations, WriteRemote(o), MayPost(preview[o])
    PROVE  \E p \in Preview :
              /\ Becomes(o, p, "Save") /\ p.kind = preview[o].kind
              /\ p.remote = Len(server) + 1
              /\ p.last = preview[o].last /\ p.force = preview[o].force
              /\ Post(o) /\ status' = status
  <1> DEFINE q == preview[o]
             p == [q EXCEPT !.remote = Len(server) + 1]
  <1>1. q \in Preview /\ Len(server) + 1 \in Int
    <2>1. Len(server) \in Nat
      BY DEF TypeOK
    <2> QED BY <2>1, PreviewTypes
  <1>2. preview' = [preview EXCEPT ![o] = p]
        /\ pc' = [pc EXCEPT ![o] = "Save"] /\ Post(o) /\ status' = status
    BY DEF WriteRemote, TypeOK, Goto
  <1> HIDE DEF q
  <1>4. /\ p \in Preview /\ p.kind = q.kind /\ p.remote = Len(server) + 1 /\ p.last = q.last
        /\ p.force = q.force
    BY <1>1 DEF Preview
  <1> HIDE DEF p
  <1> QED BY <1>2, <1>4 DEF Becomes, q

-----------------------------------------------------------------------------
(* Types *)

(* The previews have their types, the server staying or growing. *)
PreviewOK ==
    /\ preview \in [Operations -> Preview]
    /\ \A o \in Operations : preview[o].remote \in Refs /\ preview[o].last \in Refs \cup {Never}

(* What a step may change of an operation and of the status. *)
ProgressOK ==
    PreviewOK /\ status \in [Machines -> Statuses] /\ pc \in [Operations -> Labels]

LEMMA PreviewBecomes ==
    ASSUME TypeOK, NEW o \in Operations, NEW p \in Preview, preview' = [preview EXCEPT ![o] = p],
           Refs \subseteq Refs', p.remote \in Refs', p.last \in Refs' \cup {Never}
    PROVE  PreviewOK'
  BY DEF TypeOK, PreviewOK

LEMMA PreviewForgotten ==
    ASSUME TypeOK, NEW Some, Refs \subseteq Refs',
           preview' = [o \in Operations |-> IF o \in Some THEN NoPreview ELSE preview[o]]
    PROVE  PreviewOK'
  <1>1. 0 \in Refs'
    BY DEF TypeOK, Refs
  <1> QED BY <1>1, NoPreviewType DEF TypeOK, PreviewOK

LEMMA RefsGrow ==
    ASSUME TypeOK, NEW version \in Versions, server' = Append(server, version)
    PROVE  /\ server' \in Seq(Versions) /\ Len(server') = Len(server) + 1
           /\ Refs \subseteq Refs' /\ Len(server) + 1 \in Refs' /\ Len(server) \in Nat
           /\ \A ref \in Refs \cup {Never} : ContentOf(ref)' = ContentOf(ref)
           /\ \A ref \in 1 .. Len(server) : server'[ref] = server[ref]
           /\ server'[Len(server')] = version
  <1>1. server \in Seq(Versions) /\ Len(server) \in Nat
    BY DEF TypeOK, Versions
  <1>2. /\ server' \in Seq(Versions) /\ Len(server') = Len(server) + 1
        /\ \A ref \in 1 .. Len(server) : server'[ref] = server[ref]
        /\ server'[Len(server')] = version
    BY <1>1
  <1> QED BY <1>1, <1>2 DEF Refs, ContentOf, Never

(* A version that is posted is one of the server. *)
LEMMA PostTypes ==
    ASSUME TypeOK, NEW o \in Operations, Post(o)
    PROVE  \E version \in Versions :
              /\ version = [content |-> preview[o].result.content, machine |-> o[1]]
              /\ server' = Append(server, version)
  BY PreviewTypes, OperationsOf DEF Post, Versions

LEMMA ThrowTypes ==
    ASSUME TypeOK, NEW o \in Operations, Throw(o), Refs \subseteq Refs'
    PROVE  ProgressOK'
  <1>1. 0 \in Refs'
    BY DEF TypeOK, Refs
  <1>2. PreviewOK'
    BY <1>1, NoPreviewType, PreviewBecomes DEF Throw
  <1>3. o[1] \in Machines
    BY OperationsOf
  <1> QED BY <1>2, <1>3 DEF Throw, Goto, TypeOK, Labels, Statuses, ProgressOK

LEMMA TryAgainTypes ==
    ASSUME TypeOK, NEW o \in Operations, NEW label \in Labels, TryAgain(o, label),
           Refs \subseteq Refs'
    PROVE  ProgressOK'
  <1>1. CASE Throw(o)
    BY <1>1, ThrowTypes
  <1>2. CASE Goto(o, label) /\ UNCHANGED <<status, preview>>
    BY <1>2 DEF Goto, TypeOK, Labels, Statuses, PreviewOK, ProgressOK
  <1> QED BY <1>1, <1>2 DEF TryAgain

LEMMA FinishTypes ==
    ASSUME TypeOK, NEW o \in Operations, Finish(o)
    PROVE  ProgressOK'
  <1> DEFINE Some == {q \in Operations : q = o \/ (q[1] = o[1] /\ pc[q] \in {"None", "Begin"})}
  <1>1. preview' = [q \in Operations |-> IF q \in Some THEN NoPreview ELSE preview[q]]
    BY DEF Finish
  <1>2. Refs \subseteq Refs'
    BY DEF Finish, Refs
  <1> HIDE DEF Some
  <1>3. PreviewOK'
    BY <1>1, <1>2, PreviewForgotten
  <1>4. o[1] \in Machines
    BY OperationsOf
  <1> QED BY <1>3, <1>4 DEF Finish, Goto, TypeOK, Labels, Statuses, ProgressOK

LEMMA ForgetTypes ==
    ASSUME TypeOK, NEW m \in Machines, Forget(m), Refs \subseteq Refs'
    PROVE  ProgressOK'
  <1> DEFINE Some == {q \in Operations : q[1] = m}
  <1>1. preview' = [q \in Operations |-> IF q \in Some THEN NoPreview ELSE preview[q]]
    BY DEF Forget
  <1> HIDE DEF Some
  <1>3. PreviewOK'
    BY <1>1, PreviewForgotten
  <1> QED BY <1>3 DEF Forget, TypeOK, Labels, Statuses, ProgressOK

LEMMA UserStepTypes ==
    ASSUME TypeOK, NEW m \in Machines, UserStep(m)
    PROVE  TypeOK'
  <1>1. ASSUME NEW content \in MaybeContents, Edit(m, content)
        PROVE  TypeOK'
    BY <1>1 DEF Edit, CountEdit, TypeOK, Refs
  <1>2. ASSUME NEW content \in MaybeContents, NEW localChange \in BOOLEAN,
               NEW remoteChange \in BOOLEAN, NEW force \in BOOLEAN,
               Accept(m, content, localChange, remoteChange, force)
        PROVE  TypeOK'
    <2>1. PICK p \in Preview, label \in {"CheckLocal", "WriteRemote", "Save"} :
              /\ Becomes(Applier(m), p, label)
              /\ p.remote = preview[Syncer(m)].remote /\ p.last = preview[Syncer(m)].last
      BY <1>2, AcceptPreview
    <2>2. /\ UNCHANGED <<server, file, backups, lastSync, manifest, edit>>
          /\ edits' \in Nat /\ failures' \in Nat
      BY <1>2 DEF Accept, CountEdit, CountFailure, TypeOK
    <2>3. Refs' = Refs
      BY <2>2 DEF Refs
    <2>4. Syncer(m) \in Operations /\ Applier(m) \in Operations
      BY OperationsOf
    <2>5. PreviewOK'
      BY <2>1, <2>3, <2>4, PreviewTypes, PreviewBecomes DEF Becomes
    <2>6. touched' \in [Operations -> BOOLEAN] /\ status' \in [Machines -> Statuses]
      BY <1>2, <2>4 DEF Accept, TypeOK, Statuses
    <2>7. pc' \in [Operations -> Labels]
      BY <2>1, <2>4 DEF Becomes, TypeOK, Labels
    <2> QED BY <2>2, <2>3, <2>5, <2>6, <2>7 DEF TypeOK, PreviewOK, Labels, Statuses
  <1>3. ASSUME NEW force \in BOOLEAN, AcceptLocal(m, force) \/ AcceptRemote(m, force)
        PROVE  TypeOK'
    <2>1. /\ preview[Syncer(m)].local \in MaybeContents
          /\ ContentOf(preview[Syncer(m)].remote) \in MaybeContents
      BY PreviewTypes, ContentOfType, OperationsOf
    <2> QED BY <1>2, <1>3, <2>1 DEF AcceptLocal, AcceptRemote
  <1>4. ASSUME NEW content \in MaybeContents, AcceptMerged(m, content)
        PROVE  TypeOK'
    BY <1>2, <1>4 DEF AcceptMerged
  <1>5. CASE AcceptNothing(m)
    BY <1>5 DEF AcceptNothing, environment, TypeOK, Refs
  <1> QED BY <1>1, <1>3, <1>4, <1>5 DEF UserStep

LEMMA ReadStepTypes ==
    ASSUME TypeOK, NEW m \in Machines,
           \/ FetchManifest(m) \/ SkipSync(m) \/ BeginSync(m) \/ Resync(m) \/ Fetch(m)
           \/ Generate(m)
    PROVE  TypeOK'
  <1>0. /\ UNCHANGED <<server, file, backups, lastSync, edit, edits, failures>> /\ Refs' = Refs
        /\ Len(server) \in Refs /\ 0 \in Refs /\ Syncer(m) \in Operations
    BY OperationsOf
    DEF FetchManifest, SkipSync, BeginSync, Resync, Fetch, Generate, environment, Refs, TypeOK
  <1>1. CASE FetchManifest(m)
    BY <1>0, <1>1 DEF FetchManifest, Goto, TypeOK
  <1>2. CASE SkipSync(m)
    BY <1>0, <1>2 DEF SkipSync, Goto, TypeOK
  <1>a. ASSUME NEW p \in Preview, NEW label \in Labels, Becomes(Syncer(m), p, label),
               p.remote \in Refs, p.last \in Refs \cup {Never},
               status' \in [Machines -> Statuses], manifest' \in [Machines -> Refs],
               touched' \in [Operations -> BOOLEAN]
        PROVE  TypeOK'
    <2>1. PreviewOK'
      BY <1>0, <1>a, PreviewBecomes DEF Becomes
    <2>2. pc' \in [Operations -> Labels]
      BY <1>0, <1>a DEF Becomes, TypeOK, Labels
    <2> QED BY <1>0, <1>a, <2>1, <2>2 DEF TypeOK, PreviewOK, Labels, Statuses
  <1>b. /\ preview[Syncer(m)].remote \in Refs /\ preview[Syncer(m)].last \in Refs \cup {Never}
        /\ manifest[m] \in Refs /\ lastSync[m] \in Refs \cup {Never}
    BY <1>0, PreviewTypes DEF TypeOK
  <1>3. CASE BeginSync(m)
    <2>1. PICK p \in Preview, label \in {"Generate", "Fetch"} :
              /\ Becomes(Syncer(m), p, label) /\ p.remote = manifest[m] /\ p.last = lastSync[m]
      BY <1>3, BeginPreview
    <2>2. label \in Labels
      BY DEF Labels
    <2>3. /\ status' \in [Machines -> Statuses] /\ manifest' \in [Machines -> Refs]
          /\ touched' \in [Operations -> BOOLEAN]
      BY <1>0, <1>3 DEF BeginSync, TypeOK, Statuses
    <2> QED BY <1>a, <1>b, <2>1, <2>2, <2>3
  <1>4. CASE Resync(m)
    <2>1. PICK p \in Preview :
              /\ Becomes(Syncer(m), p, "Generate") /\ p.remote = preview[Syncer(m)].remote
              /\ p.last = preview[Syncer(m)].last
      BY <1>4, ResyncPreview
    <2>3. /\ status' \in [Machines -> Statuses] /\ manifest' \in [Machines -> Refs]
          /\ touched' \in [Operations -> BOOLEAN] /\ "Generate" \in Labels
      BY <1>4 DEF Resync, TypeOK, Statuses, Labels
    <2> QED BY <1>a, <1>b, <2>1, <2>3
  <1>5. CASE Fetch(m)
    <2>1. PICK p \in Preview :
              /\ Becomes(Syncer(m), p, "Generate") /\ p.remote = Len(server)
              /\ p.last = IF pc[Syncer(m)] = "Refetch" THEN lastSync[m]
                          ELSE preview[Syncer(m)].last
      BY <1>5, FetchPreview
    <2>3. /\ status' \in [Machines -> Statuses] /\ manifest' \in [Machines -> Refs]
          /\ touched' \in [Operations -> BOOLEAN] /\ "Generate" \in Labels
      BY <1>5 DEF Fetch, TypeOK, Statuses, Labels
    <2> QED BY <1>0, <1>a, <1>b, <2>1, <2>3
  <1>6. CASE Generate(m)
    <2>1. PICK p \in Preview, label \in Labels :
              /\ Becomes(Syncer(m), p, label) /\ p.remote = preview[Syncer(m)].remote
              /\ p.last = preview[Syncer(m)].last
              /\ \/ status' = [status EXCEPT ![m] = "HasConflicts"]
                 \/ status' = status
      BY <1>6, GeneratePreview
    <2>3. /\ status' \in [Machines -> Statuses] /\ manifest' \in [Machines -> Refs]
          /\ touched' \in [Operations -> BOOLEAN]
      BY <1>0, <1>6, <2>1 DEF Generate, TypeOK, Statuses
    <2> QED BY <1>a, <1>b, <2>1, <2>3
  <1> QED BY <1>1, <1>2, <1>3, <1>4, <1>5, <1>6

LEMMA ApplyStepTypes ==
    ASSUME TypeOK, NEW o \in Operations, ApplyStep(o)
    PROVE  TypeOK'
  <1>0. /\ o[1] \in Machines /\ preview[o].local \in Contents \cup {NoFile}
        /\ preview[o].result.content \in MaybeContents /\ NoEdit \in MaybeContents
    BY OperationsOf, PreviewTypes DEF MaybeContents, NoEdit
  <1>1. CASE CheckLocal(o)
    <2>1. UNCHANGED <<server, file, lastSync, manifest, edit, edits, failures>> /\ Refs' = Refs
      BY <1>1 DEF CheckLocal, environment, Refs
    <2>2. backups' \in [Machines -> SUBSET Contents]
      BY <1>0, <1>1 DEF CheckLocal, TypeOK
    <2>3. touched' \in [Operations -> BOOLEAN]
      BY <1>1 DEF CheckLocal, TypeOK
    <2>4. ProgressOK'
      <3>1. CASE TryAgain(o, "Generate")
        BY <2>1, <3>1, TryAgainTypes DEF Labels
      <3>2. CASE Goto(o, "WriteLocal") /\ UNCHANGED <<status, preview>>
        BY <2>1, <3>2 DEF Goto, TypeOK, Labels, Statuses, PreviewOK, ProgressOK
      <3> QED BY <1>1, <3>1, <3>2 DEF CheckLocal
    <2> QED BY <2>1, <2>2, <2>3, <2>4 DEF TypeOK, Labels, Statuses, PreviewOK, ProgressOK
  <1>2. CASE WriteLocal(o)
    <2>1. /\ UNCHANGED <<server, backups, lastSync, status, manifest, preview, edits, failures>>
          /\ Refs' = Refs
      BY <1>2 DEF WriteLocal, environment, Refs
    <2>2. file' \in [Machines -> MaybeContents] /\ edit' \in [Machines -> MaybeContents]
      BY <1>0, <1>2 DEF WriteLocal, TypeOK
    <2>3. touched' \in [Operations -> BOOLEAN]
      BY <1>2 DEF WriteLocal, TypeOK
    <2>4. pc' \in [Operations -> Labels]
      BY <1>2 DEF WriteLocal, AfterLocal, Goto, TypeOK, Labels
    <2> QED BY <2>1, <2>2, <2>3, <2>4 DEF TypeOK, Labels
  <1>3. CASE WriteRemote(o)
    <2>1. UNCHANGED <<file, backups, lastSync, manifest, touched, edit, edits, failures>>
      BY <1>3 DEF WriteRemote, environment
    <2>2. CASE MayPost(preview[o])
      <3>1. PICK p \in Preview :
              /\ Becomes(o, p, "Save") /\ p.remote = Len(server) + 1
              /\ p.last = preview[o].last /\ Post(o) /\ status' = status
        BY <1>3, <2>2, PostedPreview
      <3>2. /\ server' \in Seq(Versions) /\ Refs \subseteq Refs' /\ Len(server) + 1 \in Refs'
        BY <3>1, PostTypes, RefsGrow
      <3>3. PreviewOK'
        BY <3>1, <3>2, PreviewTypes, PreviewBecomes DEF Becomes
      <3>4. pc' \in [Operations -> Labels]
        BY <3>1 DEF Becomes, TypeOK, Labels
      <3> QED BY <2>1, <3>1, <3>2, <3>3, <3>4 DEF TypeOK, PreviewOK, Versions, Labels
    <2>3. CASE ~MayPost(preview[o])
      <3>1. UNCHANGED server /\ TryAgain(o, "Refetch") /\ Refs' = Refs
        BY <1>3, <2>3 DEF WriteRemote, Refs
      <3>2. ProgressOK'
        BY <3>1, TryAgainTypes DEF Labels
      <3> QED BY <2>1, <3>1, <3>2 DEF TypeOK, PreviewOK, ProgressOK, Labels, Statuses
    <2> QED BY <2>2, <2>3
  <1>4. CASE Save(o)
    <2>1. /\ UNCHANGED <<server, file, backups, manifest, touched, edit, edits, failures>>
          /\ Refs' = Refs /\ Finish(o)
      BY <1>4 DEF Save, Finish, environment, Refs
    <2>2. lastSync' \in [Machines -> Refs \cup {Never}]
      BY <1>0, <1>4, PreviewTypes DEF Save, TypeOK
    <2>3. ProgressOK'
      BY <2>1, FinishTypes
    <2> QED BY <2>1, <2>2, <2>3 DEF TypeOK, PreviewOK, ProgressOK, Labels, Statuses
  <1> QED BY <1>1, <1>2, <1>3, <1>4 DEF ApplyStep

LEMMA FailureTypes ==
    ASSUME TypeOK, NEW m \in Machines, FailureStep(m)
    PROVE  TypeOK'
  <1>1. ASSUME NEW o \in Operations, RequestFails(o)
        PROVE  TypeOK'
    <2>1. /\ UNCHANGED <<file, backups, lastSync, manifest, touched, edit, edits>>
          /\ failures' = failures + 1 /\ Throw(o) /\ (server' = server \/ Post(o))
      BY <1>1 DEF RequestFails, CountFailure
    <2>2. server' \in Seq(Versions) /\ Refs \subseteq Refs'
      <3>1. CASE server' = server
        BY <3>1 DEF TypeOK, Versions, Refs
      <3>2. CASE Post(o)
        BY <3>2, PostTypes, RefsGrow
      <3> QED BY <2>1, <3>1, <3>2
    <2>3. ProgressOK'
      BY <2>1, <2>2, ThrowTypes
    <2> QED BY <2>1, <2>2, <2>3 DEF TypeOK, PreviewOK, ProgressOK, Labels, Statuses, Versions
  <1>2. CASE Restart(m) \/ TurnOff(m)
    <2>1. /\ UNCHANGED <<server, file, backups, touched, edit, edits>>
          /\ failures' = failures + 1 /\ Refs' = Refs /\ 0 \in Refs /\ Forget(m)
      BY <1>2 DEF Restart, TurnOff, CountFailure, Refs, TypeOK
    <2>2. ProgressOK'
      BY <2>1, ForgetTypes
    <2>3. /\ lastSync' \in [Machines -> Refs \cup {Never}]
          /\ manifest' \in [Machines -> Refs]
      BY <1>2, <2>1 DEF Restart, TurnOff, Forget, TypeOK
    <2> QED BY <2>1, <2>2, <2>3 DEF TypeOK, PreviewOK, ProgressOK, Labels, Statuses
  <1> QED BY <1>1, <1>2, OperationsOf DEF FailureStep

LEMMA InitTypes == Init => TypeOK
  <1> SUFFICES ASSUME Init PROVE TypeOK
    OBVIOUS
  <1>1. server = <<>> /\ Refs = {0}
    BY DEF Init, Refs
  <1> QED BY <1>1, NoPreviewType DEF Init, TypeOK

LEMMA StepTypes ==
    ASSUME TypeOK, [Next]_vars
    PROVE  TypeOK'
  <1>1. CASE Next
    BY <1>1, UserStepTypes, ReadStepTypes, ApplyStepTypes, FailureTypes, OperationsOf
    DEF Next, SyncStep
  <1>2. CASE UNCHANGED vars
    BY <1>2 DEF vars, TypeOK, Refs
  <1> QED BY <1>1, <1>2

(* Every variable keeps its type, whatever the machines, the contents and   *)
(* the numbers of edits and failures (userDataSync/common).                 *)
THEOREM TypesAreKept == Spec => []TypeOK
  BY InitTypes, StepTypes, PTL DEF Spec

-----------------------------------------------------------------------------
(* What an operation knows of the server and of the file *)

(* Only what the user accepted is forced.  A merge that changes the server  *)
(* without a conflict has found there what was synchronised.                *)
MergeKnew(o) ==
    /\ preview[o].force => preview[o].kind = "apply"
    /\ /\ \/ pc[o] \in {"CheckLocal", "WriteLocal"} /\ preview[o].result.remoteChange
          \/ pc[o] = "WriteRemote"
       /\ preview[o].kind # "apply" /\ preview[o].remote > 0
       => ContentOf(preview[o].remote) = ContentOf(BaseRef(o[1], preview[o]))

(* What will be backed up is in the file, unless that was changed since. *)
ReadIsCurrent(o) ==
    pc[o] = "CheckLocal" /\ ~touched[o] => preview[o].local = file[o[1]]

(* What will be replaced was backed up, or is the new content, unless the   *)
(* file was changed since.                                                  *)
CheckIsCurrent(o) ==
    /\ pc[o] = "WriteLocal" /\ ~touched[o] =>
          file[o[1]] \in {NoFile, preview[o].local, preview[o].result.content}
    /\ pc[o] = "WriteLocal" => preview[o].local \in backups[o[1]] \cup {NoFile}

Knows(o) == MergeKnew(o) /\ ReadIsCurrent(o) /\ CheckIsCurrent(o)

EditIsKept(m) == edit[m] \in {NoEdit, file[m]} \/ edit[m] \in backups[m]

OpsInv == (\A o \in Operations : Knows(o)) /\ (\A m \in Machines : EditIsKept(m))

(* The server keeps its versions, and takes one more at most. *)
ServerGrows ==
    server' = server \/ \E version \in Versions : server' = Append(server, version)

LEMMA GrownServer ==
    ASSUME TypeOK, ServerGrows
    PROVE  /\ Refs \subseteq Refs' /\ Len(server) \in Nat
           /\ \A ref \in Refs \cup {Never} : ContentOf(ref)' = ContentOf(ref)
           /\ \A ref \in 1 .. Len(server) : ref \in 1 .. Len(server') /\ server'[ref] = server[ref]
  <1>1. CASE server' = server
    BY <1>1 DEF ContentOf, Refs, TypeOK
  <1>2. ASSUME NEW version \in Versions, server' = Append(server, version)
        PROVE  /\ Refs \subseteq Refs' /\ Len(server) \in Nat
               /\ \A ref \in Refs \cup {Never} : ContentOf(ref)' = ContentOf(ref)
               /\ \A ref \in 1 .. Len(server) :
                     ref \in 1 .. Len(server') /\ server'[ref] = server[ref]
    <2>1. /\ Len(server') = Len(server) + 1
          /\ Refs \subseteq Refs' /\ Len(server) \in Nat
          /\ \A ref \in Refs \cup {Never} : ContentOf(ref)' = ContentOf(ref)
          /\ \A ref \in 1 .. Len(server) : server'[ref] = server[ref]
      BY <1>2, RefsGrow
    <2>2. \A ref \in 1 .. Len(server) : ref \in 1 .. Len(server')
      BY <2>1
    <2> QED BY <2>1, <2>2
  <1> QED BY <1>1, <1>2 DEF ServerGrows

LEMMA BaseStays ==
    ASSUME TypeOK, ServerGrows, NEW o \in Operations, preview'[o] = preview[o]
    PROVE  /\ ContentOf(preview[o].remote)' = ContentOf(preview[o].remote)
           /\ preview[o].remote > 0 =>
                ContentOf(BaseRef(o[1], preview[o]))' = ContentOf(BaseRef(o[1], preview[o]))
  <1>1. /\ preview[o].remote \in Refs /\ BaseRef(o[1], preview[o]) \in Refs \cup {Never}
        /\ \A ref \in Refs \cup {Never} : ContentOf(ref)' = ContentOf(ref)
    BY PreviewTypes, BaseRefType, GrownServer
  <1>2. ContentOf(preview[o].remote)' = ContentOf(preview[o].remote)
    BY <1>1
  <1>3. ASSUME preview[o].remote > 0
        PROVE  BaseRef(o[1], preview[o])' = BaseRef(o[1], preview[o])
    <2>1. preview[o].remote \in 1 .. Len(server)
      BY <1>1, <1>3, GrownServer DEF Refs
    <2>2. server'[preview[o].remote] = server[preview[o].remote]
      BY <2>1, GrownServer
    <2> QED BY <2>2 DEF BaseRef
  <1> QED BY <1>1, <1>2, <1>3 DEF ContentOf

(* The steps of others leave an operation what it knows. *)
LEMMA StillKnows ==
    ASSUME TypeOK, NEW o \in Operations, Knows(o), ServerGrows, preview'[o] = preview[o],
           \/ pc'[o] = pc[o]
           \/ pc'[o] \notin {"CheckLocal", "WriteLocal", "WriteRemote"},
           \/ file'[o[1]] = file[o[1]] /\ touched'[o] = touched[o]
           \/ touched'[o],
           backups[o[1]] \subseteq backups'[o[1]]
    PROVE  Knows(o)'
  <1>1. MergeKnew(o)'
    BY BaseStays DEF Knows, MergeKnew
  <1>2. ReadIsCurrent(o)' /\ CheckIsCurrent(o)'
    BY DEF Knows, ReadIsCurrent, CheckIsCurrent
  <1> QED BY <1>1, <1>2 DEF Knows

LEMMA NothingToKnow ==
    ASSUME NEW o \in Operations, pc'[o] \notin {"CheckLocal", "WriteLocal", "WriteRemote"},
           preview'[o].force => preview'[o].kind = "apply"
    PROVE  Knows(o)'
  BY DEF Knows, MergeKnew, ReadIsCurrent, CheckIsCurrent

(* A step that leaves the files alone, and others' operations. *)
LEMMA OneProgresses ==
    ASSUME TypeOK, OpsInv, NEW o \in Operations, ServerGrows, Knows(o)',
           UNCHANGED <<file, edit>>,
           \A m \in Machines : backups[m] \subseteq backups'[m],
           \A q \in Operations \ {o} : touched'[q] = touched[q],
           \A q \in Operations \ {o} : preview'[q] = preview[q] /\ pc'[q] = pc[q]
    PROVE  OpsInv'
  <1>1. ASSUME NEW q \in Operations \ {o}
        PROVE  Knows(q)'
    <2>1. Knows(q) /\ q[1] \in Machines
      BY OperationsOf DEF OpsInv
    <2> QED BY <2>1, StillKnows
  <1>2. ASSUME NEW m \in Machines
        PROVE  EditIsKept(m)'
    BY DEF OpsInv, EditIsKept
  <1> QED BY <1>1, <1>2 DEF OpsInv

LEMMA UserStepKnows ==
    ASSUME TypeOK, OpsInv, NEW m \in Machines, UserStep(m)
    PROVE  OpsInv'
  <1>0. server' = server /\ backups' = backups
    BY DEF UserStep, Edit, AcceptMerged, AcceptLocal, AcceptRemote, Accept, AcceptNothing
  <1>1. ASSUME NEW content \in MaybeContents, Edit(m, content)
        PROVE  OpsInv'
    <2>1. /\ UNCHANGED <<pc, preview>>
          /\ file' = [file EXCEPT ![m] = content] /\ edit' = [edit EXCEPT ![m] = content]
          /\ touched' = [q \in Operations |-> touched[q] \/ q[1] = m]
      BY <1>1 DEF Edit
    <2>2. ASSUME NEW q \in Operations
          PROVE  Knows(q)'
      <3>1. Knows(q) /\ q[1] \in Machines
        BY OperationsOf DEF OpsInv
      <3>2. q[1] # m => file'[q[1]] = file[q[1]] /\ touched'[q] = touched[q]
        BY <2>1, <3>1 DEF TypeOK
      <3>3. q[1] = m => touched'[q]
        BY <2>1
      <3> QED BY <1>0, <2>1, <3>1, <3>2, <3>3, StillKnows DEF ServerGrows
    <2>3. ASSUME NEW n \in Machines
          PROVE  EditIsKept(n)'
      BY <1>0, <2>1 DEF OpsInv, EditIsKept, TypeOK
    <2> QED BY <2>2, <2>3 DEF OpsInv
  <1>2. ASSUME NEW content \in MaybeContents, NEW localChange \in BOOLEAN,
               NEW remoteChange \in BOOLEAN, NEW force \in BOOLEAN,
               Accept(m, content, localChange, remoteChange, force)
        PROVE  OpsInv'
    <2> DEFINE o == Applier(m)
    <2>1. PICK p \in Preview, label \in {"CheckLocal", "WriteRemote", "Save"} :
              Becomes(o, p, label) /\ p.kind = "apply" /\ p.local = preview[Syncer(m)].local
      BY <1>2, AcceptPreview
    <2>2. o \in Operations /\ o[1] = m
      BY OperationsOf
    <2>3. /\ UNCHANGED <<file, edit>>
          /\ touched' = [touched EXCEPT ![o] = file[m] # preview[Syncer(m)].local]
      BY <1>2 DEF Accept
    <2> HIDE DEF o
    <2>4. preview'[o] = p /\ pc'[o] = label
      BY <2>1, <2>2 DEF Becomes, TypeOK
    <2>5. touched'[o] = (file[m] # p.local)
      BY <2>1, <2>2, <2>3 DEF TypeOK
    <2>6. Knows(o)'
      BY <2>1, <2>2, <2>3, <2>4, <2>5 DEF Knows, MergeKnew, ReadIsCurrent, CheckIsCurrent
    <2>7. \A q \in Operations \ {o} :
              touched'[q] = touched[q] /\ preview'[q] = preview[q] /\ pc'[q] = pc[q]
      BY <2>1, <2>3 DEF Becomes, TypeOK
    <2> QED BY <1>0, <2>2, <2>3, <2>6, <2>7, OneProgresses DEF ServerGrows
  <1>3. ASSUME NEW force \in BOOLEAN, AcceptLocal(m, force) \/ AcceptRemote(m, force)
        PROVE  OpsInv'
    <2>1. /\ preview[Syncer(m)].local \in MaybeContents
          /\ ContentOf(preview[Syncer(m)].remote) \in MaybeContents
      BY PreviewTypes, ContentOfType, OperationsOf
    <2> QED BY <1>2, <1>3, <2>1 DEF AcceptLocal, AcceptRemote
  <1>4. ASSUME NEW content \in MaybeContents, AcceptMerged(m, content)
        PROVE  OpsInv'
    BY <1>2, <1>4 DEF AcceptMerged
  <1>5. CASE AcceptNothing(m)
    BY <1>5 DEF AcceptNothing, OpsInv, Knows, MergeKnew, BaseRef, ContentOf, ReadIsCurrent,
                CheckIsCurrent, EditIsKept
  <1> QED BY <1>1, <1>3, <1>4, <1>5 DEF UserStep

(* A merge without a conflict that changes the server found there what it   *)
(* knew.                                                                    *)
LEMMA MergeWithKnown ==
    ASSUME NEW m, NEW p, p.remote > 0, ~SyncPreview(m, p).hasConflicts,
           SyncPreview(m, p).remoteChange, p.remote \in Int
    PROVE  ContentOf(p.remote) = ContentOf(BaseRef(m, p))
  <1>1. p.remote # 0
    OBVIOUS
  <1>2. SyncPreview(m, p) = Merge(file[m], ContentOf(p.remote), ContentOf(BaseRef(m, p)))
    BY <1>1 DEF SyncPreview
  <1> QED BY <1>2 DEF Merge, Result

LEMMA ReadStepKnows ==
    ASSUME TypeOK, OpsInv, NEW m \in Machines,
           \/ FetchManifest(m) \/ SkipSync(m) \/ BeginSync(m) \/ Resync(m) \/ Fetch(m)
           \/ Generate(m)
    PROVE  OpsInv'
  <1> DEFINE o == Syncer(m)
  <1>0. /\ UNCHANGED <<server, file, backups, edit>> /\ o \in Operations /\ o[1] = m
        /\ Knows(o)
    BY OperationsOf
    DEF FetchManifest, SkipSync, BeginSync, Resync, Fetch, Generate, OpsInv
  <1>1. CASE FetchManifest(m) \/ SkipSync(m)
    <2>1. /\ UNCHANGED <<touched, preview>>
          /\ pc' = [pc EXCEPT ![o] = "Begin"] \/ pc' = [pc EXCEPT ![o] = "None"]
      BY <1>1 DEF FetchManifest, SkipSync, Goto
    <2> HIDE DEF o
    <2>2. pc'[o] \in {"Begin", "None"} /\ \A q \in Operations \ {o} : pc'[q] = pc[q]
      BY <1>0, <2>1 DEF TypeOK
    <2>3. Knows(o)'
      BY <1>0, <2>1, <2>2, NothingToKnow DEF Knows, MergeKnew
    <2> QED BY <1>0, <2>1, <2>2, <2>3, OneProgresses DEF ServerGrows
  <1>2. CASE BeginSync(m) \/ Resync(m) \/ Fetch(m)
    <2>1. \E p \in Preview, label \in {"Generate", "Fetch"} :
             Becomes(o, p, label) /\ (p.force => p.kind = "apply")
      <3>1. CASE BeginSync(m)
        BY <3>1, BeginPreview
      <3>2. CASE Resync(m)
        BY <3>2, ResyncPreview
      <3>3. CASE Fetch(m)
        BY <1>0, <3>3, FetchPreview DEF Knows, MergeKnew
      <3> QED BY <1>2, <3>1, <3>2, <3>3
    <2>2. UNCHANGED touched
      BY <1>2 DEF BeginSync, Resync, Fetch
    <2> HIDE DEF o
    <2>3. PICK p \in Preview, label \in {"Generate", "Fetch"} :
             Becomes(o, p, label) /\ (p.force => p.kind = "apply")
      BY <2>1
    <2>4. /\ preview'[o] = p /\ pc'[o] = label
          /\ \A q \in Operations \ {o} : preview'[q] = preview[q] /\ pc'[q] = pc[q]
      BY <1>0, <2>3 DEF Becomes, TypeOK
    <2>5. Knows(o)'
      BY <1>0, <2>3, <2>4, NothingToKnow
    <2> QED BY <1>0, <2>2, <2>4, <2>5, OneProgresses DEF ServerGrows
  <1>3. CASE Generate(m)
    <2>1. PICK p \in Preview, label \in Labels :
              /\ Becomes(o, p, label)
              /\ p.kind = preview[o].kind /\ p.remote = preview[o].remote
              /\ p.last = preview[o].last /\ p.force = preview[o].force
              /\ p.local = file[m] /\ p.result = SyncPreview(m, preview[o])
              /\ \/ p.result.hasConflicts /\ label = "None"
                 \/ /\ ~p.result.hasConflicts /\ label = Applying(p.result)
                    /\ label \in {"CheckLocal", "WriteRemote", "Save"}
      BY <1>3, GeneratePreview
    <2>2. touched' = [touched EXCEPT ![o] = FALSE]
      BY <1>3 DEF Generate
    <2> HIDE DEF o
    <2>3. /\ preview'[o] = p /\ pc'[o] = label /\ ~touched'[o]
          /\ \A q \in Operations \ {o} :
                preview'[q] = preview[q] /\ pc'[q] = pc[q] /\ touched'[q] = touched[q]
      BY <1>0, <2>1, <2>2 DEF Becomes, TypeOK
    <2>4. MergeKnew(o)'
      <3>1. p.force => p.kind = "apply"
        BY <1>0, <2>1 DEF Knows, MergeKnew
      <3>2. ASSUME ~p.result.hasConflicts, p.result.remoteChange, p.remote > 0
            PROVE  ContentOf(p.remote) = ContentOf(BaseRef(m, p))
        <4>1. preview[o].remote \in Int
          BY <1>0, PreviewTypes, RefsAreInt
        <4>2. ContentOf(preview[o].remote) = ContentOf(BaseRef(m, preview[o]))
          BY <2>1, <3>2, <4>1, MergeWithKnown
        <4> QED BY <2>1, <4>2 DEF BaseRef
      <3>3. pc'[o] = "WriteRemote" \/ (pc'[o] \in {"CheckLocal", "WriteLocal"}
                                         /\ p.result.remoteChange) =>
               ~p.result.hasConflicts /\ p.result.remoteChange
        BY <2>1, <2>3 DEF Applying, AfterLocal
      <3>4. /\ ContentOf(preview[o].remote)' = ContentOf(p.remote)
            /\ ContentOf(BaseRef(o[1], preview[o]))' = ContentOf(BaseRef(m, p))
        BY <1>0, <2>3 DEF ContentOf, BaseRef
      <3> QED BY <2>3, <3>1, <3>2, <3>3, <3>4 DEF MergeKnew
    <2>5. Knows(o)'
      BY <1>0, <2>1, <2>3, <2>4 DEF Knows, ReadIsCurrent, CheckIsCurrent
    <2> QED BY <1>0, <2>3, <2>5, OneProgresses DEF ServerGrows
  <1> QED BY <1>1, <1>2, <1>3

(* An error, or a precondition that failed. *)
LEMMA BackKnows ==
    ASSUME TypeOK, OpsInv, NEW o \in Operations, ServerGrows, UNCHANGED <<file, edit, touched>>,
           \A m \in Machines : backups[m] \subseteq backups'[m],
           \/ Throw(o)
           \/ \E label \in {"Generate", "Refetch"} : Goto(o, label) /\ preview' = preview
    PROVE  OpsInv'
  <1>1. /\ preview' = preview \/ preview' = [preview EXCEPT ![o] = NoPreview]
        /\ \E label \in {"None", "Generate", "Refetch"} : pc' = [pc EXCEPT ![o] = label]
    BY DEF Throw, Goto
  <1>2. /\ preview'[o] \in {preview[o], NoPreview}
        /\ pc'[o] \in {"None", "Generate", "Refetch"}
        /\ \A q \in Operations \ {o} : preview'[q] = preview[q] /\ pc'[q] = pc[q]
    BY <1>1 DEF TypeOK
  <1>3. preview'[o].force => preview'[o].kind = "apply"
    BY <1>2, NoPreviewType DEF OpsInv, Knows, MergeKnew
  <1>4. Knows(o)'
    BY <1>2, <1>3, NothingToKnow
  <1> QED BY <1>2, <1>4, OneProgresses

LEMMA CheckLocalKnows ==
    ASSUME TypeOK, OpsInv, NEW o \in Operations, CheckLocal(o)
    PROVE  OpsInv'
  <1> DEFINE p == preview[o]
  <1>1. /\ UNCHANGED <<server, file, edit>> /\ pc[o] = "CheckLocal" /\ o[1] \in Machines
        /\ backups'[o[1]] = backups[o[1]] \cup ({p.local} \ {NoFile})
        /\ \A m \in Machines : backups[m] \subseteq backups'[m]
    BY OperationsOf DEF CheckLocal, TypeOK
  <1>2. Knows(o)
    BY DEF OpsInv
  <1>3. CASE ~Unchecked(o) /\ ~MayWrite(o[1], p)
    <2>1. UNCHANGED touched /\ TryAgain(o, "Generate")
      BY <1>3 DEF CheckLocal
    <2> QED BY <1>1, <2>1, BackKnows DEF TryAgain, ServerGrows
  <1>4. CASE Unchecked(o) \/ MayWrite(o[1], p)
    <2>1. /\ preview' = preview /\ pc' = [pc EXCEPT ![o] = "WriteLocal"]
          /\ \/ Unchecked(o) /\ touched' = touched
             \/ MayWrite(o[1], p) /\ touched' = [touched EXCEPT ![o] = FALSE]
      BY <1>4 DEF CheckLocal, Goto
    <2>2. /\ pc'[o] = "WriteLocal" /\ preview'[o] = p
          /\ \A q \in Operations \ {o} : pc'[q] = pc[q] /\ preview'[q] = preview[q]
          /\ \A q \in Operations \ {o} : touched'[q] = touched[q]
      BY <2>1 DEF TypeOK
    <2>3. MergeKnew(o)'
      <3>1. /\ ContentOf(preview[o].remote)' = ContentOf(p.remote)
            /\ ContentOf(BaseRef(o[1], preview[o]))' = ContentOf(BaseRef(o[1], p))
        BY <1>1, <2>2 DEF ContentOf, BaseRef
      <3> QED BY <1>1, <1>2, <2>2, <3>1 DEF Knows, MergeKnew
    <2>4. CheckIsCurrent(o)'
      <3>1. p.local \in backups'[o[1]] \cup {NoFile}
        BY <1>1
      <3>2. ASSUME ~touched'[o]
            PROVE  file[o[1]] \in {NoFile, p.local, p.result.content}
        <4>1. CASE touched' = touched
          BY <1>1, <1>2, <3>2, <4>1 DEF Knows, ReadIsCurrent
        <4>2. CASE MayWrite(o[1], p)
          BY <4>2 DEF MayWrite
        <4> QED BY <2>1, <4>1, <4>2
      <3> QED BY <1>1, <2>2, <3>1, <3>2 DEF CheckIsCurrent
    <2>5. Knows(o)'
      BY <2>2, <2>3, <2>4 DEF Knows, ReadIsCurrent
    <2> QED BY <1>1, <2>2, <2>5, OneProgresses DEF ServerGrows
  <1> QED BY <1>3, <1>4

LEMMA WriteLocalKnows ==
    ASSUME TypeOK, OpsInv, NEW o \in Operations, WriteLocal(o)
    PROVE  OpsInv'
  <1> DEFINE m == o[1]
             p == preview[o]
  <1>1. /\ UNCHANGED <<server, backups, preview>> /\ pc[o] = "WriteLocal" /\ m \in Machines
        /\ file' = [file EXCEPT ![m] = p.result.content]
        /\ edit' = IF touched[o] /\ edit[m] = file[m] THEN [edit EXCEPT ![m] = NoEdit] ELSE edit
        /\ touched' = [q \in Operations |-> touched[q] \/ (q[1] = m /\ q # o)]
        /\ pc' = [pc EXCEPT ![o] = AfterLocal(p.result)]
    BY OperationsOf DEF WriteLocal, Goto
  <1>2. Knows(o) /\ EditIsKept(m)
    BY <1>1 DEF OpsInv
  <1>3. Knows(o)'
    <2>1. /\ pc'[o] = AfterLocal(p.result) /\ preview'[o] = p
          /\ pc'[o] \in {"WriteRemote", "Save"}
      BY <1>1 DEF TypeOK, AfterLocal
    <2>2. pc'[o] = "WriteRemote" => p.result.remoteChange
      BY <2>1 DEF AfterLocal
    <2>3. /\ ContentOf(preview[o].remote)' = ContentOf(p.remote)
          /\ ContentOf(BaseRef(o[1], preview[o]))' = ContentOf(BaseRef(o[1], p))
      BY <1>1 DEF ContentOf, BaseRef
    <2>4. MergeKnew(o)'
      BY <1>1, <1>2, <2>1, <2>2, <2>3 DEF Knows, MergeKnew
    <2> QED BY <2>1, <2>4 DEF Knows, ReadIsCurrent, CheckIsCurrent
  <1>4. ASSUME NEW q \in Operations \ {o}
        PROVE  Knows(q)'
    <2>1. Knows(q) /\ q[1] \in Machines /\ pc'[q] = pc[q] /\ preview'[q] = preview[q]
      BY <1>1, OperationsOf DEF OpsInv, TypeOK
    <2>2. q[1] # m => file'[q[1]] = file[q[1]] /\ touched'[q] = touched[q]
      BY <1>1, <2>1 DEF TypeOK
    <2>3. q[1] = m => touched'[q]
      BY <1>1
    <2> QED BY <1>1, <2>1, <2>2, <2>3, StillKnows DEF ServerGrows
  <1>5. EditIsKept(m)'
    <2>1. file'[m] = p.result.content /\ backups'[m] = backups[m]
      BY <1>1 DEF TypeOK
    <2>2. CASE touched[o] /\ edit[m] = file[m]
      <3>1. edit'[m] = NoEdit
        BY <1>1, <2>2 DEF TypeOK
      <3> QED BY <3>1 DEF EditIsKept
    <2>3. CASE edit[m] # file[m]
      <3>1. edit'[m] = edit[m]
        BY <1>1, <2>3
      <3> QED BY <1>2, <2>1, <2>3, <3>1 DEF EditIsKept
    <2>4. CASE ~touched[o] /\ edit[m] = file[m]
      <3>1. edit'[m] = edit[m]
        BY <1>1, <2>4
      <3>2. /\ file[m] \in {NoFile, p.local, p.result.content}
            /\ p.local \in backups[m] \cup {NoFile}
        BY <1>1, <1>2, <2>4 DEF Knows, CheckIsCurrent
      <3> QED BY <2>1, <2>4, <3>1, <3>2 DEF EditIsKept, NoEdit
    <2> QED BY <2>2, <2>3, <2>4
  <1>6. ASSUME NEW n \in Machines, n # m
        PROVE  EditIsKept(n)'
    <2>1. file'[n] = file[n] /\ edit'[n] = edit[n] /\ backups' = backups
      BY <1>1, <1>6 DEF TypeOK
    <2> QED BY <2>1 DEF OpsInv, EditIsKept
  <1> QED BY <1>3, <1>4, <1>5, <1>6 DEF OpsInv

LEMMA WriteRemoteKnows ==
    ASSUME TypeOK, OpsInv, NEW o \in Operations, WriteRemote(o)
    PROVE  OpsInv'
  <1>1. /\ UNCHANGED <<file, backups, touched, edit>>
    BY DEF WriteRemote
  <1>2. CASE MayPost(preview[o])
    <2>1. PICK p \in Preview :
              /\ Becomes(o, p, "Save") /\ p.kind = preview[o].kind
              /\ p.force = preview[o].force /\ Post(o)
      BY <1>2, PostedPreview
    <2>2. /\ preview'[o] = p /\ pc'[o] = "Save"
          /\ \A q \in Operations \ {o} : preview'[q] = preview[q] /\ pc'[q] = pc[q]
      BY <2>1 DEF Becomes, TypeOK
    <2>3. Knows(o)'
      BY <2>1, <2>2, NothingToKnow DEF OpsInv, Knows, MergeKnew
    <2>4. ServerGrows
      BY <2>1, PostTypes DEF ServerGrows
    <2> QED BY <1>1, <2>2, <2>3, <2>4, OneProgresses
  <1>3. CASE ~MayPost(preview[o])
    <2>1. UNCHANGED server /\ TryAgain(o, "Refetch")
      BY <1>3 DEF WriteRemote
    <2> QED BY <1>1, <2>1, BackKnows DEF TryAgain, ServerGrows
  <1> QED BY <1>2, <1>3

(* Operations that end, and previews that go with them. *)
LEMMA EndKnows ==
    ASSUME TypeOK, OpsInv, UNCHANGED <<server, file, backups, touched, edit>>,
           \A q \in Operations :
              \/ preview'[q] = preview[q] /\ pc'[q] = pc[q]
              \/ preview'[q] = NoPreview /\ pc'[q] \in {"None", "Begin"}
    PROVE  OpsInv'
  <1>1. ASSUME NEW q \in Operations
        PROVE  Knows(q)'
    <2>1. CASE preview'[q] = preview[q] /\ pc'[q] = pc[q]
      <3>1. Knows(q)
        BY DEF OpsInv
      <3> QED BY <2>1, <3>1, StillKnows DEF ServerGrows
    <2>2. CASE preview'[q] = NoPreview /\ pc'[q] \in {"None", "Begin"}
      BY <2>2, NoPreviewType, NothingToKnow
    <2> QED BY <2>1, <2>2
  <1> QED BY <1>1 DEF OpsInv, EditIsKept

LEMMA SaveKnows ==
    ASSUME TypeOK, OpsInv, NEW o \in Operations, Save(o)
    PROVE  OpsInv'
  <1>1. UNCHANGED <<server, file, backups, touched, edit>>
    BY DEF Save, Finish
  <1>2. ASSUME NEW q \in Operations
        PROVE  \/ preview'[q] = preview[q] /\ pc'[q] = pc[q]
               \/ preview'[q] = NoPreview /\ pc'[q] \in {"None", "Begin"}
    BY DEF Save, Finish, Goto, TypeOK
  <1> QED BY <1>1, <1>2, EndKnows

LEMMA FailureKnows ==
    ASSUME TypeOK, OpsInv, NEW m \in Machines, FailureStep(m)
    PROVE  OpsInv'
  <1>1. ASSUME NEW o \in Operations, RequestFails(o)
        PROVE  OpsInv'
    <2>1. /\ UNCHANGED <<file, backups, touched, edit>>
          /\ Throw(o) /\ (server' = server \/ Post(o))
      BY <1>1 DEF RequestFails
    <2>2. ServerGrows
      BY <2>1, PostTypes DEF ServerGrows
    <2> QED BY <2>1, <2>2, BackKnows
  <1>2. CASE Restart(m) \/ TurnOff(m)
    <2>1. UNCHANGED <<server, file, backups, touched, edit>> /\ Forget(m)
      BY <1>2 DEF Restart, TurnOff
    <2>2. ASSUME NEW q \in Operations
          PROVE  \/ preview'[q] = preview[q] /\ pc'[q] = pc[q]
                 \/ preview'[q] = NoPreview /\ pc'[q] \in {"None", "Begin"}
      BY <2>1 DEF Forget
    <2> QED BY <2>1, <2>2, EndKnows
  <1> QED BY <1>1, <1>2, OperationsOf DEF FailureStep

-----------------------------------------------------------------------------
(* What a machine knows of its own versions, while nothing fails *)

(* An operation that has a preview, which the user may have to decide. *)
Holds(o) ==
    pc[o] \notin {"None", "Begin"} \/ (o = Syncer(o[1]) /\ IsAsked(o[1]))

(* While an apply runs no sync gets beyond its task. *)
Apart(m) ==
    pc[Applier(m)] # "None" =>
        /\ pc[Syncer(m)] \in {"None", "Begin"} /\ status[m] = "Syncing"
        /\ preview[Applier(m)].remote > 0

(* An operation deals with a version not older than the one synchronised. *)
Ordered(o) ==
    Holds(o) =>
        /\ preview[o].last = lastSync[o[1]]
        /\ pc[o] \notin {"Fetch", "Refetch"} => lastSync[o[1]] <= preview[o].remote

(* A task that was created when the server had nothing. *)
Begun(m) ==
    pc[Syncer(m)] = "Begin" /\ manifest[m] = 0 =>
        lastSync[m] <= 0 /\ ~IsAsked(m) /\ pc[Applier(m)] = "None"

(* A machine has synchronised, or is about to note as synchronised, each    *)
(* version it has written.                                                  *)
OwnIsKnown(m) ==
    \A ref \in 1 .. Len(server) :
        server[ref].machine = m =>
            \/ ref <= lastSync[m]
            \/ \E o \in {Syncer(m), Applier(m)} : pc[o] = "Save" /\ ref <= preview[o].remote

AskedAboutOthers(m) == IsAsked(m) => server[preview[Syncer(m)].remote].machine # m

Remembers(m) ==
    /\ Apart(m) /\ Ordered(Syncer(m)) /\ Ordered(Applier(m)) /\ Begun(m)
    /\ OwnIsKnown(m) /\ AskedAboutOthers(m)

Clean(m) == failures = 0 => Remembers(m)

SyncInv == TypeOK /\ OpsInv /\ \A m \in Machines : Clean(m)

(* The server stays, or takes one version of m. *)
TakesOneOf(m) ==
    \/ server' = server
    \/ \E version \in Versions : version.machine = m /\ server' = Append(server, version)

LEMMA TakenVersions ==
    ASSUME TypeOK, NEW m \in Machines, TakesOneOf(m)
    PROVE  /\ Len(server) \in Nat
           /\ \A ref \in 1 .. Len(server) : server'[ref] = server[ref]
           /\ \A ref \in 1 .. Len(server') :
                 \/ ref \in 1 .. Len(server)
                 \/ ref = Len(server) + 1 /\ server'[ref].machine = m
  <1>1. CASE server' = server
    BY <1>1 DEF TypeOK
  <1>2. ASSUME NEW version \in Versions, version.machine = m, server' = Append(server, version)
        PROVE  /\ Len(server) \in Nat
               /\ \A ref \in 1 .. Len(server) : server'[ref] = server[ref]
               /\ \A ref \in 1 .. Len(server') :
                     \/ ref \in 1 .. Len(server)
                     \/ ref = Len(server) + 1 /\ server'[ref].machine = m
    BY <1>2, RefsGrow
  <1> QED BY <1>1, <1>2 DEF TakesOneOf

(* What the steps of one machine leave of another one. *)
Stays(m) ==
    /\ status'[m] = status[m] /\ lastSync'[m] = lastSync[m] /\ manifest'[m] = manifest[m]
    /\ \A o \in {Syncer(m), Applier(m)} : pc'[o] = pc[o] /\ preview'[o] = preview[o]

LEMMA OthersRemember ==
    ASSUME TypeOK, NEW m \in Machines, NEW n \in Machines, n # m, Remembers(m),
           Stays(m), TakesOneOf(n)
    PROVE  Remembers(m)'
  <1> DEFINE s == Syncer(m)
             a == Applier(m)
  <1>1. IsAsked(m)' <=> IsAsked(m)
    BY DEF IsAsked, Stays
  <1>2. s[1] = m /\ a[1] = m /\ s # a /\ s \in Operations /\ a \in Operations
    BY OperationsOf
  <1>3. Apart(m)' /\ Begun(m)'
    BY <1>1 DEF Remembers, Stays, Apart, Begun
  <1>4. Ordered(s)' /\ Ordered(a)'
    BY <1>1, <1>2 DEF Remembers, Stays, Ordered, Holds
  <1>5. OwnIsKnown(m)'
    <2> SUFFICES ASSUME NEW ref \in 1 .. Len(server'), server'[ref].machine = m
                 PROVE  \/ ref <= lastSync[m]
                        \/ \E o \in {s, a} : pc[o] = "Save" /\ ref <= preview[o].remote
      BY DEF OwnIsKnown, Stays
    <2> QED BY TakenVersions DEF Remembers, OwnIsKnown
  <1>6. AskedAboutOthers(m)'
    <2> SUFFICES ASSUME IsAsked(m)
                 PROVE  server'[preview[s].remote].machine # m
      BY <1>1 DEF AskedAboutOthers, Stays
    <2>1. preview[s].remote \in Refs /\ preview[s].remote > 0
      BY <1>2, PreviewTypes DEF IsAsked
    <2>2. preview[s].remote \in 1 .. Len(server)
      BY <2>1, TakenVersions DEF Refs
    <2> QED BY <2>2, TakenVersions DEF Remembers, AskedAboutOthers
  <1> QED BY <1>3, <1>4, <1>5, <1>6 DEF Remembers

(* A step of one operation of m, which goes on with a preview that is in    *)
(* order.                                                                   *)
LEMMA GoesOn ==
    ASSUME TypeOK, NEW m \in Machines, NEW o \in {Syncer(m), Applier(m)}, Remembers(m),
           pc[o] \notin {"None", "Begin", "Save"}, pc'[o] \notin {"None", "Begin"},
           preview'[o].last = lastSync[m],
           pc'[o] \notin {"Fetch", "Refetch"} => lastSync[m] <= preview'[o].remote,
           o = Applier(m) => preview'[o].remote > 0,
           \A q \in Operations \ {o} : preview'[q] = preview[q] /\ pc'[q] = pc[q],
           lastSync' = lastSync, status' = status, manifest' = manifest,
           \/ server' = server
           \/ TakesOneOf(m) /\ pc'[o] = "Save" /\ preview'[o].remote = Len(server) + 1
    PROVE  Remembers(m)'
  <1> DEFINE s == Syncer(m)
             a == Applier(m)
  <1>1. s[1] = m /\ a[1] = m /\ s # a /\ s \in Operations /\ a \in Operations
    BY OperationsOf
  <1>2. ~IsAsked(m)'
    <2>1. CASE o = s
      BY <2>1 DEF IsAsked
    <2>2. CASE o = a
      BY <2>2 DEF IsAsked, Remembers, Apart
    <2> QED BY <2>1, <2>2
  <1>3. Apart(m)'
    BY <1>1 DEF Remembers, Apart
  <1>4. Ordered(s)' /\ Ordered(a)'
    <2>1. CASE o = s
      <3>1. pc[a] = "None" /\ pc'[a] = "None"
        BY <1>1, <2>1 DEF Remembers, Apart
      <3> QED BY <1>1, <1>2, <2>1, <3>1 DEF Ordered, Holds
    <2>2. CASE o = a
      <3>1. pc'[s] = pc[s] /\ pc[s] \in {"None", "Begin"}
        BY <1>1, <2>2 DEF Remembers, Apart
      <3> QED BY <1>1, <1>2, <2>2, <3>1 DEF Ordered, Holds
    <2> QED BY <2>1, <2>2
  <1>5. Begun(m)'
    <2>1. CASE o = s
      BY <2>1 DEF Begun
    <2>2. CASE o = a
      <3>1. pc'[s] = pc[s]
        BY <1>1, <2>2
      <3> QED BY <2>2, <3>1 DEF Remembers, Begun
    <2> QED BY <2>1, <2>2
  <1>6. OwnIsKnown(m)'
    <2> SUFFICES ASSUME NEW ref \in 1 .. Len(server'), server'[ref].machine = m
                 PROVE  \/ ref <= lastSync[m]
                        \/ \E q \in {s, a} : pc'[q] = "Save" /\ ref <= preview'[q].remote
      BY DEF OwnIsKnown
    <2>1. ASSUME server' = server
          PROVE  \/ ref <= lastSync[m]
                 \/ \E q \in {s, a} : pc'[q] = "Save" /\ ref <= preview'[q].remote
      <3>1. PICK q \in {s, a} : ref <= lastSync[m] \/ (pc[q] = "Save" /\ ref <= preview[q].remote)
        BY <2>1 DEF Remembers, OwnIsKnown
      <3>2. pc[q] = "Save" => q # o
        OBVIOUS
      <3> QED BY <1>1, <3>1, <3>2
    <2>2. ASSUME TakesOneOf(m), pc'[o] = "Save", preview'[o].remote = Len(server) + 1
          PROVE  \E q \in {s, a} : pc'[q] = "Save" /\ ref <= preview'[q].remote
      <3>1. ref <= Len(server) + 1
        BY <2>2, TakenVersions
      <3> QED BY <2>2, <3>1
    <2> QED BY <2>1, <2>2
  <1> QED BY <1>2, <1>3, <1>4, <1>5, <1>6 DEF Remembers, AskedAboutOthers

(* An operation ends with an error that is not a failure. *)
LEMMA ThrowRemembers ==
    ASSUME TypeOK, NEW m \in Machines, NEW o \in {Syncer(m), Applier(m)}, Remembers(m),
           pc[o] \notin {"None", "Begin", "Save"}, Throw(o),
           UNCHANGED <<server, lastSync, manifest>>
    PROVE  Remembers(m)'
  <1> DEFINE s == Syncer(m)
             a == Applier(m)
  <1>1. s[1] = m /\ a[1] = m /\ s # a /\ s \in Operations /\ a \in Operations /\ o[1] = m
    BY OperationsOf
  <1>2. /\ pc'[o] = "None" /\ preview'[o] = NoPreview
        /\ \A q \in Operations \ {o} : pc'[q] = pc[q] /\ preview'[q] = preview[q]
        /\ status'[m] \in {status[m], "Idle"}
    BY <1>1 DEF Throw, Goto, TypeOK
  <1>3. ~IsAsked(m)'
    <2>1. CASE o = s
      BY <1>2, <2>1, NoPreviewType DEF IsAsked
    <2>2. CASE o = a
      BY <1>2, <2>2 DEF IsAsked, Remembers, Apart
    <2> QED BY <2>1, <2>2
  <1>4. pc'[s] \in {"None", "Begin"} /\ pc'[a] = "None"
    BY <1>1, <1>2 DEF Remembers, Apart
  <1>5. Begun(m)'
    <2>1. CASE o = s
      BY <1>2, <2>1 DEF Begun
    <2>2. CASE o = a
      BY <1>1, <1>2, <1>3, <2>2 DEF Begun, Remembers
    <2> QED BY <2>1, <2>2
  <1>6. OwnIsKnown(m)'
    <2> SUFFICES ASSUME NEW ref \in 1 .. Len(server), server[ref].machine = m
                 PROVE  ref <= lastSync[m]
      BY DEF OwnIsKnown
    <2>1. pc[s] # "Save" /\ pc[a] # "Save"
      BY <1>1 DEF Remembers, Apart
    <2> QED BY <2>1 DEF Remembers, OwnIsKnown
  <1> QED BY <1>1, <1>3, <1>4, <1>5, <1>6
      DEF Remembers, Apart, Ordered, Holds, AskedAboutOthers

LEMMA TryAgainRemembers ==
    ASSUME TypeOK, NEW m \in Machines, NEW o \in {Syncer(m), Applier(m)}, Remembers(m),
           pc[o] \notin {"None", "Begin", "Save", "Fetch", "Refetch"},
           NEW label \in {"Generate", "Refetch"}, TryAgain(o, label),
           UNCHANGED <<server, lastSync, manifest>>
    PROVE  Remembers(m)'
  <1>1. CASE Throw(o)
    BY <1>1, ThrowRemembers
  <1>2. CASE Goto(o, label) /\ UNCHANGED <<status, preview>>
    <2>1. o \in Operations /\ o[1] = m
      BY OperationsOf
    <2>2. /\ pc'[o] = label /\ preview' = preview
          /\ \A q \in Operations \ {o} : pc'[q] = pc[q] /\ preview'[q] = preview[q]
      BY <1>2, <2>1 DEF Goto, TypeOK
    <2>3. /\ preview[o].last = lastSync[m] /\ lastSync[m] <= preview[o].remote
          /\ o = Applier(m) => preview[o].remote > 0
      BY <2>1 DEF Remembers, Ordered, Holds, Apart
    <2> QED BY <1>2, <2>2, <2>3, GoesOn
  <1> QED BY <1>1, <1>2 DEF TryAgain

LEMMA UserStepRemembers ==
    ASSUME TypeOK, NEW m \in Machines, Remembers(m), UserStep(m), failures' = 0
    PROVE  Remembers(m)'
  <1> DEFINE s == Syncer(m)
             a == Applier(m)
  <1>1. s[1] = m /\ a[1] = m /\ s # a /\ s \in Operations /\ a \in Operations
    BY OperationsOf
  <1>2. ASSUME NEW content \in MaybeContents, Edit(m, content)
        PROVE  Remembers(m)'
    BY <1>2 DEF Edit, Remembers, Apart, Ordered, Holds, IsAsked, Begun, OwnIsKnown,
               AskedAboutOthers
  <1>3. ASSUME NEW content \in MaybeContents, NEW localChange \in BOOLEAN,
               NEW remoteChange \in BOOLEAN, NEW force \in BOOLEAN,
               Accept(m, content, localChange, remoteChange, force)
        PROVE  Remembers(m)'
    <2>1. PICK p \in Preview, label \in {"CheckLocal", "WriteRemote", "Save"} :
              /\ Becomes(a, p, label) /\ p.remote = preview[s].remote /\ p.last = preview[s].last
      BY <1>3, AcceptPreview
    <2>2. IsAsked(m)
      BY <1>3 DEF Accept, CountFailure, TypeOK
    <2>3. /\ UNCHANGED <<server, lastSync, manifest>> /\ status'[m] = "Syncing"
          /\ pc[a] = "None"
      BY <1>3 DEF Accept, TypeOK
    <2> HIDE DEF s, a
    <2>4. /\ preview'[a] = p /\ pc'[a] = label /\ preview'[s] = preview[s] /\ pc'[s] = pc[s]
      BY <1>1, <2>1 DEF Becomes, TypeOK
    <2>5. pc[s] \in {"None", "Begin"} /\ preview[s].remote > 0
      BY <2>2 DEF IsAsked, s
    <2>6. ~IsAsked(m)'
      BY <2>3 DEF IsAsked
    <2>7. preview[s].last = lastSync[m] /\ lastSync[m] <= preview[s].remote
      BY <1>1, <2>2, <2>5 DEF Remembers, Ordered, Holds, s
    <2>8. Apart(m)'
      BY <2>1, <2>3, <2>4, <2>5 DEF Apart, s, a
    <2>9. Ordered(s)' /\ Ordered(a)'
      BY <1>1, <2>1, <2>3, <2>4, <2>5, <2>6, <2>7 DEF Ordered, Holds
    <2>10. Begun(m)'
      BY <2>2, <2>3, <2>4 DEF Begun, Remembers, s, a
    <2>11. OwnIsKnown(m)'
      BY <2>3, <2>4, <2>5 DEF OwnIsKnown, Remembers, s, a
    <2> QED BY <2>6, <2>8, <2>9, <2>10, <2>11 DEF Remembers, AskedAboutOthers, s, a
  <1>4. ASSUME NEW force \in BOOLEAN, AcceptLocal(m, force) \/ AcceptRemote(m, force)
        PROVE  Remembers(m)'
    <2>1. /\ preview[s].local \in MaybeContents
          /\ ContentOf(preview[s].remote) \in MaybeContents
      BY <1>1, PreviewTypes, ContentOfType
    <2> QED BY <1>3, <1>4, <2>1 DEF AcceptLocal, AcceptRemote
  <1>5. ASSUME NEW content \in MaybeContents, AcceptMerged(m, content)
        PROVE  Remembers(m)'
    BY <1>3, <1>5 DEF AcceptMerged
  <1>6. CASE AcceptNothing(m)
    <2>1. /\ UNCHANGED <<server, lastSync, manifest, pc, preview>> /\ status'[m] = "Idle"
          /\ pc[s] \in {"None", "Begin"} /\ pc[a] = "None"
      BY <1>6 DEF AcceptNothing, TypeOK
    <2>2. ~IsAsked(m)'
      BY <2>1 DEF IsAsked
    <2>3. OwnIsKnown(m)'
      BY <2>1 DEF OwnIsKnown, Remembers
    <2>4. Begun(m)'
      BY <2>1, <2>2 DEF Begun, Remembers
    <2> QED BY <1>1, <2>1, <2>2, <2>3, <2>4
        DEF Remembers, Apart, Ordered, Holds, AskedAboutOthers
  <1> QED BY <1>2, <1>4, <1>5, <1>6 DEF UserStep

LEMMA BeginStepRemembers ==
    ASSUME TypeOK, NEW m \in Machines, Remembers(m),
           FetchManifest(m) \/ SkipSync(m) \/ BeginSync(m) \/ Resync(m)
    PROVE  Remembers(m)'
  <1> DEFINE s == Syncer(m)
             a == Applier(m)
  <1>1. s[1] = m /\ a[1] = m /\ s # a /\ s \in Operations /\ a \in Operations
    BY OperationsOf
  <1>2. UNCHANGED <<server, lastSync>> /\ pc[s] \in {"None", "Begin"}
    BY DEF FetchManifest, SkipSync, BeginSync, Resync
  <1>3. CASE FetchManifest(m) \/ SkipSync(m)
    <2>1. /\ UNCHANGED <<status, preview>>
          /\ \/ pc' = [pc EXCEPT ![s] = "Begin"] /\ manifest' = [manifest EXCEPT ![m] = Len(server)]
             \/ pc' = [pc EXCEPT ![s] = "None"]
      BY <1>3 DEF FetchManifest, SkipSync, Goto
    <2> HIDE DEF s, a
    <2>2. /\ pc'[a] = pc[a] /\ pc'[s] \in {"None", "Begin"}
          /\ pc'[s] = "Begin" => manifest'[m] = Len(server)
      BY <1>1, <2>1 DEF TypeOK
    <2>3. IsAsked(m)' <=> IsAsked(m)
      BY <1>2, <2>1, <2>2 DEF IsAsked, s
    <2>4. Apart(m)' /\ Ordered(s)' /\ Ordered(a)'
      BY <1>1, <1>2, <2>1, <2>2, <2>3 DEF Remembers, Apart, Ordered, Holds, s, a
    <2>5. Begun(m)'
      <3> SUFFICES ASSUME Len(server) = 0
                   PROVE  lastSync[m] <= 0 /\ ~IsAsked(m) /\ pc[a] = "None"
        BY <1>2, <2>2, <2>3 DEF Begun, s, a
      <3>1. \A ref \in Refs \cup {Never} : ref <= 0
        BY DEF Refs, Never
      <3>2. lastSync[m] <= 0 /\ preview[s].remote <= 0 /\ preview[a].remote <= 0
        BY <1>1, <3>1, PreviewTypes DEF TypeOK
      <3>3. preview[s].remote \in Int /\ preview[a].remote \in Int
        BY <1>1, PreviewTypes, RefsAreInt
      <3> QED BY <3>2, <3>3 DEF Remembers, Apart, IsAsked, s, a
    <2>6. OwnIsKnown(m)' /\ AskedAboutOthers(m)'
      BY <1>2, <2>1, <2>2, <2>3 DEF Remembers, OwnIsKnown, AskedAboutOthers, s, a
    <2> QED BY <2>4, <2>5, <2>6 DEF Remembers, s, a
  <1>4. CASE BeginSync(m) \/ Resync(m)
    <2>1. pc[a] = "None" /\ (manifest[m] \in Int)
      <3>1. pc[a] # "None" => status[m] = "Syncing"
        BY DEF Remembers, Apart
      <3> QED BY <1>4, <3>1, RefsAreInt DEF BeginSync, Resync, IsAsked, TypeOK
    <2>2. \E p \in Preview, label \in {"Generate", "Fetch"} :
              /\ Becomes(s, p, label)
              /\ p.last = lastSync[m] /\ (label = "Generate" => lastSync[m] <= p.remote)
      <3>1. CASE BeginSync(m)
        <4>1. PICK p \in Preview, label \in {"Generate", "Fetch"} :
              /\ Becomes(Syncer(m), p, label)
              /\ p.remote = manifest[m] /\ p.last = lastSync[m]
              /\ label = "Generate" => manifest[m] \in {0, lastSync[m]}
          BY <3>1, BeginPreview
        <4>2. pc[s] = "Begin"
          BY <3>1 DEF BeginSync
        <4>3. label = "Generate" => lastSync[m] <= p.remote
          BY <2>1, <4>1, <4>2 DEF Remembers, Begun
        <4> QED BY <4>1, <4>3
      <3>2. CASE Resync(m)
        <4>1. IsAsked(m)
          BY <3>2 DEF Resync
        <4>2. preview[s].last = lastSync[m] /\ lastSync[m] <= preview[s].remote
          BY <1>1, <1>2, <4>1 DEF Remembers, Ordered, Holds
        <4> QED BY <3>2, <4>2, ResyncPreview
      <3> QED BY <1>4, <3>1, <3>2
    <2> HIDE DEF s, a
    <2>3. PICK p \in Preview, label \in {"Generate", "Fetch"} :
              /\ Becomes(s, p, label)
              /\ p.last = lastSync[m] /\ (label = "Generate" => lastSync[m] <= p.remote)
      BY <2>2
    <2>4. preview'[s] = p /\ pc'[s] = label /\ pc'[a] = "None"
      BY <1>1, <2>1, <2>3 DEF Becomes, TypeOK
    <2>5. ~IsAsked(m)'
      BY <2>4 DEF IsAsked, s
    <2>6. Apart(m)' /\ Ordered(s)' /\ Ordered(a)' /\ Begun(m)'
      BY <1>1, <1>2, <2>3, <2>4, <2>5 DEF Apart, Ordered, Holds, Begun, s, a
    <2>7. OwnIsKnown(m)'
      BY <1>2, <2>1, <2>4 DEF Remembers, OwnIsKnown, s, a
    <2> QED BY <2>5, <2>6, <2>7 DEF Remembers, AskedAboutOthers, s, a
  <1> QED BY <1>3, <1>4

(* A merge with a version that the machine has written, and so knows, has   *)
(* no conflict.                                                             *)
LEMMA OwnDoesNotConflict ==
    ASSUME TypeOK, NEW m \in Machines, Remembers(m), pc[Syncer(m)] = "Generate",
           SyncPreview(m, preview[Syncer(m)]).hasConflicts
    PROVE  server[preview[Syncer(m)].remote].machine # m
  <1> DEFINE s == Syncer(m)
             remote == preview[s].remote
  <1>1. /\ s[1] = m /\ remote \in Refs /\ lastSync[m] \in Refs \cup {Never}
        /\ \A ref \in Refs \cup {Never} : ref \in Int
    BY PreviewTypes, RefsAreInt, OperationsOf DEF TypeOK
  <1>2. preview[s].last = lastSync[m] /\ lastSync[m] <= remote
    BY <1>1 DEF Remembers, Ordered, Holds
  <1>3. remote > 0
    BY DEF SyncPreview, Result
  <1>4. remote # 0
    BY <1>1, <1>3
  <1>5. SyncPreview(m, preview[s])
          = Merge(file[m], ContentOf(remote), ContentOf(BaseRef(m, preview[s])))
    BY <1>3, <1>4 DEF SyncPreview
  <1>6. BaseRef(m, preview[s]) # remote
    BY <1>5 DEF Merge, Result
  <1>7. pc[s] # "Save" /\ pc[Applier(m)] # "Save"
    BY DEF Remembers, Apart
  <1>8. remote \in 1 .. Len(server)
    <2>1. Len(server) \in Nat
      BY DEF TypeOK
    <2> QED BY <1>1, <1>3, <2>1 DEF Refs
  <1>9. server[remote].machine = m => remote <= lastSync[m]
    BY <1>7, <1>8 DEF Remembers, OwnIsKnown
  <1>10. server[remote].machine = m => lastSync[m] = remote
    <2>1. lastSync[m] \in Int /\ remote \in Int
      BY <1>1
    <2> HIDE DEF remote
    <2> QED BY <1>2, <1>9, <2>1 DEF remote
  <1> QED BY <1>1, <1>2, <1>3, <1>6, <1>10 DEF BaseRef, Never

LEMMA ResultStepRemembers ==
    ASSUME TypeOK, NEW m \in Machines, Remembers(m), Fetch(m) \/ Generate(m)
    PROVE  Remembers(m)'
  <1> DEFINE s == Syncer(m)
             a == Applier(m)
  <1>1. s[1] = m /\ a[1] = m /\ s # a /\ s \in Operations /\ a \in Operations
    BY OperationsOf
  <1>2. /\ UNCHANGED <<server, lastSync, manifest>> /\ pc[s] \in {"Fetch", "Refetch", "Generate"}
    BY DEF Fetch, Generate
  <1>3. preview[s].last = lastSync[m] /\ (pc[s] = "Generate" => lastSync[m] <= preview[s].remote)
    BY <1>1, <1>2 DEF Remembers, Ordered, Holds
  <1>a. s \in {Syncer(m), Applier(m)}
    OBVIOUS
  <1>4. CASE Fetch(m)
    <2>1. PICK p \in Preview :
              /\ Becomes(s, p, "Generate") /\ p.remote = Len(server)
              /\ p.last = IF pc[s] = "Refetch" THEN lastSync[m] ELSE preview[s].last
      BY <1>4, FetchPreview
    <2>2. status' = status
      BY <1>4 DEF Fetch
    <2>3. lastSync[m] <= Len(server)
      BY DEF TypeOK, Refs, Never
    <2> HIDE DEF s, a
    <2>4. /\ preview'[s] = p /\ pc'[s] = "Generate"
          /\ \A q \in Operations \ {s} : preview'[q] = preview[q] /\ pc'[q] = pc[q]
      BY <1>1, <2>1 DEF Becomes, TypeOK
    <2>5. s # Applier(m)
      BY <1>1 DEF a
    <2> QED BY <1>2, <1>3, <1>a, <2>1, <2>2, <2>3, <2>4, <2>5, GoesOn
  <1>5. CASE Generate(m)
    <2>1. PICK p \in Preview, label \in Labels :
              /\ Becomes(s, p, label)
              /\ p.remote = preview[s].remote /\ p.last = preview[s].last
              /\ p.result = SyncPreview(m, preview[s])
              /\ \/ /\ p.result.hasConflicts /\ label = "None"
                    /\ status' = [status EXCEPT ![m] = "HasConflicts"]
                 \/ /\ label \in {"CheckLocal", "WriteRemote", "Save"} /\ status' = status
      BY <1>5, GeneratePreview
    <2>2. pc[s] = "Generate"
      BY <1>5 DEF Generate
    <2>3. p.result.hasConflicts => server[preview[s].remote].machine # m
      BY <2>1, <2>2, OwnDoesNotConflict
    <2>s. s = Syncer(m) /\ a = Applier(m)
      OBVIOUS
    <2> HIDE DEF s, a
    <2>4. /\ preview'[s] = p /\ pc'[s] = label
          /\ \A q \in Operations \ {s} : preview'[q] = preview[q] /\ pc'[q] = pc[q]
      BY <1>1, <2>1 DEF Becomes, TypeOK
    <2>5. CASE label # "None"
      <3>1. label \notin {"None", "Begin", "Fetch", "Refetch"} /\ status' = status
        BY <2>1, <2>5
      <3> QED BY <1>1, <1>2, <1>3, <1>a, <2>1, <2>2, <2>4, <2>s, <3>1, GoesOn
    <2>6. CASE label = "None"
      <3>1. p.result.hasConflicts /\ pc[a] = "None" /\ pc'[a] = "None"
        BY <1>1, <2>1, <2>2, <2>4, <2>6 DEF Remembers, Apart, s, a
      <3>2. Apart(m)' /\ Begun(m)'
        BY <2>4, <2>6, <3>1 DEF Apart, Begun, s, a
      <3>3. Ordered(s)' /\ Ordered(a)'
        BY <1>1, <1>2, <1>3, <2>1, <2>2, <2>4, <3>1, <2>s DEF Ordered, Holds
      <3>4. OwnIsKnown(m)'
        BY <1>2, <2>2, <3>1 DEF Remembers, OwnIsKnown, s, a
      <3>5. AskedAboutOthers(m)'
        BY <1>2, <2>1, <2>3, <2>4, <3>1 DEF AskedAboutOthers, s
      <3> QED BY <2>s, <3>2, <3>3, <3>4, <3>5 DEF Remembers
    <2> QED BY <2>5, <2>6
  <1> QED BY <1>4, <1>5

LEMMA ApplyStepRemembers ==
    ASSUME TypeOK, NEW m \in Machines, NEW o \in {Syncer(m), Applier(m)}, Remembers(m),
           ApplyStep(o)
    PROVE  Remembers(m)'
  <1> DEFINE s == Syncer(m)
             a == Applier(m)
  <1>1. /\ s[1] = m /\ a[1] = m /\ s # a /\ s \in Operations /\ a \in Operations
        /\ o \in Operations /\ o[1] = m
    BY OperationsOf
  <1>2. pc[o] \in {"CheckLocal", "WriteLocal", "WriteRemote", "Save"} /\ manifest' = manifest
    BY DEF ApplyStep, CheckLocal, WriteLocal, WriteRemote, Save, Finish
  <1>3. /\ preview[o].last = lastSync[m] /\ lastSync[m] <= preview[o].remote
        /\ o = Applier(m) => preview[o].remote > 0
    BY <1>1, <1>2 DEF Remembers, Ordered, Holds, Apart
  <1>a. ASSUME UNCHANGED <<server, lastSync, status, preview>>,
               NEW label \in {"WriteLocal", "WriteRemote", "Save"}, Goto(o, label),
               pc[o] # "Save"
        PROVE  Remembers(m)'
    <2>1. pc'[o] = label /\ \A q \in Operations \ {o} : pc'[q] = pc[q]
      BY <1>1, <1>a DEF Goto, TypeOK
    <2> QED BY <1>2, <1>3, <1>a, <2>1, GoesOn
  <1>4. CASE CheckLocal(o)
    <2>1. UNCHANGED <<server, lastSync>> /\ pc[o] = "CheckLocal"
      BY <1>4 DEF CheckLocal
    <2>2. CASE Goto(o, "WriteLocal") /\ UNCHANGED <<status, preview>>
      BY <1>a, <2>1, <2>2
    <2>3. CASE TryAgain(o, "Generate")
      BY <1>2, <2>1, <2>3, TryAgainRemembers
    <2> QED BY <1>4, <2>2, <2>3 DEF CheckLocal
  <1>5. CASE WriteLocal(o)
    <2>1. AfterLocal(preview[o].result) \in {"WriteLocal", "WriteRemote", "Save"}
      BY DEF AfterLocal
    <2> QED BY <1>5, <1>a, <2>1 DEF WriteLocal
  <1>6. CASE WriteRemote(o)
    <2>1. pc[o] = "WriteRemote" /\ lastSync' = lastSync
      BY <1>6 DEF WriteRemote
    <2>2. CASE MayPost(preview[o])
      <3>1. PICK p \in Preview :
              /\ Becomes(o, p, "Save") /\ p.remote = Len(server) + 1
              /\ p.last = preview[o].last /\ Post(o) /\ status' = status
        BY <1>1, <1>6, <2>2, PostedPreview
      <3>2. /\ preview'[o] = p /\ pc'[o] = "Save"
            /\ \A q \in Operations \ {o} : preview'[q] = preview[q] /\ pc'[q] = pc[q]
        BY <1>1, <3>1 DEF Becomes, TypeOK
      <3>3. TakesOneOf(m)
        <4>1. PICK version \in Versions :
                  /\ version = [content |-> preview[o].result.content, machine |-> o[1]]
                  /\ server' = Append(server, version)
          BY <1>1, <3>1, PostTypes
        <4>2. version.machine = m
          BY <1>1, <4>1
        <4> QED BY <4>1, <4>2 DEF TakesOneOf
      <3>4. Len(server) + 1 > 0 /\ lastSync[m] <= Len(server) + 1
        <4>1. Len(server) \in Nat
          BY DEF TypeOK
        <4>2. lastSync[m] \in Int /\ lastSync[m] <= Len(server)
          BY DEF TypeOK, Refs, Never
        <4> QED BY <4>1, <4>2
      <3> QED BY <1>2, <1>3, <2>1, <3>1, <3>2, <3>3, <3>4, GoesOn
    <2>3. CASE ~MayPost(preview[o])
      <3>1. TryAgain(o, "Refetch") /\ server' = server
        BY <1>6, <2>3 DEF WriteRemote
      <3> QED BY <1>2, <2>1, <3>1, TryAgainRemembers
    <2> QED BY <2>2, <2>3
  <1>7. CASE Save(o)
    <2>1. /\ server' = server /\ pc[o] = "Save" /\ pc'[o] = "None" /\ preview'[o] = NoPreview
          /\ status'[m] = "Idle" /\ lastSync'[m] = preview[o].remote
          /\ \A q \in Operations \ {o} : pc'[q] = pc[q]
      <3>1. /\ server' = server /\ pc[o] = "Save" /\ pc'[o] = "None" /\ status'[m] = "Idle"
            /\ \A q \in Operations \ {o} : pc'[q] = pc[q]
        BY <1>1, <1>7 DEF Save, Finish, Goto, TypeOK
      <3>2. preview'[o] = NoPreview
        BY <1>1, <1>7 DEF Save, Finish
      <3>3. lastSync'[m] = preview[o].remote
        BY <1>1, <1>3, <1>7 DEF Save, TypeOK
      <3> QED BY <3>1, <3>2, <3>3
    <2>2. pc'[s] \in {"None", "Begin"} /\ pc'[a] = "None"
      <3>1. CASE o = s
        BY <1>1, <2>1, <3>1 DEF Remembers, Apart
      <3>2. CASE o = a
        BY <1>1, <2>1, <3>2 DEF Remembers, Apart
      <3> QED BY <3>1, <3>2
    <2>3. ~IsAsked(m)'
      BY <2>1 DEF IsAsked
    <2>4. Begun(m)'
      <3>1. CASE o = s
        BY <2>1, <3>1 DEF Begun
      <3>2. CASE o = a
        <4>1. pc'[s] = pc[s]
          BY <1>1, <2>1, <3>2
        <4>2. ~(pc[s] = "Begin" /\ manifest[m] = 0)
          BY <2>1, <3>2 DEF Remembers, Begun
        <4> QED BY <1>2, <4>1, <4>2 DEF Begun
      <3> QED BY <3>1, <3>2
    <2>5. OwnIsKnown(m)'
      <3> SUFFICES ASSUME NEW ref \in 1 .. Len(server), server[ref].machine = m
                   PROVE  ref <= preview[o].remote
        BY <2>1 DEF OwnIsKnown
      <3>1. lastSync[m] \in Int /\ preview[o].remote \in Int
        BY <1>1, PreviewTypes, RefsAreInt DEF TypeOK
      <3>2. \A q \in {s, a} : pc[q] = "Save" => q = o
        BY <2>1 DEF Remembers, Apart
      <3>3. ref <= lastSync[m] \/ ref <= preview[o].remote
        BY <3>2 DEF Remembers, OwnIsKnown
      <3> QED BY <1>3, <3>1, <3>3
    <2> QED BY <1>1, <2>2, <2>3, <2>4, <2>5
        DEF Remembers, Apart, Ordered, Holds, AskedAboutOthers
  <1> QED BY <1>4, <1>5, <1>6, <1>7 DEF ApplyStep

-----------------------------------------------------------------------------
(* The theorems *)

StepOf(m) == UserStep(m) \/ SyncStep(m) \/ ApplyStep(Applier(m)) \/ FailureStep(m)

LEMMA StepCounts ==
    ASSUME TypeOK, NEW m \in Machines, StepOf(m)
    PROVE  /\ failures \in Nat /\ failures' >= failures
           /\ FailureStep(m) => failures' # 0
  <1>1. failures \in Nat
    BY DEF TypeOK
  <1>2. ASSUME UserStep(m)
        PROVE  failures' >= failures
    <2>1. failures' \in {failures, failures + 1}
      BY <1>2 DEF UserStep, Edit, AcceptMerged, AcceptLocal, AcceptRemote, Accept,
                AcceptNothing, CountEdit, CountFailure, environment
    <2> QED BY <1>1, <2>1
  <1>3. FailureStep(m) => failures' = failures + 1
    BY DEF FailureStep, RequestFails, Restart, TurnOff, CountFailure
  <1>4. ASSUME SyncStep(m) \/ ApplyStep(Applier(m))
        PROVE  failures' >= failures
    <2>1. failures' = failures
      BY <1>4 DEF SyncStep, ApplyStep, FetchManifest, SkipSync, BeginSync, Resync, Fetch,
                Generate, CheckLocal, WriteLocal, WriteRemote, Save, Finish, environment
    <2> QED BY <1>1, <2>1
  <1>5. failures' >= failures
    BY <1>1, <1>2, <1>3, <1>4 DEF StepOf
  <1> QED BY <1>1, <1>3, <1>5

LEMMA ApplyStepStays ==
    ASSUME TypeOK, NEW m \in Machines, NEW n \in Machines, n # m,
           NEW o \in {Syncer(n), Applier(n)}, ApplyStep(o) \/ RequestFails(o)
    PROVE  Stays(m) /\ TakesOneOf(n)
  <1>1. /\ o \in Operations /\ o[1] = n
        /\ \A q \in {Syncer(m), Applier(m)} : q \in Operations /\ q[1] = m /\ q # o
    BY OperationsOf
  <1>a. ASSUME Throw(o) \/ \E label : Goto(o, label) /\ UNCHANGED <<status, preview>>,
               lastSync' = lastSync, manifest' = manifest
        PROVE  Stays(m)
    BY <1>1, <1>a DEF Throw, Goto, Stays, TypeOK
  <1>b. ASSUME Post(o)
        PROVE  TakesOneOf(n)
    <2>1. PICK version \in Versions :
              /\ version = [content |-> preview[o].result.content, machine |-> o[1]]
              /\ server' = Append(server, version)
      BY <1>1, <1>b, PostTypes
    <2>2. version.machine = n
      BY <1>1, <2>1
    <2> QED BY <2>1, <2>2 DEF TakesOneOf
  <1>2. CASE CheckLocal(o) \/ WriteLocal(o)
    BY <1>2, <1>a DEF CheckLocal, WriteLocal, TryAgain, TakesOneOf
  <1>3. CASE WriteRemote(o)
    <2>1. CASE MayPost(preview[o])
      <3>1. PICK p \in Preview : Becomes(o, p, "Save") /\ Post(o) /\ status' = status
        BY <1>1, <1>3, <2>1, PostedPreview
      <3>2. lastSync' = lastSync /\ manifest' = manifest
        BY <1>3 DEF WriteRemote
      <3> QED BY <1>1, <1>b, <3>1, <3>2 DEF Becomes, Stays, TypeOK
    <2>2. CASE ~MayPost(preview[o])
      BY <1>3, <1>a, <2>2 DEF WriteRemote, TryAgain, TakesOneOf
    <2> QED BY <2>1, <2>2
  <1>4. CASE Save(o)
    BY <1>1, <1>4 DEF Save, Finish, Goto, Stays, TakesOneOf, TypeOK
  <1>5. CASE RequestFails(o)
    BY <1>5, <1>a, <1>b DEF RequestFails, TakesOneOf
  <1> QED BY <1>2, <1>3, <1>4, <1>5 DEF ApplyStep

LEMMA StepStays ==
    ASSUME TypeOK, NEW m \in Machines, NEW n \in Machines, n # m, StepOf(n)
    PROVE  Stays(m) /\ TakesOneOf(n)
  <1>1. /\ Syncer(n) \in Operations /\ Applier(n) \in Operations
        /\ \A q \in {Syncer(m), Applier(m)} :
              q \in Operations /\ q[1] = m /\ q # Syncer(n) /\ q # Applier(n)
    BY OperationsOf
  <1>2. CASE UserStep(n)
    <2>1. ASSUME NEW content, NEW localChange, NEW remoteChange, NEW force,
                 Accept(n, content, localChange, remoteChange, force)
          PROVE  Stays(m) /\ TakesOneOf(n)
      BY <1>1, <2>1 DEF Accept, TypeOK, Stays, TakesOneOf
    <2>2. CASE AcceptNothing(n) \/ \E content \in MaybeContents : Edit(n, content)
      BY <2>2 DEF AcceptNothing, Edit, TypeOK, Stays, TakesOneOf
    <2> QED BY <1>2, <2>1, <2>2 DEF UserStep, AcceptMerged, AcceptLocal, AcceptRemote
  <1>3. CASE FetchManifest(n) \/ SkipSync(n) \/ BeginSync(n) \/ Resync(n)
    BY <1>1, <1>3 DEF FetchManifest, SkipSync, BeginSync, Resync, Goto, TypeOK, Stays, TakesOneOf
  <1>4. CASE Fetch(n) \/ Generate(n)
    BY <1>1, <1>4 DEF Fetch, Generate, Goto, TypeOK, Stays, TakesOneOf
  <1>5. CASE \E o \in {Syncer(n), Applier(n)} : ApplyStep(o) \/ RequestFails(o)
    BY <1>5, ApplyStepStays
  <1>6. CASE Restart(n) \/ TurnOff(n)
    BY <1>1, <1>6 DEF Restart, TurnOff, Forget, TypeOK, Stays, TakesOneOf
  <1> QED BY <1>2, <1>3, <1>4, <1>5, <1>6 DEF StepOf, SyncStep, FailureStep

LEMMA InitKnows == Init => SyncInv
  <1> SUFFICES ASSUME Init PROVE SyncInv
    OBVIOUS
  <1>1. ASSUME NEW o \in Operations
        PROVE  Knows(o)
    <2>1. pc[o] = "None" /\ preview[o] = NoPreview
      BY <1>1 DEF Init
    <2> QED BY <2>1, NoPreviewType DEF Knows, MergeKnew, ReadIsCurrent, CheckIsCurrent
  <1>2. ASSUME NEW m \in Machines
        PROVE  EditIsKept(m) /\ Clean(m)
    <2>1. /\ pc[Syncer(m)] = "None" /\ pc[Applier(m)] = "None" /\ status[m] = "Idle"
          /\ server = <<>> /\ Len(server) = 0 /\ edit = file
      BY <1>2, OperationsOf DEF Init
    <2>2. ~IsAsked(m)
      BY <2>1 DEF IsAsked
    <2> QED BY <1>2, <2>1, <2>2, OperationsOf
        DEF Clean, Remembers, Apart, Ordered, Holds, Begun, OwnIsKnown, AskedAboutOthers,
            EditIsKept
  <1> QED BY <1>1, <1>2, InitTypes DEF SyncInv, OpsInv

LEMMA StepKnows ==
    ASSUME SyncInv, [Next]_vars
    PROVE  SyncInv'
  <1>1. TypeOK /\ OpsInv /\ TypeOK'
    BY StepTypes DEF SyncInv
  <1>2. CASE UNCHANGED vars
    <2>1. OpsInv'
      BY <1>1, <1>2 DEF vars, OpsInv, Knows, MergeKnew, BaseRef, ContentOf, ReadIsCurrent,
                   CheckIsCurrent, EditIsKept
    <2>2. ASSUME NEW m \in Machines
          PROVE  Clean(m)'
      BY <1>2, <2>2 DEF SyncInv, vars, Clean, Remembers, Apart, Ordered, Holds, Begun,
                   OwnIsKnown, AskedAboutOthers, IsAsked
    <2> QED BY <1>1, <2>1, <2>2 DEF SyncInv
  <1>3. ASSUME NEW n \in Machines, StepOf(n)
        PROVE  SyncInv'
    <2>1. OpsInv'
      BY <1>1, <1>3, UserStepKnows, ReadStepKnows, CheckLocalKnows, WriteLocalKnows,
         WriteRemoteKnows, SaveKnows, FailureKnows, OperationsOf
      DEF StepOf, SyncStep, ApplyStep
    <2>2. failures \in Nat /\ failures' >= failures /\ (FailureStep(n) => failures' # 0)
      BY <1>1, <1>3, StepCounts
    <2>3. ASSUME NEW m \in Machines, failures' = 0
          PROVE  Remembers(m)'
      <3>1. Remembers(m)
        BY <2>2, <2>3 DEF SyncInv, Clean
      <3>2. CASE m # n
        BY <1>1, <1>3, <3>1, <3>2, StepStays, OthersRemember
      <3>3. CASE m = n
        BY <1>1, <1>3, <2>2, <2>3, <3>1, <3>3, UserStepRemembers, BeginStepRemembers,
           ResultStepRemembers, ApplyStepRemembers
        DEF StepOf, SyncStep
      <3> QED BY <3>2, <3>3
    <2> QED BY <1>1, <2>1, <2>3 DEF SyncInv, Clean
  <1> QED BY <1>2, <1>3 DEF Next, StepOf

LEMMA KnowledgeIsKept == Spec => []SyncInv
  BY InitKnows, StepKnows, PTL DEF Spec

(* The user's last edit of a file survives every operation, whoever writes  *)
(* to the server, whatever fails, and however the operations of a machine   *)
(* overlap, but for an edit between the file service's check and its write  *)
(* (applyResult backs up what the operation has read, and the file service  *)
(* refuses to replace a file that was changed before its check).            *)
THEOREM EditsSurvive == Spec => []EditsAreKept
  <1>1. SyncInv => EditsAreKept
    BY DEF SyncInv, OpsInv, EditIsKept, EditsAreKept
  <1> QED BY <1>1, KnowledgeIsKept, PTL

(* Without failures the version in conflict with the file of a machine was  *)
(* written by another one (doSync takes the version that it has synchronised*)
(* for the base of the merge, and updateLastSyncUserData follows each post).*)
THEOREM ConflictsAreWithOthers == Spec => []NoConflictWithItself
  <1>1. SyncInv => NoConflictWithItself
    BY DEF SyncInv, Clean, Remembers, AskedAboutOthers, NoConflictWithItself
  <1> QED BY <1>1, KnowledgeIsKept, PTL

(* A version of the server is replaced only by a machine that knew it, or   *)
(* by a user who saw it or decided with force (updateRemoteUserData sends   *)
(* the reference that the merge was made with).                             *)
THEOREM NothingIsReplacedUnseen == Spec => NothingUnseenReplaced
  <1> DEFINE Seen(o) ==
        /\ pc[o] = "WriteRemote" /\ server'[Len(server')].machine = o[1]
        /\ server'[Len(server')].content = preview[o].result.content
        /\ IF preview[o].kind = "apply"
           THEN preview[o].force \/ preview[o].remote = Len(server)
           ELSE ContentOf(Len(server)) = ContentOf(BaseRef(o[1], preview[o]))
  <1>1. ASSUME SyncInv, Next, server' # server
        PROVE  \E o \in Operations : Seen(o)
    <2>1. PICK n \in Machines : StepOf(n)
      BY <1>1 DEF Next, StepOf
    <2>2. PICK o \in Operations : pc[o] = "WriteRemote" /\ Post(o) /\ MayPost(preview[o])
      BY <1>1, <2>1, OperationsOf
      DEF StepOf, UserStep, Edit, AcceptMerged, AcceptLocal, AcceptRemote, Accept,
          AcceptNothing, SyncStep, FetchManifest, SkipSync, BeginSync, Resync, Fetch, Generate,
          ApplyStep, CheckLocal, WriteLocal, WriteRemote, Save, Finish, FailureStep,
          RequestFails, Restart, TurnOff
    <2>3. TypeOK /\ Knows(o)
      BY <1>1 DEF SyncInv, OpsInv
    <2>4. server'[Len(server')] = [content |-> preview[o].result.content, machine |-> o[1]]
      <3>1. PICK version \in Versions :
                /\ version = [content |-> preview[o].result.content, machine |-> o[1]]
                /\ server' = Append(server, version)
        BY <2>2, <2>3, PostTypes
      <3> QED BY <2>3, <3>1, RefsGrow
    <2>5. CASE preview[o].kind = "apply"
      BY <2>2, <2>4, <2>5 DEF MayPost
    <2>6. CASE preview[o].kind # "apply"
      <3>1. ~preview[o].force /\ preview[o].remote = Len(server)
        BY <2>2, <2>3, <2>6 DEF MayPost, Knows, MergeKnew
      <3>2. Len(server) \in Nat /\ preview[o].last \in Refs \cup {Never}
        BY <2>3, PreviewTypes DEF TypeOK
      <3>3. CASE Len(server) > 0
        BY <2>2, <2>3, <2>4, <2>6, <3>1, <3>3 DEF Knows, MergeKnew
      <3>4. CASE Len(server) = 0
        <4>1. BaseRef(o[1], preview[o]) <= 0
          BY <3>1, <3>2, <3>4 DEF BaseRef, Refs, Never
        <4> QED BY <2>2, <2>4, <2>6, <3>1, <3>4, <4>1 DEF ContentOf
      <3> QED BY <3>2, <3>3, <3>4
    <2> QED BY <2>5, <2>6
  <1>2. SyncInv /\ [Next]_vars => [server' # server => \E o \in Operations : Seen(o)]_vars
    BY <1>1
  <1> QED BY <1>2, KnowledgeIsKept, PTL DEF Spec, NothingUnseenReplaced

=============================================================================
