----------------------- MODULE ApplicationEditorProofs -----------------------
(* Proofs about EventHorizons and ApplicationEditor, for any microservices,   *)
(* tenants, commands, drags and connections.  Of the files of connections,    *)
(* lemmas say what each step of a connect and of a command that changes the   *)
(* tenants keeps; every step of the editor is one of those or leaves them     *)
(* alone.                                                                     *)
EXTENDS ApplicationEditor, TLAPS

\* A process as it may be in a state of the files.
ProcessTypes ==
  [step : Steps, producer : {NoFile} \cup Microservices,
   consumer : {NoFile} \cup Microservices, overwrite : BOOLEAN,
   consents : {NoFile} \cup Entries, horizons : {NoFile} \cup Entries]

FilesTypes ==
  /\ tenants \in {NoFile} \cup SUBSET Tenants
  /\ consents \in [Microservices -> {NoFile} \cup Entries]
  /\ horizons \in [Microservices -> {NoFile} \cup Entries]
  /\ edit \in [TenantCommands -> [step : {"new", "saving", "done"}, tenants : SUBSET Tenants]]

HistoryTypes ==
  /\ overlapped \subseteq Processes
  /\ interrupted \subseteq Microservices \X Microservices
  /\ disturbed \subseteq Microservices \X Microservices

\* A connect that is under way has its two microservices.
UnderWay == HasConsents \cup HasHorizons \cup {"drawing"}

Pairs ==
  \A k \in Processes : process[k].step \in UnderWay =>
    process[k].producer \in Microservices /\ process[k].consumer \in Microservices

HorizonsTypes == HorizonsTypeOK /\ Pairs

LEMMA HorizonsGroups ==
  HorizonsTypeOK <=> FilesTypes /\ HistoryTypes /\ process \in [Processes -> ProcessTypes]
BY DEF HorizonsTypeOK, FilesTypes, HistoryTypes, ProcessTypes

\* NoFile is no set of entries and no set of tenants.
LEMMA NoFileApart ==
  /\ \A S \in Entries : S # NoFile
  /\ \A S \in SUBSET Tenants : S # NoFile
BY FilesAssumption

LEMMA ContentsEntries ==
  ASSUME NEW file \in {NoFile} \cup Entries
  PROVE  Contents(file) \in Entries
BY DEF Contents, Entries

LEMMA ContentsTenants ==
  ASSUME tenants \in {NoFile} \cup SUBSET Tenants
  PROVE  Contents(tenants) \in SUBSET Tenants
BY DEF Contents

LEMMA LoadedEntries ==
  ASSUME NEW k, NEW file \in {NoFile} \cup Entries
  PROVE  Loaded(k, file) \in {NoFile} \cup Entries
BY ContentsEntries DEF Loaded

LEMMA AddedEntries ==
  ASSUME NEW file \in {NoFile} \cup Entries, NEW entries \in Entries
  PROVE  Added(file, entries) \in {NoFile} \cup Entries
BY DEF Added, Entries

LEMMA EndedProcess ==
  ASSUME NEW step \in {"new", "done", "refused", "crashed"}
  PROVE  At(step) \in ProcessTypes /\ At(step).step = step /\ step \notin UnderWay
BY DEF At, ProcessTypes, Steps, Entries, UnderWay, HasConsents, HasHorizons

LEMMA TenantsForTyped ==
  ASSUME HorizonsTypes, NEW k \in Processes
  PROVE  TenantsFor(k) \subseteq Tenants
BY FilesAssumption, ContentsTenants DEF TenantsFor, HorizonsTypes, HorizonsTypeOK

LEMMA GrantedEntries ==
  ASSUME HorizonsTypes, NEW k \in Processes, process[k].step \in UnderWay
  PROVE  /\ Granted(k) \in Entries
         /\ Subscribed(k) \in Entries
         /\ Pair(k) \in Microservices \X Microservices
BY TenantsForTyped DEF Granted, Subscribed, Pair, Entries, HorizonsTypes, Pairs

-----------------------------------------------------------------------------
(* Types are kept.                                                            *)

\* A step of a process, when what it makes of the process is well typed.
LEMMA OneProcess ==
  ASSUME HorizonsTypes, NEW k \in Processes, NEW q \in ProcessTypes,
         process' = [process EXCEPT ![k] = q],
         q.step \in UnderWay => q.producer \in Microservices /\ q.consumer \in Microservices,
         FilesTypes', HistoryTypes'
  PROVE  HorizonsTypes'
<1>1. process \in [Processes -> ProcessTypes]
  BY HorizonsGroups DEF HorizonsTypes
<1>2. process' \in [Processes -> ProcessTypes]
  BY <1>1
<1>3. Pairs'
  BY <1>1 DEF HorizonsTypes, Pairs
<1>4. HorizonsTypeOK'
  BY <1>2 DEF FilesTypes, HistoryTypes, HorizonsTypeOK, ProcessTypes
<1> QED
  BY <1>3, <1>4 DEF HorizonsTypes

LEMMA BeginTyped ==
  ASSUME HorizonsTypes, NEW k \in Processes, NEW p \in Microservices, NEW c \in Microservices,
         NEW overwrite \in BOOLEAN, Begin(k, p, c, overwrite)
  PROVE  HorizonsTypes'
<1> DEFINE q == [step |-> "reading", producer |-> p, consumer |-> c, overwrite |-> overwrite,
                 consents |-> IF overwrite THEN {} ELSE Loaded(k, consents[p]), horizons |-> {}]
<1>0. FilesTypes /\ HistoryTypes
  BY HorizonsGroups DEF HorizonsTypes
<1>1. {} \in Entries /\ Loaded(k, consents[p]) \in {NoFile} \cup Entries
  BY <1>0, LoadedEntries DEF FilesTypes, Entries
<1>2. q \in ProcessTypes
  BY <1>1 DEF ProcessTypes, Steps
<1>3. process' = [process EXCEPT ![k] = q]
  BY DEF Begin
<1>4. q.producer \in Microservices /\ q.consumer \in Microservices
  OBVIOUS
<1>5. FilesTypes' /\ HistoryTypes'
  BY <1>0 DEF Begin, files, FilesTypes, HistoryTypes
<1> HIDE DEF q
<1> QED
  BY <1>2, <1>3, <1>4, <1>5, OneProcess

\* The steps that change the process only, but for the history.
LEMMA StepTyped ==
  ASSUME HorizonsTypes, NEW k \in Processes,
         ReadHorizons(k) \/ Grant(k) \/ Subscribe(k) \/ Refuse(k) \/ Crash(k)
  PROVE  HorizonsTypes'
<1>0. FilesTypes /\ HistoryTypes /\ process \in [Processes -> ProcessTypes]
  BY HorizonsGroups DEF HorizonsTypes
<1>f. FilesTypes'
  BY <1>0 DEF ReadHorizons, Grant, Subscribe, Refuse, Crash, files, FilesTypes
<1>h. HistoryTypes'
  <2>1. CASE Crash(k)
    <3>1. process[k].step = "saved" => Pair(k) \in Microservices \X Microservices
      BY GrantedEntries DEF UnderWay, HasHorizons
    <3> QED
      BY <1>0, <2>1, <3>1 DEF Crash, Interrupt, HistoryTypes
  <2>2. CASE ReadHorizons(k) \/ Grant(k) \/ Subscribe(k) \/ Refuse(k)
    BY <1>0, <2>2 DEF ReadHorizons, Grant, Subscribe, Refuse, HistoryTypes
  <2> QED
    BY <2>1, <2>2
<1>p. process[k].step \in UnderWay =>
        process[k].producer \in Microservices /\ process[k].consumer \in Microservices
  BY DEF HorizonsTypes, Pairs
<1>1. CASE ReadHorizons(k)
  <2> DEFINE read == IF process[k].overwrite THEN {}
                     ELSE Loaded(k, horizons[process[k].consumer])
             q == [process[k] EXCEPT !.step = "granting", !.horizons = read]
  <2>1. process[k].step = "reading"
    BY <1>1 DEF ReadHorizons
  <2>2. process[k].consumer \in Microservices /\ process[k].producer \in Microservices
    BY <1>p, <2>1 DEF UnderWay, HasConsents
  <2>3. read \in {NoFile} \cup Entries
    BY <1>0, <2>2, LoadedEntries DEF FilesTypes, Entries
  <2> HIDE DEF read
  <2>4. q \in ProcessTypes /\ q.producer \in Microservices /\ q.consumer \in Microservices
    BY <1>0, <2>2, <2>3 DEF ProcessTypes, Steps
  <2>5. process' = [process EXCEPT ![k] = q]
    BY <1>0, <1>1 DEF ReadHorizons, read
  <2> HIDE DEF q
  <2> QED
    BY <2>4, <2>5, <1>f, <1>h, OneProcess
<1>2. CASE Grant(k)
  <2> DEFINE all == Added(process[k].consents, Granted(k))
             q == [process[k] EXCEPT !.step = "subscribing", !.consents = all]
  <2>1. process[k].step \in UnderWay
    BY <1>2 DEF Grant, UnderWay, HasConsents
  <2>2. all \in {NoFile} \cup Entries
    BY <1>0, <2>1, GrantedEntries, AddedEntries DEF ProcessTypes
  <2> HIDE DEF all
  <2>3. q \in ProcessTypes /\ q.producer \in Microservices /\ q.consumer \in Microservices
    BY <1>0, <1>p, <2>1, <2>2 DEF ProcessTypes, Steps
  <2>4. process' = [process EXCEPT ![k] = q]
    BY <1>0, <1>2 DEF Grant, all
  <2> HIDE DEF q
  <2> QED
    BY <2>3, <2>4, <1>f, <1>h, OneProcess
<1>3. CASE Subscribe(k)
  <2> DEFINE all == Added(process[k].horizons, Subscribed(k))
             q == [process[k] EXCEPT !.step = "saving", !.horizons = all]
  <2>1. process[k].step \in UnderWay
    BY <1>3 DEF Subscribe, UnderWay, HasConsents
  <2>2. all \in {NoFile} \cup Entries
    BY <1>0, <2>1, GrantedEntries, AddedEntries DEF ProcessTypes
  <2> HIDE DEF all
  <2>3. q \in ProcessTypes /\ q.producer \in Microservices /\ q.consumer \in Microservices
    BY <1>0, <1>p, <2>1, <2>2 DEF ProcessTypes, Steps
  <2>4. process' = [process EXCEPT ![k] = q]
    BY <1>0, <1>3 DEF Subscribe, all
  <2> HIDE DEF q
  <2> QED
    BY <2>3, <2>4, <1>f, <1>h, OneProcess
<1>4. CASE Refuse(k)
  BY <1>4, <1>f, <1>h, EndedProcess, OneProcess DEF Refuse
<1>5. CASE Crash(k)
  BY <1>5, <1>f, <1>h, EndedProcess, OneProcess DEF Crash
<1> QED
  BY <1>1, <1>2, <1>3, <1>4, <1>5

LEMMA DroppedPairs ==
  ASSUME HorizonsTypes, NEW k \in Processes, process[k].step \in UnderWay
  PROVE  /\ DropsConsents(k) \subseteq Microservices \X Microservices
         /\ DropsHorizons(k) \subseteq Microservices \X Microservices
BY DEF DropsConsents, DropsHorizons, HorizonsTypes, Pairs

\* After its last save a command has ended, and the editor draws.
AfterHorizons(k) ==
  IF k = Editor THEN [process[k] EXCEPT !.step = "drawing"] ELSE At("done")

LEMMA SavesTyped ==
  ASSUME HorizonsTypes, NEW k \in Processes, SaveConsents(k) \/ SaveHorizons(k)
  PROVE  HorizonsTypes'
<1>0. FilesTypes /\ HistoryTypes /\ process \in [Processes -> ProcessTypes]
  BY HorizonsGroups DEF HorizonsTypes
<1>1. process[k].step \in UnderWay
  BY DEF SaveConsents, SaveHorizons, UnderWay, HasConsents, HasHorizons
<1>2. process[k].producer \in Microservices /\ process[k].consumer \in Microservices
  BY <1>1 DEF HorizonsTypes, Pairs
<1>f. FilesTypes'
  BY <1>0, <1>2 DEF SaveConsents, SaveHorizons, FilesTypes, ProcessTypes
<1>h. HistoryTypes'
  <2>1. UNCHANGED interrupted
    BY DEF SaveConsents, SaveHorizons
  <2>2. overlapped' \subseteq Processes
    BY <1>0 DEF SaveConsents, SaveHorizons, Others, HistoryTypes
  <2>3. disturbed' \subseteq Microservices \X Microservices
    BY <1>0, <1>1, DroppedPairs, GrantedEntries DEF SaveConsents, SaveHorizons, Disturb, HistoryTypes
  <2> QED
    BY <1>0, <2>1, <2>2, <2>3 DEF HistoryTypes
<1>3. CASE SaveConsents(k)
  <2> DEFINE q == [process[k] EXCEPT !.step = "saved"]
  <2>1. q \in ProcessTypes /\ q.producer \in Microservices /\ q.consumer \in Microservices
    BY <1>0, <1>2 DEF ProcessTypes, Steps
  <2>2. process' = [process EXCEPT ![k] = q]
    BY <1>0, <1>3 DEF SaveConsents
  <2> HIDE DEF q
  <2> QED
    BY <2>1, <2>2, <1>f, <1>h, OneProcess
<1>4. CASE SaveHorizons(k)
  <2>1. AfterHorizons(k) \in ProcessTypes
    BY <1>0, EndedProcess DEF AfterHorizons, ProcessTypes, Steps
  <2>2. AfterHorizons(k).step \in UnderWay =>
          AfterHorizons(k).producer \in Microservices /\ AfterHorizons(k).consumer \in Microservices
    BY <1>0, <1>2, EndedProcess DEF AfterHorizons, ProcessTypes
  <2>3. process' = [process EXCEPT ![k] = AfterHorizons(k)]
    BY <1>0, <1>4 DEF SaveHorizons, AfterHorizons
  <2> QED
    BY <2>1, <2>2, <2>3, <1>f, <1>h, OneProcess
<1> QED
  BY <1>3, <1>4

LEMMA ThrowTyped ==
  ASSUME HorizonsTypes, Throw
  PROVE  HorizonsTypes'
<1>0. FilesTypes /\ HistoryTypes
  BY HorizonsGroups DEF HorizonsTypes
<1>1. Editor \in Processes /\ process[Editor].step \in UnderWay
  BY DEF Throw, UnderWay, HasConsents, HasHorizons, Processes
<1>2. FilesTypes' /\ HistoryTypes'
  BY <1>0, <1>1, GrantedEntries DEF Throw, Interrupt, files, FilesTypes, HistoryTypes
<1> QED
  BY <1>1, <1>2, EndedProcess, OneProcess DEF Throw

LEMMA TenantCommandsTyped ==
  ASSUME HorizonsTypes, NEW k \in TenantCommands, ReadTenants(k) \/ SaveTenants(k)
  PROVE  HorizonsTypes'
<1>0. FilesTypes /\ HistoryTypes /\ process \in [Processes -> ProcessTypes]
  BY HorizonsGroups DEF HorizonsTypes
<1>1. UNCHANGED process
  BY DEF ReadTenants, SaveTenants, connectVars
<1>2. edit' \in [TenantCommands -> [step : {"new", "saving", "done"}, tenants : SUBSET Tenants]]
  BY <1>0 DEF ReadTenants, SaveTenants, FilesTypes
<1>3. FilesTypes'
  BY <1>0, <1>2 DEF ReadTenants, SaveTenants, files, FilesTypes
<1>4. HistoryTypes'
  BY <1>0 DEF ReadTenants, SaveTenants, Others, connectVars, HistoryTypes
<1>5. HorizonsTypeOK'
  BY <1>0, <1>1, <1>3, <1>4 DEF FilesTypes, HistoryTypes, HorizonsTypeOK, ProcessTypes
<1>6. Pairs'
  BY <1>1 DEF HorizonsTypes, Pairs
<1> QED
  BY <1>5, <1>6 DEF HorizonsTypes

LEMMA CommandsTyped ==
  ASSUME HorizonsTypes, NEW microservices \in SUBSET Microservices, CommandNext(microservices)
  PROVE  HorizonsTypes'
<1>1. Connects \subseteq Processes
  BY DEF Processes
<1> QED
  BY <1>1, BeginTyped, StepTyped, SavesTyped, TenantCommandsTyped DEF CommandNext, Continue

-----------------------------------------------------------------------------
(* What a connect has, compared with the files it has read.                   *)

\* The last step of the editor, when it has drawn a connection.
EditorEnds ==
  /\ process[Editor].step = "drawing"
  /\ process' = [process EXCEPT ![Editor] = At("new")]
  /\ UNCHANGED <<files, edit, overlapped, interrupted, disturbed>>

\* Any step that concerns the files, or none.
FilesStep ==
  \/ \E microservices \in SUBSET Microservices : CommandNext(microservices)
  \/ Throw
  \/ \E p, c \in Microservices : Begin(Editor, p, c, FALSE)
  \/ EditorEnds
  \/ UNCHANGED horizonVars

\* The same by actions: Q follows from every step if it does from each.
Beginning == \E k \in Processes, p, c \in Microservices, overwrite \in BOOLEAN : Begin(k, p, c, overwrite)
Ending(k) == Refuse(k) \/ Crash(k) \/ (k = Editor /\ (Throw \/ EditorEnds))

LEMMA FilesSteps ==
  ASSUME FilesStep
  PROVE  \/ Beginning
         \/ \E k \in Processes :
              ReadHorizons(k) \/ Grant(k) \/ Subscribe(k) \/ SaveConsents(k) \/ SaveHorizons(k) \/ Ending(k)
         \/ \E k \in TenantCommands : ReadTenants(k) \/ SaveTenants(k)
         \/ UNCHANGED horizonVars
<1>1. Connects \subseteq Processes /\ Editor \in Processes /\ FALSE \in BOOLEAN
  BY DEF Processes
<1> QED
  BY <1>1 DEF FilesStep, CommandNext, Continue, Beginning, Ending

LEMMA FilesStepTyped ==
  ASSUME HorizonsTypes, FilesStep
  PROVE  HorizonsTypes'
<1>1. Editor \in Processes /\ FALSE \in BOOLEAN
  BY DEF Processes
<1>2. CASE EditorEnds
  <2>1. FilesTypes /\ HistoryTypes
    BY HorizonsGroups DEF HorizonsTypes
  <2>2. FilesTypes' /\ HistoryTypes'
    BY <1>2, <2>1 DEF EditorEnds, files, FilesTypes, HistoryTypes
  <2> QED
    BY <1>1, <1>2, <2>2, EndedProcess, OneProcess DEF EditorEnds
<1>3. CASE UNCHANGED horizonVars
  BY <1>3 DEF horizonVars, connectVars, files, HorizonsTypes, HorizonsTypeOK, Pairs
<1> QED
  BY <1>1, <1>2, <1>3, CommandsTyped, ThrowTyped, BeginTyped DEF FilesStep

\* A step of one process leaves the others where they were.
LEMMA OthersStay ==
  ASSUME HorizonsTypes, NEW k \in Processes, NEW j \in Processes \ {k},
         \/ ReadHorizons(k) \/ Grant(k) \/ Subscribe(k) \/ SaveConsents(k) \/ SaveHorizons(k)
         \/ Ending(k) \/ \E p, c \in Microservices, overwrite \in BOOLEAN : Begin(k, p, c, overwrite)
  PROVE  process'[j] = process[j]
<1>1. process \in [Processes -> ProcessTypes]
  BY HorizonsGroups DEF HorizonsTypes
<1> QED
  BY <1>1 DEF ReadHorizons, Grant, Subscribe, SaveConsents, SaveHorizons, Ending, Refuse, Crash, Throw,
              EditorEnds, Begin

\* What is read has all that is in its file, and keeps it when more is added.
LEMMA LoadedHasAll ==
  ASSUME NEW k, NEW file \in {NoFile} \cup Entries
  PROVE  HasAll(Loaded(k, file), file)
BY NoFileApart, ContentsEntries DEF HasAll, Loaded, Contents

LEMMA AddedHasAll ==
  ASSUME NEW mine \in {NoFile} \cup Entries, NEW file \in {NoFile} \cup Entries,
         NEW entries \in Entries, HasAll(mine, file)
  PROVE  HasAll(Added(mine, entries), file)
BY NoFileApart, AddedEntries DEF HasAll, Added, Entries

LEMMA WhatIsThereKept ==
  ASSUME HorizonsTypes, \A k \in Processes : HasWhatIsThere(k), FilesStep
  PROVE  \A k \in Processes : HasWhatIsThere(k)'
<1>0. FilesTypes /\ HistoryTypes /\ process \in [Processes -> ProcessTypes]
  BY HorizonsGroups DEF HorizonsTypes
<1>1. ASSUME NEW j \in Processes, process'[j] = process[j],
             j \in overlapped => j \in overlapped', UNCHANGED <<consents, horizons>>
      PROVE  HasWhatIsThere(j)'
  BY <1>1 DEF HasWhatIsThere
<1>2. ASSUME NEW j \in Processes, process'[j].step \notin HasConsents \cup HasHorizons
      PROVE  HasWhatIsThere(j)'
  BY <1>2 DEF HasWhatIsThere
<1>3. ASSUME NEW k \in Processes, NEW p \in Microservices, NEW c \in Microservices,
             NEW overwrite \in BOOLEAN, Begin(k, p, c, overwrite), NEW j \in Processes
      PROVE  HasWhatIsThere(j)'
  <2>1. CASE j = k
    <3>1. /\ process'[k].step = "reading" /\ process'[k].producer = p
          /\ process'[k].overwrite = overwrite
          /\ ~overwrite => process'[k].consents = Loaded(k, consents[p])
      BY <1>0, <1>3 DEF Begin
    <3>2. HasAll(Loaded(k, consents[p]), consents[p])
      BY <1>0, LoadedHasAll DEF FilesTypes
    <3>3. UNCHANGED consents /\ "reading" \notin HasHorizons
      BY <1>3 DEF Begin, files, HasHorizons
    <3> QED
      BY <2>1, <3>1, <3>2, <3>3 DEF HasWhatIsThere, HasAll
  <2>2. CASE j # k
    BY <1>1, <1>3, <2>2, OthersStay DEF Begin, files
  <2> QED
    BY <2>1, <2>2
<1>4. ASSUME NEW k \in Processes, ReadHorizons(k), NEW j \in Processes PROVE HasWhatIsThere(j)'
  <2>1. CASE j = k
    <3>1. process[k].step = "reading" /\ process[k].consumer \in Microservices
      BY <1>4 DEF ReadHorizons, HorizonsTypes, Pairs, UnderWay, HasConsents
    <3>2. /\ process'[k].producer = process[k].producer /\ process'[k].consumer = process[k].consumer
          /\ process'[k].overwrite = process[k].overwrite
          /\ process'[k].consents = process[k].consents
          /\ ~process[k].overwrite => process'[k].horizons = Loaded(k, horizons[process[k].consumer])
      BY <1>0, <1>4 DEF ReadHorizons, ProcessTypes
    <3>3. HasAll(Loaded(k, horizons[process[k].consumer]), horizons[process[k].consumer])
      BY <1>0, <3>1, LoadedHasAll DEF FilesTypes
    <3>4. UNCHANGED <<consents, horizons, overlapped>> /\ "reading" \in HasConsents
      BY <1>4 DEF ReadHorizons, files, HasConsents
    <3> QED
      BY <2>1, <3>1, <3>2, <3>3, <3>4 DEF HasWhatIsThere, HasAll, Contents
  <2>2. CASE j # k
    BY <1>1, <1>4, <2>2, OthersStay DEF ReadHorizons, files
  <2> QED
    BY <2>1, <2>2
<1>5. ASSUME NEW k \in Processes, Grant(k) \/ Subscribe(k), NEW j \in Processes
      PROVE HasWhatIsThere(j)'
  <2>1. CASE j = k
    <3>1. process[k].step \in HasConsents /\ process[k].step \in HasHorizons
      BY <1>5 DEF Grant, Subscribe, HasConsents, HasHorizons
    <3>2. /\ process[k].producer \in Microservices /\ process[k].consumer \in Microservices
          /\ Granted(k) \in Entries /\ Subscribed(k) \in Entries
      BY <3>1, GrantedEntries DEF HorizonsTypes, Pairs, UnderWay
    <3>3. /\ process'[k].producer = process[k].producer /\ process'[k].consumer = process[k].consumer
          /\ process'[k].overwrite = process[k].overwrite
          /\ \/ /\ process'[k].consents = Added(process[k].consents, Granted(k))
                /\ process'[k].horizons = process[k].horizons
             \/ /\ process'[k].consents = process[k].consents
                /\ process'[k].horizons = Added(process[k].horizons, Subscribed(k))
      BY <1>0, <1>5 DEF Grant, Subscribe, ProcessTypes
    <3>4. UNCHANGED <<consents, horizons, overlapped>>
      BY <1>5 DEF Grant, Subscribe, files
    <3>5. /\ process[k].consents \in {NoFile} \cup Entries
          /\ process[k].horizons \in {NoFile} \cup Entries
          /\ consents[process[k].producer] \in {NoFile} \cup Entries
          /\ horizons[process[k].consumer] \in {NoFile} \cup Entries
      BY <1>0, <3>2 DEF FilesTypes, ProcessTypes
    <3>6. ASSUME k \notin overlapped, ~process[k].overwrite
          PROVE  /\ HasAll(process'[k].consents, consents[process[k].producer])
                 /\ HasAll(process'[k].horizons, horizons[process[k].consumer])
      BY <3>1, <3>2, <3>3, <3>5, <3>6, AddedHasAll DEF HasWhatIsThere
    <3> QED
      BY <2>1, <3>3, <3>4, <3>6 DEF HasWhatIsThere, HasAll, Contents
  <2>2. CASE j # k
    BY <1>1, <1>5, <2>2, OthersStay DEF Grant, Subscribe, files
  <2> QED
    BY <2>1, <2>2
<1>6. ASSUME NEW k \in Processes, SaveConsents(k), NEW j \in Processes PROVE HasWhatIsThere(j)'
  <2>0. UNCHANGED horizons /\ overlapped \subseteq overlapped'
    BY <1>6 DEF SaveConsents
  <2>1. CASE j = k
    <3>1. process'[k] = [process[k] EXCEPT !.step = "saved"] /\ process[k].step = "saving"
      BY <1>0, <1>6 DEF SaveConsents, ProcessTypes
    <3>2. "saved" \notin HasConsents /\ "saving" \in HasHorizons
      BY DEF HasConsents, HasHorizons
    <3> QED
      BY <1>0, <2>0, <2>1, <3>1, <3>2 DEF HasWhatIsThere, HasAll, Contents, ProcessTypes
  <2>2. CASE j # k
    <3>1. process'[j] = process[j]
      BY <1>6, <2>2, OthersStay
    <3>2. ASSUME process[j].step \in HasConsents, j \notin overlapped'
          PROVE  consents'[process[j].producer] = consents[process[j].producer]
      <4>1. process[j].producer # process[k].producer
        BY <1>6, <2>2, <3>2 DEF SaveConsents, Others
      <4> QED
        BY <1>0, <1>6, <4>1 DEF SaveConsents, FilesTypes
    <3> QED
      BY <2>0, <3>1, <3>2 DEF HasWhatIsThere, HasAll, Contents
  <2> QED
    BY <2>1, <2>2
<1>7. ASSUME NEW k \in Processes, SaveHorizons(k), NEW j \in Processes PROVE HasWhatIsThere(j)'
  <2>0. UNCHANGED consents /\ overlapped \subseteq overlapped'
    BY <1>7 DEF SaveHorizons
  <2>1. CASE j = k
    <3>1. process'[k].step \in {"drawing", "done"}
      BY <1>0, <1>7 DEF SaveHorizons, ProcessTypes, At
    <3> QED
      BY <1>2, <2>1, <3>1 DEF HasConsents, HasHorizons
  <2>2. CASE j # k
    <3>1. process'[j] = process[j]
      BY <1>7, <2>2, OthersStay
    <3>2. ASSUME process[j].step \in HasHorizons, j \notin overlapped'
          PROVE  horizons'[process[j].consumer] = horizons[process[j].consumer]
      <4>1. process[j].consumer # process[k].consumer
        BY <1>7, <2>2, <3>2 DEF SaveHorizons, Others
      <4> QED
        BY <1>0, <1>7, <4>1 DEF SaveHorizons, FilesTypes
    <3> QED
      BY <2>0, <3>1, <3>2 DEF HasWhatIsThere, HasAll, Contents
  <2> QED
    BY <2>1, <2>2
<1>8. ASSUME NEW k \in Processes, Ending(k), NEW j \in Processes PROVE HasWhatIsThere(j)'
  <2>1. CASE j = k
    <3>1. process'[k].step \in {"new", "refused", "crashed"}
      BY <1>0, <1>8 DEF Ending, Refuse, Crash, Throw, EditorEnds, At
    <3> QED
      BY <1>2, <2>1, <3>1 DEF HasConsents, HasHorizons
  <2>2. CASE j # k
    BY <1>1, <1>8, <2>2, OthersStay DEF Ending, Refuse, Crash, Throw, EditorEnds, files
  <2> QED
    BY <2>1, <2>2
<1>9. ASSUME NEW k \in TenantCommands, ReadTenants(k) \/ SaveTenants(k), NEW j \in Processes
      PROVE  HasWhatIsThere(j)'
  BY <1>1, <1>9 DEF ReadTenants, SaveTenants, files, connectVars
<1>10. ASSUME UNCHANGED horizonVars, NEW j \in Processes PROVE HasWhatIsThere(j)'
  BY <1>1, <1>10 DEF horizonVars, files, connectVars
<1> QED
  BY FilesSteps, <1>3, <1>4, <1>5, <1>6, <1>7, <1>8, <1>9, <1>10 DEF Beginning

\* A step that drops anything is a save of a connect that may.
LEMMA ConnectionsKept ==
  ASSUME HorizonsTypes, \A k \in Processes : HasWhatIsThere(k), FilesStep
  PROVE  \/ Keeps(consents) /\ Keeps(horizons)
         \/ \E k \in Processes : MayDrop(k)
<1>0. FilesTypes /\ HistoryTypes /\ process \in [Processes -> ProcessTypes]
  BY HorizonsGroups DEF HorizonsTypes
<1>1. ASSUME UNCHANGED <<consents, horizons>> PROVE Keeps(consents) /\ Keeps(horizons)
  BY <1>1 DEF Keeps, Contents
<1>2. ASSUME NEW k \in Processes, SaveConsents(k), ~MayDrop(k)
      PROVE  Keeps(consents) /\ Keeps(horizons)
  <2>1. process[k].step = "saving" /\ process'[k] = [process[k] EXCEPT !.step = "saved"]
    BY <1>0, <1>2 DEF SaveConsents
  <2>2. process'[k] # process[k]
    BY <1>0, <2>1 DEF ProcessTypes
  <2>3. HasAll(process[k].consents, consents[process[k].producer])
    BY <1>2, <2>1, <2>2 DEF MayDrop, HasWhatIsThere, HasConsents
  <2>4. Contents(consents[process[k].producer]) \subseteq Contents(process[k].consents)
    BY <1>2, <2>3 DEF HasAll, SaveConsents, Contents
  <2>5. Keeps(consents)
    BY <1>0, <1>2, <2>4 DEF SaveConsents, Keeps, FilesTypes
  <2>6. Keeps(horizons)
    BY <1>2 DEF SaveConsents, Keeps
  <2> QED
    BY <2>5, <2>6
<1>3. ASSUME NEW k \in Processes, SaveHorizons(k), ~MayDrop(k)
      PROVE  Keeps(consents) /\ Keeps(horizons)
  <2>1. process[k].step = "saved" /\ process'[k].step \in {"drawing", "done"}
    BY <1>0, <1>3 DEF SaveHorizons, ProcessTypes, At
  <2>2. process'[k] # process[k]
    BY <2>1
  <2>3. HasAll(process[k].horizons, horizons[process[k].consumer])
    BY <1>3, <2>1, <2>2 DEF MayDrop, HasWhatIsThere, HasHorizons
  <2>4. Contents(horizons[process[k].consumer]) \subseteq Contents(process[k].horizons)
    BY <1>3, <2>3 DEF HasAll, SaveHorizons, Contents
  <2>5. Keeps(horizons)
    BY <1>0, <1>3, <2>4 DEF SaveHorizons, Keeps, FilesTypes
  <2>6. Keeps(consents)
    BY <1>3 DEF SaveHorizons, Keeps
  <2> QED
    BY <2>5, <2>6
<1>4. ASSUME ~ \E k \in Processes : SaveConsents(k) \/ SaveHorizons(k)
      PROVE  UNCHANGED <<consents, horizons>>
  BY <1>4, FilesSteps DEF Beginning, Begin, ReadHorizons, Grant, Subscribe, Ending, Refuse, Crash, Throw,
                          EditorEnds, ReadTenants, SaveTenants, horizonVars, files
<1> QED
  BY <1>1, <1>2, <1>3, <1>4

-----------------------------------------------------------------------------
(* Consents and horizons of a connection.                                     *)

Consented(t, p, c) == <<p, c>> \in disturbed \/ <<t, c>> \in Contents(consents[p])
Horizoned(t, p, c) == <<p, c>> \in disturbed \/ <<t, p>> \in Contents(horizons[c])

\* What is in a file stays there, or the connection counts as disturbed.
LEMMA ConsentedStays ==
  ASSUME HorizonsTypes, FilesStep, NEW t \in Tenants, NEW p \in Microservices, NEW c \in Microservices
  PROVE  Consented(t, p, c) => Consented(t, p, c)'
<1>0. FilesTypes /\ HistoryTypes
  BY HorizonsGroups DEF HorizonsTypes
<1>1. CASE UNCHANGED consents /\ disturbed \subseteq disturbed'
  BY <1>1 DEF Consented, Contents
<1>2. ASSUME NEW k \in Processes, SaveConsents(k), Consented(t, p, c)
      PROVE  Consented(t, p, c)'
  <2>1. disturbed \cup DropsConsents(k) \subseteq disturbed'
    BY <1>2 DEF SaveConsents, Disturb
  <2>2. CASE p = process[k].producer
    <3>1. consents'[p] = process[k].consents /\ Contents(process[k].consents) = process[k].consents
      BY <1>0, <1>2, <2>2 DEF SaveConsents, Contents, FilesTypes
    <3>2. <<t, c>> \in Contents(consents[p]) /\ <<t, c>> \notin process[k].consents
            => <<p, c>> \in DropsConsents(k)
      BY <2>2 DEF DropsConsents
    <3> QED
      BY <1>2, <2>1, <3>1, <3>2 DEF Consented, Contents
  <2>3. CASE p # process[k].producer
    BY <1>0, <1>2, <2>1, <2>3 DEF SaveConsents, Consented, Contents, FilesTypes
  <2> QED
    BY <2>2, <2>3
<1>3. ASSUME NEW k \in Processes, SaveHorizons(k)
      PROVE  UNCHANGED consents /\ disturbed \subseteq disturbed'
  BY <1>3 DEF SaveHorizons, Disturb
<1>4. ASSUME ~ \E k \in Processes : SaveConsents(k) \/ SaveHorizons(k)
      PROVE  UNCHANGED <<consents, disturbed>>
  BY <1>4, FilesSteps DEF Beginning, Begin, ReadHorizons, Grant, Subscribe, Ending, Refuse, Crash, Throw,
                          EditorEnds, ReadTenants, SaveTenants, horizonVars, files, connectVars
<1> QED
  BY <1>1, <1>2, <1>3, <1>4

LEMMA HorizonedStays ==
  ASSUME HorizonsTypes, FilesStep, NEW t \in Tenants, NEW p \in Microservices, NEW c \in Microservices
  PROVE  Horizoned(t, p, c) => Horizoned(t, p, c)'
<1>0. FilesTypes /\ HistoryTypes
  BY HorizonsGroups DEF HorizonsTypes
<1>1. CASE UNCHANGED horizons /\ disturbed \subseteq disturbed'
  BY <1>1 DEF Horizoned, Contents
<1>2. ASSUME NEW k \in Processes, SaveHorizons(k), Horizoned(t, p, c)
      PROVE  Horizoned(t, p, c)'
  <2>1. disturbed \cup DropsHorizons(k) \subseteq disturbed'
    BY <1>2 DEF SaveHorizons, Disturb
  <2>2. CASE c = process[k].consumer
    <3>1. horizons'[c] = process[k].horizons /\ Contents(process[k].horizons) = process[k].horizons
      BY <1>0, <1>2, <2>2 DEF SaveHorizons, Contents, FilesTypes
    <3>2. <<t, p>> \in Contents(horizons[c]) /\ <<t, p>> \notin process[k].horizons
            => <<p, c>> \in DropsHorizons(k)
      BY <2>2 DEF DropsHorizons
    <3> QED
      BY <1>2, <2>1, <3>1, <3>2 DEF Horizoned, Contents
  <2>3. CASE c # process[k].consumer
    BY <1>0, <1>2, <2>1, <2>3 DEF SaveHorizons, Horizoned, Contents, FilesTypes
  <2> QED
    BY <2>2, <2>3
<1>3. ASSUME NEW k \in Processes, SaveConsents(k)
      PROVE  UNCHANGED horizons /\ disturbed \subseteq disturbed'
  BY <1>3 DEF SaveConsents, Disturb
<1>4. ASSUME ~ \E k \in Processes : SaveConsents(k) \/ SaveHorizons(k)
      PROVE  UNCHANGED <<horizons, disturbed>>
  BY <1>4, FilesSteps DEF Beginning, Begin, ReadHorizons, Grant, Subscribe, Ending, Refuse, Crash, Throw,
                          EditorEnds, ReadTenants, SaveTenants, horizonVars, files, connectVars
<1> QED
  BY <1>1, <1>2, <1>3, <1>4

\* A connect has what it grants, unless the tenants changed since.
GrantKept(k) ==
  process[k].step = "subscribing" =>
    k \in overlapped \/ process[k].consents = NoFile \/ Granted(k) \subseteq process[k].consents

\* What a connect is to save as horizons has its consents, or saves them first.
InConsents(k, t) ==
  k \in overlapped \/ process[k].consents = NoFile \/ <<t, process[k].consumer>> \in process[k].consents

PendingConsented(k) ==
  process[k].step \in HasHorizons /\ process[k].horizons # NoFile =>
    \A t \in Tenants, p \in Microservices :
      <<t, p>> \in process[k].horizons =>
        \/ Consented(t, p, process[k].consumer)
        \/ p = process[k].producer /\ process[k].step = "saving" /\ InConsents(k, t)

FileConsented ==
  \A t \in Tenants, p, c \in Microservices :
    <<t, p>> \in Contents(horizons[c]) => Consented(t, p, c)

ConsentsKept ==
  /\ \A k \in Processes : GrantKept(k) /\ PendingConsented(k)
  /\ FileConsented

LEMMA GrantStaysKept ==
  ASSUME HorizonsTypes, \A k \in Processes : GrantKept(k), FilesStep
  PROVE  \A k \in Processes : GrantKept(k)'
<1>0. FilesTypes /\ HistoryTypes /\ process \in [Processes -> ProcessTypes]
  BY HorizonsGroups DEF HorizonsTypes
<1>1. ASSUME NEW j \in Processes, process'[j] = process[j], j \in overlapped => j \in overlapped',
             UNCHANGED tenants
      PROVE  GrantKept(j)'
  BY <1>1 DEF GrantKept, Granted, TenantsFor, Contents
<1>2. ASSUME NEW j \in Processes, process'[j].step # "subscribing" PROVE GrantKept(j)'
  BY <1>2 DEF GrantKept
<1>3. ASSUME NEW k \in Processes, NEW p \in Microservices, NEW c \in Microservices,
             NEW overwrite \in BOOLEAN, Begin(k, p, c, overwrite), NEW j \in Processes
      PROVE GrantKept(j)'
  <2>1. CASE j = k
    BY <1>0, <1>2, <1>3, <2>1 DEF Begin
  <2>2. CASE j # k
    BY <1>1, <1>3, <2>2, OthersStay DEF Begin, files
  <2> QED
    BY <2>1, <2>2
<1>4. ASSUME NEW k \in Processes, NEW j \in Processes,
             ReadHorizons(k) \/ Subscribe(k) \/ SaveConsents(k) \/ SaveHorizons(k) \/ Ending(k)
      PROVE  GrantKept(j)'
  <2>1. CASE j = k
    <3>1. process'[k].step # "subscribing"
      BY <1>0, <1>4 DEF ReadHorizons, Subscribe, SaveConsents, SaveHorizons, Ending, Refuse, Crash, Throw,
                        EditorEnds, At, ProcessTypes
    <3> QED
      BY <1>2, <2>1, <3>1
  <2>2. CASE j # k
    BY <1>1, <1>4, <2>2, OthersStay DEF ReadHorizons, Subscribe, SaveConsents, SaveHorizons, Ending, Refuse,
                                        Crash, Throw, EditorEnds, files
  <2> QED
    BY <2>1, <2>2
<1>5. ASSUME NEW k \in Processes, NEW j \in Processes, Grant(k) PROVE GrantKept(j)'
  <2>1. CASE j = k
    <3>1. /\ process'[k].consents = Added(process[k].consents, Granted(k))
          /\ process'[k].consumer = process[k].consumer
      BY <1>0, <1>5 DEF Grant, ProcessTypes
    <3>2. Granted(k)' = Granted(k)
      BY <1>5, <3>1 DEF Grant, files, Granted, TenantsFor, Contents
    <3> QED
      BY <2>1, <3>1, <3>2 DEF GrantKept, Added
  <2>2. CASE j # k
    BY <1>1, <1>5, <2>2, OthersStay DEF Grant, files
  <2> QED
    BY <2>1, <2>2
<1>6. ASSUME NEW k \in TenantCommands, NEW j \in Processes, ReadTenants(k) \/ SaveTenants(k)
      PROVE  GrantKept(j)'
  <2>1. CASE ReadTenants(k)
    BY <1>1, <2>1 DEF ReadTenants, files, connectVars
  <2>2. CASE SaveTenants(k) /\ process[j].step # "subscribing"
    BY <1>2, <2>2 DEF SaveTenants
  <2>3. CASE SaveTenants(k) /\ process[j].step = "subscribing" /\ j # Editor
    BY <2>3 DEF SaveTenants, Others, GrantKept
  <2>4. CASE SaveTenants(k) /\ j = Editor
    BY <2>4 DEF SaveTenants, GrantKept, Granted, TenantsFor
  <2> QED
    BY <1>6, <2>1, <2>2, <2>3, <2>4
<1>7. ASSUME UNCHANGED horizonVars, NEW j \in Processes PROVE GrantKept(j)'
  BY <1>1, <1>7 DEF horizonVars, files, connectVars
<1> QED
  BY FilesSteps, <1>3, <1>4, <1>5, <1>6, <1>7 DEF Beginning

LEMMA PendingStaysConsented ==
  ASSUME HorizonsTypes, ConsentsKept, FilesStep
  PROVE  \A k \in Processes : PendingConsented(k)'
<1>0. FilesTypes /\ HistoryTypes /\ process \in [Processes -> ProcessTypes]
  BY HorizonsGroups DEF HorizonsTypes
<1>1. ASSUME NEW j \in Processes, process'[j] = process[j], j \in overlapped => j \in overlapped'
      PROVE  PendingConsented(j)'
  <2>1. SUFFICES ASSUME process[j].step \in HasHorizons, process[j].horizons # NoFile,
                        NEW t \in Tenants, NEW p \in Microservices, <<t, p>> \in process[j].horizons,
                        NEW c, c = process[j].consumer
                 PROVE  \/ Consented(t, p, c)'
                        \/ p = process[j].producer /\ process[j].step = "saving" /\ InConsents(j, t)'
    BY <1>1 DEF PendingConsented, Consented
  <2>2. c \in Microservices
    BY <2>1 DEF HorizonsTypes, Pairs, UnderWay
  <2>3. CASE Consented(t, p, c)
    BY <2>2, <2>3, ConsentedStays
  <2>4. CASE p = process[j].producer /\ process[j].step = "saving" /\ InConsents(j, t)
    BY <1>1, <2>4 DEF InConsents
  <2> QED
    BY <2>1, <2>3, <2>4 DEF ConsentsKept, PendingConsented
<1>2. ASSUME NEW j \in Processes, process'[j].step \notin HasHorizons PROVE PendingConsented(j)'
  BY <1>2 DEF PendingConsented
<1>3. ASSUME NEW k \in Processes, NEW j \in Processes,
             \/ \E p, c \in Microservices, overwrite \in BOOLEAN : Begin(k, p, c, overwrite)
             \/ SaveHorizons(k) \/ Ending(k)
      PROVE  PendingConsented(j)'
  <2>1. CASE j = k
    <3>1. process'[k].step \in {"reading", "drawing", "done", "new", "refused", "crashed"}
      BY <1>0, <1>3 DEF Begin, SaveHorizons, Ending, Refuse, Crash, Throw, EditorEnds, At, ProcessTypes
    <3> QED
      BY <1>2, <2>1, <3>1 DEF HasHorizons
  <2>2. CASE j # k
    <3>1. j \in overlapped => j \in overlapped'
      BY <1>3, <2>2 DEF Begin, SaveHorizons, Ending, Refuse, Crash, Throw, EditorEnds
    <3>2. process'[j] = process[j]
      BY <1>3, <2>2, OthersStay
    <3> QED
      BY <1>1, <3>1, <3>2
  <2> QED
    BY <2>1, <2>2
<1>4. ASSUME NEW k \in Processes, NEW j \in Processes, ReadHorizons(k) PROVE PendingConsented(j)'
  <2>1. CASE j = k
    <3>1. /\ process'[k].consumer = process[k].consumer /\ process'[k].producer = process[k].producer
          /\ process'[k].horizons \in {{}, Loaded(k, horizons[process[k].consumer])}
      BY <1>0, <1>4 DEF ReadHorizons, ProcessTypes
    <3>2. process[k].consumer \in Microservices
      BY <1>4 DEF ReadHorizons, HorizonsTypes, Pairs, UnderWay, HasConsents
    <3>3. SUFFICES ASSUME NEW t \in Tenants, NEW p \in Microservices, process'[k].horizons # NoFile,
                          <<t, p>> \in process'[k].horizons, NEW c, c = process[k].consumer
                   PROVE  Consented(t, p, c)'
      BY <2>1, <3>1 DEF PendingConsented, Consented
    <3>4. <<t, p>> \in Contents(horizons[process[k].consumer])
      BY <3>1, <3>3 DEF Loaded, Contents
    <3>5. Consented(t, p, c)
      BY <3>2, <3>3, <3>4 DEF ConsentsKept, FileConsented
    <3> QED
      BY <3>2, <3>3, <3>5, ConsentedStays
  <2>2. CASE j # k
    BY <1>1, <1>4, <2>2, OthersStay DEF ReadHorizons
  <2> QED
    BY <2>1, <2>2
<1>5. ASSUME NEW k \in Processes, NEW j \in Processes, Grant(k) PROVE PendingConsented(j)'
  <2>1. CASE j = k
    <3>1. /\ process'[k].consumer = process[k].consumer /\ process'[k].horizons = process[k].horizons
          /\ process[k].step = "granting"
      BY <1>0, <1>5 DEF Grant, ProcessTypes
    <3>2. process[k].consumer \in Microservices /\ process[k].step \in HasHorizons
      BY <3>1 DEF HorizonsTypes, Pairs, UnderWay, HasHorizons
    <3>3. SUFFICES ASSUME NEW t \in Tenants, NEW p \in Microservices, process[k].horizons # NoFile,
                          <<t, p>> \in process[k].horizons, NEW c, c = process[k].consumer
                   PROVE  Consented(t, p, c)'
      BY <2>1, <3>1 DEF PendingConsented, Consented
    <3>4. Consented(t, p, c)
      BY <3>1, <3>2, <3>3 DEF ConsentsKept, PendingConsented
    <3> QED
      BY <3>2, <3>3, <3>4, ConsentedStays
  <2>2. CASE j # k
    BY <1>1, <1>5, <2>2, OthersStay DEF Grant
  <2> QED
    BY <2>1, <2>2
<1>6. ASSUME NEW k \in Processes, NEW j \in Processes, Subscribe(k) PROVE PendingConsented(j)'
  <2>1. CASE j = k
    <3>1. /\ process'[k].consumer = process[k].consumer /\ process'[k].producer = process[k].producer
          /\ process'[k].consents = process[k].consents /\ process'[k].step = "saving"
          /\ process'[k].horizons = Added(process[k].horizons, Subscribed(k))
          /\ process[k].step = "subscribing" /\ UNCHANGED overlapped
      BY <1>0, <1>6 DEF Subscribe, ProcessTypes
    <3>2. process[k].consumer \in Microservices /\ process[k].step \in HasHorizons
      BY <3>1 DEF HorizonsTypes, Pairs, UnderWay, HasHorizons
    <3>3. SUFFICES ASSUME NEW t \in Tenants, NEW p \in Microservices, process'[k].horizons # NoFile,
                          <<t, p>> \in process'[k].horizons, NEW c, c = process[k].consumer
                   PROVE  \/ Consented(t, p, c)'
                          \/ p = process[k].producer /\ InConsents(k, t)
      BY <2>1, <3>1 DEF PendingConsented, Consented, InConsents
    <3>4. process[k].horizons # NoFile
      BY <3>1, <3>3 DEF Added
    <3>5. CASE <<t, p>> \in process[k].horizons
      <4>1. Consented(t, p, c)
        BY <3>1, <3>2, <3>3, <3>4, <3>5 DEF ConsentsKept, PendingConsented
      <4> QED
        BY <3>2, <3>3, <4>1, ConsentedStays
    <3>6. CASE <<t, p>> \in Subscribed(k)
      <4>1. p = process[k].producer /\ <<t, process[k].consumer>> \in Granted(k)
        BY <3>6 DEF Subscribed, Granted
      <4> QED
        BY <3>1, <4>1 DEF ConsentsKept, GrantKept, InConsents
    <3> QED
      BY <3>1, <3>3, <3>4, <3>5, <3>6 DEF Added
  <2>2. CASE j # k
    BY <1>1, <1>6, <2>2, OthersStay DEF Subscribe
  <2> QED
    BY <2>1, <2>2
<1>7. ASSUME NEW k \in Processes, NEW j \in Processes, SaveConsents(k) PROVE PendingConsented(j)'
  <2>1. CASE j = k
    <3>1. /\ process'[k].consumer = process[k].consumer /\ process'[k].producer = process[k].producer
          /\ process'[k].horizons = process[k].horizons
          /\ process[k].step = "saving" /\ process[k].consents # NoFile
      BY <1>0, <1>7 DEF SaveConsents, ProcessTypes
    <3>2. /\ process[k].consumer \in Microservices /\ process[k].producer \in Microservices
          /\ process[k].step \in HasHorizons
      BY <3>1 DEF HorizonsTypes, Pairs, UnderWay, HasHorizons
    <3>3. SUFFICES ASSUME NEW t \in Tenants, NEW p \in Microservices, process[k].horizons # NoFile,
                          <<t, p>> \in process[k].horizons, NEW c, c = process[k].consumer
                   PROVE  Consented(t, p, c)'
      BY <2>1, <3>1 DEF PendingConsented, Consented
    <3>4. CASE Consented(t, p, c)
      BY <3>2, <3>3, <3>4, ConsentedStays
    <3>5. CASE p = process[k].producer /\ InConsents(k, t)
      <4>1. k \in overlapped => Pair(k) \in disturbed'
        BY <1>7 DEF SaveConsents, Disturb
      <4>2. consents'[p] = process[k].consents
        BY <1>0, <1>7, <3>2, <3>5 DEF SaveConsents, FilesTypes
      <4> QED
        BY <3>1, <3>3, <3>5, <4>1, <4>2 DEF InConsents, Consented, Pair, Contents
    <3> QED
      BY <3>1, <3>2, <3>3, <3>4, <3>5 DEF ConsentsKept, PendingConsented
  <2>2. CASE j # k
    BY <1>1, <1>7, <2>2, OthersStay DEF SaveConsents
  <2> QED
    BY <2>1, <2>2
<1>8. ASSUME NEW k \in TenantCommands, NEW j \in Processes, ReadTenants(k) \/ SaveTenants(k)
      PROVE  PendingConsented(j)'
  BY <1>1, <1>8 DEF ReadTenants, SaveTenants, connectVars
<1>9. ASSUME UNCHANGED horizonVars, NEW j \in Processes PROVE PendingConsented(j)'
  BY <1>1, <1>9 DEF horizonVars, connectVars
<1> QED
  BY FilesSteps, <1>3, <1>4, <1>5, <1>6, <1>7, <1>8, <1>9 DEF Beginning

LEMMA FileStaysConsented ==
  ASSUME HorizonsTypes, ConsentsKept, FilesStep
  PROVE  FileConsented'
<1>0. FilesTypes /\ HistoryTypes /\ process \in [Processes -> ProcessTypes]
  BY HorizonsGroups DEF HorizonsTypes
<1>1. SUFFICES ASSUME NEW t \in Tenants, NEW p \in Microservices, NEW c \in Microservices,
                      <<t, p>> \in Contents(horizons'[c])
               PROVE  Consented(t, p, c)'
  BY DEF FileConsented, Contents
<1>2. ASSUME <<t, p>> \in Contents(horizons[c]) PROVE Consented(t, p, c)'
  BY <1>2, ConsentedStays DEF ConsentsKept, FileConsented
<1>3. ASSUME NEW k \in Processes, SaveHorizons(k) PROVE Consented(t, p, c)'
  <2>1. process[k].step = "saved" /\ process[k].horizons # NoFile
    BY <1>3 DEF SaveHorizons
  <2>2. process[k].step \in HasHorizons /\ process[k].step # "saving"
    BY <2>1 DEF HasHorizons
  <2>3. CASE c = process[k].consumer
    <3>1. <<t, p>> \in process[k].horizons
      BY <1>0, <1>1, <1>3, <2>1, <2>3 DEF SaveHorizons, FilesTypes, Contents
    <3>2. Consented(t, p, c)
      BY <2>1, <2>2, <2>3, <3>1 DEF ConsentsKept, PendingConsented
    <3> QED
      BY <3>2, ConsentedStays
  <2>4. CASE c # process[k].consumer
    <3>1. horizons'[c] = horizons[c]
      BY <1>0, <1>3, <2>4 DEF SaveHorizons, FilesTypes
    <3> QED
      BY <1>1, <1>2, <3>1
  <2> QED
    BY <2>3, <2>4
<1>4. ASSUME ~ \E k \in Processes : SaveHorizons(k) PROVE Consented(t, p, c)'
  <2>1. UNCHANGED horizons
    BY <1>4, FilesSteps DEF Beginning, Begin, ReadHorizons, Grant, Subscribe, SaveConsents, Ending, Refuse,
                            Crash, Throw, EditorEnds, ReadTenants, SaveTenants, horizonVars, files
  <2> QED
    BY <1>1, <1>2, <2>1
<1> QED
  BY <1>3, <1>4

LEMMA ConsentsStayKept ==
  ASSUME HorizonsTypes, ConsentsKept, FilesStep
  PROVE  ConsentsKept'
BY GrantStaysKept, PendingStaysConsented, FileStaysConsented DEF ConsentsKept

LEMMA KeptIsConsented ==
  ASSUME HorizonsTypes, ConsentsKept
  PROVE  HorizonsConsented
<1>1. SUFFICES ASSUME NEW c \in Microservices, NEW h \in Contents(horizons[c])
               PROVE  <<h[2], c>> \notin disturbed => <<h[1], c>> \in Contents(consents[h[2]])
  BY DEF HorizonsConsented, Subscriptions, Load
<1>2. FilesTypes
  BY HorizonsGroups DEF HorizonsTypes
<1>3. h \in Tenants \X Microservices
  BY <1>1, <1>2, ContentsEntries DEF FilesTypes, Entries
<1> QED
  BY <1>1, <1>3 DEF ConsentsKept, FileConsented, Consented

-----------------------------------------------------------------------------
(* Horizons of what has been consented to.                                    *)

Gone(p, c) == <<p, c>> \in disturbed \cup interrupted
OtherSaved(k, p, c) == \E j \in Processes \ {k} : process[j].step = "saved" /\ Pair(j) = <<p, c>>

\* With --overwrite a connect starts from nothing.
ReadKept(k) == process[k].step = "reading" /\ process[k].overwrite => process[k].consents = {}

\* What a connect is to save as consents is in the file, or is what it grants.
PendingInFile(k) ==
  process[k].step \in HasConsents /\ process[k].consents # NoFile =>
    \A t \in Tenants, m \in Microservices :
      <<t, m>> \in process[k].consents =>
        \/ Consented(t, process[k].producer, m)
        \/ m = process[k].consumer /\ process[k].step \in {"subscribing", "saving"}

\* The consents a connect has for its consumer are matched by its horizons.
MatchKept(k) ==
  /\ process[k].step \in {"granting", "subscribing", "saving"}
  /\ k \notin overlapped
  /\ process[k].consents # NoFile
  /\ process[k].horizons # NoFile
  => \A t \in Tenants :
       <<t, process[k].consumer>> \in process[k].consents =>
         \/ Gone(process[k].producer, process[k].consumer)
         \/ <<t, process[k].producer>> \in process[k].horizons
         \/ process[k].step = "subscribing" /\ t \in TenantsFor(k)
         \/ OtherSaved(k, process[k].producer, process[k].consumer)

\* ... and so are those in the file when it has saved them.
SavedKept(k) ==
  /\ process[k].step = "saved"
  /\ k \notin overlapped
  /\ process[k].horizons # NoFile
  => \A t \in Tenants :
       <<t, process[k].consumer>> \in Contents(consents[process[k].producer]) =>
         \/ Gone(process[k].producer, process[k].consumer)
         \/ <<t, process[k].producer>> \in process[k].horizons
         \/ OtherSaved(k, process[k].producer, process[k].consumer)

Covered(t, p, c) ==
  \/ Gone(p, c)
  \/ <<t, p>> \in Contents(horizons[c])
  \/ \E k \in Processes : process[k].step = "saved" /\ Pair(k) = <<p, c>>

FileCovered ==
  \A t \in Tenants, p, c \in Microservices :
    <<t, c>> \in Contents(consents[p]) => Covered(t, p, c)

HorizonsKept ==
  /\ \A k \in Processes : ReadKept(k) /\ PendingInFile(k) /\ MatchKept(k) /\ SavedKept(k)
  /\ FileCovered

LEMMA GoneStays ==
  ASSUME FilesStep, NEW p, NEW c, Gone(p, c)
  PROVE  Gone(p, c)'
<1>1. disturbed \subseteq disturbed' /\ interrupted \subseteq interrupted'
  BY FilesSteps DEF Beginning, Begin, ReadHorizons, Grant, Subscribe, SaveConsents, SaveHorizons, Disturb,
                    Ending, Refuse, Crash, Throw, Interrupt, EditorEnds, ReadTenants, SaveTenants,
                    horizonVars, connectVars
<1> QED
  BY <1>1 DEF Gone

\* A connect that has saved its consents stays there, is interrupted, or
\* saves its horizons.
LEMMA SavedStays ==
  ASSUME HorizonsTypes, FilesStep, NEW j \in Processes, process[j].step = "saved", ~SaveHorizons(j)
  PROVE  process'[j] = process[j] \/ Pair(j) \in interrupted'
<1>1. ~Beginning \/ process'[j] = process[j]
  <2>1. ASSUME NEW k \in Processes, NEW p \in Microservices, NEW c \in Microservices,
               NEW overwrite \in BOOLEAN, Begin(k, p, c, overwrite)
        PROVE process'[j] = process[j]
    <3>1. k # j
      BY <2>1 DEF Begin
    <3> QED
      BY <2>1, <3>1, OthersStay
  <2> QED
    BY <2>1 DEF Beginning
<1>2. ASSUME NEW k \in Processes \ {j},
             \/ ReadHorizons(k) \/ Grant(k) \/ Subscribe(k) \/ SaveConsents(k) \/ SaveHorizons(k)
             \/ Ending(k)
      PROVE  process'[j] = process[j]
  BY <1>2, OthersStay
<1>3. ASSUME ReadHorizons(j) \/ Grant(j) \/ Subscribe(j) \/ SaveConsents(j) \/ Ending(j)
      PROVE  Pair(j) \in interrupted'
  BY <1>3 DEF ReadHorizons, Grant, Subscribe, SaveConsents, Ending, Refuse, EditorEnds, Crash, Throw,
              Interrupt
<1>4. ASSUME NEW k \in TenantCommands, ReadTenants(k) \/ SaveTenants(k) PROVE process'[j] = process[j]
  BY <1>4 DEF ReadTenants, SaveTenants, connectVars
<1>5. ASSUME UNCHANGED horizonVars PROVE process'[j] = process[j]
  BY <1>5 DEF horizonVars, connectVars
<1> QED
  BY <1>1, <1>2, <1>3, <1>4, <1>5, FilesSteps

LEMMA OtherStaysSaved ==
  ASSUME HorizonsTypes, FilesStep, NEW k \in Processes, NEW p \in Microservices, NEW c \in Microservices,
         OtherSaved(k, p, c)
  PROVE  \/ OtherSaved(k, p, c)' \/ Gone(p, c)'
         \/ \E j \in Processes \ {k} : SaveHorizons(j) /\ process[j].consumer = c
<1>1. PICK j \in Processes \ {k} : process[j].step = "saved" /\ Pair(j) = <<p, c>>
  BY DEF OtherSaved
<1>2. process[j].consumer = c
  BY <1>1 DEF Pair
<1>3. CASE process'[j] = process[j]
  BY <1>1, <1>3 DEF OtherSaved, Pair
<1>4. CASE Pair(j) \in interrupted'
  BY <1>1, <1>4 DEF Gone
<1> QED
  BY <1>1, <1>2, <1>3, <1>4, SavedStays

\* Whoever works with the horizons that another one saves is overlapped.
LEMMA SaveOverlaps ==
  ASSUME NEW j \in Processes, SaveHorizons(j), NEW k \in Processes \ {j},
         process[k].step \in HasHorizons, process[k].consumer = process[j].consumer
  PROVE  k \in overlapped'
BY DEF SaveHorizons, Others

LEMMA CoverStays ==
  ASSUME HorizonsTypes, FilesStep, NEW k \in Processes, process[k].step \in HasHorizons,
         k \notin overlapped',
         NEW p \in Microservices, NEW c \in Microservices, c = process[k].consumer,
         Gone(p, c) \/ OtherSaved(k, p, c)
  PROVE  Gone(p, c)' \/ OtherSaved(k, p, c)'
BY GoneStays, OtherStaysSaved, SaveOverlaps

\* The tenants of a connect that is about to subscribe stay what they are.
LEMMA TenantsStay ==
  ASSUME FilesStep, NEW k \in Processes, process[k].step = "subscribing", k \notin overlapped'
  PROVE  TenantsFor(k)' = TenantsFor(k)
<1>1. ASSUME NEW j \in TenantCommands, SaveTenants(j) PROVE k = Editor
  BY <1>1 DEF SaveTenants, Others
<1>2. ASSUME ~ \E j \in TenantCommands : SaveTenants(j) PROVE UNCHANGED tenants
  BY <1>2, FilesSteps DEF Beginning, Begin, ReadHorizons, Grant, Subscribe, SaveConsents, SaveHorizons,
                          Ending, Refuse, Crash, Throw, EditorEnds, ReadTenants, horizonVars, files
<1> QED
  BY <1>1, <1>2 DEF TenantsFor, Contents

LEMMA ReadStaysKept ==
  ASSUME HorizonsTypes, HorizonsKept, FilesStep
  PROVE  \A k \in Processes : ReadKept(k)'
<1>0. process \in [Processes -> ProcessTypes]
  BY HorizonsGroups DEF HorizonsTypes
<1>1. ASSUME NEW j \in Processes, process'[j] = process[j] PROVE ReadKept(j)'
  BY <1>1 DEF HorizonsKept, ReadKept
<1>2. ASSUME NEW k \in Processes, NEW p \in Microservices, NEW c \in Microservices,
             NEW overwrite \in BOOLEAN, Begin(k, p, c, overwrite), NEW j \in Processes
      PROVE ReadKept(j)'
  <2>1. CASE j = k
    BY <1>0, <1>2, <2>1 DEF Begin, ReadKept
  <2>2. CASE j # k
    BY <1>1, <1>2, <2>2, OthersStay
  <2> QED
    BY <2>1, <2>2
<1>3. ASSUME NEW k \in Processes, NEW j \in Processes,
             \/ ReadHorizons(k) \/ Grant(k) \/ Subscribe(k) \/ SaveConsents(k) \/ SaveHorizons(k)
             \/ Ending(k)
      PROVE ReadKept(j)'
  <2>1. CASE j = k
    <3>1. process'[k].step # "reading"
      BY <1>0, <1>3 DEF ReadHorizons, Grant, Subscribe, SaveConsents, SaveHorizons, Ending, Refuse, Crash,
                        Throw, EditorEnds, At, ProcessTypes
    <3> QED
      BY <2>1, <3>1 DEF ReadKept
  <2>2. CASE j # k
    BY <1>1, <1>3, <2>2, OthersStay
  <2> QED
    BY <2>1, <2>2
<1>4. ASSUME NEW j \in Processes, UNCHANGED process PROVE ReadKept(j)'
  BY <1>1, <1>4
<1> QED
  BY FilesSteps, <1>2, <1>3, <1>4 DEF Beginning, ReadTenants, SaveTenants, horizonVars, connectVars

LEMMA PendingStaysInFile ==
  ASSUME HorizonsTypes, HorizonsKept, FilesStep
  PROVE  \A k \in Processes : PendingInFile(k)'
<1>0. FilesTypes /\ process \in [Processes -> ProcessTypes]
  BY HorizonsGroups DEF HorizonsTypes
<1>1. ASSUME NEW j \in Processes, process'[j].producer = process[j].producer,
             process'[j].consumer = process[j].consumer, process'[j].consents = process[j].consents,
             process[j].step \in HasConsents,
             process[j].step \in {"subscribing", "saving"} => process'[j].step \in {"subscribing", "saving"}
      PROVE  PendingInFile(j)'
  <2>1. SUFFICES ASSUME process[j].consents # NoFile, NEW t \in Tenants, NEW m \in Microservices,
                        <<t, m>> \in process[j].consents, NEW p, p = process[j].producer
                 PROVE  \/ Consented(t, p, m)'
                        \/ m = process[j].consumer /\ process'[j].step \in {"subscribing", "saving"}
    BY <1>1 DEF PendingInFile, Consented
  <2>2. p \in Microservices
    BY <1>1, <2>1 DEF HorizonsTypes, Pairs, UnderWay
  <2>3. \/ Consented(t, p, m)
        \/ m = process[j].consumer /\ process[j].step \in {"subscribing", "saving"}
    BY <1>1, <2>1 DEF HorizonsKept, PendingInFile
  <2> QED
    BY <1>1, <2>2, <2>3, ConsentedStays
<1>2. ASSUME NEW j \in Processes, process'[j].step \notin HasConsents PROVE PendingInFile(j)'
  BY <1>2 DEF PendingInFile
<1>3. ASSUME NEW j \in Processes, process'[j] = process[j] PROVE PendingInFile(j)'
  BY <1>1, <1>2, <1>3
<1>4. ASSUME NEW k \in Processes, NEW p \in Microservices, NEW c \in Microservices,
             NEW overwrite \in BOOLEAN, Begin(k, p, c, overwrite), NEW j \in Processes
      PROVE PendingInFile(j)'
  <2>1. CASE j = k
    <3>1. process'[k].producer = p /\ process'[k].consents \in {{}, Loaded(k, consents[p])}
      BY <1>0, <1>4 DEF Begin
    <3>2. UNCHANGED <<consents, disturbed>>
      BY <1>4 DEF Begin, files
    <3> QED
      BY <2>1, <3>1, <3>2 DEF PendingInFile, Consented, Loaded, Contents
  <2>2. CASE j # k
    BY <1>3, <1>4, <2>2, OthersStay
  <2> QED
    BY <2>1, <2>2
<1>5. ASSUME NEW k \in Processes, NEW j \in Processes, ReadHorizons(k) \/ Subscribe(k)
      PROVE PendingInFile(j)'
  <2>1. CASE j = k
    <3>1. process[k].step \in {"reading", "subscribing"}
      BY <1>5 DEF ReadHorizons, Subscribe
    <3>2. /\ process'[k].producer = process[k].producer /\ process'[k].consumer = process[k].consumer
          /\ process'[k].consents = process[k].consents
          /\ process[k].step = "subscribing" => process'[k].step = "saving"
      BY <1>0, <1>5 DEF ReadHorizons, Subscribe, ProcessTypes
    <3> QED
      BY <1>1, <2>1, <3>1, <3>2 DEF HasConsents
  <2>2. CASE j # k
    BY <1>3, <1>5, <2>2, OthersStay
  <2> QED
    BY <2>1, <2>2
<1>6. ASSUME NEW k \in Processes, NEW j \in Processes, Grant(k) PROVE PendingInFile(j)'
  <2>1. CASE j = k
    <3>1. /\ process[k].step = "granting" /\ process'[k].step = "subscribing"
          /\ process'[k].producer = process[k].producer /\ process'[k].consumer = process[k].consumer
          /\ process'[k].consents = Added(process[k].consents, Granted(k))
      BY <1>0, <1>6 DEF Grant, ProcessTypes
    <3>2. SUFFICES ASSUME process'[k].consents # NoFile, NEW t \in Tenants, NEW m \in Microservices,
                          <<t, m>> \in process'[k].consents, NEW p, p = process[k].producer
                   PROVE  Consented(t, p, m)' \/ m = process[k].consumer
      BY <2>1, <3>1 DEF PendingInFile, Consented
    <3>3. CASE <<t, m>> \in Granted(k)
      BY <3>3 DEF Granted
    <3>4. CASE process[k].consents # NoFile /\ <<t, m>> \in process[k].consents
      <4>1. process[k].step \in HasConsents
        BY <3>1 DEF HasConsents
      <4>2. Consented(t, p, m) /\ p \in Microservices
        BY <3>1, <3>2, <3>4, <4>1 DEF HorizonsKept, PendingInFile, HorizonsTypes, Pairs, UnderWay
      <4> QED
        BY <4>2, ConsentedStays
    <3> QED
      BY <3>1, <3>2, <3>3, <3>4 DEF Added
  <2>2. CASE j # k
    BY <1>3, <1>6, <2>2, OthersStay
  <2> QED
    BY <2>1, <2>2
<1>7. ASSUME NEW k \in Processes, NEW j \in Processes, SaveConsents(k) \/ SaveHorizons(k) \/ Ending(k)
      PROVE PendingInFile(j)'
  <2>1. CASE j = k
    <3>1. process'[k].step \in {"saved", "drawing", "done", "new", "refused", "crashed"}
      BY <1>0, <1>7 DEF SaveConsents, SaveHorizons, Ending, Refuse, Crash, Throw, EditorEnds, At,
                        ProcessTypes
    <3> QED
      BY <1>2, <2>1, <3>1 DEF HasConsents
  <2>2. CASE j # k
    BY <1>3, <1>7, <2>2, OthersStay
  <2> QED
    BY <2>1, <2>2
<1>8. ASSUME NEW j \in Processes, UNCHANGED process PROVE PendingInFile(j)'
  BY <1>3, <1>8
<1> QED
  BY FilesSteps, <1>4, <1>5, <1>6, <1>7, <1>8 DEF Beginning, ReadTenants, SaveTenants, horizonVars,
                                                  connectVars

LEMMA MatchStaysKept ==
  ASSUME HorizonsTypes, HorizonsKept, FilesStep
  PROVE  \A k \in Processes : MatchKept(k)'
<1>0. FilesTypes /\ process \in [Processes -> ProcessTypes]
  BY HorizonsGroups DEF HorizonsTypes
<1> DEFINE Working == {"granting", "subscribing", "saving"}
           Match(k, t, p, c) == \/ Gone(p, c)
                                \/ <<t, p>> \in process[k].horizons
                                \/ process[k].step = "subscribing" /\ t \in TenantsFor(k)
                                \/ OtherSaved(k, p, c)
<1>1. ASSUME NEW j \in Processes, process'[j] = process[j], j \in overlapped => j \in overlapped'
      PROVE MatchKept(j)'
  <2>1. SUFFICES ASSUME process[j].step \in Working, j \notin overlapped', process[j].consents # NoFile,
                        process[j].horizons # NoFile, NEW t \in Tenants, NEW p, p = process[j].producer,
                        NEW c, c = process[j].consumer, <<t, c>> \in process[j].consents
                 PROVE  Match(j, t, p, c)'
    BY <1>1 DEF MatchKept, Gone, OtherSaved
  <2>2. process[j].step \in HasHorizons /\ p \in Microservices /\ c \in Microservices
    BY <2>1 DEF HorizonsTypes, Pairs, UnderWay, HasHorizons
  <2>3. Match(j, t, p, c)
    BY <1>1, <2>1 DEF HorizonsKept, MatchKept
  <2>4. CASE Gone(p, c) \/ OtherSaved(j, p, c)
    BY <2>1, <2>2, <2>4, CoverStays
  <2>5. CASE <<t, p>> \in process[j].horizons
    BY <1>1, <2>5
  <2>6. CASE process[j].step = "subscribing" /\ t \in TenantsFor(j)
    BY <1>1, <2>1, <2>6, TenantsStay
  <2> QED
    BY <2>3, <2>4, <2>5, <2>6
<1>2. ASSUME NEW j \in Processes, process'[j].step \notin Working PROVE MatchKept(j)'
  BY <1>2 DEF MatchKept
<1>3. ASSUME NEW k \in Processes, NEW j \in Processes,
             \/ \E p, c \in Microservices, overwrite \in BOOLEAN : Begin(k, p, c, overwrite)
             \/ SaveConsents(k) \/ SaveHorizons(k) \/ Ending(k)
      PROVE MatchKept(j)'
  <2>1. CASE j = k
    <3>1. process'[k].step \in {"reading", "saved", "drawing", "done", "new", "refused", "crashed"}
      BY <1>0, <1>3 DEF Begin, SaveConsents, SaveHorizons, Ending, Refuse, Crash, Throw, EditorEnds, At,
                        ProcessTypes
    <3> QED
      BY <1>2, <2>1, <3>1
  <2>2. CASE j # k
    <3>1. j \in overlapped => j \in overlapped'
      BY <1>3, <2>2 DEF Begin, SaveConsents, SaveHorizons, Ending, Refuse, Crash, Throw, EditorEnds
    <3> QED
      BY <1>1, <1>3, <2>2, <3>1, OthersStay
  <2> QED
    BY <2>1, <2>2
<1>4. ASSUME NEW k \in Processes, NEW j \in Processes, ReadHorizons(k) PROVE MatchKept(j)'
  <2>1. CASE j = k
    <3>1. /\ process[k].step = "reading" /\ process'[k].step = "granting"
          /\ process'[k].producer = process[k].producer /\ process'[k].consumer = process[k].consumer
          /\ process'[k].consents = process[k].consents
          /\ process'[k].horizons = IF process[k].overwrite THEN {}
                                    ELSE Loaded(k, horizons[process[k].consumer])
          /\ UNCHANGED <<disturbed, interrupted>>
      BY <1>0, <1>4 DEF ReadHorizons, ProcessTypes
    <3>2. SUFFICES ASSUME process[k].consents # NoFile, process'[k].horizons # NoFile,
                          NEW t \in Tenants, NEW p, p = process[k].producer,
                          NEW c, c = process[k].consumer, <<t, c>> \in process[k].consents
                   PROVE  Gone(p, c) \/ <<t, p>> \in process'[k].horizons \/ OtherSaved(k, p, c)'
      BY <2>1, <3>1 DEF MatchKept, Gone, OtherSaved
    <3>3. p \in Microservices /\ c \in Microservices /\ process[k].step \in HasConsents
      BY <3>1, <3>2 DEF HorizonsTypes, Pairs, UnderWay, HasConsents
    <3>4. ~process[k].overwrite
      BY <3>1, <3>2 DEF HorizonsKept, ReadKept
    <3>5. Consented(t, p, c)
      BY <3>1, <3>2, <3>3 DEF HorizonsKept, PendingInFile
    <3>6. Covered(t, p, c)
      BY <3>3, <3>5 DEF HorizonsKept, FileCovered, Consented, Covered, Gone
    <3>7. CASE <<t, p>> \in Contents(horizons[c])
      BY <3>1, <3>2, <3>4, <3>7 DEF Loaded, Contents
    <3>8. ASSUME NEW i \in Processes, process[i].step = "saved", Pair(i) = <<p, c>>
          PROVE  OtherSaved(k, p, c)'
      <4>1. i # k
        BY <3>1, <3>8
      <4>2. process'[i] = process[i]
        BY <1>4, <4>1, OthersStay
      <4> QED
        BY <3>8, <4>1, <4>2 DEF OtherSaved, Pair
    <3> QED
      BY <3>6, <3>7, <3>8 DEF Covered
  <2>2. CASE j # k
    BY <1>1, <1>4, <2>2, OthersStay DEF ReadHorizons
  <2> QED
    BY <2>1, <2>2
<1>5. ASSUME NEW k \in Processes, Grant(k) \/ Subscribe(k), NEW p, p = process[k].producer,
             NEW c, c = process[k].consumer, OtherSaved(k, p, c)
      PROVE  OtherSaved(k, p, c)'
  <2>1. PICK i \in Processes \ {k} : process[i].step = "saved" /\ Pair(i) = <<p, c>>
    BY <1>5 DEF OtherSaved
  <2>2. process'[i] = process[i]
    BY <1>5, <2>1, OthersStay
  <2> QED
    BY <2>1, <2>2 DEF OtherSaved, Pair
<1>6. ASSUME NEW k \in Processes, NEW j \in Processes, Grant(k) PROVE MatchKept(j)'
  <2>1. CASE j = k
    <3>1. /\ process[k].step = "granting" /\ process'[k].step = "subscribing"
          /\ process'[k].producer = process[k].producer /\ process'[k].consumer = process[k].consumer
          /\ process'[k].consents = Added(process[k].consents, Granted(k))
          /\ process'[k].horizons = process[k].horizons
          /\ UNCHANGED <<disturbed, interrupted, overlapped, tenants>>
      BY <1>0, <1>6 DEF Grant, ProcessTypes, files
    <3>2. TenantsFor(k)' = TenantsFor(k)
      BY <3>1 DEF TenantsFor, Contents
    <3>3. SUFFICES ASSUME k \notin overlapped, process'[k].consents # NoFile, process[k].horizons # NoFile,
                          NEW t \in Tenants, NEW p, p = process[k].producer,
                          NEW c, c = process[k].consumer, <<t, c>> \in process'[k].consents
                   PROVE  \/ Gone(p, c) \/ <<t, p>> \in process[k].horizons \/ t \in TenantsFor(k)
                          \/ OtherSaved(k, p, c)'
      BY <2>1, <3>1, <3>2 DEF MatchKept, Gone, OtherSaved
    <3>4. CASE <<t, c>> \in Granted(k)
      BY <3>4 DEF Granted
    <3>5. CASE process[k].consents # NoFile /\ <<t, c>> \in process[k].consents
      <4>1. Gone(p, c) \/ <<t, p>> \in process[k].horizons \/ OtherSaved(k, p, c)
        BY <3>1, <3>3, <3>5 DEF HorizonsKept, MatchKept
      <4> QED
        BY <1>5, <1>6, <3>3, <4>1
    <3> QED
      BY <3>1, <3>3, <3>4, <3>5 DEF Added
  <2>2. CASE j # k
    BY <1>1, <1>6, <2>2, OthersStay DEF Grant
  <2> QED
    BY <2>1, <2>2
<1>7. ASSUME NEW k \in Processes, NEW j \in Processes, Subscribe(k) PROVE MatchKept(j)'
  <2>1. CASE j = k
    <3>1. /\ process[k].step = "subscribing" /\ process'[k].step = "saving"
          /\ process'[k].producer = process[k].producer /\ process'[k].consumer = process[k].consumer
          /\ process'[k].consents = process[k].consents
          /\ process'[k].horizons = Added(process[k].horizons, Subscribed(k))
          /\ UNCHANGED <<disturbed, interrupted, overlapped>>
      BY <1>0, <1>7 DEF Subscribe, ProcessTypes
    <3>2. SUFFICES ASSUME k \notin overlapped, process[k].consents # NoFile, process'[k].horizons # NoFile,
                          NEW t \in Tenants, NEW p, p = process[k].producer,
                          NEW c, c = process[k].consumer, <<t, c>> \in process[k].consents
                   PROVE  Gone(p, c) \/ <<t, p>> \in process'[k].horizons \/ OtherSaved(k, p, c)'
      BY <2>1, <3>1 DEF MatchKept, Gone, OtherSaved
    <3>3. process[k].horizons # NoFile /\ process'[k].horizons = process[k].horizons \cup Subscribed(k)
      BY <3>1, <3>2 DEF Added
    <3>4. \/ Gone(p, c) \/ <<t, p>> \in process[k].horizons \/ t \in TenantsFor(k)
          \/ OtherSaved(k, p, c)
      BY <3>1, <3>2, <3>3 DEF HorizonsKept, MatchKept
    <3>5. t \in TenantsFor(k) => <<t, p>> \in Subscribed(k)
      BY <3>2 DEF Subscribed
    <3> QED
      BY <1>5, <1>7, <3>2, <3>3, <3>4, <3>5
  <2>2. CASE j # k
    BY <1>1, <1>7, <2>2, OthersStay DEF Subscribe
  <2> QED
    BY <2>1, <2>2
<1>8. ASSUME NEW k \in TenantCommands, NEW j \in Processes, ReadTenants(k) \/ SaveTenants(k)
      PROVE MatchKept(j)'
  BY <1>1, <1>8 DEF ReadTenants, SaveTenants, connectVars
<1>9. ASSUME UNCHANGED horizonVars, NEW j \in Processes PROVE MatchKept(j)'
  BY <1>1, <1>9 DEF horizonVars, connectVars
<1> QED
  BY FilesSteps, <1>3, <1>4, <1>6, <1>7, <1>8, <1>9 DEF Beginning

LEMMA SavedStaysKept ==
  ASSUME HorizonsTypes, HorizonsKept, FilesStep
  PROVE  \A k \in Processes : SavedKept(k)'
<1>0. FilesTypes /\ process \in [Processes -> ProcessTypes]
  BY HorizonsGroups DEF HorizonsTypes
<1> DEFINE Saved(k, t, p, c) == \/ Gone(p, c)
                                \/ <<t, p>> \in process[k].horizons
                                \/ OtherSaved(k, p, c)
\* A connect that stays saved: whatever is new in the file of its producer is
\* of another connect, or was in the file before.
<1>1. ASSUME NEW j \in Processes, process'[j] = process[j], j \in overlapped => j \in overlapped',
             process[j].step = "saved", j \notin overlapped', process[j].horizons # NoFile,
             NEW t \in Tenants, NEW p, p = process[j].producer, NEW c, c = process[j].consumer,
             <<t, c>> \in Contents(consents[p])
      PROVE  Saved(j, t, p, c)'
  <2>1. process[j].step \in HasHorizons /\ p \in Microservices /\ c \in Microservices
    BY <1>1 DEF HorizonsTypes, Pairs, UnderWay, HasHorizons
  <2>2. Saved(j, t, p, c)
    BY <1>1 DEF HorizonsKept, SavedKept
  <2>3. CASE Gone(p, c) \/ OtherSaved(j, p, c)
    BY <1>1, <2>1, <2>3, CoverStays
  <2>4. CASE <<t, p>> \in process[j].horizons
    BY <1>1, <2>4
  <2> QED
    BY <2>2, <2>3, <2>4
<1>2. ASSUME NEW j \in Processes, process'[j] = process[j], j \in overlapped => j \in overlapped',
             UNCHANGED consents
      PROVE  SavedKept(j)'
  <2>1. SUFFICES ASSUME process[j].step = "saved", j \notin overlapped', process[j].horizons # NoFile,
                        NEW t \in Tenants, NEW p, p = process[j].producer, NEW c, c = process[j].consumer,
                        <<t, c>> \in Contents(consents[p])
                 PROVE  Saved(j, t, p, c)'
    BY <1>2 DEF SavedKept, Gone, OtherSaved, Contents
  <2> QED
    BY <1>1, <1>2, <2>1
<1>3. ASSUME NEW j \in Processes, process'[j].step # "saved" PROVE SavedKept(j)'
  BY <1>3 DEF SavedKept
<1>4. ASSUME NEW k \in Processes, NEW j \in Processes,
             \/ \E p, c \in Microservices, overwrite \in BOOLEAN : Begin(k, p, c, overwrite)
             \/ ReadHorizons(k) \/ Grant(k) \/ Subscribe(k) \/ SaveHorizons(k) \/ Ending(k)
      PROVE SavedKept(j)'
  <2>1. CASE j = k
    <3>1. process'[k].step # "saved"
      BY <1>0, <1>4 DEF Begin, ReadHorizons, Grant, Subscribe, SaveHorizons, Ending, Refuse, Crash, Throw,
                        EditorEnds, At, ProcessTypes
    <3> QED
      BY <1>3, <2>1, <3>1
  <2>2. CASE j # k
    <3>1. UNCHANGED consents /\ (j \in overlapped => j \in overlapped')
      BY <1>4, <2>2 DEF Begin, ReadHorizons, Grant, Subscribe, SaveHorizons, Ending, Refuse, Crash, Throw,
                        EditorEnds, files
    <3> QED
      BY <1>2, <1>4, <2>2, <3>1, OthersStay
  <2> QED
    BY <2>1, <2>2
<1>5. ASSUME NEW k \in Processes, NEW j \in Processes, SaveConsents(k) PROVE SavedKept(j)'
  <2>0. /\ process[k].step = "saving" /\ process[k].consents # NoFile
        /\ process' = [process EXCEPT ![k] = [process[k] EXCEPT !.step = "saved"]]
        /\ consents' = [consents EXCEPT ![process[k].producer] = process[k].consents]
        /\ overlapped \subseteq overlapped'
    BY <1>0, <1>5 DEF SaveConsents
  <2>1. /\ process'[k].producer = process[k].producer /\ process'[k].consumer = process[k].consumer
        /\ process'[k].horizons = process[k].horizons /\ process'[k].step = "saved"
        /\ process[k].producer \in Microservices /\ process[k].consumer \in Microservices
    BY <1>0, <2>0 DEF ProcessTypes, HorizonsTypes, Pairs, UnderWay, HasConsents
  <2>2. CASE j = k
    <3>1. SUFFICES ASSUME k \notin overlapped', process[k].horizons # NoFile, NEW t \in Tenants,
                          NEW p, p = process[k].producer, NEW c, c = process[k].consumer,
                          <<t, c>> \in Contents(consents'[p])
                   PROVE  Gone(p, c)' \/ <<t, p>> \in process[k].horizons \/ OtherSaved(k, p, c)'
      BY <2>1, <2>2 DEF SavedKept, Gone, OtherSaved, Contents
    <3>2. <<t, c>> \in process[k].consents
      BY <1>0, <2>0, <2>1, <3>1 DEF FilesTypes, Contents
    <3>3. Gone(p, c) \/ <<t, p>> \in process[k].horizons \/ OtherSaved(k, p, c)
      BY <2>0, <3>1, <3>2 DEF HorizonsKept, MatchKept
    <3>4. process[k].step \in HasHorizons
      BY <2>0 DEF HasHorizons
    <3> QED
      BY <2>1, <3>1, <3>3, <3>4, CoverStays
  <2>3. CASE j # k
    <3>1. process'[j] = process[j]
      BY <1>5, <2>3, OthersStay
    <3>2. SUFFICES ASSUME process[j].step = "saved", j \notin overlapped', process[j].horizons # NoFile,
                          NEW t \in Tenants, NEW p, p = process[j].producer, NEW c, c = process[j].consumer,
                          <<t, c>> \in Contents(consents'[p])
                   PROVE  Saved(j, t, p, c)'
      BY <3>1 DEF SavedKept, Gone, OtherSaved, Contents
    <3>3. p \in Microservices /\ c \in Microservices
      BY <3>2 DEF HorizonsTypes, Pairs, UnderWay, HasHorizons
    <3>4. CASE Pair(k) = <<p, c>>
      <4>1. OtherSaved(j, p, c)'
        BY <2>1, <2>3, <3>4 DEF OtherSaved, Pair
      <4> QED
        BY <4>1
    <3>5. CASE p = process[k].producer /\ c # process[k].consumer
      <4>1. <<t, c>> \in process[k].consents
        BY <1>0, <2>0, <3>2, <3>3, <3>5 DEF FilesTypes, Contents
      <4>2. Consented(t, p, c)
        BY <2>0, <3>3, <3>5, <4>1 DEF HorizonsKept, PendingInFile, HasConsents
      <4>3. CASE Gone(p, c)
        BY <4>3, GoneStays
      <4>4. CASE <<t, c>> \in Contents(consents[p])
        BY <1>1, <2>0, <3>1, <3>2, <4>4
      <4> QED
        BY <4>2, <4>3, <4>4 DEF Consented, Gone
    <3>6. CASE p # process[k].producer
      <4>1. consents'[p] = consents[p]
        BY <1>0, <2>0, <3>3, <3>6 DEF FilesTypes
      <4> QED
        BY <1>1, <2>0, <3>1, <3>2, <4>1
    <3> QED
      BY <3>4, <3>5, <3>6 DEF Pair
  <2> QED
    BY <2>2, <2>3
<1>6. ASSUME NEW k \in TenantCommands, NEW j \in Processes, ReadTenants(k) \/ SaveTenants(k)
      PROVE SavedKept(j)'
  BY <1>2, <1>6 DEF ReadTenants, SaveTenants, files, connectVars
<1>7. ASSUME UNCHANGED horizonVars, NEW j \in Processes PROVE SavedKept(j)'
  BY <1>2, <1>7 DEF horizonVars, files, connectVars
<1> QED
  BY FilesSteps, <1>4, <1>5, <1>6, <1>7 DEF Beginning

LEMMA FileStaysCovered ==
  ASSUME HorizonsTypes, HorizonsKept, FilesStep
  PROVE  FileCovered'
<1>0. FilesTypes /\ process \in [Processes -> ProcessTypes]
  BY HorizonsGroups DEF HorizonsTypes
<1>1. SUFFICES ASSUME NEW t \in Tenants, NEW p \in Microservices, NEW c \in Microservices,
                      <<t, c>> \in Contents(consents'[p])
               PROVE  Covered(t, p, c)'
  BY DEF FileCovered, Contents
\* What was in the file stays covered: a connect that ends the cover of
\* another one has saved the horizons itself.
<1>2. ASSUME <<t, c>> \in Contents(consents[p]) PROVE Covered(t, p, c)'
  <2>1. Covered(t, p, c)
    BY <1>2 DEF HorizonsKept, FileCovered
  <2>2. CASE Gone(p, c)
    BY <2>2, GoneStays DEF Covered
  <2>3. CASE <<t, p>> \in Contents(horizons[c])
    BY <2>3, HorizonedStays DEF Horizoned, Covered, Gone
  <2>4. ASSUME NEW k \in Processes, process[k].step = "saved", Pair(k) = <<p, c>>
        PROVE  Covered(t, p, c)'
    <3>1. process[k].producer = p /\ process[k].consumer = c
      BY <2>4 DEF Pair
    <3>2. CASE SaveHorizons(k)
      <4>1. process[k].horizons # NoFile /\ horizons'[c] = process[k].horizons
        BY <1>0, <3>1, <3>2 DEF SaveHorizons, FilesTypes
      <4>2. CASE k \in overlapped
        BY <2>4, <3>2, <4>2 DEF SaveHorizons, Disturb, Covered, Gone
      <4>3. CASE <<t, p>> \in process[k].horizons
        BY <4>1, <4>3 DEF Covered, Contents
      <4>4. CASE Gone(p, c)
        BY <4>4, GoneStays DEF Covered
      <4>5. ASSUME NEW i \in Processes \ {k}, process[i].step = "saved", Pair(i) = <<p, c>>
            PROVE  Covered(t, p, c)'
        <5>1. process'[i] = process[i]
          BY <3>2, <4>5, OthersStay
        <5> QED
          BY <4>5, <5>1 DEF Covered, Pair
      <4>6. \/ k \in overlapped \/ Gone(p, c) \/ <<t, p>> \in process[k].horizons \/ OtherSaved(k, p, c)
        BY <1>2, <2>4, <3>1, <4>1 DEF HorizonsKept, SavedKept
      <4> QED
        BY <4>2, <4>3, <4>4, <4>5, <4>6 DEF OtherSaved
    <3>3. CASE process'[k] = process[k]
      BY <2>4, <3>3 DEF Covered, Pair
    <3>4. CASE Pair(k) \in interrupted'
      BY <2>4, <3>4 DEF Covered, Gone
    <3> QED
      BY <2>4, <3>2, <3>3, <3>4, SavedStays
  <2> QED
    BY <2>1, <2>2, <2>3, <2>4 DEF Covered
<1>3. ASSUME NEW k \in Processes, SaveConsents(k) PROVE Covered(t, p, c)'
  <2>0. /\ process[k].step = "saving" /\ process[k].consents # NoFile
        /\ process' = [process EXCEPT ![k] = [process[k] EXCEPT !.step = "saved"]]
        /\ consents' = [consents EXCEPT ![process[k].producer] = process[k].consents]
    BY <1>0, <1>3 DEF SaveConsents
  <2>1. CASE p # process[k].producer
    BY <1>0, <1>1, <1>2, <2>0, <2>1 DEF FilesTypes
  <2>2. CASE Pair(k) = <<p, c>>
    BY <1>0, <2>0, <2>2 DEF Covered, Pair, ProcessTypes
  <2>3. CASE p = process[k].producer /\ c # process[k].consumer
    <3>1. <<t, c>> \in process[k].consents
      BY <1>0, <1>1, <2>0, <2>3 DEF FilesTypes, Contents
    <3>2. Consented(t, p, c)
      BY <2>0, <2>3, <3>1 DEF HorizonsKept, PendingInFile, HasConsents
    <3>3. CASE Gone(p, c)
      BY <3>3, GoneStays DEF Covered
    <3> QED
      BY <1>2, <3>2, <3>3 DEF Consented, Gone
  <2> QED
    BY <2>1, <2>2, <2>3 DEF Pair
<1>4. ASSUME ~ \E k \in Processes : SaveConsents(k) PROVE Covered(t, p, c)'
  <2>1. UNCHANGED consents
    BY <1>4, FilesSteps DEF Beginning, Begin, ReadHorizons, Grant, Subscribe, SaveHorizons, Ending, Refuse,
                            Crash, Throw, EditorEnds, ReadTenants, SaveTenants, horizonVars, files
  <2> QED
    BY <1>1, <1>2, <2>1
<1> QED
  BY <1>3, <1>4

LEMMA HorizonsStayKept ==
  ASSUME HorizonsTypes, HorizonsKept, FilesStep
  PROVE  HorizonsKept'
BY ReadStaysKept, PendingStaysInFile, MatchStaysKept, SavedStaysKept, FileStaysCovered DEF HorizonsKept

LEMMA KeptHasHorizons ==
  ASSUME HorizonsKept
  PROVE  ConsentsHaveHorizons
BY DEF HorizonsKept, FileCovered, Covered, Gone, ConsentsHaveHorizons

-----------------------------------------------------------------------------
(* At first.                                                                  *)

LEMMA HorizonsInitially ==
  ASSUME HorizonsInit
  PROVE  /\ HorizonsTypes
         /\ \A k \in Processes : HasWhatIsThere(k)
         /\ ConsentsKept
         /\ HorizonsKept
<1>0. At("new") \in ProcessTypes /\ At("new").step = "new" /\ "new" \notin UnderWay
  BY EndedProcess
<1>1. \A k \in Processes : process[k] = At("new")
  BY DEF HorizonsInit
<1>2. process \in [Processes -> ProcessTypes]
  BY <1>0 DEF HorizonsInit
<1>3. FilesTypes
  <2>1. {} \in Entries /\ tenants \in {NoFile} \cup SUBSET Tenants
    BY FilesAssumption DEF HorizonsInit, Entries
  <2>2. consents \in [Microservices -> {NoFile} \cup Entries] /\ horizons = consents
    BY <2>1 DEF HorizonsInit
  <2>3. edit \in [TenantCommands -> [step : {"new", "saving", "done"}, tenants : SUBSET Tenants]]
    BY DEF HorizonsInit
  <2> QED
    BY <2>1, <2>2, <2>3 DEF FilesTypes
<1>4. HistoryTypes
  BY DEF HorizonsInit, HistoryTypes
<1>5. HorizonsTypes
  BY <1>0, <1>1, <1>2, <1>3, <1>4, HorizonsGroups DEF HorizonsTypes, Pairs
<1>6. \A m \in Microservices : Contents(consents[m]) = {} /\ Contents(horizons[m]) = {}
  BY DEF HorizonsInit, Contents
<1>7. \A k \in Processes : process[k].step = "new"
  BY <1>0, <1>1
<1>8. \A k \in Processes : HasWhatIsThere(k)
  BY <1>7 DEF HasWhatIsThere, HasConsents, HasHorizons
<1>9. ConsentsKept
  BY <1>6, <1>7 DEF ConsentsKept, GrantKept, PendingConsented, FileConsented, HasHorizons
<1>10. HorizonsKept
  BY <1>6, <1>7 DEF HorizonsKept, ReadKept, PendingInFile, MatchKept, SavedKept, FileCovered, HasConsents
<1> QED
  BY <1>5, <1>8, <1>9, <1>10

-----------------------------------------------------------------------------
(* The editor.                                                               *)

-----------------------------------------------------------------------------
(* Types.                                                                     *)

LayoutTypes ==
  /\ listed \subseteq Microservices
  /\ written \subseteq listed
  /\ places \in [Microservices -> Places]
  /\ links \subseteq Microservices \X Microservices

ChannelTypes ==
  /\ toHost \in Seq(Messages)
  /\ toView \in Seq(Texts)

ViewTypes ==
  /\ view \in {"closed", "visible", "hidden"}
  /\ shown \in Texts
  /\ state \in {NoFile} \cup Texts
  /\ stale \in BOOLEAN
  /\ thrown \subseteq Microservices \X Microservices
  /\ gestures \in Nat
  /\ hides \in Nat

EditorTypes == LayoutTypes /\ ChannelTypes /\ ViewTypes

LEMMA TypeGroups == TypeOK <=> HorizonsTypeOK /\ EditorTypes
BY DEF TypeOK, EditorTypes, LayoutTypes, ChannelTypes, ViewTypes

LEMMA PlacesLaidOut ==
  ASSUME LayoutTypes
  PROVE  /\ LaidOut \in [Microservices -> Places]
         /\ Text \in Texts
<1>1. LaidOut \in [Microservices -> Places]
  BY DEF LayoutTypes, LaidOut, Places
<1>2. written \subseteq Microservices
  BY DEF LayoutTypes
<1> QED
  BY <1>1, <1>2 DEF Text, Texts, LayoutTypes

LEMMA ElementsTyped ==
  ASSUME NEW text \in Texts
  PROVE  ElementsFrom(text) \in Texts
<1> DEFINE p == [m \in Microservices |-> IF m \in text.nodes THEN text.places[m] ELSE "none"]
<1>1. p \in [Microservices -> Places]
  BY DEF Texts, Places
<1>2. ElementsFrom(text) = [text EXCEPT !.places = p]
  BY DEF ElementsFrom
<1> HIDE DEF p
<1> QED
  BY <1>1, <1>2 DEF Texts

LEMMA NothingTyped == NothingShown \in Texts
BY DEF NothingShown, Texts, Places

\* Every step is one of the files, or leaves them alone.
LEMMA StepOfFiles ==
  ASSUME TypeOK, [Next]_vars
  PROVE  FilesStep
<1>1. CASE Connecting
  <2>1. Provided \in SUBSET Microservices
    BY DEF Provided, TypeOK
  <2> QED
    BY <1>1, <2>1 DEF Connecting, FilesStep
<1>2. CASE ConnectMessage
  BY <1>2 DEF ConnectMessage, FilesStep, TypeOK
<1>3. CASE SaveLayout
  BY <1>3 DEF SaveLayout, FilesStep, EditorEnds
<1>4. CASE \/ OpenEditor \/ UpdateDocument \/ MicroserviceMoved \/ ShowView \/ HideView \/ Update
           \/ \E m \in Microservices : ElementMoved(m)
           \/ \E p, c \in Microservices : OnConnect(p, c)
           \/ \E m \in Microservices : AppendMicroserviceToApplication(m) \/ WriteMicroservice(m)
           \/ UNCHANGED vars
  BY <1>4 DEF OpenEditor, UpdateDocument, MicroserviceMoved, ShowView, HideView, Update, ElementMoved,
              OnConnect, AppendMicroserviceToApplication, WriteMicroservice, FilesStep, vars
<1> QED
  BY <1>1, <1>2, <1>3, <1>4 DEF Next

LEMMA SentTyped ==
  ASSUME LayoutTypes, ChannelTypes, ViewTypes, NEW messages \in Seq(Messages), UpdateWebview(messages)
  PROVE  places' \in [Microservices -> Places] /\ toView' \in Seq(Texts) /\ stale' \in BOOLEAN
<1>1. stale' \in BOOLEAN
  BY DEF UpdateWebview
<1> QED
  BY <1>1, PlacesLaidOut DEF UpdateWebview, LayoutTypes, ChannelTypes

LEMMA LayoutStaysTyped ==
  ASSUME HorizonsTypes, EditorTypes, [Next]_vars
  PROVE  LayoutTypes'
<1>0. LayoutTypes /\ ChannelTypes /\ ViewTypes
  BY DEF EditorTypes
<1>1. CASE OpenEditor \/ UpdateDocument
  <2>1. PICK messages \in Seq(Messages) : UpdateWebview(messages)
    <3>1. toHost # <<>> => Tail(toHost) \in Seq(Messages)
      BY <1>0 DEF ChannelTypes
    <3>2. <<>> \in Seq(Messages)
      OBVIOUS
    <3> QED
      BY <1>1, <3>1, <3>2 DEF OpenEditor, UpdateDocument, Handle
  <2>2. UNCHANGED <<listed, written, links>>
    BY <1>1 DEF OpenEditor, UpdateDocument, appVars
  <2> QED
    BY <1>0, <2>1, <2>2, SentTyped DEF LayoutTypes
<1>2. ASSUME NEW m \in Microservices, AppendMicroserviceToApplication(m) PROVE LayoutTypes'
  <2>1. places' \in [Microservices -> Places]
    BY <1>0, <1>2, SentTyped DEF AppendMicroserviceToApplication, LayoutTypes, ChannelTypes
  <2> QED
    BY <1>0, <1>2, <2>1 DEF AppendMicroserviceToApplication, LayoutTypes
<1>3. ASSUME NEW m \in Microservices, WriteMicroservice(m) PROVE LayoutTypes'
  BY <1>0, <1>3 DEF WriteMicroservice, LayoutTypes, layoutVars
<1>4. CASE MicroserviceMoved
  BY <1>0, <1>4 DEF MicroserviceMoved, LayoutTypes, Places, appVars
<1>5. CASE SaveLayout
  <2>1. Pair(Editor) \in Microservices \X Microservices
    BY <1>5, GrantedEntries DEF SaveLayout, UnderWay, Processes
  <2> QED
    BY <1>0, <1>5, <2>1 DEF SaveLayout, LayoutTypes, appVars
<1>6. CASE \/ Connecting \/ ConnectMessage \/ ShowView \/ HideView \/ Update
           \/ \E m \in Microservices : ElementMoved(m)
           \/ \E p, c \in Microservices : OnConnect(p, c)
           \/ UNCHANGED vars
  <2>1. UNCHANGED <<appVars, layoutVars>>
    BY <1>6 DEF Connecting, ConnectMessage, ShowView, HideView, Update, ElementMoved, OnConnect, vars
  <2> QED
    BY <1>0, <2>1 DEF LayoutTypes, appVars, layoutVars
<1> QED
  BY <1>1, <1>2, <1>3, <1>4, <1>5, <1>6 DEF Next

LEMMA ChannelsStayTyped ==
  ASSUME EditorTypes, [Next]_vars
  PROVE  ChannelTypes'
<1>0. LayoutTypes /\ ChannelTypes /\ ViewTypes
  BY DEF EditorTypes
<1>h. toHost # <<>> => Tail(toHost) \in Seq(Messages)
  BY <1>0 DEF ChannelTypes
<1>1. CASE OpenEditor
  <2>1. <<>> \in Seq(Messages) /\ [type |-> "updateDocument"] \in Messages
    BY DEF Messages
  <2>2. toView' \in Seq(Texts)
    BY <1>0, <1>1, <2>1, SentTyped DEF OpenEditor
  <2> QED
    BY <1>1, <2>1, <2>2 DEF OpenEditor, ChannelTypes
<1>2. CASE UpdateDocument
  <2>1. toHost' \in Seq(Messages)
    BY <1>2, <1>h DEF UpdateDocument, Handle
  <2> QED
    BY <1>0, <1>2, <2>1, SentTyped DEF UpdateDocument, ChannelTypes
<1>3. ASSUME NEW m \in Microservices, AppendMicroserviceToApplication(m) PROVE ChannelTypes'
  <2>1. toView' \in Seq(Texts)
    BY <1>0, <1>3, SentTyped DEF AppendMicroserviceToApplication, ChannelTypes
  <2> QED
    BY <1>0, <1>3, <2>1 DEF AppendMicroserviceToApplication, ChannelTypes
<1>4. CASE MicroserviceMoved \/ ConnectMessage
  BY <1>0, <1>h, <1>4 DEF MicroserviceMoved, ConnectMessage, Handle, ChannelTypes
<1>5. CASE ShowView
  <2>1. [type |-> "updateDocument"] \in Messages
    BY DEF Messages
  <2>2. toHost' \in {toHost, Append(toHost, [type |-> "updateDocument"])} /\ UNCHANGED toView
    BY <1>5 DEF ShowView
  <2> QED
    BY <1>0, <2>1, <2>2 DEF ChannelTypes
<1>6. CASE HideView
  BY <1>0, <1>6 DEF HideView, ChannelTypes
<1>7. CASE Update
  BY <1>0, <1>7 DEF Update, ChannelTypes
<1>8. ASSUME NEW m \in Microservices, ElementMoved(m) PROVE ChannelTypes'
  <2>1. [type |-> "microserviceMoved", id |-> m] \in Messages
    BY DEF Messages
  <2> QED
    BY <1>0, <1>8, <2>1 DEF ElementMoved, ChannelTypes
<1>9. ASSUME NEW p \in Microservices, NEW c \in Microservices, OnConnect(p, c) PROVE ChannelTypes'
  <2>1. [type |-> "connect", producer |-> p, consumer |-> c] \in Messages
    BY DEF Messages
  <2> QED
    BY <1>0, <1>9, <2>1 DEF OnConnect, ChannelTypes
<1>10. CASE Connecting \/ SaveLayout \/ (\E m \in Microservices : WriteMicroservice(m)) \/ UNCHANGED vars
  BY <1>0, <1>10 DEF Connecting, SaveLayout, WriteMicroservice, channels, vars, ChannelTypes
<1> QED
  BY <1>1, <1>2, <1>3, <1>4, <1>5, <1>6, <1>7, <1>8, <1>9, <1>10 DEF Next

LEMMA ViewStaysTyped ==
  ASSUME HorizonsTypes, EditorTypes, [Next]_vars
  PROVE  ViewTypes'
<1>0. LayoutTypes /\ ChannelTypes /\ ViewTypes
  BY DEF EditorTypes
<1>h. toHost # <<>> => Tail(toHost) \in Seq(Messages)
  BY <1>0 DEF ChannelTypes
<1>1. CASE OpenEditor \/ UpdateDocument \/ \E m \in Microservices : AppendMicroserviceToApplication(m)
  <2>1. stale' \in BOOLEAN
    BY <1>0, <1>1 DEF OpenEditor, UpdateDocument, AppendMicroserviceToApplication, UpdateWebview, ViewTypes
  <2> QED
    BY <1>0, <1>1, <2>1 DEF OpenEditor, UpdateDocument, AppendMicroserviceToApplication, bounds, ViewTypes
<1>2. CASE ShowView
  <2>1. shown' \in Texts
    BY <1>0, <1>2, NothingTyped, ElementsTyped DEF ShowView, ViewTypes
  <2>2. stale' \in BOOLEAN
    BY <1>0, <1>2 DEF ShowView, ViewTypes
  <2> QED
    BY <1>0, <1>2, <2>1, <2>2 DEF ShowView, bounds, ViewTypes
<1>3. CASE HideView
  BY <1>0, <1>3 DEF HideView, ViewTypes
<1>4. CASE Update
  <2>1. Head(toView) \in Texts
    BY <1>0, <1>4 DEF Update, ChannelTypes
  <2> QED
    BY <1>0, <1>4, <2>1, ElementsTyped DEF Update, bounds, ViewTypes
<1>5. ASSUME NEW m \in Microservices, ElementMoved(m) PROVE ViewTypes'
  <2>1. shown' \in Texts
    BY <1>0, <1>5 DEF ElementMoved, ViewTypes, Texts, Places
  <2> QED
    BY <1>0, <1>5, <2>1 DEF ElementMoved, Gesture, ViewTypes
<1>6. ASSUME NEW p \in Microservices, NEW c \in Microservices, OnConnect(p, c) PROVE ViewTypes'
  <2>1. shown' \in Texts
    BY <1>0, <1>6 DEF OnConnect, ViewTypes, Texts
  <2> QED
    BY <1>0, <1>6, <2>1 DEF OnConnect, Gesture, ViewTypes
<1>7. CASE Connecting
  <2>1. Throw => Pair(Editor) \in Microservices \X Microservices
    BY GrantedEntries DEF Throw, UnderWay, HasConsents, HasHorizons, Processes
  <2> QED
    BY <1>0, <1>7, <2>1 DEF Connecting, viewVars, bounds, ViewTypes
<1>8. ASSUME NEW m \in Microservices, WriteMicroservice(m) PROVE ViewTypes'
  BY <1>0, <1>8 DEF WriteMicroservice, bounds, ViewTypes
<1>9. CASE MicroserviceMoved \/ ConnectMessage \/ SaveLayout \/ UNCHANGED vars
  BY <1>0, <1>9 DEF MicroserviceMoved, ConnectMessage, SaveLayout, viewVars, bounds, vars, ViewTypes
<1> QED
  BY <1>1, <1>2, <1>3, <1>4, <1>5, <1>6, <1>7, <1>8, <1>9 DEF Next

\* What types alone are inductive with: a connect that is under way has its
\* two microservices.
Typed == HorizonsTypes /\ EditorTypes

LEMMA TypedFirst ==
  ASSUME Init
  PROVE  Typed
<1>1. HorizonsTypes
  BY HorizonsInitially DEF Init
<1>2. LayoutTypes
  BY EditorAssumption DEF Init, LayoutTypes, Places
<1>3. ChannelTypes
  BY DEF Init, ChannelTypes
<1>4. ViewTypes
  BY NothingTyped DEF Init, ViewTypes
<1> QED
  BY <1>1, <1>2, <1>3, <1>4 DEF Typed, EditorTypes

LEMMA TypedStep ==
  ASSUME Typed, [Next]_vars
  PROVE  Typed' /\ FilesStep
<1>1. TypeOK
  BY TypeGroups DEF Typed, HorizonsTypes
<1>2. FilesStep
  BY <1>1, StepOfFiles
<1> QED
  BY <1>2, FilesStepTyped, LayoutStaysTyped, ChannelsStayTyped, ViewStaysTyped DEF Typed, EditorTypes

LEMMA TypedAlways == Spec => []Typed
<1>1. Init => Typed
  BY TypedFirst
<1>2. Typed /\ [Next]_vars => Typed'
  BY TypedStep
<1> QED
  BY <1>1, <1>2, PTL DEF Spec

\* The types of the files, the layout, the messages and the view.
THEOREM TypeCorrect == Spec => []TypeOK
<1>1. Typed => TypeOK
  BY TypeGroups DEF Typed, HorizonsTypes
<1> QED
  BY <1>1, TypedAlways, PTL

-----------------------------------------------------------------------------
(* The files of connections, whatever the editor does.                        *)

FilesInvariant == Typed /\ (\A k \in Processes : HasWhatIsThere(k)) /\ ConsentsKept /\ HorizonsKept

LEMMA FilesAlways == Spec => []FilesInvariant
<1>1. Init => FilesInvariant
  BY TypedFirst, HorizonsInitially DEF Init, FilesInvariant
<1>2. FilesInvariant /\ [Next]_vars => FilesInvariant'
  BY TypedStep, WhatIsThereKept, ConsentsStayKept, HorizonsStayKept DEF FilesInvariant, Typed
<1> QED
  BY <1>1, <1>2, PTL DEF Spec

\* Whenever a backend is started it is let read from all it subscribes to,
\* but for what was disturbed.
THEOREM BackendsMayRead == Spec => []HorizonsConsented
<1>1. FilesInvariant => HorizonsConsented
  BY KeptIsConsented DEF FilesInvariant, Typed
<1> QED
  BY <1>1, FilesAlways, PTL

\* No connection is left half made, but by what was interrupted or disturbed.
THEOREM NothingHalfMade == Spec => []ConsentsHaveHorizons
<1>1. FilesInvariant => ConsentsHaveHorizons
  BY KeptHasHorizons DEF FilesInvariant
<1> QED
  BY <1>1, FilesAlways, PTL

\* A step drops a connection from a file only if it overwrites or is overlapped.
THEOREM ConnectionsAreKept == Spec => KeepsConnections
<1>1. FilesInvariant /\ [Next]_vars =>
        [\/ Keeps(consents) /\ Keeps(horizons)
         \/ \E k \in Processes : MayDrop(k)]_horizonVars
  BY TypedStep, ConnectionsKept DEF FilesInvariant, Typed
<1> QED
  BY <1>1, FilesAlways, PTL DEF Spec, KeepsConnections

\* Nothing the program does puts a microservice back that was placed by hand.
THEOREM HandPlacesAreKept == Spec => HandPlacesStay
<1>1. Typed /\ [Next]_vars => [\A m \in Microservices : places[m] = "hand" => places'[m] = "hand"]_vars
  <2> SUFFICES ASSUME Typed, [Next]_vars, NEW m \in Microservices, places[m] = "hand"
               PROVE  places'[m] = "hand"
    OBVIOUS
  <2>0. places \in [Microservices -> Places] /\ LaidOut = places
    BY DEF Typed, EditorTypes, LayoutTypes, LaidOut
  <2>1. CASE MicroserviceMoved
    BY <2>0, <2>1 DEF MicroserviceMoved
  <2>2. CASE ~MicroserviceMoved
    <3>1. places' \in {places, LaidOut}
      BY <2>2 DEF Next, Connecting, OpenEditor, UpdateDocument, ConnectMessage, SaveLayout, ShowView, HideView,
                  Update, ElementMoved, OnConnect, AppendMicroserviceToApplication, WriteMicroservice,
                  UpdateWebview, layoutVars, vars
    <3> QED
      BY <2>0, <3>1
  <2> QED
    BY <2>1, <2>2
<1> QED
  BY <1>1, TypedAlways, PTL DEF Spec, HandPlacesStay

-----------------------------------------------------------------------------
(* What is drawn.                                                             *)

\* The editor gives development its consent and its event horizon, and draws
\* the connection when both are in their files.
EditorKept ==
  LET P == process[Editor] IN
  /\ P.step \in {"subscribing", "saving"} =>
       P.consents = NoFile \/ <<Development, P.consumer>> \in P.consents
  /\ P.step \in {"saving", "saved"} =>
       P.horizons = NoFile \/ <<Development, P.producer>> \in P.horizons
  /\ P.step \in {"saved", "drawing"} => Consented(Development, P.producer, P.consumer)
  /\ P.step = "drawing" => Horizoned(Development, P.producer, P.consumer)

LinksKept ==
  \A p, c \in Microservices :
    <<p, c>> \in links => Consented(Development, p, c) /\ Horizoned(Development, p, c)

LEMMA EditorGrants ==
  /\ <<Development, process[Editor].consumer>> \in Granted(Editor)
  /\ <<Development, process[Editor].producer>> \in Subscribed(Editor)
BY DEF Granted, Subscribed, TenantsFor

LEMMA EditorStaysKept ==
  ASSUME HorizonsTypes, EditorKept, FilesStep
  PROVE  EditorKept'
<1>0. /\ FilesTypes /\ process \in [Processes -> ProcessTypes]
      /\ Editor \in Processes /\ Development \in Tenants
  BY HorizonsGroups, FilesAssumption DEF HorizonsTypes, Processes
<1>1. CASE process'[Editor] = process[Editor]
  <2>1. process[Editor].step \in {"saved", "drawing"} =>
          process[Editor].producer \in Microservices /\ process[Editor].consumer \in Microservices
    BY <1>0 DEF HorizonsTypes, Pairs, UnderWay, HasHorizons
  <2>2. ASSUME NEW p, p = process[Editor].producer, NEW c, c = process[Editor].consumer,
               process[Editor].step \in {"saved", "drawing"}
        PROVE  /\ Consented(Development, p, c)'
               /\ process[Editor].step = "drawing" => Horizoned(Development, p, c)'
    BY <1>0, <2>1, <2>2, ConsentedStays, HorizonedStays DEF EditorKept
  <2> QED
    BY <1>1, <2>2 DEF EditorKept, Consented, Horizoned, Contents
<1>2. CASE process'[Editor].step \notin {"subscribing", "saving", "saved", "drawing"}
  BY <1>2 DEF EditorKept
<1>3. CASE Grant(Editor)
  <2>1. /\ process'[Editor].step = "subscribing"
        /\ process'[Editor].consumer = process[Editor].consumer
        /\ process'[Editor].consents = Added(process[Editor].consents, Granted(Editor))
    BY <1>0, <1>3 DEF Grant, ProcessTypes
  <2> QED
    BY <2>1, EditorGrants DEF EditorKept, Added
<1>4. CASE Subscribe(Editor)
  <2>1. /\ process'[Editor].step = "saving" /\ process[Editor].step = "subscribing"
        /\ process'[Editor].consumer = process[Editor].consumer
        /\ process'[Editor].producer = process[Editor].producer
        /\ process'[Editor].consents = process[Editor].consents
        /\ process'[Editor].horizons = Added(process[Editor].horizons, Subscribed(Editor))
    BY <1>0, <1>4 DEF Subscribe, ProcessTypes
  <2> QED
    BY <2>1, EditorGrants DEF EditorKept, Added
<1>5. CASE SaveConsents(Editor)
  <2>1. /\ process'[Editor].step = "saved" /\ process[Editor].step = "saving"
        /\ process'[Editor].consumer = process[Editor].consumer
        /\ process'[Editor].producer = process[Editor].producer
        /\ process'[Editor].horizons = process[Editor].horizons
        /\ process[Editor].consents # NoFile
    BY <1>0, <1>5 DEF SaveConsents, ProcessTypes
  <2>2. process[Editor].producer \in Microservices
    BY <1>0, <2>1 DEF HorizonsTypes, Pairs, UnderWay, HasConsents
  <2>3. consents'[process[Editor].producer] = process[Editor].consents
    BY <1>0, <1>5, <2>2 DEF SaveConsents, FilesTypes
  <2> QED
    BY <2>1, <2>3 DEF EditorKept, Consented, Contents
<1>6. CASE SaveHorizons(Editor)
  <2>1. /\ process'[Editor].step = "drawing" /\ process[Editor].step = "saved"
        /\ process'[Editor].consumer = process[Editor].consumer
        /\ process'[Editor].producer = process[Editor].producer
        /\ process[Editor].horizons # NoFile
    BY <1>0, <1>6 DEF SaveHorizons, ProcessTypes
  <2>2. process[Editor].producer \in Microservices /\ process[Editor].consumer \in Microservices
    BY <1>0, <2>1 DEF HorizonsTypes, Pairs, UnderWay, HasHorizons
  <2>3. horizons'[process[Editor].consumer] = process[Editor].horizons
    BY <1>0, <1>6, <2>2 DEF SaveHorizons, FilesTypes
  <2>4. ASSUME NEW p, p = process[Editor].producer, NEW c, c = process[Editor].consumer
        PROVE  Consented(Development, p, c)'
    BY <1>0, <2>1, <2>2, <2>4, ConsentedStays DEF EditorKept
  <2> QED
    BY <2>1, <2>3, <2>4 DEF EditorKept, Consented, Horizoned, Contents
<1>7. ASSUME NEW p \in Microservices, NEW c \in Microservices, NEW overwrite \in BOOLEAN,
             Begin(Editor, p, c, overwrite)
      PROVE  process'[Editor].step = "reading"
  BY <1>0, <1>7 DEF Begin
<1>8. CASE ReadHorizons(Editor)
  BY <1>0, <1>2, <1>8 DEF ReadHorizons, ProcessTypes
<1>9. ASSUME Ending(Editor)
      PROVE  process'[Editor].step \in {"new", "refused", "crashed"}
  BY <1>0, <1>9 DEF Ending, Refuse, Crash, Throw, EditorEnds, At
<1>10. ASSUME NEW k \in Processes \ {Editor},
              \/ ReadHorizons(k) \/ Grant(k) \/ Subscribe(k) \/ SaveConsents(k) \/ SaveHorizons(k)
              \/ Ending(k) \/ \E p, c \in Microservices, overwrite \in BOOLEAN : Begin(k, p, c, overwrite)
       PROVE  process'[Editor] = process[Editor]
  BY <1>0, <1>10, OthersStay
<1>11. ASSUME NEW k \in TenantCommands, ReadTenants(k) \/ SaveTenants(k)
       PROVE  process'[Editor] = process[Editor]
  BY <1>11 DEF ReadTenants, SaveTenants, connectVars
<1>12. CASE UNCHANGED horizonVars
  BY <1>1, <1>12 DEF horizonVars, connectVars
<1> QED
  BY FilesSteps, <1>1, <1>2, <1>3, <1>4, <1>5, <1>6, <1>7, <1>8, <1>9, <1>10, <1>11, <1>12 DEF Beginning

LEMMA LinksStayKept ==
  ASSUME Typed, EditorKept, LinksKept, [Next]_vars
  PROVE  LinksKept'
<1>0. HorizonsTypes /\ FilesStep /\ Development \in Tenants
  BY TypedStep, FilesAssumption DEF Typed
<1>1. SUFFICES ASSUME NEW p \in Microservices, NEW c \in Microservices, <<p, c>> \in links'
               PROVE  Consented(Development, p, c) /\ Horizoned(Development, p, c)
  BY <1>0, ConsentedStays, HorizonedStays DEF LinksKept, Consented, Horizoned, Contents
<1>2. CASE <<p, c>> \in links
  BY <1>2 DEF LinksKept
<1>3. CASE <<p, c>> \notin links
  <2>1. SaveLayout
    BY <1>1, <1>3 DEF Next, Connecting, OpenEditor, UpdateDocument, MicroserviceMoved, ConnectMessage, ShowView,
              HideView, Update, ElementMoved, OnConnect, AppendMicroserviceToApplication, WriteMicroservice,
              layoutVars, vars
  <2>2. process[Editor].step = "drawing" /\ process[Editor].producer = p /\ process[Editor].consumer = c
    BY <1>1, <1>3, <2>1 DEF SaveLayout, Pair
  <2> QED
    BY <2>2 DEF EditorKept
<1> QED
  BY <1>2, <1>3

\* What is drawn in the layout is there in the files of both microservices.
THEOREM DrawnConnectionsExist == Spec => []DrawnIsConnected
<1> DEFINE Inv == Typed /\ EditorKept /\ LinksKept
<1>1. Init => Inv
  <2>1. Init => process[Editor].step = "new" /\ links = {}
    BY DEF Init, HorizonsInit, At, Processes
  <2> QED
    BY <2>1, TypedFirst DEF EditorKept, LinksKept
<1>2. Inv /\ [Next]_vars => Inv'
  BY TypedStep, EditorStaysKept, LinksStayKept DEF Typed
<1>3. Inv => DrawnIsConnected
  BY DEF LinksKept, DrawnIsConnected, Consented, Horizoned
<1> QED
  BY <1>1, <1>2, <1>3, PTL DEF Spec

-----------------------------------------------------------------------------
(* The view.                                                                  *)

Elements(s) == {s[i] : i \in 1..Len(s)}

Connect(p, c) == [type |-> "connect", producer |-> p, consumer |-> c]
Moved(m) == [type |-> "microserviceMoved", id |-> m]

\* The connections the extension host has still to draw.
ToDraw(p, c) == Connect(p, c) \in Elements(toHost) \/ (~HostIdle /\ Pair(Editor) = <<p, c>>)

\* The view as it is opened, hidden and laid out.
OpeningKept ==
  /\ view = "closed" => toHost = <<>> /\ toView = <<>> /\ HostIdle
  /\ view = "hidden" => toView = <<>>
  /\ \A m \in Microservices : places[m] # "none" => m \in written

\* As long as the view is not stale, the last text on its way is what there is,
\* and no gesture waits for the extension host ...
SentKept ==
  ~stale /\ toView # <<>> =>
    /\ HostIdle
    /\ \A i \in 1..Len(toHost) : toHost[i].type = "updateDocument"
    /\ toView[Len(toView)] = [nodes |-> written, places |-> places, links |-> links]

\* ... and once it has read that, it differs from what there is only by what
\* the extension host has still to do.
NodesShown == state # NoFile /\ shown.nodes = written

LinksShown ==
  \A p, c \in Microservices :
    /\ <<p, c>> \in links => <<p, c>> \in shown.links
    /\ <<p, c>> \in shown.links => <<p, c>> \in links \cup thrown \/ ToDraw(p, c)
    /\ ToDraw(p, c) => <<p, c>> \in shown.links /\ p \in written /\ c \in written

PlacesShown ==
  \A m \in Microservices :
    /\ places[m] \in {"none", shown.places[m]} \/ Moved(m) \in Elements(toHost)
    /\ Moved(m) \in Elements(toHost) => shown.places[m] = "hand"

ShownKept ==
  ~stale /\ view # "closed" /\ toView = <<>> => NodesShown /\ LinksShown /\ PlacesShown

ViewKept == OpeningKept /\ SentKept /\ ShownKept

LEMMA ElementsOfTail ==
  ASSUME NEW S, NEW s \in Seq(S), s # <<>>
  PROVE  Elements(s) = Elements(Tail(s)) \cup {Head(s)}
<1>1. Len(s) \in Nat /\ Len(s) # 0 /\ Head(s) = s[1] /\ Len(Tail(s)) = Len(s) - 1
  OBVIOUS
<1>2. \A i \in 1..Len(Tail(s)) : Tail(s)[i] = s[i + 1]
  OBVIOUS
<1>3. \A i \in 2..Len(s) : i - 1 \in 1..Len(Tail(s)) /\ s[i] = Tail(s)[i - 1]
  BY <1>1, <1>2
<1>4. Elements(s) \subseteq Elements(Tail(s)) \cup {Head(s)}
  BY <1>1, <1>3 DEF Elements
<1>5. Elements(Tail(s)) \cup {Head(s)} \subseteq Elements(s)
  BY <1>1, <1>2 DEF Elements
<1> QED
  BY <1>4, <1>5

LEMMA ElementsOfAppend ==
  ASSUME NEW S, NEW s \in Seq(S), NEW x \in S
  PROVE  /\ Elements(Append(s, x)) = Elements(s) \cup {x}
         /\ Append(s, x) # <<>> /\ Append(s, x)[Len(Append(s, x))] = x
<1>1. /\ Len(s) \in Nat /\ Len(Append(s, x)) = Len(s) + 1 /\ Append(s, x)[Len(s) + 1] = x
      /\ \A i \in 1..Len(s) : Append(s, x)[i] = s[i]
  OBVIOUS
<1> QED
  BY <1>1 DEF Elements

LEMMA LastIsTails ==
  ASSUME NEW S, NEW s \in Seq(S), s # <<>>
  PROVE  IF Tail(s) = <<>> THEN s[Len(s)] = Head(s) ELSE s[Len(s)] = Tail(s)[Len(Tail(s))]
<1>1. Len(s) \in Nat /\ Len(s) # 0 /\ Head(s) = s[1] /\ Len(Tail(s)) = Len(s) - 1 /\ Tail(s) \in Seq(S)
  OBVIOUS
<1>2. Tail(s) = <<>> => Len(Tail(s)) = 0
  <2>1. Len(<<>>) = 0
    OBVIOUS
  <2> QED
    BY <2>1, Zenon
<1>3. Tail(s) # <<>> => Tail(s)[Len(Tail(s))] = s[Len(s)]
  OBVIOUS
<1> QED
  BY <1>1, <1>2, <1>3

LEMMA MessageOfType ==
  ASSUME NEW message \in Messages
  PROVE  /\ message.type = "connect" => /\ message.producer \in Microservices /\ message.consumer \in Microservices
                                        /\ message = Connect(message.producer, message.consumer)
         /\ message.type = "microserviceMoved" => message.id \in Microservices /\ message = Moved(message.id)
BY DEF Messages, Connect, Moved

LEMMA GesturesApart ==
  /\ \A p, c, m : Connect(p, c) # Moved(m)
  /\ \A p, c : Connect(p, c).type # "updateDocument" /\ Connect(p, c) # [type |-> "updateDocument"]
  /\ \A m : Moved(m).type # "updateDocument" /\ Moved(m) # [type |-> "updateDocument"]
  /\ \A m, n : Moved(m) = Moved(n) => m = n
  /\ \A p, c, q, d : Connect(p, c) = Connect(q, d) => p = q /\ c = d
<1>1. /\ \A p, c : Connect(p, c).type = "connect" /\ Connect(p, c).producer = p /\ Connect(p, c).consumer = c
      /\ \A m : Moved(m).type = "microserviceMoved" /\ Moved(m).id = m
      /\ [type |-> "updateDocument"].type = "updateDocument"
  BY DEF Connect, Moved
<1> QED
  BY <1>1

\* What a connection of the editor does while the layout and the view rest: it
\* stays with its microservices, or ends in an exception.
LEMMA EditorGoesOn ==
  ASSUME Typed, Connecting
  PROVE  /\ HostIdle => process'[Editor] = process[Editor] /\ thrown' = thrown
         /\ ~HostIdle => \/ ~HostIdle' /\ Pair(Editor)' = Pair(Editor) /\ thrown' = thrown
                         \/ HostIdle' /\ thrown' = thrown \cup {Pair(Editor)}
<1>0. HorizonsTypes /\ process \in [Processes -> ProcessTypes] /\ Editor \in Processes
      /\ \A k \in Connects : k \in Processes \ {Editor}
  BY HorizonsGroups, FilesAssumption DEF Typed, HorizonsTypes, Processes
<1>1. CASE Throw /\ thrown' = thrown \cup {Pair(Editor)}
  BY <1>0, <1>1 DEF Throw, HostIdle, At
<1>2. CASE CommandNext(Provided) /\ UNCHANGED thrown
  <2>1. CASE process'[Editor] = process[Editor]
    BY <1>2, <2>1 DEF HostIdle, Pair
  <2>2. CASE \E k \in Connects, p, c \in Provided, overwrite \in BOOLEAN : Begin(k, p, c, overwrite)
    BY <1>0, <2>1, <2>2 DEF Begin
  <2>3. CASE \E k \in TenantCommands : ReadTenants(k) \/ SaveTenants(k)
    BY <2>1, <2>3 DEF ReadTenants, SaveTenants, connectVars
  <2>4. ASSUME NEW k \in Processes, Continue(k), k # Editor
        PROVE  process'[Editor] = process[Editor]
    BY <1>0, <2>4, OthersStay DEF Continue, Ending
  <2>5. CASE Continue(Editor)
    <3>1. ~Refuse(Editor) /\ ~Crash(Editor)
      BY DEF Refuse, Refused, Crash
    <3>2. process[Editor].step # "new"
      BY <2>5, <3>1 DEF Continue, ReadHorizons, Grant, Subscribe, SaveConsents, SaveHorizons
    <3>3. /\ process'[Editor].step # "new"
          /\ process'[Editor].producer = process[Editor].producer
          /\ process'[Editor].consumer = process[Editor].consumer
      BY <1>0, <2>5, <3>1 DEF Continue, ReadHorizons, Grant, Subscribe, SaveConsents, SaveHorizons, ProcessTypes
    <3> QED
      BY <1>2, <3>2, <3>3 DEF HostIdle, Pair
  <2> QED
    BY <1>2, <2>1, <2>2, <2>3, <2>4, <2>5 DEF CommandNext
<1> QED
  BY <1>1, <1>2 DEF Connecting

LEMMA ViewUndisturbed ==
  ASSUME ViewKept, process'[Editor] = process[Editor],
         UNCHANGED <<written, places, links, toHost, toView, view, shown, state, stale, thrown>>
  PROVE  ViewKept'
<1>1. UNCHANGED HostIdle /\ UNCHANGED Pair(Editor) /\ \A p, c : ToDraw(p, c)' = ToDraw(p, c)
  BY DEF HostIdle, Pair, ToDraw, Elements, Connect
<1>2. OpeningKept' /\ SentKept'
  BY <1>1 DEF ViewKept, OpeningKept, SentKept
<1>3. ShownKept'
  BY <1>1 DEF ViewKept, ShownKept, NodesShown, LinksShown, PlacesShown, Elements, Moved
<1> QED
  BY <1>2, <1>3 DEF ViewKept

\* A text is sent: it is the last one, unless the view is hidden or gestures wait.
LEMMA SentIsKept ==
  ASSUME Typed, OpeningKept, HostIdle, NEW messages, UpdateWebview(messages),
         UNCHANGED <<process, written, links>>,
         view' # "closed", view' = view \/ (view # "hidden" /\ view' = "visible"),
         ~stale' => \A i \in 1..Len(toHost') : toHost'[i].type = "updateDocument"
  PROVE  ViewKept'
<1>0. LayoutTypes /\ toView \in Seq(Texts)
  BY DEF Typed, EditorTypes, ChannelTypes
<1>1. OpeningKept'
  <2>1. \A m \in Microservices : LaidOut[m] # "none" => m \in written
    BY <1>0 DEF LayoutTypes, LaidOut, OpeningKept
  <2>2. view' = "hidden" => toView' = <<>>
    BY DEF UpdateWebview, OpeningKept
  <2> QED
    BY <2>1, <2>2 DEF OpeningKept, UpdateWebview
<1>2. CASE stale'
  BY <1>1, <1>2 DEF ViewKept, SentKept, ShownKept
<1>3. CASE ~stale'
  <2>1. toView' = Append(toView, Text) /\ Text \in Texts
    BY <1>0, <1>3, PlacesLaidOut DEF UpdateWebview
  <2>2. toView' # <<>> /\ toView'[Len(toView')] = Text
    BY <1>0, <2>1, ElementsOfAppend
  <2>3. Text = [nodes |-> written', places |-> places', links |-> links']
    BY DEF Text, UpdateWebview
  <2>4. HostIdle'
    BY DEF HostIdle
  <2> QED
    BY <1>1, <1>3, <2>2, <2>3, <2>4 DEF ViewKept, SentKept, ShownKept
<1> QED
  BY <1>2, <1>3

LEMMA HostKeepsView ==
  ASSUME Typed, ViewKept, MicroserviceMoved \/ ConnectMessage
  PROVE  ViewKept'
<1> DEFINE message == Head(toHost)
<1>0. /\ toHost \in Seq(Messages) /\ toHost # <<>> /\ toHost' = Tail(toHost) /\ HostIdle
      /\ message \in Messages /\ message.type # "updateDocument"
      /\ UNCHANGED <<written, links, toView, view, shown, state, stale, thrown>>
  <2>1. toHost \in Seq(Messages) /\ toHost # <<>> /\ toHost' = Tail(toHost) /\ HostIdle
    BY DEF Typed, EditorTypes, ChannelTypes, MicroserviceMoved, ConnectMessage, Handle
  <2>2. message \in Messages
    BY <2>1
  <2>3. message.type # "updateDocument"
    BY DEF MicroserviceMoved, ConnectMessage, Handle
  <2> QED
    BY <2>1, <2>2, <2>3 DEF MicroserviceMoved, ConnectMessage, appVars, layoutVars, viewVars
<1>1. Elements(toHost) = Elements(toHost') \cup {message}
  BY <1>0, ElementsOfTail
<1>2. view # "closed"
  BY <1>0 DEF ViewKept, OpeningKept
<1>3. stale \/ toView = <<>>
  <2>1. toHost[1] = message /\ 1 \in 1..Len(toHost)
    BY <1>0
  <2> QED
    BY <1>0, <2>1 DEF ViewKept, SentKept
<1> HIDE DEF message
<1>4. CASE MicroserviceMoved
  <2> DEFINE m == message.id
  <2>1. m \in Microservices /\ message = Moved(m)
    BY <1>0, <1>4, MessageOfType DEF MicroserviceMoved, Handle, message
  <2>2. places' = [places EXCEPT ![m] = IF @ = "none" THEN @ ELSE "hand"] /\ UNCHANGED process
    BY <1>4 DEF MicroserviceMoved, message, horizonVars, connectVars
  <2> HIDE DEF m
  <2>3. /\ places'[m] = (IF places[m] = "none" THEN "none" ELSE "hand")
        /\ \A n \in Microservices \ {m} : places'[n] = places[n]
    BY <2>1, <2>2 DEF Typed, EditorTypes, LayoutTypes
  <2>4. OpeningKept'
    BY <1>0, <1>2, <2>1, <2>3 DEF ViewKept, OpeningKept
  <2>5. CASE stale \/ toView # <<>>
    BY <1>0, <1>3, <2>4, <2>5 DEF ViewKept, SentKept, ShownKept
  <2>6. CASE ~stale /\ toView = <<>>
    <3>1. NodesShown /\ LinksShown /\ PlacesShown
      BY <1>2, <2>6 DEF ViewKept, ShownKept
    <3>2. \A p, c : ToDraw(p, c)' <=> ToDraw(p, c)
      BY <1>1, <2>1, <2>2, GesturesApart DEF ToDraw, HostIdle, Pair, Connect
    <3>3. NodesShown' /\ LinksShown'
      BY <1>0, <3>1, <3>2 DEF NodesShown, LinksShown
    <3>4. Moved(m) \in Elements(toHost)
      BY <1>1, <2>1
    <3>5. \A n \in Microservices \ {m} : Moved(n) \in Elements(toHost') <=> Moved(n) \in Elements(toHost)
      BY <1>1, <2>1, GesturesApart
    <3>6. PlacesShown'
      <4>1. ASSUME NEW n \in Microservices
            PROVE  /\ places'[n] \in {"none", shown.places[n]} \/ Moved(n) \in Elements(toHost')
                   /\ Moved(n) \in Elements(toHost') => shown.places[n] = "hand"
        BY <1>1, <2>1, <2>3, <3>1, <3>4, <3>5 DEF PlacesShown
      <4> QED
        BY <1>0, <4>1 DEF PlacesShown, Moved, Elements
    <3> QED
      BY <1>0, <2>4, <2>6, <3>3, <3>6 DEF ViewKept, SentKept, ShownKept
  <2> QED
    BY <2>5, <2>6
<1>5. CASE ConnectMessage
  <2> DEFINE p == message.producer
             c == message.consumer
  <2>1. p \in Microservices /\ c \in Microservices /\ message = Connect(p, c)
    BY <1>0, <1>5, MessageOfType DEF ConnectMessage, Handle, message
  <2>2. IF {p, c} \subseteq written THEN Begin(Editor, p, c, FALSE) ELSE UNCHANGED horizonVars
    BY <1>5 DEF ConnectMessage, message
  <2>3. UNCHANGED places
    BY <1>5 DEF ConnectMessage, layoutVars
  <2> HIDE DEF p, c
  <2>4. OpeningKept'
    BY <1>0, <1>2, <2>3 DEF ViewKept, OpeningKept
  <2>5. CASE stale \/ toView # <<>>
    BY <1>0, <1>3, <2>4, <2>5 DEF ViewKept, SentKept, ShownKept
  <2>6. CASE ~stale /\ toView = <<>>
    <3>1. NodesShown /\ LinksShown /\ PlacesShown
      BY <1>2, <2>6 DEF ViewKept, ShownKept
    <3>2. ToDraw(p, c)
      BY <1>1, <2>1 DEF ToDraw
    <3>3. Begin(Editor, p, c, FALSE)
      BY <2>1, <2>2, <3>1, <3>2 DEF LinksShown
    <3>4. ~HostIdle' /\ Pair(Editor)' = <<p, c>>
      <4>1. process \in [Processes -> ProcessTypes] /\ Editor \in Processes
        BY HorizonsGroups DEF Typed, HorizonsTypes, Processes
      <4> QED
        BY <3>3, <4>1 DEF Begin, HostIdle, Pair
    <3>5. ASSUME NEW q, NEW d
          PROVE  ToDraw(q, d)' <=> ToDraw(q, d)
      <4>1. ToDraw(q, d) <=> Connect(q, d) \in Elements(toHost)
        BY <1>0 DEF ToDraw
      <4>2. ToDraw(q, d)' <=> Connect(q, d) \in Elements(toHost') \/ <<p, c>> = <<q, d>>
        BY <3>4 DEF ToDraw, Connect, Elements
      <4>3. Connect(q, d) = Connect(p, c) <=> <<p, c>> = <<q, d>>
        BY GesturesApart
      <4> QED
        BY <1>1, <2>1, <4>1, <4>2, <4>3
    <3>6. NodesShown' /\ LinksShown'
      BY <1>0, <3>1, <3>5 DEF NodesShown, LinksShown
    <3>7. \A n : Moved(n) \in Elements(toHost') <=> Moved(n) \in Elements(toHost)
      BY <1>1, <2>1, GesturesApart
    <3>8. PlacesShown'
      <4>1. ASSUME NEW n \in Microservices
            PROVE  /\ places[n] \in {"none", shown.places[n]} \/ Moved(n) \in Elements(toHost')
                   /\ Moved(n) \in Elements(toHost') => shown.places[n] = "hand"
        BY <3>1, <3>7 DEF PlacesShown
      <4> QED
        BY <1>0, <2>3, <4>1 DEF PlacesShown, Moved, Elements
    <3> QED
      BY <1>0, <2>4, <2>6, <3>6, <3>8 DEF ViewKept, SentKept, ShownKept
  <2> QED
    BY <2>5, <2>6
<1> QED
  BY <1>4, <1>5

\* The editor goes on with a connection, draws it, or gives it up.
LEMMA DrawingKeepsView ==
  ASSUME Typed, ViewKept, Connecting \/ SaveLayout
  PROVE  ViewKept'
<1>0. UNCHANGED <<written, places, toHost, toView, view, shown, state, stale>>
  BY DEF Connecting, SaveLayout, appVars, layoutVars, channels, viewVars
<1>1. CASE HostIdle
  <2>1. Connecting
    BY <1>1 DEF SaveLayout, HostIdle
  <2> QED
    BY <1>0, <1>1, <2>1, EditorGoesOn, ViewUndisturbed DEF Connecting, layoutVars
<1>2. CASE ~HostIdle
  <2>1. view # "closed" /\ (stale \/ toView = <<>>)
    BY <1>2 DEF ViewKept, OpeningKept, SentKept
  <2>2. OpeningKept'
    BY <1>0, <2>1 DEF ViewKept, OpeningKept
  <2>3. \/ ~HostIdle' /\ Pair(Editor)' = Pair(Editor) /\ links' = links /\ thrown' = thrown
        \/ HostIdle' /\ links' \cup thrown' = links \cup thrown \cup {Pair(Editor)}
           /\ links' \subseteq links \cup {Pair(Editor)}
           /\ links \subseteq links'
    <3>1. CASE Connecting
      <4>1. links' = links
        BY <3>1 DEF Connecting, layoutVars
      <4> QED
        BY <1>2, <3>1, <4>1, EditorGoesOn
    <3>2. CASE SaveLayout
      <4>1. process' = [process EXCEPT ![Editor] = At("new")] /\ links' = links \cup {Pair(Editor)} /\ thrown' = thrown
        BY <3>2 DEF SaveLayout
      <4>2. HostIdle'
        BY <4>1, HorizonsGroups DEF HostIdle, At, Typed, HorizonsTypes, Processes
      <4> QED
        BY <4>1, <4>2
    <3> QED
      BY <3>1, <3>2
  <2>4. CASE stale \/ toView # <<>>
    BY <1>0, <2>1, <2>2, <2>4 DEF ViewKept, SentKept, ShownKept
  <2>5. CASE ~stale /\ toView = <<>>
    <3>1. NodesShown /\ LinksShown /\ PlacesShown
      BY <2>1, <2>5 DEF ViewKept, ShownKept
    <3>2. NodesShown' /\ PlacesShown'
      BY <1>0, <3>1 DEF NodesShown, PlacesShown, Moved, Elements
    <3>3. \A p, c : ToDraw(p, c) <=> Connect(p, c) \in Elements(toHost) \/ Pair(Editor) = <<p, c>>
      BY <1>2 DEF ToDraw
    <3>4. \A p, c : ToDraw(p, c)' <=> Connect(p, c) \in Elements(toHost) \/ (~HostIdle' /\ Pair(Editor)' = <<p, c>>)
      BY <1>0 DEF ToDraw, Connect, Elements
    <3>5. LinksShown'
      <4>1. ASSUME NEW p \in Microservices, NEW c \in Microservices
            PROVE  /\ <<p, c>> \in links' => <<p, c>> \in shown.links
                   /\ <<p, c>> \in shown.links => <<p, c>> \in links' \cup thrown' \/ ToDraw(p, c)'
                   /\ ToDraw(p, c)' => <<p, c>> \in shown.links /\ p \in written /\ c \in written
        BY <2>3, <3>1, <3>3, <3>4 DEF LinksShown
      <4> QED
        BY <1>0, <4>1 DEF LinksShown
    <3> QED
      BY <1>0, <2>2, <2>5, <3>2, <3>5 DEF ViewKept, SentKept, ShownKept
  <2> QED
    BY <2>4, <2>5
<1> QED
  BY <1>1, <1>2

LEMMA UpdateKeepsView ==
  ASSUME Typed, ViewKept, Update
  PROVE  ViewKept'
<1>0. /\ toView \in Seq(Texts) /\ toView # <<>> /\ toView' = Tail(toView) /\ view = "visible"
      /\ shown' = ElementsFrom(Head(toView)) /\ state' = Head(toView)
      /\ UNCHANGED <<process, written, places, links, toHost, view, stale, thrown>>
  BY DEF Update, Typed, EditorTypes, ChannelTypes, appVars, layoutVars, horizonVars, connectVars
<1>1. OpeningKept'
  BY <1>0 DEF ViewKept, OpeningKept, HostIdle
<1>2. CASE stale
  BY <1>0, <1>1, <1>2 DEF ViewKept, SentKept, ShownKept
<1>3. CASE ~stale
  <2>1. /\ HostIdle
        /\ \A i \in 1..Len(toHost) : toHost[i].type = "updateDocument"
        /\ toView[Len(toView)] = [nodes |-> written, places |-> places, links |-> links]
    BY <1>0, <1>3 DEF ViewKept, SentKept
  <2>2. CASE Tail(toView) # <<>>
    <3>1. toView'[Len(toView')] = toView[Len(toView)]
      BY <1>0, <2>2, LastIsTails
    <3>2. SentKept'
      BY <1>0, <2>1, <3>1 DEF SentKept, HostIdle
    <3> QED
      BY <1>0, <1>1, <2>2, <3>2 DEF ViewKept, ShownKept
  <2>3. CASE Tail(toView) = <<>>
    <3>1. Head(toView) = [nodes |-> written, places |-> places, links |-> links]
      BY <1>0, <2>1, <2>3, LastIsTails
    <3>2. Head(toView) \in Texts
      BY <1>0
    <3>3. /\ shown'.nodes = written /\ shown'.links = links
          /\ \A m \in Microservices : shown'.places[m] = IF m \in written THEN places[m] ELSE "none"
      BY <1>0, <3>1 DEF ElementsFrom
    <3>4. \A m \in Microservices : places[m] \in {"none", shown'.places[m]}
      BY <3>3 DEF ViewKept, OpeningKept
    <3>5. \A p, c, m : Connect(p, c) \notin Elements(toHost) /\ Moved(m) \notin Elements(toHost)
      BY <2>1, GesturesApart DEF Elements
    <3>6. NodesShown'
      BY <1>0, <3>2, <3>3, NoTextAssumption DEF NodesShown
    <3>7. \A p, c : ~ToDraw(p, c)'
      BY <1>0, <2>1, <3>5 DEF ToDraw, HostIdle, Connect, Elements
    <3>8. LinksShown'
      BY <1>0, <3>3, <3>7 DEF LinksShown
    <3>9. PlacesShown'
      BY <1>0, <3>4, <3>5 DEF PlacesShown, Moved, Elements
    <3> QED
      BY <1>0, <1>1, <2>3, <3>6, <3>8, <3>9 DEF ViewKept, SentKept, ShownKept
  <2> QED
    BY <2>2, <2>3
<1> QED
  BY <1>2, <1>3

LEMMA ShowingKeepsView ==
  ASSUME Typed, ViewKept, ShowView \/ HideView
  PROVE  ViewKept'
<1>0. UNCHANGED <<process, written, places, links, state, thrown>>
  BY DEF ShowView, HideView, appVars, layoutVars, horizonVars, connectVars
<1>1. CASE ShowView
  <2>1. view = "hidden" /\ view' = "visible" /\ toView = <<>> /\ toView' = <<>>
    BY <1>1 DEF ShowView, ViewKept, OpeningKept
  <2>2. OpeningKept'
    BY <1>0, <2>1 DEF ViewKept, OpeningKept
  <2>3. CASE stale'
    BY <2>2, <2>3 DEF ViewKept, SentKept, ShownKept
  <2>4. CASE ~stale'
    <3>1. ~stale
      BY <1>1, <2>4 DEF ShowView
    <3>2. state # NoFile
      BY <2>1, <3>1 DEF ViewKept, ShownKept, NodesShown
    <3>3. UNCHANGED <<toHost, shown, stale>>
      <4>1. toHost' = toHost /\ stale' = (stale \/ shown # shown')
        BY <1>1, <3>2 DEF ShowView
      <4>2. stale \in BOOLEAN
        BY DEF Typed, EditorTypes, ViewTypes
      <4>3. shown' = shown
        BY <2>4, <4>1, Zenon
      <4> QED
        BY <2>4, <3>1, <4>1, <4>2, <4>3
    <3>4. NodesShown /\ LinksShown /\ PlacesShown
      BY <2>1, <3>1 DEF ViewKept, ShownKept
    <3>5. (NodesShown /\ LinksShown /\ PlacesShown)'
      BY <1>0, <3>3, <3>4 DEF NodesShown, LinksShown, PlacesShown, ToDraw, HostIdle, Pair, Connect, Moved, Elements
    <3> QED
      BY <2>1, <2>2, <3>5 DEF ViewKept, SentKept, ShownKept
  <2> QED
    BY <2>3, <2>4
<1>2. CASE HideView
  <2>1. view' = "hidden" /\ view = "visible" /\ toView' = <<>> /\ UNCHANGED <<toHost, shown>>
    BY <1>2 DEF HideView
  <2>2. OpeningKept'
    BY <1>0, <2>1 DEF ViewKept, OpeningKept
  <2>3. CASE stale'
    BY <2>2, <2>3 DEF ViewKept, SentKept, ShownKept
  <2>4. CASE ~stale'
    <3>1. ~stale /\ toView = <<>>
      BY <1>2, <2>4 DEF HideView
    <3>2. NodesShown /\ LinksShown /\ PlacesShown
      BY <2>1, <3>1 DEF ViewKept, ShownKept
    <3>3. (NodesShown /\ LinksShown /\ PlacesShown)'
      BY <1>0, <2>1, <3>2 DEF NodesShown, LinksShown, PlacesShown, ToDraw, HostIdle, Pair, Connect, Moved, Elements
    <3> QED
      BY <2>1, <2>2, <3>3 DEF ViewKept, SentKept, ShownKept
  <2> QED
    BY <2>3, <2>4
<1> QED
  BY <1>1, <1>2

LEMMA GestureKeepsView ==
  ASSUME Typed, ViewKept, NEW m \in Microservices, NEW p \in Microservices, NEW c \in Microservices,
         ElementMoved(m) \/ OnConnect(p, c)
  PROVE  ViewKept'
<1>0. /\ UNCHANGED <<process, written, places, links, toView, view, state, thrown>>
      /\ view = "visible" /\ stale' = (stale \/ toView # <<>>)
      /\ toHost \in Seq(Messages) /\ shown \in Texts
  BY DEF ElementMoved, OnConnect, appVars, layoutVars, horizonVars, connectVars, Typed, EditorTypes,
         ChannelTypes, ViewTypes
<1>1. OpeningKept'
  BY <1>0 DEF ViewKept, OpeningKept
<1>2. CASE stale'
  BY <1>1, <1>2 DEF ViewKept, SentKept, ShownKept
<1>3. CASE ~stale'
  <2>1. ~stale /\ toView = <<>>
    BY <1>0, <1>3
  <2>2. NodesShown /\ LinksShown /\ PlacesShown
    BY <1>0, <2>1 DEF ViewKept, ShownKept
  <2>3. CASE ElementMoved(m)
    <3>1. Elements(toHost') = Elements(toHost) \cup {Moved(m)}
      <4>1. Moved(m) \in Messages /\ toHost' = Append(toHost, Moved(m))
        BY <2>3 DEF Messages, Moved, ElementMoved
      <4> QED
        BY <1>0, <4>1, ElementsOfAppend
    <3>2. /\ shown'.nodes = shown.nodes /\ shown'.links = shown.links
          /\ shown'.places[m] = "hand"
          /\ \A n \in Microservices \ {m} : shown'.places[n] = shown.places[n]
      BY <1>0, <2>3 DEF ElementMoved, Texts
    <3>3. \A q, d : ToDraw(q, d)' <=> ToDraw(q, d)
      BY <1>0, <3>1, GesturesApart DEF ToDraw, HostIdle, Pair, Connect
    <3>4. NodesShown' /\ LinksShown'
      BY <1>0, <2>2, <3>2, <3>3 DEF NodesShown, LinksShown
    <3>5. \A n \in Microservices \ {m} : Moved(n) \in Elements(toHost') <=> Moved(n) \in Elements(toHost)
      BY <3>1, GesturesApart
    <3>6. PlacesShown'
      <4>1. ASSUME NEW n \in Microservices
            PROVE  /\ places[n] \in {"none", shown'.places[n]} \/ Moved(n) \in Elements(toHost')
                   /\ Moved(n) \in Elements(toHost') => shown'.places[n] = "hand"
        BY <2>2, <3>1, <3>2, <3>5 DEF PlacesShown
      <4> QED
        BY <1>0, <4>1 DEF PlacesShown, Moved, Elements
    <3> QED
      BY <1>0, <1>1, <2>1, <3>4, <3>6 DEF ViewKept, SentKept, ShownKept
  <2>4. CASE OnConnect(p, c)
    <3>1. Elements(toHost') = Elements(toHost) \cup {Connect(p, c)}
      <4>1. Connect(p, c) \in Messages /\ toHost' = Append(toHost, Connect(p, c))
        BY <2>4 DEF Messages, Connect, OnConnect
      <4> QED
        BY <1>0, <4>1, ElementsOfAppend
    <3>2. /\ shown'.nodes = shown.nodes /\ shown'.links = shown.links \cup {<<p, c>>}
          /\ shown'.places = shown.places /\ p \in shown.nodes /\ c \in shown.nodes
      BY <1>0, <2>4 DEF OnConnect, Texts
    <3>3. \A q, d : ToDraw(q, d)' <=> ToDraw(q, d) \/ <<q, d>> = <<p, c>>
      <4>1. \A q, d : Connect(q, d) = Connect(p, c) <=> <<q, d>> = <<p, c>>
        BY GesturesApart
      <4>2. \A q, d : ToDraw(q, d)' <=> Connect(q, d) \in Elements(toHost') \/ (~HostIdle /\ Pair(Editor) = <<q, d>>)
        BY <1>0 DEF ToDraw, HostIdle, Pair, Connect, Elements
      <4> QED
        BY <3>1, <4>1, <4>2 DEF ToDraw
    <3>4. NodesShown'
      BY <1>0, <2>2, <3>2 DEF NodesShown
    <3>5. LinksShown'
      <4>1. ASSUME NEW q \in Microservices, NEW d \in Microservices
            PROVE  /\ <<q, d>> \in links => <<q, d>> \in shown'.links
                   /\ <<q, d>> \in shown'.links => <<q, d>> \in links \cup thrown \/ ToDraw(q, d)'
                   /\ ToDraw(q, d)' => <<q, d>> \in shown'.links /\ q \in written /\ d \in written
        BY <2>2, <3>2, <3>3 DEF LinksShown, NodesShown
      <4> QED
        BY <1>0, <4>1 DEF LinksShown
    <3>6. \A n : Moved(n) \in Elements(toHost') <=> Moved(n) \in Elements(toHost)
      BY <3>1, GesturesApart
    <3>7. PlacesShown'
      <4>1. ASSUME NEW n \in Microservices
            PROVE  /\ places[n] \in {"none", shown'.places[n]} \/ Moved(n) \in Elements(toHost')
                   /\ Moved(n) \in Elements(toHost') => shown'.places[n] = "hand"
        BY <2>2, <3>2, <3>6 DEF PlacesShown
      <4> QED
        BY <1>0, <4>1 DEF PlacesShown, Moved, Elements
    <3> QED
      BY <1>0, <1>1, <2>1, <3>4, <3>5, <3>7 DEF ViewKept, SentKept, ShownKept
  <2> QED
    BY <2>3, <2>4
<1> QED
  BY <1>2, <1>3

LEMMA SendingKeepsView ==
  ASSUME Typed, ViewKept, OpenEditor \/ UpdateDocument
  PROVE  ViewKept'
<1>0. UNCHANGED <<process, written, links>> /\ OpeningKept
  BY DEF OpenEditor, UpdateDocument, appVars, horizonVars, connectVars, ViewKept
<1>1. CASE OpenEditor
  <2>1. HostIdle /\ toHost' = <<[type |-> "updateDocument"]>> /\ UpdateWebview(<<>>)
    BY <1>0, <1>1 DEF OpenEditor, OpeningKept
  <2>2. \A i \in 1..Len(toHost') : toHost'[i].type = "updateDocument"
    BY <2>1
  <2> QED
    BY <1>0, <1>1, <2>1, <2>2, SentIsKept DEF OpenEditor
<1>2. CASE UpdateDocument
  <2>1. HostIdle /\ toHost # <<>> /\ UpdateWebview(toHost') /\ view' = view
    BY <1>2 DEF UpdateDocument, Handle
  <2>2. view # "closed"
    BY <1>0, <2>1 DEF OpeningKept
  <2>3. ~stale' => \A i \in 1..Len(toHost') : toHost'[i].type = "updateDocument"
    BY <2>1 DEF UpdateWebview
  <2> QED
    BY <1>0, <2>1, <2>2, <2>3, SentIsKept
<1> QED
  BY <1>1, <1>2

LEMMA MicroservicesKeepView ==
  ASSUME Typed, ViewKept, NEW m \in Microservices, AppendMicroserviceToApplication(m) \/ WriteMicroservice(m)
  PROVE  ViewKept'
<1>0. UNCHANGED <<process, links, toHost, view, shown, state, thrown>>
  BY DEF AppendMicroserviceToApplication, WriteMicroservice, horizonVars, connectVars, channels, layoutVars
<1>1. CASE AppendMicroserviceToApplication(m)
  <2>1. HostIdle /\ written' = written
    BY <1>1 DEF AppendMicroserviceToApplication
  <2>2. CASE view = "closed"
    BY <1>0, <1>1, <2>1, <2>2, ViewUndisturbed DEF AppendMicroserviceToApplication
  <2>3. CASE view # "closed"
    <3>1. UpdateWebview(toHost)
      BY <1>1, <2>3 DEF AppendMicroserviceToApplication
    <3>2. ~stale' => \A i \in 1..Len(toHost') : toHost'[i].type = "updateDocument"
      BY <1>0, <3>1 DEF UpdateWebview
    <3> QED
      BY <1>0, <2>1, <2>3, <3>1, <3>2, SentIsKept DEF ViewKept
  <2> QED
    BY <2>2, <2>3
<1>2. CASE WriteMicroservice(m)
  <2>1. /\ UNCHANGED <<places, toView>> /\ written \subseteq written'
        /\ stale' = (stale \/ view # "closed")
    BY <1>2 DEF WriteMicroservice, layoutVars, channels
  <2>2. OpeningKept'
    BY <1>0, <2>1 DEF ViewKept, OpeningKept, HostIdle
  <2>3. CASE view = "closed"
    BY <1>0, <2>1, <2>2, <2>3 DEF ViewKept, OpeningKept, SentKept, ShownKept
  <2>4. CASE view # "closed"
    BY <2>1, <2>2, <2>4 DEF ViewKept, SentKept, ShownKept
  <2> QED
    BY <2>3, <2>4
<1> QED
  BY <1>1, <1>2

\* When all messages have arrived, the view shows what there is in the files,
\* unless it missed a text or could not know.
THEOREM ViewStaysCurrent == Spec => []ViewIsCurrent
<1> DEFINE Inv == Typed /\ ViewKept
<1>1. Init => Inv
  <2> SUFFICES ASSUME Init PROVE ViewKept
    BY TypedFirst
  <2>1. HostIdle
    BY DEF Init, HorizonsInit, HostIdle, At, Processes
  <2> QED
    BY <2>1 DEF Init, ViewKept, OpeningKept, SentKept, ShownKept
<1>2. Inv /\ [Next]_vars => Inv'
  <2> SUFFICES ASSUME Typed, ViewKept, [Next]_vars PROVE ViewKept'
    BY TypedStep
  <2>1. CASE UNCHANGED vars
    BY <2>1, ViewUndisturbed DEF vars, horizonVars, connectVars, appVars, layoutVars, channels, viewVars
  <2> QED
    BY <2>1, HostKeepsView, DrawingKeepsView, UpdateKeepsView, ShowingKeepsView, GestureKeepsView,
       SendingKeepsView, MicroservicesKeepView DEF Next
<1>3. Inv => ViewIsCurrent
  <2> SUFFICES ASSUME Inv, Settled, ~stale
               PROVE  /\ shown.nodes = written
                      /\ shown.links \ thrown \subseteq links /\ links \subseteq shown.links
                      /\ \A m \in Microservices : places[m] \in {"none", shown.places[m]}
    BY DEF ViewIsCurrent
  <2>1. NodesShown /\ LinksShown /\ PlacesShown
    BY DEF Settled, ViewKept, ShownKept
  <2>2. Elements(toHost) = {}
    <3>1. Len(<<>>) = 0 /\ 1..0 = {}
      OBVIOUS
    <3> QED
      BY <3>1 DEF Settled, Elements
  <2>3. \A p, c : ~ToDraw(p, c)
    BY <2>2 DEF ToDraw, Settled
  <2>4. shown.links \subseteq Microservices \X Microservices /\ links \subseteq Microservices \X Microservices
    BY DEF Typed, EditorTypes, LayoutTypes, ViewTypes, Texts
  <2> QED
    BY <2>1, <2>2, <2>3, <2>4 DEF NodesShown, LinksShown, PlacesShown
<1> QED
  BY <1>1, <1>2, <1>3, PTL DEF Spec

=============================================================================
