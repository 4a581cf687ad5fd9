------------------------ MODULE FeaturesToolingProofs ------------------------
(* Proofs about FeaturesTooling and NetFeatures, for any features, texts,     *)
(* number of commands, clicks and starts.                                     *)
EXTENDS FeaturesTooling, TLAPS

-----------------------------------------------------------------------------
(* Texts.                                                                     *)

LEMMA TogglesCases ==
  ASSUME NEW t \in Toggles
  PROVE  \/ t = <<>>
         \/ \E b \in BOOLEAN : t = <<b>>
         \/ \E b, c \in BOOLEAN : t = <<b, c>>
BY DEF Toggles

LEMMA EqualToggles ==
  ASSUME NEW t \in Toggles, NEW b \in BOOLEAN
  PROVE  [i \in DOMAIN t |-> b] \in Toggles
<1>1. CASE t = <<>>
  <2>1. [i \in DOMAIN t |-> b] = <<>>
    BY <1>1
  <2> QED
    BY <2>1 DEF Toggles
<1>2. CASE \E x \in BOOLEAN : t = <<x>>
  <2>1. [i \in DOMAIN t |-> b] = <<b>>
    BY <1>2
  <2> QED
    BY <2>1 DEF Toggles
<1>3. CASE \E x, y \in BOOLEAN : t = <<x, y>>
  <2>1. [i \in DOMAIN t |-> b] = <<b, b>>
    BY <1>3
  <2> QED
    BY <2>1 DEF Toggles
<1> QED
  BY <1>1, <1>2, <1>3, TogglesCases

LEMMA FlippedToggles ==
  ASSUME NEW t \in Toggles, t # <<>>
  PROVE  [t EXCEPT ![1] = ~@] \in Toggles
<1>1. CASE \E x \in BOOLEAN : t = <<x>>
  <2>1. PICK x \in BOOLEAN : t = <<x>>
    BY <1>1
  <2>2. [t EXCEPT ![1] = ~@] = <<~x>>
    BY <2>1
  <2> QED
    BY <2>2 DEF Toggles
<1>2. CASE \E x, y \in BOOLEAN : t = <<x, y>>
  <2>1. PICK x, y \in BOOLEAN : t = <<x, y>>
    BY <1>2
  <2>2. [t EXCEPT ![1] = ~@] = <<~x, y>>
    BY <2>1
  <2>3. \A a, b \in BOOLEAN : <<a, b>> \in Toggles
    BY DEF Toggles
  <2>4. (~x) \in BOOLEAN
    OBVIOUS
  <2>5. <<~x, y>> \in Toggles
    BY <2>3, <2>4, Zenon
  <2> QED
    BY <2>2, <2>5
<1> QED
  BY <1>1, <1>2, TogglesCases

LEMMA TextOfOne ==
  ASSUME NEW text \in Texts, NEW f, NEW t \in Toggles
  PROVE  [text EXCEPT ![f] = t] \in Texts
BY DEF Texts

\* What the tools make of a text is a text.
LEMMA AlteredTexts ==
  ASSUME NEW text \in Texts, NEW f \in Features
  PROVE  /\ AddFeature(text, f) \in Texts
         /\ RemoveFeature(text, f) \in Texts
         /\ SwitchOnFeature(text, f) \in Texts
         /\ SwitchOffFeature(text, f) \in Texts
<1>1. <<>> \in Toggles /\ <<TRUE>> \in Toggles /\ <<FALSE>> \in Toggles
  BY DEF Toggles
<1> QED
  BY <1>1, TextOfOne DEF AddFeature, RemoveFeature, SwitchOnFeature, SwitchOffFeature

LEMMA DefinitionsText ==
  ASSUME NEW text \in Texts
  PROVE  Definitions(text) \in Texts
<1>1. \A f \in Features : IsOn(text, f) \in BOOLEAN
  BY DEF IsOn
<1>2. \A f \in Features : [i \in DOMAIN text[f] |-> IsOn(text, f)] \in Toggles
  BY <1>1, EqualToggles DEF Texts
<1> QED
  BY <1>2 DEF Definitions, Texts

LEMMA ClickedText ==
  ASSUME NEW f \in Features, shown \in Texts, shown[f] # <<>>
  PROVE  Clicked(f) \in Texts
<1>1. [shown[f] EXCEPT ![1] = ~@] \in Toggles
  BY FlippedToggles DEF Texts
<1>2. \A t \in Toggles : [shown EXCEPT ![f] = t] \in Texts
  BY TextOfOne
<1>3. [shown EXCEPT ![f] = [shown[f] EXCEPT ![1] = ~@]] \in Texts
  BY <1>1, <1>2
<1>4. Clicked(f) = [shown EXCEPT ![f] = [shown[f] EXCEPT ![1] = ~@]]
  BY DEF Clicked, Texts
<1> QED
  BY <1>3, <1>4

LEMMA NoFeaturesText == NoFeatures \in Texts
BY DEF NoFeatures, Texts, Toggles

-----------------------------------------------------------------------------
(* Types.                                                                     *)

ToolTypes ==
  /\ command \in [Commands -> [step : {"new", "altered", "emptied", "done"}, text : Texts]]
  /\ document \in [text : Texts, known : Texts, saves : Nat]

ViewTypes ==
  /\ toHost \in Seq(Texts)
  /\ toView \in Seq(Texts)
  /\ view \in {"closed", "visible", "hidden"}
  /\ shown \in Texts
  /\ state \in {Nothing} \cup Texts
  /\ missed \in BOOLEAN
  /\ hides \in Nat

AskTypes ==
  /\ wish \in [Features -> Wishes]
  /\ crossed \in BOOLEAN
  /\ asks \in Nat

LEMMA TypeGroups == TypeOK <=> BackendTypeOK /\ ToolTypes /\ ViewTypes /\ AskTypes
BY DEF TypeOK, ToolTypes, ViewTypes, AskTypes

\* Every variable keeps its type: whatever the tools write is a text.
THEOREM TypeCorrect == Spec => []TypeOK
<1> USE TextsAssumption, ToolingAssumption
<1>1. Init => TypeOK
  <2> SUFFICES ASSUME Init PROVE BackendTypeOK /\ ToolTypes /\ ViewTypes /\ AskTypes
    BY TypeGroups
  <2>1. BackendTypeOK
    BY NoFeaturesText DEF Init, BackendInit, BackendTypeOK, NoReads
  <2>2. ToolTypes
    BY <2>1, NoFeaturesText DEF Init, ToolTypes, BackendTypeOK
  <2>3. ViewTypes
    <3>1. toHost \in Seq(Texts) /\ toView \in Seq(Texts)
      <4>1. toHost = <<>> /\ toView = <<>>
        BY DEF Init
      <4> QED
        BY <4>1
    <3> QED
      BY <3>1, NoFeaturesText DEF Init, ViewTypes
  <2>4. AskTypes
    BY DEF Init, AskTypes, Wishes, Status
  <2> QED
    BY <2>1, <2>2, <2>3, <2>4
<1>2. TypeOK /\ [Next]_vars => TypeOK'
  <2> SUFFICES ASSUME BackendTypeOK, ToolTypes, ViewTypes, AskTypes, [Next]_vars
               PROVE  BackendTypeOK' /\ ToolTypes' /\ ViewTypes' /\ AskTypes'
    BY DEF TypeOK, ToolTypes, ViewTypes, AskTypes
  <2>1. ASSUME Start /\ UNCHANGED <<commandVars, editorVars, askVars>>
        PROVE  BackendTypeOK' /\ ToolTypes' /\ ViewTypes' /\ AskTypes'
    <3>1. BackendTypeOK'
      <4>1. reads' \in [{"constructor", "watcher"} -> {Nothing} \cup Texts]
        BY <2>1 DEF Start, NoReads
      <4>2. starts' \in Nat
        BY <2>1 DEF Start, BackendTypeOK
      <4> QED
        BY <2>1, <4>1, <4>2, NoFeaturesText DEF Start, fileVars, BackendTypeOK
    <3>2. ToolTypes'
      BY <2>1 DEF Start, commandVars, editorVars, ToolTypes
    <3>3. ViewTypes'
      BY <2>1 DEF Start, editorVars, ViewTypes
    <3>4. AskTypes'
      BY <2>1 DEF Start, askVars, AskTypes
    <3> QED
      BY <3>1, <3>2, <3>3, <3>4
  <2>2. ASSUME NEW r \in {"constructor", "watcher"}, Read(r), UNCHANGED <<commandVars, editorVars, askVars>>
        PROVE  BackendTypeOK' /\ ToolTypes' /\ ViewTypes' /\ AskTypes'
    <3>1. BackendTypeOK'
      BY <2>2 DEF Read, fileVars, backendVars, commandVars, editorVars, askVars, BackendTypeOK
    <3>2. ToolTypes'
      BY <2>2 DEF Read, commandVars, editorVars, ToolTypes
    <3>3. ViewTypes'
      BY <2>2 DEF Read, editorVars, ViewTypes
    <3>4. AskTypes'
      BY <2>2 DEF Read, askVars, AskTypes
    <3> QED
      BY <3>1, <3>2, <3>3, <3>4
  <2>3. ASSUME NEW r \in {"constructor", "watcher"}, Publish(r), UNCHANGED <<commandVars, editorVars, askVars>>
        PROVE  BackendTypeOK' /\ ToolTypes' /\ ViewTypes' /\ AskTypes'
    <3>1. BackendTypeOK'
      BY <2>3 DEF Publish, fileVars, backendVars, commandVars, editorVars, askVars, BackendTypeOK
    <3>2. ToolTypes'
      BY <2>3 DEF Publish, commandVars, editorVars, ToolTypes
    <3>3. ViewTypes'
      BY <2>3 DEF Publish, editorVars, ViewTypes
    <3>4. AskTypes'
      BY <2>3 DEF Publish, askVars, AskTypes
    <3> QED
      BY <3>1, <3>2, <3>3, <3>4
  <2>4. ASSUME NEW r \in {"constructor", "watcher"}, ReadTorn(r), UNCHANGED <<commandVars, editorVars, askVars>>
        PROVE  BackendTypeOK' /\ ToolTypes' /\ ViewTypes' /\ AskTypes'
    <3>1. BackendTypeOK'
      BY <2>4, NoFeaturesText DEF ReadTorn, NoReads, fileVars, backendVars, commandVars, editorVars, askVars, BackendTypeOK
    <3>2. ToolTypes'
      BY <2>4 DEF ReadTorn, commandVars, editorVars, ToolTypes
    <3>3. ViewTypes'
      BY <2>4 DEF ReadTorn, editorVars, ViewTypes
    <3>4. AskTypes'
      BY <2>4 DEF ReadTorn, askVars, AskTypes
    <3> QED
      BY <3>1, <3>2, <3>3, <3>4
  <2>5. ASSUME Collect /\ UNCHANGED <<commandVars, editorVars, askVars>>
        PROVE  BackendTypeOK' /\ ToolTypes' /\ ViewTypes' /\ AskTypes'
    <3>1. BackendTypeOK'
      BY <2>5 DEF Collect, fileVars, backendVars, commandVars, editorVars, askVars, BackendTypeOK
    <3>2. ToolTypes'
      BY <2>5 DEF Collect, commandVars, editorVars, ToolTypes
    <3>3. ViewTypes'
      BY <2>5 DEF Collect, editorVars, ViewTypes
    <3>4. AskTypes'
      BY <2>5 DEF Collect, askVars, AskTypes
    <3> QED
      BY <3>1, <3>2, <3>3, <3>4
  <2>6. ASSUME NEW k \in Commands, Alter(k)
        PROVE  BackendTypeOK' /\ ToolTypes' /\ ViewTypes' /\ AskTypes'
    <3>1. BackendTypeOK'
      BY <2>6 DEF Alter, fileVars, backendVars, BackendTypeOK
    <3>2. ToolTypes'
      <4>1. PICK f, text, w : text \in Texts /\ Invoke(k, f, text, w)
        BY <2>6, AlteredTexts DEF Alter, BackendTypeOK
      <4>2. command' = [command EXCEPT ![k] = [step |-> "altered", text |-> text]]
        BY <4>1 DEF Invoke
      <4>3. UNCHANGED document
        BY <2>6 DEF Alter, editorVars
      <4> QED
        BY <4>1, <4>2, <4>3 DEF ToolTypes
    <3>3. ViewTypes'
      BY <2>6 DEF Alter, editorVars, ViewTypes
    <3>4. AskTypes'
      <4>1. PICK f, w, text : f \in Features /\ w \in Wishes /\ Invoke(k, f, text, w)
        BY <2>6 DEF Alter, AskTypes, Wishes
      <4> QED
        BY <4>1 DEF Invoke, Ask, AskTypes
    <3> QED
      BY <3>1, <3>2, <3>3, <3>4
  <2>7. ASSUME NEW k \in Commands, Empty(k)
        PROVE  BackendTypeOK' /\ ToolTypes' /\ ViewTypes' /\ AskTypes'
    <3>1. BackendTypeOK'
      BY <2>7 DEF Empty, Touch, fileVars, backendVars, commandVars, editorVars, askVars, BackendTypeOK
    <3>2. ToolTypes'
      BY <2>7 DEF Empty, fileVars, backendVars, commandVars, editorVars, askVars, ToolTypes
    <3>3. ViewTypes'
      BY <2>7 DEF Empty, editorVars, ViewTypes
    <3>4. AskTypes'
      BY <2>7 DEF Empty, askVars, AskTypes
    <3> QED
      BY <3>1, <3>2, <3>3, <3>4
  <2>8. ASSUME NEW k \in Commands, Write(k)
        PROVE  BackendTypeOK' /\ ToolTypes' /\ ViewTypes' /\ AskTypes'
    <3>1. BackendTypeOK'
      BY <2>8 DEF Write, Touch, ToolTypes, fileVars, backendVars, commandVars, editorVars, askVars, BackendTypeOK
    <3>2. ToolTypes'
      BY <2>8, NoFeaturesText DEF Write, fileVars, backendVars, commandVars, editorVars, askVars, ToolTypes
    <3>3. ViewTypes'
      BY <2>8 DEF Write, editorVars, ViewTypes
    <3>4. AskTypes'
      BY <2>8 DEF Write, askVars, AskTypes
    <3> QED
      BY <3>1, <3>2, <3>3, <3>4
  <2>9. ASSUME NEW k \in Commands, Stop(k)
        PROVE  BackendTypeOK' /\ ToolTypes' /\ ViewTypes' /\ AskTypes'
    <3>1. BackendTypeOK'
      BY <2>9 DEF Stop, fileVars, backendVars, BackendTypeOK
    <3>2. ToolTypes'
      BY <2>9, NoFeaturesText DEF Stop, fileVars, backendVars, commandVars, editorVars, askVars, ToolTypes
    <3>3. ViewTypes'
      BY <2>9 DEF Stop, editorVars, ViewTypes
    <3>4. AskTypes'
      BY <2>9 DEF Stop, fileVars, backendVars, commandVars, editorVars, askVars, AskTypes
    <3> QED
      BY <3>1, <3>2, <3>3, <3>4
  <2>10. ASSUME Open
        PROVE  BackendTypeOK' /\ ToolTypes' /\ ViewTypes' /\ AskTypes'
    <3>1. BackendTypeOK'
      BY <2>10 DEF Open, fileVars, backendVars, BackendTypeOK
    <3>2. ToolTypes'
      BY <2>10 DEF Open, commandVars, editorVars, ToolTypes
    <3>3. ViewTypes'
      <4>1. \A t \in Texts : <<t>> \in Seq(Texts)
        OBVIOUS
      <4>2. document.text \in Texts
        BY DEF ToolTypes
      <4>3. toView' \in Seq(Texts)
        BY <2>10, <4>1, <4>2 DEF Open, ViewTypes
      <4>4. shown' \in Texts
        BY <2>10, DefinitionsText DEF Open, ViewTypes
      <4> QED
        BY <2>10, <4>3, <4>4 DEF Open, ViewTypes
    <3>4. AskTypes'
      BY <2>10 DEF Open, askVars, AskTypes
    <3> QED
      BY <3>1, <3>2, <3>3, <3>4
  <2>11. ASSUME ApplyEdit
        PROVE  BackendTypeOK' /\ ToolTypes' /\ ViewTypes' /\ AskTypes'
    <3>1. BackendTypeOK'
      BY <2>11 DEF ApplyEdit, fileVars, backendVars, BackendTypeOK
    <3>2. ToolTypes'
      <4>1. Head(toHost) \in Texts
        BY <2>11 DEF ApplyEdit, ViewTypes
      <4>2. document.saves + 1 \in Nat
        BY DEF ToolTypes
      <4>3. document' \in [text : Texts, known : Texts, saves : Nat]
        BY <2>11, <4>1, <4>2 DEF ApplyEdit, ToolTypes
      <4> QED
        BY <2>11, <4>3 DEF ApplyEdit, commandVars, ToolTypes
    <3>3. ViewTypes'
      BY <2>11 DEF ApplyEdit, UpdateWebview, fileVars, backendVars, commandVars, editorVars, askVars, ViewTypes
    <3>4. AskTypes'
      BY <2>11 DEF ApplyEdit, askVars, AskTypes
    <3> QED
      BY <3>1, <3>2, <3>3, <3>4
  <2>12. ASSUME Save
        PROVE  BackendTypeOK' /\ ToolTypes' /\ ViewTypes' /\ AskTypes'
    <3>1. BackendTypeOK'
      BY <2>12 DEF Save, Touch, ToolTypes, fileVars, backendVars, commandVars, editorVars, askVars, BackendTypeOK
    <3>2. ToolTypes'
      <4>1. document.saves - 1 \in Nat
        BY <2>12 DEF Save, ToolTypes
      <4>2. \/ document' = [document EXCEPT !.known = document.text, !.saves = @ - 1]
            \/ document' = [document EXCEPT !.saves = @ - 1]
        BY <2>12 DEF Save
      <4> QED
        BY <2>12, <4>1, <4>2 DEF Save, commandVars, ToolTypes
    <3>3. ViewTypes'
      BY <2>12 DEF Save, editorVars, ViewTypes
    <3>4. AskTypes'
      BY <2>12 DEF Save, askVars, AskTypes
    <3> QED
      BY <3>1, <3>2, <3>3, <3>4
  <2>13. ASSUME Reload
        PROVE  BackendTypeOK' /\ ToolTypes' /\ ViewTypes' /\ AskTypes'
    <3>1. BackendTypeOK'
      BY <2>13 DEF Reload, fileVars, backendVars, BackendTypeOK
    <3>2. ToolTypes'
      BY <2>13 DEF Reload, BackendTypeOK, fileVars, backendVars, commandVars, editorVars, askVars, ToolTypes
    <3>3. ViewTypes'
      BY <2>13 DEF Reload, UpdateWebview, BackendTypeOK, fileVars, backendVars, commandVars, editorVars, askVars, ViewTypes
    <3>4. AskTypes'
      BY <2>13 DEF Reload, askVars, AskTypes
    <3> QED
      BY <3>1, <3>2, <3>3, <3>4
  <2>14. ASSUME Receive
        PROVE  BackendTypeOK' /\ ToolTypes' /\ ViewTypes' /\ AskTypes'
    <3>1. BackendTypeOK'
      BY <2>14 DEF Receive, fileVars, backendVars, BackendTypeOK
    <3>2. ToolTypes'
      BY <2>14 DEF Receive, commandVars, editorVars, ToolTypes
    <3>3. ViewTypes'
      BY <2>14, DefinitionsText DEF Receive, fileVars, backendVars, commandVars, editorVars, askVars, ViewTypes
    <3>4. AskTypes'
      BY <2>14 DEF Receive, askVars, AskTypes
    <3> QED
      BY <3>1, <3>2, <3>3, <3>4
  <2>15. ASSUME Hide
        PROVE  BackendTypeOK' /\ ToolTypes' /\ ViewTypes' /\ AskTypes'
    <3>1. BackendTypeOK'
      BY <2>15 DEF Hide, fileVars, backendVars, BackendTypeOK
    <3>2. ToolTypes'
      BY <2>15 DEF Hide, commandVars, editorVars, ToolTypes
    <3>3. ViewTypes'
      BY <2>15, NoFeaturesText DEF Hide, fileVars, backendVars, commandVars, editorVars, askVars, ViewTypes
    <3>4. AskTypes'
      BY <2>15 DEF Hide, askVars, AskTypes
    <3> QED
      BY <3>1, <3>2, <3>3, <3>4
  <2>16. ASSUME Show
        PROVE  BackendTypeOK' /\ ToolTypes' /\ ViewTypes' /\ AskTypes'
    <3>1. BackendTypeOK'
      BY <2>16 DEF Show, fileVars, backendVars, BackendTypeOK
    <3>2. ToolTypes'
      BY <2>16 DEF Show, commandVars, editorVars, ToolTypes
    <3>3. ViewTypes'
      <4>1. \A t \in Texts : <<t>> \in Seq(Texts)
        OBVIOUS
      <4>2. document.text \in Texts
        BY DEF ToolTypes
      <4>3. toView' \in Seq(Texts)
        BY <2>16, <4>1, <4>2 DEF Show, ViewTypes
      <4>4. shown' \in Texts
        BY <2>16, DefinitionsText DEF Show, ViewTypes
      <4> QED
        BY <2>16, <4>3, <4>4 DEF Show, ViewTypes
    <3>4. AskTypes'
      BY <2>16 DEF Show, askVars, AskTypes
    <3> QED
      BY <3>1, <3>2, <3>3, <3>4
  <2>17. ASSUME NEW f \in Features, Click(f)
        PROVE  BackendTypeOK' /\ ToolTypes' /\ ViewTypes' /\ AskTypes'
    <3>1. BackendTypeOK'
      BY <2>17 DEF Click, fileVars, backendVars, BackendTypeOK
    <3>2. ToolTypes'
      BY <2>17 DEF Click, commandVars, editorVars, ToolTypes
    <3>3. ViewTypes'
      BY <2>17, ClickedText DEF Click, fileVars, backendVars, commandVars, editorVars, askVars, ViewTypes
    <3>4. AskTypes'
      BY <2>17 DEF Click, Ask, Wishes, fileVars, backendVars, commandVars, editorVars, askVars, AskTypes
    <3> QED
      BY <3>1, <3>2, <3>3, <3>4
  <2>18. CASE UNCHANGED vars
    <3>1. BackendTypeOK'
      BY <2>18 DEF vars, fileVars, backendVars, BackendTypeOK
    <3>2. ToolTypes'
      BY <2>18 DEF vars, commandVars, editorVars, ToolTypes
    <3>3. ViewTypes'
      BY <2>18 DEF vars, editorVars, ViewTypes
    <3>4. AskTypes'
      BY <2>18 DEF vars, askVars, AskTypes
    <3> QED
      BY <3>1, <3>2, <3>3, <3>4
  <2> QED
    BY <2>1, <2>2, <2>3, <2>4, <2>5, <2>6, <2>7, <2>8, <2>9, <2>10, <2>11, <2>12, <2>13, <2>14, <2>15, <2>16, <2>17, <2>18 DEF Next, BackendNext, ToolsNext
<1> QED
  BY <1>1, <1>2, PTL DEF Spec

-----------------------------------------------------------------------------
(* The .NET backend.                                                          *)

\* What a reader has read is what the file says, until the watcher has
\* something to tell: the constructor's read may be older, but then the
\* watcher has read or published what the file says now.
WatcherKept == ~event /\ ~deaf /\ reads["watcher"] # Nothing => reads["watcher"] = disk

ConstructorKept ==
  /\ backend # "watching" => reads["constructor"] = Nothing
  /\ backend = "watching" => ~deaf
  /\ backend = "down" => reads = NoReads /\ ~event
  /\ backend = "watching" /\ ~event /\ reads["watcher"] = Nothing =>
       \/ raced /\ features = disk
       \/ ~raced /\ reads["constructor"] \in {Nothing, disk}

PublishedKept ==
  backend = "up" /\ ~event /\ ~deaf /\ ~raced /\ reads["watcher"] = Nothing => features = disk

ReadersKept == WatcherKept /\ ConstructorKept /\ PublishedKept

\* A write of the file raises the event of a watcher that listens.
LEMMA WriteKeepsReaders ==
  ASSUME BackendTypeOK, ReadersKept, Touch,
         UNCHANGED <<backend, deaf, reads, features, raced, starts>>
  PROVE  ReadersKept'
<1>1. /\ ~event' => ~event /\ (backend = "down" \/ deaf)
      /\ backend = "down" => event' = event
  BY DEF Touch, BackendTypeOK
<1>2. backend = "down" => reads["watcher"] = Nothing
  BY DEF ReadersKept, ConstructorKept, NoReads
<1> QED
  BY <1>1, <1>2 DEF ReadersKept, WatcherKept, ConstructorKept, PublishedKept, NoReads

LEMMA ReadersKeptInductive ==
  BackendTypeOK /\ BackendTypeOK' /\ ReadersKept /\ [Next]_vars => ReadersKept'
<1> SUFFICES ASSUME BackendTypeOK, BackendTypeOK', ReadersKept, [Next]_vars PROVE ReadersKept'
  OBVIOUS
<1> USE TextsAssumption
<1>1. CASE Start
  BY <1>1 DEF Start, NoReads, ReadersKept, WatcherKept, ConstructorKept, PublishedKept, BackendTypeOK
<1>2. ASSUME NEW r \in {"constructor", "watcher"}, Read(r) PROVE ReadersKept'
  <2>1. backend # "down" /\ reads'[r] = disk /\ disk # Nothing
    BY <1>2 DEF Read, Reads, ReadersKept, ConstructorKept, NoReads, BackendTypeOK
  <2>2. CASE r = "constructor"
    BY <1>2, <2>1, <2>2 DEF Read, Reads, fileVars, ReadersKept, WatcherKept, ConstructorKept,
                            PublishedKept, BackendTypeOK
  <2>3. CASE r = "watcher"
    BY <1>2, <2>1, <2>3 DEF Read, Reads, fileVars, ReadersKept, WatcherKept, ConstructorKept,
                            PublishedKept, BackendTypeOK
  <2> QED
    BY <2>2, <2>3
<1>3. CASE Publish("constructor")
  BY <1>3 DEF Publish, NoReads, fileVars, ReadersKept, WatcherKept, ConstructorKept,
              PublishedKept, BackendTypeOK
<1>4. CASE Publish("watcher")
  BY <1>4 DEF Publish, NoReads, fileVars, ReadersKept, WatcherKept, ConstructorKept,
              PublishedKept, BackendTypeOK
<1>5. ASSUME NEW r \in {"constructor", "watcher"}, ReadTorn(r) PROVE ReadersKept'
  BY <1>5 DEF ReadTorn, NoReads, ReadersKept, WatcherKept, ConstructorKept, PublishedKept,
              BackendTypeOK
<1>6. CASE Collect
  BY <1>6 DEF Collect, NoReads, fileVars, ReadersKept, WatcherKept, ConstructorKept, PublishedKept,
              BackendTypeOK
<1>7. ASSUME NEW k \in Commands, Empty(k) \/ Write(k) PROVE ReadersKept'
  BY <1>7, WriteKeepsReaders DEF Empty, Write
<1>8. ASSUME UNCHANGED <<disk, backendVars>> PROVE ReadersKept'
  BY <1>8 DEF backendVars, NoReads, ReadersKept, WatcherKept, ConstructorKept, PublishedKept
<1>9. CASE Save
  <2>1. CASE disk = document.known
    BY <1>9, <2>1, WriteKeepsReaders DEF Save
  <2>2. CASE disk # document.known
    BY <1>8, <1>9, <2>2 DEF Save, backendVars
  <2> QED
    BY <2>1, <2>2
<1>10. CASE \/ \E k \in Commands : Alter(k) \/ Stop(k)
            \/ Open \/ ApplyEdit \/ Reload \/ Receive \/ Hide \/ Show
            \/ \E f \in Features : Click(f)
            \/ UNCHANGED vars
  BY <1>8, <1>10 DEF Alter, Stop, Open, ApplyEdit, Reload, Receive, Hide, Show, Click, fileVars, vars
<1> QED
  BY <1>1, <1>2, <1>3, <1>4, <1>5, <1>6, <1>7, <1>9, <1>10 DEF Next, BackendNext, ToolsNext

\* Once the provider of the .NET backend has nothing left to do, it holds what
\* features.json holds, in whatever order the constructor and the watcher's
\* thread read and publish (FeaturesProvider.cs).
THEOREM BackendStaysCurrent == Spec => []BackendIsCurrent
<1>1. Init => ReadersKept
  BY DEF Init, BackendInit, NoReads, ReadersKept, WatcherKept, ConstructorKept, PublishedKept
<1>2. TypeOK => BackendTypeOK
  BY DEF TypeOK
<1>3. BackendTypeOK /\ ReadersKept => BackendIsCurrent
  BY DEF ReadersKept, PublishedKept, BackendIsCurrent, NoReads, BackendTypeOK
<1>4. TypeOK /\ TypeOK' /\ ReadersKept /\ [Next]_vars => ReadersKept'
  BY ReadersKeptInductive DEF TypeOK
<1> QED
  BY <1>1, <1>2, <1>3, <1>4, TypeCorrect, PTL DEF Spec

-----------------------------------------------------------------------------
(* The view of the editor.                                                    *)

\* The last text on its way to the view is the document's, and when there is
\* none, the view has it in its state and shows it.
ViewKept ==
  /\ view # "visible" => toView = <<>>
  /\ toView # <<>> => toView[Len(toView)] = document.text
  /\ toView = <<>> /\ toHost = <<>> /\ ~missed /\ view # "closed" => state = document.text
  /\ toView = <<>> /\ toHost = <<>> /\ ~missed /\ view = "visible" =>
       shown = Definitions(document.text)

LEMMA LastOfOne ==
  ASSUME NEW S, NEW s \in Seq(S), s # <<>>, Tail(s) = <<>>
  PROVE  Head(s) = s[Len(s)]
<1>1. Len(Tail(s)) = Len(s) - 1 /\ Len(s) \in Nat
  OBVIOUS
<1>2. Len(Tail(s)) = 0
  <2>1. Len(<<>>) = 0
    OBVIOUS
  <2> QED
    BY <2>1, Zenon
<1>3. Len(s) = 1
  BY <1>1, <1>2
<1>4. Head(s) = s[1]
  OBVIOUS
<1> QED
  BY <1>3, <1>4

LEMMA LastOfTail ==
  ASSUME NEW S, NEW s \in Seq(S), s # <<>>, Tail(s) # <<>>
  PROVE  Tail(s)[Len(Tail(s))] = s[Len(s)]
OBVIOUS

LEMMA LastOfAppend ==
  ASSUME NEW S, NEW s \in Seq(S), NEW x \in S
  PROVE  Append(s, x) # <<>> /\ Append(s, x)[Len(Append(s, x))] = x
OBVIOUS

LEMMA SentIsKept ==
  ASSUME TypeOK, TypeOK', ViewKept, UpdateWebview(document'.text), view' = view
  PROVE  ViewKept'
<1>1. CASE view = "visible"
  <2>1. toView' = Append(toView, document'.text) /\ toView \in Seq(Texts) /\ document'.text \in Texts
    BY <1>1 DEF UpdateWebview, TypeOK
  <2>2. toView' # <<>> /\ toView'[Len(toView')] = document'.text
    BY <2>1, LastOfAppend
  <2> QED
    BY <1>1, <2>2 DEF ViewKept
<1>2. CASE view # "visible"
  BY <1>2 DEF UpdateWebview, ViewKept, TypeOK
<1> QED
  BY <1>1, <1>2

LEMMA ViewKeptInductive == TypeOK /\ TypeOK' /\ ViewKept /\ [Next]_vars => ViewKept'
<1> SUFFICES ASSUME TypeOK, TypeOK', ViewKept, [Next]_vars PROVE ViewKept'
  OBVIOUS
<1>1. CASE Open
  BY <1>1 DEF Open, ViewKept
<1>2. CASE ApplyEdit
  <2>1. document'.text = Head(toHost)
    BY <1>2 DEF ApplyEdit, TypeOK
  <2> QED
    BY <1>2, <2>1, SentIsKept DEF ApplyEdit
<1>3. CASE Reload
  <2>1. document'.text = disk
    BY <1>3 DEF Reload, TypeOK
  <2> QED
    BY <1>3, <2>1, SentIsKept DEF Reload
<1>4. CASE Receive
  <2>1. CASE Tail(toView) = <<>>
    BY <1>4, <2>1, LastOfOne DEF Receive, ViewKept, TypeOK
  <2>2. CASE Tail(toView) # <<>>
    BY <1>4, <2>2, LastOfTail DEF Receive, ViewKept, TypeOK
  <2> QED
    BY <2>1, <2>2
<1>5. ASSUME NEW f \in Features, Click(f) PROVE ViewKept'
  <2>1. toHost' # <<>>
    BY <1>5, ClickedText, LastOfAppend DEF Click, TypeOK
  <2> QED
    BY <1>5, <2>1 DEF Click, ViewKept
<1>6. CASE Hide
  BY <1>6 DEF Hide, ViewKept
<1>7. CASE Show
  BY <1>7 DEF Show, ViewKept
<1>8. ASSUME UNCHANGED <<view, toView, toHost, missed, state, shown>>, document'.text = document.text
      PROVE  ViewKept'
  BY <1>8 DEF ViewKept, Definitions, IsOn
<1>9. CASE Save
  <2>1. document'.text = document.text
    BY <1>9 DEF Save, TypeOK
  <2> QED
    BY <1>8, <1>9, <2>1 DEF Save
<1>10. ASSUME UNCHANGED editorVars PROVE ViewKept'
  BY <1>8, <1>10 DEF editorVars
<1>11. CASE \/ \E k \in Commands : Alter(k) \/ Empty(k) \/ Write(k) \/ Stop(k)
            \/ BackendNext /\ UNCHANGED <<commandVars, editorVars, askVars>>
            \/ UNCHANGED vars
  BY <1>10, <1>11 DEF Alter, Empty, Write, Stop, vars
<1> QED
  BY <1>1, <1>2, <1>3, <1>4, <1>5, <1>6, <1>7, <1>9, <1>11 DEF Next, ToolsNext

\* A view that has read all it was sent shows the document, also when clicks,
\* reloads of the file, and hiding and showing it take turns.
THEOREM ViewStaysCurrent == Spec => []ViewIsCurrent
<1>1. Init => ViewKept
  BY DEF Init, ViewKept
<1>2. ViewKept => ViewIsCurrent
  BY DEF ViewKept, ViewIsCurrent
<1> QED
  BY <1>1, <1>2, TypeCorrect, ViewKeptInductive, PTL DEF Spec

-----------------------------------------------------------------------------
(* What was asked for.                                                        *)

\* A text is as those who asked wanted it, as far as it can be.
Wished(text, f, asked) == Status(text, f) = asked[f] \/ (asked[f] = "off" /\ Len(text[f]) > 1)

Satisfies(text, asked) == \A f \in Features : Wished(text, f, asked)

\* Nobody has lost anything as long as only one writes at a time.  The editor
\* may write when it knows what is on the disk: its latest text has all that
\* was asked for.
EditorsTurn ==
  /\ CommandsDone(Commands)
  /\ ~torn
  /\ document.known = disk
  /\ Satisfies(Latest, wish)

\* A command may when the editor has nothing left to do.
CommandsTurn(k) ==
  /\ command[k].step \in {"altered", "emptied"}
  /\ CommandsDone(Commands \ {k})
  /\ EditorDone
  /\ torn = (command[k].step = "emptied")
  /\ Satisfies(command[k].text, wish)

\* Then the editor has to follow the file.
FilesTurn ==
  /\ CommandsDone(Commands)
  /\ ~torn
  /\ toHost = <<>> /\ document.saves = 0 /\ document.text = document.known
  /\ Satisfies(disk, wish)

WishesKept == crossed \/ EditorsTurn \/ FilesTurn \/ \E k \in Commands : CommandsTurn(k)

LEMMA SameStatus ==
  ASSUME NEW text, NEW other, NEW f, text[f] = other[f]
  PROVE  Status(text, f) = Status(other, f)
BY DEF Status, IsOn

LEMMA StatusOfOne ==
  ASSUME NEW text, NEW f, NEW b \in BOOLEAN, text[f] = <<b>>
  PROVE  Status(text, f) = IF b THEN "on" ELSE "off"
<1>1. DOMAIN text[f] = {1} /\ text[f][1] = b /\ text[f] # <<>>
  OBVIOUS
<1>2. IsOn(text, f) <=> b
  BY <1>1, Zenon DEF IsOn
<1> QED
  BY <1>1, <1>2, Zenon DEF Status

\* One feature is altered as it was asked for, and the others stay.
LEMMA OneWish ==
  ASSUME NEW text, NEW new, NEW asked \in [Features -> Wishes], NEW f \in Features, NEW w,
         Satisfies(text, asked),
         \A g \in Features \ {f} : new[g] = text[g],
         Status(new, f) = w \/ (w = "off" /\ Len(new[f]) > 1)
  PROVE  Satisfies(new, [asked EXCEPT ![f] = w])
<1>1. \A g \in Features \ {f} : Status(new, g) = Status(text, g)
  BY SameStatus
<1> QED
  BY <1>1 DEF Satisfies, Wished

\* What a command makes of a text that has all that was asked for.
LEMMA AlteredSatisfies ==
  ASSUME NEW text \in Texts, NEW asked \in [Features -> Wishes], NEW f \in Features,
         Satisfies(text, asked)
  PROVE  /\ Satisfies(AddFeature(text, f),
                      [asked EXCEPT ![f] = IF text[f] = <<>> THEN "off" ELSE asked[f]])
         /\ Satisfies(RemoveFeature(text, f),
                      [asked EXCEPT ![f] = IF text[f] = <<>> THEN asked[f] ELSE "absent"])
         /\ Satisfies(SwitchOnFeature(text, f),
                      [asked EXCEPT ![f] = IF text[f] = <<>> THEN asked[f] ELSE "on"])
         /\ Satisfies(SwitchOffFeature(text, f),
                      [asked EXCEPT ![f] = IF text[f] = <<>> THEN asked[f] ELSE "off"])
<1>1. [asked EXCEPT ![f] = asked[f]] = asked
  OBVIOUS
<1>2. \A t : [text EXCEPT ![f] = t][f] = t /\ \A g \in Features \ {f} : [text EXCEPT ![f] = t][g] = text[g]
  BY DEF Texts
<1>3. Status([text EXCEPT ![f] = <<FALSE>>], f) = "off" /\ Status([text EXCEPT ![f] = <<TRUE>>], f) = "on"
  BY <1>2, StatusOfOne
<1>4. Status([text EXCEPT ![f] = <<>>], f) = "absent"
  BY <1>2 DEF Status
<1>5. ASSUME NEW t, NEW w, Status([text EXCEPT ![f] = t], f) = w
      PROVE  Satisfies([text EXCEPT ![f] = t], [asked EXCEPT ![f] = w])
  <2> DEFINE new == [text EXCEPT ![f] = t]
  <2>1. \A g \in Features \ {f} : new[g] = text[g]
    BY <1>2
  <2>2. Status(new, f) = w
    BY <1>5
  <2> HIDE DEF new
  <2>3. Satisfies(new, [asked EXCEPT ![f] = w])
    BY <2>1, <2>2, OneWish
  <2> QED
    BY <2>3 DEF new
<1>6. ASSUME text[f] = <<>> PROVE [text EXCEPT ![f] = <<>>] = text
  BY <1>6 DEF Texts
<1>7. CASE text[f] = <<>>
  BY <1>1, <1>3, <1>4, <1>5, <1>6, <1>7 DEF AddFeature, RemoveFeature, SwitchOnFeature, SwitchOffFeature
<1>8. CASE text[f] # <<>>
  BY <1>1, <1>3, <1>4, <1>5, <1>8 DEF AddFeature, RemoveFeature, SwitchOnFeature, SwitchOffFeature
<1> QED
  BY <1>7, <1>8

\* What the view makes of one: each feature has as many toggles as before, and
\* all of them are what the feature was.
LEMMA DefinitionsStatus ==
  ASSUME NEW text \in Texts, NEW f \in Features
  PROVE  /\ Status(Definitions(text), f) = Status(text, f)
         /\ Len(Definitions(text)[f]) = Len(text[f])
<1> DEFINE shows == [i \in DOMAIN text[f] |-> IsOn(text, f)]
<1>1. Definitions(text)[f] = shows
  BY DEF Definitions
<1>2. IsOn(text, f) \in BOOLEAN /\ text[f] \in Toggles
  BY DEF IsOn, Texts
<1>3. Definitions(text)[f] \in Toggles
  BY DefinitionsText DEF Texts
<1>4. DOMAIN Definitions(text)[f] = DOMAIN text[f]
  BY <1>1
<1>5. Len(Definitions(text)[f]) = Len(text[f])
  BY <1>2, <1>3, <1>4 DEF Toggles
<1>6. text[f] = <<>> <=> Definitions(text)[f] = <<>>
  BY <1>2, <1>3, <1>5 DEF Toggles
<1>7. IsOn(Definitions(text), f) <=> IsOn(text, f)
  BY <1>1, <1>4 DEF IsOn
<1> QED
  BY <1>5, <1>6, <1>7 DEF Status

LEMMA ClickedSatisfies ==
  ASSUME NEW text \in Texts, NEW asked \in [Features -> Wishes], NEW f \in Features,
         Satisfies(text, asked), shown = Definitions(text), shown[f] # <<>>
  PROVE  Satisfies(Clicked(f), [asked EXCEPT ![f] = IF shown[f][1] THEN "off" ELSE "on"])
<1>1. Satisfies(shown, asked)
  BY DefinitionsStatus DEF Satisfies, Wished
<1>2. shown \in Texts
  BY DefinitionsText
<1>3. \A g \in Features \ {f} : Clicked(f)[g] = shown[g]
  BY <1>2 DEF Clicked, Texts
<1>4. Clicked(f)[f] = [shown[f] EXCEPT ![1] = ~@]
  BY <1>2 DEF Clicked, Texts
<1> DEFINE w == IF shown[f][1] THEN "off" ELSE "on"
<1>5. Status(Clicked(f), f) = w \/ (w = "off" /\ Len(Clicked(f)[f]) > 1)
  <2>1. CASE \E x \in BOOLEAN : shown[f] = <<x>>
    <3>1. PICK x \in BOOLEAN : shown[f] = <<x>>
      BY <2>1
    <3>2. Clicked(f)[f] = <<~x>>
      BY <1>4, <3>1
    <3>3. Status(Clicked(f), f) = IF ~x THEN "on" ELSE "off"
      BY <3>2, StatusOfOne
    <3>4. shown[f][1] = x
      BY <3>1
    <3>5. w = IF x THEN "off" ELSE "on"
      BY <3>4, Zenon
    <3> HIDE DEF w
    <3> QED
      BY <3>3, <3>5
  <2>2. CASE \E x, y \in BOOLEAN : shown[f] = <<x, y>>
    <3>1. PICK x, y \in BOOLEAN : shown[f] = <<x, y>>
      BY <2>2
    <3>2. Clicked(f)[f] = <<~x, y>>
      BY <1>4, <3>1
    <3>3. CASE x
      BY <3>1, <3>2, <3>3
    <3>4. CASE ~x
      <4>1. 1 \in DOMAIN Clicked(f)[f] /\ Clicked(f)[f][1] = ~x
        BY <3>2
      <4>2. IsOn(Clicked(f), f)
        BY <3>4, <4>1, Zenon DEF IsOn
      <4> QED
        BY <3>1, <3>2, <3>4, <4>2 DEF Status
    <3> QED
      BY <3>3, <3>4
  <2>3. shown[f] \in Toggles
    BY <1>2 DEF Texts
  <2> QED
    BY <2>1, <2>2, <2>3, TogglesCases
<1> HIDE DEF w
<1>6. Satisfies(Clicked(f), [asked EXCEPT ![f] = w])
  BY <1>1, <1>3, <1>5, OneWish
<1> QED
  BY <1>6 DEF w

\* The editor's part of the files and texts, and what was asked for, stay.
LEMMA WritersUndisturbed ==
  ASSUME WishesKept, UNCHANGED <<command, torn, disk, document, toHost, wish, crossed>>
  PROVE  WishesKept'
BY DEF WishesKept, EditorsTurn, CommandsTurn, FilesTurn, CommandsDone, EditorDone, Latest,
       Satisfies, Wished, Status, IsOn

LEMMA BackendWritesNothing == BackendNext => UNCHANGED fileVars
BY DEF BackendNext, Start, Read, Publish, ReadTorn, Collect, fileVars

\* A command that is at work is the one whose turn it is.
LEMMA AtWork ==
  ASSUME WishesKept, ~crossed, NEW k \in Commands, command[k].step \in {"altered", "emptied"}
  PROVE  CommandsTurn(k)
BY DEF WishesKept, EditorsTurn, FilesTurn, CommandsTurn, CommandsDone

\* While the editor has something to apply or to save, it is its turn.
LEMMA EditorAtWork ==
  ASSUME WishesKept, ~crossed, toHost # <<>> \/ document.saves # 0
  PROVE  EditorsTurn
BY DEF WishesKept, FilesTurn, CommandsTurn, EditorDone

LEMMA AlterKeepsWishes ==
  ASSUME TypeOK, WishesKept, NEW k \in Commands, Alter(k)
  PROVE  WishesKept'
<1>1. CASE crossed'
  BY <1>1 DEF WishesKept
<1>2. CASE ~crossed'
  <2>1. ~crossed /\ CommandsDone(Commands) /\ EditorDone /\ ~torn
    BY <1>2 DEF Alter, Invoke, Ask
  <2>2. Satisfies(disk, wish)
    <3>1. \A j \in Commands : ~CommandsTurn(j)
      BY <2>1 DEF CommandsTurn, CommandsDone
    <3>2. Latest = disk
      BY <2>1 DEF Latest, EditorDone
    <3> QED
      BY <2>1, <3>1, <3>2 DEF WishesKept, EditorsTurn, FilesTurn
  <2>3. disk \in Texts /\ wish \in [Features -> Wishes]
    BY DEF TypeOK, BackendTypeOK
  <2>4. PICK f, text, w : f \in Features /\ Invoke(k, f, text, w) /\ Satisfies(text, [wish EXCEPT ![f] = w])
    BY <2>2, <2>3, AlteredSatisfies DEF Alter
  <2>5. command' = [command EXCEPT ![k] = [step |-> "altered", text |-> text]]
    BY <2>4 DEF Invoke
  <2>6. command'[k].step = "altered" /\ command'[k].text = text
    BY <2>5 DEF TypeOK
  <2>7. CommandsDone(Commands \ {k})'
    BY <2>1, <2>5 DEF CommandsDone, TypeOK
  <2>8. EditorDone'
    BY <2>1 DEF Alter, fileVars, editorVars, EditorDone
  <2>9. Satisfies(command'[k].text, wish')
    BY <2>4, <2>6 DEF Invoke, Ask
  <2>10. torn' = FALSE
    BY <2>1 DEF Alter, fileVars, TypeOK, BackendTypeOK
  <2>11. CommandsTurn(k)'
    BY <2>6, <2>7, <2>8, <2>9, <2>10 DEF CommandsTurn, Satisfies, Wished, Status, IsOn
  <2> QED
    BY <2>11 DEF WishesKept
<1> QED
  BY <1>1, <1>2

LEMMA WritingKeepsWishes ==
  ASSUME TypeOK, WishesKept, NEW k \in Commands, Empty(k) \/ Write(k)
  PROVE  WishesKept'
<1>1. CASE crossed
  BY <1>1 DEF Empty, Write, askVars, WishesKept
<1>2. CASE ~crossed
  <2>1. CommandsTurn(k)
    BY <1>2, AtWork DEF Empty, Write
  <2>2. CASE Empty(k)
    <3>1. command' = [command EXCEPT ![k].step = "emptied"]
      BY <2>2 DEF Empty
    <3>2. command'[k].step = "emptied" /\ command'[k].text = command[k].text
      BY <3>1 DEF TypeOK
    <3>3. CommandsDone(Commands \ {k})'
      BY <2>1, <3>1 DEF CommandsTurn, CommandsDone, TypeOK
    <3>4. torn' /\ EditorDone'
      BY <2>1, <2>2 DEF Empty, CommandsTurn, EditorDone, editorVars
    <3>5. Satisfies(command'[k].text, wish')
      BY <2>1, <2>2, <3>2 DEF Empty, askVars, CommandsTurn
    <3>6. torn' = TRUE
      BY <2>2 DEF Empty
    <3>7. CommandsTurn(k)'
      BY <3>2, <3>3, <3>4, <3>5, <3>6 DEF CommandsTurn, Satisfies, Wished, Status, IsOn
    <3> QED
      BY <3>7 DEF WishesKept
  <2>3. CASE Write(k)
    <3>1. CommandsDone(Commands)'
      BY <2>1, <2>3 DEF Write, CommandsTurn, CommandsDone, TypeOK
    <3>2. ~torn' /\ toHost' = <<>> /\ document'.saves = 0 /\ document'.text = document'.known
      BY <2>1, <2>3 DEF Write, CommandsTurn, EditorDone, editorVars
    <3>3. Satisfies(disk', wish')
      BY <2>1, <2>3 DEF Write, CommandsTurn, askVars
    <3>4. FilesTurn'
      BY <3>1, <3>2, <3>3 DEF FilesTurn, Satisfies, Wished, Status, IsOn
    <3> QED
      BY <3>4 DEF WishesKept
  <2> QED
    BY <2>2, <2>3
<1> QED
  BY <1>1, <1>2

LEMMA EditorKeepsWishes ==
  ASSUME TypeOK, TypeOK', WishesKept, ApplyEdit \/ Save \/ Reload
  PROVE  WishesKept'
<1>1. CASE crossed
  BY <1>1 DEF ApplyEdit, Save, Reload, askVars, WishesKept
<1>2. CASE ~crossed
  <2>1. UNCHANGED <<command, torn, wish>>
    BY DEF ApplyEdit, Save, Reload, fileVars, commandVars, askVars
  <2>2. ASSUME CommandsDone(Commands), ~torn, document'.known = disk', Satisfies(Latest', wish)
        PROVE  WishesKept'
    <3>1. CommandsDone(Commands)'
      BY <2>1, <2>2 DEF CommandsDone
    <3>2. Satisfies(Latest', wish')
      BY <2>1, <2>2
    <3>3. EditorsTurn'
      BY <2>1, <2>2, <3>1, <3>2 DEF EditorsTurn, Satisfies, Wished, Status, IsOn
    <3> QED
      BY <3>3 DEF WishesKept
  <2>3. CASE ApplyEdit
    <3>1. EditorsTurn
      BY <1>2, <2>3, EditorAtWork DEF ApplyEdit
    <3>2. document'.known = document.known /\ document'.text = Head(toHost) /\ disk' = disk
      BY <2>3 DEF ApplyEdit, fileVars, TypeOK
    <3>3. Latest' = Latest
      <4>1. toHost \in Seq(Texts) /\ toHost # <<>> /\ toHost' = Tail(toHost)
        BY <2>3 DEF ApplyEdit, TypeOK
      <4>2. CASE Tail(toHost) = <<>>
        BY <3>2, <4>1, <4>2, LastOfOne DEF Latest
      <4>3. CASE Tail(toHost) # <<>>
        BY <4>1, <4>3, LastOfTail DEF Latest
      <4> QED
        BY <4>2, <4>3
    <3> QED
      BY <2>2, <3>1, <3>2, <3>3 DEF EditorsTurn
  <2>4. CASE Save
    <3>1. EditorsTurn
      BY <1>2, <2>4, EditorAtWork DEF Save, TypeOK
    <3>2. document'.known = disk' /\ document'.text = document.text
      BY <2>4, <3>1 DEF Save, EditorsTurn, TypeOK
    <3>3. Latest' = Latest
      BY <2>4, <3>2 DEF Save, Latest
    <3> QED
      BY <2>2, <3>1, <3>2, <3>3 DEF EditorsTurn
  <2>5. CASE Reload
    <3>1. FilesTurn
      BY <1>2, <2>5 DEF Reload, WishesKept, EditorsTurn, CommandsTurn, EditorDone
    <3>2. document'.known = disk' /\ document'.text = disk /\ toHost' = <<>>
      BY <2>5, <3>1 DEF Reload, FilesTurn, fileVars, TypeOK
    <3>3. Latest' = disk
      BY <3>2 DEF Latest
    <3> QED
      BY <2>2, <3>1, <3>2, <3>3 DEF FilesTurn
  <2> QED
    BY <2>3, <2>4, <2>5
<1> QED
  BY <1>1, <1>2

LEMMA ClickKeepsWishes ==
  ASSUME TypeOK, WishesKept, NEW f \in Features, Click(f)
  PROVE  WishesKept'
<1>1. CASE crossed'
  BY <1>1 DEF WishesKept
<1>2. CASE ~crossed'
  <2>1. ~crossed /\ CommandsDone(Commands) /\ document.known = disk /\ shown = Definitions(Latest)
    BY <1>2 DEF Click, Ask
  <2>2. ~torn /\ Satisfies(Latest, wish)
    <3>1. \A j \in Commands : ~CommandsTurn(j)
      BY <2>1 DEF CommandsTurn, CommandsDone
    <3>2. CASE EditorsTurn
      BY <3>2 DEF EditorsTurn
    <3>3. CASE FilesTurn
      BY <2>1, <3>3 DEF FilesTurn, Latest
    <3> QED
      BY <2>1, <3>1, <3>2, <3>3 DEF WishesKept
  <2>3. Latest \in Texts
    BY DEF TypeOK, Latest
  <2> DEFINE w == IF shown[f][1] THEN "off" ELSE "on"
  <2>4. Satisfies(Clicked(f), [wish EXCEPT ![f] = w])
    BY <2>1, <2>2, <2>3, ClickedSatisfies DEF Click, TypeOK
  <2>5. wish' = [wish EXCEPT ![f] = w]
    BY DEF Click, Ask
  <2>6. Latest' = Clicked(f)
    <3>1. Clicked(f) \in Texts /\ toHost \in Seq(Texts) /\ toHost' = Append(toHost, Clicked(f))
      BY ClickedText DEF Click, TypeOK
    <3> QED
      BY <3>1, LastOfAppend DEF Latest
  <2> HIDE DEF w
  <2>7. Satisfies(Latest', wish')
    BY <2>4, <2>5, <2>6
  <2>8. CommandsDone(Commands)' /\ ~torn' /\ document'.known = disk'
    BY <2>1, <2>2 DEF Click, fileVars, commandVars, CommandsDone
  <2>9. EditorsTurn'
    BY <2>7, <2>8 DEF EditorsTurn, Satisfies, Wished, Status, IsOn
  <2> QED
    BY <2>9 DEF WishesKept
<1> QED
  BY <1>1, <1>2

LEMMA WishesKeptInductive == TypeOK /\ TypeOK' /\ WishesKept /\ [Next]_vars => WishesKept'
<1> SUFFICES ASSUME TypeOK, TypeOK', WishesKept, [Next]_vars PROVE WishesKept'
  OBVIOUS
<1>1. ASSUME NEW k \in Commands, Alter(k) \/ Empty(k) \/ Write(k) \/ Stop(k) PROVE WishesKept'
  <2>1. CASE Stop(k)
    BY <2>1 DEF Stop, WishesKept
  <2> QED
    BY <1>1, <2>1, AlterKeepsWishes, WritingKeepsWishes
<1>2. CASE ApplyEdit \/ Save \/ Reload
  BY <1>2, EditorKeepsWishes
<1>3. CASE \E f \in Features : Click(f)
  BY <1>3, ClickKeepsWishes
<1>4. CASE Open \/ Receive \/ Hide \/ Show
  BY <1>4, WritersUndisturbed DEF Open, Receive, Hide, Show, fileVars, commandVars, askVars
<1>5. CASE BackendNext /\ UNCHANGED <<commandVars, editorVars, askVars>>
  BY <1>5, WritersUndisturbed, BackendWritesNothing DEF fileVars, commandVars, editorVars, askVars
<1>6. CASE UNCHANGED vars
  BY <1>6, WritersUndisturbed DEF vars, fileVars, commandVars, editorVars, askVars
<1> QED
  BY <1>1, <1>2, <1>3, <1>4, <1>5, <1>6 DEF Next, ToolsNext

\* What was asked for of the CLI and in the view, one after the other, is what
\* features.json says in the end: no tool undoes what another one has done.
THEOREM NoWishIsLost == Spec => []WishesCome
<1>1. Init => WishesKept
  <2> SUFFICES ASSUME Init PROVE EditorsTurn
    BY DEF WishesKept
  <2>1. CommandsDone(Commands) /\ ~torn /\ document.known = disk /\ Latest = disk
    BY DEF Init, BackendInit, CommandsDone, Latest
  <2>2. Satisfies(disk, wish)
    BY DEF Init, Satisfies, Wished
  <2> QED
    BY <2>1, <2>2 DEF EditorsTurn
<1>2. WishesKept => WishesCome
  <2> SUFFICES ASSUME WishesKept, Settled, ~crossed PROVE Satisfies(disk, wish)
    BY DEF WishesCome, Satisfies, Wished
  <2>1. \A k \in Commands : ~CommandsTurn(k)
    BY DEF Settled, CommandsTurn, CommandsDone
  <2>2. Latest = disk
    BY DEF Settled, EditorDone, Latest
  <2> QED
    BY <2>1, <2>2 DEF WishesKept, EditorsTurn, FilesTurn
<1> QED
  BY <1>1, <1>2, TypeCorrect, WishesKeptInductive, PTL DEF Spec
=============================================================================
