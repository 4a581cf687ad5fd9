--------------------------- MODULE FeaturesTooling ---------------------------
(***************************************************************************)
(* The tools that change features.json: the commands of the CLI            *)
(* (AddFeature.cs, RemoveFeature.cs, SwitchOnFeature.cs,                   *)
(* SwitchOffFeature.cs, AlterFeaturesCommandHandler.cs) and the editor of  *)
(* Visual Studio Code (FeaturesEditorProvider.ts, VisualEditor.ts,         *)
(* FeaturesList.tsx).  Each of them writes the whole text, and none looks  *)
(* whether another one has written since it read.                          *)
(***************************************************************************)
EXTENDS NetFeatures

CONSTANTS
  Commands,   \* runs of the CLI's commands
  MaxAsks,    \* bound: commands run and checkboxes clicked, together
  MaxHides    \* bound: how often the view is hidden

ASSUME ToolingAssumption == MaxAsks \in Nat /\ MaxHides \in Nat

VARIABLES
  command,   \* command[k]: where a command is, and the text it writes
  document,  \* the editor's text, what it knows of the disk, saves to make
  toHost,    \* texts from the view, oldest first
  toView,    \* texts to the view, oldest first
  view,      \* "closed", "visible" or "hidden"
  shown,     \* the toggles the view shows
  state,     \* the text in the view's state, or Nothing
  missed,    \* a text did not reach the view (history)
  wish,      \* wish[f]: what the last one who asked wanted of f (history)
  crossed,   \* someone asked when another one was not done, or clicked on
             \* something else than the document's text (history)
  asks,      \* asked so far (bound)
  hides      \* how often the view has been hidden (bound)

commandVars == <<command>>
editorVars == <<document, toHost, toView, view, shown, state, missed, hides>>
askVars == <<wish, crossed, asks>>
vars == <<fileVars, backendVars, commandVars, editorVars, askVars>>

Wishes == {"absent", "off", "on"}

TypeOK ==
  /\ BackendTypeOK
  /\ command \in [Commands -> [step : {"new", "altered", "emptied", "done"}, text : Texts]]
  /\ document \in [text : Texts, known : Texts, saves : Nat]
  /\ toHost \in Seq(Texts)
  /\ toView \in Seq(Texts)
  /\ view \in {"closed", "visible", "hidden"}
  /\ shown \in Texts
  /\ state \in {Nothing} \cup Texts
  /\ missed \in BOOLEAN
  /\ wish \in [Features -> Wishes]
  /\ crossed \in BOOLEAN
  /\ asks \in Nat
  /\ hides \in Nat

Status(text, f) == IF text[f] = <<>> THEN "absent" ELSE IF IsOn(text, f) THEN "on" ELSE "off"

Init ==
  /\ BackendInit
  /\ command = [k \in Commands |-> [step |-> "new", text |-> NoFeatures]]
  /\ document = [text |-> disk, known |-> disk, saves |-> 0]
  /\ toHost = <<>>
  /\ toView = <<>>
  /\ view = "closed"
  /\ shown = NoFeatures
  /\ state = Nothing
  /\ missed = FALSE
  /\ wish = [f \in Features |-> Status(disk, f)]
  /\ crossed = FALSE
  /\ asks = 0
  /\ hides = 0

\* No command is at work, and the editor has nothing to apply or to save.
CommandsDone(others) == \A k \in others : command[k].step \in {"new", "done"}
EditorDone == toHost = <<>> /\ document.saves = 0 /\ document.text = disk /\ document.known = disk

Ask(f, w, undisturbed) ==
  /\ asks < MaxAsks
  /\ asks' = asks + 1
  /\ wish' = [wish EXCEPT ![f] = w]
  /\ crossed' = (crossed \/ ~undisturbed)

-----------------------------------------------------------------------------
(* The CLI.                                                                *)

\* What a command makes of a text; one that it refuses stays as it is.
AddFeature(text, f) == IF text[f] = <<>> THEN [text EXCEPT ![f] = <<FALSE>>] ELSE text
RemoveFeature(text, f) == [text EXCEPT ![f] = <<>>]
SwitchOffFeature(text, f) == IF text[f] = <<>> THEN text ELSE [text EXCEPT ![f] = <<FALSE>>]

\* One toggle takes the place of those that were there.
SwitchOnFeature(text, f) == IF text[f] = <<>> THEN text ELSE [text EXCEPT ![f] = <<TRUE>>]

Invoke(k, f, text, w) ==
  /\ command' = [command EXCEPT ![k] = [step |-> "altered", text |-> text]]
  /\ Ask(f, w, CommandsDone(Commands) /\ EditorDone)

\* Whether it has refused or not, a command goes on to write all features.
Alter(k) ==
  /\ command[k].step = "new"
  /\ ~torn
  /\ \E f \in Features :
       \/ Invoke(k, f, AddFeature(disk, f), IF disk[f] = <<>> THEN "off" ELSE wish[f])
       \/ Invoke(k, f, RemoveFeature(disk, f), IF disk[f] = <<>> THEN wish[f] ELSE "absent")
       \/ Invoke(k, f, SwitchOnFeature(disk, f), IF disk[f] = <<>> THEN wish[f] ELSE "on")
       \/ Invoke(k, f, SwitchOffFeature(disk, f), IF disk[f] = <<>> THEN wish[f] ELSE "off")
  /\ UNCHANGED <<fileVars, backendVars, editorVars>>

\* The file is opened to be written, which empties it ...
Empty(k) ==
  /\ command[k].step = "altered"
  /\ ~torn
  /\ command' = [command EXCEPT ![k].step = "emptied"]
  /\ torn' = TRUE
  /\ Touch
  /\ UNCHANGED <<disk, backend, deaf, reads, features, raced, starts, editorVars, askVars>>

\* ... and written.
Write(k) ==
  /\ command[k].step = "emptied"
  /\ command' = [command EXCEPT ![k] = [step |-> "done", text |-> NoFeatures]]
  /\ disk' = command[k].text
  /\ torn' = FALSE
  /\ Touch
  /\ UNCHANGED <<backend, deaf, reads, features, raced, starts, editorVars, askVars>>

\* The command is stopped, or cannot read or open the file another one writes.
Stop(k) ==
  /\ command[k].step # "done"
  /\ command[k].step \in {"altered", "emptied"} \/ torn
  /\ command' = [command EXCEPT ![k] = [step |-> "done", text |-> NoFeatures]]
  /\ crossed' = TRUE
  /\ UNCHANGED <<fileVars, backendVars, editorVars, wish, asks>>

-----------------------------------------------------------------------------
(* The extension host, and what Visual Studio Code does with its document. *)

\* A feature is what its first toggle is.
DefinitionsOfFirst(text) == [f \in Features |-> [i \in DOMAIN text[f] |-> text[f][1]]]

\* toDefinitions gives each toggle what the whole feature is.
Definitions(text) == [f \in Features |-> [i \in DOMAIN text[f] |-> IsOn(text, f)]]

\* Only a text that differs from the one before is sent.
UpdateOnDifference(text) ==
  IF text = document.text THEN UNCHANGED <<toView, missed>>
  ELSE /\ toView' = IF view = "visible" THEN Append(toView, text) ELSE toView
       /\ missed' = (missed \/ view = "hidden")

\* updateWebview, for every change of the document (Visual Studio Code tells
\* of an edit also when it makes no difference): a hidden view does not get
\* the message.
UpdateWebview(text) ==
  /\ toView' = IF view = "visible" THEN Append(toView, text) ELSE toView
  /\ missed' = (missed \/ view = "hidden")

Open ==
  /\ view = "closed"
  /\ view' = "visible"
  /\ toView' = <<document.text>>
  /\ UNCHANGED <<fileVars, backendVars, commandVars, document, toHost, shown, state,
                 missed, hides, askVars>>

\* documentChanged: the whole text is replaced.
ApplyEdit ==
  /\ toHost # <<>>
  /\ toHost' = Tail(toHost)
  /\ document' = [document EXCEPT !.text = Head(toHost), !.saves = @ + 1]
  /\ UpdateWebview(Head(toHost))
  /\ UNCHANGED <<fileVars, backendVars, commandVars, view, shown, state, hides, askVars>>

\* The document is saved, unless the file is another one than it was read from:
\* Visual Studio Code then leaves the decision to its user.
Save ==
  /\ document.saves > 0
  /\ ~torn
  /\ IF disk = document.known
     THEN /\ disk' = document.text
          /\ document' = [document EXCEPT !.known = document.text, !.saves = @ - 1]
          /\ Touch
     ELSE /\ document' = [document EXCEPT !.saves = @ - 1]
          /\ UNCHANGED <<disk, event>>
  /\ UNCHANGED <<torn, backend, deaf, reads, features, raced, starts, commandVars, toHost, toView,
                 view, shown, state, missed, hides, askVars>>

\* A document without changes of its own follows the file.
Reload ==
  /\ document.text = document.known
  /\ disk # document.known
  /\ ~torn
  /\ document' = [document EXCEPT !.text = disk, !.known = disk]
  /\ UpdateWebview(disk)
  /\ UNCHANGED <<fileVars, backendVars, commandVars, toHost, view, shown, state, hides, askVars>>

-----------------------------------------------------------------------------
(* The view.                                                               *)

\* An update.
Receive ==
  /\ view = "visible"
  /\ toView # <<>>
  /\ toView' = Tail(toView)
  /\ shown' = Definitions(Head(toView))
  /\ state' = Head(toView)
  /\ missed' = (missed /\ toView' # <<>>)
  /\ UNCHANGED <<fileVars, backendVars, commandVars, document, toHost, view, hides, askVars>>

\* The first toggle is the one of the checkbox, and all that is shown is sent.
Clicked(f) == [shown EXCEPT ![f][1] = ~@]

Latest == IF toHost = <<>> THEN document.text ELSE toHost[Len(toHost)]

Click(f) ==
  /\ view = "visible"
  /\ shown[f] # <<>>
  /\ shown' = Clicked(f)
  /\ toHost' = Append(toHost, Clicked(f))
  /\ Ask(f, IF shown[f][1] THEN "off" ELSE "on",
         CommandsDone(Commands) /\ document.known = disk /\ shown = Definitions(Latest))
  /\ UNCHANGED <<fileVars, backendVars, commandVars, document, toView, view, state, missed, hides>>

\* Another editor is brought to the front: the view is gone, with what it
\* has not read yet.
Hide ==
  /\ view = "visible"
  /\ hides < MaxHides
  /\ view' = "hidden"
  /\ hides' = hides + 1
  /\ missed' = (missed \/ toView # <<>>)
  /\ toView' = <<>>
  /\ shown' = NoFeatures
  /\ UNCHANGED <<fileVars, backendVars, commandVars, document, toHost, state, askVars>>

\* The view is made anew, from its state; without one it asks for the text.
Show ==
  /\ view = "hidden"
  /\ view' = "visible"
  /\ IF state = Nothing
     THEN /\ toView' = <<document.text>>
          /\ UNCHANGED shown
     ELSE /\ shown' = Definitions(state)
          /\ UNCHANGED toView
  /\ UNCHANGED <<fileVars, backendVars, commandVars, document, toHost, state, missed, hides, askVars>>

-----------------------------------------------------------------------------
ToolsNext ==
  \/ \E k \in Commands : Alter(k) \/ Empty(k) \/ Write(k) \/ Stop(k)
  \/ Open \/ ApplyEdit \/ Save \/ Reload \/ Receive \/ Hide \/ Show
  \/ \E f \in Features : Click(f)

Next ==
  \/ ToolsNext
  \/ BackendNext /\ UNCHANGED <<commandVars, editorVars, askVars>>

Spec == Init /\ [][Next]_vars

-----------------------------------------------------------------------------
(* Properties.                                                             *)

Settled == ~torn /\ CommandsDone(Commands) /\ EditorDone

\* What was asked for is what the file says when all have done their work,
\* if each waited for the others and clicked on what the file said: no tool
\* loses what another one was told before.  A feature with more than one
\* toggle cannot be unchecked in the view (Features.ts gives its toggles back
\* as one, and the checkbox is the first of them only).
WishesCome ==
  Settled /\ ~crossed =>
    \A f \in Features : \/ Status(disk, f) = wish[f]
                        \/ wish[f] = "off" /\ Len(disk[f]) > 1

\* A view that has read everything it was sent shows the document, also when
\* the document changed by the view's own clicks and by the CLI at once; only
\* what it missed while it was hidden is not there.
ViewIsCurrent ==
  view = "visible" /\ toView = <<>> /\ toHost = <<>> /\ ~missed
    => shown = Definitions(document.text)
=============================================================================
