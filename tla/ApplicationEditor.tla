------------------------- MODULE ApplicationEditor -------------------------
(***************************************************************************)
(* An application while it is worked with: create-dolittle-microservice    *)
(* adds microservices, the CLI connects them (EventHorizons), and Visual   *)
(* Studio Code shows them in a web view (ApplicationEditorProvider.ts,     *)
(* VisualEditor.ts, ApplicationsEditor.tsx).                               *)
(*                                                                         *)
(* The web view and the extension host send each other messages.  The      *)
(* places and the connections that are drawn are kept in a file            *)
(* `application.layout`; the view shows the last text it was sent, as it   *)
(* has been changed by hand since.  While it is hidden, the view does not  *)
(* exist: it is made anew from the last text it was sent.                  *)
(***************************************************************************)
EXTENDS EventHorizons, Sequences, Naturals

CONSTANTS
  Present,      \* microservices that are there at first
  MaxGestures,  \* bound: drags and connections drawn in the view
  MaxHides      \* bound: how often the view is hidden

ASSUME EditorAssumption == Present \subseteq Microservices /\ MaxGestures \in Nat /\ MaxHides \in Nat

VARIABLES
  listed,   \* the microservices in application.json
  written,  \* those whose microservice.json and folders are there
  places,   \* places[m]: where application.layout has m
  links,    \* the connections in application.layout
  toHost,   \* messages to the extension host, oldest first
  toView,   \* texts on their way to the view, oldest first
  view,     \* the editor: "closed", "visible" or "hidden"
  shown,    \* what the view shows
  state,    \* the text in the view's state, or NoFile
  stale,    \* the view missed something it is not told of (history)
  thrown,   \* connections whose message ended in an exception (history)
  gestures, \* gestures so far (bound)
  hides     \* how often the view has been hidden (bound)

layoutVars == <<places, links>>
channels == <<toHost, toView>>
bounds == <<gestures, hides>>
viewVars == <<view, shown, state, stale>>
appVars == <<listed, written>>
vars == <<horizonVars, appVars, layoutVars, channels, viewVars, thrown, bounds>>

Places == {"none", "grid", "hand"}
Texts == [nodes : SUBSET Microservices, places : [Microservices -> Places],
          links : SUBSET (Microservices \X Microservices)]

ASSUME NoTextAssumption == NoFile \notin Texts

Messages == [type : {"updateDocument"}]
  \cup [type : {"microserviceMoved"}, id : Microservices]
  \cup [type : {"connect"}, producer : Microservices, consumer : Microservices]

TypeOK ==
  /\ HorizonsTypeOK
  /\ listed \subseteq Microservices
  /\ written \subseteq listed
  /\ places \in [Microservices -> Places]
  /\ links \subseteq Microservices \X Microservices
  /\ toHost \in Seq(Messages)
  /\ toView \in Seq(Texts)
  /\ view \in {"closed", "visible", "hidden"}
  /\ shown \in Texts
  /\ state \in {NoFile} \cup Texts
  /\ stale \in BOOLEAN
  /\ thrown \subseteq Microservices \X Microservices
  /\ gestures \in Nat
  /\ hides \in Nat

NothingShown == [nodes |-> {}, places |-> [m \in Microservices |-> "none"], links |-> {}]

Init ==
  /\ HorizonsInit
  /\ listed = Present
  /\ written = listed
  /\ places = [m \in Microservices |-> "none"]
  /\ links = {}
  /\ toHost = <<>>
  /\ toView = <<>>
  /\ view = "closed"
  /\ shown = NothingShown
  /\ state = NoFile
  /\ stale = FALSE
  /\ thrown = {}
  /\ gestures = 0
  /\ hides = 0

Gesture == gestures < MaxGestures /\ gestures' = gestures + 1

-----------------------------------------------------------------------------
(* The extension host.  It handles one message at a time.                  *)

HostIdle == process[Editor].step = "new"

\* The grid is made anew for every text.
LaidOutAlways == [m \in Microservices |-> IF m \in written THEN "grid" ELSE "none"]

\* beforeUpdateDocumentInView: without a layout, all get places in a grid.
LaidOut ==
  IF \E m \in Microservices : places[m] # "none" THEN places
  ELSE [m \in Microservices |-> IF m \in written THEN "grid" ELSE "none"]

\* loadApplication: a microservice without its file is left out.
Text == [nodes |-> written, places |-> LaidOut, links |-> links]

\* updateWebview: a hidden view does not get the message, and a text knows
\* nothing of the gestures it passes on its way.
UpdateWebview(messages) ==
  /\ places' = LaidOut
  /\ toView' = IF view = "hidden" THEN toView ELSE Append(toView, Text)
  /\ stale' = (view = "hidden" \/ \E i \in 1..Len(messages) : messages[i].type # "updateDocument")

\* resolveCustomTextEditor; the page asks for the document as well, as it
\* has no state yet.
OpenEditor ==
  /\ view = "closed"
  /\ view' = "visible"
  /\ UpdateWebview(<<>>)
  /\ toHost' = <<[type |-> "updateDocument"]>>
  /\ UNCHANGED <<horizonVars, appVars, links, shown, state, thrown, bounds>>

Handle(type) ==
  /\ HostIdle
  /\ toHost # <<>>
  /\ Head(toHost).type = type
  /\ toHost' = Tail(toHost)

UpdateDocument ==
  /\ Handle("updateDocument")
  /\ UpdateWebview(toHost')
  /\ UNCHANGED <<horizonVars, appVars, links, view, shown, state, thrown, bounds>>

\* The message is taken, and the layout left as it is.
MoveIsLost ==
  /\ Handle("microserviceMoved")
  /\ UNCHANGED <<horizonVars, appVars, layoutVars, toView, viewVars, thrown, bounds>>

\* Only what has a place already can be moved.
MicroserviceMoved ==
  /\ Handle("microserviceMoved")
  /\ places' = [places EXCEPT ![Head(toHost).id] = IF @ = "none" THEN @ ELSE "hand"]
  /\ UNCHANGED <<horizonVars, appVars, links, toView, viewVars, thrown, bounds>>

\* connect: the first step of a connection; it goes on without a pause in
\* this process, but others may read and write files meanwhile.
ConnectMessage ==
  /\ Handle("connect")
  /\ IF {Head(toHost).producer, Head(toHost).consumer} \subseteq written
     THEN Begin(Editor, Head(toHost).producer, Head(toHost).consumer, FALSE)
     ELSE UNCHANGED horizonVars
  /\ UNCHANGED <<appVars, layoutVars, toView, viewVars, thrown, bounds>>

\* The connection is drawn in the layout before the files are saved.
SaveLayoutEarly ==
  /\ process[Editor].step = "saved"
  /\ process' = [process EXCEPT ![Editor] = At("new")]
  /\ links' = links \cup {Pair(Editor)}
  /\ UNCHANGED <<files, edit, overlapped, interrupted, disturbed, appVars, places,
                 channels, viewVars, thrown, bounds>>

\* ... and its last one: the connection goes into the layout.
SaveLayout ==
  /\ process[Editor].step = "drawing"
  /\ process' = [process EXCEPT ![Editor] = At("new")]
  /\ links' = links \cup {Pair(Editor)}
  /\ UNCHANGED <<files, edit, overlapped, interrupted, disturbed, appVars, places,
                 channels, viewVars, thrown, bounds>>

\* ProvideApplicationContext: a command ends at once when a microservice of
\* application.json has no microservice.json.
Provided == IF listed = written THEN written ELSE {}

\* The steps between, and the commands of the CLI.
Connecting ==
  /\ \/ CommandNext(Provided) /\ UNCHANGED thrown
     \/ Throw /\ thrown' = thrown \cup {Pair(Editor)}
  /\ UNCHANGED <<appVars, layoutVars, channels, viewVars, bounds>>

-----------------------------------------------------------------------------
(* The web view.                                                           *)

\* getElementsFrom: only a microservice of the text gets an element at its place.
ElementsFrom(text) ==
  [text EXCEPT !.places = [m \in Microservices |-> IF m \in text.nodes THEN @[m] ELSE "none"]]

\* The component is mounted: it shows its state, or asks for the document.
ShowView ==
  /\ view = "hidden"
  /\ view' = "visible"
  /\ IF state = NoFile
     THEN /\ toHost' = Append(toHost, [type |-> "updateDocument"])
          /\ shown' = NothingShown
          /\ UNCHANGED stale
     ELSE /\ shown' = ElementsFrom(state)
          /\ stale' = (stale \/ shown # shown')
          /\ UNCHANGED toHost
  /\ UNCHANGED <<horizonVars, appVars, layoutVars, toView, state, thrown, bounds>>

\* What was on its way is lost.
HideView ==
  /\ hides < MaxHides
  /\ hides' = hides + 1
  /\ view = "visible"
  /\ view' = "hidden"
  /\ toView' = <<>>
  /\ stale' = (stale \/ toView # <<>>)
  /\ UNCHANGED <<horizonVars, appVars, layoutVars, toHost, shown, state, thrown, gestures>>

\* handleMessages: everything is replaced.
Update ==
  /\ view = "visible"
  /\ toView # <<>>
  /\ toView' = Tail(toView)
  /\ shown' = ElementsFrom(Head(toView))
  /\ state' = Head(toView)
  /\ UNCHANGED <<horizonVars, appVars, layoutVars, toHost, view, stale, thrown, bounds>>

ElementMoved(m) ==
  /\ Gesture
  /\ view = "visible"
  /\ m \in shown.nodes
  /\ shown' = [shown EXCEPT !.places[m] = "hand"]
  /\ stale' = (stale \/ toView # <<>>)
  /\ toHost' = Append(toHost, [type |-> "microserviceMoved", id |-> m])
  /\ UNCHANGED <<horizonVars, appVars, layoutVars, toView, view, state, thrown, hides>>

OnConnect(p, c) ==
  /\ Gesture
  /\ view = "visible"
  /\ {p, c} \subseteq shown.nodes
  /\ p # c
  /\ shown' = [shown EXCEPT !.links = @ \cup {<<p, c>>}]
  /\ stale' = (stale \/ toView # <<>>)
  /\ toHost' = Append(toHost, [type |-> "connect", producer |-> p, consumer |-> c])
  /\ UNCHANGED <<horizonVars, appVars, layoutVars, toView, view, state, thrown, hides>>

-----------------------------------------------------------------------------
(* A new microservice: it is put into application.json, which the editor   *)
(* is told of, and then its files are written, which the editor is not.    *)

AppendMicroserviceToApplication(m) ==
  /\ m \notin listed
  /\ HostIdle
  /\ listed' = listed \cup {m}
  /\ IF view = "closed" THEN UNCHANGED <<places, toView, stale>> ELSE UpdateWebview(toHost)
  /\ UNCHANGED <<horizonVars, written, links, toHost, view, shown, state, thrown, bounds>>

WriteMicroservice(m) ==
  /\ m \in listed \ written
  /\ written' = written \cup {m}
  /\ stale' = (stale \/ view # "closed")
  /\ UNCHANGED <<horizonVars, listed, layoutVars, channels, view, shown, state, thrown, bounds>>

-----------------------------------------------------------------------------
Next ==
  \/ Connecting
  \/ OpenEditor \/ UpdateDocument \/ MicroserviceMoved \/ ConnectMessage \/ SaveLayout
  \/ ShowView \/ HideView \/ Update
  \/ \E m \in Microservices : ElementMoved(m)
  \/ \E p, c \in Microservices : OnConnect(p, c)
  \/ \E m \in Microservices : AppendMicroserviceToApplication(m) \/ WriteMicroservice(m)

Spec == Init /\ [][Next]_vars

-----------------------------------------------------------------------------
(* Properties.                                                             *)

\* A connection that is drawn in application.layout is there in the files:
\* the producer consents, the consumer has its event horizon, unless commands
\* got in the way of each other or overwrote it.
DrawnIsConnected ==
  \A p, c \in Microservices :
    <<p, c>> \in links \ disturbed =>
      /\ <<Development, c>> \in Contents(consents[p])
      /\ <<Development, p>> \in Contents(horizons[c])

\* When all messages have arrived, the view shows the microservices, places
\* and connections there are in the files, unless it missed a text, made it
\* cross a gesture, or a new microservice was written behind its back; except
\* for connections that could not be saved and moves of microservices that
\* have no place in the layout.
Settled == view = "visible" /\ toHost = <<>> /\ toView = <<>> /\ HostIdle

ViewIsCurrent ==
  Settled /\ ~stale =>
    /\ shown.nodes = written
    /\ shown.links \ thrown \subseteq links /\ links \subseteq shown.links
    /\ \A m \in Microservices : places[m] \in {"none", shown.places[m]}

\* A microservice that was moved by hand is never put back by the program:
\* its place in application.layout stays the one it was dragged to.
HandPlacesStay == [][\A m \in Microservices : places[m] = "hand" => places'[m] = "hand"]_vars
=============================================================================
