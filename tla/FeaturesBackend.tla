--------------------------- MODULE FeaturesBackend ---------------------------
(***************************************************************************)
(* The feature file of a microservice and the backend process that serves  *)
(* it (typescript/backend/features/FeaturesProvider.ts).  Other processes  *)
(* (the vanir CLI, the Visual Studio Code editor, a person) rewrite        *)
(* .dolittle/features.json; chokidar tells the backend that something      *)
(* happened, and loadFeatures looks at the file again.                     *)
(*                                                                         *)
(* Contents are abstracted to the number of the edit that made them: edit  *)
(* 0 is "no features", what `new Features()` is.  A larger number is a     *)
(* later content of the file.                                              *)
(***************************************************************************)
EXTENDS Naturals

CONSTANT MaxEdits       \* bound: edits of the file in one behaviour

ASSUME MaxEditsAssumption == MaxEdits \in Nat

VARIABLES
  file,       \* [state, edit]: what is on the disk
  event,      \* chokidar has an 'all' event to raise (events are coalesced)
  backend,    \* what the one JavaScript thread of the backend is doing
  features    \* edit whose content the provider's BehaviorSubject holds

backendVars == <<file, event, backend, features>>

FileStates    == {"absent", "partial", "whole"}
BackendStates == {"down", "booting", "stuck", "idle", "loading"}

BackendTypeOK ==
  /\ file \in [state : FileStates, edit : Nat]
  /\ event \in BOOLEAN
  /\ backend \in BackendStates
  /\ features \in Nat

BackendInit ==
  /\ \E state \in {"absent", "whole"} :
       file = [state |-> state, edit |-> IF state = "whole" THEN 1 ELSE 0]
  /\ event = FALSE
  /\ backend = "down"
  /\ features = 0

-----------------------------------------------------------------------------
(* Processes outside the backend: they change the file whenever they like. *)

\* The watcher asks for files that are added only.
TouchAdded == event' = (event \/ (backend # "down" /\ file.state = "absent"))

\* A change reaches the watcher of a running backend only.
Touch == event' = (event \/ backend # "down")

\* File.WriteAllText truncates the file before it writes the new text ...
BeginWrite ==
  /\ file.state # "partial"
  /\ file.edit < MaxEdits
  /\ file' = [file EXCEPT !.state = "partial"]
  /\ Touch
  /\ UNCHANGED <<backend, features>>

\* ... and the new features are there when it is done.
FinishWrite ==
  /\ file.state = "partial"
  /\ file' = [state |-> "whole", edit |-> file.edit + 1]
  /\ Touch
  /\ UNCHANGED <<backend, features>>

Delete ==
  /\ file.state # "absent"
  /\ file.edit < MaxEdits
  /\ file' = [state |-> "absent", edit |-> file.edit + 1]
  /\ Touch
  /\ UNCHANGED <<backend, features>>

-----------------------------------------------------------------------------
(* loadFeatures, run for every event.  It checks that the file exists and  *)
(* then reads it: two system calls that the writers above can separate.    *)

\* existsSync is false: next(new Features()).
LoadMissing ==
  /\ backend = "idle"
  /\ event
  /\ file.state = "absent"
  /\ event' = FALSE
  /\ features' = file.edit
  /\ UNCHANGED <<file, backend>>

\* existsSync is true: go on to readFileSync.
LoadFound ==
  /\ backend = "idle"
  /\ event
  /\ file.state # "absent"
  /\ event' = FALSE
  /\ backend' = "loading"
  /\ UNCHANGED <<file, features>>

\* The text parses: next(features).
LoadParsed ==
  /\ backend = "loading"
  /\ file.state = "whole"
  /\ features' = file.edit
  /\ backend' = "idle"
  /\ UNCHANGED <<file, event>>

\* readFileSync (the file is gone) or JSON.parse (it is half written) throws:
\* the exception ends the event handler and the old features stay.
LoadThrows ==
  /\ backend = "loading"
  /\ file.state # "whole"
  /\ backend' = "idle"
  /\ UNCHANGED <<file, event, features>>

-----------------------------------------------------------------------------
(* The process.  The constructor of the provider loads the features before *)
(* anything is served.  An exception there ends Host.start, whose promise  *)
(* nobody awaits: the process stays, with its watcher, and never serves.   *)
(* features keeps its last value meanwhile: nothing reads it before it is  *)
(* set.                                                                    *)

Crash ==
  /\ backend # "down"
  /\ backend' = "down"
  /\ event' = FALSE
  /\ UNCHANGED <<file, features>>

\* The constructor finds no file: the provider starts with no features.
BootMissing ==
  /\ backend = "down"
  /\ file.state = "absent"
  /\ backend' = "idle"
  /\ features' = file.edit
  /\ UNCHANGED <<file, event>>

BootFound ==
  /\ backend = "down"
  /\ file.state # "absent"
  /\ backend' = "booting"
  /\ UNCHANGED <<file, event, features>>

\* chokidar reports a file it finds with an 'add' event after the start.
BootParsed ==
  /\ backend = "booting"
  /\ file.state = "whole"
  /\ backend' = "idle"
  /\ features' = file.edit
  /\ event' = TRUE
  /\ UNCHANGED file

BootThrows ==
  /\ backend = "booting"
  /\ file.state # "whole"
  /\ backend' = "stuck"
  /\ UNCHANGED <<file, event, features>>

=============================================================================
